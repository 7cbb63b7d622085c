----------------------------- MODULE ScanResult -----------------------------
(***************************************************************************)
(* What core.RunScan returns, as the engine of the run command relies on   *)
(* it: two different endpoints among those that answered.                  *)
(***************************************************************************)
EXTENDS Integers

\* Mutant: all endpoints found are returned.
FoundAll(pinged) ==
    UNION {{s \in [1 .. n -> pinged] : \A i, j \in 1 .. n : s[i] = s[j] => i = j}
              : n \in 2 .. 3}

\* ipList[:2]
Found(pinged) == {s \in pinged \X pinged : s[1] # s[2]}
=============================================================================
