---------------------------- MODULE EndpointCache ----------------------------
(***************************************************************************)
(* The endpoint cache of core/cache/cache.go: a list in the memory of each *)
(* command, guarded by a mutex, and the file endpoints.json they share.    *)
(*                                                                         *)
(* Every command loads the file when it starts (cmd/root.go); one that     *)
(* scans loads it again when it makes its scanner, adds what its pings     *)
(* find, and writes the file when the scan has stopped.  A command may end *)
(* at any step: it is killed, or run exits since its scan has failed and   *)
(* does not wait for the goroutine that saves.  Nothing keeps two commands *)
(* from sharing the file.                                                  *)
(***************************************************************************)
EXTENDS Integers, FiniteSets

CONSTANTS Command,     \* processes
          Address,     \* endpoints
          MaxFailures  \* maxFailures

ASSUME CacheAssumption == MaxFailures \in Nat \ {0}

VARIABLES
    at,        \* where a command is
    mem,       \* Cache.Endpoints of a command: endpoint -> failures
    file,      \* endpoints.json
    due,       \* history: endpoints a command has loaded or found, and not dropped
    kept,      \* history: what was due of the command that wrote the file
    rewritten, \* history: what is due of a command, and was not of another one that
               \* wrote the file between the first load of the command and the second
    cutShort   \* history: the last write was cut short, or overlapped another

vars == <<at, mem, file, due, kept, rewritten, cutShort>>

Entries == UNION {[D -> 0 .. MaxFailures - 1] : D \in SUBSET Address}
None == [a \in {} |-> 0]

Init ==
    /\ at = [p \in Command |-> "off"]
    /\ mem = [p \in Command |-> None]
    /\ file = [state |-> "missing", has |-> None]
    /\ due = [p \in Command |-> {}]
    /\ kept = {}
    /\ rewritten = [p \in Command |-> {}]
    /\ cutShort = FALSE

\* The mutex: no other operation of the command runs while it writes the file.
Free(p) == at[p] \in {"up", "scan", "stopped"}

-----------------------------------------------------------------------------
(* LoadCache.                                                              *)

\* Mutant: a file that cannot be read empties the list.
LoadedOrNone(p) == IF file.state = "whole" THEN file.has ELSE None

\* A whole file replaces the list.  Without a file, or with one that
\* json.Unmarshal refuses before it touches the list, the list stays.
Loaded(p) == IF file.state = "whole" THEN file.has ELSE mem[p]

LoadCache(p) ==
    /\ mem' = [mem EXCEPT ![p] = Loaded(p)]
    /\ due' = [due EXCEPT ![p] = IF file.state = "whole" THEN @ \cup kept ELSE @]

\* A command starts.
Start(p) ==
    /\ at[p] = "off"
    /\ LoadCache(p)
    /\ at' = [at EXCEPT ![p] = "up"]
    /\ UNCHANGED <<file, kept, rewritten, cutShort>>

\* It makes a scanner: what others have written meanwhile makes no difference if
\* the file cannot be read.
NewScanner(p) ==
    /\ at[p] = "up"
    /\ LoadCache(p)
    /\ at' = [at EXCEPT ![p] = "scan"]
    /\ rewritten' = [rewritten EXCEPT ![p] = IF file.state = "whole" THEN @ ELSE {}]
    /\ UNCHANGED <<file, kept, cutShort>>

-----------------------------------------------------------------------------
(* The operations on the list.                                             *)

With(f, a, n) == [b \in DOMAIN f \cup {a} |-> IF b = a THEN n ELSE f[b]]
Without(f, a) == [b \in DOMAIN f \ {a} |-> f[b]]

\* A ping has succeeded: the endpoint is added or updated.
SaveEndpoint(p, a) ==
    /\ at[p] = "scan"
    /\ mem' = [mem EXCEPT ![p] = With(@, a, 0)]
    /\ due' = [due EXCEPT ![p] = @ \cup {a}]
    /\ rewritten' = [rewritten EXCEPT ![p] = @ \ {a}]
    /\ UNCHANGED <<at, file, kept, cutShort>>

\* Mutant: an endpoint is given one failure more.
TooManyLate(n) == n > MaxFailures

TooMany(n) == n >= MaxFailures

\* The commands never report a failure or a success, although the cache is made
\* for it: these two have the tests of the cache as their only callers.
RecordFailure(p, a) ==
    /\ Free(p) /\ a \in DOMAIN mem[p]
    /\ IF TooMany(mem[p][a] + 1)
       THEN mem' = [mem EXCEPT ![p] = Without(@, a)]
       ELSE mem' = [mem EXCEPT ![p][a] = @ + 1]
    /\ due' = [due EXCEPT ![p] = IF mem[p][a] = MaxFailures - 1 THEN @ \ {a} ELSE @]
    /\ UNCHANGED <<at, file, kept, rewritten, cutShort>>

RecordSuccess(p, a) ==
    /\ Free(p) /\ a \in DOMAIN mem[p]
    /\ mem' = [mem EXCEPT ![p][a] = 0]
    /\ UNCHANGED <<at, file, due, kept, rewritten, cutShort>>

-----------------------------------------------------------------------------
(* SaveCache, when the scan has stopped: os.WriteFile truncates the file   *)
(* and writes it.                                                          *)

Writing(p) == at[p] = "write"
OthersWrite(p) == \E q \in Command \ {p} : Writing(q)

\* Mutant: the file is opened without O_TRUNC.
OpenedAsIs == file

Opened == [state |-> "empty", has |-> None]

Open(p) ==
    /\ at[p] = "scan"
    /\ at' = [at EXCEPT ![p] = "write"]
    /\ file' = Opened
    /\ cutShort' = OthersWrite(p)
    /\ UNCHANGED <<mem, due, kept, rewritten>>

Whole(f) == [state |-> "whole", has |-> f]
Torn     == [state |-> "torn", has |-> None]

\* What of its list a command owes to the file.
Owed(p) == due[p] \ rewritten[p]

\* Over what another command has written since, a shorter list leaves the rest
\* of the longer one behind.
Write(p) ==
    /\ Writing(p)
    /\ at' = [at EXCEPT ![p] = "stopped"]
    /\ file' \in IF file.state = "empty"
                 THEN {Whole(mem[p])} ELSE {Whole(mem[p]), Torn}
    /\ kept' = Owed(p)
    /\ rewritten' = [q \in Command |-> IF at[q] = "up" THEN due[q] \ Owed(p) ELSE rewritten[q]]
    /\ UNCHANGED <<mem, due, cutShort>>

\* The write fails, at its first byte or a later one.
WriteFails(p) ==
    /\ Writing(p)
    /\ at' = [at EXCEPT ![p] = "stopped"]
    /\ file' \in {file, Torn}
    /\ cutShort' = TRUE
    /\ UNCHANGED <<mem, due, kept, rewritten>>

\* The command ends, in the middle of a write too.
End(p) ==
    /\ at[p] # "off"
    /\ at' = [at EXCEPT ![p] = "off"]
    /\ mem' = [mem EXCEPT ![p] = None]
    /\ due' = [due EXCEPT ![p] = {}]
    /\ rewritten' = [rewritten EXCEPT ![p] = {}]
    /\ file' \in IF Writing(p) THEN {file, Torn} ELSE {file}
    /\ cutShort' = (cutShort \/ Writing(p))
    /\ UNCHANGED kept

Run(p) == \/ Start(p) \/ NewScanner(p) \/ Open(p) \/ Write(p) \/ WriteFails(p) \/ End(p)
          \/ \E a \in Address : SaveEndpoint(p, a) \/ RecordFailure(p, a) \/ RecordSuccess(p, a)

Next == \E p \in Command : Run(p)

Spec == Init /\ [][Next]_vars

-----------------------------------------------------------------------------
\* The variables have their types: no list holds an endpoint that has failed
\* MaxFailures times.
TypeOK ==
    /\ at \in [Command -> {"off", "up", "scan", "write", "stopped"}]
    /\ mem \in [Command -> Entries]
    /\ file.state \in {"missing", "empty", "torn", "whole"} /\ file.has \in Entries
    /\ due \in [Command -> SUBSET Address] /\ rewritten \in [Command -> SUBSET Address]
    /\ kept \subseteq Address
    /\ cutShort \in BOOLEAN

\* An endpoint that a command has found, or has loaded, stays in its list until it
\* has failed MaxFailures times, and goes into the file it writes, wherever
\* commands end.  Only the second load can drop one otherwise, and only if another
\* command that did not owe it has written the whole file since the first: without
\* such a write, and when the file was truncated or torn meanwhile, it stays.
NothingForgotten ==
    /\ \A p \in Command :
          due[p] \subseteq DOMAIN mem[p] \cup (IF at[p] = "up" THEN {} ELSE rewritten[p])
    /\ file.state = "whole" => kept \subseteq DOMAIN file.has

\* The file cannot be read only while it is written, or after a write of it was
\* cut short (the command ended, the write failed) or two of them overlapped;
\* the next command that saves on its own mends it.
ReadableUnlessCutShort ==
    (~cutShort /\ \A p \in Command : ~Writing(p)) => file.state \in {"missing", "whole"}
=============================================================================
