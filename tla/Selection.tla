------------------------------ MODULE Selection ------------------------------
(***************************************************************************)
(* Concurrent calls of RotationEngine.getNextBackend (core/rotation.go).   *)
(* A call holds the read lock, so the pool does not change under it, but   *)
(* other calls advance the shared counter and the health flags it has      *)
(* already looked at, or is about to look at, can fall.                    *)
(***************************************************************************)
EXTENDS RoundRobin, FiniteSets

CONSTANTS PoolLen,    \* n, the length of the pool
          Caller      \* the goroutines that call getNextBackend

ASSUME PoolLenAssumption == PoolLen \in Nat \ {0} /\ PoolLen <= Modulus

VARIABLES nextIndex,  \* RotationEngine.nextIndex
          healthy,    \* the health flag of each member
          call,       \* the call a caller is in, or was in last
          picks,      \* history: how often each member was returned
          quiet       \* history: no flag has fallen, no addition has wrapped

vars == <<nextIndex, healthy, call, picks, quiet>>

Member == 0 .. PoolLen - 1

\* state: idle, scanning, and how the last call ended.
Call == [state : {"idle", "scan", "found", "fallback"}, start : 0 .. Modulus - 1,
         i : 0 .. PoolLen, got : Member]

Init == /\ nextIndex = 0
        /\ healthy = [b \in Member |-> TRUE]
        /\ call = [c \in Caller |-> [state |-> "idle", start |-> 0, i |-> 0, got |-> 0]]
        /\ picks = [b \in Member |-> 0]
        /\ quiet = TRUE

InCall(c) == call[c].state = "scan"
At(c) == Index(call[c].start, call[c].i, PoolLen)

\* startIndex := nextIndex.Add(1) - 1
Enter(c) ==
    /\ ~InCall(c)
    /\ call' = [call EXCEPT ![c].state = "scan", ![c].start = nextIndex, ![c].i = 0]
    /\ nextIndex' = Bump(nextIndex)
    /\ quiet' = (quiet /\ NoWrap(nextIndex, PoolLen))
    /\ UNCHANGED <<healthy, picks>>

\* Mutant: the loop stops one index too early.
ScannedEarly(c) == call[c].i = PoolLen - 1

\* The loop has looked at n indices.
Scanned(c) == call[c].i = PoolLen

\* One turn of the loop: the member is returned if its flag is up.
Look(c) ==
    /\ InCall(c) /\ ~Scanned(c)
    /\ IF healthy[At(c)]
       THEN /\ call' = [call EXCEPT ![c].state = "found", ![c].got = At(c)]
            /\ picks' = IF quiet THEN [picks EXCEPT ![At(c)] = @ + 1] ELSE picks
       ELSE /\ call' = [call EXCEPT ![c].i = @ + 1]
            /\ UNCHANGED picks
    /\ UNCHANGED <<nextIndex, healthy, quiet>>

\* No flag was up: the first member is returned anyway.
FallBack(c) ==
    /\ InCall(c) /\ Scanned(c)
    /\ call' = [call EXCEPT ![c].state = "fallback", ![c].got = 0]
    /\ UNCHANGED <<nextIndex, healthy, picks, quiet>>

\* A wiresocks goroutine or a frontend handler lowers a flag: no lock needed.
MarkUnhealthy(b) ==
    /\ healthy[b]
    /\ healthy' = [healthy EXCEPT ![b] = FALSE]
    /\ quiet' = FALSE
    /\ UNCHANGED <<nextIndex, call, picks>>

\* The monitor, the rotator or a replacer puts another backend in the place,
\* under the write lock.
Replace(b) ==
    /\ ~healthy[b]
    /\ \A c \in Caller : ~InCall(c)
    /\ healthy' = [healthy EXCEPT ![b] = TRUE]
    /\ call' = [c \in Caller |-> [call[c] EXCEPT !.state = "idle"]]
    /\ UNCHANGED <<nextIndex, picks, quiet>>

Next == \/ \E c \in Caller : Enter(c) \/ Look(c) \/ FallBack(c)
        \/ \E b \in Member : MarkUnhealthy(b) \/ Replace(b)

Spec == Init /\ [][Next]_vars

-----------------------------------------------------------------------------
\* The variables have their types.
TypeOK == /\ nextIndex \in 0 .. Modulus - 1
          /\ healthy \in [Member -> BOOLEAN]
          /\ call \in [Caller -> Call]
          /\ picks \in [Member -> Nat]
          /\ quiet \in BOOLEAN

\* A call falls back on the first member only when no member is healthy, as
\* long as its additions do not wrap around: the scan misses nobody, however
\* many calls share the counter and whatever flags fall meanwhile.
FallBackIsLastResort ==
    \A c \in Caller :
        call[c].state = "fallback" /\ NoWrap(call[c].start, PoolLen)
            => \A b \in Member : ~healthy[b]

\* Up to the calls that are under way, the members are returned equally often
\* as long as no flag falls and the counter does not wrap.
Balanced ==
    \A a, b \in Member :
        quiet => picks[a] <= picks[b] + 1 + Cardinality({c \in Caller : InCall(c)})
=============================================================================
