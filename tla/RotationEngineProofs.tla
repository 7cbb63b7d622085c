------------------------ MODULE RotationEngineProofs ------------------------
(***************************************************************************)
(* Theorems about RotationEngine, for every pool size, heap and number of  *)
(* failures.  Whatever fails: its variables keep their types; the pool,    *)
(* the ports that replacers have still to start and those Run has still to *)
(* start together never exceed PoolSize; and a place is lost by a failed   *)
(* start only, one at a time.  While nothing fails: the pool serves, no    *)
(* running backend is forgotten, and the rotator treats places evenly.     *)
(***************************************************************************)
EXTENDS RotationEngine, FiniteSetTheorems, SequenceTheorems, TLAPS

\* A thread past the first step of a start has a port to start, past the second
\* a backend as well, and the rotator has the backend it is to replace.
ThreadOK ==
    /\ \A t \in Thread : step[t] # "idle" => todo[t] # <<>>
    /\ \A t \in Thread : step[t] \in {"wait", "probe", "ready"} => cur[t] \in Backend
    /\ step[Rotator] # "idle" => old \in Backend
    /\ old # NoBackend => step[Rotator] # "idle"

TypeInv == TypeOK /\ ThreadOK

-----------------------------------------------------------------------------
(* Threads.                                                                *)

\* The goroutines are different from each other.
LEMMA ThreadFacts == /\ Main \in Thread /\ Rotator \in Thread
                     /\ Rotator # Main /\ Rotator \notin Replacer
                     /\ Main \notin Replacer
                     /\ Replacer \subseteq Thread
  BY PoolAssumption DEF Thread, Main, Rotator, Replacer

\* Advance drops the port just started and leaves the rest well typed.
LEMMA AdvanceType ==
  ASSUME TypeInv, NEW t \in Thread, step[t] # "idle", Advance(t)
  PROVE  /\ todo' \in [Thread -> Seq(Nat)]
         /\ cur' \in [Thread -> Backend \cup {NoBackend}]
         /\ step' \in [Thread -> {"idle", "begin", "wait", "probe", "ready"}]
         /\ slot' \in 1 .. PoolSize
         /\ old' \in Backend \cup {NoBackend}
         /\ ThreadOK'
<1>1. todo[t] \in Seq(Nat) /\ todo[t] # <<>>
  BY DEF TypeInv, TypeOK, ThreadOK
<1>2. Tail(todo[t]) \in Seq(Nat)
  BY <1>1, HeadTailProperties
<1>3. todo' \in [Thread -> Seq(Nat)]
  BY <1>2 DEF Advance, TypeInv, TypeOK
<1>4. /\ cur' \in [Thread -> Backend \cup {NoBackend}]
      /\ step' \in [Thread -> {"idle", "begin", "wait", "probe", "ready"}]
  BY DEF Advance, TypeInv, TypeOK
<1>5. /\ slot' \in 1 .. PoolSize
      /\ old' \in Backend \cup {NoBackend}
  BY PoolAssumption DEF Advance, NextSlot, TypeInv, TypeOK
<1>6. ThreadOK'
  BY ThreadFacts, HeapAssumption DEF Advance, TypeInv, TypeOK, ThreadOK
<1> QED BY <1>3, <1>4, <1>5, <1>6

-----------------------------------------------------------------------------
(* Types.                                                                  *)

\* What happens to an object: its goroutine moves on, or its context is done.
LEMMA ObjectUpdate ==
  ASSUME NEW o \in Object, NEW flag \in BOOLEAN,
         NEW w \in {"spawned", "listening", "failed", "closed"}
  PROVE  /\ [o EXCEPT !.ws = w, !.healthy = flag] \in Object
         /\ [o EXCEPT !.ws = w, !.cancelled = flag] \in Object
  BY DEF Object

\* The same, for the object in its heap.
LEMMA HeapUpdate ==
  ASSUME NEW heap \in [Backend -> Object], NEW b \in Backend, NEW flag \in BOOLEAN,
         NEW w \in {"spawned", "listening", "failed", "closed"}
  PROVE  /\ [heap EXCEPT ![b].ws = w, ![b].healthy = flag] \in [Backend -> Object]
         /\ [heap EXCEPT ![b].ws = w, ![b].cancelled = flag] \in [Backend -> Object]
<1>1. /\ [heap EXCEPT ![b].ws = w, ![b].healthy = flag]
           = [heap EXCEPT ![b] = [heap[b] EXCEPT !.ws = w, !.healthy = flag]]
      /\ [heap EXCEPT ![b].ws = w, ![b].cancelled = flag]
           = [heap EXCEPT ![b] = [heap[b] EXCEPT !.ws = w, !.cancelled = flag]]
  BY DEF Object
<1> QED BY <1>1, ObjectUpdate

\* Cancelling the contexts of some backends leaves the heap well typed.
LEMMA HeapCancel ==
  ASSUME NEW heap \in [Backend -> Object], NEW gone
  PROVE  [b \in Backend |-> IF b \in gone THEN [heap[b] EXCEPT !.cancelled = TRUE]
                                          ELSE heap[b]] \in [Backend -> Object]
<1>1. \A b \in Backend : [heap[b] EXCEPT !.cancelled = TRUE] \in Object
  BY DEF Object
<1> QED BY <1>1

\* The engine starts well typed, before any backend exists.
LEMMA InitType == Init => TypeInv
<1> SUFFICES ASSUME Init PROVE TypeInv
  OBVIOUS
<1>1. disk \in [Leftover -> Identity]
  BY IdentityAssumption DEF Init
<1>2. inst \in [Backend -> Object]
  <2>1. (CHOOSE i \in Identity : TRUE) \in Identity
    BY IdentityAssumption
  <2> QED BY <2>1, PortAssumption DEF Init, Object
<1>3. todo \in [Thread -> Seq(Nat)]
  <2>1. [i \in 1 .. PoolSize |-> PortStart + i - 1] \in Seq(Nat)
    <3>1. \A i \in 1 .. PoolSize : PortStart + i - 1 \in Nat
      BY PoolAssumption, PortAssumption
    <3> QED BY <3>1, PoolAssumption, SeqDef
  <2>2. <<>> \in Seq(Nat)
    BY EmptySeq
  <2> QED BY <2>1, <2>2 DEF Init
<1>4. pool \in Seq(Backend)
  BY EmptySeq DEF Init
<1>5. TypeOK
  <2>1. DOMAIN disk \subseteq Nat /\ disk \in [DOMAIN disk -> Identity]
    BY <1>1, IdentityAssumption
  <2>2. /\ cleaning \subseteq Backend
        /\ phase \in {"init", "serving", "returned", "failed"}
        /\ slot \in 1 .. PoolSize
        /\ old \in Backend \cup {NoBackend}
        /\ failures \in 0 .. MaxFailures
    BY PoolAssumption, BoundAssumption DEF Init
  <2>3. /\ step \in [Thread -> {"idle", "begin", "wait", "probe", "ready"}]
        /\ cur \in [Thread -> Backend \cup {NoBackend}]
    BY DEF Init
  <2>4. /\ monitoring \in BOOLEAN /\ rotating \in BOOLEAN
        /\ engineDone \in BOOLEAN /\ stopped \in BOOLEAN /\ panicked \in BOOLEAN
    BY Zenon DEF Init
  <2> QED BY <1>2, <1>3, <1>4, <2>1, <2>2, <2>3, <2>4 DEF TypeOK
<1>6. ThreadOK
  <2>1. step = [t \in Thread |-> "idle"] /\ old = NoBackend
    BY DEF Init
  <2> QED BY <2>1, ThreadFacts DEF ThreadOK
<1> QED BY <1>5, <1>6 DEF TypeInv

\* MonitorCheck leaves a pool of survivors and gives a replacer their ports.
LEMMA InOrderFacts ==
  ASSUME NEW n \in Nat, NEW S \in SUBSET (1 .. n), NEW f \in InOrder(S)
  PROVE  /\ Cardinality(S) \in Nat
         /\ f \in [1 .. Cardinality(S) -> S]
         /\ \A i, j \in 1 .. Cardinality(S) : f[i] = f[j] => i = j
<1>1. IsFiniteSet(S)
  <2>1. IsFiniteSet(1 .. n)
    BY FS_Interval
  <2> QED BY <2>1, FS_Subset
<1>2. Cardinality(S) \in Nat
  BY <1>1, FS_CardinalityType
<1>3. \A i, j \in 1 .. Cardinality(S) : f[i] = f[j] => i = j
  <2> SUFFICES ASSUME NEW i \in 1 .. Cardinality(S), NEW j \in 1 .. Cardinality(S),
                      i < j
               PROVE  f[i] # f[j]
    BY <1>2
  <2>1. f[i] < f[j] /\ f[i] \in 1 .. n /\ f[j] \in 1 .. n
    BY DEF InOrder
  <2> QED BY <2>1
<1> QED BY <1>2, <1>3 DEF InOrder

\* The parts of MonitorCheck, with names.
LEMMA MonitorFacts ==
  ASSUME TypeInv, MonitorCheck
  PROVE  \E good \in SUBSET DOMAIN pool, bad \in SUBSET DOMAIN pool :
         \E kept \in InOrder(good), failed \in InOrder(bad), r \in Replacer :
            /\ good \cap bad = {} /\ good \cup bad = DOMAIN pool /\ bad # {}
            /\ todo[r] = <<>>
            /\ pool' = [i \in DOMAIN kept |-> pool[kept[i]]]
            /\ todo' = [todo EXCEPT ![r] =
                          [i \in DOMAIN failed |-> inst[pool[failed[i]]].port]]
<1> DEFINE good == {i \in DOMAIN pool : Sound(pool[i])}
           bad  == DOMAIN pool \ good
<1>1. PICK kept \in InOrder(good), failed \in InOrder(bad), r \in Replacer :
            /\ todo[r] = <<>>
            /\ pool' = [i \in DOMAIN kept |-> pool[kept[i]]]
            /\ todo' = [todo EXCEPT ![r] =
                          [i \in DOMAIN failed |-> inst[pool[failed[i]]].port]]
  BY Zenon DEF MonitorCheck
<1>2. bad # {}
  BY Zenon DEF MonitorCheck
<1>3. /\ good \in SUBSET DOMAIN pool /\ bad \in SUBSET DOMAIN pool
      /\ good \cap bad = {} /\ good \cup bad = DOMAIN pool
  OBVIOUS
<1> HIDE DEF good, bad
<1>4. \E kp \in InOrder(good), fl \in InOrder(bad), s \in Replacer :
            /\ good \cap bad = {} /\ good \cup bad = DOMAIN pool /\ bad # {}
            /\ todo[s] = <<>>
            /\ pool' = [i \in DOMAIN kp |-> pool[kp[i]]]
            /\ todo' = [todo EXCEPT ![s] =
                          [i \in DOMAIN fl |-> inst[pool[fl[i]]].port]]
  BY <1>1, <1>2, <1>3, Zenon
<1> QED BY <1>3, <1>4, Zenon

\* The health check leaves a pool of backends and hands on lists of ports.
LEMMA MonitorType ==
  ASSUME TypeInv, MonitorCheck
  PROVE  pool' \in Seq(Backend) /\ todo' \in [Thread -> Seq(Nat)]
<1>1. PICK good \in SUBSET DOMAIN pool, bad \in SUBSET DOMAIN pool :
         \E kept \in InOrder(good), failed \in InOrder(bad), r \in Replacer :
            /\ good \cap bad = {} /\ good \cup bad = DOMAIN pool /\ bad # {}
            /\ todo[r] = <<>>
            /\ pool' = [i \in DOMAIN kept |-> pool[kept[i]]]
            /\ todo' = [todo EXCEPT ![r] =
                          [i \in DOMAIN failed |-> inst[pool[failed[i]]].port]]
  BY MonitorFacts
<1>2. PICK kept \in InOrder(good), failed \in InOrder(bad), r \in Replacer :
            /\ pool' = [i \in DOMAIN kept |-> pool[kept[i]]]
            /\ todo' = [todo EXCEPT ![r] =
                          [i \in DOMAIN failed |-> inst[pool[failed[i]]].port]]
  BY <1>1
<1>3. Len(pool) \in Nat /\ DOMAIN pool = 1 .. Len(pool)
      /\ pool \in [1 .. Len(pool) -> Backend]
  BY LenProperties DEF TypeInv, TypeOK
<1>4. /\ Cardinality(good) \in Nat /\ kept \in [1 .. Cardinality(good) -> good]
      /\ Cardinality(bad) \in Nat /\ failed \in [1 .. Cardinality(bad) -> bad]
  BY <1>3, InOrderFacts
<1>5. pool' \in Seq(Backend)
  <2>1. pool' \in [1 .. Cardinality(good) -> Backend]
    BY <1>2, <1>3, <1>4
  <2> QED BY <2>1, <1>4, SeqDef
<1>6. [i \in DOMAIN failed |-> inst[pool[failed[i]]].port] \in Seq(Nat)
  <2>1. \A i \in 1 .. Cardinality(bad) : inst[pool[failed[i]]].port \in Nat
    BY <1>3, <1>4 DEF TypeInv, TypeOK, Object
  <2> QED BY <2>1, <1>4, SeqDef
<1>7. todo' \in [Thread -> Seq(Nat)]
  BY <1>2, <1>6, ThreadFacts DEF TypeInv, TypeOK
<1> QED BY <1>5, <1>7

-----------------------------------------------------------------------------
(* Every step keeps the types.                                             *)

\* The steps of startBackend keep the types, whichever thread takes them.
LEMMA StartType ==
  ASSUME TypeInv, NEW t \in Thread, StartSteps(t)
  PROVE  TypeInv'
<1> USE DEF lifeVars, endVars, threadVars
<1>1. CASE IdentityFails(t)
  <2>1. Advance(t) /\ step[t] # "idle"
    BY <1>1 DEF IdentityFails
  <2>2. failures' \in 0 .. MaxFailures
    BY <1>1, BoundAssumption DEF IdentityFails, Fails, MayFail, TypeInv, TypeOK
  <2> QED BY <1>1, <2>1, <2>2, AdvanceType DEF IdentityFails, TypeInv, TypeOK
<1>2. CASE CreateBackend(t)
  <2> DEFINE p == Head(todo[t])
  <2>1. p \in Nat /\ step[t] = "begin" /\ todo[t] # <<>>
    BY <1>2, HeadTailProperties DEF CreateBackend, TypeInv, TypeOK, ThreadOK
  <2>2. /\ DOMAIN disk' \subseteq Nat
        /\ disk' \in [DOMAIN disk' -> Identity]
        /\ p \in DOMAIN disk'
    <3>1. LoadOrCreateIdentity(p)
      BY <1>2 DEF CreateBackend
    <3>2. CASE p \in DOMAIN disk
      BY <3>1, <3>2 DEF LoadOrCreateIdentity, TypeInv, TypeOK
    <3>3. CASE p \notin DOMAIN disk
      BY <3>1, <3>3, <2>1 DEF LoadOrCreateIdentity, TypeInv, TypeOK
    <3> QED BY <3>2, <3>3
  <2>3. CASE panicked' = TRUE /\ UNCHANGED <<inst, threadVars, failures>>
    BY <1>2, <2>2, <2>3 DEF CreateBackend, TypeInv, TypeOK, ThreadOK
  <2>4. CASE Fails /\ Advance(t) /\ UNCHANGED <<inst, panicked>>
    <3>1. failures' \in 0 .. MaxFailures
      BY <2>4, BoundAssumption DEF Fails, MayFail, TypeInv, TypeOK
    <3> QED BY <1>2, <2>1, <2>2, <2>4, <3>1, AdvanceType DEF CreateBackend, TypeInv, TypeOK
  <2>5. CASE /\ \E b \in Backend : NewBackend(b, p, disk'[p]) /\ cur' = [cur EXCEPT ![t] = b]
             /\ step' = [step EXCEPT ![t] = "wait"]
             /\ UNCHANGED <<todo, slot, old, panicked, failures>>
    <3>1. inst' \in [Backend -> Object]
      BY <2>1, <2>2, <2>5 DEF NewBackend, Object, TypeInv, TypeOK
    <3>2. /\ cur' \in [Thread -> Backend \cup {NoBackend}]
          /\ step' \in [Thread -> {"idle", "begin", "wait", "probe", "ready"}]
          /\ ThreadOK'
      BY <2>1, <2>5 DEF TypeInv, TypeOK, ThreadOK
    <3> QED BY <1>2, <2>2, <2>5, <3>1, <3>2 DEF CreateBackend, TypeInv, TypeOK
  <2> QED BY <1>2, <2>3, <2>4, <2>5 DEF CreateBackend
<1>3. CASE StartProbe(t)
  BY <1>3 DEF StartProbe, TypeInv, TypeOK, ThreadOK
<1>4. CASE ProbeAnswered(t)
  BY <1>4 DEF ProbeAnswered, TypeInv, TypeOK, ThreadOK
<1>5. CASE ProbeRefused(t)
  BY <1>5 DEF ProbeRefused, TypeInv, TypeOK, ThreadOK
<1>6. CASE WaitFails(t)
  <2>1. Advance(t) /\ step[t] # "idle" /\ cur[t] \in Backend
    BY <1>6 DEF WaitFails, TypeInv, ThreadOK
  <2>2. failures' \in 0 .. MaxFailures
    BY <1>6, BoundAssumption DEF WaitFails, Fails, MayFail, TypeInv, TypeOK
  <2>3. inst' \in [Backend -> Object]
    BY <1>6, <2>1 DEF WaitFails, TypeInv, TypeOK, Object
  <2> QED BY <1>6, <2>1, <2>2, <2>3, AdvanceType DEF WaitFails, TypeInv, TypeOK
<1> QED BY <1>1, <1>2, <1>3, <1>4, <1>5, <1>6 DEF StartSteps

\* So do those of Run and of a replacer.
LEMMA PoolThreadsType ==
  ASSUME TypeInv, NEW t \in Thread,
         NextPort(t) \/ AppendBackend(t) \/ FinishInit \/ RunReturns
  PROVE  TypeInv'
<1> USE DEF lifeVars, endVars, threadVars
<1>1. CASE NextPort(t)
  <2>1. todo' \in [Thread -> Seq(Nat)]
    BY <1>1, EmptySeq DEF NextPort, TypeInv, TypeOK
  <2>2. CASE engineDone
    BY <1>1, <2>1, <2>2 DEF NextPort, TypeInv, TypeOK, ThreadOK
  <2>3. CASE ~engineDone
    <3>1. /\ t # Rotator /\ todo[t] # <<>>
          /\ step' = [step EXCEPT ![t] = "begin"]
          /\ UNCHANGED <<todo, phase, cur, old>>
      BY <1>1, <2>3 DEF NextPort
    <3>2. ThreadOK' /\ step' \in [Thread -> {"idle", "begin", "wait", "probe", "ready"}]
      BY <3>1, ThreadFacts DEF TypeInv, TypeOK, ThreadOK
    <3> QED BY <1>1, <2>1, <3>1, <3>2 DEF NextPort, TypeInv, TypeOK
  <2> QED BY <2>2, <2>3
<1>2. CASE AppendBackend(t)
  <2>1. Advance(t) /\ step[t] # "idle" /\ cur[t] \in Backend
    BY <1>2 DEF AppendBackend, TypeInv, ThreadOK
  <2>2. pool' \in Seq(Backend)
    BY <1>2, <2>1 DEF AppendBackend, TypeInv, TypeOK
  <2> QED BY <1>2, <2>1, <2>2, AdvanceType DEF AppendBackend, TypeInv, TypeOK
<1>3. CASE FinishInit
  <2>1. failures' \in 0 .. MaxFailures
    BY <1>3, BoundAssumption DEF FinishInit, Fails, MayFail, TypeInv, TypeOK
  <2>2. /\ phase' \in {"init", "serving", "returned", "failed"}
        /\ monitoring' \in BOOLEAN /\ rotating' \in BOOLEAN
        /\ UNCHANGED <<pool, inst, disk, cleaning, threadVars, endVars>>
    BY <1>3 DEF FinishInit, TypeInv, TypeOK
  <2> QED BY <2>1, <2>2 DEF TypeInv, TypeOK, ThreadOK
<1>4. CASE RunReturns
  BY <1>4 DEF RunReturns, TypeInv, TypeOK, ThreadOK
<1> QED BY <1>1, <1>2, <1>3, <1>4

\* So do those of the rotator.
LEMMA RotatorType ==
  ASSUME TypeInv, Rotating
  PROVE  TypeInv'
<1> USE DEF lifeVars, endVars, threadVars
<1>0. /\ Len(pool) \in Nat /\ DOMAIN pool = 1 .. Len(pool)
      /\ \A i \in 1 .. Len(pool) : pool[i] \in Backend
      /\ slot \in Nat \ {0}
  BY LenProperties, PoolAssumption DEF TypeInv, TypeOK
<1>1. CASE RotatorTick
  <2>1. CASE slot > Len(pool)
    <3>1. slot' \in 1 .. PoolSize
      BY <1>1, <2>1, PoolAssumption DEF RotatorTick, NextSlot, TempPort, TypeInv, TypeOK
    <3> QED BY <1>1, <2>1, <3>1 DEF RotatorTick, NextSlot, TempPort, TypeInv, TypeOK, ThreadOK
  <2>2. CASE ~(slot > Len(pool))
    <3>1. pool[slot] \in Backend
      BY <1>0, <2>2
    <3>2. inst[pool[slot]].port + TempOffset \in Nat
      BY <3>1, PortAssumption DEF TypeInv, TypeOK, Object
    <3>3. todo' \in [Thread -> Seq(Nat)] /\ todo'[Rotator] # <<>>
          /\ \A t \in Thread \ {Rotator} : todo'[t] = todo[t]
      <4> DEFINE p == inst[pool[slot]].port + TempOffset
      <4>1. todo' = [todo EXCEPT ![Rotator] = <<p>>] /\ todo \in [Thread -> Seq(Nat)]
        BY <1>1, <2>2 DEF RotatorTick, NextSlot, TempPort, TypeInv, TypeOK
      <4>2. <<p>> \in Seq(Nat) /\ <<p>> # <<>>
        BY <3>2
      <4> HIDE DEF p
      <4> QED BY <4>1, <4>2, ThreadFacts
    <3> QED BY <1>1, <2>2, <3>1, <3>3, ThreadFacts
        DEF RotatorTick, NextSlot, TempPort, TypeInv, TypeOK, ThreadOK
  <2> QED BY <2>1, <2>2
<1>2. CASE SwapBackends
  <2>1. Advance(Rotator) /\ step[Rotator] # "idle" /\ cur[Rotator] \in Backend
        /\ old \in Backend
    BY <1>2, ThreadFacts DEF SwapBackends, Retire, Installed, TypeInv, ThreadOK
  <2>2. pool' \in Seq(Backend)
    <3>1. CASE slot <= Len(pool)
      <4>1. slot \in 1 .. Len(pool)
        BY <1>0, <3>1
      <4>2. pool' = [pool EXCEPT ![slot] = cur[Rotator]] /\ pool \in Seq(Backend)
        BY <1>2, <3>1 DEF SwapBackends, Retire, Installed, TypeInv, TypeOK
      <4> QED BY <2>1, <4>1, <4>2, ExceptSeq
    <3> QED BY <1>2, <3>1 DEF SwapBackends, Retire, Installed, TypeInv, TypeOK
  <2>3. inst' \in [Backend -> Object] /\ cleaning' \subseteq Backend
    <3>1. CASE slot <= Len(pool)
      <4>1. /\ inst' = [inst EXCEPT ![old].cancelled = TRUE]
            /\ cleaning' = cleaning \cup {old}
        BY <1>2, <3>1 DEF SwapBackends, Retire, Installed
      <4> QED BY <2>1, <4>1 DEF TypeInv, TypeOK, Object
    <3> QED BY <1>2, <3>1 DEF SwapBackends, Retire, Installed, TypeInv, TypeOK
  <2> QED BY <1>2, <2>1, <2>2, <2>3, AdvanceType, ThreadFacts
      DEF SwapBackends, Retire, Installed, TypeInv, TypeOK
<1>3. CASE RotatorExit
  BY <1>3 DEF RotatorExit, TypeInv, TypeOK, ThreadOK
<1> QED BY <1>1, <1>2, <1>3 DEF Rotating

\* So do those of the monitor.
LEMMA MonitorKeepsType ==
  ASSUME TypeInv, MonitorCheck \/ MonitorExit
  PROVE  TypeInv'
<1> USE DEF lifeVars, endVars, threadVars
<1>1. CASE MonitorCheck
  <2>1. pool' \in Seq(Backend) /\ todo' \in [Thread -> Seq(Nat)]
    BY <1>1, MonitorType
  <2>2. inst' \in [Backend -> Object]
    <3>1. PICK gone \in SUBSET Backend :
             inst' = [b \in Backend |->
                        IF b \in gone THEN [inst[b] EXCEPT !.cancelled = TRUE]
                                      ELSE inst[b]]
      <4> DEFINE gone == {pool[i] : i \in DOMAIN pool \ {i \in DOMAIN pool : Sound(pool[i])}}
      <4>1. inst' = [b \in Backend |->
                        IF b \in gone THEN [inst[b] EXCEPT !.cancelled = TRUE]
                                      ELSE inst[b]]
        BY <1>1 DEF MonitorCheck
      <4>2. gone \in SUBSET Backend
        BY LenProperties DEF TypeInv, TypeOK
      <4> HIDE DEF gone
      <4> QED BY <4>1, <4>2
    <3> QED BY <3>1 DEF TypeInv, TypeOK, Object
  <2>3. \A t \in Thread : todo[t] # <<>> => todo'[t] # <<>>
    <3>1. PICK r \in Replacer, s \in Seq(Nat) :
             todo[r] = <<>> /\ todo' = [todo EXCEPT ![r] = s]
      <4>1. PICK good \in SUBSET DOMAIN pool, bad \in SUBSET DOMAIN pool :
             \E kept \in InOrder(good), failed \in InOrder(bad), r \in Replacer :
               /\ todo[r] = <<>>
               /\ todo' = [todo EXCEPT ![r] =
                             [i \in DOMAIN failed |-> inst[pool[failed[i]]].port]]
        BY <1>1, MonitorFacts
      <4>2. PICK failed \in InOrder(bad), r \in Replacer :
               /\ todo[r] = <<>>
               /\ todo' = [todo EXCEPT ![r] =
                             [i \in DOMAIN failed |-> inst[pool[failed[i]]].port]]
        BY <4>1
      <4>3. todo'[r] \in Seq(Nat)
        BY <2>1, ThreadFacts
      <4> QED BY <4>2, <4>3, ThreadFacts DEF TypeInv, TypeOK
    <3> QED BY <3>1, ThreadFacts DEF TypeInv, TypeOK
  <2>4. ThreadOK'
    BY <1>1, <2>3 DEF MonitorCheck, TypeInv, ThreadOK
  <2>5. UNCHANGED <<disk, cleaning, lifeVars, step, cur, slot, old, endVars, failures>>
    BY <1>1 DEF MonitorCheck
  <2> QED BY <2>1, <2>2, <2>4, <2>5 DEF TypeInv, TypeOK
<1>2. CASE MonitorExit
  BY <1>2 DEF MonitorExit, TypeInv, TypeOK, ThreadOK
<1> QED BY <1>1, <1>2

\* So do those of a backend's own goroutines.
LEMMA BackendType ==
  ASSUME TypeInv, NEW b \in Backend,
         Library(b) \/ CleanupBackendIdentity(b) \/ MarkUnhealthy(b)
  PROVE  TypeInv'
<1> USE DEF lifeVars, endVars, threadVars
<1>1. CASE WsListen(b)
  BY <1>1 DEF WsListen, TypeInv, TypeOK, ThreadOK, Object
<1>2. CASE WsFails(b)
  <2>1. failures' \in 0 .. MaxFailures
    BY <1>2, BoundAssumption DEF WsFails, Fails, MayFail, TypeInv, TypeOK
  <2>2. inst' \in [Backend -> Object]
    BY <1>2, HeapUpdate DEF WsFails, TypeInv, TypeOK
  <2> QED BY <1>2, <2>1, <2>2 DEF WsFails, TypeInv, TypeOK, ThreadOK
<1>3. CASE WsCancels(b)
  <2>1. inst' \in [Backend -> Object]
    BY <1>3, HeapUpdate DEF WsCancels, TypeInv, TypeOK
  <2> QED BY <1>3, <2>1 DEF WsCancels, TypeInv, TypeOK, ThreadOK
<1>4. CASE WsCloses(b)
  <2>1. inst' \in [Backend -> Object]
    <3>1. PICK flag \in BOOLEAN :
             inst' = [inst EXCEPT ![b].ws = "closed", ![b].healthy = flag]
      <4>1. inst[b].healthy \in BOOLEAN
        BY DEF TypeInv, TypeOK, Object
      <4> QED BY <1>4, <4>1, Zenon DEF WsCloses
    <3> QED BY <3>1, HeapUpdate DEF TypeInv, TypeOK
  <2> QED BY <1>4, <2>1 DEF WsCloses, TypeInv, TypeOK, ThreadOK
<1>5. CASE CleanupBackendIdentity(b)
  <2>1. DOMAIN disk' \subseteq Nat /\ disk' \in [DOMAIN disk' -> Identity]
    <3>1. CASE disk' = [p \in DOMAIN disk \ {inst[b].port} |-> disk[p]]
      BY <3>1 DEF TypeInv, TypeOK
    <3>2. CASE disk' = disk
      BY <3>2 DEF TypeInv, TypeOK
    <3> QED BY <1>5, <3>1, <3>2 DEF CleanupBackendIdentity
  <2>2. failures' \in 0 .. MaxFailures
    BY <1>5, BoundAssumption DEF CleanupBackendIdentity, Fails, MayFail, TypeInv, TypeOK
  <2> QED BY <1>5, <2>1, <2>2 DEF CleanupBackendIdentity, TypeInv, TypeOK, ThreadOK
<1>6. CASE MarkUnhealthy(b)
  <2>1. failures' \in 0 .. MaxFailures
    BY <1>6, BoundAssumption DEF MarkUnhealthy, Fails, MayFail, TypeInv, TypeOK
  <2>2. inst' \in [Backend -> Object]
    BY <1>6 DEF MarkUnhealthy, TypeInv, TypeOK, Object
  <2> QED BY <1>6, <2>1, <2>2 DEF MarkUnhealthy, TypeInv, TypeOK, ThreadOK
<1> QED BY <1>1, <1>2, <1>3, <1>4, <1>5, <1>6 DEF Library

\* So do those of Stop.
LEMMA StopType ==
  ASSUME TypeInv, CancelEngine \/ CancelPool
  PROVE  TypeInv'
<1> USE DEF lifeVars, endVars, threadVars
<1>1. CASE CancelEngine
  BY <1>1 DEF CancelEngine, TypeInv, TypeOK, ThreadOK
<1>2. CASE CancelPool
  <2>1. inst' \in [Backend -> Object]
    BY <1>2, HeapCancel DEF CancelPool, TypeInv, TypeOK
  <2> QED BY <1>2, <2>1 DEF CancelPool, TypeInv, TypeOK, ThreadOK
<1> QED BY <1>1, <1>2

\* Every step keeps the types.
LEMMA NextType == TypeInv /\ [Next]_vars => TypeInv'
<1> SUFFICES ASSUME TypeInv, [Next]_vars PROVE TypeInv'
  OBVIOUS
<1>1. CASE UNCHANGED vars
  BY <1>1 DEF vars, lifeVars, endVars, threadVars, TypeInv, TypeOK, ThreadOK
<1>2. CASE Step
  BY <1>2, StartType, PoolThreadsType, RotatorType, MonitorKeepsType, BackendType,
     StopType, ThreadFacts
  DEF Step, Main_, Replacing
<1> QED BY <1>1, <1>2 DEF Next, Terminated

\* Whatever the pool size and the number of failures, the variables keep the
\* shapes of the Go types they stand for, and no goroutine reaches a step of
\* startBackend without the port and the backend that step works on.
THEOREM TypeCorrect == Spec => []TypeOK
<1>1. TypeInv => TypeOK
  BY DEF TypeInv
<1> QED BY InitType, NextType, <1>1, PTL DEF Spec

-----------------------------------------------------------------------------
(* The bound on the pool.  Each step is an injection of the claims after   *)
(* it into the claims before it: an appended backend takes the place of    *)
(* the port its thread had to start, a survivor of the monitor the place   *)
(* it had, and a port given to a replacer that of the member it belonged   *)
(* to.                                                                     *)

ClaimsOf(pl, td) == UNION {{t} \X DOMAIN (IF t = Rotator THEN pl ELSE td[t]) : t \in Thread}

Bounded(S) == IsFiniteSet(S) /\ Cardinality(S) <= PoolSize

IInv == TypeInv /\ Bounded(Claims)

\* A claim is a thread with a position in the sequence it stands for.
Length(pl, td, t) == IF t = Rotator THEN Len(pl) ELSE Len(td[t])

ClaimFacts(pl, td) ==
    /\ \A t \in Thread, k \in Nat \ {0} :
         <<t, k>> \in ClaimsOf(pl, td) <=> k <= Length(pl, td, t)
    /\ \A c \in ClaimsOf(pl, td) : \E t \in Thread, k \in Nat \ {0} : c = <<t, k>>
    /\ \A t \in Thread : Length(pl, td, t) \in Nat

\* The claims of pl and td, as pairs.
LEMMA ClaimMembers ==
  ASSUME NEW pl \in Seq(Backend), NEW td \in [Thread -> Seq(Nat)]
  PROVE  ClaimFacts(pl, td)
<1> DEFINE Places(t) == DOMAIN (IF t = Rotator THEN pl ELSE td[t])
<1>1. \A t \in Thread : Places(t) = 1 .. Length(pl, td, t) /\ Length(pl, td, t) \in Nat
  BY LenProperties DEF Length
<1>2. ClaimsOf(pl, td) = UNION {{t} \X Places(t) : t \in Thread}
  BY DEF ClaimsOf
<1> HIDE DEF Places
<1>3. \A t \in Thread, k \in Nat \ {0} :
         <<t, k>> \in ClaimsOf(pl, td) <=> k \in Places(t)
  BY <1>2
<1>4. \A c \in ClaimsOf(pl, td) : \E t \in Thread : \E k \in Places(t) : c = <<t, k>>
  BY <1>2
<1>5. ASSUME NEW c \in ClaimsOf(pl, td)
      PROVE  \E t \in Thread, k \in Nat \ {0} : c = <<t, k>>
  <2>1. PICK t \in Thread : \E k \in Places(t) : c = <<t, k>>
    BY <1>4
  <2>2. PICK k \in Places(t) : c = <<t, k>>
    BY <2>1
  <2>3. k \in Nat \ {0}
    BY <1>1
  <2> QED BY <2>2, <2>3
<1> QED BY <1>1, <1>3, <1>5 DEF ClaimFacts

\* What maps one to one into a bounded set is bounded.
LEMMA InjectionBounds ==
  ASSUME NEW S, NEW T, Bounded(T), NEW f \in [S -> T],
         \A x, y \in S : f[x] = f[y] => x = y, PoolSize \in Nat
  PROVE  Bounded(S)
<1>1. f \in Injection(S, T)
  BY DEF Injection, IsInjective
<1>2. IsFiniteSet(S) /\ Cardinality(S) <= Cardinality(T)
  BY <1>1, FS_Injection DEF Bounded
<1>3. Cardinality(S) \in Nat /\ Cardinality(T) \in Nat
  BY <1>2, FS_CardinalityType DEF Bounded
<1> QED BY <1>2, <1>3 DEF Bounded

\* A step that lengthens neither the pool nor a list of ports.
LEMMA FewerClaims ==
  ASSUME NEW pl \in Seq(Backend), NEW td \in [Thread -> Seq(Nat)],
         NEW pl2 \in Seq(Backend), NEW td2 \in [Thread -> Seq(Nat)],
         \A t \in Thread : Length(pl2, td2, t) <= Length(pl, td, t),
         Bounded(ClaimsOf(pl, td))
  PROVE  Bounded(ClaimsOf(pl2, td2))
<1>before. ClaimFacts(pl, td)
  BY ClaimMembers
<1>after. ClaimFacts(pl2, td2)
  BY ClaimMembers
<1>1. ASSUME NEW c \in ClaimsOf(pl2, td2) PROVE c \in ClaimsOf(pl, td)
  <2>1. PICK s \in Thread, k \in Nat \ {0} : c = <<s, k>>
    BY <1>after DEF ClaimFacts
  <2>2. k <= Length(pl2, td2, s)
    BY <1>after, <2>1 DEF ClaimFacts
  <2>3. k <= Length(pl, td, s)
    BY <1>before, <1>after, <2>2 DEF ClaimFacts
  <2> QED BY <1>before, <2>1, <2>3 DEF ClaimFacts
<1>2. /\ IsFiniteSet(ClaimsOf(pl2, td2))
      /\ Cardinality(ClaimsOf(pl2, td2)) <= Cardinality(ClaimsOf(pl, td))
  BY <1>1, FS_Subset DEF Bounded
<1>3. /\ Cardinality(ClaimsOf(pl2, td2)) \in Nat
      /\ Cardinality(ClaimsOf(pl, td)) \in Nat
  BY <1>2, FS_CardinalityType DEF Bounded
<1> QED BY <1>2, <1>3, PoolAssumption DEF Bounded

\* A started backend is appended, and its port leaves its thread's list.
LEMMA AppendClaims ==
  ASSUME NEW pl \in Seq(Backend), NEW td \in [Thread -> Seq(Nat)],
         NEW pl2 \in Seq(Backend), NEW td2 \in [Thread -> Seq(Nat)],
         NEW t \in Thread \ {Rotator}, Len(td[t]) > 0,
         Len(pl2) = Len(pl) + 1, Len(td2[t]) = Len(td[t]) - 1,
         \A s \in Thread \ {t} : td2[s] = td[s],
         Bounded(ClaimsOf(pl, td))
  PROVE  Bounded(ClaimsOf(pl2, td2))
<1> DEFINE new  == <<Rotator, Len(pl) + 1>>
           last == <<t, Len(td[t])>>
           f == [c \in ClaimsOf(pl2, td2) |-> IF c = new THEN last ELSE c]
<1>before. ClaimFacts(pl, td)
  BY ClaimMembers
<1>after. ClaimFacts(pl2, td2)
  BY ClaimMembers
<1>1. Len(pl) \in Nat /\ Len(td[t]) \in Nat \ {0} /\ Rotator \in Thread
  BY LenProperties, ThreadFacts
<1>2. /\ Length(pl, td, t) = Len(td[t]) /\ Length(pl2, td2, t) = Len(td[t]) - 1
      /\ Length(pl, td, Rotator) = Len(pl)
      /\ Length(pl2, td2, Rotator) = Len(pl) + 1
      /\ \A s \in Thread \ {t, Rotator} : Length(pl2, td2, s) = Length(pl, td, s)
  BY DEF Length
<1>3. last \in ClaimsOf(pl, td) /\ last \notin ClaimsOf(pl2, td2)
  <2>1. Len(td[t]) <= Length(pl, td, t) /\ ~(Len(td[t]) <= Length(pl2, td2, t))
    BY <1>1, <1>2
  <2> QED BY <1>1, <1>before, <1>after, <2>1 DEF ClaimFacts
<1>4. ASSUME NEW c \in ClaimsOf(pl2, td2), c # new
      PROVE  c \in ClaimsOf(pl, td)
  <2>1. PICK s \in Thread, k \in Nat \ {0} : c = <<s, k>>
    BY <1>after DEF ClaimFacts
  <2>2. k <= Length(pl2, td2, s) /\ (s = Rotator => k # Len(pl) + 1)
    BY <1>4, <1>after, <2>1 DEF ClaimFacts
  <2>3. k <= Length(pl, td, s)
    <3>1. CASE s = t
      BY <1>1, <1>2, <2>2, <3>1
    <3>2. CASE s = Rotator
      BY <1>1, <1>2, <2>2, <3>2
    <3>3. CASE s # t /\ s # Rotator
      BY <1>2, <2>2, <3>3
    <3> QED BY <3>1, <3>2, <3>3
  <2> QED BY <1>before, <2>1, <2>3 DEF ClaimFacts
<1>5. f \in [ClaimsOf(pl2, td2) -> ClaimsOf(pl, td)]
  <2> HIDE DEF new, last
  <2> QED BY <1>3, <1>4
<1>6. \A x, y \in ClaimsOf(pl2, td2) : f[x] = f[y] => x = y
  <2> HIDE DEF new, last
  <2> QED BY <1>3
<1> HIDE DEF f
<1> QED BY <1>5, <1>6, InjectionBounds, PoolAssumption

OneToOne(f, S, T) == f \in [S -> T] /\ \A i, j \in S : f[i] = f[j] => i = j

\* The monitor keeps some members and hands the ports of others to a replacer
\* that had none.
LEMMA MonitorClaims ==
  ASSUME NEW pl \in Seq(Backend), NEW td \in [Thread -> Seq(Nat)],
         NEW pl2 \in Seq(Backend), NEW td2 \in [Thread -> Seq(Nat)],
         NEW r \in Thread \ {Rotator}, Len(td[r]) = 0,
         \A s \in Thread \ {r} : td2[s] = td[s],
         NEW good \in SUBSET (1 .. Len(pl)), NEW bad \in SUBSET (1 .. Len(pl)),
         good \cap bad = {},
         NEW kept, OneToOne(kept, 1 .. Len(pl2), good),
         NEW failed, OneToOne(failed, 1 .. Len(td2[r]), bad),
         Bounded(ClaimsOf(pl, td))
  PROVE  Bounded(ClaimsOf(pl2, td2))
<1>before. ClaimFacts(pl, td)
  BY ClaimMembers
<1>after. ClaimFacts(pl2, td2)
  BY ClaimMembers
<1> DEFINE place(s, k) == IF s = Rotator THEN <<Rotator, kept[k]>>
                          ELSE IF s = r THEN <<Rotator, failed[k]>>
                          ELSE <<s, k>>
           f == [c \in ClaimsOf(pl2, td2) |-> place(c[1], c[2])]
<1>0. /\ kept \in [1 .. Len(pl2) -> good]
      /\ \A i, j \in 1 .. Len(pl2) : kept[i] = kept[j] => i = j
      /\ failed \in [1 .. Len(td2[r]) -> bad]
      /\ \A i, j \in 1 .. Len(td2[r]) : failed[i] = failed[j] => i = j
  BY DEF OneToOne
<1>1. Len(pl) \in Nat /\ Rotator \in Thread
  BY LenProperties, ThreadFacts
<1>2. /\ Length(pl, td, Rotator) = Len(pl)
      /\ Length(pl2, td2, Rotator) = Len(pl2)
      /\ Length(pl, td, r) = 0 /\ Length(pl2, td2, r) = Len(td2[r])
      /\ \A s \in Thread \ {r, Rotator} : Length(pl2, td2, s) = Length(pl, td, s)
  BY DEF Length
<1>3. ASSUME NEW s \in Thread, NEW k \in Nat \ {0}, k <= Length(pl2, td2, s)
      PROVE  /\ s = Rotator => k \in 1 .. Len(pl2)
             /\ s = r => k \in 1 .. Len(td2[r])
             /\ place(s, k) \in ClaimsOf(pl, td)
  <2>1. k <= Length(pl2, td2, s) /\ Length(pl2, td2, s) \in Nat
    BY <1>3, <1>after DEF ClaimFacts
  <2>2. CASE s = Rotator
    <3>1. k \in 1 .. Len(pl2)
      BY <1>2, <2>1, <2>2
    <3>2. kept[k] \in Nat \ {0} /\ kept[k] <= Len(pl)
      <4>1. kept[k] \in good
        BY <1>0, <3>1
      <4>2. kept[k] \in 1 .. Len(pl)
        BY <4>1
      <4> QED BY <1>1, <4>2
    <3> QED BY <1>before, <1>1, <1>2, <2>2, <3>1, <3>2 DEF ClaimFacts
  <2>3. CASE s = r
    <3>1. k \in 1 .. Len(td2[r])
      BY <1>2, <2>1, <2>3
    <3>2. failed[k] \in Nat \ {0} /\ failed[k] <= Len(pl)
      <4>1. failed[k] \in bad
        BY <1>0, <3>1
      <4>2. failed[k] \in 1 .. Len(pl)
        BY <4>1
      <4>3. \A i \in 1 .. Len(pl) : i \in Nat \ {0} /\ i <= Len(pl)
        BY <1>1
      <4> QED BY <4>2, <4>3
    <3>3. <<Rotator, failed[k]>> \in ClaimsOf(pl, td)
      BY <1>before, <1>1, <1>2, <3>2 DEF ClaimFacts
    <3>4. place(s, k) = <<Rotator, failed[k]>> /\ s # Rotator
      BY <2>3
    <3> HIDE DEF place
    <3> QED BY <2>3, <3>1, <3>3, <3>4
  <2>4. CASE s # Rotator /\ s # r
    BY <1>before, <1>2, <2>1, <2>4 DEF ClaimFacts
  <2> QED BY <2>2, <2>3, <2>4
<1>4. f \in [ClaimsOf(pl2, td2) -> ClaimsOf(pl, td)]
  <2>1. ASSUME NEW c \in ClaimsOf(pl2, td2)
        PROVE  place(c[1], c[2]) \in ClaimsOf(pl, td)
    <3>1. PICK s \in Thread, k \in Nat \ {0} : c = <<s, k>>
      BY <1>after DEF ClaimFacts
    <3>2. k <= Length(pl2, td2, s)
      BY <1>after, <3>1 DEF ClaimFacts
    <3>3. place(s, k) \in ClaimsOf(pl, td)
      BY <1>3, <3>2
    <3> QED BY <3>1, <3>3
  <2> HIDE DEF place
  <2> QED BY <2>1
<1>5. ASSUME NEW s \in Thread, NEW k \in Nat \ {0}, k <= Length(pl2, td2, s),
             NEW u \in Thread, NEW m \in Nat \ {0}, m <= Length(pl2, td2, u),
             place(s, k) = place(u, m)
      PROVE  s = u /\ k = m
  <2>1. /\ s = Rotator => k \in 1 .. Len(pl2)
        /\ s = r => k \in 1 .. Len(td2[r])
        /\ u = Rotator => m \in 1 .. Len(pl2)
        /\ u = r => m \in 1 .. Len(td2[r])
    BY <1>3, <1>5
  <2>2. CASE s = Rotator /\ u = Rotator
    BY <1>0, <1>5, <2>1, <2>2
  <2>3. CASE s = r /\ u = r
    BY <1>0, <1>5, <2>1, <2>3
  <2>4. CASE s = Rotator /\ u = r
    <3>1. kept[k] \in good /\ failed[m] \in bad
      BY <1>0, <2>1, <2>4
    <3> QED BY <1>5, <2>4, <3>1
  <2>5. CASE s = r /\ u = Rotator
    <3>1. kept[m] \in good /\ failed[k] \in bad
      BY <1>0, <2>1, <2>5
    <3> QED BY <1>5, <2>5, <3>1
  <2>6. CASE s \notin {Rotator, r} \/ u \notin {Rotator, r}
    BY <1>5, <2>6
  <2> QED BY <2>2, <2>3, <2>4, <2>5, <2>6
<1>6. \A x, y \in ClaimsOf(pl2, td2) : f[x] = f[y] => x = y
  <2> SUFFICES ASSUME NEW x \in ClaimsOf(pl2, td2), NEW y \in ClaimsOf(pl2, td2),
                      f[x] = f[y]
               PROVE  x = y
    OBVIOUS
  <2>1. PICK s \in Thread, k \in Nat \ {0} : x = <<s, k>>
    BY <1>after DEF ClaimFacts
  <2>2. PICK u \in Thread, m \in Nat \ {0} : y = <<u, m>>
    BY <1>after DEF ClaimFacts
  <2>3. place(s, k) = place(u, m)
    BY <2>1, <2>2
  <2>4. k <= Length(pl2, td2, s) /\ m <= Length(pl2, td2, u)
    BY <1>after, <2>1, <2>2 DEF ClaimFacts
  <2> HIDE DEF place
  <2>5. s = u /\ k = m
    BY <1>5, <2>3, <2>4
  <2> QED BY <2>1, <2>2, <2>5
<1> HIDE DEF f
<1> QED BY <1>4, <1>6, InjectionBounds, PoolAssumption

-----------------------------------------------------------------------------
(* The claims are bounded in every reachable state.                        *)

\* At the start Run has PoolSize ports to start and the pool is empty.
LEMMA InitClaims == Init => Bounded(Claims)
<1> SUFFICES ASSUME Init PROVE Bounded(Claims)
  OBVIOUS
<1>1. pool \in Seq(Backend) /\ todo \in [Thread -> Seq(Nat)]
  BY InitType DEF TypeInv, TypeOK
<1>2. Claims = ClaimsOf(pool, todo)
  BY DEF Claims, ClaimsOf
<1>3. ClaimFacts(pool, todo)
  BY <1>1, ClaimMembers
<1>4. /\ Length(pool, todo, Main) = PoolSize
      /\ \A t \in Thread \ {Main} : Length(pool, todo, t) = 0
  <2>1. /\ pool = <<>>
        /\ todo = [t \in Thread |-> IF t = Main THEN [i \in 1 .. PoolSize |-> PortStart + i - 1]
                                                ELSE <<>>]
    BY DEF Init
  <2>2. Len([i \in 1 .. PoolSize |-> PortStart + i - 1]) = PoolSize
    BY PoolAssumption
  <2>3. todo[Main] = [i \in 1 .. PoolSize |-> PortStart + i - 1]
        /\ \A t \in Thread \ {Main} : todo[t] = <<>>
    BY <2>1, ThreadFacts
  <2> QED BY <2>1, <2>2, <2>3, EmptySeq, ThreadFacts DEF Length
<1> DEFINE f == [c \in Claims |-> c[2]]
<1>5. ASSUME NEW c \in Claims
      PROVE  c = <<Main, c[2]>> /\ c[2] \in 1 .. PoolSize
  <2>1. PICK t \in Thread, k \in Nat \ {0} : c = <<t, k>>
    BY <1>2, <1>3 DEF ClaimFacts
  <2>2. k <= Length(pool, todo, t)
    BY <1>2, <1>3, <2>1 DEF ClaimFacts
  <2>3. t = Main
    BY <1>4, <2>2
  <2> QED BY <1>4, <2>1, <2>2, <2>3, PoolAssumption
<1>6. f \in [Claims -> 1 .. PoolSize] /\ \A x, y \in Claims : f[x] = f[y] => x = y
  BY <1>5
<1>7. Bounded(1 .. PoolSize)
  BY FS_Interval, PoolAssumption DEF Bounded
<1> HIDE DEF f
<1> QED BY <1>6, <1>7, InjectionBounds, PoolAssumption

\* Advance shortens the list of its thread by one.
LEMMA AdvanceLength ==
  ASSUME TypeInv, NEW t \in Thread, step[t] # "idle", Advance(t)
  PROVE  /\ Len(todo[t]) \in Nat \ {0} /\ Len(todo'[t]) = Len(todo[t]) - 1
         /\ \A s \in Thread \ {t} : todo'[s] = todo[s]
<1>1. todo[t] \in Seq(Nat) /\ todo[t] # <<>>
  BY DEF TypeInv, TypeOK, ThreadOK
<1>2. todo'[t] = Tail(todo[t]) /\ \A s \in Thread \ {t} : todo'[s] = todo[s]
  BY DEF Advance, TypeInv, TypeOK
<1>3. Len(Tail(todo[t])) = Len(todo[t]) - 1
  BY <1>1, HeadTailProperties
<1> QED BY <1>1, <1>2, <1>3, EmptySeq

\* Every step keeps the bound.
LEMMA NextClaims ==
  ASSUME TypeInv, TypeInv', Bounded(Claims), Step
  PROVE  Bounded(Claims')
<1>1. /\ Claims = ClaimsOf(pool, todo)
      /\ Claims' = ClaimsOf(pool', todo')
      /\ pool \in Seq(Backend) /\ todo \in [Thread -> Seq(Nat)]
      /\ pool' \in Seq(Backend) /\ todo' \in [Thread -> Seq(Nat)]
  BY DEF Claims, ClaimsOf, TypeInv, TypeOK
<1>2. \A t \in Thread : Len(todo[t]) \in Nat /\ Len(pool) \in Nat
  BY <1>1, LenProperties
<1>3. ASSUME Len(pool') <= Len(pool),
             \A t \in Thread \ {Rotator} : Len(todo'[t]) <= Len(todo[t])
      PROVE  Bounded(Claims')
  <2>1. \A t \in Thread : Length(pool', todo', t) <= Length(pool, todo, t)
    BY <1>3 DEF Length
  <2> QED BY <1>1, <2>1, FewerClaims
<1>4. CASE UNCHANGED <<pool, todo>>
  BY <1>2, <1>3, <1>4
<1>5. ASSUME NEW t \in Thread, step[t] # "idle", Advance(t), UNCHANGED pool
      PROVE  Bounded(Claims')
  <2>1. \A s \in Thread : Len(todo'[s]) <= Len(todo[s])
    BY <1>2, <1>5, AdvanceLength
  <2> QED BY <1>2, <1>3, <1>5, <2>1
<1>6. ASSUME NEW t \in Thread, StartSteps(t)
      PROVE  Bounded(Claims')
  <2>1. UNCHANGED pool
    BY <1>6 DEF StartSteps, IdentityFails, CreateBackend, StartProbe, ProbeAnswered,
                ProbeRefused, WaitFails
  <2>2. UNCHANGED todo \/ (step[t] # "idle" /\ Advance(t))
    BY <1>6 DEF StartSteps, IdentityFails, CreateBackend, StartProbe, ProbeAnswered,
                ProbeRefused, WaitFails, threadVars
  <2> QED BY <1>4, <1>5, <2>1, <2>2
<1>7. ASSUME NEW t \in Thread, NextPort(t)
      PROVE  Bounded(Claims')
  <2>1. UNCHANGED pool /\ (UNCHANGED todo \/ todo' = [todo EXCEPT ![t] = <<>>])
    BY <1>7 DEF NextPort
  <2>2. \A s \in Thread : Len(todo'[s]) <= Len(todo[s])
    BY <1>1, <1>2, <2>1, EmptySeq
  <2> QED BY <1>2, <1>3, <2>1, <2>2
<1>8. ASSUME NEW t \in Thread, AppendBackend(t)
      PROVE  Bounded(Claims')
  <2>1. /\ t # Rotator /\ step[t] # "idle" /\ Advance(t)
        /\ pool' = Append(pool, cur[t])
    BY <1>8 DEF AppendBackend
  <2>2. Len(pool') = Len(pool) + 1
    BY <1>1, <2>1
  <2>3. /\ Len(todo[t]) > 0 /\ Len(todo'[t]) = Len(todo[t]) - 1
        /\ \A s \in Thread \ {t} : todo'[s] = todo[s]
    BY <2>1, AdvanceLength
  <2> QED BY <1>1, <2>1, <2>2, <2>3, AppendClaims
<1>9. CASE Rotating
  <2>1. CASE RotatorTick
    <3>1. UNCHANGED pool /\ \A s \in Thread \ {Rotator} : todo'[s] = todo[s]
      BY <1>1, <2>1 DEF RotatorTick, NextSlot, TempPort
    <3> QED BY <1>2, <1>3, <3>1
  <2>2. CASE SwapBackends
    <3>1. Len(pool') = Len(pool)
      BY <1>1, <2>2 DEF SwapBackends, Retire, Installed
    <3>2. \A s \in Thread \ {Rotator} : todo'[s] = todo[s]
      BY <1>1, <2>2 DEF SwapBackends, Retire, Installed, Advance
    <3> QED BY <1>2, <1>3, <3>1, <3>2
  <2>3. CASE RotatorExit
    BY <1>4, <2>3 DEF RotatorExit, threadVars
  <2> QED BY <1>9, <2>1, <2>2, <2>3 DEF Rotating
<1>10. CASE MonitorCheck
  <2>1. PICK good \in SUBSET DOMAIN pool, bad \in SUBSET DOMAIN pool :
           \E kept \in InOrder(good), failed \in InOrder(bad), r \in Replacer :
              /\ good \cap bad = {} /\ good \cup bad = DOMAIN pool /\ bad # {}
              /\ todo[r] = <<>>
              /\ pool' = [i \in DOMAIN kept |-> pool[kept[i]]]
              /\ todo' = [todo EXCEPT ![r] =
                            [i \in DOMAIN failed |-> inst[pool[failed[i]]].port]]
    BY <1>10, MonitorFacts
  <2>2. PICK kept \in InOrder(good), failed \in InOrder(bad), r \in Replacer :
              /\ good \cap bad = {} /\ good \cup bad = DOMAIN pool /\ bad # {}
              /\ todo[r] = <<>>
              /\ pool' = [i \in DOMAIN kept |-> pool[kept[i]]]
              /\ todo' = [todo EXCEPT ![r] =
                            [i \in DOMAIN failed |-> inst[pool[failed[i]]].port]]
    BY <2>1
  <2>3. DOMAIN pool = 1 .. Len(pool) /\ Len(pool) \in Nat
    BY <1>1, LenProperties
  <2>4. /\ Cardinality(good) \in Nat /\ kept \in [1 .. Cardinality(good) -> good]
        /\ \A i, j \in 1 .. Cardinality(good) : kept[i] = kept[j] => i = j
    BY <2>3, InOrderFacts
  <2>5. /\ Cardinality(bad) \in Nat /\ failed \in [1 .. Cardinality(bad) -> bad]
        /\ \A i, j \in 1 .. Cardinality(bad) : failed[i] = failed[j] => i = j
    BY <2>3, InOrderFacts
  <2>6. Len(pool') = Cardinality(good)
    BY <2>2, <2>4
  <2>7. /\ Len(todo'[r]) = Cardinality(bad)
        /\ \A s \in Thread \ {r} : todo'[s] = todo[s]
        /\ r \in Thread \ {Rotator} /\ Len(todo[r]) = 0
    BY <1>1, <2>2, <2>5, ThreadFacts, EmptySeq
  <2>8. /\ OneToOne(kept, 1 .. Len(pool'), good)
        /\ OneToOne(failed, 1 .. Len(todo'[r]), bad)
    BY <2>4, <2>5, <2>6, <2>7 DEF OneToOne
  <2>9. good \in SUBSET (1 .. Len(pool)) /\ bad \in SUBSET (1 .. Len(pool))
    BY <2>3
  <2>10. Bounded(ClaimsOf(pool', todo'))
    <3>1. Bounded(ClaimsOf(pool, todo)) /\ good \cap bad = {}
      BY <1>1, <2>2
    <3> QED BY <1>1, <2>7, <2>8, <2>9, <3>1, MonitorClaims
  <2> QED BY <1>1, <2>10
<1>11. CASE FinishInit \/ RunReturns \/ MonitorExit \/ CancelEngine \/ CancelPool
  BY <1>4, <1>11 DEF FinishInit, RunReturns, MonitorExit, CancelEngine, CancelPool,
                     threadVars
<1>12. ASSUME NEW b \in Backend,
              Library(b) \/ CleanupBackendIdentity(b) \/ MarkUnhealthy(b)
       PROVE  Bounded(Claims')
  BY <1>4, <1>12 DEF Library, WsListen, WsFails, WsCancels, WsCloses,
                     CleanupBackendIdentity, MarkUnhealthy, threadVars
<1> QED BY <1>6, <1>7, <1>8, <1>9, <1>10, <1>11, <1>12, ThreadFacts
        DEF Step, Main_, Replacing

\* Every step keeps the inductive invariant.
LEMMA NextInv == IInv /\ [Next]_vars => IInv'
<1> SUFFICES ASSUME IInv, [Next]_vars PROVE IInv'
  OBVIOUS
<1>1. TypeInv'
  BY NextType DEF IInv
<1>2. CASE Step
  BY <1>1, <1>2, NextClaims DEF IInv
<1>3. CASE UNCHANGED vars
  <2>1. Claims' = Claims
    BY <1>3 DEF vars, threadVars, Claims
  <2> QED BY <1>1, <2>1 DEF IInv
<1> QED BY <1>2, <1>3 DEF Next, Terminated

\* For every PoolSize, every interleaving of Run, the monitor's replacers and
\* the rotator, and any number of failures: the places of the pool in use and
\* the starts that will fill one never exceed PoolSize.
THEOREM PoolBounded == Spec => []PoolBound
<1>1. Init => IInv
  BY InitType, InitClaims DEF IInv
<1>2. IInv => PoolBound
  BY DEF IInv, Bounded, PoolBound
<1> QED BY <1>1, <1>2, NextInv, PTL DEF Spec

\* The monitor never lacks a goroutine: while the pool has a member, one of
\* PoolSize replacers has no port to start.
ReplacerFree == pool # <<>> => \E r \in Replacer : todo[r] = <<>>

\* The monitor takes members out without waiting for earlier replacements, so
\* replaceBackends goroutines pile up; but as each of them stands for at least
\* one place, fewer than PoolSize run while the pool has a member.  Replacer,
\* the fixed set of goroutines of the model, therefore leaves out nothing.
THEOREM ReplacersSuffice == Spec => []ReplacerFree
<1>1. ASSUME IInv, pool # <<>>, \A r \in Replacer : todo[r] # <<>>
      PROVE  FALSE
  <2> DEFINE f == [i \in 0 .. PoolSize |-> <<IF i = 0 THEN Rotator ELSE i, 1>>]
  <2>1. /\ pool \in Seq(Backend) /\ todo \in [Thread -> Seq(Nat)]
        /\ Claims = ClaimsOf(pool, todo)
    BY <1>1 DEF IInv, TypeInv, TypeOK, Claims, ClaimsOf
  <2>2. ClaimFacts(pool, todo)
    BY <2>1, ClaimMembers
  <2>3. ASSUME NEW i \in 0 .. PoolSize PROVE f[i] \in Claims
    <3>1. CASE i = 0
      <4>1. 1 <= Length(pool, todo, Rotator) /\ Rotator \in Thread
        BY <1>1, <2>1, LenProperties DEF Length, Thread
      <4> QED BY <2>1, <2>2, <3>1, <4>1 DEF ClaimFacts
    <3>2. CASE i # 0
      <4>1. i \in Replacer /\ i \in Thread /\ i # Rotator
        BY <3>2, PoolAssumption DEF Replacer, Thread, Rotator
      <4>2. todo[i] # <<>> /\ todo[i] \in Seq(Nat)
        BY <1>1, <2>1, <4>1
      <4>3. 1 <= Length(pool, todo, i)
        BY <4>1, <4>2, LenProperties DEF Length
      <4> QED BY <2>1, <2>2, <3>2, <4>1, <4>3 DEF ClaimFacts
    <3> QED BY <3>1, <3>2
  <2>4. \A i, j \in 0 .. PoolSize : f[i] = f[j] => i = j
    BY PoolAssumption DEF Rotator
  <2>5. Bounded(0 .. PoolSize)
    <3>1. f \in [0 .. PoolSize -> Claims]
      BY <2>3
    <3>2. Bounded(Claims) /\ PoolSize \in Nat
      BY <1>1, PoolAssumption DEF IInv
    <3> HIDE DEF f
    <3> QED BY <2>4, <3>1, <3>2, InjectionBounds
  <2>6. Cardinality(0 .. PoolSize) = PoolSize + 1
    BY FS_Interval, PoolAssumption
  <2> QED BY <2>5, <2>6, PoolAssumption DEF Bounded
<1>2. IInv => ReplacerFree
  BY <1>1 DEF ReplacerFree
<1>3. Init => IInv
  BY InitType, InitClaims DEF IInv
<1> QED BY <1>2, <1>3, NextInv, PTL DEF Spec
-----------------------------------------------------------------------------
(* While nothing fails.  Ports tell backends apart: the i-th member of the *)
(* pool has a port in the i-th place modulo TempOffset, each rotation      *)
(* moves it on by TempOffset, and what it leaves behind has lower ports in *)
(* the same place.  So a port that is being started is one nobody listens  *)
(* on and no clean-up will remove, no probe is answered by another         *)
(* backend, and no start fails.                                            *)

Starting(t) == step[t] \in {"wait", "probe", "ready"}
Held(b)     == \E t \in {Main, Rotator} : Starting(t) /\ cur[t] = b
Open(b)     == inst[b].ws \in {"spawned", "listening"}

InPlace(p, i) == p >= PortStart /\ (p - PortStart) % TempOffset = i - 1

\* How often a port in the pool has been moved on.
RotationsTo(p) == (p - PortStart) \div TempOffset

\* Its directory holds its identity.
Kept(b) == inst[b].port \in DOMAIN disk /\ disk[inst[b].port] = inst[b].ident

Good(b) == Open(b) /\ inst[b].healthy /\ ~inst[b].cancelled /\ Kept(b)

\* Run fills the pool from left to right, then the rotator alone is at work.
CalmThreads ==
    /\ Len(pool) <= PoolSize
    /\ todo[Main] = [i \in 1 .. PoolSize - Len(pool) |-> PortStart + Len(pool) + i - 1]
    /\ \A r \in Replacer : todo[r] = <<>>
    /\ \/ /\ phase = "init" /\ ~rotating /\ step[Rotator] = "idle"
          /\ slot = 1 /\ cleaning = {}
       \/ phase = "serving" /\ Len(pool) = PoolSize
    /\ step[Rotator] # "idle" => /\ old = pool[slot]
                                 /\ todo[Rotator] = <<TempPort(pool[slot])>>

CalmMembers ==
    \A i \in DOMAIN pool : /\ Good(pool[i]) /\ inst[pool[i]].ws = "listening"
                           /\ InPlace(inst[pool[i]].port, i)
                           /\ phase = "init" => inst[pool[i]].port = PortStart + i - 1

CalmStarts ==
    \A t \in {Main, Rotator} :
        Starting(t) => /\ Good(cur[t]) /\ inst[cur[t]].port = Head(todo[t])
                       /\ cur[t] \notin Members \cup cleaning
                       /\ step[t] = "ready" => inst[cur[t]].ws = "listening"

\* What is neither in the pool nor being started has been cancelled.
CalmRetired ==
    /\ cleaning \cap Members = {}
    /\ \A b \in Backend \ Members :
          ~Held(b) =>
             /\ inst[b].ws = "closed" \/ (inst[b].ws = "listening" /\ inst[b].cancelled)
             /\ (inst[b].ws # "closed" \/ b \in cleaning) =>
                  /\ phase = "serving"
                  /\ \E i \in DOMAIN pool : /\ InPlace(inst[b].port, i)
                                            /\ inst[b].port < inst[pool[i]].port

CalmPorts ==
    \A b, c \in Backend : Open(b) /\ Open(c) /\ b # c => inst[b].port # inst[c].port

CalmDisk == \A p, q \in DOMAIN disk : disk[p] = disk[q] => p = q

\* The places left of the rotator's have been rotated once more than the others.
CalmRound ==
    \A i \in DOMAIN pool :
        Rotations(pool[i]) = Rotations(pool[slot]) + (IF i < slot THEN 1 ELSE 0)

CalmState == /\ CalmThreads /\ CalmMembers /\ CalmStarts /\ CalmRetired
             /\ CalmPorts /\ CalmDisk /\ CalmRound

CalmInv == TypeInv /\ (Calm => CalmState)

\* Adding the divisor leaves the remainder and adds one to the quotient.
LEMMA NextMultiple ==
  ASSUME NEW n \in Nat \ {0}, NEW x \in Nat
  PROVE  (x + n) % n = x % n /\ (x + n) \div n = (x \div n) + 1
OBVIOUS

\* What is below the divisor is its own remainder.
LEMMA BelowDivisor ==
  ASSUME NEW n \in Nat \ {0}, NEW r \in 0 .. n - 1
  PROVE  r % n = r /\ r \div n = 0
OBVIOUS

\* Where the ports of the pool begin, and where a rotation moves them.
LEMMA Places ==
  /\ TempOffset \in Nat \ {0} /\ PortStart \in Nat
  /\ \A i \in 1 .. PoolSize : /\ InPlace(PortStart + i - 1, i)
                              /\ RotationsTo(PortStart + i - 1) = 0
  /\ \A p \in Nat, i \in Nat : InPlace(p, i) =>
        /\ InPlace(p + TempOffset, i)
        /\ RotationsTo(p + TempOffset) = RotationsTo(p) + 1
        /\ RotationsTo(p) \in Int
<1>1. TempOffset \in Nat \ {0} /\ PortStart \in Nat
  BY PoolAssumption, PortAssumption
<1>2. ASSUME NEW i \in 1 .. PoolSize
      PROVE  /\ InPlace(PortStart + i - 1, i)
             /\ RotationsTo(PortStart + i - 1) = 0
  <2>1. i - 1 \in 0 .. TempOffset - 1 /\ PortStart + i - 1 - PortStart = i - 1
    BY PoolAssumption, PortAssumption
  <2>2. (i - 1) % TempOffset = i - 1 /\ (i - 1) \div TempOffset = 0
    BY <1>1, <2>1, BelowDivisor
  <2> QED BY <1>1, <2>1, <2>2 DEF InPlace, RotationsTo
<1>3. ASSUME NEW p \in Nat, NEW i \in Nat, InPlace(p, i)
      PROVE  /\ InPlace(p + TempOffset, i)
             /\ RotationsTo(p + TempOffset) = RotationsTo(p) + 1
             /\ RotationsTo(p) \in Int
  <2>1. PICK x \in Nat : x = p - PortStart
    BY <1>1, <1>3 DEF InPlace
  <2>2. p + TempOffset - PortStart = x + TempOffset /\ p + TempOffset >= PortStart
    BY <1>1, <2>1
  <2>3. (x + TempOffset) % TempOffset = x % TempOffset
        /\ (x + TempOffset) \div TempOffset = (x \div TempOffset) + 1
    BY <1>1, NextMultiple
  <2>4. x \div TempOffset \in Int
    BY <1>1
  <2>5. InPlace(p + TempOffset, i)
    <3>1. x % TempOffset = i - 1
      BY <1>3, <2>1, Zenon DEF InPlace
    <3>2. (p + TempOffset - PortStart) % TempOffset = i - 1
      BY <2>2, <2>3, <3>1, Zenon
    <3> QED BY <1>1, <2>2, <3>2 DEF InPlace
  <2>6. RotationsTo(p) = x \div TempOffset
    BY <2>1 DEF RotationsTo
  <2>7. RotationsTo(p + TempOffset) = (x + TempOffset) \div TempOffset
    BY <1>1, <2>1, <2>2 DEF RotationsTo
  <2> QED BY <2>3, <2>4, <2>5, <2>6, <2>7
<1> QED BY <1>1, <1>2, <1>3

\* The pool of a calm state is a sequence without repetitions.
LEMMA CalmFacts ==
  ASSUME TypeInv, CalmState
  PROVE  /\ Len(pool) \in Nat /\ DOMAIN pool = 1 .. Len(pool) /\ Len(pool) <= PoolSize
         /\ \A i \in DOMAIN pool : pool[i] \in Backend /\ pool[i] \in Members
         /\ \A i, j \in DOMAIN pool : pool[i] = pool[j] => i = j
         /\ \A b \in Members : \E i \in DOMAIN pool : b = pool[i]
         /\ slot \in 1 .. PoolSize /\ PoolSize \in Nat \ {0}
         /\ phase = "serving" => slot \in DOMAIN pool
         /\ phase \in {"init", "serving"}
         /\ \A b \in Backend : inst[b] \in Object /\ inst[b].port \in Nat
<1>1. /\ Len(pool) \in Nat /\ DOMAIN pool = 1 .. Len(pool)
      /\ \A i \in DOMAIN pool : pool[i] \in Backend
  BY LenProperties DEF TypeInv, TypeOK
<1>2. Len(pool) <= PoolSize /\ slot \in 1 .. PoolSize /\ PoolSize \in Nat \ {0}
  BY PoolAssumption DEF CalmState, CalmThreads, TypeInv, TypeOK
<1>3. /\ phase \in {"init", "serving"}
      /\ phase = "serving" => Len(pool) = PoolSize
  BY DEF CalmState, CalmThreads
<1>4. \A b \in Backend : inst[b] \in Object /\ inst[b].port \in Nat
  BY DEF TypeInv, TypeOK, Object
<1>5. ASSUME NEW i \in DOMAIN pool, NEW j \in DOMAIN pool, pool[i] = pool[j]
      PROVE  i = j
  <2>1. InPlace(inst[pool[i]].port, i) /\ InPlace(inst[pool[i]].port, j)
    BY <1>5 DEF CalmState, CalmMembers
  <2>2. i \in Nat /\ j \in Nat /\ i - 1 = j - 1
    BY <1>1, <2>1 DEF InPlace
  <2> QED BY <2>2
<1>6. /\ \A i \in DOMAIN pool : pool[i] \in Members
      /\ \A b \in Members : \E i \in DOMAIN pool : b = pool[i]
  BY DEF Members
<1> QED BY <1>1, <1>2, <1>3, <1>4, <1>5, <1>6

\* Run is filling the pool, or the rotator is at work, but not both.
LEMMA MainStarts ==
  ASSUME TypeInv, CalmState, todo[Main] # <<>>
  PROVE  /\ phase = "init" /\ step[Rotator] = "idle" /\ Len(pool) < PoolSize
         /\ ~rotating /\ slot = 1 /\ cleaning = {}
         /\ Head(todo[Main]) = PortStart + Len(pool)
         /\ Tail(todo[Main]) = [i \in 1 .. PoolSize - (Len(pool) + 1) |->
                                  PortStart + (Len(pool) + 1) + i - 1]
<1>0. Len(pool) \in Nat /\ PoolSize \in Nat /\ Len(pool) <= PoolSize /\ PortStart \in Nat
  BY CalmFacts, Places
<1>1. todo[Main] = [i \in 1 .. PoolSize - Len(pool) |-> PortStart + Len(pool) + i - 1]
  BY DEF CalmState, CalmThreads
<1>2. todo[Main] \in Seq(Nat) /\ Len(todo[Main]) = PoolSize - Len(pool)
  <2>1. todo[Main] \in Seq(Nat)
    BY ThreadFacts DEF TypeInv, TypeOK
  <2>2. DOMAIN todo[Main] = 1 .. PoolSize - Len(pool) /\ PoolSize - Len(pool) \in Nat
    BY <1>0, <1>1
  <2> QED BY <2>1, <2>2, LenProperties
<1>3. Len(pool) < PoolSize
  <2>1. Len(todo[Main]) # 0
    BY <1>2, EmptySeq
  <2> QED BY <1>0, <1>2, <2>1
<1>4. phase = "init" /\ step[Rotator] = "idle" /\ ~rotating /\ slot = 1 /\ cleaning = {}
  BY <1>0, <1>3 DEF CalmState, CalmThreads
<1>5. Head(todo[Main]) = PortStart + Len(pool)
  <2>1. 1 \in 1 .. PoolSize - Len(pool)
    BY <1>0, <1>3
  <2>2. todo[Main][1] = PortStart + Len(pool) + 1 - 1
    BY <1>1, <2>1
  <2> QED BY <1>0, <1>2, <2>2
<1>6. Tail(todo[Main]) = [i \in 1 .. PoolSize - (Len(pool) + 1) |->
                            PortStart + (Len(pool) + 1) + i - 1]
  <2>1. /\ Tail(todo[Main]) \in Seq(Nat)
        /\ Len(Tail(todo[Main])) = PoolSize - (Len(pool) + 1)
        /\ \A i \in 1 .. Len(Tail(todo[Main])) : Tail(todo[Main])[i] = todo[Main][i + 1]
    BY <1>0, <1>2, <1>3, HeadTailProperties
  <2>2. DOMAIN Tail(todo[Main]) = 1 .. PoolSize - (Len(pool) + 1)
    BY <2>1, LenProperties
  <2>3. ASSUME NEW i \in 1 .. PoolSize - (Len(pool) + 1)
        PROVE  Tail(todo[Main])[i] = PortStart + (Len(pool) + 1) + i - 1
    <3>1. i + 1 \in 1 .. PoolSize - Len(pool)
      BY <1>0
    <3>2. Tail(todo[Main])[i] = PortStart + Len(pool) + (i + 1) - 1
      BY <1>1, <2>1, <3>1
    <3>3. PortStart + Len(pool) + (i + 1) - 1 = PortStart + (Len(pool) + 1) + i - 1
      BY <1>0
    <3> QED BY <3>2, <3>3, Zenon
  <2>4. Tail(todo[Main]) \in [1 .. PoolSize - (Len(pool) + 1) -> Nat]
    BY <2>1, <2>2, LenProperties
  <2> QED BY <2>3, <2>4
<1> QED BY <1>3, <1>4, <1>5, <1>6

\* The rotator moves a member to the next port of its place.
LEMMA RotatorStarts ==
  ASSUME TypeInv, CalmState, step[Rotator] # "idle"
  PROVE  /\ phase = "serving" /\ step[Main] = "idle" /\ todo[Main] = <<>>
         /\ slot \in DOMAIN pool /\ old = pool[slot]
         /\ todo[Rotator] = <<inst[pool[slot]].port + TempOffset>>
         /\ Head(todo[Rotator]) = inst[pool[slot]].port + TempOffset
<1>1. phase = "serving"
  BY DEF CalmState, CalmThreads
<1>2. todo[Main] = <<>> /\ step[Main] = "idle"
  BY <1>1, MainStarts, ThreadFacts DEF TypeInv, ThreadOK
<1>3. old = pool[slot] /\ todo[Rotator] = <<TempPort(pool[slot])>> /\ slot \in DOMAIN pool
  BY <1>1, CalmFacts DEF CalmState, CalmThreads
<1> QED BY <1>1, <1>2, <1>3 DEF TempPort

\* A port that is being started is not that of any other backend that still runs
\* or whose directory is still to be removed.
LEMMA FreshPort ==
  ASSUME TypeInv, CalmState, NEW t \in {Main, Rotator}, step[t] # "idle",
         NEW b \in Backend,
         b \in Members \/ (~Held(b) /\ (inst[b].ws # "closed" \/ b \in cleaning))
  PROVE  inst[b].port # Head(todo[t])
<1>0. PortStart \in Nat /\ TempOffset \in Nat \ {0}
  BY Places
<1>1. CASE t = Main
  <2>1. todo[Main] # <<>>
    BY <1>1, ThreadFacts DEF TypeInv, ThreadOK
  <2>2. phase = "init" /\ Head(todo[t]) = PortStart + Len(pool)
    BY <1>1, <2>1, MainStarts
  <2>3. b \in Members
    BY <2>2 DEF CalmState, CalmRetired
  <2>4. PICK i \in DOMAIN pool : b = pool[i]
    BY <2>3, CalmFacts
  <2>5. inst[b].port = PortStart + i - 1
    BY <2>2, <2>4 DEF CalmState, CalmMembers
  <2> QED BY <1>0, <2>2, <2>4, <2>5, CalmFacts
<1>2. CASE t = Rotator
  <2>1. /\ slot \in DOMAIN pool /\ slot \in Nat
        /\ Head(todo[t]) = inst[pool[slot]].port + TempOffset
    BY <1>2, RotatorStarts, CalmFacts
  <2>2. pool[slot] \in Backend /\ inst[pool[slot]].port \in Nat /\ inst[b].port \in Nat
    BY <2>1, CalmFacts
  <2>3. InPlace(inst[pool[slot]].port + TempOffset, slot)
    BY <2>1, <2>2, Places DEF CalmState, CalmMembers
  <2>4. PICK i \in DOMAIN pool : /\ InPlace(inst[b].port, i)
                                 /\ inst[b].port <= inst[pool[i]].port
    <3>1. CASE b \in Members
      <4>1. PICK i \in DOMAIN pool : b = pool[i]
        BY <3>1, CalmFacts
      <4>2. InPlace(inst[b].port, i)
        BY <4>1 DEF CalmState, CalmMembers
      <4> QED BY <2>2, <4>1, <4>2
    <3>2. CASE b \notin Members
      <4>1. PICK i \in DOMAIN pool : /\ InPlace(inst[b].port, i)
                                     /\ inst[b].port < inst[pool[i]].port
        BY <3>2 DEF CalmState, CalmRetired
      <4> QED BY <2>2, <4>1, CalmFacts
    <3> QED BY <3>1, <3>2
  <2>5. CASE i = slot
    BY <1>0, <2>1, <2>2, <2>4, <2>5
  <2>6. CASE i # slot
    <3>1. i \in Nat
      BY CalmFacts
    <3> QED BY <2>1, <2>3, <2>4, <2>6, <3>1 DEF InPlace
  <2> QED BY <2>5, <2>6
<1> QED BY <1>1, <1>2

\* What is to be removed is not the directory of a member or of a start.
LEMMA CleaningPort ==
  ASSUME TypeInv, CalmState, NEW b \in cleaning
  PROVE  /\ b \in Backend \ Members /\ ~Held(b) /\ phase = "serving"
         /\ \A c \in Members : inst[c].port # inst[b].port
         /\ \A t \in {Main, Rotator} : Starting(t) => inst[cur[t]].port # inst[b].port
<1>1. b \in Backend \ Members /\ ~Held(b)
  BY DEF TypeInv, TypeOK, CalmState, CalmRetired, CalmStarts, Held
<1>2. PICK i \in DOMAIN pool : /\ InPlace(inst[b].port, i)
                               /\ inst[b].port < inst[pool[i]].port
  BY <1>1 DEF CalmState, CalmRetired
<1>3. phase = "serving"
  BY <1>1 DEF CalmState, CalmRetired
<1>4. ASSUME NEW c \in Members PROVE inst[c].port # inst[b].port
  <2>1. PICK j \in DOMAIN pool : c = pool[j]
    BY <1>4, CalmFacts
  <2>2. CASE i = j
    BY <1>1, <1>2, <2>1, <2>2, CalmFacts
  <2>3. CASE i # j
    <3>1. InPlace(inst[c].port, j) /\ i \in Nat /\ j \in Nat
      BY <2>1, CalmFacts DEF CalmState, CalmMembers
    <3> QED BY <1>2, <2>3, <3>1 DEF InPlace
  <2> QED BY <2>2, <2>3
<1>5. ASSUME NEW t \in {Main, Rotator}, Starting(t)
      PROVE  inst[cur[t]].port # inst[b].port
  <2>1. step[t] # "idle" /\ inst[cur[t]].port = Head(todo[t])
    BY <1>5 DEF Starting, CalmState, CalmStarts
  <2> QED BY <1>1, <2>1, FreshPort
<1> QED BY <1>1, <1>3, <1>4, <1>5

-----------------------------------------------------------------------------
(* Every step of a calm engine leaves it calm.                             *)


\* A start that creates its backend: it takes an object nothing refers to.
LEMMA CalmCreate ==
  ASSUME TypeInv, TypeInv', CalmState, Calm', NEW t \in {Main, Rotator}, CreateBackend(t)
  PROVE  CalmState'
<1> DEFINE p == Head(todo[t])
<1>0. /\ step[t] = "begin" /\ t \in Thread /\ LoadOrCreateIdentity(p)
      /\ UNCHANGED <<pool, cleaning, lifeVars, engineDone, stopped>>
  BY ThreadFacts DEF CreateBackend
<1>1. PICK b \in Backend :
         /\ Garbage(b)
         /\ NewBackend(b, p, disk'[p])
         /\ cur' = [cur EXCEPT ![t] = b]
         /\ step' = [step EXCEPT ![t] = "wait"]
         /\ UNCHANGED <<todo, slot, old, panicked, failures>>
  <2>1. panicked' # TRUE
    BY Zenon DEF Calm
  <2>2. ~Fails
    BY BoundAssumption DEF Calm, Fails, TypeInv, TypeOK
  <2> QED BY <2>1, <2>2 DEF CreateBackend
<1>2. /\ inst[b].ws = "closed" /\ b \notin Members \cup cleaning
      /\ \A u \in Thread : cur[u] # b
  BY <1>1 DEF Garbage
<1>3. \A u \in {Main, Rotator} : u # t => step[u] = "idle"
  BY <1>0, RotatorStarts, MainStarts, ThreadFacts DEF TypeInv, ThreadOK
<1>4. \A c \in Backend : ~Held(c)
  BY <1>0, <1>3 DEF Held, Starting
<1>5. /\ inst'[b] = [port |-> p, ident |-> disk'[p], healthy |-> TRUE,
                     cancelled |-> FALSE, ws |-> "spawned"]
      /\ \A c \in Backend \ {b} : inst'[c] = inst[c]
  BY <1>1 DEF NewBackend, TypeInv, TypeOK
<1>6. /\ p \in DOMAIN disk' /\ \A q \in DOMAIN disk : q \in DOMAIN disk' /\ disk'[q] = disk[q]
      /\ \A q \in DOMAIN disk' : q # p => q \in DOMAIN disk
      /\ p \notin DOMAIN disk => \A q \in DOMAIN disk : disk'[p] # disk[q]
  BY <1>0 DEF LoadOrCreateIdentity, UsedIdentities
<1>7. /\ pool' = pool /\ Members' = Members /\ cleaning' = cleaning /\ todo' = todo
      /\ slot' = slot /\ old' = old /\ phase' = phase /\ rotating' = rotating
  BY <1>0, <1>1 DEF lifeVars, Members
<1>8. /\ \A u \in {Main, Rotator} : Starting(u)' => u = t
      /\ step'[t] = "wait" /\ cur'[t] = b /\ \A u \in Thread \ {t} : step'[u] = step[u]
      /\ \A c \in Backend : Held(c)' <=> c = b
  <2>1. /\ step'[t] = "wait" /\ cur'[t] = b
        /\ \A u \in Thread \ {t} : step'[u] = step[u]
    BY <1>0, <1>1 DEF TypeInv, TypeOK
  <2> QED BY <1>3, <2>1, ThreadFacts DEF Starting, Held
<1> HIDE DEF p
<1>9. \A i \in DOMAIN pool : /\ pool[i] \in Backend /\ pool[i] # b /\ pool[i] \in Members
                             /\ inst'[pool[i]] = inst[pool[i]]
  BY <1>2, <1>5, CalmFacts
<1>10. CalmThreads'
   <2>1. step'[Rotator] # "idle" => step[Rotator] # "idle"
     BY <1>0, <1>8, ThreadFacts
   <2>2. phase = "init" => step'[Rotator] = "idle"
     <3>1. CASE t = Rotator
       BY <1>0, <3>1, RotatorStarts
     <3>2. CASE t # Rotator
       BY <1>8, <3>2, ThreadFacts DEF CalmState, CalmThreads
     <3> QED BY <3>1, <3>2
   <2>3. step[Rotator] # "idle" => TempPort(pool[slot])' = TempPort(pool[slot])
     BY <1>7, <1>9, RotatorStarts DEF TempPort
   <2> QED BY <1>7, <2>1, <2>2, <2>3 DEF CalmState, CalmThreads
<1>11. CalmMembers'
  BY <1>6, <1>7, <1>9 DEF CalmState, CalmMembers, Good, Open, Kept
<1>12. CalmStarts'
  BY <1>2, <1>5, <1>6, <1>7, <1>8 DEF CalmStarts, Good, Open, Kept, p
<1>13. CalmRetired'
  <2>1. \A c \in Backend \ Members : c # b =>
            /\ inst'[c].ws = "closed" \/ (inst'[c].ws = "listening" /\ inst'[c].cancelled)
            /\ (inst'[c].ws # "closed" \/ c \in cleaning) =>
                  /\ phase = "serving"
                  /\ \E i \in DOMAIN pool : /\ InPlace(inst'[c].port, i)
                                            /\ inst'[c].port < inst'[pool[i]].port
    BY <1>4, <1>5, <1>9 DEF CalmState, CalmRetired
  <2> QED BY <1>7, <1>8, <2>1 DEF CalmState, CalmRetired
<1>14. CalmPorts'
  <2>1. ASSUME NEW c \in Backend, c # b, Open(c)' PROVE inst'[c].port # inst'[b].port
    <3>1. Open(c) /\ inst'[c].port = inst[c].port
      BY <1>5, <2>1 DEF Open
    <3>2. inst[c].ws # "closed" /\ ~Held(c)
      BY <1>4, <3>1 DEF Open
    <3>3. inst[c].port # p
      BY <1>0, <3>2, FreshPort DEF p
    <3> QED BY <1>5, <3>1, <3>3
  <2>2. \A c, d \in Backend \ {b} :
            Open(c)' /\ Open(d)' /\ c # d => inst'[c].port # inst'[d].port
    BY <1>5 DEF CalmState, CalmPorts, Open
  <2> QED BY <2>1, <2>2 DEF CalmPorts
<1>15. CalmDisk'
  BY <1>6 DEF CalmState, CalmDisk
<1>16. CalmRound'
  <2>1. \A i \in DOMAIN pool : Rotations(pool[i])' = Rotations(pool[i])
    BY <1>7, <1>9 DEF Rotations
  <2>2. \A i \in DOMAIN pool : slot \in DOMAIN pool
    BY CalmFacts DEF CalmState, CalmThreads
  <2> QED BY <1>7, <2>1, <2>2 DEF CalmState, CalmRound
<1> QED BY <1>10, <1>11, <1>12, <1>13, <1>14, <1>15, <1>16 DEF CalmState

\* The probe is answered by the backend it is meant for.
LEMMA CalmProbe ==
  ASSUME TypeInv, TypeInv', CalmState, NEW t \in {Main, Rotator},
         StartProbe(t) \/ ProbeAnswered(t) \/ ProbeRefused(t)
  PROVE  CalmState'
<1>0. t \in Thread /\ Starting(t)
  BY ThreadFacts DEF StartProbe, ProbeAnswered, ProbeRefused, Starting
<1>1. /\ UNCHANGED <<pool, inst, disk, cleaning, todo, cur, slot, old, phase, rotating>>
      /\ step'[t] \in {"wait", "probe", "ready"}
      /\ \A u \in Thread \ {t} : step'[u] = step[u]
  BY <1>0 DEF StartProbe, ProbeAnswered, ProbeRefused, lifeVars, TypeInv, TypeOK
<1>2. /\ \A u \in {Main, Rotator} : Starting(u)' <=> Starting(u)
      /\ \A b : Held(b)' <=> Held(b)
  BY <1>0, <1>1, ThreadFacts DEF Starting, Held
<1>3. ASSUME step'[t] = "ready" PROVE inst[cur[t]].ws = "listening"
  <2>1. ProbeAnswered(t)
    BY <1>0, <1>3 DEF StartProbe, ProbeRefused, TypeInv, TypeOK
  <2>2. PICK c \in Backend : inst[c].ws = "listening" /\ inst[c].port = Head(todo[t])
    BY <2>1 DEF ProbeAnswered, PortServed, Serves
  <2>3. cur[t] \in Backend /\ Open(cur[t]) /\ inst[cur[t]].port = Head(todo[t])
    BY <1>0, ThreadFacts DEF CalmState, CalmStarts, Good, TypeInv, ThreadOK, Starting
  <2>4. c = cur[t]
    BY <2>2, <2>3 DEF CalmState, CalmPorts, Open
  <2> QED BY <2>2, <2>4
<1>4. CalmThreads'
  BY <1>0, <1>1, ThreadFacts DEF CalmState, CalmThreads, TempPort, Starting
<1>5. CalmMembers' /\ CalmRetired' /\ CalmPorts' /\ CalmDisk' /\ CalmRound'
  <2>1. Members' = Members
    BY <1>1 DEF Members
  <2>2. CalmMembers'
    BY <1>1 DEF CalmState, CalmMembers, Good, Open, Kept
  <2>3. CalmRetired'
    BY <1>1, <1>2, <2>1 DEF CalmState, CalmRetired
  <2>4. CalmPorts' /\ CalmDisk' /\ CalmRound'
    BY <1>1 DEF CalmState, CalmPorts, CalmDisk, CalmRound, Open, Rotations
  <2> QED BY <2>2, <2>3, <2>4
<1>6. CalmStarts'
  <2>1. Members' = Members
    BY <1>1 DEF Members
  <2>2. ASSUME NEW u \in {Main, Rotator}, Starting(u)'
        PROVE  /\ Good(cur[u])' /\ inst'[cur'[u]].port = Head(todo'[u])
               /\ cur'[u] \notin Members' \cup cleaning'
               /\ step'[u] = "ready" => inst'[cur'[u]].ws = "listening"
    <3>1. Starting(u)
      BY <1>2, <2>2
    <3>2. /\ Good(cur[u]) /\ inst[cur[u]].port = Head(todo[u])
          /\ cur[u] \notin Members \cup cleaning
          /\ step[u] = "ready" => inst[cur[u]].ws = "listening"
      BY <3>1 DEF CalmState, CalmStarts
    <3>3. step'[u] = "ready" => inst[cur[u]].ws = "listening"
      BY <1>1, <1>3, <3>2, ThreadFacts
    <3> QED BY <1>1, <2>1, <3>2, <3>3 DEF Good, Open, Kept
  <2> QED BY <2>2, <1>1 DEF CalmStarts, Good, Open, Kept
<1> QED BY <1>4, <1>5, <1>6 DEF CalmState

\* Run turns to the next port, or starts serving a full pool; the rotator picks
\* the next member.
LEMMA CalmTurn ==
  ASSUME TypeInv, TypeInv', CalmState, Calm', NextPort(Main) \/ FinishInit \/ RotatorTick
  PROVE  CalmState'
<1>0. ~engineDone /\ ~Fails
  BY BoundAssumption DEF Calm, Fails, NextPort, FinishInit, RotatorTick, endVars,
     TypeInv, TypeOK
<1>1. /\ UNCHANGED <<pool, inst, disk, cleaning, cur, slot>>
      /\ todo'[Main] = todo[Main] /\ \A r \in Replacer : todo'[r] = todo[r]
      /\ step'[Rotator] = "idle" \/ step'[Rotator] = step[Rotator] \/ RotatorTick
      /\ \A t \in {Main, Rotator} : /\ Starting(t)' => Starting(t) /\ todo'[t] = todo[t]
                                                       /\ step'[t] = step[t]
                                    /\ Starting(t) => Starting(t)'
      /\ phase' = phase \/ FinishInit
  <2>1. CASE NextPort(Main)
    BY <1>0, <2>1, ThreadFacts DEF NextPort, Starting, TypeInv, TypeOK
  <2>2. CASE FinishInit
    BY <2>2 DEF FinishInit, threadVars, Starting
  <2>3. CASE RotatorTick
    <3>1. phase = "serving" /\ ~(slot > Len(pool))
      BY <2>3, CalmFacts DEF RotatorTick, CalmState, CalmThreads
    <3>2. /\ todo' = [todo EXCEPT ![Rotator] = <<TempPort(pool[slot])>>]
          /\ step' = [step EXCEPT ![Rotator] = "begin"] /\ step[Rotator] = "idle"
          /\ UNCHANGED <<slot, pool, inst, disk, cleaning, cur, phase>>
      BY <2>3, <3>1 DEF RotatorTick, lifeVars
    <3>3. step'[Rotator] = "begin" /\ step'[Main] = step[Main] /\ todo'[Main] = todo[Main]
          /\ \A r \in Replacer : todo'[r] = todo[r]
      BY <3>2, ThreadFacts DEF TypeInv, TypeOK
    <3> QED BY <2>3, <3>2, <3>3, ThreadFacts DEF Starting
  <2> QED BY <2>1, <2>2, <2>3
<1>2. Members' = Members /\ \A b : Held(b)' <=> Held(b)
  BY <1>1 DEF Members, Held
<1>3. CalmThreads'
  <2>1. CASE NextPort(Main)
    <3>1. /\ UNCHANGED <<todo, phase, rotating, old>> /\ step'[Rotator] = step[Rotator]
      BY <1>0, <2>1, ThreadFacts DEF NextPort, TypeInv, TypeOK
    <3> QED BY <1>1, <3>1 DEF CalmState, CalmThreads, TempPort
  <2>2. CASE FinishInit
    <3>1. /\ todo[Main] = <<>> /\ phase = "init" /\ UNCHANGED threadVars
      BY <2>2 DEF FinishInit
    <3>2. Len(pool) = PoolSize
      <4>1. DOMAIN todo[Main] = 1 .. PoolSize - Len(pool)
        BY DEF CalmState, CalmThreads
      <4>2. 1 .. PoolSize - Len(pool) = {}
        BY <3>1, <4>1
      <4>3. CASE Len(pool) < PoolSize
        <5>1. 1 \in 1 .. PoolSize - Len(pool)
          BY <4>3, CalmFacts
        <5> QED BY <4>2, <5>1
      <4> QED BY <4>3, CalmFacts
    <3>3. phase' = "serving"
      <4>1. ~(Len(pool) < MinBackends)
        BY <3>2, PoolAssumption
      <4> QED BY <1>0, <2>2, <4>1 DEF FinishInit
    <3> QED BY <1>1, <3>1, <3>2, <3>3 DEF CalmState, CalmThreads, threadVars, TempPort
  <2>3. CASE RotatorTick
    <3>1. phase = "serving" /\ ~(slot > Len(pool)) /\ Len(pool) = PoolSize
      BY <2>3, CalmFacts DEF RotatorTick, CalmState, CalmThreads
    <3>2. /\ old' = pool[slot] /\ todo'[Rotator] = <<TempPort(pool[slot])>>
          /\ phase' = phase
      BY <2>3, <3>1, ThreadFacts DEF RotatorTick, lifeVars, TypeInv, TypeOK
    <3> QED BY <1>1, <3>1, <3>2 DEF CalmState, CalmThreads, TempPort
  <2> QED BY <2>1, <2>2, <2>3
<1>4. phase = "serving" => phase' = "serving"
  BY <1>1 DEF FinishInit
<1>5. phase' = "init" => phase = "init"
  BY <1>4, CalmFacts
<1>6. CalmMembers'
  BY <1>1, <1>5 DEF CalmState, CalmMembers, Good, Open, Kept
<1>7. CalmStarts'
  BY <1>1, <1>2 DEF CalmState, CalmStarts, Good, Open, Kept
<1>8. CalmRetired'
  BY <1>1, <1>2, <1>4 DEF CalmState, CalmRetired
<1>9. CalmPorts' /\ CalmDisk' /\ CalmRound'
  BY <1>1 DEF CalmState, CalmPorts, CalmDisk, CalmRound, Open, Rotations
<1> QED BY <1>3, <1>6, <1>7, <1>8, <1>9 DEF CalmState

\* A started backend joins the pool in the next place.
LEMMA CalmAppend ==
  ASSUME TypeInv, TypeInv', CalmState, AppendBackend(Main)
  PROVE  CalmState'
<1> DEFINE n == cur[Main]
           k == Len(pool) + 1
<1>1. step[Main] = "ready" /\ todo[Main] # <<>> /\ n \in Backend /\ Starting(Main)
  BY ThreadFacts DEF AppendBackend, TypeInv, ThreadOK, Starting
<1>2. /\ phase = "init" /\ step[Rotator] = "idle" /\ Len(pool) < PoolSize
      /\ ~rotating /\ slot = 1 /\ cleaning = {}
      /\ Head(todo[Main]) = PortStart + Len(pool)
      /\ Tail(todo[Main]) = [i \in 1 .. PoolSize - (Len(pool) + 1) |->
                               PortStart + (Len(pool) + 1) + i - 1]
  BY <1>1, MainStarts
<1>3. /\ Good(n) /\ inst[n].port = PortStart + Len(pool) /\ n \notin Members \cup cleaning
      /\ inst[n].ws = "listening"
  BY <1>1, <1>2 DEF CalmState, CalmStarts
<1>4. /\ UNCHANGED <<inst, disk, cleaning, phase, rotating, slot>>
      /\ todo' = [todo EXCEPT ![Main] = Tail(@)] /\ step' = [step EXCEPT ![Main] = "idle"]
      /\ pool' = Append(pool, n)
  BY ThreadFacts DEF AppendBackend, Advance, lifeVars
<1>5. /\ todo'[Main] = Tail(todo[Main]) /\ \A r \in Replacer : todo'[r] = todo[r]
      /\ step'[Main] = "idle" /\ step'[Rotator] = "idle"
  BY <1>2, <1>4, ThreadFacts DEF TypeInv, TypeOK
<1>6. /\ Len(pool) \in Nat /\ pool \in Seq(Backend) /\ k \in 1 .. PoolSize
      /\ DOMAIN pool = 1 .. Len(pool) /\ 1 .. k \subseteq 1 .. PoolSize
  BY <1>2, CalmFacts DEF TypeInv, TypeOK
<1>7. /\ Len(pool') = k /\ DOMAIN pool' = 1 .. k /\ pool'[k] = n
      /\ \A i \in DOMAIN pool : i \in 1 .. k /\ i # k /\ pool'[i] = pool[i]
      /\ \A i \in 1 .. k : i # k => i \in DOMAIN pool
  BY <1>1, <1>4, <1>6, AppendProperties
<1> HIDE DEF n, k
<1>8. Members' = Members \cup {n}
  <2>1. k \in 1 .. k
    BY <1>6
  <2> QED BY <1>7, <2>1 DEF Members
<1>9. /\ \A b : ~Held(b)' /\ \A t \in {Main, Rotator} : ~Starting(t)'
      /\ \A b : Held(b) => b = n
  BY <1>2, <1>5 DEF Held, Starting, n
<1>10. CalmThreads'
   <2>1. todo'[Main] = [i \in 1 .. PoolSize - k |-> PortStart + k + i - 1]
     BY <1>2, <1>5 DEF k
   <2>2. k <= PoolSize
     BY <1>6, PoolAssumption
   <2>3. \A r \in Replacer : todo'[r] = <<>>
     BY <1>5 DEF CalmState, CalmThreads
   <2>4. phase' = "init" /\ slot' = 1 /\ cleaning' = {}
     BY <1>2, <1>4
   <2>5. ~rotating'
     BY <1>2, <1>4, Zenon
   <2> QED BY <1>5, <1>7, <2>1, <2>2, <2>3, <2>4, <2>5 DEF CalmThreads
<1>11. CalmMembers'
   <2>1. ASSUME NEW i \in 1 .. k
         PROVE  /\ Good(pool[i])' /\ inst[pool'[i]].ws = "listening"
                /\ inst[pool'[i]].port = PortStart + i - 1
     <3>1. CASE i = k
       <4>1. PortStart + Len(pool) = PortStart + k - 1
         BY <1>6, Places DEF k
       <4> QED BY <1>3, <1>4, <1>7, <3>1, <4>1 DEF Good, Open, Kept
     <3>2. CASE i # k
       BY <1>2, <1>4, <1>7, <3>2 DEF CalmState, CalmMembers, Good, Open, Kept
     <3> QED BY <3>1, <3>2
   <2>2. ASSUME NEW i \in 1 .. k PROVE InPlace(PortStart + i - 1, i)
     <3>1. i \in 1 .. PoolSize
       BY <1>6
     <3> QED BY <3>1, Places
   <2>3. ASSUME NEW i \in 1 .. k
         PROVE  /\ Good(pool[i])' /\ inst'[pool'[i]].ws = "listening"
                /\ InPlace(inst'[pool'[i]].port, i)
                /\ inst'[pool'[i]].port = PortStart + i - 1
     BY <1>4, <2>1, <2>2
   <2> QED BY <1>7, <2>3 DEF CalmMembers
<1>12. CalmStarts'
   BY <1>9 DEF CalmStarts
<1>13. CalmRetired'
   <2>1. ASSUME NEW b \in Backend \ Members, b # n PROVE inst[b].ws = "closed"
     BY <1>2, <1>9, <2>1 DEF CalmState, CalmRetired
   <2> QED BY <1>2, <1>4, <1>8, <2>1 DEF CalmRetired
<1>14. CalmPorts' /\ CalmDisk'
   BY <1>4 DEF CalmState, CalmPorts, CalmDisk, Open
<1>15. CalmRound'
   <2>1. ASSUME NEW i \in 1 .. k PROVE Rotations(pool[i])' = 0
     <3>1. inst'[pool'[i]].port = PortStart + i - 1
       <4>1. CASE i = k
         BY <1>3, <1>4, <1>6, <1>7, <4>1, Places DEF k
       <4>2. CASE i # k
         BY <1>2, <1>4, <1>7, <4>2 DEF CalmState, CalmMembers
       <4> QED BY <4>1, <4>2
     <3>2. RotationsTo(PortStart + i - 1) = 0
       <4>1. i \in 1 .. PoolSize
         BY <1>6
       <4> QED BY <4>1, Places
     <3>3. Rotations(pool[i])' = RotationsTo(inst'[pool'[i]].port)
       BY DEF Rotations, RotationsTo
     <3> QED BY <3>1, <3>2, <3>3
   <2>2. 1 \in 1 .. k /\ slot' = 1 /\ \A i \in 1 .. k : ~(i < 1)
     BY <1>2, <1>4, <1>6
   <2> QED BY <1>7, <2>1, <2>2 DEF CalmRound
<1> QED BY <1>10, <1>11, <1>12, <1>13, <1>14, <1>15 DEF CalmState

\* The new backend takes its turn in the place of the old one, which is cancelled.
LEMMA CalmSwap ==
  ASSUME TypeInv, TypeInv', CalmState, SwapBackends
  PROVE  CalmState'
<1> DEFINE n == cur[Rotator]
<1>1. /\ step[Rotator] = "ready" /\ n \in Backend /\ Starting(Rotator)
  BY ThreadFacts DEF SwapBackends, TypeInv, ThreadOK, Starting
<1>2. /\ phase = "serving" /\ step[Main] = "idle" /\ todo[Main] = <<>>
      /\ slot \in DOMAIN pool /\ old = pool[slot] /\ old \in Backend
      /\ Head(todo[Rotator]) = inst[pool[slot]].port + TempOffset
      /\ Len(pool) = PoolSize /\ slot \in 1 .. PoolSize /\ DOMAIN pool = 1 .. PoolSize
      /\ PoolSize \in Nat \ {0} /\ pool \in Seq(Backend) /\ old \in Members
  BY <1>1, RotatorStarts, CalmFacts DEF CalmState, CalmThreads, TypeInv, TypeOK
<1>3. /\ Good(n) /\ inst[n].port = inst[old].port + TempOffset /\ n \notin Members \cup cleaning
      /\ inst[n].ws = "listening" /\ n # old
  BY <1>1, <1>2 DEF CalmState, CalmStarts
<1>4. /\ inst' = [inst EXCEPT ![old].cancelled = TRUE] /\ cleaning' = cleaning \cup {old}
      /\ pool' = [pool EXCEPT ![slot] = n]
      /\ todo' = [todo EXCEPT ![Rotator] = Tail(@)] /\ step' = [step EXCEPT ![Rotator] = "idle"]
      /\ slot' = (slot % PoolSize) + 1
      /\ UNCHANGED <<disk, phase, rotating>>
  BY <1>2, ThreadFacts DEF SwapBackends, Retire, Installed, Advance, NextSlot, lifeVars
<1>5. /\ todo'[Main] = todo[Main] /\ \A r \in Replacer : todo'[r] = todo[r]
      /\ step'[Main] = "idle" /\ step'[Rotator] = "idle"
  BY <1>2, <1>4, ThreadFacts DEF TypeInv, TypeOK
<1>6. /\ \A b \in Backend \ {old} : inst'[b] = inst[b]
      /\ inst'[old].port = inst[old].port /\ inst'[old].ident = inst[old].ident
      /\ inst'[old].ws = inst[old].ws /\ inst'[old].cancelled
  BY <1>2, <1>4 DEF TypeInv, TypeOK, Object
<1>7. /\ DOMAIN pool' = 1 .. PoolSize /\ Len(pool') = PoolSize /\ pool'[slot] = n
      /\ \A i \in 1 .. PoolSize : i # slot => pool'[i] = pool[i]
  <2>1. pool' \in Seq(Backend) /\ DOMAIN pool' = DOMAIN pool
    BY <1>4 DEF TypeInv, TypeOK
  <2>2. Len(pool') = PoolSize
    BY <1>2, <2>1, LenProperties
  <2> QED BY <1>2, <1>4, <2>1, <2>2
<1> HIDE DEF n
<1>8. \A i \in 1 .. PoolSize : i # slot => pool[i] # old /\ pool[i] \in Backend
                                           /\ inst'[pool[i]] = inst[pool[i]]
  BY <1>2, <1>6, CalmFacts
<1>9. /\ \A b \in Members' : b = n \/ (b \in Members /\ b # old)
      /\ \A b \in Members : b = old \/ b \in Members'
      /\ n \in Members' /\ old \notin Members'
  <2>1. /\ \A b \in Members' : \E i \in 1 .. PoolSize : b = pool'[i]
        /\ \A i \in 1 .. PoolSize : pool'[i] \in Members'
    BY <1>7 DEF Members
  <2>2. ASSUME NEW b \in Members' PROVE b = n \/ (b \in Members /\ b # old)
    <3>1. PICK i \in 1 .. PoolSize : b = pool'[i]
      BY <2>1
    <3>2. CASE i = slot
      BY <1>7, <3>1, <3>2
    <3>3. CASE i # slot
      BY <1>2, <1>7, <1>8, <3>1, <3>3, CalmFacts
    <3> QED BY <3>2, <3>3
  <2>3. \A b \in Members : b = old \/ b \in Members'
    BY <1>2, <1>7, <2>1, CalmFacts
  <2> QED BY <1>2, <1>3, <1>7, <2>1, <2>2, <2>3
<1>10. /\ \A b : ~Held(b)' /\ \A t \in {Main, Rotator} : ~Starting(t)'
       /\ \A b : Held(b) => b = n
   BY <1>2, <1>5 DEF Held, Starting, n
<1>11. CalmThreads'
   BY <1>2, <1>4, <1>5, <1>7 DEF CalmState, CalmThreads
<1>12. CalmMembers'
   <2>1. ASSUME NEW i \in 1 .. PoolSize
         PROVE  /\ Good(pool[i])' /\ inst'[pool'[i]].ws = "listening"
                /\ InPlace(inst'[pool'[i]].port, i)
     <3>1. CASE i = slot
       <4>1. InPlace(inst[old].port, slot) /\ inst[old].port \in Nat /\ slot \in Nat
         BY <1>2, CalmFacts DEF CalmState, CalmMembers
       <4>2. InPlace(inst[old].port + TempOffset, slot)
         BY <4>1, Places
       <4> QED BY <1>1, <1>3, <1>4, <1>6, <1>7, <3>1, <4>2 DEF Good, Open, Kept, n
     <3>2. CASE i # slot
       <4>1. pool'[i] = pool[i] /\ inst'[pool[i]] = inst[pool[i]]
         BY <1>7, <1>8, <3>2
       <4>2. /\ Good(pool[i]) /\ inst[pool[i]].ws = "listening"
             /\ InPlace(inst[pool[i]].port, i)
         BY <1>2 DEF CalmState, CalmMembers
       <4> QED BY <1>4, <4>1, <4>2 DEF Good, Open, Kept
     <3> QED BY <3>1, <3>2
   <2>2. phase' # "init"
     BY <1>2, <1>4
   <2> QED BY <1>7, <2>1, <2>2 DEF CalmMembers
<1>13. CalmStarts'
   BY <1>10 DEF CalmStarts
<1>14. CalmRetired'
   <2>1. cleaning' \cap Members' = {}
     BY <1>3, <1>4, <1>9 DEF CalmState, CalmRetired
   <2>2. ASSUME NEW b \in Backend \ Members'
         PROVE  /\ inst'[b].ws = "closed" \/ (inst'[b].ws = "listening" /\ inst'[b].cancelled)
                /\ (inst'[b].ws # "closed" \/ b \in cleaning') =>
                     \E i \in 1 .. PoolSize : /\ InPlace(inst'[b].port, i)
                                              /\ inst'[b].port < inst'[pool'[i]].port
     <3>0. inst'[pool'[slot]].port = inst[old].port + TempOffset /\ inst[old].port \in Nat
           /\ TempOffset \in Nat \ {0} /\ inst[b].port \in Nat
       <4>1. inst'[pool'[slot]].port = inst[old].port + TempOffset
         BY <1>1, <1>3, <1>6, <1>7 DEF n
       <4>2. inst[old].port \in Nat /\ inst[b].port \in Nat
         BY <1>2, CalmFacts
       <4> QED BY <4>1, <4>2, Places
     <3>1. CASE b = old
       <4>1. inst[old].ws = "listening" /\ InPlace(inst[old].port, slot)
         BY <1>2 DEF CalmState, CalmMembers
       <4> QED BY <1>2, <1>6, <3>0, <3>1, <4>1
     <3>2. CASE b # old
       <4>1. b \in Backend \ Members /\ ~Held(b) /\ inst'[b] = inst[b]
             /\ (b \in cleaning' => b \in cleaning)
         BY <1>4, <1>6, <1>9, <1>10, <3>2
       <4>2. inst[b].ws = "closed" \/ (inst[b].ws = "listening" /\ inst[b].cancelled)
         BY <4>1 DEF CalmState, CalmRetired
       <4>3. ASSUME inst[b].ws # "closed" \/ b \in cleaning
             PROVE  \E i \in 1 .. PoolSize : /\ InPlace(inst[b].port, i)
                                             /\ inst[b].port < inst'[pool'[i]].port
         <5>1. PICK i \in 1 .. PoolSize : /\ InPlace(inst[b].port, i)
                                          /\ inst[b].port < inst[pool[i]].port
           BY <1>2, <4>1, <4>3 DEF CalmState, CalmRetired
         <5>2. CASE i = slot
           <6>1. inst[b].port < inst[old].port + TempOffset
             BY <1>2, <3>0, <5>1, <5>2
           <6> QED BY <3>0, <5>1, <5>2, <6>1
         <5>3. CASE i # slot
           BY <1>7, <1>8, <5>1, <5>3
         <5> QED BY <5>2, <5>3
       <4> QED BY <4>1, <4>2, <4>3
     <3> QED BY <3>1, <3>2
   <2> QED BY <1>2, <1>4, <1>7, <2>1, <2>2 DEF CalmRetired
<1>15. CalmPorts' /\ CalmDisk'
   <2>1. \A b \in Backend : inst'[b].port = inst[b].port /\ inst'[b].ws = inst[b].ws
     BY <1>6
   <2> QED BY <1>4, <2>1 DEF CalmState, CalmPorts, CalmDisk, Open
<1>16. CalmRound'
   <2> DEFINE R(i) == Rotations(pool[i])
              S(i) == RotationsTo(inst'[pool'[i]].port)
   <2>1. \A i \in 1 .. PoolSize : R(i) = R(slot) + (IF i < slot THEN 1 ELSE 0)
     BY <1>2 DEF CalmState, CalmRound
   <2>2. \A i \in 1 .. PoolSize : i # slot => S(i) = R(i)
     BY <1>7, <1>8 DEF Rotations, RotationsTo, R, S
   <2>3. S(slot) = R(slot) + 1 /\ R(slot) \in Int
     <3>1. InPlace(inst[old].port, slot) /\ inst[old].port \in Nat /\ slot \in Nat
       BY <1>2, CalmFacts DEF CalmState, CalmMembers
     <3>2. inst'[pool'[slot]].port = inst[old].port + TempOffset
       BY <1>1, <1>3, <1>6, <1>7 DEF n
     <3>3. /\ RotationsTo(inst[old].port + TempOffset) = RotationsTo(inst[old].port) + 1
           /\ RotationsTo(inst[old].port) \in Int
       BY <3>1, Places
     <3>4. /\ S(slot) = RotationsTo(inst'[pool'[slot]].port)
           /\ R(slot) = RotationsTo(inst[old].port)
       BY <1>2 DEF Rotations, RotationsTo, R, S
     <3> QED BY <3>2, <3>3, <3>4
   <2> HIDE DEF R, S
   <2>4. CASE slot < PoolSize
     <3>1. slot' = slot + 1 /\ slot + 1 \in 1 .. PoolSize
       <4>1. slot % PoolSize = slot
         BY <1>2, <2>4, BelowDivisor
       <4> QED BY <1>2, <1>4, <2>4, <4>1
     <3>2. S(slot + 1) = R(slot)
       BY <1>2, <2>1, <2>2, <2>3, <3>1
     <3>3. \A i \in 1 .. PoolSize : S(i) = S(slot + 1) + (IF i < slot + 1 THEN 1 ELSE 0)
       BY <1>2, <2>1, <2>2, <2>3, <3>2
     <3>4. \A i \in 1 .. PoolSize : S(i) = S(slot') + (IF i < slot' THEN 1 ELSE 0)
       BY <3>1, <3>3, Zenon
     <3> QED BY <1>7, <3>4 DEF CalmRound, Rotations, RotationsTo, S
   <2>5. CASE slot = PoolSize
     <3>1. slot' = 1 /\ 1 \in 1 .. PoolSize
       <4>1. PoolSize % PoolSize = 0
         BY <1>2
       <4> QED BY <1>2, <1>4, <2>5, <4>1
     <3>2. S(1) = R(slot) + 1
       BY <1>2, <2>1, <2>2, <2>3, <2>5
     <3>3. \A i \in 1 .. PoolSize : S(i) = S(1) + (IF i < 1 THEN 1 ELSE 0)
       BY <1>2, <2>1, <2>2, <2>3, <2>5, <3>2
     <3>4. \A i \in 1 .. PoolSize : S(i) = S(slot') + (IF i < slot' THEN 1 ELSE 0)
       BY <3>1, <3>3, Zenon
     <3> QED BY <1>7, <3>4 DEF CalmRound, Rotations, RotationsTo, S
   <2> QED BY <1>2, <2>4, <2>5
<1> QED BY <1>11, <1>12, <1>13, <1>14, <1>15, <1>16 DEF CalmState

\* A clean-up removes the directory of a retired backend only.
LEMMA CalmCleanup ==
  ASSUME TypeInv, TypeInv', CalmState, Calm', NEW b \in Backend, CleanupBackendIdentity(b)
  PROVE  CalmState'
<1>1. ~Fails
  BY BoundAssumption DEF Calm, Fails, TypeInv, TypeOK
<1>2. /\ b \in cleaning /\ cleaning' = cleaning \ {b}
      /\ disk' = [p \in DOMAIN disk \ {inst[b].port} |-> disk[p]]
      /\ UNCHANGED <<pool, inst, phase, rotating, step, todo, cur, slot, old>>
  BY <1>1 DEF CleanupBackendIdentity, lifeVars, threadVars
<1>3. /\ phase = "serving"
      /\ \A c \in Members : inst[c].port # inst[b].port
      /\ \A t \in {Main, Rotator} : Starting(t) => inst[cur[t]].port # inst[b].port
  BY <1>2, CleaningPort
<1>4. /\ Members' = Members /\ \A c : Held(c)' <=> Held(c)
      /\ \A t \in Thread : Starting(t)' <=> Starting(t)
  BY <1>2 DEF Members, Held, Starting
<1>5. CalmThreads'
  BY <1>2, <1>3 DEF CalmState, CalmThreads, TempPort
<1>6. CalmMembers'
  BY <1>2, <1>3, CalmFacts DEF CalmState, CalmMembers, Good, Open, Kept
<1>7. CalmStarts'
  BY <1>2, <1>3, <1>4, ThreadFacts DEF CalmState, CalmStarts, Good, Open, Kept
<1>8. CalmRetired'
  BY <1>2, <1>4 DEF CalmState, CalmRetired
<1>9. CalmPorts' /\ CalmDisk' /\ CalmRound'
  BY <1>2 DEF CalmState, CalmPorts, CalmDisk, CalmRound, Open, Rotations
<1> QED BY <1>5, <1>6, <1>7, <1>8, <1>9 DEF CalmState

\* A backend starts listening, or a cancelled one stops.
LEMMA CalmListen ==
  ASSUME TypeInv, TypeInv', CalmState, Calm, NEW b \in Backend, WsListen(b) \/ WsCloses(b)
  PROVE  CalmState'
<1>1. /\ \A c \in Backend \ {b} : inst'[c] = inst[c]
      /\ inst'[b].port = inst[b].port /\ inst'[b].ident = inst[b].ident
      /\ inst'[b].cancelled = inst[b].cancelled
      /\ UNCHANGED <<pool, disk, cleaning, phase, rotating, step, todo, cur, slot, old>>
  BY DEF WsListen, WsCloses, lifeVars, threadVars, TypeInv, TypeOK, Object
<1>2. \A c \in Backend : Open(c)' => Open(c)
  BY <1>1 DEF WsListen, WsCloses, Open
<1>3. ASSUME WsListen(b)
      PROVE  /\ \A c \in Backend : Good(c) => Good(c)'
             /\ \A c \in Backend : inst[c].ws = "listening" => inst'[c].ws = "listening"
             /\ \A c \in Backend \ Members : ~Held(c) => inst'[c].ws = inst[c].ws
  <2>1. /\ inst[b].ws = "spawned" /\ inst'[b].ws = "listening"
        /\ inst'[b].healthy = inst[b].healthy
    BY <1>3 DEF WsListen, TypeInv, TypeOK, Object
  <2>2. b \in Members \/ Held(b)
    BY <2>1 DEF CalmState, CalmRetired
  <2> QED BY <1>1, <2>1, <2>2 DEF Good, Open, Kept
<1>4. ASSUME WsCloses(b)
      PROVE  /\ \A c \in Backend : c \in Members \/ Held(c) => inst'[c] = inst[c]
             /\ \A c \in Backend \ Members :
                   ~Held(c) => inst'[c].ws = "closed" \/ inst'[c].ws = inst[c].ws
  <2>1. inst[b].cancelled /\ Open(b)
    BY <1>4 DEF WsCloses, Done, Calm, Open
  <2>2. b \notin Members /\ ~Held(b)
    BY <2>1, CalmFacts DEF CalmState, CalmMembers, CalmStarts, Good, Held
  <2>3. inst'[b].ws = "closed"
    BY <1>4 DEF WsCloses, TypeInv, TypeOK, Object
  <2> QED BY <1>1, <2>2, <2>3
<1>5. /\ \A c \in Backend : c \in Members \/ Held(c) =>
            /\ Good(c) => Good(c)'
            /\ inst[c].ws = "listening" => inst'[c].ws = "listening"
      /\ \A c \in Backend \ Members :
            ~Held(c) => inst'[c].ws = "closed" \/ inst'[c].ws = inst[c].ws
  <2>1. CASE WsListen(b)
    BY <1>3, <2>1
  <2>2. CASE WsCloses(b)
    BY <1>1, <1>4, <2>2 DEF Good, Open, Kept
  <2> QED BY <2>1, <2>2
<1>6. /\ Members' = Members /\ \A c : Held(c)' <=> Held(c)
      /\ \A t \in Thread : Starting(t)' <=> Starting(t)
      /\ \A c \in Backend : /\ inst'[c].port = inst[c].port
                            /\ inst'[c].cancelled = inst[c].cancelled
  BY <1>1 DEF Members, Held, Starting
<1>7. CalmThreads'
  BY <1>1, <1>6, CalmFacts, RotatorStarts DEF CalmState, CalmThreads, TempPort
<1>8. CalmMembers'
  BY <1>1, <1>5, <1>6, CalmFacts DEF CalmState, CalmMembers
<1>9. CalmStarts'
  <2>1. ASSUME NEW t \in {Main, Rotator}, Starting(t)
        PROVE  /\ cur[t] \in Backend /\ Held(cur[t])
    BY <2>1, ThreadFacts DEF TypeInv, ThreadOK, Starting, Held
  <2> QED BY <1>1, <1>5, <1>6, <2>1, ThreadFacts DEF CalmState, CalmStarts
<1>10. CalmRetired'
   BY <1>1, <1>5, <1>6, CalmFacts DEF CalmState, CalmRetired
<1>11. CalmPorts' /\ CalmDisk'
   BY <1>1, <1>2, <1>6 DEF CalmState, CalmPorts, CalmDisk
<1>12. CalmRound'
   <2>1. \A i \in DOMAIN pool : /\ slot \in DOMAIN pool
                                /\ Rotations(pool[i])' = Rotations(pool[i])
     BY <1>1, <1>6, CalmFacts DEF CalmState, CalmThreads, Rotations
   <2> QED BY <1>1, <2>1 DEF CalmState, CalmRound
<1> QED BY <1>7, <1>8, <1>9, <1>10, <1>11, <1>12 DEF CalmState

\* While nothing fails there are no other steps: no replacer has a port to start,
\* every member is sound, and no port is taken when its backend starts listening.
LEMMA CalmSteps ==
  ASSUME TypeInv, CalmState, Calm, Calm', Step
  PROVE  \/ \E t \in {Main, Rotator} : \/ CreateBackend(t) \/ StartProbe(t)
                                       \/ ProbeAnswered(t) \/ ProbeRefused(t)
         \/ NextPort(Main) \/ FinishInit \/ RotatorTick
         \/ AppendBackend(Main) \/ SwapBackends
         \/ \E b \in Backend : \/ CleanupBackendIdentity(b)
                               \/ WsListen(b) \/ WsCloses(b)
<1>1. ~Fails /\ ~engineDone /\ ~engineDone'
  BY BoundAssumption DEF Calm, Fails, TypeInv, TypeOK
<1>2. \A r \in Replacer : todo[r] = <<>> /\ step[r] = "idle"
  BY ThreadFacts DEF CalmState, CalmThreads, TypeInv, ThreadOK
<1>3. ASSUME NEW t \in Thread, StartSteps(t)
      PROVE  \E u \in {Main, Rotator} : \/ CreateBackend(u) \/ StartProbe(u)
                                        \/ ProbeAnswered(u) \/ ProbeRefused(u)
  <2>1. step[t] # "idle"
    BY <1>3 DEF StartSteps, IdentityFails, CreateBackend, StartProbe, ProbeAnswered,
       ProbeRefused, WaitFails
  <2>2. t \in {Main, Rotator}
    BY <1>2, <2>1 DEF Thread
  <2>3. ~IdentityFails(t)
    BY <1>1 DEF IdentityFails
  <2>4. ~WaitFails(t)
    <3>1. step[t] = "wait" => ~Done(cur[t])
      BY <1>1, <2>2 DEF CalmState, CalmStarts, Starting, Good, Done
    <3> QED BY <1>1, <3>1 DEF WaitFails
  <2> QED BY <1>3, <2>2, <2>3, <2>4 DEF StartSteps
<1>4. ASSUME Main_ PROVE NextPort(Main) \/ AppendBackend(Main) \/ FinishInit
  BY <1>1, <1>4 DEF Main_, RunReturns
<1>5. ASSUME NEW r \in Replacer, Replacing(r) PROVE FALSE
  BY <1>2, <1>5 DEF Replacing, NextPort, AppendBackend
<1>6. ASSUME Rotating PROVE RotatorTick \/ SwapBackends
  BY <1>1, <1>6 DEF Rotating, RotatorExit, RotatorLeaves
<1>7. ~MonitorCheck
  <2>1. {i \in DOMAIN pool : Sound(pool[i])} = DOMAIN pool
    BY <1>1 DEF CalmState, CalmMembers, Good, Sound, Done
  <2> QED BY <2>1 DEF MonitorCheck
<1>8. ~MonitorExit /\ ~CancelEngine /\ ~CancelPool
  BY <1>1 DEF MonitorExit, CancelEngine, CancelPool
<1>9. ASSUME NEW b \in Backend,
             Library(b) \/ CleanupBackendIdentity(b) \/ MarkUnhealthy(b)
      PROVE  WsListen(b) \/ WsCloses(b) \/ CleanupBackendIdentity(b)
  <2>1. ~MarkUnhealthy(b)
    BY <1>1 DEF MarkUnhealthy
  <2>2. ~WsFails(b)
    <3>1. inst[b].ws = "spawned" => ~PortServed(inst[b].port)
      BY DEF PortServed, Serves, CalmState, CalmPorts, Open
    <3> QED BY <1>1, <3>1 DEF WsFails
  <2>3. ~WsCancels(b)
    <3>1. inst[b].ws # "failed"
      <4>1. CASE b \in Members
        BY <4>1, CalmFacts DEF CalmState, CalmMembers
      <4>2. CASE Held(b)
        BY <4>2 DEF Held, CalmState, CalmStarts, Good, Open
      <4>3. CASE b \notin Members /\ ~Held(b)
        BY <4>3 DEF CalmState, CalmRetired
      <4> QED BY <4>1, <4>2, <4>3
    <3> QED BY <3>1 DEF WsCancels
  <2> QED BY <1>9, <2>1, <2>2, <2>3 DEF Library
<1> QED BY <1>3, <1>4, <1>5, <1>6, <1>7, <1>8, <1>9 DEF Step

\* What has failed has failed for good.
LEMMA CalmBefore ==
  ASSUME TypeInv, [Next]_vars, Calm'
  PROVE  Calm
<1> DEFINE Lasts == /\ engineDone => engineDone'
                    /\ panicked => panicked'
                    /\ failures' = failures \/ failures' = failures + 1
<1>1. ASSUME NEW t \in Thread,
             StartSteps(t) \/ NextPort(t) \/ AppendBackend(t) \/ FinishInit \/ RunReturns
      PROVE  Lasts
  BY <1>1 DEF StartSteps, IdentityFails, CreateBackend, StartProbe, ProbeAnswered,
     ProbeRefused, WaitFails, NextPort, AppendBackend, FinishInit, RunReturns, Fails,
     endVars
<1>2. ASSUME Rotating \/ MonitorCheck \/ MonitorExit \/ CancelEngine \/ CancelPool
      PROVE  Lasts
  BY <1>2 DEF Rotating, RotatorTick, SwapBackends, RotatorExit, MonitorCheck,
     MonitorExit, CancelEngine, CancelPool, endVars
<1>3. ASSUME NEW b \in Backend,
             Library(b) \/ CleanupBackendIdentity(b) \/ MarkUnhealthy(b)
      PROVE  Lasts
  BY <1>3 DEF Library, WsListen, WsFails, WsCancels, WsCloses, CleanupBackendIdentity,
     MarkUnhealthy, Fails, endVars
<1>4. ASSUME UNCHANGED vars PROVE Lasts
  BY <1>4 DEF vars, endVars
<1>5. Lasts
  BY <1>1, <1>2, <1>3, <1>4, ThreadFacts DEF Next, Step, Main_, Replacing, Terminated
<1>6. failures = 0
  BY <1>5, BoundAssumption DEF Calm, TypeInv, TypeOK
<1> QED BY <1>5, <1>6, Zenon DEF Calm

\* Every step keeps the invariant.
LEMMA CalmNext == CalmInv /\ [Next]_vars => CalmInv'
<1> SUFFICES ASSUME CalmInv, [Next]_vars, Calm' PROVE CalmState'
  BY NextType DEF CalmInv
<1>1. TypeInv /\ TypeInv' /\ Calm /\ CalmState
  BY NextType, CalmBefore DEF CalmInv
<1>2. CASE Step
  BY <1>1, <1>2, CalmSteps, CalmCreate, CalmProbe, CalmTurn, CalmAppend, CalmSwap,
     CalmCleanup, CalmListen
<1>3. CASE UNCHANGED vars
  <2>1. CalmThreads' /\ CalmRound' /\ CalmPorts' /\ CalmDisk'
    BY <1>1, <1>3 DEF CalmState, CalmThreads, CalmRound, CalmPorts, CalmDisk, Open,
       Rotations, TempPort, vars, threadVars, lifeVars
  <2>2. CalmMembers' /\ CalmStarts'
    BY <1>1, <1>3 DEF CalmState, CalmMembers, CalmStarts, Good, Open, Kept, Starting,
       Members, vars, threadVars, lifeVars
  <2>3. CalmRetired'
    BY <1>1, <1>3 DEF CalmState, CalmRetired, Held, Starting, Members, vars, threadVars,
       lifeVars
  <2> QED BY <2>1, <2>2, <2>3 DEF CalmState
<1> QED BY <1>2, <1>3 DEF Next, Terminated

\* The engine starts calm.
LEMMA CalmInit == Init => CalmInv
<1> SUFFICES ASSUME Init PROVE CalmState
  BY InitType DEF CalmInv
<1>1. /\ pool = <<>> /\ DOMAIN pool = {} /\ Len(pool) = 0 /\ Members = {}
      /\ \A t \in Thread : step[t] = "idle"
  BY DEF Init, Members
<1>2. CalmThreads
  <2>1. todo[Main] = [i \in 1 .. PoolSize |-> PortStart + i - 1]
    BY ThreadFacts DEF Init
  <2>2. PoolSize - Len(pool) = PoolSize /\ PortStart + Len(pool) = PortStart
    BY <1>1, PoolAssumption, PortAssumption
  <2>3. \A r \in Replacer : todo[r] = <<>>
    BY ThreadFacts DEF Init
  <2>4. Len(pool) <= PoolSize
    BY <1>1, PoolAssumption
  <2> QED BY <1>1, <2>1, <2>2, <2>3, <2>4, ThreadFacts DEF Init, CalmThreads
<1>3. CalmMembers /\ CalmRound
  BY <1>1 DEF CalmMembers, CalmRound
<1>4. CalmStarts
  BY <1>1, ThreadFacts DEF CalmStarts, Starting
<1>5. CalmRetired /\ CalmPorts
  BY <1>1 DEF CalmRetired, CalmPorts, Open, Init
<1>6. CalmDisk
  <2>1. \A p, q \in Leftover : disk[p] = disk[q] => p = q
    BY IdentityAssumption DEF Init
  <2>2. DOMAIN disk = Leftover
    BY IdentityAssumption DEF Init
  <2> QED BY <2>1, <2>2 DEF CalmDisk
<1> QED BY <1>2, <1>3, <1>4, <1>5, <1>6 DEF CalmState

\* For every pool, port range and set of directories left over from earlier runs:
\* while nothing fails, no rotation is seen by a client, in whatever order the
\* rotator, the clean-ups and the listeners of old and new backends take their
\* steps.
THEOREM CalmServes == Spec => []CalmService
<1>1. CalmInv => CalmService
  <2> SUFFICES ASSUME CalmInv, Calm, phase = "serving"
               PROVE  CalmService
    BY DEF CalmService
  <2>1. TypeInv /\ CalmState
    BY DEF CalmInv
  <2>2. Len(pool) = PoolSize
    BY <2>1 DEF CalmState, CalmThreads
  <2>3. ASSUME NEW b \in Members
        PROVE  /\ Sound(b) /\ Serves(b, inst[b].port) /\ Kept(b)
    BY <2>1, <2>3, CalmFacts DEF CalmState, CalmMembers, Good, Sound, Done, Serves, Calm
  <2>4. ASSUME NEW i \in DOMAIN pool, NEW j \in DOMAIN pool, i # j
        PROVE  /\ inst[pool[i]].port # inst[pool[j]].port
               /\ inst[pool[i]].ident # inst[pool[j]].ident
    <3>1. pool[i] \in Members /\ pool[j] \in Members /\ pool[i] # pool[j]
          /\ pool[i] \in Backend /\ pool[j] \in Backend
      BY <2>1, <2>4, CalmFacts
    <3>2. Open(pool[i]) /\ Open(pool[j]) /\ Kept(pool[i]) /\ Kept(pool[j])
      BY <2>1 DEF CalmState, CalmMembers, Good
    <3>3. inst[pool[i]].port # inst[pool[j]].port
      BY <2>1, <3>1, <3>2 DEF CalmState, CalmPorts
    <3> QED BY <2>1, <3>2, <3>3 DEF CalmState, CalmDisk, Kept
  <2> QED BY <2>2, <2>3, <2>4 DEF CalmService, Kept
<1> QED BY <1>1, CalmInit, CalmNext, PTL DEF Spec

\* While nothing fails no backend is forgotten, at any step of a start or of a
\* rotation.
THEOREM CalmForgetsNobody == Spec => []CalmNoOrphan
<1>1. CalmInv => CalmNoOrphan
  <2> SUFFICES ASSUME CalmInv, Calm, NEW b \in Backend, Orphan(b)
               PROVE  FALSE
    BY DEF CalmNoOrphan
  <2>1. /\ b \notin Members /\ \A t \in Thread : cur[t] # b
        /\ inst[b].ws \in {"spawned", "listening"} /\ ~inst[b].cancelled
    BY DEF Orphan, Done
  <2>2. ~Held(b)
    BY <2>1, ThreadFacts DEF Held
  <2> QED BY <2>1, <2>2 DEF CalmInv, CalmState, CalmRetired
<1> QED BY <1>1, CalmInit, CalmNext, PTL DEF Spec

\* While nothing fails the rotator goes round the pool: whatever the numbers, no
\* member is rotated twice while another one waits for its turn.
THEOREM RotationIsFair == Spec => []RotatesEvenly
<1>1. CalmInv => RotatesEvenly
  <2> SUFFICES ASSUME CalmInv, Calm, NEW b \in Members, NEW c \in Members
               PROVE  Rotations(b) <= Rotations(c) + 1
    BY DEF RotatesEvenly
  <2>1. TypeInv /\ CalmState
    BY DEF CalmInv
  <2>2. PICK i \in DOMAIN pool, j \in DOMAIN pool : b = pool[i] /\ c = pool[j]
    BY <2>1, CalmFacts
  <2>3. slot \in DOMAIN pool
    BY <2>1, <2>2, CalmFacts DEF CalmState, CalmThreads
  <2>4. Rotations(pool[slot]) \in Int
    <3>1. InPlace(inst[pool[slot]].port, slot) /\ inst[pool[slot]].port \in Nat
          /\ slot \in Nat
      BY <2>1, <2>3, CalmFacts DEF CalmState, CalmMembers
    <3> QED BY <3>1, Places DEF Rotations, RotationsTo
  <2>5. /\ Rotations(b) = Rotations(pool[slot]) + (IF i < slot THEN 1 ELSE 0)
        /\ Rotations(c) = Rotations(pool[slot]) + (IF j < slot THEN 1 ELSE 0)
    BY <2>1, <2>2 DEF CalmState, CalmRound
  <2> QED BY <2>4, <2>5
<1> QED BY <1>1, CalmInit, CalmNext, PTL DEF Spec
-----------------------------------------------------------------------------
(* No place is lost without a failed start.  The other way round: each     *)
(* step but a failed start is an injection of the claims before it into    *)
(* the claims after it.                                                    *)

\* A step that shortens neither the pool nor a list of ports keeps every claim.
LEMMA KeptClaims ==
  ASSUME NEW pl \in Seq(Backend), NEW td \in [Thread -> Seq(Nat)],
         NEW pl2 \in Seq(Backend), NEW td2 \in [Thread -> Seq(Nat)],
         \A t \in Thread : Length(pl, td, t) <= Length(pl2, td2, t)
  PROVE  ClaimsOf(pl, td) \subseteq ClaimsOf(pl2, td2)
<1>before. ClaimFacts(pl, td)
  BY ClaimMembers
<1>after. ClaimFacts(pl2, td2)
  BY ClaimMembers
<1>1. ASSUME NEW c \in ClaimsOf(pl, td) PROVE c \in ClaimsOf(pl2, td2)
  <2>1. PICK s \in Thread, k \in Nat \ {0} : c = <<s, k>>
    BY <1>before DEF ClaimFacts
  <2>2. k <= Length(pl2, td2, s)
    BY <1>before, <1>after, <2>1 DEF ClaimFacts
  <2> QED BY <1>after, <2>1, <2>2 DEF ClaimFacts
<1> QED BY <1>1

\* As many claims as before, or more.
AtLeast(S, T) == Cardinality(T) <= Cardinality(S)

\* What a finite set is mapped into one to one is at least as large.
LEMMA InjectionCounts ==
  ASSUME NEW S, NEW T, IsFiniteSet(T), NEW f, OneToOne(f, S, T)
  PROVE  AtLeast(T, S)
<1>1. f \in Injection(S, T)
  BY DEF OneToOne, Injection, IsInjective
<1> QED BY <1>1, FS_Injection DEF AtLeast

\* A started backend takes the place of its port.
LEMMA AppendKeeps ==
  ASSUME NEW pl \in Seq(Backend), NEW td \in [Thread -> Seq(Nat)],
         NEW pl2 \in Seq(Backend), NEW td2 \in [Thread -> Seq(Nat)],
         NEW t \in Thread \ {Rotator}, Len(td[t]) > 0,
         Len(pl2) = Len(pl) + 1, Len(td2[t]) = Len(td[t]) - 1,
         \A s \in Thread \ {t} : td2[s] = td[s],
         IsFiniteSet(ClaimsOf(pl2, td2))
  PROVE  AtLeast(ClaimsOf(pl2, td2), ClaimsOf(pl, td))
<1> DEFINE new  == <<Rotator, Len(pl) + 1>>
           last == <<t, Len(td[t])>>
           f == [c \in ClaimsOf(pl, td) |-> IF c = last THEN new ELSE c]
<1>before. ClaimFacts(pl, td)
  BY ClaimMembers
<1>after. ClaimFacts(pl2, td2)
  BY ClaimMembers
<1>1. Len(pl) \in Nat /\ Len(td[t]) \in Nat \ {0} /\ Rotator \in Thread
  BY LenProperties, ThreadFacts
<1>2. /\ Length(pl, td, t) = Len(td[t]) /\ Length(pl2, td2, t) = Len(td[t]) - 1
      /\ Length(pl, td, Rotator) = Len(pl)
      /\ Length(pl2, td2, Rotator) = Len(pl) + 1
      /\ \A s \in Thread \ {t, Rotator} : Length(pl2, td2, s) = Length(pl, td, s)
  BY DEF Length
<1>3. new \in ClaimsOf(pl2, td2) /\ new \notin ClaimsOf(pl, td)
  <2>1. /\ Len(pl) + 1 <= Length(pl2, td2, Rotator)
        /\ ~(Len(pl) + 1 <= Length(pl, td, Rotator))
        /\ Len(pl) + 1 \in Nat \ {0}
    BY <1>1, <1>2
  <2> QED BY <1>1, <1>before, <1>after, <2>1 DEF ClaimFacts
<1>4. ASSUME NEW c \in ClaimsOf(pl, td), c # last
      PROVE  c \in ClaimsOf(pl2, td2)
  <2>1. PICK s \in Thread, k \in Nat \ {0} : c = <<s, k>>
    BY <1>before DEF ClaimFacts
  <2>2. k <= Length(pl, td, s) /\ (s = t => k # Len(td[t]))
    BY <1>4, <1>before, <2>1 DEF ClaimFacts
  <2>3. k <= Length(pl2, td2, s)
    <3>1. CASE s = t
      BY <1>1, <1>2, <2>2, <3>1
    <3>2. CASE s = Rotator
      BY <1>1, <1>2, <2>2, <3>2
    <3>3. CASE s # t /\ s # Rotator
      BY <1>2, <2>2, <3>3
    <3> QED BY <3>1, <3>2, <3>3
  <2> QED BY <1>after, <2>1, <2>3 DEF ClaimFacts
<1>5. OneToOne(f, ClaimsOf(pl, td), ClaimsOf(pl2, td2))
  <2> HIDE DEF new, last
  <2>1. f \in [ClaimsOf(pl, td) -> ClaimsOf(pl2, td2)]
    BY <1>3, <1>4
  <2>2. \A x, y \in ClaimsOf(pl, td) : f[x] = f[y] => x = y
    BY <1>3
  <2> HIDE DEF f
  <2> QED BY <2>1, <2>2 DEF OneToOne
<1> HIDE DEF f
<1> QED BY <1>5, InjectionCounts

\* Every index of S is met in order.
LEMMA InOrderCovers ==
  ASSUME NEW n \in Nat, NEW S \in SUBSET (1 .. n), NEW f \in InOrder(S)
  PROVE  \A x \in S : \E i \in 1 .. Cardinality(S) : f[i] = x
<1> DEFINE I == 1 .. Cardinality(S)
<1>1. /\ Cardinality(S) \in Nat /\ f \in [I -> S]
      /\ \A i, j \in I : f[i] = f[j] => i = j
  BY InOrderFacts
<1>2. IsFiniteSet(S)
  <2>1. IsFiniteSet(1 .. n)
    BY FS_Interval
  <2> QED BY <2>1, FS_Subset
<1>3. Cardinality(I) = Cardinality(S)
  BY <1>1, FS_Interval
<1> HIDE DEF I
<1>4. f \in Injection(I, S)
  BY <1>1 DEF Injection, IsInjective
<1>5. f \in Surjection(I, S)
  BY <1>2, <1>3, <1>4, FS_Injection
<1> QED BY <1>5 DEF Surjection, I

Onto(f, S, T) == f \in [S -> T] /\ \A y \in T : \E x \in S : f[x] = y

\* A member the monitor keeps keeps a place, and one it throws out becomes a port
\* of a replacer that had none.
LEMMA MonitorKeeps ==
  ASSUME NEW pl \in Seq(Backend), NEW td \in [Thread -> Seq(Nat)],
         NEW pl2 \in Seq(Backend), NEW td2 \in [Thread -> Seq(Nat)],
         NEW r \in Thread \ {Rotator}, Len(td[r]) = 0,
         \A s \in Thread \ {r} : td2[s] = td[s],
         NEW good \in SUBSET (1 .. Len(pl)), NEW bad \in SUBSET (1 .. Len(pl)),
         good \cup bad = 1 .. Len(pl),
         NEW kept, Onto(kept, 1 .. Len(pl2), good),
         NEW failed, Onto(failed, 1 .. Len(td2[r]), bad),
         IsFiniteSet(ClaimsOf(pl2, td2))
  PROVE  AtLeast(ClaimsOf(pl2, td2), ClaimsOf(pl, td))
<1>before. ClaimFacts(pl, td)
  BY ClaimMembers
<1>after. ClaimFacts(pl2, td2)
  BY ClaimMembers
<1> DEFINE keptAt(k)   == CHOOSE i \in 1 .. Len(pl2) : kept[i] = k
           failedAt(k) == CHOOSE i \in 1 .. Len(td2[r]) : failed[i] = k
           place(s, k) == IF s # Rotator THEN <<s, k>>
                          ELSE IF k \in good THEN <<Rotator, keptAt(k)>>
                          ELSE <<r, failedAt(k)>>
           f == [c \in ClaimsOf(pl, td) |-> place(c[1], c[2])]
<1>1. /\ \A k \in good : keptAt(k) \in 1 .. Len(pl2) /\ kept[keptAt(k)] = k
      /\ \A k \in bad : failedAt(k) \in 1 .. Len(td2[r]) /\ failed[failedAt(k)] = k
  <2>1. \A k \in good : \E i \in 1 .. Len(pl2) : kept[i] = k
    BY DEF Onto
  <2>2. \A k \in bad : \E i \in 1 .. Len(td2[r]) : failed[i] = k
    BY DEF Onto
  <2> QED BY <2>1, <2>2
<1> HIDE DEF keptAt, failedAt
<1>2. /\ Len(pl) \in Nat /\ Len(pl2) \in Nat /\ Len(td2[r]) \in Nat /\ Rotator \in Thread
      /\ Length(pl, td, Rotator) = Len(pl)
      /\ Length(pl2, td2, Rotator) = Len(pl2)
      /\ Length(pl, td, r) = 0 /\ Length(pl2, td2, r) = Len(td2[r])
      /\ \A s \in Thread \ {r, Rotator} : Length(pl2, td2, s) = Length(pl, td, s)
  BY LenProperties, ThreadFacts DEF Length
<1>3. ASSUME NEW s \in Thread, NEW k \in Nat \ {0}, k <= Length(pl, td, s)
      PROVE  /\ s # r /\ (s = Rotator => k \in good \cup bad)
             /\ place(s, k) \in ClaimsOf(pl2, td2)
  <2>1. s # r
    BY <1>2, <1>3
  <2>2. CASE s = Rotator /\ k \in good
    <3>1. keptAt(k) \in Nat \ {0} /\ keptAt(k) <= Len(pl2)
      BY <1>1, <1>2, <2>2
    <3>2. <<Rotator, keptAt(k)>> \in ClaimsOf(pl2, td2)
      BY <1>after, <1>2, <3>1 DEF ClaimFacts
    <3> QED BY <2>1, <2>2, <3>2
  <2>3. CASE s = Rotator /\ k \notin good
    <3>0. k \in 1 .. Len(pl)
      BY <1>2, <1>3, <2>3
    <3>1. k \in bad
      BY <2>3, <3>0
    <3>2. failedAt(k) \in Nat \ {0} /\ failedAt(k) <= Len(td2[r])
      BY <1>1, <1>2, <3>1
    <3>3. <<r, failedAt(k)>> \in ClaimsOf(pl2, td2)
      BY <1>after, <1>2, <3>2 DEF ClaimFacts
    <3> QED BY <2>1, <2>3, <3>1, <3>3
  <2>4. CASE s # Rotator
    BY <1>after, <1>2, <1>3, <2>1, <2>4 DEF ClaimFacts
  <2> QED BY <2>2, <2>3, <2>4
<1>4. f \in [ClaimsOf(pl, td) -> ClaimsOf(pl2, td2)]
  <2>1. ASSUME NEW c \in ClaimsOf(pl, td)
        PROVE  place(c[1], c[2]) \in ClaimsOf(pl2, td2)
    <3>1. PICK s \in Thread, k \in Nat \ {0} : c = <<s, k>>
      BY <1>before DEF ClaimFacts
    <3>2. k <= Length(pl, td, s)
      BY <1>before, <3>1 DEF ClaimFacts
    <3>3. place(s, k) \in ClaimsOf(pl2, td2)
      BY <1>3, <3>2
    <3> QED BY <3>1, <3>3
  <2> HIDE DEF place
  <2> QED BY <2>1
<1>5. ASSUME NEW s \in Thread, NEW k \in Nat \ {0}, k <= Length(pl, td, s),
             NEW u \in Thread, NEW m \in Nat \ {0}, m <= Length(pl, td, u),
             place(s, k) = place(u, m)
      PROVE  s = u /\ k = m
  <2>1. /\ s # r /\ (s = Rotator => k \in good \cup bad)
        /\ u # r /\ (u = Rotator => m \in good \cup bad)
    BY <1>3, <1>5
  <2>2. CASE s # Rotator /\ u # Rotator
    BY <1>5, <2>2
  <2>3. CASE s = Rotator /\ u # Rotator
    BY <1>5, <2>1, <2>3
  <2>4. CASE s # Rotator /\ u = Rotator
    BY <1>5, <2>1, <2>4
  <2>5. CASE s = Rotator /\ u = Rotator
    <3>1. CASE k \in good /\ m \in good
      <4>1. keptAt(k) = keptAt(m)
        BY <1>5, <2>5, <3>1
      <4> QED BY <1>1, <2>5, <3>1, <4>1
    <3>2. CASE k \notin good /\ m \notin good
      <4>1. failedAt(k) = failedAt(m) /\ k \in bad /\ m \in bad
        BY <1>5, <2>1, <2>5, <3>2
      <4> QED BY <1>1, <2>5, <4>1
    <3>3. CASE (k \in good /\ m \notin good) \/ (k \notin good /\ m \in good)
      BY <1>5, <2>5, <3>3
    <3> QED BY <3>1, <3>2, <3>3
  <2> QED BY <2>2, <2>3, <2>4, <2>5
<1>6. \A x, y \in ClaimsOf(pl, td) : f[x] = f[y] => x = y
  <2> SUFFICES ASSUME NEW x \in ClaimsOf(pl, td), NEW y \in ClaimsOf(pl, td),
                      f[x] = f[y]
               PROVE  x = y
    OBVIOUS
  <2>1. PICK s \in Thread, k \in Nat \ {0} : x = <<s, k>>
    BY <1>before DEF ClaimFacts
  <2>2. PICK u \in Thread, m \in Nat \ {0} : y = <<u, m>>
    BY <1>before DEF ClaimFacts
  <2>3. place(s, k) = place(u, m)
    BY <2>1, <2>2
  <2>4. k <= Length(pl, td, s) /\ m <= Length(pl, td, u)
    BY <1>before, <2>1, <2>2 DEF ClaimFacts
  <2> HIDE DEF place
  <2>5. s = u /\ k = m
    BY <1>5, <2>3, <2>4
  <2> QED BY <2>1, <2>2, <2>5
<1> HIDE DEF f
<1>7. OneToOne(f, ClaimsOf(pl, td), ClaimsOf(pl2, td2))
  BY <1>4, <1>6 DEF OneToOne
<1> QED BY <1>7, InjectionCounts

\* A failed start gives up the last of its thread's claims and no other one.
LEMMA FailedStartClaims ==
  ASSUME NEW pl \in Seq(Backend), NEW td \in [Thread -> Seq(Nat)],
         NEW td2 \in [Thread -> Seq(Nat)],
         NEW t \in Thread \ {Rotator}, Len(td[t]) > 0, Len(td2[t]) = Len(td[t]) - 1,
         \A s \in Thread \ {t} : td2[s] = td[s],
         IsFiniteSet(ClaimsOf(pl, td))
  PROVE  Cardinality(ClaimsOf(pl, td2)) = Cardinality(ClaimsOf(pl, td)) - 1
<1> DEFINE last == <<t, Len(td[t])>>
<1>before. ClaimFacts(pl, td)
  BY ClaimMembers
<1>after. ClaimFacts(pl, td2)
  BY ClaimMembers
<1>1. Len(td[t]) \in Nat \ {0}
  BY LenProperties
<1>2. /\ Length(pl, td, t) = Len(td[t]) /\ Length(pl, td2, t) = Len(td[t]) - 1
      /\ \A s \in Thread \ {t} : Length(pl, td2, s) = Length(pl, td, s)
  BY DEF Length
<1>3. last \in ClaimsOf(pl, td) /\ last \notin ClaimsOf(pl, td2)
  <2>1. Len(td[t]) <= Length(pl, td, t) /\ ~(Len(td[t]) <= Length(pl, td2, t))
    BY <1>1, <1>2
  <2> QED BY <1>1, <1>before, <1>after, <2>1 DEF ClaimFacts
<1>4. ASSUME NEW c \in ClaimsOf(pl, td), c # last
      PROVE  c \in ClaimsOf(pl, td2)
  <2>1. PICK s \in Thread, k \in Nat \ {0} : c = <<s, k>>
    BY <1>before DEF ClaimFacts
  <2>2. k <= Length(pl, td, s) /\ (s = t => k # Len(td[t]))
    BY <1>4, <1>before, <2>1 DEF ClaimFacts
  <2>3. k <= Length(pl, td2, s)
    BY <1>1, <1>2, <2>2
  <2> QED BY <1>after, <2>1, <2>3 DEF ClaimFacts
<1>5. ASSUME NEW c \in ClaimsOf(pl, td2)
      PROVE  c \in ClaimsOf(pl, td)
  <2>1. PICK s \in Thread, k \in Nat \ {0} : c = <<s, k>>
    BY <1>after DEF ClaimFacts
  <2>2. k <= Length(pl, td2, s)
    BY <1>after, <2>1 DEF ClaimFacts
  <2>3. k <= Length(pl, td, s)
    BY <1>1, <1>2, <2>2
  <2> QED BY <1>before, <2>1, <2>3 DEF ClaimFacts
<1> HIDE DEF last
<1>6. ClaimsOf(pl, td2) = ClaimsOf(pl, td) \ {last}
  BY <1>3, <1>4, <1>5
<1> QED BY <1>3, <1>6, FS_RemoveElement

\* What LosesOnePlace says of a step.
LosesOne ==
    /\ Cardinality(Claims') = Cardinality(Claims) - 1
    /\ \E t \in Thread \ {Rotator} : step[t] \in {"begin", "wait"} /\ todo'[t] = Tail(todo[t])

\* Every step keeps all claims, or is a failed start, or the engine is stopped.
LEMMA PlacesKept ==
  ASSUME IInv, IInv', ~engineDone', Step
  PROVE  AtLeast(Claims', Claims) \/ LosesOne
<1>1. /\ Claims = ClaimsOf(pool, todo) /\ IsFiniteSet(Claims) /\ TypeInv
      /\ Claims' = ClaimsOf(pool', todo') /\ IsFiniteSet(Claims')
      /\ pool \in Seq(Backend) /\ todo \in [Thread -> Seq(Nat)]
      /\ pool' \in Seq(Backend) /\ todo' \in [Thread -> Seq(Nat)]
  BY DEF Claims, ClaimsOf, IInv, Bounded, TypeInv, TypeOK
<1>2. \A t \in Thread : Len(todo[t]) \in Nat /\ Len(pool) \in Nat
  BY <1>1, LenProperties
<1>3. ASSUME Len(pool') = Len(pool),
             \A t \in Thread \ {Rotator} : Len(todo'[t]) >= Len(todo[t])
      PROVE  AtLeast(Claims', Claims)
  <2>1. \A t \in Thread : Length(pool, todo, t) <= Length(pool', todo', t)
    BY <1>2, <1>3 DEF Length
  <2>2. Claims \in SUBSET Claims'
    BY <1>1, <2>1, KeptClaims
  <2> QED BY <1>1, <2>2, FS_Subset DEF AtLeast
<1>4. ASSUME UNCHANGED <<pool, todo>>
      PROVE  AtLeast(Claims', Claims)
  BY <1>2, <1>3, <1>4
<1>5. ASSUME NEW t \in Thread, step[t] \in {"begin", "wait"}, Advance(t), UNCHANGED pool
      PROVE  AtLeast(Claims', Claims) \/ LosesOne
  <2>1. /\ Len(todo[t]) > 0 /\ Len(todo'[t]) = Len(todo[t]) - 1
        /\ \A s \in Thread \ {t} : todo'[s] = todo[s]
    BY <1>1, <1>5, AdvanceLength
  <2>2. CASE t = Rotator
    BY <1>2, <1>3, <1>5, <2>1, <2>2
  <2>3. CASE t # Rotator
    <3>1. Cardinality(Claims') = Cardinality(Claims) - 1
      BY <1>1, <1>5, <2>1, <2>3, FailedStartClaims
    <3>2. todo'[t] = Tail(todo[t])
      BY <1>1, <1>5 DEF Advance
    <3> QED BY <1>5, <2>3, <3>1, <3>2 DEF LosesOne
  <2> QED BY <2>2, <2>3
<1>6. ASSUME NEW t \in Thread, StartSteps(t)
      PROVE  AtLeast(Claims', Claims) \/ LosesOne
  <2>1. UNCHANGED pool
    BY <1>6 DEF StartSteps, IdentityFails, CreateBackend, StartProbe, ProbeAnswered,
                ProbeRefused, WaitFails
  <2>2. UNCHANGED todo \/ (step[t] \in {"begin", "wait"} /\ Advance(t))
    BY <1>6 DEF StartSteps, IdentityFails, CreateBackend, StartProbe, ProbeAnswered,
                ProbeRefused, WaitFails, threadVars
  <2> QED BY <1>4, <1>5, <2>1, <2>2
<1>7. ASSUME NEW t \in Thread, NextPort(t)
      PROVE  AtLeast(Claims', Claims)
  <2>1. UNCHANGED <<pool, todo>>
    BY <1>7 DEF NextPort, endVars
  <2> QED BY <1>4, <2>1
<1>8. ASSUME NEW t \in Thread, AppendBackend(t)
      PROVE  AtLeast(Claims', Claims)
  <2>1. /\ t # Rotator /\ step[t] # "idle" /\ Advance(t)
        /\ pool' = Append(pool, cur[t])
    BY <1>8 DEF AppendBackend
  <2>2. Len(pool') = Len(pool) + 1
    BY <1>1, <2>1
  <2>3. /\ Len(todo[t]) > 0 /\ Len(todo'[t]) = Len(todo[t]) - 1
        /\ \A s \in Thread \ {t} : todo'[s] = todo[s]
    BY <1>1, <2>1, AdvanceLength
  <2> QED BY <1>1, <2>1, <2>2, <2>3, AppendKeeps
<1>9. ASSUME Rotating PROVE AtLeast(Claims', Claims)
  <2>1. CASE RotatorTick
    <3>1. UNCHANGED pool /\ \A s \in Thread \ {Rotator} : todo'[s] = todo[s]
      BY <1>1, <2>1 DEF RotatorTick, NextSlot, TempPort
    <3> QED BY <1>2, <1>3, <3>1
  <2>2. CASE SwapBackends
    <3>1. Len(pool') = Len(pool)
      BY <1>1, <2>2 DEF SwapBackends, Retire, Installed
    <3>2. \A s \in Thread \ {Rotator} : todo'[s] = todo[s]
      BY <1>1, <2>2 DEF SwapBackends, Retire, Installed, Advance
    <3> QED BY <1>2, <1>3, <3>1, <3>2
  <2>3. CASE RotatorExit
    BY <1>4, <2>3 DEF RotatorExit, threadVars
  <2> QED BY <1>9, <2>1, <2>2, <2>3 DEF Rotating
<1>10. ASSUME MonitorCheck PROVE AtLeast(Claims', Claims)
   <2>1. PICK good \in SUBSET DOMAIN pool, bad \in SUBSET DOMAIN pool :
            \E kept \in InOrder(good), failed \in InOrder(bad), r \in Replacer :
               /\ good \cap bad = {} /\ good \cup bad = DOMAIN pool /\ bad # {}
               /\ todo[r] = <<>>
               /\ pool' = [i \in DOMAIN kept |-> pool[kept[i]]]
               /\ todo' = [todo EXCEPT ![r] =
                             [i \in DOMAIN failed |-> inst[pool[failed[i]]].port]]
     BY <1>1, <1>10, MonitorFacts
   <2>2. PICK kept \in InOrder(good), failed \in InOrder(bad), r \in Replacer :
               /\ good \cap bad = {} /\ good \cup bad = DOMAIN pool /\ bad # {}
               /\ todo[r] = <<>>
               /\ pool' = [i \in DOMAIN kept |-> pool[kept[i]]]
               /\ todo' = [todo EXCEPT ![r] =
                             [i \in DOMAIN failed |-> inst[pool[failed[i]]].port]]
     BY <2>1
   <2>3. DOMAIN pool = 1 .. Len(pool) /\ Len(pool) \in Nat
     BY <1>1, LenProperties
   <2>4. /\ Cardinality(good) \in Nat /\ kept \in [1 .. Cardinality(good) -> good]
         /\ \A x \in good : \E i \in 1 .. Cardinality(good) : kept[i] = x
     <3>1. good \in SUBSET (1 .. Len(pool))
       BY <2>3
     <3>2. /\ Cardinality(good) \in Nat /\ kept \in [1 .. Cardinality(good) -> good]
       BY <2>2, <2>3, <3>1, InOrderFacts
     <3>3. \A x \in good : \E i \in 1 .. Cardinality(good) : kept[i] = x
       BY <2>2, <2>3, <3>1, InOrderCovers
     <3> QED BY <3>2, <3>3
   <2>5. /\ Cardinality(bad) \in Nat /\ failed \in [1 .. Cardinality(bad) -> bad]
         /\ \A x \in bad : \E i \in 1 .. Cardinality(bad) : failed[i] = x
     <3>1. bad \in SUBSET (1 .. Len(pool))
       BY <2>3
     <3>2. /\ Cardinality(bad) \in Nat /\ failed \in [1 .. Cardinality(bad) -> bad]
       BY <2>2, <2>3, <3>1, InOrderFacts
     <3>3. \A x \in bad : \E i \in 1 .. Cardinality(bad) : failed[i] = x
       BY <2>2, <2>3, <3>1, InOrderCovers
     <3> QED BY <3>2, <3>3
   <2>6. Len(pool') = Cardinality(good)
     BY <2>2, <2>4
   <2>7. /\ Len(todo'[r]) = Cardinality(bad)
         /\ \A s \in Thread \ {r} : todo'[s] = todo[s]
         /\ r \in Thread \ {Rotator} /\ Len(todo[r]) = 0
     BY <1>1, <2>2, <2>5, ThreadFacts, EmptySeq
   <2>8. /\ Onto(kept, 1 .. Len(pool'), good)
         /\ Onto(failed, 1 .. Len(todo'[r]), bad)
     BY <2>4, <2>5, <2>6, <2>7 DEF Onto
   <2>9. /\ good \in SUBSET (1 .. Len(pool)) /\ bad \in SUBSET (1 .. Len(pool))
         /\ good \cup bad = 1 .. Len(pool)
     BY <2>2, <2>3
   <2> QED BY <1>1, <2>7, <2>8, <2>9, MonitorKeeps
<1>11. ASSUME FinishInit \/ RunReturns \/ MonitorExit \/ CancelEngine \/ CancelPool
       PROVE  AtLeast(Claims', Claims)
   BY <1>4, <1>11 DEF FinishInit, RunReturns, MonitorExit, CancelEngine, CancelPool,
      threadVars
<1>12. ASSUME NEW b \in Backend,
              Library(b) \/ CleanupBackendIdentity(b) \/ MarkUnhealthy(b)
       PROVE  AtLeast(Claims', Claims)
   BY <1>4, <1>12 DEF Library, WsListen, WsFails, WsCancels, WsCloses,
      CleanupBackendIdentity, MarkUnhealthy, threadVars
<1> QED BY <1>6, <1>7, <1>8, <1>9, <1>10, <1>11, <1>12, ThreadFacts
        DEF Step, Main_, Replacing

\* However starts fail in Run, in several replacers at once and in the rotator,
\* and however the monitor and the rotator rearrange the pool between them, a
\* place of the pool is lost only by the one failed start it was promised to.
THEOREM OnePlaceAtATime == Spec => LosesOnePlace
<1>1. Init => IInv
  BY InitType, InitClaims DEF IInv
<1>2. IInv /\ IInv' /\ [Next]_vars =>
        [(~engineDone' /\ Cardinality(Claims') < Cardinality(Claims)) =>
            /\ Cardinality(Claims') = Cardinality(Claims) - 1
            /\ \E t \in Thread \ {Rotator} : /\ step[t] \in {"begin", "wait"}
                                             /\ todo'[t] = Tail(todo[t])]_vars
  <2> SUFFICES ASSUME IInv, IInv', [Next]_vars, ~engineDone', ~UNCHANGED vars,
                      Cardinality(Claims') < Cardinality(Claims)
               PROVE  LosesOne
    BY DEF LosesOne
  <2>1. Step
    BY DEF Next, Terminated
  <2>2. Cardinality(Claims') \in Nat /\ Cardinality(Claims) \in Nat
    BY FS_CardinalityType DEF IInv, Bounded
  <2>3. ~AtLeast(Claims', Claims)
    BY <2>2 DEF AtLeast
  <2> QED BY <2>1, <2>3, PlacesKept
<1> QED BY <1>1, <1>2, NextInv, PTL DEF Spec, LosesOnePlace
=============================================================================
