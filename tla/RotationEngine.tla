--------------------------- MODULE RotationEngine ---------------------------
(***************************************************************************)
(* The rotation engine of core/rotation.go: a pool of WireGuard backends,  *)
(* each a SOCKS5 listener on a local port with an identity directory named *)
(* after that port.  Three kinds of goroutine start backends: Run, which   *)
(* fills the pool; the rotator, which replaces one pool member by a fresh  *)
(* one on another port; and a replacer per batch of members the monitor    *)
(* has thrown out.  poolMu guards the slice only: between two critical     *)
(* sections every other goroutine may run, and each critical section is    *)
(* one action here.                                                        *)
(*                                                                         *)
(* All of them go through startBackend, so a starting thread is a list of  *)
(* ports it has still to start, the step of startBackend it is at, and the *)
(* backend it has just created.                                            *)
(***************************************************************************)
EXTENDS Integers, Sequences, FiniteSets

CONSTANTS PoolSize,     \* RotationConfig.PoolSize
          MinBackends,  \* getEffectiveMinBackends()
          PortStart,    \* BackendPortStart
          TempOffset,   \* what rotateOneBackend adds to the port of a backend
          MaxPort,      \* the largest port netip.MustParseAddrPort accepts
          Backend,      \* the Backend objects the heap has room for
          NoBackend,    \* the nil pointer
          Identity,     \* WARP devices that can be registered
          Leftover,     \* ports with a directory from an earlier run
          MaxFailures,  \* bound: failures of the environment in a behaviour
          MayStop       \* bound: whether the engine is ever stopped

ASSUME PoolAssumption ==
    /\ PoolSize \in Nat \ {0}
    /\ MinBackends \in 1 .. PoolSize
ASSUME PortAssumption ==
    /\ PortStart \in Nat /\ TempOffset \in Nat /\ MaxPort \in Nat
    /\ PoolSize <= TempOffset
ASSUME HeapAssumption == NoBackend \notin Backend
\* Every registration yields a new device, so there are enough of them.
ASSUME IdentityAssumption ==
    /\ Leftover \subseteq Nat
    /\ Identity # {}
    /\ \E f \in [Leftover -> Identity] : \A p, q \in Leftover : f[p] = f[q] => p = q
ASSUME BoundAssumption == MaxFailures \in Nat /\ MayStop \in BOOLEAN

Main     == 0                  \* the goroutine of Run
Rotator  == -1                 \* the goroutine of rotateBackends
Replacer == 1 .. PoolSize      \* goroutines of replaceBackends
Thread   == Replacer \cup {Main, Rotator}

VARIABLES
    pool,        \* RotationEngine.backends
    inst,        \* the Backend objects with their wiresocks instance
    disk,        \* the identity directories: port -> identity stored there
    cleaning,    \* backends whose cleanupBackendIdentity goroutine is pending
    phase,       \* where Run is
    monitoring,  \* the goroutine of monitorBackends is running
    rotating,    \* the goroutine of rotateBackends is running
    step,        \* the step of startBackend a thread is at
    todo,        \* the ports a thread has still to start, the current one first
    cur,         \* the backend a thread has created and not yet published
    slot,        \* backendIndex of rotateBackends, counted from 1
    old,         \* oldBackend of rotateOneBackend
    engineDone,  \* the engine's context is cancelled
    stopped,     \* Stop has returned
    panicked,    \* a goroutine panicked, which ends the process
    failures     \* history: failures of the environment so far

threadVars == <<step, todo, cur, slot, old>>
lifeVars   == <<phase, monitoring, rotating>>
endVars    == <<engineDone, stopped, panicked>>
vars == <<pool, inst, disk, cleaning, lifeVars, threadVars, endVars, failures>>

-----------------------------------------------------------------------------
(* Objects, contexts and listeners.                                        *)

Members == {pool[i] : i \in DOMAIN pool}

\* backend.ctx is a child of the engine's context.
Done(b) == inst[b].cancelled \/ engineDone

Serves(b, p) == inst[b].ws = "listening" /\ inst[b].port = p
PortServed(p) == \E b \in Backend : Serves(b, p)

\* No goroutine and no slice points to the object any more.
Garbage(b) == /\ inst[b].ws = "closed"
              /\ b \notin Members \cup cleaning \cup {old}
              /\ \A t \in Thread : cur[t] # b

UsedIdentities == {disk[p] : p \in DOMAIN disk}
                  \cup {inst[b].ident : b \in {c \in Backend : ~Garbage(c)}}

MayFail == failures < MaxFailures
Fails   == MayFail /\ failures' = failures + 1

-----------------------------------------------------------------------------
Object == [port : Nat, ident : Identity, healthy : BOOLEAN, cancelled : BOOLEAN,
           ws : {"spawned", "listening", "failed", "closed"}]

Init ==
    /\ pool = <<>>
    /\ disk = CHOOSE f \in [Leftover -> Identity] :
                 \A p, q \in Leftover : f[p] = f[q] => p = q
    /\ inst = [b \in Backend |->
                 [port |-> PortStart, ident |-> CHOOSE i \in Identity : TRUE,
                  healthy |-> FALSE, cancelled |-> TRUE, ws |-> "closed"]]
    /\ cleaning = {}
    /\ phase = "init" /\ monitoring = FALSE /\ rotating = FALSE
    /\ step = [t \in Thread |-> "idle"]
    /\ todo = [t \in Thread |->
                 IF t = Main THEN [i \in 1 .. PoolSize |-> PortStart + i - 1]
                             ELSE <<>>]
    /\ cur = [t \in Thread |-> NoBackend]
    /\ slot = 1
    /\ old = NoBackend
    /\ engineDone = FALSE /\ stopped = FALSE /\ panicked = FALSE
    /\ failures = 0

-----------------------------------------------------------------------------
(* startBackend, for any thread t that is starting the port Head(todo[t]). *)

\* Mutants: the index is not reduced modulo PoolSize; it does not move.
NextSlotUnwrapped == slot + 1
NextSlotStuck == slot

\* backendIndex = (backendIndex + 1) % PoolSize
NextSlot == (slot % PoolSize) + 1

\* Mutant: a failed start ends the loop over the ports.
AdvanceOrStop(t) ==
    /\ todo' = [todo EXCEPT ![t] = IF step[t] = "ready" THEN Tail(@) ELSE <<>>]
    /\ cur' = [cur EXCEPT ![t] = NoBackend]
    /\ step' = [step EXCEPT ![t] = "idle"]
    /\ IF t = Rotator THEN /\ slot' = NextSlot
                           /\ old' = NoBackend
                      ELSE UNCHANGED <<slot, old>>

\* The start is over, for better or worse: the thread turns to its next port.
Advance(t) ==
    /\ todo' = [todo EXCEPT ![t] = Tail(@)]
    /\ cur' = [cur EXCEPT ![t] = NoBackend]
    /\ step' = [step EXCEPT ![t] = "idle"]
    /\ IF t = Rotator THEN /\ slot' = NextSlot
                           /\ old' = NoBackend
                      ELSE UNCHANGED <<slot, old>>

\* The identity of the port is loaded from its directory, or registered and
\* saved there.
LoadOrCreateIdentity(p) ==
    IF p \in DOMAIN disk
    THEN disk' = disk
    ELSE \E i \in Identity :
            /\ i \notin UsedIdentities
            /\ i = CHOOSE j \in Identity : j \notin UsedIdentities
            /\ disk' = [q \in DOMAIN disk \cup {p} |-> IF q = p THEN i ELSE disk[q]]

NewBackend(b, p, i) ==
    inst' = [inst EXCEPT ![b] = [port |-> p, ident |-> i, healthy |-> TRUE,
                                 cancelled |-> FALSE, ws |-> "spawned"]]

\* LoadOrCreateIdentity fails: there is no backend yet.
IdentityFails(t) ==
    /\ step[t] = "begin"
    /\ Fails
    /\ Advance(t)
    /\ UNCHANGED <<pool, inst, disk, cleaning, lifeVars, endVars>>

\* From the identity to the wiresocks goroutine.  netip.MustParseAddrPort
\* panics on a port it cannot parse, after the identity has been saved.
CreateBackend(t) ==
    LET p == Head(todo[t]) IN
    /\ step[t] = "begin"
    /\ LoadOrCreateIdentity(p)
    /\ \/ /\ p > MaxPort
          /\ panicked' = TRUE
          /\ UNCHANGED <<inst, threadVars, failures>>
       \/ /\ p <= MaxPort
          /\ Fails                          \* NewWireSocks returns an error
          /\ Advance(t)
          /\ UNCHANGED <<inst, panicked>>
       \/ /\ p <= MaxPort
          /\ \E b \in Backend :
                /\ Garbage(b)
                /\ b = CHOOSE c \in Backend : Garbage(c)
                /\ NewBackend(b, p, disk'[p])
                /\ cur' = [cur EXCEPT ![t] = b]
          /\ step' = [step EXCEPT ![t] = "wait"]
          /\ UNCHANGED <<todo, slot, old, panicked, failures>>
    /\ UNCHANGED <<pool, cleaning, lifeVars, engineDone, stopped>>

\* waitForBackendReady: the context is checked before each probe.
StartProbe(t) ==
    /\ step[t] = "wait"
    /\ ~Done(cur[t])
    /\ step' = [step EXCEPT ![t] = "probe"]
    /\ UNCHANGED <<pool, inst, disk, cleaning, lifeVars, todo, cur, slot, old,
                   endVars, failures>>

\* testSocks5Connection dials the port: whoever listens there answers it.
ProbeAnswered(t) ==
    /\ step[t] = "probe"
    /\ PortServed(Head(todo[t]))
    /\ step' = [step EXCEPT ![t] = "ready"]
    /\ UNCHANGED <<pool, inst, disk, cleaning, lifeVars, todo, cur, slot, old,
                   endVars, failures>>

ProbeRefused(t) ==
    /\ step[t] = "probe"
    /\ ~PortServed(Head(todo[t]))
    /\ step' = [step EXCEPT ![t] = "wait"]
    /\ UNCHANGED <<pool, inst, disk, cleaning, lifeVars, todo, cur, slot, old,
                   endVars, failures>>

\* The wait ends with an error, and startBackend cancels the new context: that
\* context was done already, or the 30 seconds are over.
WaitFails(t) ==
    /\ step[t] = "wait"
    /\ \/ Done(cur[t]) /\ UNCHANGED failures
       \/ Fails
    /\ inst' = [inst EXCEPT ![cur[t]].cancelled = TRUE]
    /\ Advance(t)
    /\ UNCHANGED <<pool, disk, cleaning, lifeVars, endVars>>

StartSteps(t) == \/ IdentityFails(t) \/ CreateBackend(t) \/ StartProbe(t)
                 \/ ProbeAnswered(t) \/ ProbeRefused(t) \/ WaitFails(t)

-----------------------------------------------------------------------------
(* initializeBackends and Run.                                             *)

\* The loops of initializeBackends and replaceBackends look at the engine's
\* context before every port.
NextPort(t) ==
    /\ t # Rotator
    /\ step[t] = "idle" /\ todo[t] # <<>>
    /\ IF engineDone
       THEN /\ todo' = [todo EXCEPT ![t] = <<>>]
            /\ phase' = IF t = Main THEN "failed" ELSE phase
            /\ UNCHANGED step
       ELSE /\ step' = [step EXCEPT ![t] = "begin"]
            /\ UNCHANGED <<todo, phase>>
    /\ UNCHANGED <<pool, inst, disk, cleaning, monitoring, rotating, cur, slot,
                   old, endVars, failures>>

\* The started backend is appended to the pool, under the lock.
AppendBackend(t) ==
    /\ t # Rotator
    /\ step[t] = "ready"
    /\ pool' = Append(pool, cur[t])
    /\ Advance(t)
    /\ UNCHANGED <<inst, disk, cleaning, lifeVars, endVars, failures>>

\* Every port has been tried: too few backends are an error, otherwise the
\* monitor, the rotator and the frontend are started.  The frontend may fail to
\* listen: Run returns an error while the other two run.
FinishInit ==
    /\ phase = "init" /\ step[Main] = "idle" /\ todo[Main] = <<>>
    /\ IF Len(pool) < MinBackends
       THEN /\ phase' = "failed"
            /\ UNCHANGED <<monitoring, rotating, failures>>
       ELSE /\ \/ phase' = "serving" /\ UNCHANGED failures
               \/ phase' = "failed" /\ Fails
            /\ monitoring' = TRUE /\ rotating' = TRUE
    /\ UNCHANGED <<pool, inst, disk, cleaning, threadVars, endVars>>

\* FrontendProxy.Run returns once the engine's context is done.
RunReturns ==
    /\ phase = "serving" /\ engineDone
    /\ phase' = "returned"
    /\ UNCHANGED <<pool, inst, disk, cleaning, monitoring, rotating, threadVars,
                   endVars, failures>>

-----------------------------------------------------------------------------
(* rotateBackends.                                                         *)

\* Mutant: the new backend is started on the port of the old one.
TempPortSame(b) == inst[b].port

\* tempPort
TempPort(b) == inst[b].port + TempOffset

\* rotateOneBackend, first critical section.  The select of rotateBackends may
\* take the tick although the context is done.
RotatorTick ==
    /\ rotating /\ step[Rotator] = "idle"
    /\ IF slot > Len(pool)
       THEN /\ slot' = NextSlot
            /\ UNCHANGED <<step, todo, old>>
       ELSE /\ old' = pool[slot]
            /\ todo' = [todo EXCEPT ![Rotator] = <<TempPort(pool[slot])>>]
            /\ step' = [step EXCEPT ![Rotator] = "begin"]
            /\ UNCHANGED slot
    /\ UNCHANGED <<pool, inst, disk, cleaning, lifeVars, cur, endVars, failures>>

\* Mutant: the old backend is not cancelled.
RetireRunning(b) == /\ cleaning' = cleaning \cup {b}
                    /\ UNCHANGED inst

\* The old backend is cancelled and its directory is to be removed.
Retire(b) == /\ inst' = [inst EXCEPT ![b].cancelled = TRUE]
             /\ cleaning' = cleaning \cup {b}

\* Mutant: the new backend is added instead.
InstalledNext == Append(pool, cur[Rotator])

\* The new backend takes the place of the old one.
Installed == [pool EXCEPT ![slot] = cur[Rotator]]

\* rotateOneBackend, second critical section.  The pool may have changed since
\* the first one: the index alone is compared with the pool's length.
SwapBackends ==
    /\ step[Rotator] = "ready"
    /\ IF slot <= Len(pool)
       THEN Retire(old) /\ pool' = Installed
       ELSE UNCHANGED <<inst, cleaning, pool>>
    /\ Advance(Rotator)
    /\ UNCHANGED <<disk, lifeVars, endVars, failures>>

\* Mutant: the select has no case for the context.
RotatorLeavesNever == FALSE

RotatorLeaves == engineDone

RotatorExit ==
    /\ rotating /\ step[Rotator] = "idle" /\ RotatorLeaves
    /\ rotating' = FALSE
    /\ UNCHANGED <<pool, inst, disk, cleaning, phase, monitoring, threadVars,
                   endVars, failures>>

\* cleanupBackendIdentity: os.RemoveAll of the directory of the port.
CleanupBackendIdentity(b) ==
    /\ b \in cleaning
    /\ cleaning' = cleaning \ {b}
    /\ \/ /\ disk' = [p \in DOMAIN disk \ {inst[b].port} |-> disk[p]]
          /\ UNCHANGED failures
       \/ Fails /\ UNCHANGED disk
    /\ UNCHANGED <<pool, inst, lifeVars, threadVars, endVars>>

-----------------------------------------------------------------------------
(* monitorBackends.                                                        *)

\* The indices in S from left to right: what a loop over the pool collects.
InOrder(S) ==
    {f \in [1 .. Cardinality(S) -> S] :
        \A i, j \in 1 .. Cardinality(S) : i < j => f[i] < f[j]}

\* Mutant: the health flag is not looked at.
SoundUnlessDone(b) == ~Done(b)

\* What the health check looks at.
Sound(b) == ~Done(b) /\ inst[b].healthy

\* checkAndReplaceUnhealthyBackends, the whole critical section, and the
\* goroutine of replaceBackends it launches.
MonitorCheck ==
    LET good == {i \in DOMAIN pool : Sound(pool[i])}
        bad  == DOMAIN pool \ good
        gone == {pool[i] : i \in bad}
    IN
    /\ monitoring
    /\ bad # {}
    /\ \E kept \in InOrder(good), failed \in InOrder(bad) :
          \E r \in {s \in Replacer : todo[s] = <<>>} :
             /\ \A s \in Replacer : todo[s] = <<>> => r <= s
             /\ pool' = [i \in DOMAIN kept |-> pool[kept[i]]]
             /\ todo' = [todo EXCEPT ![r] =
                           [i \in DOMAIN failed |-> inst[pool[failed[i]]].port]]
    /\ inst' = [b \in Backend |->
                  IF b \in gone THEN [inst[b] EXCEPT !.cancelled = TRUE] ELSE inst[b]]
    /\ UNCHANGED <<disk, cleaning, lifeVars, step, cur, slot, old, endVars, failures>>

MonitorExit ==
    /\ monitoring /\ engineDone
    /\ monitoring' = FALSE
    /\ UNCHANGED <<pool, inst, disk, cleaning, phase, rotating, threadVars,
                   endVars, failures>>

-----------------------------------------------------------------------------
(* The goroutine around ws.Run, and the library behind it.                 *)

WsListen(b) ==
    /\ inst[b].ws = "spawned"
    /\ ~PortServed(inst[b].port)
    /\ inst' = [inst EXCEPT ![b].ws = "listening"]
    /\ UNCHANGED <<pool, disk, cleaning, lifeVars, threadVars, endVars, failures>>

\* ws.Run returns an error: its port is taken or the tunnel broke down.  The
\* backend is marked unhealthy first ...
WsFails(b) ==
    /\ inst[b].ws \in {"spawned", "listening"}
    /\ \/ inst[b].ws = "spawned" /\ PortServed(inst[b].port) /\ UNCHANGED failures
       \/ ~Done(b) /\ Fails
    /\ inst' = [inst EXCEPT ![b].ws = "failed", ![b].healthy = FALSE]
    /\ UNCHANGED <<pool, disk, cleaning, lifeVars, threadVars, endVars>>

\* ... and then its context is cancelled.
WsCancels(b) ==
    /\ inst[b].ws = "failed"
    /\ inst' = [inst EXCEPT ![b].ws = "closed", ![b].cancelled = TRUE]
    /\ UNCHANGED <<pool, disk, cleaning, lifeVars, threadVars, endVars, failures>>

\* ws.Run returns once the context is done, with or without an error.
WsCloses(b) ==
    /\ inst[b].ws \in {"spawned", "listening"} /\ Done(b)
    /\ \E h \in {inst[b].healthy, FALSE} :
          inst' = [inst EXCEPT ![b].ws = "closed", ![b].healthy = h]
    /\ UNCHANGED <<pool, disk, cleaning, lifeVars, threadVars, endVars, failures>>

\* FrontendProxy.handleConnection gives up on a backend it was handed.
MarkUnhealthy(b) ==
    /\ phase = "serving"
    /\ b \in Members \cup {old} /\ b # NoBackend /\ inst[b].healthy
    /\ Fails
    /\ inst' = [inst EXCEPT ![b].healthy = FALSE]
    /\ UNCHANGED <<pool, disk, cleaning, lifeVars, threadVars, endVars>>

-----------------------------------------------------------------------------
(* Stop: it cancels the engine's context, then the members of the pool.    *)

CancelEngine ==
    /\ MayStop /\ ~engineDone
    /\ engineDone' = TRUE
    /\ UNCHANGED <<pool, inst, disk, cleaning, lifeVars, threadVars, stopped,
                   panicked, failures>>

CancelPool ==
    /\ engineDone /\ ~stopped
    /\ stopped' = TRUE
    /\ inst' = [b \in Backend |->
                  IF b \in Members THEN [inst[b] EXCEPT !.cancelled = TRUE] ELSE inst[b]]
    /\ UNCHANGED <<pool, disk, cleaning, lifeVars, threadVars, engineDone,
                   panicked, failures>>

-----------------------------------------------------------------------------
\* Every goroutine has returned, those of the threads T left aside, and no port is
\* served.
QuiescentBut(T) ==
    /\ stopped /\ ~monitoring /\ cleaning = {}
    /\ Main \in T \/ phase \in {"failed", "returned"}
    /\ Rotator \in T \/ ~rotating
    /\ \A t \in Thread \ T : todo[t] = <<>>
    /\ \A b \in Backend : inst[b].ws = "closed"

\* Nothing runs any more.
Quiescent == QuiescentBut({})

\* The command ends the process when Run fails (cmd/rotate.go:105).
Terminated == (Quiescent \/ panicked \/ phase = "failed") /\ UNCHANGED vars

Main_      == NextPort(Main) \/ AppendBackend(Main) \/ FinishInit \/ RunReturns
Replacing(r) == NextPort(r) \/ AppendBackend(r)
Rotating   == RotatorTick \/ SwapBackends \/ RotatorExit
Library(b) == WsListen(b) \/ WsFails(b) \/ WsCancels(b) \/ WsCloses(b)

Step ==
    \/ \E t \in Thread : StartSteps(t)
    \/ Main_
    \/ \E r \in Replacer : Replacing(r)
    \/ Rotating
    \/ MonitorCheck \/ MonitorExit
    \/ \E b \in Backend : Library(b) \/ CleanupBackendIdentity(b) \/ MarkUnhealthy(b)
    \/ CancelEngine \/ CancelPool

Next == (~panicked /\ Step) \/ Terminated

Spec == Init /\ [][Next]_vars

(***************************************************************************)
(* Fairness.  A goroutine that can run is scheduled, a wiresocks instance  *)
(* ends up listening or failing, and the monitor's ticker keeps ticking.   *)
(* Nothing is assumed of the call that loads or creates the identity of a  *)
(* start: it takes no context, and its request has no timeout.  Nothing is *)
(* assumed of the rotator's ticker, whose interval the user chooses:       *)
(* whatever must happen happens without it.  The select of rotateBackends  *)
(* picks among its ready cases at random: if the context stays done it     *)
(* cannot take the tick for ever, hence strong fairness.  The instances    *)
(* and the clean-ups are not treated one by one: each takes finitely many  *)
(* steps, so fairness to all of them together is enough.                   *)
(***************************************************************************)
GetsIdentity(t) == step[t] = "begin"
Proceeds(t)     == ~GetsIdentity(t) /\ StartSteps(t)

Fairness ==
    /\ WF_vars(~panicked /\ (Proceeds(Main) \/ Main_))
    /\ \A r \in Replacer : WF_vars(~panicked /\ (Proceeds(r) \/ Replacing(r)))
    /\ WF_vars(~panicked /\ (Proceeds(Rotator) \/ SwapBackends))
    /\ SF_vars(~panicked /\ RotatorExit)
    /\ WF_vars(~panicked /\ (MonitorCheck \/ MonitorExit))
    /\ WF_vars(~panicked /\ \E b \in Backend : Library(b))
    /\ WF_vars(~panicked /\ \E b \in Backend : CleanupBackendIdentity(b))
    /\ WF_vars(~panicked /\ CancelPool)

FairSpec == Spec /\ Fairness

-----------------------------------------------------------------------------
(* Safety.                                                                 *)

\* The variables have the shapes of the Go types they stand for.
TypeOK ==
    /\ pool \in Seq(Backend)
    /\ inst \in [Backend -> Object]
    /\ DOMAIN disk \subseteq Nat /\ disk \in [DOMAIN disk -> Identity]
    /\ cleaning \subseteq Backend
    /\ phase \in {"init", "serving", "returned", "failed"}
    /\ monitoring \in BOOLEAN /\ rotating \in BOOLEAN
    /\ step \in [Thread -> {"idle", "begin", "wait", "probe", "ready"}]
    /\ todo \in [Thread -> Seq(Nat)]
    /\ cur \in [Thread -> Backend \cup {NoBackend}]
    /\ slot \in 1 .. PoolSize
    /\ old \in Backend \cup {NoBackend}
    /\ engineDone \in BOOLEAN /\ stopped \in BOOLEAN /\ panicked \in BOOLEAN
    /\ failures \in 0 .. MaxFailures

\* A claim is a place in the pool that is filled, or a port some thread other
\* than the rotator will start in order to fill one.
Claims == UNION {{t} \X DOMAIN (IF t = Rotator THEN pool ELSE todo[t]) : t \in Thread}

\* However the initial filling, the monitor's replacers (several at a time) and
\* the rotator interleave, the pool never outgrows PoolSize, nor will it when
\* every start that is under way succeeds.
PoolBound == Cardinality(Claims) <= PoolSize

\* A failed start loses its own place in the pool and no other one: initial
\* filling and replacers go on with the ports that are left, and no other step,
\* a rotation that meets a changed pool included, gives places up, until the
\* engine is stopped.
LosesOnePlace ==
    [][(~engineDone' /\ Cardinality(Claims') < Cardinality(Claims)) =>
            /\ Cardinality(Claims') = Cardinality(Claims) - 1
            /\ \E t \in Thread \ {Rotator} : /\ step[t] \in {"begin", "wait"}
                                             /\ todo'[t] = Tail(todo[t])]_vars

Calm == failures = 0 /\ ~engineDone /\ ~panicked

\* While nothing fails, rotation is invisible to the clients: at every moment,
\* in the middle of a rotation too, the pool is full, every member is selected
\* and answers on its own port, no two members share a port or an identity, and
\* the identity of each is the one its directory holds.
CalmService ==
    (Calm /\ phase = "serving") =>
        /\ Len(pool) = PoolSize
        /\ \A b \in Members : /\ Sound(b)
                              /\ Serves(b, inst[b].port)
                              /\ inst[b].port \in DOMAIN disk
                              /\ disk[inst[b].port] = inst[b].ident
        /\ \A i, j \in DOMAIN pool :
              i # j => /\ inst[pool[i]].port # inst[pool[j]].port
                       /\ inst[pool[i]].ident # inst[pool[j]].ident

\* A backend that runs and that nobody has cancelled is in the pool, or a
\* thread that will put it there holds it.
Orphan(b) == /\ inst[b].ws \in {"spawned", "listening"} /\ ~Done(b)
             /\ b \notin Members /\ \A t \in Thread : cur[t] # b

\* While nothing fails no backend is forgotten: it is cancelled in the step
\* that takes it out of the pool.
CalmNoOrphan == Calm => \A b \in Backend : ~Orphan(b)

\* How often the backend's place in the pool has been rotated.
Rotations(b) == (inst[b].port - PortStart) \div TempOffset

\* While nothing fails, the rotation goes round: no member is rotated a second
\* time while another one waits for its first, whatever the rotator meets on
\* the ports it moves to.
RotatesEvenly ==
    Calm => \A b, c \in Members : Rotations(b) <= Rotations(c) + 1

-----------------------------------------------------------------------------
(* Liveness.                                                               *)

\* A member whose context is done, or that the frontend marked unhealthy, is
\* taken out of the pool, whatever the other goroutines do.
BadLeaves ==
    \A b \in Backend :
        (b \in Members /\ (Done(b) \/ ~inst[b].healthy) /\ monitoring)
            ~> (b \notin Members \/ engineDone \/ panicked)

\* Once the engine is stopped, at whatever point of a start, a rotation or a
\* replacement, every goroutine returns and every listener is closed, except that a
\* thread may stay in the call that gets it an identity.  This leads there from
\* every later state too: when such a call comes back after all, its thread returns
\* and whatever it has still started is closed.
StopQuiesces == engineDone ~> (QuiescentBut({t \in Thread : GetsIdentity(t)}) \/ panicked)

-----------------------------------------------------------------------------
(* What a comment of the source says and the code does not do.             *)

\* core/rotation.go:683: rotateOneBackend "disconnects and reconnects a single
\* backend": no other backend is dropped from the pool while it runs.
NoOrphan == \A b \in Backend : panicked \/ ~Orphan(b)
=============================================================================
