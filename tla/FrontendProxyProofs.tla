------------------------ MODULE FrontendProxyProofs ------------------------
(***************************************************************************)
(* Proofs about FrontendProxy, for any clients, pools and retries, and     *)
(* channels of any capacity.                                               *)
(***************************************************************************)
EXTENDS FrontendProxy, FiniteSetTheorems, TLAPS

-----------------------------------------------------------------------------
(* The invariant.                                                          *)

RunTypes == run \in {"serve", "wait", "graceful", "timeout"}
CtxType == ctxDone \in BOOLEAN
PoolTypes ==
    nextIndex \in 0 .. Modulus - 1 /\ alive \subseteq Backend /\ faults \in 0 .. MaxFaults
HealthType == healthy \in [Backend -> BOOLEAN]
HandlerTypes == /\ at \in [Client -> Handling \cup {"away", "accepted", "done"}]
                /\ attempt \in [Client -> Attempt]
                /\ client \in [Client -> {"open", "eof", "reset", "spent", "closed"}]

\* A handler was given a backend in each attempt it has begun.
TriedTypes ==
    /\ tried \in [Client -> Seq(Backend)]
    /\ \A c \in Client : Len(tried[c]) = IF at[c] \in {"away", "accepted", "pick"}
                                         THEN attempt[c] - 1 ELSE attempt[c]

\* What is unread or lost was sent.
ChunkTypes ==
    /\ unread \in [Client -> 0 .. MaxChunks] /\ sent \in [Client -> 0 .. MaxChunks]
    /\ lost \in [Client -> 0 .. MaxChunks]
    /\ \A c \in Client : unread[c] + lost[c] <= sent[c]

TryTypes == /\ try \in [Client -> [Attempt -> Try]]
            /\ \A c \in Client, a \in Attempt : Len(try[c][a].errs) <= Capacity

OneAccepted == \A c, d \in Client : at[c] = "accepted" /\ at[d] = "accepted" => c = d

\* Once the wait is over no connection is accepted any more.
OneSlips ==
    run = "graceful" => \A c, d \in Client :
        at[c] \notin {"away", "done"} /\ at[d] \notin {"away", "done"} => c = d

\* An attempt that has not begun has neither a connection nor a copier.
IsAhead(c, a) == \/ a > attempt[c]
                 \/ a = attempt[c] /\ at[c] \in {"away", "accepted", "pick", "dial"}

Ahead == \A c \in Client, a \in Attempt :
            IsAhead(c, a) => try[c][a].link = "none" /\ try[c][a].up = "off"

\* The attempts that are over and whose copier can take no chunk any more: each of
\* them has taken one at most.
Stolen(c) == {a \in Attempt : try[c][a].link = "closed" /\ try[c][a].up # "copy"}

Thefts == \A c \in Client : lost[c] <= Cardinality(Stolen(c))

\* From the third attempt on the backend of the one before is marked.
Blamed == \A c \in Client : attempt[c] > 2 => ~healthy[tried[c][attempt[c] - 1]]

ProxyInv ==
    /\ RunTypes /\ CtxType /\ PoolTypes /\ HealthType /\ HandlerTypes /\ TriedTypes
    /\ ChunkTypes /\ TryTypes /\ OneAccepted /\ OneSlips /\ Ahead /\ Thefts /\ Blamed

-----------------------------------------------------------------------------
(* The choice of a backend.                                                *)

\* Every non-empty set of naturals has a least element.
LEMMA LeastNatural ==
    ASSUME NEW T \in SUBSET Nat, T # {}
    PROVE  \E x \in T : \A y \in T : x <= y
<1> DEFINE R == {s \in Nat \X Nat : s[1] < s[2]}
<1>1. IsWellFoundedOn(R, Nat)
  <2>1. OpToRel(<, Nat) = R
    BY DEF OpToRel
  <2> QED
    BY <2>1, NatLessThanWellFounded
<1>2. PICK x \in T : \A y \in T : ~(<<y, x>> \in R)
  <2> HIDE DEF R
  <2> QED
    BY <1>1, WFMin
<1>3. \A y \in T : <<y, x>> \in R <=> y < x
  OBVIOUS
<1>4. x \in Nat /\ \A y \in T : y \in Nat /\ ~(y < x)
  BY <1>2, <1>3
<1> QED
  BY <1>4

\* An index of a call is one of the pool.
LEMMA IndexType ==
    ASSUME NEW start \in Nat, NEW i \in Nat
    PROVE  Index(start, i, PoolLen) \in Backend
<1>1. (start + i) % Modulus \in Nat
  BY ModulusAssumption
<1> QED
  BY <1>1, FrontendAssumption DEF Index, Backend

\* The indices a call looks at whose backends have their flags up.
Marked(i) == ~healthy[Index(nextIndex, i, PoolLen)]
UpIndices == {i \in 0 .. PoolLen - 1 : ~Marked(i)}

\* getNextBackend returns a healthy backend of the pool, if it meets one.
LEMMA NextBackendType ==
    ASSUME nextIndex \in 0 .. Modulus - 1, healthy \in [Backend -> BOOLEAN]
    PROVE  /\ NextBackend \in Backend
           /\ UpIndices # {} => healthy[NextBackend]
<1>1. nextIndex \in Nat
  BY ModulusAssumption
<1>2. CASE UpIndices = {}
  <2>1. NextBackend = 0
    BY <1>2 DEF NextBackend, UpIndices, Marked
  <2> QED
    BY <1>2, <2>1, FrontendAssumption DEF Backend
<1>3. CASE UpIndices # {}
  <2> DEFINE i == CHOOSE i \in UpIndices : \A j \in UpIndices : i <= j
  <2>1. UpIndices \in SUBSET Nat
    BY DEF UpIndices
  <2>2. i \in UpIndices
    <3>1. \E k \in UpIndices : \A j \in UpIndices : k <= j
      BY <1>3, <2>1, LeastNatural
    <3> QED
      BY <3>1
  <2>3. NextBackend = Index(nextIndex, i, PoolLen)
    BY <1>3 DEF NextBackend, UpIndices, Marked
  <2> HIDE DEF i
  <2>4. i \in Nat /\ ~Marked(i)
    BY <2>2 DEF UpIndices
  <2> QED
    BY <1>1, <2>3, <2>4, IndexType DEF Marked
<1> QED
  BY <1>2, <1>3

-----------------------------------------------------------------------------
(* The steps.                                                              *)

\* What a step does to an attempt keeps its types, and those ahead as they are.
LEMMA TryKept ==
    ASSUME ProxyInv, NEW c \in Client, NEW a \in Attempt,
           NEW t \in Try, Len(t.errs) <= Capacity,
           try' = [try EXCEPT ![c] = [try[c] EXCEPT ![a] = t]],
           \A d \in Client, b \in Attempt : IsAhead(d, b)' => IsAhead(d, b),
           IsAhead(c, a)' => t.link = "none" /\ t.up = "off"
    PROVE  TryTypes' /\ Ahead'
<1>1. /\ try' \in [Client -> [Attempt -> Try]] /\ try'[c][a] = t
      /\ \A d \in Client, b \in Attempt : d # c \/ b # a => try'[d][b] = try[d][b]
  BY DEF ProxyInv, TryTypes
<1>2. TryTypes'
  BY <1>1 DEF ProxyInv, TryTypes
<1>3. Ahead'
  BY <1>1 DEF ProxyInv, Ahead
<1> QED
  BY <1>2, <1>3

\* There are finitely many attempts.
LEMMA AttemptFinite == IsFiniteSet(Attempt)
<1>1. 1 \in Int /\ MaxRetries \in Int
  BY FrontendAssumption
<1> QED
  BY <1>1, FS_Interval DEF Attempt

\* A step that takes no chunk of the client keeps the count of those taken, as long
\* as an attempt that is over stays so.
LEMMA TryStep ==
    ASSUME ProxyInv, NEW c \in Client, NEW a \in Attempt,
           NEW t \in Try, Len(t.errs) <= Capacity,
           try' = [try EXCEPT ![c] = [try[c] EXCEPT ![a] = t]],
           \A d \in Client, b \in Attempt : IsAhead(d, b)' => IsAhead(d, b),
           IsAhead(c, a)' => t.link = "none" /\ t.up = "off",
           try[c][a].link = "closed" /\ try[c][a].up # "copy"
               => t.link = "closed" /\ t.up # "copy",
           lost' = lost
    PROVE  TryTypes' /\ Ahead' /\ Thefts'
<1>1. TryTypes' /\ Ahead'
  BY TryKept
<1>2. /\ try'[c][a] = t
      /\ \A d \in Client, b \in Attempt : d # c \/ b # a => try'[d][b] = try[d][b]
  BY DEF ProxyInv, TryTypes
<1>3. ASSUME NEW d \in Client
      PROVE  lost[d] <= Cardinality(Stolen(d)')
  <2>1. IsFiniteSet(Attempt)
    BY AttemptFinite
  <2>2. Stolen(d) \subseteq Stolen(d)' /\ Stolen(d)' \subseteq Attempt
    BY <1>2 DEF Stolen
  <2>3. /\ IsFiniteSet(Stolen(d)') /\ IsFiniteSet(Stolen(d))
        /\ Cardinality(Stolen(d)) <= Cardinality(Stolen(d)')
        /\ Cardinality(Stolen(d)) \in Nat /\ Cardinality(Stolen(d)') \in Nat
    BY <2>1, <2>2, FS_Subset, FS_CardinalityType
  <2>4. lost[d] \in Nat /\ lost[d] <= Cardinality(Stolen(d))
    BY FrontendAssumption DEF ProxyInv, ChunkTypes, Thefts
  <2> QED
    BY <2>3, <2>4
<1> QED
  BY <1>1, <1>3 DEF Thefts

\* A connection is accepted: the accept loop takes the next one when it has counted the
\* last.
LEMMA AcceptStep ==
    ASSUME ProxyInv, NEW c \in Client, Accept(c)
    PROVE  ProxyInv'
<1>1. UNCHANGED <<run, ctxDone, nextIndex, healthy, alive, attempt, tried, client,
                   unread, sent, try, lost, faults>>
  BY DEF Accept, poolVars, handleVars, clientVars
<1>2. /\ run = "serve" /\ at[c] = "away" /\ at' = [at EXCEPT ![c] = "accepted"]
      /\ \A d \in Client : at[d] # "accepted"
  BY DEF Accept
<1>3. RunTypes' /\ CtxType' /\ PoolTypes' /\ HealthType'
  BY <1>1 DEF ProxyInv, RunTypes, CtxType, PoolTypes, HealthType
<1>4. ChunkTypes' /\ TryTypes' /\ Thefts' /\ Blamed'
  BY <1>1 DEF ProxyInv, ChunkTypes, TryTypes, Thefts, Blamed, Stolen
<1>5. HandlerTypes'
  BY <1>1, <1>2 DEF ProxyInv, Handling, HandlerTypes
<1>6. TriedTypes'
  BY <1>1, <1>2 DEF ProxyInv, HandlerTypes, TriedTypes
<1>7. OneAccepted'
  BY <1>1, <1>2 DEF ProxyInv, HandlerTypes, OneAccepted
<1>8. OneSlips'
  BY <1>1, <1>2 DEF ProxyInv, HandlerTypes, OneSlips
<1>9. Ahead'
  <2>1. \A d \in Client, b \in Attempt : IsAhead(d, b)' => IsAhead(d, b)
    BY <1>1, <1>2 DEF ProxyInv, HandlerTypes, IsAhead
  <2> QED
    BY <1>1, <2>1 DEF ProxyInv, Ahead
<1> QED
  BY <1>3, <1>4, <1>5, <1>6, <1>7, <1>8, <1>9 DEF ProxyInv

\* Its handler is started.
LEMMA SpawnStep ==
    ASSUME ProxyInv, NEW c \in Client, Spawn(c)
    PROVE  ProxyInv'
<1>1. UNCHANGED <<run, ctxDone, nextIndex, healthy, alive, attempt, tried, client,
                   unread, sent, try, lost, faults>>
  BY DEF Spawn, poolVars, handleVars, clientVars
<1>2. at[c] = "accepted" /\ at' = [at EXCEPT ![c] = "pick"]
  BY DEF Spawn
<1>3. RunTypes' /\ CtxType' /\ PoolTypes' /\ HealthType'
  BY <1>1 DEF ProxyInv, RunTypes, CtxType, PoolTypes, HealthType
<1>4. ChunkTypes' /\ TryTypes' /\ Thefts' /\ Blamed'
  BY <1>1 DEF ProxyInv, ChunkTypes, TryTypes, Thefts, Blamed, Stolen
<1>5. HandlerTypes'
  BY <1>1, <1>2 DEF ProxyInv, Handling, HandlerTypes
<1>6. TriedTypes'
  BY <1>1, <1>2 DEF ProxyInv, HandlerTypes, TriedTypes
<1>7. OneAccepted'
  BY <1>1, <1>2 DEF ProxyInv, HandlerTypes, OneAccepted
<1>8. OneSlips'
  BY <1>1, <1>2 DEF ProxyInv, HandlerTypes, OneSlips
<1>9. Ahead'
  <2>1. \A d \in Client, b \in Attempt : IsAhead(d, b)' => IsAhead(d, b)
    BY <1>1, <1>2 DEF ProxyInv, HandlerTypes, IsAhead
  <2> QED
    BY <1>1, <2>1 DEF ProxyInv, Ahead
<1> QED
  BY <1>3, <1>4, <1>5, <1>6, <1>7, <1>8, <1>9 DEF ProxyInv

\* The handler is given a backend.
LEMMA PickStep ==
    ASSUME ProxyInv, NEW c \in Client, Pick(c)
    PROVE  ProxyInv'
<1>1. UNCHANGED <<run, ctxDone, healthy, alive, attempt, client, unread, sent, try,
                   lost, faults>>
  BY DEF Pick, poolVars, handleVars, clientVars
<1>2. /\ at[c] = "pick" /\ at' = [at EXCEPT ![c] = "dial"]
      /\ nextIndex' = Bump(nextIndex)
      /\ tried' = [tried EXCEPT ![c] = Append(tried[c], NextBackend)]
  BY DEF Pick
<1>3. NextBackend \in Backend
  BY NextBackendType DEF ProxyInv, PoolTypes, HealthType
<1>4. nextIndex' \in 0 .. Modulus - 1
  BY <1>2, ModulusAssumption DEF ProxyInv, PoolTypes, Bump
<1>5. /\ tried[c] \in Seq(Backend) /\ Len(tried[c]) = attempt[c] - 1 /\ attempt[c] \in Nat
      /\ tried'[c] \in Seq(Backend) /\ Len(tried'[c]) = attempt[c]
      /\ \A i \in 1 .. attempt[c] - 1 : tried'[c][i] = tried[c][i]
  <2>1. tried[c] \in Seq(Backend) /\ Len(tried[c]) = attempt[c] - 1 /\ attempt[c] \in Nat
    BY <1>2 DEF ProxyInv, TriedTypes, HandlerTypes, Attempt
  <2>2. tried'[c] = Append(tried[c], NextBackend)
    BY <1>2 DEF ProxyInv, TriedTypes
  <2> QED
    BY <1>3, <2>1, <2>2
<1>6. RunTypes' /\ CtxType' /\ HealthType' /\ ChunkTypes' /\ TryTypes' /\ Thefts'
  BY <1>1
  DEF ProxyInv, RunTypes, CtxType, HealthType, ChunkTypes, TryTypes, Thefts, Stolen
<1>7. PoolTypes'
  BY <1>1, <1>4 DEF ProxyInv, PoolTypes
<1>8. HandlerTypes'
  BY <1>1, <1>2, <1>3, <1>4, <1>5 DEF ProxyInv, Handling, HandlerTypes
<1>9. TriedTypes'
  <2>1. tried' \in [Client -> Seq(Backend)]
    BY <1>2, <1>5 DEF ProxyInv, TriedTypes
  <2> QED
    BY <1>1, <1>2, <1>5, <2>1 DEF ProxyInv, HandlerTypes, TriedTypes
<1>10. OneAccepted'
  BY <1>1, <1>2, <1>3, <1>4, <1>5 DEF ProxyInv, HandlerTypes, OneAccepted
<1>11. OneSlips'
  BY <1>1, <1>2, <1>3, <1>4, <1>5 DEF ProxyInv, HandlerTypes, OneSlips
<1>12. Ahead'
  <2>1. \A d \in Client, b \in Attempt : IsAhead(d, b)' => IsAhead(d, b)
    BY <1>1, <1>2 DEF ProxyInv, HandlerTypes, IsAhead
  <2> QED
    BY <1>1, <2>1 DEF ProxyInv, Ahead
<1>13. Blamed'
  <2> SUFFICES ASSUME NEW d \in Client, attempt[d] > 2
               PROVE  ~healthy[tried'[d][attempt[d] - 1]]
    BY <1>1 DEF Blamed
  <2>1. CASE d = c
    <3>1. attempt[c] - 1 \in 1 .. attempt[c] - 1
      BY <1>5, <2>1
    <3> QED
      BY <1>5, <2>1, <3>1 DEF ProxyInv, Blamed
  <2>2. CASE d # c
    BY <1>2, <2>2 DEF ProxyInv, TriedTypes, Blamed
  <2> QED
    BY <2>1, <2>2
<1> QED
  BY <1>6, <1>7, <1>8, <1>9, <1>10, <1>11, <1>12, <1>13 DEF ProxyInv

\* The backend cannot be dialled.
LEMMA RefusedStep ==
    ASSUME ProxyInv, NEW c \in Client, Refused(c)
    PROVE  ProxyInv'
<1>1. UNCHANGED <<run, ctxDone, nextIndex, healthy, alive, attempt, tried, client,
                   unread, sent, try, lost, faults>>
  BY DEF Refused, poolVars, handleVars, clientVars
<1>2. at[c] = "dial" /\ at' = [at EXCEPT ![c] = "judge"]
  BY DEF Refused
<1>3. RunTypes' /\ CtxType' /\ PoolTypes' /\ HealthType'
  BY <1>1 DEF ProxyInv, RunTypes, CtxType, PoolTypes, HealthType
<1>4. ChunkTypes' /\ TryTypes' /\ Thefts' /\ Blamed'
  BY <1>1 DEF ProxyInv, ChunkTypes, TryTypes, Thefts, Blamed, Stolen
<1>5. HandlerTypes'
  BY <1>1, <1>2 DEF ProxyInv, Handling, HandlerTypes
<1>6. TriedTypes'
  BY <1>1, <1>2 DEF ProxyInv, HandlerTypes, TriedTypes
<1>7. OneAccepted'
  BY <1>1, <1>2 DEF ProxyInv, HandlerTypes, OneAccepted
<1>8. OneSlips'
  BY <1>1, <1>2 DEF ProxyInv, HandlerTypes, OneSlips
<1>9. Ahead'
  <2>1. \A d \in Client, b \in Attempt : IsAhead(d, b)' => IsAhead(d, b)
    BY <1>1, <1>2 DEF ProxyInv, HandlerTypes, IsAhead
  <2> QED
    BY <1>1, <2>1 DEF ProxyInv, Ahead
<1> QED
  BY <1>3, <1>4, <1>5, <1>6, <1>7, <1>8, <1>9 DEF ProxyInv

\* The backend is dialled, and two copiers start.
LEMMA ConnectStep ==
    ASSUME ProxyInv, NEW c \in Client, Connect(c)
    PROVE  ProxyInv'
<1>1. UNCHANGED <<run, ctxDone, nextIndex, healthy, alive, attempt, tried, client,
                   unread, sent, lost, faults>>
  BY DEF Connect, poolVars, handleVars, clientVars
<1>2. at[c] = "dial" /\ at' = [at EXCEPT ![c] = "serve"]
  BY DEF Connect
<1>3. PICK a \in Attempt : a = attempt[c]
  BY DEF ProxyInv, HandlerTypes
<1>4. PICK t : /\ t = [try[c][a] EXCEPT !.link = "open", !.up = "copy", !.down = "copy"]
                 /\ try' = [try EXCEPT ![c] = [try[c] EXCEPT ![a] = t]]
  <2>1. try' = [try EXCEPT ![c] = [try[c] EXCEPT ![a] =
                  [try[c][a] EXCEPT !.link = "open", !.up = "copy", !.down = "copy"]]]
    BY <1>2, <1>3 DEF Connect, ProxyInv, TryTypes
  <2> QED
    BY <2>1
<1>5. try[c][a] \in Try /\ Len(try[c][a].errs) <= Capacity
  BY DEF ProxyInv, TryTypes
<1>6. /\ t.link = "open" /\ t.up = "copy" /\ t.down = "copy"
      /\ t.errs = try[c][a].errs /\ t.got = try[c][a].got
  BY <1>4, <1>5 DEF Try
<1>7. t \in Try /\ Len(t.errs) <= Capacity
  BY <1>2, <1>4, <1>5, FrontendAssumption DEF Try, Copier, AfterWrite
<1>8. \A d \in Client, b \in Attempt : IsAhead(d, b)' => IsAhead(d, b)
  BY <1>1, <1>2 DEF ProxyInv, HandlerTypes, IsAhead
<1>9. IsAhead(c, a)' => t.link = "none" /\ t.up = "off"
  BY <1>1, <1>2, <1>3 DEF ProxyInv, HandlerTypes, Attempt, IsAhead
<1>10. /\ try[c][a].link = "closed" /\ try[c][a].up # "copy"
         => t.link = "closed" /\ t.up # "copy"
  BY <1>2, <1>3 DEF ProxyInv, Ahead, IsAhead
<1>11. TryTypes' /\ Ahead' /\ Thefts'
  BY <1>1, <1>4, <1>7, <1>8, <1>9, <1>10, TryStep
<1>12. RunTypes' /\ CtxType' /\ PoolTypes' /\ HealthType' /\ ChunkTypes' /\ Blamed'
  BY <1>1 DEF ProxyInv, RunTypes, CtxType, PoolTypes, HealthType, ChunkTypes, Blamed
<1>13. HandlerTypes'
  BY <1>1, <1>2 DEF ProxyInv, Handling, HandlerTypes
<1>14. TriedTypes'
  BY <1>1, <1>2 DEF ProxyInv, Handling, HandlerTypes, TriedTypes
<1>15. TryTypes'
  BY <1>11
<1>16. OneAccepted'
  BY <1>1, <1>2 DEF ProxyInv, Handling, HandlerTypes, OneAccepted
<1>17. OneSlips'
  BY <1>1, <1>2 DEF ProxyInv, Handling, HandlerTypes, OneSlips
<1>18. Ahead'
  BY <1>11
<1>19. Thefts'
  BY <1>11
<1> QED
  BY <1>12, <1>13, <1>14, <1>15, <1>16, <1>17, <1>18, <1>19 DEF ProxyInv

\* The handler notices the cancellation.
LEMMA TakeDoneStep ==
    ASSUME ProxyInv, NEW c \in Client, TakeDone(c)
    PROVE  ProxyInv'
<1>1. UNCHANGED <<run, ctxDone, nextIndex, healthy, alive, attempt, tried, client,
                   unread, sent, lost, faults>>
  BY DEF TakeDone, poolVars, handleVars, clientVars
<1>2. at[c] = "serve" /\ at' = [at EXCEPT ![c] = "judge"]
  BY DEF TakeDone
<1>3. PICK a \in Attempt : a = attempt[c]
  BY DEF ProxyInv, HandlerTypes
<1>4. PICK t : /\ t = [try[c][a] EXCEPT !.link = "closed"]
                 /\ try' = [try EXCEPT ![c] = [try[c] EXCEPT ![a] = t]]
  <2>1. try' = [try EXCEPT ![c] = [try[c] EXCEPT ![a] =
                  [try[c][a] EXCEPT !.link = "closed"]]]
    BY <1>2, <1>3 DEF TakeDone, ProxyInv, TryTypes, Leave
  <2> QED
    BY <2>1
<1>5. try[c][a] \in Try /\ Len(try[c][a].errs) <= Capacity
  BY DEF ProxyInv, TryTypes
<1>6. /\ t.link = "closed" /\ t.up = try[c][a].up /\ t.down = try[c][a].down
      /\ t.errs = try[c][a].errs /\ t.got = try[c][a].got
  BY <1>4, <1>5 DEF Try
<1>7. t \in Try /\ Len(t.errs) <= Capacity
  BY <1>2, <1>4, <1>5, FrontendAssumption DEF Try, Copier, AfterWrite
<1>8. \A d \in Client, b \in Attempt : IsAhead(d, b)' => IsAhead(d, b)
  BY <1>1, <1>2 DEF ProxyInv, HandlerTypes, IsAhead
<1>9. IsAhead(c, a)' => t.link = "none" /\ t.up = "off"
  BY <1>1, <1>2, <1>3 DEF ProxyInv, HandlerTypes, Attempt, IsAhead
<1>10. /\ try[c][a].link = "closed" /\ try[c][a].up # "copy"
         => t.link = "closed" /\ t.up # "copy"
  BY <1>6
<1>11. TryTypes' /\ Ahead' /\ Thefts'
  BY <1>1, <1>4, <1>7, <1>8, <1>9, <1>10, TryStep
<1>12. RunTypes' /\ CtxType' /\ PoolTypes' /\ HealthType' /\ ChunkTypes' /\ Blamed'
  BY <1>1 DEF ProxyInv, RunTypes, CtxType, PoolTypes, HealthType, ChunkTypes, Blamed
<1>13. HandlerTypes'
  BY <1>1, <1>2 DEF ProxyInv, Handling, HandlerTypes
<1>14. TriedTypes'
  BY <1>1, <1>2 DEF ProxyInv, Handling, HandlerTypes, TriedTypes
<1>15. TryTypes'
  BY <1>11
<1>16. OneAccepted'
  BY <1>1, <1>2 DEF ProxyInv, Handling, HandlerTypes, OneAccepted
<1>17. OneSlips'
  BY <1>1, <1>2 DEF ProxyInv, Handling, HandlerTypes, OneSlips
<1>18. Ahead'
  BY <1>11
<1>19. Thefts'
  BY <1>11
<1> QED
  BY <1>12, <1>13, <1>14, <1>15, <1>16, <1>17, <1>18, <1>19 DEF ProxyInv

\* The handler takes the result of a copier.
LEMMA TakeResultStep ==
    ASSUME ProxyInv, NEW c \in Client, TakeResult(c)
    PROVE  ProxyInv'
<1>1. UNCHANGED <<run, ctxDone, nextIndex, healthy, alive, attempt, tried, unread,
                   sent, lost, faults>>
  BY DEF TakeResult, poolVars, handleVars, clientVars
<1>2. at[c] = "serve" /\ try[c][attempt[c]].errs # <<>>
      /\ \/ at' = [at EXCEPT ![c] = "done"] /\ client' = [client EXCEPT ![c] = "closed"]
         \/ at' = [at EXCEPT ![c] = "judge"] /\ client' = client
  BY DEF TakeResult, Finish
<1>3. PICK a \in Attempt : a = attempt[c]
  BY DEF ProxyInv, HandlerTypes
<1>4. PICK t : /\ t = [try[c][a] EXCEPT !.errs = Tail(try[c][a].errs), !.link = "closed"]
                 /\ try' = [try EXCEPT ![c] = [try[c] EXCEPT ![a] = t]]
  <2>1. try' = [try EXCEPT ![c] = [try[c] EXCEPT ![a] =
                  [try[c][a] EXCEPT !.errs = Tail(try[c][a].errs), !.link = "closed"]]]
    BY <1>2, <1>3 DEF TakeResult, ProxyInv, TryTypes
  <2> QED
    BY <2>1
<1>5. try[c][a] \in Try /\ Len(try[c][a].errs) <= Capacity
  BY DEF ProxyInv, TryTypes
<1>6. /\ t.link = "closed" /\ t.up = try[c][a].up /\ t.down = try[c][a].down
      /\ t.errs = Tail(try[c][a].errs) /\ t.got = try[c][a].got
  BY <1>4, <1>5 DEF Try
<1>7. t \in Try /\ Len(t.errs) <= Capacity
  <2>1. /\ Tail(try[c][a].errs) \in Seq({"ok", "bad"})
        /\ Len(Tail(try[c][a].errs)) <= Capacity
    BY <1>2, <1>3, <1>5, FrontendAssumption DEF Try
  <2> QED
    BY <1>4, <1>5, <1>6, <2>1 DEF Try, Copier
<1>8. \A d \in Client, b \in Attempt : IsAhead(d, b)' => IsAhead(d, b)
  BY <1>1, <1>2 DEF ProxyInv, HandlerTypes, IsAhead
<1>9. IsAhead(c, a)' => t.link = "none" /\ t.up = "off"
  BY <1>1, <1>2, <1>3 DEF ProxyInv, HandlerTypes, Attempt, IsAhead
<1>10. /\ try[c][a].link = "closed" /\ try[c][a].up # "copy"
         => t.link = "closed" /\ t.up # "copy"
  BY <1>6
<1>11. TryTypes' /\ Ahead' /\ Thefts'
  BY <1>1, <1>4, <1>7, <1>8, <1>9, <1>10, TryStep
<1>12. RunTypes' /\ CtxType' /\ PoolTypes' /\ HealthType' /\ ChunkTypes' /\ Blamed'
  BY <1>1 DEF ProxyInv, RunTypes, CtxType, PoolTypes, HealthType, ChunkTypes, Blamed
<1>13. HandlerTypes'
  BY <1>1, <1>2 DEF ProxyInv, Handling, HandlerTypes
<1>14. TriedTypes'
  BY <1>1, <1>2 DEF ProxyInv, Handling, HandlerTypes, TriedTypes
<1>15. TryTypes'
  BY <1>11
<1>16. OneAccepted'
  BY <1>1, <1>2 DEF ProxyInv, Handling, HandlerTypes, OneAccepted
<1>17. OneSlips'
  BY <1>1, <1>2 DEF ProxyInv, Handling, HandlerTypes, OneSlips
<1>18. Ahead'
  BY <1>11
<1>19. Thefts'
  BY <1>11
<1> QED
  BY <1>12, <1>13, <1>14, <1>15, <1>16, <1>17, <1>18, <1>19 DEF ProxyInv

\* There is nothing more to read from the client.
LEMMA EndUpStep ==
    ASSUME ProxyInv, NEW c \in Client, NEW a \in Attempt, EndUp(c, a)
    PROVE  ProxyInv'
<1>1. UNCHANGED <<run, ctxDone, nextIndex, healthy, alive, at, attempt, tried,
                   unread, sent, lost, faults>>
  BY DEF EndUp, poolVars, handleVars, clientVars
<1>2. try[c][a].up = "copy" /\ client' \in [Client -> {"open", "eof", "reset", "spent", "closed"}]
  BY DEF EndUp, Met, ProxyInv, HandlerTypes
<1>3. PICK v \in {"ok", "bad"} : v = IF client[c] \in {"eof", "spent"} THEN "ok" ELSE "bad"
  OBVIOUS
<1>4. PICK t : /\ t = [try[c][a] EXCEPT !.up = v]
                 /\ try' = [try EXCEPT ![c] = [try[c] EXCEPT ![a] = t]]
  <2>1. try' = [try EXCEPT ![c] = [try[c] EXCEPT ![a] =
                  [try[c][a] EXCEPT !.up = v]]]
    BY <1>2, <1>3 DEF EndUp, ProxyInv, TryTypes
  <2> QED
    BY <2>1
<1>5. try[c][a] \in Try /\ Len(try[c][a].errs) <= Capacity
  BY DEF ProxyInv, TryTypes
<1>6. /\ t.link = try[c][a].link /\ t.up = v /\ t.down = try[c][a].down
      /\ t.errs = try[c][a].errs /\ t.got = try[c][a].got
  BY <1>4, <1>5 DEF Try
<1>7. t \in Try /\ Len(t.errs) <= Capacity
  BY <1>2, <1>4, <1>5, FrontendAssumption DEF Try, Copier, AfterWrite
<1>8. \A d \in Client, b \in Attempt : IsAhead(d, b)' => IsAhead(d, b)
  BY <1>1, <1>2 DEF ProxyInv, HandlerTypes, IsAhead
<1>9. IsAhead(c, a)' => t.link = "none" /\ t.up = "off"
  BY <1>2, <1>6, <1>8 DEF ProxyInv, Ahead
<1>10. /\ try[c][a].link = "closed" /\ try[c][a].up # "copy"
         => t.link = "closed" /\ t.up # "copy"
  BY <1>2, <1>5, <1>6
<1>11. TryTypes' /\ Ahead' /\ Thefts'
  BY <1>1, <1>4, <1>7, <1>8, <1>9, <1>10, TryStep
<1>12. RunTypes' /\ CtxType' /\ PoolTypes' /\ HealthType' /\ TriedTypes'
  BY <1>1 DEF ProxyInv, RunTypes, CtxType, PoolTypes, HealthType, TriedTypes
<1>13. ChunkTypes' /\ OneAccepted' /\ OneSlips' /\ Blamed'
  BY <1>1 DEF ProxyInv, ChunkTypes, OneAccepted, OneSlips, Blamed
<1>14. HandlerTypes'
  BY <1>1, <1>2, <1>3, <1>4, <1>5, <1>6, <1>7, <1>8, <1>9, <1>10, <1>11
  DEF ProxyInv, HandlerTypes
<1>15. TryTypes'
  BY <1>11
<1>16. Ahead'
  BY <1>11
<1>17. Thefts'
  BY <1>11
<1> QED
  BY <1>12, <1>13, <1>14, <1>15, <1>16, <1>17 DEF ProxyInv

\* The client does not take what the backend answers.
LEMMA CopyDownStep ==
    ASSUME ProxyInv, NEW c \in Client, NEW a \in Attempt, CopyDown(c, a)
    PROVE  ProxyInv'
<1>1. UNCHANGED <<run, ctxDone, nextIndex, healthy, alive, at, attempt, tried,
                   unread, sent, lost, faults>>
  BY DEF CopyDown, poolVars, handleVars, clientVars
<1>2. /\ try[c][a].link = "open"
      /\ client' \in [Client -> {"open", "eof", "reset", "spent", "closed"}]
  BY DEF CopyDown, Met, ProxyInv, HandlerTypes
<1>3. PICK t : /\ t = [try[c][a] EXCEPT !.down = "bad"]
                 /\ try' = [try EXCEPT ![c] = [try[c] EXCEPT ![a] = t]]
  <2>1. try' = [try EXCEPT ![c] = [try[c] EXCEPT ![a] =
                  [try[c][a] EXCEPT !.down = "bad"]]]
    BY <1>2 DEF CopyDown, ProxyInv, TryTypes
  <2> QED
    BY <2>1
<1>4. try[c][a] \in Try /\ Len(try[c][a].errs) <= Capacity
  BY DEF ProxyInv, TryTypes
<1>5. /\ t.link = try[c][a].link /\ t.up = try[c][a].up /\ t.down = "bad"
      /\ t.errs = try[c][a].errs /\ t.got = try[c][a].got
  BY <1>3, <1>4 DEF Try
<1>6. t \in Try /\ Len(t.errs) <= Capacity
  BY <1>2, <1>3, <1>4, FrontendAssumption DEF Try, Copier, AfterWrite
<1>7. \A d \in Client, b \in Attempt : IsAhead(d, b)' => IsAhead(d, b)
  BY <1>1, <1>2 DEF ProxyInv, HandlerTypes, IsAhead
<1>8. IsAhead(c, a)' => t.link = "none" /\ t.up = "off"
  BY <1>2, <1>5, <1>7 DEF ProxyInv, Ahead
<1>9. /\ try[c][a].link = "closed" /\ try[c][a].up # "copy"
        => t.link = "closed" /\ t.up # "copy"
  BY <1>2, <1>4, <1>5
<1>10. TryTypes' /\ Ahead' /\ Thefts'
  BY <1>1, <1>3, <1>6, <1>7, <1>8, <1>9, TryStep
<1>11. RunTypes' /\ CtxType' /\ PoolTypes' /\ HealthType' /\ TriedTypes'
  BY <1>1 DEF ProxyInv, RunTypes, CtxType, PoolTypes, HealthType, TriedTypes
<1>12. ChunkTypes' /\ OneAccepted' /\ OneSlips' /\ Blamed'
  BY <1>1 DEF ProxyInv, ChunkTypes, OneAccepted, OneSlips, Blamed
<1>13. HandlerTypes'
  BY <1>1, <1>2, <1>3, <1>4, <1>5, <1>6, <1>7, <1>8, <1>9, <1>10
  DEF ProxyInv, HandlerTypes
<1>14. TryTypes'
  BY <1>10
<1>15. Ahead'
  BY <1>10
<1>16. Thefts'
  BY <1>10
<1> QED
  BY <1>11, <1>12, <1>13, <1>14, <1>15, <1>16 DEF ProxyInv

\* There is nothing more to read from the backend.
LEMMA EndDownStep ==
    ASSUME ProxyInv, NEW c \in Client, NEW a \in Attempt, EndDown(c, a)
    PROVE  ProxyInv'
<1>1. UNCHANGED <<run, ctxDone, nextIndex, healthy, alive, at, attempt, tried,
                   client, unread, sent, lost, faults>>
  BY DEF EndDown, poolVars, handleVars, clientVars
<1>2. try[c][a].link \in {"eof", "reset", "spent", "closed"}
  BY DEF EndDown
<1>3. PICK v \in {"ok", "bad"} : v = IF try[c][a].link \in {"eof", "spent"} THEN "ok" ELSE "bad"
  OBVIOUS
<1>4. PICK l : l = IF try[c][a].link = "reset" THEN "spent" ELSE try[c][a].link
  OBVIOUS
<1>5. l \in {"none", "open", "eof", "spent", "closed"}
      /\ (try[c][a].link = "closed" <=> l = "closed")
      /\ (try[c][a].link = "none" => l = "none")
  BY <1>4 DEF ProxyInv, TryTypes, Try
<1>6. PICK t : /\ t = [try[c][a] EXCEPT !.down = v, !.link = l]
                 /\ try' = [try EXCEPT ![c] = [try[c] EXCEPT ![a] = t]]
  <2>1. try' = [try EXCEPT ![c] = [try[c] EXCEPT ![a] =
                  [try[c][a] EXCEPT !.down = v, !.link = l]]]
    BY <1>2, <1>3, <1>4, <1>5 DEF EndDown, ProxyInv, TryTypes, Met
  <2> QED
    BY <2>1
<1>7. try[c][a] \in Try /\ Len(try[c][a].errs) <= Capacity
  BY DEF ProxyInv, TryTypes
<1>8. /\ t.link = l /\ t.up = try[c][a].up /\ t.down = v
      /\ t.errs = try[c][a].errs /\ t.got = try[c][a].got
  BY <1>6, <1>7 DEF Try
<1>9. t \in Try /\ Len(t.errs) <= Capacity
  BY <1>3, <1>5, <1>6, <1>7, <1>8 DEF Try, Copier
<1>10. \A d \in Client, b \in Attempt : IsAhead(d, b)' => IsAhead(d, b)
  BY <1>1, <1>2 DEF ProxyInv, HandlerTypes, IsAhead
<1>11. IsAhead(c, a)' => t.link = "none" /\ t.up = "off"
  BY <1>2, <1>8, <1>10 DEF ProxyInv, Ahead
<1>12. /\ try[c][a].link = "closed" /\ try[c][a].up # "copy"
         => t.link = "closed" /\ t.up # "copy"
  BY <1>5, <1>8
<1>13. TryTypes' /\ Ahead' /\ Thefts'
  BY <1>1, <1>6, <1>9, <1>10, <1>11, <1>12, TryStep
<1>14. RunTypes' /\ CtxType' /\ PoolTypes' /\ HealthType' /\ HandlerTypes'
  BY <1>1 DEF ProxyInv, RunTypes, CtxType, PoolTypes, HealthType, HandlerTypes
<1>15. TriedTypes' /\ ChunkTypes' /\ OneAccepted' /\ OneSlips' /\ Blamed'
  BY <1>1 DEF ProxyInv, TriedTypes, ChunkTypes, OneAccepted, OneSlips, Blamed
<1>16. TryTypes'
  BY <1>13
<1>17. Ahead'
  BY <1>13
<1>18. Thefts'
  BY <1>13
<1> QED
  BY <1>14, <1>15, <1>16, <1>17, <1>18 DEF ProxyInv

\* The copier from the client reports.
LEMMA ReportUpStep ==
    ASSUME ProxyInv, NEW c \in Client, NEW a \in Attempt, ReportUp(c, a)
    PROVE  ProxyInv'
<1>1. UNCHANGED <<run, ctxDone, nextIndex, healthy, alive, at, attempt, tried,
                   client, unread, sent, lost, faults>>
  BY DEF ReportUp, poolVars, handleVars, clientVars
<1>2. try[c][a].up \in {"ok", "bad"} /\ Len(try[c][a].errs) < Capacity
  BY DEF ReportUp
<1>3. PICK t : /\ t = [try[c][a] EXCEPT !.errs = Append(try[c][a].errs, try[c][a].up),
                       !.up = "over"]
                 /\ try' = [try EXCEPT ![c] = [try[c] EXCEPT ![a] = t]]
  <2>1. try' = [try EXCEPT ![c] = [try[c] EXCEPT ![a] =
                  [try[c][a] EXCEPT !.errs = Append(try[c][a].errs, try[c][a].up), !.up = "over"]]]
    BY <1>2 DEF ReportUp, ProxyInv, TryTypes
  <2> QED
    BY <2>1
<1>4. try[c][a] \in Try /\ Len(try[c][a].errs) <= Capacity
  BY DEF ProxyInv, TryTypes
<1>5. /\ t.link = try[c][a].link /\ t.up = "over" /\ t.down = try[c][a].down
      /\ t.errs = Append(try[c][a].errs, try[c][a].up) /\ t.got = try[c][a].got
  BY <1>3, <1>4 DEF Try
<1>6. t \in Try /\ Len(t.errs) <= Capacity
  <2>1. /\ Append(try[c][a].errs, try[c][a].up) \in Seq({"ok", "bad"})
        /\ Len(Append(try[c][a].errs, try[c][a].up)) <= Capacity
    BY <1>2, <1>4, FrontendAssumption DEF Try
  <2> QED
    BY <1>3, <1>4, <1>5, <2>1 DEF Try, Copier
<1>7. \A d \in Client, b \in Attempt : IsAhead(d, b)' => IsAhead(d, b)
  BY <1>1, <1>2 DEF ProxyInv, HandlerTypes, IsAhead
<1>8. IsAhead(c, a)' => t.link = "none" /\ t.up = "off"
  BY <1>2, <1>5, <1>7 DEF ProxyInv, Ahead
<1>9. /\ try[c][a].link = "closed" /\ try[c][a].up # "copy"
        => t.link = "closed" /\ t.up # "copy"
  BY <1>2, <1>4, <1>5
<1>10. TryTypes' /\ Ahead' /\ Thefts'
  BY <1>1, <1>3, <1>6, <1>7, <1>8, <1>9, TryStep
<1>11. RunTypes' /\ CtxType' /\ PoolTypes' /\ HealthType' /\ HandlerTypes'
  BY <1>1 DEF ProxyInv, RunTypes, CtxType, PoolTypes, HealthType, HandlerTypes
<1>12. TriedTypes' /\ ChunkTypes' /\ OneAccepted' /\ OneSlips' /\ Blamed'
  BY <1>1 DEF ProxyInv, TriedTypes, ChunkTypes, OneAccepted, OneSlips, Blamed
<1>13. TryTypes'
  BY <1>10
<1>14. Ahead'
  BY <1>10
<1>15. Thefts'
  BY <1>10
<1> QED
  BY <1>11, <1>12, <1>13, <1>14, <1>15 DEF ProxyInv

\* The copier to the client reports.
LEMMA ReportDownStep ==
    ASSUME ProxyInv, NEW c \in Client, NEW a \in Attempt, ReportDown(c, a)
    PROVE  ProxyInv'
<1>1. UNCHANGED <<run, ctxDone, nextIndex, healthy, alive, at, attempt, tried,
                   client, unread, sent, lost, faults>>
  BY DEF ReportDown, poolVars, handleVars, clientVars
<1>2. try[c][a].down \in {"ok", "bad"} /\ Len(try[c][a].errs) < Capacity
  BY DEF ReportDown
<1>3. PICK t : /\ t = [try[c][a] EXCEPT !.errs = Append(try[c][a].errs, try[c][a].down),
                       !.down = "over"]
                 /\ try' = [try EXCEPT ![c] = [try[c] EXCEPT ![a] = t]]
  <2>1. try' = [try EXCEPT ![c] = [try[c] EXCEPT ![a] =
                  [try[c][a] EXCEPT !.errs = Append(try[c][a].errs, try[c][a].down),
                   !.down = "over"]]]
    BY <1>2 DEF ReportDown, ProxyInv, TryTypes
  <2> QED
    BY <2>1
<1>4. try[c][a] \in Try /\ Len(try[c][a].errs) <= Capacity
  BY DEF ProxyInv, TryTypes
<1>5. /\ t.link = try[c][a].link /\ t.up = try[c][a].up /\ t.down = "over"
      /\ t.errs = Append(try[c][a].errs, try[c][a].down) /\ t.got = try[c][a].got
  BY <1>3, <1>4 DEF Try
<1>6. t \in Try /\ Len(t.errs) <= Capacity
  <2>1. /\ Append(try[c][a].errs, try[c][a].down) \in Seq({"ok", "bad"})
        /\ Len(Append(try[c][a].errs, try[c][a].down)) <= Capacity
    BY <1>2, <1>4, FrontendAssumption DEF Try
  <2> QED
    BY <1>3, <1>4, <1>5, <2>1 DEF Try, Copier
<1>7. \A d \in Client, b \in Attempt : IsAhead(d, b)' => IsAhead(d, b)
  BY <1>1, <1>2 DEF ProxyInv, HandlerTypes, IsAhead
<1>8. IsAhead(c, a)' => t.link = "none" /\ t.up = "off"
  BY <1>2, <1>5, <1>7 DEF ProxyInv, Ahead
<1>9. /\ try[c][a].link = "closed" /\ try[c][a].up # "copy"
        => t.link = "closed" /\ t.up # "copy"
  BY <1>2, <1>4, <1>5
<1>10. TryTypes' /\ Ahead' /\ Thefts'
  BY <1>1, <1>3, <1>6, <1>7, <1>8, <1>9, TryStep
<1>11. RunTypes' /\ CtxType' /\ PoolTypes' /\ HealthType' /\ HandlerTypes'
  BY <1>1 DEF ProxyInv, RunTypes, CtxType, PoolTypes, HealthType, HandlerTypes
<1>12. TriedTypes' /\ ChunkTypes' /\ OneAccepted' /\ OneSlips' /\ Blamed'
  BY <1>1 DEF ProxyInv, TriedTypes, ChunkTypes, OneAccepted, OneSlips, Blamed
<1>13. TryTypes'
  BY <1>10
<1>14. Ahead'
  BY <1>10
<1>15. Thefts'
  BY <1>10
<1> QED
  BY <1>11, <1>12, <1>13, <1>14, <1>15 DEF ProxyInv

\* The backend ends the session.
LEMMA EndSessionStep ==
    ASSUME ProxyInv, NEW c \in Client, NEW a \in Attempt, EndSession(c, a)
    PROVE  ProxyInv'
<1>1. UNCHANGED <<run, ctxDone, nextIndex, healthy, alive, at, attempt, tried,
                   client, unread, sent, lost, faults>>
  BY DEF EndSession, poolVars, handleVars, clientVars
<1>2. try[c][a].link = "open"
  BY DEF EndSession
<1>3. PICK t : /\ t = [try[c][a] EXCEPT !.link = "eof"]
                 /\ try' = [try EXCEPT ![c] = [try[c] EXCEPT ![a] = t]]
  <2>1. try' = [try EXCEPT ![c] = [try[c] EXCEPT ![a] =
                  [try[c][a] EXCEPT !.link = "eof"]]]
    BY <1>2 DEF EndSession, ProxyInv, TryTypes
  <2> QED
    BY <2>1
<1>4. try[c][a] \in Try /\ Len(try[c][a].errs) <= Capacity
  BY DEF ProxyInv, TryTypes
<1>5. /\ t.link = "eof" /\ t.up = try[c][a].up /\ t.down = try[c][a].down
      /\ t.errs = try[c][a].errs /\ t.got = try[c][a].got
  BY <1>3, <1>4 DEF Try
<1>6. t \in Try /\ Len(t.errs) <= Capacity
  BY <1>2, <1>3, <1>4, FrontendAssumption DEF Try, Copier, AfterWrite
<1>7. \A d \in Client, b \in Attempt : IsAhead(d, b)' => IsAhead(d, b)
  BY <1>1, <1>2 DEF ProxyInv, HandlerTypes, IsAhead
<1>8. IsAhead(c, a)' => t.link = "none" /\ t.up = "off"
  BY <1>2, <1>5, <1>7 DEF ProxyInv, Ahead
<1>9. /\ try[c][a].link = "closed" /\ try[c][a].up # "copy"
        => t.link = "closed" /\ t.up # "copy"
  BY <1>2, <1>4, <1>5
<1>10. TryTypes' /\ Ahead' /\ Thefts'
  BY <1>1, <1>3, <1>6, <1>7, <1>8, <1>9, TryStep
<1>11. RunTypes' /\ CtxType' /\ PoolTypes' /\ HealthType' /\ HandlerTypes'
  BY <1>1 DEF ProxyInv, RunTypes, CtxType, PoolTypes, HealthType, HandlerTypes
<1>12. TriedTypes' /\ ChunkTypes' /\ OneAccepted' /\ OneSlips' /\ Blamed'
  BY <1>1 DEF ProxyInv, TriedTypes, ChunkTypes, OneAccepted, OneSlips, Blamed
<1>13. TryTypes'
  BY <1>10
<1>14. Ahead'
  BY <1>10
<1>15. Thefts'
  BY <1>10
<1> QED
  BY <1>11, <1>12, <1>13, <1>14, <1>15 DEF ProxyInv

\* The backend breaks the connection.
LEMMA BreakLinkStep ==
    ASSUME ProxyInv, NEW c \in Client, NEW a \in Attempt, BreakLink(c, a)
    PROVE  ProxyInv'
<1>1. UNCHANGED <<run, ctxDone, nextIndex, healthy, alive, at, attempt, tried,
                   client, unread, sent, lost>>
  BY DEF BreakLink, poolVars, handleVars, clientVars
<1>2. try[c][a].link = "open" /\ faults' = faults + 1 /\ faults < MaxFaults
  BY DEF BreakLink
<1>3. PICK t : /\ t = [try[c][a] EXCEPT !.link = "reset"]
                 /\ try' = [try EXCEPT ![c] = [try[c] EXCEPT ![a] = t]]
  <2>1. try' = [try EXCEPT ![c] = [try[c] EXCEPT ![a] =
                  [try[c][a] EXCEPT !.link = "reset"]]]
    BY <1>2 DEF BreakLink, ProxyInv, TryTypes
  <2> QED
    BY <2>1
<1>4. try[c][a] \in Try /\ Len(try[c][a].errs) <= Capacity
  BY DEF ProxyInv, TryTypes
<1>5. /\ t.link = "reset" /\ t.up = try[c][a].up /\ t.down = try[c][a].down
      /\ t.errs = try[c][a].errs /\ t.got = try[c][a].got
  BY <1>3, <1>4 DEF Try
<1>6. t \in Try /\ Len(t.errs) <= Capacity
  BY <1>2, <1>3, <1>4, FrontendAssumption DEF Try, Copier, AfterWrite
<1>7. \A d \in Client, b \in Attempt : IsAhead(d, b)' => IsAhead(d, b)
  BY <1>1, <1>2 DEF ProxyInv, HandlerTypes, IsAhead
<1>8. IsAhead(c, a)' => t.link = "none" /\ t.up = "off"
  BY <1>2, <1>5, <1>7 DEF ProxyInv, Ahead
<1>9. /\ try[c][a].link = "closed" /\ try[c][a].up # "copy"
        => t.link = "closed" /\ t.up # "copy"
  BY <1>2, <1>4, <1>5
<1>10. TryTypes' /\ Ahead' /\ Thefts'
  BY <1>1, <1>3, <1>6, <1>7, <1>8, <1>9, TryStep
<1>11. RunTypes' /\ CtxType' /\ HealthType' /\ HandlerTypes' /\ TriedTypes'
  BY <1>1 DEF ProxyInv, RunTypes, CtxType, HealthType, HandlerTypes, TriedTypes
<1>12. ChunkTypes' /\ OneAccepted' /\ OneSlips' /\ Blamed'
  BY <1>1 DEF ProxyInv, ChunkTypes, OneAccepted, OneSlips, Blamed
<1>13. PoolTypes'
  BY <1>1, <1>2, FrontendAssumption DEF ProxyInv, PoolTypes
<1>14. TryTypes'
  BY <1>10
<1>15. Ahead'
  BY <1>10
<1>16. Thefts'
  BY <1>10
<1> QED
  BY <1>11, <1>12, <1>13, <1>14, <1>15, <1>16 DEF ProxyInv

\* A chunk goes to the backend, or is gone: then its copier takes no other.
LEMMA CopyUpStep ==
    ASSUME ProxyInv, NEW c \in Client, NEW a \in Attempt, CopyUp(c, a)
    PROVE  ProxyInv'
<1>1. UNCHANGED <<run, ctxDone, nextIndex, healthy, alive, at, attempt, tried,
                   client, sent, faults>>
  BY DEF CopyUp, poolVars, handleVars, clientVars
<1>2. /\ try[c][a].up = "copy" /\ unread[c] > 0 /\ unread' = [unread EXCEPT ![c] = unread[c] - 1]
      /\ \/ try[c][a].link = "closed" /\ lost' = [lost EXCEPT ![c] = lost[c] + 1]
         \/ try[c][a].link # "closed" /\ lost' = lost
  BY DEF CopyUp
<1>3. PICK v \in {"copy", "bad"} : v = AfterWrite(try[c][a].link)
  BY DEF AfterWrite
<1>4. PICK g \in BOOLEAN : g = (try[c][a].got \/ Delivers(try[c][a].link))
  OBVIOUS
<1>5. PICK l : l = IF try[c][a].link = "reset" THEN "spent" ELSE try[c][a].link
  OBVIOUS
<1>6. l \in {"none", "open", "eof", "spent", "closed"}
      /\ (try[c][a].link = "closed" <=> l = "closed")
      /\ (try[c][a].link = "none" => l = "none")
  BY <1>5 DEF ProxyInv, TryTypes, Try
<1>7. PICK t : /\ t = [try[c][a] EXCEPT !.up = v, !.got = g, !.link = l]
                 /\ try' = [try EXCEPT ![c] = [try[c] EXCEPT ![a] = t]]
  <2>1. try' = [try EXCEPT ![c] = [try[c] EXCEPT ![a] =
                  [try[c][a] EXCEPT !.up = v, !.got = g, !.link = l]]]
    BY <1>2, <1>3, <1>4, <1>5, <1>6 DEF CopyUp, ProxyInv, TryTypes, Met
  <2> QED
    BY <2>1
<1>8. try[c][a] \in Try /\ Len(try[c][a].errs) <= Capacity
  BY DEF ProxyInv, TryTypes
<1>9. /\ t.link = l /\ t.up = v /\ t.down = try[c][a].down
      /\ t.errs = try[c][a].errs /\ t.got = g
  BY <1>7, <1>8 DEF Try
<1>10. t \in Try /\ Len(t.errs) <= Capacity
  BY <1>3, <1>4, <1>6, <1>7, <1>8, <1>9 DEF Try, Copier
<1>11. \A d \in Client, b \in Attempt : IsAhead(d, b)' => IsAhead(d, b)
  BY <1>1, <1>2 DEF ProxyInv, HandlerTypes, IsAhead
<1>12. IsAhead(c, a)' => t.link = "none" /\ t.up = "off"
  BY <1>2, <1>9, <1>11 DEF ProxyInv, Ahead
<1>13. /\ try[c][a].link = "closed" /\ try[c][a].up # "copy"
         => t.link = "closed" /\ t.up # "copy"
  BY <1>2, <1>9
<1>14. TryTypes' /\ Ahead'
  BY <1>1, <1>7, <1>10, <1>11, <1>12, <1>13, TryKept
<1>15. RunTypes' /\ CtxType' /\ PoolTypes' /\ HealthType' /\ HandlerTypes'
  BY <1>1 DEF ProxyInv, RunTypes, CtxType, PoolTypes, HealthType, HandlerTypes
<1>16. TriedTypes' /\ OneAccepted' /\ OneSlips' /\ Blamed'
  BY <1>1 DEF ProxyInv, TriedTypes, OneAccepted, OneSlips, Blamed
<1>17. ChunkTypes'
  <2>1. /\ unread[c] \in Nat /\ lost[c] \in Nat /\ sent[c] \in 0 .. MaxChunks
        /\ unread[c] + lost[c] <= sent[c]
    BY FrontendAssumption DEF ProxyInv, ChunkTypes
  <2>2. /\ unread[c] - 1 \in 0 .. MaxChunks /\ lost[c] + 1 \in 0 .. MaxChunks
        /\ unread[c] - 1 + lost[c] + 1 <= sent[c] /\ unread[c] - 1 + lost[c] <= sent[c]
    BY <1>2, <2>1, FrontendAssumption
  <2> QED
    BY <1>1, <1>2, <2>2 DEF ProxyInv, ChunkTypes
<1>18. TryTypes'
  BY <1>14
<1>19. Ahead'
  BY <1>14
<1>20. Thefts'
  <2>1. CASE lost' = lost
    BY <1>7, <1>10, <1>11, <1>12, <1>13, <2>1, TryStep
  <2>2. CASE try[c][a].link = "closed" /\ lost' = [lost EXCEPT ![c] = lost[c] + 1]
    <3>1. t.link = "closed" /\ t.up = "bad"
      BY <1>3, <1>6, <1>9, <2>2 DEF AfterWrite, Delivers
    <3>2. /\ try'[c][a] = t
          /\ \A d \in Client, b \in Attempt : d # c \/ b # a => try'[d][b] = try[d][b]
      BY <1>7 DEF ProxyInv, TryTypes
    <3>3. a \notin Stolen(c) /\ Stolen(c)' = Stolen(c) \cup {a}
      BY <1>2, <3>1, <3>2 DEF Stolen
    <3>4. IsFiniteSet(Stolen(c))
      BY AttemptFinite, FS_Subset DEF Stolen
    <3>5. Cardinality(Stolen(c)') = Cardinality(Stolen(c)) + 1 /\ Cardinality(Stolen(c)) \in Nat
      BY <3>3, <3>4, FS_AddElement, FS_CardinalityType
    <3>6. lost[c] \in Nat
      BY FrontendAssumption DEF ProxyInv, ChunkTypes
    <3>7. lost'[c] <= Cardinality(Stolen(c)')
      BY <2>2, <3>5, <3>6 DEF ProxyInv, ChunkTypes, Thefts
    <3>8. ASSUME NEW d \in Client, d # c
          PROVE  lost'[d] <= Cardinality(Stolen(d)')
      <4>1. Stolen(d)' = Stolen(d) /\ lost'[d] = lost[d]
        BY <2>2, <3>2, <3>8 DEF Stolen, ProxyInv, ChunkTypes
      <4> QED
        BY <4>1 DEF ProxyInv, Thefts
    <3> QED
      BY <3>7, <3>8 DEF Thefts
  <2> QED
    BY <1>2, <2>1, <2>2
<1> QED
  BY <1>15, <1>16, <1>17, <1>18, <1>19, <1>20 DEF ProxyInv

\* An attempt has failed.
LEMMA JudgeStep ==
    ASSUME ProxyInv, NEW c \in Client, Judge(c)
    PROVE  ProxyInv'
<1>1. UNCHANGED <<run, ctxDone, nextIndex, alive, tried, unread, sent, try, lost,
                   faults>>
  BY DEF Judge, poolVars, handleVars, clientVars
<1>2. at[c] = "judge" /\ On(c) = tried[c][attempt[c]]
  BY DEF Judge, On
<1>3. /\ attempt[c] \in 1 .. MaxRetries /\ MaxRetries \in Nat /\ Len(tried[c]) = attempt[c]
      /\ tried[c] \in Seq(Backend) /\ On(c) \in Backend
  BY <1>2, FrontendAssumption DEF ProxyInv, HandlerTypes, TriedTypes, Attempt
<1>4. \/ /\ at' = [at EXCEPT ![c] = "done"] /\ client' = [client EXCEPT ![c] = "closed"]
         /\ attempt' = attempt
         /\ (healthy' = healthy \/ healthy' = [healthy EXCEPT ![On(c)] = FALSE])
      \/ /\ attempt' = [attempt EXCEPT ![c] = attempt[c] + 1]
         /\ attempt[c] # MaxRetries /\ at' = [at EXCEPT ![c] = "pick"] /\ client' = client
         /\ IF attempt[c] > 1 THEN healthy' = [healthy EXCEPT ![On(c)] = FALSE]
                              ELSE healthy' = healthy
  BY DEF Judge, Finish, Blames
<1>5. healthy' = healthy \/ healthy' = [healthy EXCEPT ![On(c)] = FALSE]
  BY <1>4
<1>6. at' = [at EXCEPT ![c] = "done"] \/ at' = [at EXCEPT ![c] = "pick"]
  BY <1>4
<1>7. RunTypes' /\ CtxType' /\ PoolTypes' /\ ChunkTypes' /\ TryTypes' /\ Thefts'
  BY <1>1
  DEF ProxyInv, RunTypes, CtxType, PoolTypes, ChunkTypes, TryTypes, Thefts, Stolen
<1>8. HealthType'
  BY <1>5 DEF ProxyInv, HealthType
<1>9. HandlerTypes'
  <2>1. attempt[c] # MaxRetries => attempt[c] + 1 \in Attempt
    BY <1>3 DEF Attempt
  <2> QED
    BY <1>1, <1>4, <2>1 DEF ProxyInv, HandlerTypes, Handling
<1>10. TriedTypes'
  <2>1. attempt[c] + 1 - 1 = attempt[c]
    BY <1>3
  <2> QED
    BY <1>1, <1>2, <1>3, <1>4, <2>1 DEF ProxyInv, HandlerTypes, TriedTypes
<1>11. OneAccepted'
  BY <1>1, <1>2, <1>6 DEF ProxyInv, HandlerTypes, OneAccepted
<1>12. OneSlips'
  BY <1>1, <1>2, <1>6 DEF ProxyInv, HandlerTypes, OneSlips
<1>13. Ahead'
  <2>1. \A d \in Client, b \in Attempt : IsAhead(d, b)' => IsAhead(d, b)
    BY <1>1, <1>2, <1>3, <1>4 DEF ProxyInv, HandlerTypes, Attempt, IsAhead
  <2> QED
    BY <1>1, <2>1 DEF ProxyInv, Ahead
<1>14. Blamed'
  <2> SUFFICES ASSUME NEW d \in Client, attempt'[d] > 2
               PROVE  ~healthy'[tried[d][attempt'[d] - 1]]
    BY <1>1 DEF Blamed
  <2>1. \A b \in Backend : healthy'[b] => healthy[b]
    BY <1>5 DEF ProxyInv, HealthType
  <2>2. ASSUME NEW e \in Client, attempt[e] > 2
        PROVE  ~healthy'[tried[e][attempt[e] - 1]]
    <3>1. /\ attempt[e] - 1 \in 1 .. Len(tried[e]) /\ tried[e] \in Seq(Backend)
      BY <2>2 DEF ProxyInv, TriedTypes, HandlerTypes, Attempt
    <3>2. tried[e][attempt[e] - 1] \in Backend
      BY <3>1
    <3> QED
      BY <2>1, <2>2, <3>2 DEF ProxyInv, Blamed
  <2>3. CASE attempt'[d] = attempt[d]
    BY <2>2, <2>3
  <2>4. CASE attempt'[d] # attempt[d]
    <3>1. /\ d = c /\ attempt'[c] = attempt[c] + 1
          /\ IF attempt[c] > 1 THEN healthy' = [healthy EXCEPT ![On(c)] = FALSE]
                               ELSE healthy' = healthy
      BY <1>4, <2>4 DEF ProxyInv, HandlerTypes
    <3>2. attempt[c] > 1 /\ attempt'[c] - 1 = attempt[c]
      BY <1>3, <3>1
    <3>3. ~healthy'[On(c)]
      BY <1>3, <3>1, <3>2 DEF ProxyInv, HealthType
    <3> QED
      BY <1>2, <3>1, <3>2, <3>3
  <2> QED
    BY <2>3, <2>4
<1> QED
  BY <1>7, <1>8, <1>9, <1>10, <1>11, <1>12, <1>13, <1>14 DEF ProxyInv

\* The proxy is stopped.
LEMMA CancelStep ==
    ASSUME ProxyInv, Cancel
    PROVE  ProxyInv'
<1>1. UNCHANGED <<run, nextIndex, healthy, alive, at, attempt, tried, client, unread,
                   sent, try, lost, faults>>
  BY DEF Cancel, poolVars, handleVars, clientVars
<1>2. ctxDone' = TRUE
  BY DEF Cancel
<1>3. RunTypes' /\ PoolTypes' /\ HealthType' /\ HandlerTypes' /\ TriedTypes' /\ ChunkTypes'
  BY <1>1
  DEF ProxyInv, RunTypes, PoolTypes, HealthType, HandlerTypes, TriedTypes, ChunkTypes
<1>4. TryTypes' /\ OneAccepted' /\ OneSlips' /\ Ahead' /\ Thefts' /\ Blamed'
  BY <1>1
  DEF ProxyInv, TryTypes, OneAccepted, OneSlips, Ahead, Thefts, Blamed, IsAhead,
      Stolen
<1>5. CtxType'
  BY <1>1, <1>2 DEF ProxyInv, CtxType
<1> QED
  BY <1>3, <1>4, <1>5 DEF ProxyInv

\* The listener is closed.
LEMMA CloseListenerStep ==
    ASSUME ProxyInv, CloseListener
    PROVE  ProxyInv'
<1>1. UNCHANGED <<ctxDone, nextIndex, healthy, alive, at, attempt, tried, client,
                   unread, sent, try, lost, faults>>
  BY DEF CloseListener, poolVars, handleVars, clientVars
<1>2. run' = "wait"
  BY DEF CloseListener
<1>3. CtxType' /\ PoolTypes' /\ HealthType' /\ HandlerTypes' /\ TriedTypes' /\ ChunkTypes'
  BY <1>1
  DEF ProxyInv, CtxType, PoolTypes, HealthType, HandlerTypes, TriedTypes, ChunkTypes
<1>4. TryTypes' /\ OneAccepted' /\ Ahead' /\ Thefts' /\ Blamed'
  BY <1>1 DEF ProxyInv, TryTypes, OneAccepted, Ahead, Thefts, Blamed, IsAhead, Stolen
<1>5. RunTypes'
  BY <1>1, <1>2 DEF ProxyInv, RunTypes
<1>6. OneSlips'
  BY <1>1, <1>2 DEF ProxyInv, OneSlips
<1> QED
  BY <1>3, <1>4, <1>5, <1>6 DEF ProxyInv

\* No handler is counted any more: one more may have been accepted.
LEMMA WaitReturnsStep ==
    ASSUME ProxyInv, WaitReturns
    PROVE  ProxyInv'
<1>1. UNCHANGED <<ctxDone, nextIndex, healthy, alive, at, attempt, tried, client,
                   unread, sent, try, lost, faults>>
  BY DEF WaitReturns, poolVars, handleVars, clientVars
<1>2. run' = "graceful" /\ \A c \in Client : at[c] \notin Handling
  BY DEF WaitReturns, Counted
<1>3. CtxType' /\ PoolTypes' /\ HealthType' /\ HandlerTypes' /\ TriedTypes' /\ ChunkTypes'
  BY <1>1
  DEF ProxyInv, CtxType, PoolTypes, HealthType, HandlerTypes, TriedTypes, ChunkTypes
<1>4. TryTypes' /\ OneAccepted' /\ Ahead' /\ Thefts' /\ Blamed'
  BY <1>1 DEF ProxyInv, TryTypes, OneAccepted, Ahead, Thefts, Blamed, IsAhead, Stolen
<1>5. RunTypes'
  BY <1>1, <1>2 DEF ProxyInv, RunTypes
<1>6. OneSlips'
  <2>1. \A c \in Client : at[c] \notin {"away", "done"} => at[c] = "accepted"
    BY <1>2 DEF ProxyInv, HandlerTypes
  <2> QED
    BY <1>1, <2>1 DEF ProxyInv, OneAccepted, OneSlips
<1> QED
  BY <1>3, <1>4, <1>5, <1>6 DEF ProxyInv

\* The wait is over.
LEMMA WaitTimesOutStep ==
    ASSUME ProxyInv, WaitTimesOut
    PROVE  ProxyInv'
<1>1. UNCHANGED <<ctxDone, nextIndex, healthy, alive, at, attempt, tried, client,
                   unread, sent, try, lost, faults>>
  BY DEF WaitTimesOut, poolVars, handleVars, clientVars
<1>2. run' = "timeout"
  BY DEF WaitTimesOut
<1>3. CtxType' /\ PoolTypes' /\ HealthType' /\ HandlerTypes' /\ TriedTypes' /\ ChunkTypes'
  BY <1>1
  DEF ProxyInv, CtxType, PoolTypes, HealthType, HandlerTypes, TriedTypes, ChunkTypes
<1>4. TryTypes' /\ OneAccepted' /\ Ahead' /\ Thefts' /\ Blamed'
  BY <1>1 DEF ProxyInv, TryTypes, OneAccepted, Ahead, Thefts, Blamed, IsAhead, Stolen
<1>5. RunTypes'
  BY <1>1, <1>2 DEF ProxyInv, RunTypes
<1>6. OneSlips'
  BY <1>1, <1>2 DEF ProxyInv, OneSlips
<1> QED
  BY <1>3, <1>4, <1>5, <1>6 DEF ProxyInv

\* A client sends a chunk.
LEMMA SendStep ==
    ASSUME ProxyInv, NEW c \in Client, Send(c)
    PROVE  ProxyInv'
<1>1. UNCHANGED <<run, ctxDone, nextIndex, healthy, alive, at, attempt, tried,
                   client, try, lost, faults>>
  BY DEF Send, poolVars, handleVars, clientVars
<1>2. /\ sent[c] < MaxChunks /\ sent' = [sent EXCEPT ![c] = sent[c] + 1]
      /\ unread' = [unread EXCEPT ![c] = unread[c] + 1]
  BY DEF Send
<1>3. /\ unread[c] \in Nat /\ lost[c] \in Nat /\ sent[c] \in Nat /\ unread[c] + lost[c] <= sent[c]
  BY FrontendAssumption DEF ProxyInv, ChunkTypes
<1>4. /\ unread[c] + 1 \in 0 .. MaxChunks /\ sent[c] + 1 \in 0 .. MaxChunks
      /\ unread[c] + 1 + lost[c] <= sent[c] + 1
  BY <1>2, <1>3, FrontendAssumption
<1>5. RunTypes' /\ CtxType' /\ PoolTypes' /\ HealthType' /\ HandlerTypes' /\ TriedTypes'
  BY <1>1
  DEF ProxyInv, RunTypes, CtxType, PoolTypes, HealthType, HandlerTypes, TriedTypes
<1>6. TryTypes' /\ OneAccepted' /\ OneSlips' /\ Ahead' /\ Thefts' /\ Blamed'
  BY <1>1
  DEF ProxyInv, TryTypes, OneAccepted, OneSlips, Ahead, Thefts, Blamed, IsAhead,
      Stolen
<1>7. ChunkTypes'
  BY <1>1, <1>2, <1>3, <1>4 DEF ProxyInv, ChunkTypes
<1> QED
  BY <1>5, <1>6, <1>7 DEF ProxyInv

\* A client ends its stream or resets the connection.
LEMMA HangStep ==
    ASSUME ProxyInv, NEW c \in Client, Hang(c)
    PROVE  ProxyInv'
<1>1. UNCHANGED <<run, ctxDone, nextIndex, healthy, alive, at, attempt, tried,
                   unread, sent, try, lost, faults>>
  BY DEF Hang, poolVars, handleVars, clientVars
<1>2. \E how \in {"eof", "reset"} : client' = [client EXCEPT ![c] = how]
  BY DEF Hang
<1>3. RunTypes' /\ CtxType' /\ PoolTypes' /\ HealthType' /\ TriedTypes' /\ ChunkTypes'
  BY <1>1
  DEF ProxyInv, RunTypes, CtxType, PoolTypes, HealthType, TriedTypes, ChunkTypes
<1>4. TryTypes' /\ OneAccepted' /\ OneSlips' /\ Ahead' /\ Thefts' /\ Blamed'
  BY <1>1
  DEF ProxyInv, TryTypes, OneAccepted, OneSlips, Ahead, Thefts, Blamed, IsAhead,
      Stolen
<1>5. HandlerTypes'
  BY <1>1, <1>2 DEF ProxyInv, HandlerTypes
<1> QED
  BY <1>3, <1>4, <1>5 DEF ProxyInv

\* A backend stops listening.
LEMMA DieStep ==
    ASSUME ProxyInv, NEW b \in Backend, Die(b)
    PROVE  ProxyInv'
<1>1. UNCHANGED <<run, ctxDone, nextIndex, healthy, at, attempt, tried, client,
                   unread, sent, try, lost>>
  BY DEF Die, poolVars, handleVars, clientVars
<1>2. alive' = alive \ {b} /\ faults' = faults + 1 /\ faults < MaxFaults
  BY DEF Die
<1>3. RunTypes' /\ CtxType' /\ HealthType' /\ HandlerTypes' /\ TriedTypes' /\ ChunkTypes'
  BY <1>1
  DEF ProxyInv, RunTypes, CtxType, HealthType, HandlerTypes, TriedTypes, ChunkTypes
<1>4. TryTypes' /\ OneAccepted' /\ OneSlips' /\ Ahead' /\ Thefts' /\ Blamed'
  BY <1>1
  DEF ProxyInv, TryTypes, OneAccepted, OneSlips, Ahead, Thefts, Blamed, IsAhead,
      Stolen
<1>5. PoolTypes'
  BY <1>1, <1>2, FrontendAssumption DEF ProxyInv, PoolTypes
<1> QED
  BY <1>3, <1>4, <1>5 DEF ProxyInv

\* The initial states satisfy the invariant.
LEMMA ProxyInit ==
    ASSUME Init
    PROVE  ProxyInv
<1>1. 0 \in 0 .. Modulus - 1 /\ 0 \in 0 .. MaxFaults /\ 0 \in 0 .. MaxChunks /\ 1 \in Attempt
  BY ModulusAssumption, FrontendAssumption DEF Attempt
<1>2. RunTypes /\ CtxType /\ PoolTypes /\ HealthType
  BY <1>1 DEF Init, RunTypes, CtxType, PoolTypes, HealthType
<1>3. HandlerTypes /\ TriedTypes
  BY <1>1 DEF Init, HandlerTypes, TriedTypes
<1>4. ChunkTypes
  BY <1>1 DEF Init, ChunkTypes
<1>5. TryTypes
  <2>1. ASSUME NEW c \in Client, NEW a \in Attempt
        PROVE  try[c][a] \in Try /\ Len(try[c][a].errs) <= Capacity
    BY FrontendAssumption DEF Init, Try, Copier
  <2>2. try = [c \in Client |-> [a \in Attempt |-> try[c][a]]]
    BY DEF Init
  <2> QED
    BY <2>1, <2>2 DEF TryTypes
<1>6. OneAccepted /\ OneSlips /\ Ahead
  BY DEF Init, OneAccepted, OneSlips, Ahead
<1>7. Thefts
  <2>1. ASSUME NEW c \in Client
        PROVE  0 <= Cardinality(Stolen(c))
    BY AttemptFinite, FS_Subset, FS_CardinalityType DEF Stolen
  <2> QED
    BY <2>1 DEF Init, Thefts
<1>8. Blamed
  BY DEF Init, Blamed
<1> QED
  BY <1>2, <1>3, <1>4, <1>5, <1>6, <1>7, <1>8 DEF ProxyInv

\* A step of a client or of its handler keeps the invariant.
LEMMA ClientStep ==
    ASSUME ProxyInv, NEW c \in Client, Accept(c) \/ Handle(c) \/ Send(c) \/ Hang(c)
    PROVE  ProxyInv'
BY AcceptStep, SpawnStep, PickStep, ConnectStep, RefusedStep, TakeResultStep, TakeDoneStep,
   JudgeStep, SendStep, HangStep DEF Handle

\* A step of a copier or of a connection to a backend keeps the invariant.
LEMMA CopierStep ==
    ASSUME ProxyInv, NEW c \in Client, NEW a \in Attempt,
           Up(c, a) \/ Down(c, a) \/ EndSession(c, a) \/ BreakLink(c, a)
    PROVE  ProxyInv'
BY CopyUpStep, EndUpStep, ReportUpStep, CopyDownStep, EndDownStep, ReportDownStep,
   EndSessionStep, BreakLinkStep DEF Up, Down

\* When nothing changes, the invariant goes on holding.
LEMMA ProxyStutters ==
    ASSUME ProxyInv, UNCHANGED vars
    PROVE  ProxyInv'
<1>1. UNCHANGED <<run, ctxDone, nextIndex, healthy, alive, at, attempt, tried, client,
                  unread, sent, try, lost, faults>>
  BY DEF vars, poolVars, handleVars, clientVars
<1>2. (RunTypes /\ CtxType /\ PoolTypes /\ HealthType /\ HandlerTypes /\ TriedTypes)'
  BY <1>1 DEF ProxyInv, RunTypes, CtxType, PoolTypes, HealthType, HandlerTypes, TriedTypes
<1>3. (ChunkTypes /\ TryTypes /\ OneAccepted /\ OneSlips)'
  BY <1>1 DEF ProxyInv, ChunkTypes, TryTypes, OneAccepted, OneSlips
<1>4. (Ahead /\ Thefts /\ Blamed)'
  BY <1>1 DEF ProxyInv, Ahead, IsAhead, Thefts, Stolen, Blamed
<1> QED
  BY <1>2, <1>3, <1>4 DEF ProxyInv

\* Every step keeps the invariant.
LEMMA ProxyNext ==
    ASSUME ProxyInv, [Next]_vars
    PROVE  ProxyInv'
<1>1. CASE \E c \in Client : Accept(c) \/ Handle(c) \/ Send(c) \/ Hang(c)
  BY <1>1, ClientStep
<1>2. CASE \E c \in Client, a \in Attempt :
              Up(c, a) \/ Down(c, a) \/ EndSession(c, a) \/ BreakLink(c, a)
  BY <1>2, CopierStep
<1>3. CASE \E b \in Backend : Die(b)
  BY <1>3, DieStep
<1>4. CASE Cancel \/ CloseListener \/ WaitReturns \/ WaitTimesOut
  BY <1>4, CancelStep, CloseListenerStep, WaitReturnsStep, WaitTimesOutStep
<1>5. CASE Terminated \/ UNCHANGED vars
  BY <1>5, ProxyStutters DEF Terminated
<1> QED
  BY <1>1, <1>2, <1>3, <1>4, <1>5 DEF Next

\* The invariant holds in every reachable state.
THEOREM ProxyInvariant == Spec => []ProxyInv
BY ProxyInit, ProxyNext, PTL DEF Spec

-----------------------------------------------------------------------------
(* What follows from it.                                                   *)

\* The variables have their types, and no channel holds more than its capacity:
\* TypeOK of the drain run.
THEOREM ProxyTypes == Spec => []TypeOK
<1>1. ASSUME ProxyInv
      PROVE  TypeOK
  <2>1. run \in {"serve", "wait", "graceful", "timeout"}
    BY <1>1 DEF ProxyInv, RunTypes
  <2>2. ctxDone \in BOOLEAN
    BY <1>1 DEF ProxyInv, CtxType
  <2>3. nextIndex \in 0 .. Modulus - 1 /\ alive \subseteq Backend /\ faults \in 0 .. MaxFaults
    BY <1>1 DEF ProxyInv, PoolTypes
  <2>4. healthy \in [Backend -> BOOLEAN]
    BY <1>1 DEF ProxyInv, HealthType
  <2>5. /\ at \in [Client -> Handling \cup {"away", "accepted", "done"}]
        /\ attempt \in [Client -> Attempt] /\ tried \in [Client -> Seq(Backend)]
        /\ client \in [Client -> {"open", "eof", "reset", "spent", "closed"}]
    BY <1>1 DEF ProxyInv, HandlerTypes, TriedTypes
  <2>6. /\ unread \in [Client -> 0 .. MaxChunks] /\ sent \in [Client -> 0 .. MaxChunks]
        /\ lost \in [Client -> 0 .. MaxChunks]
    BY <1>1 DEF ProxyInv, ChunkTypes
  <2>7. /\ try \in [Client -> [Attempt -> Try]]
        /\ \A c \in Client, a \in Attempt : Len(try[c][a].errs) <= Capacity
    BY <1>1 DEF ProxyInv, TryTypes
  <2> QED
    BY <2>1, <2>2, <2>3, <2>4, <2>5, <2>6, <2>7 DEF TypeOK
<1> QED
  BY <1>1, ProxyInvariant, PTL

\* When Run says that all connections are closed, at most one is not.
THEOREM OneConnectionSlips == Spec => []AtMostOneSlips
<1>1. ASSUME ProxyInv, run = "graceful"
      PROVE  Cardinality({c \in Client : at[c] \notin {"away", "done"}}) <= 1
  <2> DEFINE S == {c \in Client : at[c] \notin {"away", "done"}}
  <2>1. \A c, d \in S : c = d
    BY <1>1 DEF ProxyInv, OneSlips
  <2> HIDE DEF S
  <2>2. CASE S = {}
    <3>1. Cardinality(S) = 0
      BY <2>2, FS_EmptySet
    <3> QED
      BY <3>1 DEF S
  <2>3. CASE S # {}
    <3>1. PICK c \in S : S = {c}
      BY <2>1, <2>3
    <3>2. Cardinality(S) = 1
      BY <3>1, FS_Singleton
    <3> QED
      BY <3>2 DEF S
  <2> QED
    BY <2>2, <2>3
<1>2. ProxyInv => AtMostOneSlips
  BY <1>1 DEF AtMostOneSlips
<1> QED
  BY <1>2, ProxyInvariant, PTL

\* However its attempts end, each abandoned one costs a client a chunk at most.
THEOREM TheftsAreBounded == Spec => []TheftIsBounded
<1>1. ASSUME ProxyInv, NEW c \in Client
      PROVE  lost[c] <= Cardinality({a \in Attempt : try[c][a].link = "closed"})
  <2> DEFINE S == {a \in Attempt : try[c][a].link = "closed"}
  <2>1. Stolen(c) \subseteq S /\ S \subseteq Attempt
    BY DEF Stolen
  <2>2. IsFiniteSet(S)
    BY <2>1, AttemptFinite, FS_Subset
  <2>3. /\ Cardinality(Stolen(c)) <= Cardinality(S) /\ Cardinality(S) \in Nat
        /\ Cardinality(Stolen(c)) \in Nat
    BY <2>1, <2>2, FS_Subset, FS_CardinalityType
  <2>4. lost[c] \in Nat /\ lost[c] <= Cardinality(Stolen(c))
    BY <1>1, FrontendAssumption DEF ProxyInv, ChunkTypes, Thefts
  <2> QED
    BY <2>3, <2>4
<1>2. ProxyInv => TheftIsBounded
  BY <1>1 DEF TheftIsBounded
<1> QED
  BY <1>2, ProxyInvariant, PTL

-----------------------------------------------------------------------------
(* The last retry.                                                         *)

\* The remainder of a number that is written as a multiple and a rest.
LEMMA ModPlus ==
    ASSUME NEW n \in Nat \ {0}, NEW q \in Nat, NEW r \in 0 .. n - 1
    PROVE  (q * n + r) % n = r
OBVIOUS

\* n numbers in a row have all remainders by n.
LEMMA AllRemainders ==
    ASSUME NEW n \in Nat \ {0}, NEW s \in Nat, NEW b \in 0 .. n - 1
    PROVE  \E i \in 0 .. n - 1 : (s + i) % n = b
<1>1. PICK q \in Nat, r \in 0 .. n - 1 : s = q * n + r
  <2>1. s \div n \in Nat /\ s % n \in 0 .. n - 1 /\ s = (s \div n) * n + (s % n)
    OBVIOUS
  <2> QED
    BY <2>1
<1>2. CASE r <= b
  <2>1. b - r \in 0 .. n - 1 /\ s + (b - r) = q * n + b
    BY <1>1, <1>2
  <2>2. (q * n + b) % n = b
    BY ModPlus
  <2> QED
    BY <2>1, <2>2
<1>3. CASE b < r
  <2>1. b + n - r \in 0 .. n - 1 /\ s + (b + n - r) = (q + 1) * n + b /\ q + 1 \in Nat
    BY <1>1, <1>3
  <2>2. ((q + 1) * n + b) % n = b
    BY <2>1, ModPlus
  <2> QED
    BY <2>1, <2>2
<1> QED
  BY <1>2, <1>3

\* A call none of whose additions wraps around, and that meets no healthy backend,
\* has met them all.
LEMMA NobodyIsUp ==
    ASSUME nextIndex \in 0 .. Modulus - 1, NoWrap(nextIndex, PoolLen), UpIndices = {},
           NEW b \in Backend
    PROVE  ~healthy[b]
<1>1. nextIndex \in Nat /\ PoolLen \in Nat \ {0} /\ Modulus \in Nat \ {0} /\ b \in 0 .. PoolLen - 1
  BY ModulusAssumption, FrontendAssumption DEF Backend
<1>2. PICK i \in 0 .. PoolLen - 1 : (nextIndex + i) % PoolLen = b
  BY <1>1, AllRemainders
<1>3. nextIndex + i \in 0 .. Modulus - 1
  BY <1>1 DEF NoWrap
<1>4. (nextIndex + i) % Modulus = nextIndex + i
  BY <1>1, <1>3
<1>5. Index(nextIndex, i, PoolLen) = b
  BY <1>2, <1>4 DEF Index
<1>6. Marked(i)
  BY DEF UpIndices
<1> QED
  BY <1>5, <1>6 DEF Marked

\* The call for the last retry repeats the backend of the one before, which is
\* marked, only when it finds none that is not.
LEMMA LastPick ==
    ASSUME ProxyInv, NEW c \in Client, Pick(c), Repeats(c)', NoWrap(nextIndex, PoolLen)
    PROVE  \A b \in Backend : ~healthy[b]
<1>1. /\ at[c] = "pick" /\ attempt' = attempt
      /\ tried' = [tried EXCEPT ![c] = Append(tried[c], NextBackend)]
  BY DEF Pick
<1>2. attempt[c] = MaxRetries /\ MaxRetries > 2 /\ MaxRetries \in Nat
  BY <1>1, FrontendAssumption DEF Repeats
<1>3. tried[c] \in Seq(Backend) /\ Len(tried[c]) = MaxRetries - 1
  BY <1>1, <1>2 DEF ProxyInv, TriedTypes
<1>4. /\ tried'[c][MaxRetries] = NextBackend
      /\ tried'[c][MaxRetries - 1] = tried[c][MaxRetries - 1]
  <2>1. tried'[c] = Append(tried[c], NextBackend)
    BY <1>1 DEF ProxyInv, TriedTypes
  <2> QED
    BY <1>2, <1>3, <2>1
<1>5. ~healthy[NextBackend]
  BY <1>2, <1>4 DEF ProxyInv, Blamed, Repeats
<1>6. nextIndex \in 0 .. Modulus - 1 /\ healthy \in [Backend -> BOOLEAN]
  BY DEF ProxyInv, PoolTypes, HealthType
<1>7. UpIndices = {}
  BY <1>5, <1>6, NextBackendType
<1> QED
  BY <1>6, <1>7, NobodyIsUp

\* The last retry goes to another backend than the one before as long as one is
\* healthy, for every length of the pool and width of the counter, unless the counter
\* wraps around in the middle of the call.
THEOREM RetriesElsewhere == Spec => RetryElsewhere
<1>1. ASSUME ProxyInv, NEW c \in Client, Pick(c), Repeats(c)', NoWrap(nextIndex, PoolLen)
      PROVE  \A b \in Backend : ~healthy[b]
  BY <1>1, LastPick
<1>2. ProxyInv /\ [Next]_vars
        => [\A c \in Client : (Pick(c) /\ Repeats(c)' /\ NoWrap(nextIndex, PoolLen))
               => \A b \in Backend : ~healthy[b]]_vars
  BY <1>1
<1> QED
  BY <1>2, ProxyInvariant, PTL DEF Spec, RetryElsewhere
=============================================================================
