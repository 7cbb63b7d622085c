-------------------------- MODULE WarpEngineProofs --------------------------
(***************************************************************************)
(* Proofs about WarpEngine, for any set of endpoints.                      *)
(***************************************************************************)
EXTENDS WarpEngine, TLAPS

Flags == provided \in BOOLEAN /\ ctxDone \in BOOLEAN /\ childDone \in BOOLEAN

PlaceTypes ==
    /\ pc \in {"primary", "scan", "loop", "identity", "create", "proxy", "wait", "ended"}
    /\ result \in {"none", "ok", "error", "cancelled", "no endpoint"}
    /\ ws \in {"none", "starting", "serving", "failed", "closed"}

EndpointTypes ==
    /\ cached \subseteq Endpoint /\ failed \subseteq Endpoint
    /\ given \in Seq(Endpoint)
    /\ endpoints \in Seq(Endpoint) /\ Len(endpoints) <= 2

\* An attempt has an endpoint, and so has the loop when the user gave one: it
\* does not come back there after a failure.
HasCurrent == (pc \in {"identity", "create"} \/ (provided /\ pc = "loop")) => endpoints # <<>>

\* What Run was given has failed or is still to be tried.
NoneSkipped ==
    \A i \in DOMAIN given : \/ given[i] \in failed
                            \/ \E j \in DOMAIN endpoints : endpoints[j] = given[i]

\* Run gives up last of all, with nothing left anywhere.
GaveUp == result = "no endpoint" => pc = "ended" /\ cached = {} /\ endpoints = <<>>

EngineInv == Flags /\ PlaceTypes /\ EndpointTypes /\ HasCurrent /\ NoneSkipped /\ GaveUp

-----------------------------------------------------------------------------
\* One or two endpoints are a sequence of endpoints.
LEMMA ListTypes ==
    /\ <<>> \in Seq(Endpoint) /\ Len(<<>>) <= 2
    /\ \A s \in Singles \cup Pairs :
          s \in Seq(Endpoint) /\ Len(s) <= 2 /\ s # <<>>
<1>1. ASSUME NEW e \in Endpoint
      PROVE  <<e>> \in Seq(Endpoint) /\ Len(<<e>>) <= 2 /\ <<e>> # <<>>
  OBVIOUS
<1>2. ASSUME NEW s \in Endpoint \X Endpoint
      PROVE  s \in Seq(Endpoint) /\ Len(s) <= 2 /\ s # <<>>
  <2>1. PICK a \in Endpoint, b \in Endpoint : s = <<a, b>>
    BY <1>2
  <2> QED
    BY <2>1
<1> QED
  BY <1>1, <1>2 DEF Singles, Pairs

\* The initial states satisfy the invariant.
LEMMA EngineInit ==
    ASSUME Init
    PROVE  EngineInv
<1>1. \/ provided = TRUE /\ endpoints \in Singles \cup Pairs /\ pc \in {"loop", "primary"}
      \/ provided = FALSE /\ endpoints \in Singles \cup Pairs /\ pc = "loop"
      \/ provided = FALSE /\ endpoints = <<>> /\ pc = "primary"
  BY DEF Init, Singles
<1>2. /\ cached \subseteq Endpoint /\ given = endpoints /\ result = "none" /\ ws = "none"
      /\ failed = {} /\ ctxDone = FALSE /\ childDone = TRUE
  BY DEF Init
<1>3. Flags
  BY <1>1, <1>2 DEF Flags
<1>4. PlaceTypes
  BY <1>1, <1>2 DEF PlaceTypes
<1>5. EndpointTypes
  BY <1>1, <1>2, ListTypes DEF EndpointTypes
<1>6. HasCurrent
  BY <1>1, ListTypes DEF HasCurrent
<1>7. NoneSkipped /\ GaveUp
  BY <1>2 DEF NoneSkipped, GaveUp
<1> QED
  BY <1>3, <1>4, <1>5, <1>6, <1>7 DEF EngineInv

\* A scan ends with two endpoints to try, or with an error.
LEMMA ScanStep ==
    ASSUME EngineInv, Scan
    PROVE  EngineInv'
<1>1. pc = "scan" /\ UNCHANGED <<provided, ctxDone, childDone, ws, failed>>
  BY DEF Scan
<1>2. PICK pinged \in SUBSET Endpoint :
          /\ cached' = cached \cup pinged
          /\ \/ /\ \E s \in Found(pinged) : endpoints' = s /\ given' = s
                /\ pc' = "loop" /\ result' = result
             \/ /\ pc' = "ended" /\ result' = "error"
                /\ endpoints' = endpoints /\ given' = given
  BY DEF Scan, Return
<1>3. result # "no endpoint"
  BY <1>1 DEF EngineInv, GaveUp
<1>4. Flags'
  BY <1>1 DEF EngineInv, Flags
<1>5. PlaceTypes'
  BY <1>1, <1>2 DEF EngineInv, PlaceTypes
<1>6. CASE \E s \in Found(pinged) : endpoints' = s /\ given' = s
  <2>1. endpoints' \in Pairs /\ given' = endpoints'
    BY <1>6 DEF Found, Pairs
  <2>2. endpoints' \in Seq(Endpoint) /\ Len(endpoints') <= 2 /\ endpoints' # <<>>
    BY <2>1, ListTypes
  <2>3. EndpointTypes' /\ HasCurrent' /\ NoneSkipped'
    BY <1>1, <1>2, <2>1, <2>2 DEF EngineInv, EndpointTypes, HasCurrent, NoneSkipped
  <2>4. GaveUp'
    BY <1>2, <1>3 DEF GaveUp
  <2> QED
    BY <1>4, <1>5, <2>3, <2>4 DEF EngineInv
<1>7. CASE pc' = "ended" /\ result' = "error" /\ endpoints' = endpoints /\ given' = given
  <2>1. EndpointTypes' /\ HasCurrent' /\ NoneSkipped' /\ GaveUp'
    BY <1>1, <1>2, <1>7 DEF EngineInv, EndpointTypes, HasCurrent, NoneSkipped, GaveUp
  <2> QED
    BY <1>4, <1>5, <2>1 DEF EngineInv
<1> QED
  BY <1>2, <1>6, <1>7

\* A turn of the loop takes an endpoint of the cache when it has none left.
LEMMA ChooseStep ==
    ASSUME EngineInv, Choose
    PROVE  EngineInv'
<1>1. /\ pc = "loop"
      /\ UNCHANGED <<provided, cached, ctxDone, childDone, ws, given, failed>>
  BY DEF Choose
<1>2. \/ pc' = "ended" /\ result' = "cancelled" /\ endpoints' = endpoints
      \/ /\ endpoints = <<>> /\ pc' = "identity" /\ result' = result
         /\ \E e \in cached : endpoints' = <<e>>
      \/ /\ endpoints = <<>> /\ (provided \/ cached = {})
         /\ pc' = "ended" /\ result' = "no endpoint" /\ endpoints' = endpoints
      \/ /\ endpoints # <<>> /\ pc' = "identity" /\ result' = result /\ endpoints' = endpoints
  BY DEF Choose, Return
<1>3. result # "no endpoint"
  BY <1>1 DEF EngineInv, GaveUp
<1>4. Flags'
  BY <1>1 DEF EngineInv, Flags
<1>5. PlaceTypes'
  BY <1>1, <1>2 DEF EngineInv, PlaceTypes
<1>6. EndpointTypes'
  <2>1. \A e \in cached : <<e>> \in Seq(Endpoint) /\ Len(<<e>>) <= 2
    BY DEF EngineInv, EndpointTypes
  <2> QED
    BY <1>1, <1>2, <2>1 DEF EngineInv, EndpointTypes
<1>7. HasCurrent'
  <2>1. \A e : <<e>> # <<>>
    OBVIOUS
  <2> QED
    BY <1>1, <1>2, <2>1 DEF EngineInv, HasCurrent
<1>8. NoneSkipped'
  <2>1. CASE endpoints = <<>>
    <3>1. \A i \in DOMAIN given : given[i] \in failed
      BY <2>1 DEF EngineInv, NoneSkipped
    <3> QED
      BY <1>1, <3>1 DEF NoneSkipped
  <2>2. CASE endpoints' = endpoints
    BY <1>1, <2>2 DEF EngineInv, NoneSkipped
  <2> QED
    BY <1>2, <2>1, <2>2
<1>9. GaveUp'
  BY <1>1, <1>2, <1>3 DEF EngineInv, HasCurrent, GaveUp
<1> QED
  BY <1>4, <1>5, <1>6, <1>7, <1>8, <1>9 DEF EngineInv

\* runWarp fails with the endpoint in front, which is dropped.
LEMMA FailedStep ==
    ASSUME EngineInv, pc \in {"identity", "create"}, Failed,
           UNCHANGED <<provided, cached, ctxDone, childDone, ws, given>>
    PROVE  EngineInv'
<1>1. endpoints # <<>> /\ endpoints \in Seq(Endpoint) /\ Len(endpoints) <= 2
  BY DEF EngineInv, HasCurrent, EndpointTypes
<1>2. PICK e \in Endpoint : e = Head(endpoints) /\ e = endpoints[1]
  BY <1>1
<1>3. /\ failed' = failed \cup {e} /\ endpoints' = Tail(endpoints)
      /\ \/ provided /\ pc' = "ended" /\ result' = "error"
         \/ ~provided /\ pc' = "loop" /\ result' = result
  BY <1>2 DEF Failed, Rest, Return
<1>4. /\ endpoints' \in Seq(Endpoint) /\ Len(endpoints') <= 2
      /\ \A j \in DOMAIN endpoints : j # 1 => /\ j - 1 \in DOMAIN endpoints'
                                              /\ endpoints'[j - 1] = endpoints[j]
  BY <1>1, <1>3
<1>5. result # "no endpoint"
  BY DEF EngineInv, GaveUp
<1>6. Flags'
  BY DEF EngineInv, Flags
<1>7. PlaceTypes'
  BY <1>3 DEF EngineInv, PlaceTypes
<1>8. EndpointTypes'
  BY <1>3, <1>4 DEF EngineInv, EndpointTypes
<1>9. HasCurrent' /\ GaveUp'
  BY <1>3, <1>5 DEF HasCurrent, GaveUp
<1>10. NoneSkipped'
  <2> SUFFICES ASSUME NEW i \in DOMAIN given
               PROVE  \/ given[i] \in failed'
                      \/ \E j \in DOMAIN endpoints' : endpoints'[j] = given[i]
    BY DEF NoneSkipped
  <2>1. CASE given[i] \in failed
    BY <1>3, <2>1
  <2>2. CASE \E j \in DOMAIN endpoints : endpoints[j] = given[i]
    <3>1. PICK j \in DOMAIN endpoints : endpoints[j] = given[i]
      BY <2>2
    <3>2. CASE j = 1
      BY <1>2, <1>3, <3>1, <3>2
    <3>3. CASE j # 1
      BY <1>4, <3>1, <3>3
    <3> QED
      BY <3>2, <3>3
  <2> QED
    BY <2>1, <2>2 DEF EngineInv, NoneSkipped
<1> QED
  BY <1>6, <1>7, <1>8, <1>9, <1>10 DEF EngineInv

\* What leaves the lists of endpoints alone and Run where it is, or takes it on to
\* a place where it has an endpoint or needs none.
LEMMA PlainStep ==
    ASSUME EngineInv, UNCHANGED <<provided, cached, endpoints, given, failed>>,
           Flags', PlaceTypes',
           \/ pc' = pc
           \/ <<pc, pc'>> \in {<<"primary", "scan">>, <<"identity", "create">>}
           \/ pc' \in {"proxy", "wait", "ended"},
           result' = "no endpoint" => result = "no endpoint" /\ pc' = pc
    PROVE  EngineInv'
BY DEF EngineInv, EndpointTypes, HasCurrent, NoneSkipped, GaveUp

\* Before a scan Run gets its identity, or returns.
LEMMA PrimaryStep ==
    ASSUME EngineInv, LoadPrimary
    PROVE  EngineInv'
<1>1. /\ pc = "primary" /\ ws' = ws
      /\ \/ pc' = "scan" /\ result' = result
         \/ pc' = "ended" /\ result' = "error"
      /\ UNCHANGED <<provided, cached, endpoints, ctxDone, childDone, given, failed>>
  BY DEF LoadPrimary, Return
<1>2. Flags'
  BY <1>1 DEF EngineInv, Flags
<1>3. PlaceTypes' /\ result # "no endpoint"
  BY <1>1 DEF EngineInv, PlaceTypes, GaveUp
<1> QED
  BY <1>1, <1>2, <1>3, PlainStep

\* The steps that fail or take Run on.
LEMMA AttemptStep ==
    ASSUME EngineInv, LoadIdentity \/ StartProxy
    PROVE  EngineInv'
<1>1. CASE Failed /\ UNCHANGED <<childDone, ws>>
  <2>1. pc \in {"identity", "create"}
        /\ UNCHANGED <<provided, cached, ctxDone, childDone, ws, given>>
    BY <1>1 DEF LoadIdentity, StartProxy
  <2> QED
    BY <1>1, <2>1, FailedStep
<1>2. CASE /\ pc = "identity" /\ pc' = "create"
           /\ UNCHANGED <<provided, cached, endpoints, result, ctxDone, childDone, ws, given,
                          failed>>
  <2>1. Flags'
    BY <1>2 DEF EngineInv, Flags
  <2>2. PlaceTypes' /\ result # "no endpoint"
    BY <1>2 DEF EngineInv, PlaceTypes, GaveUp
  <2> QED
    BY <1>2, <2>1, <2>2, PlainStep
<1>3. CASE /\ pc = "create" /\ pc' = "proxy" /\ childDone' = FALSE /\ ws' = "starting"
           /\ UNCHANGED <<provided, cached, endpoints, result, ctxDone, given, failed>>
  <2>1. Flags'
    BY <1>3 DEF EngineInv, Flags
  <2>2. PlaceTypes' /\ result # "no endpoint"
    BY <1>3 DEF EngineInv, PlaceTypes, GaveUp
  <2> QED
    BY <1>3, <2>1, <2>2, PlainStep
<1> QED
  BY <1>1, <1>2, <1>3 DEF LoadIdentity, StartProxy

\* Run waits for the proxy to end, and returns.
LEMMA WaitStep ==
    ASSUME EngineInv, ProxyReturns \/ WaitReturns
    PROVE  EngineInv'
<1>1. /\ pc \in {"proxy", "wait"} /\ pc' \in {"wait", "ended"} /\ ws' = ws
      /\ result' = result \/ result' = "ok"
      /\ UNCHANGED <<provided, cached, endpoints, ctxDone, given, failed>>
  BY DEF ProxyReturns, WaitReturns, Return
<1>2. Flags'
  BY DEF ProxyReturns, WaitReturns, EngineInv, Flags
<1>3. PlaceTypes' /\ result # "no endpoint"
  BY <1>1 DEF EngineInv, PlaceTypes, GaveUp
<1> QED
  BY <1>1, <1>2, <1>3, PlainStep

\* What the instance's goroutine does, and Stop.
LEMMA InstanceStep ==
    ASSUME EngineInv, WsServes \/ WsFails \/ WsCloses \/ Stop \/ UNCHANGED vars
    PROVE  EngineInv'
<1>1. /\ ws' \in {ws, "serving", "failed", "closed"}
      /\ UNCHANGED <<provided, cached, endpoints, pc, result, given, failed>>
  BY DEF WsServes, WsFails, WsCloses, Stop, vars
<1>2. Flags'
  BY DEF WsServes, WsFails, WsCloses, Stop, vars, EngineInv, Flags
<1>3. PlaceTypes'
  BY <1>1 DEF EngineInv, PlaceTypes
<1> QED
  BY <1>1, <1>2, <1>3, PlainStep

\* Every step keeps the invariant.
LEMMA EngineNext ==
    ASSUME EngineInv, [Next]_vars
    PROVE  EngineInv'
<1>1. CASE Run
  BY <1>1, PrimaryStep, ScanStep, ChooseStep, AttemptStep, WaitStep
  DEF Run, GetsIdentity, Proceeds
<1>2. CASE WsServes \/ WsFails \/ WsCloses \/ Stop \/ Terminated \/ UNCHANGED vars
  BY <1>2, InstanceStep DEF Terminated
<1> QED
  BY <1>1, <1>2 DEF Next

\* The invariant holds in every reachable state.
THEOREM EngineInvariant == Spec => []EngineInv
BY EngineInit, EngineNext, PTL DEF Spec

\* The variables have their types: TypeOK of the engine run.
THEOREM EngineTypes == Spec => []TypeOK
<1>1. ASSUME EngineInv
      PROVE  TypeOK
  <2>1. provided \in BOOLEAN /\ ctxDone \in BOOLEAN /\ childDone \in BOOLEAN
    BY <1>1 DEF EngineInv, Flags
  <2>2. /\ pc \in {"primary", "scan", "loop", "identity", "create", "proxy", "wait", "ended"}
        /\ result \in {"none", "ok", "error", "cancelled", "no endpoint"}
        /\ ws \in {"none", "starting", "serving", "failed", "closed"}
    BY <1>1 DEF EngineInv, PlaceTypes
  <2>3. /\ cached \subseteq Endpoint /\ failed \subseteq Endpoint /\ given \in Seq(Endpoint)
        /\ endpoints \in Seq(Endpoint) /\ Len(endpoints) <= 2
    BY <1>1 DEF EngineInv, EndpointTypes
  <2> QED
    BY <2>1, <2>2, <2>3 DEF TypeOK
<1> QED
  BY <1>1, EngineInvariant, PTL

\* Run gives up for want of an endpoint only when each one it was given has failed
\* and the cache has none.
THEOREM EngineGivesUpLate == Spec => []GivesUpLate
<1>1. ASSUME EngineInv, result = "no endpoint"
      PROVE  cached = {} /\ \A i \in DOMAIN given : given[i] \in failed
  <2>1. cached = {} /\ endpoints = <<>>
    BY <1>1 DEF EngineInv, GaveUp
  <2>2. DOMAIN endpoints = {}
    BY <2>1
  <2> QED
    BY <1>1, <2>1, <2>2 DEF EngineInv, NoneSkipped
<1>2. EngineInv => GivesUpLate
  BY <1>1 DEF GivesUpLate
<1> QED
  BY <1>2, EngineInvariant, PTL
=============================================================================
