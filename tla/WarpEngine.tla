----------------------------- MODULE WarpEngine -----------------------------
(***************************************************************************)
(* The engine of the run command (core/engine.go): Run takes endpoints     *)
(* from the user, from a scan or from the cache, tries them in order, and  *)
(* stays with the first one whose proxy could be started.  The proxy is a  *)
(* wiresocks instance with a goroutine of its own, which cancels a context *)
(* private to the attempt when the instance fails.                         *)
(***************************************************************************)
EXTENDS Integers, Sequences, FiniteSets, ScanResult

CONSTANT Endpoint   \* endpoint addresses

ASSUME EngineAssumption == Cardinality(Endpoint) >= 2

VARIABLES provided,   \* Config.UserProvidedEndpoint
          cached,     \* the addresses the endpoint cache hands out
          endpoints,  \* the endpoints Run has still to try, the current one first
          pc,         \* where Run is
          result,     \* what it returned
          ctxDone,    \* the engine's context is cancelled
          childDone,  \* the context of the current attempt is cancelled
          ws,         \* the wiresocks instance of the current attempt
          given,      \* history: the endpoints Run started with
          failed      \* history: the endpoints runWarp has failed with

vars == <<provided, cached, endpoints, pc, result, ctxDone, childDone, ws, given, failed>>

\* One after the other, two different endpoints.
Pairs == {s \in Endpoint \X Endpoint : s[1] # s[2]}
Singles == {<<e>> : e \in Endpoint}

\* The run command: endpoints of the user, one of the cache, two of the default
\* host when the cache is empty, or none and a scan.
Init ==
    /\ cached \in SUBSET Endpoint
    /\ \/ provided = TRUE  /\ endpoints \in Singles \cup Pairs /\ pc \in {"loop", "primary"}
       \/ provided = FALSE /\ endpoints \in {<<e>> : e \in cached} /\ pc = "loop"
       \/ provided = FALSE /\ cached = {} /\ endpoints \in Pairs /\ pc = "loop"
       \/ provided = FALSE /\ endpoints = <<>> /\ pc = "primary"
    /\ given = endpoints
    /\ result = "none" /\ ctxDone = FALSE /\ childDone = TRUE /\ ws = "none"
    /\ failed = {}

-----------------------------------------------------------------------------
Return(r) == pc' = "ended" /\ result' = r

\* getScannerEndpoints loads or creates the identity the scan pings with.
LoadPrimary ==
    /\ pc = "primary"
    /\ \/ pc' = "scan" /\ UNCHANGED result
       \/ Return("error")
    /\ UNCHANGED <<provided, cached, endpoints, ctxDone, childDone, ws, given, failed>>

\* Its scan: the two endpoints found replace all others, and what is
\* pinged on the way or answers late is in the cache, which the scanner shares.
\* Scanner models the scan itself.
Scan ==
    /\ pc = "scan"
    /\ \E pinged \in SUBSET Endpoint :
          /\ cached' = cached \cup pinged
          /\ \/ /\ \E s \in Found(pinged) : endpoints' = s /\ given' = s
                /\ pc' = "loop" /\ UNCHANGED result
             \/ Return("error") /\ UNCHANGED <<endpoints, given>>
    /\ UNCHANGED <<provided, ctxDone, childDone, ws, failed>>

\* One turn of Run's loop up to the call of runWarp.
Choose ==
    /\ pc = "loop"
    /\ IF ctxDone
       THEN Return("cancelled") /\ UNCHANGED endpoints
       ELSE \/ /\ endpoints = <<>> /\ ~provided
               /\ \E e \in cached : endpoints' = <<e>>
               /\ pc' = "identity" /\ UNCHANGED result
            \/ /\ endpoints = <<>> /\ (provided \/ cached = {})
               /\ Return("no endpoint") /\ UNCHANGED endpoints
            \/ /\ endpoints # <<>>
               /\ pc' = "identity" /\ UNCHANGED <<endpoints, result>>
    /\ UNCHANGED <<provided, cached, ctxDone, childDone, ws, given, failed>>

\* Mutant: all endpoints are dropped.
RestNone == <<>>

\* endpoints[1:]
Rest == Tail(endpoints)

\* runWarp returns an error: the endpoint is dropped from Run's own list.
Failed ==
    /\ failed' = failed \cup {Head(endpoints)}
    /\ endpoints' = Rest
    /\ IF provided THEN Return("error") ELSE pc' = "loop" /\ UNCHANGED result

\* runWarp loads or creates the identity of the proxy.
LoadIdentity ==
    /\ pc = "identity"
    /\ \/ pc' = "create" /\ UNCHANGED <<endpoints, failed, result>>
       \/ Failed
    /\ UNCHANGED <<provided, cached, ctxDone, childDone, ws, given>>

\* startProxy up to its wait: NewWireSocks, and the goroutine of ws.Run.
StartProxy ==
    /\ pc = "create"
    /\ \/ /\ pc' = "proxy" /\ childDone' = FALSE /\ ws' = "starting"
          /\ UNCHANGED <<endpoints, failed, result>>
       \/ Failed /\ UNCHANGED <<childDone, ws>>
    /\ UNCHANGED <<provided, cached, ctxDone, given>>

\* Mutant: it is a context of its own.
DoneAlone == childDone

\* The context of the attempt is a child of the engine's.
Done == childDone \/ ctxDone

\* startProxy returns nil, whatever ended the context.
ProxyReturns ==
    /\ pc = "proxy" /\ Done
    /\ childDone' = TRUE
    /\ pc' = "wait"
    /\ UNCHANGED <<provided, cached, endpoints, result, ctxDone, ws, given, failed>>

WaitReturns ==
    /\ pc = "wait" /\ ctxDone
    /\ Return("ok")
    /\ UNCHANGED <<provided, cached, endpoints, ctxDone, childDone, ws, given, failed>>

-----------------------------------------------------------------------------
(* The goroutine of ws.Run.                                                *)

WsServes ==
    /\ ws = "starting"
    /\ ws' = "serving"
    /\ UNCHANGED <<provided, cached, endpoints, pc, result, ctxDone, childDone, given,
                   failed>>

\* It returns an error: the context of the attempt is cancelled.
WsFails ==
    /\ ws \in {"starting", "serving"}
    /\ ws' = "failed"
    /\ childDone' = TRUE
    /\ UNCHANGED <<provided, cached, endpoints, pc, result, ctxDone, given, failed>>

WsCloses ==
    /\ ws \in {"starting", "serving"} /\ Done
    /\ ws' = "closed"
    /\ UNCHANGED <<provided, cached, endpoints, pc, result, ctxDone, childDone, given,
                   failed>>

Stop ==
    /\ ~ctxDone
    /\ ctxDone' = TRUE
    /\ UNCHANGED <<provided, cached, endpoints, pc, result, childDone, ws, given, failed>>

-----------------------------------------------------------------------------
Terminated == pc = "ended" /\ UNCHANGED vars

\* The calls of Run that get it an identity, and the rest of it.
GetsIdentity == LoadPrimary \/ LoadIdentity
Proceeds == Scan \/ Choose \/ StartProxy \/ ProxyReturns \/ WaitReturns

Run == GetsIdentity \/ Proceeds

Next == Run \/ WsServes \/ WsFails \/ WsCloses \/ Stop \/ Terminated

Spec == Init /\ [][Next]_vars

\* Run is scheduled, a scan returns when its context is done, and so does an
\* instance.  Nothing is assumed of the calls for an identity: they take no context,
\* and their requests have no timeout.
FairSpec == Spec /\ WF_vars(Proceeds) /\ WF_vars(WsCloses)

-----------------------------------------------------------------------------
\* The variables have their types.
TypeOK ==
    /\ provided \in BOOLEAN /\ cached \subseteq Endpoint
    /\ endpoints \in Seq(Endpoint) /\ Len(endpoints) <= 2
    /\ pc \in {"primary", "scan", "loop", "identity", "create", "proxy", "wait", "ended"}
    /\ result \in {"none", "ok", "error", "cancelled", "no endpoint"}
    /\ ctxDone \in BOOLEAN /\ childDone \in BOOLEAN
    /\ ws \in {"none", "starting", "serving", "failed", "closed"}
    /\ given \in Seq(Endpoint)
    /\ failed \subseteq Endpoint

\* Run gives up for want of an endpoint only after each of those it was given
\* has failed, and the cache has none.
GivesUpLate ==
    result = "no endpoint" => /\ cached = {}
                              /\ \A i \in DOMAIN given : given[i] \in failed

\* Once the engine is stopped no proxy is left and Run returns, wherever it was:
\* scanning, between two endpoints, starting a proxy or serving, except that it may
\* stay in a call that gets it an identity.  This leads there from every later state
\* too: when such a call comes back after all, Run goes on to return.
StopReturns ==
    ctxDone ~> (pc \in {"ended", "primary", "identity"} /\ ws \notin {"starting", "serving"})
=============================================================================
