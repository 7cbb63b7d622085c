---------------------------- MODULE ScanPromise ----------------------------
(***************************************************************************)
(* What a scan promises to core.Engine.Run (getScannerEndpoints): endpoints *)
(* answer one by one and go to the endpoint cache, and the scan ends once, *)
(* with an error or with two of those that answered.  WarpEngine takes this *)
(* as one step; Scanner implements it.                                     *)
(***************************************************************************)
EXTENDS ScanResult

CONSTANT Endpoint   \* endpoint addresses

VARIABLES status,   \* running, found or failed
          pinged,   \* the endpoints that have answered fast enough
          cached,   \* the endpoints in the cache
          found     \* the endpoints the scan returned

vars == <<status, pinged, cached, found>>

Init == /\ status = "running" /\ pinged = {} /\ found = <<>>
        /\ cached \in SUBSET Endpoint

\* Answers are cached before they count, and keep coming in when the scan is
\* over.
Answer == /\ pinged' \in SUBSET Endpoint /\ pinged \subseteq pinged'
          /\ cached' \in SUBSET Endpoint /\ cached \subseteq cached'
          /\ pinged' \subseteq cached'
          /\ UNCHANGED <<status, found>>

Succeed == /\ status = "running"
           /\ status' = "found"
           /\ found' \in Found(pinged)
           /\ UNCHANGED <<pinged, cached>>

Fail == /\ status = "running"
        /\ status' = "failed"
        /\ UNCHANGED <<pinged, cached, found>>

Next == Answer \/ Succeed \/ Fail

Spec == Init /\ [][Next]_vars
=============================================================================
