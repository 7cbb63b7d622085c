----------------------------- MODULE PingPromise -----------------------------
(***************************************************************************)
(* What a ping of an address promises to the scanner's engine: it tries    *)
(* every port, and returns only when all of them are settled, with nothing *)
(* left behind; the result is a port that has answered, and an error only  *)
(* when none has.                                                          *)
(***************************************************************************)
CONSTANT Port

VARIABLES pending,   \* ports whose handshake is not settled
          answered,  \* ports that have completed it
          status,    \* pinging, answered or failed
          answer     \* the port that is returned, if any, as a set

promiseVars == <<pending, answered, status, answer>>

Init == pending = Port /\ answered = {} /\ status = "pinging" /\ answer = {}

Settle(p) ==
    /\ p \in pending
    /\ pending' = pending \ {p}
    /\ answered' \in {answered, answered \cup {p}}
    /\ UNCHANGED <<status, answer>>

Succeed(p) ==
    /\ pending = {} /\ status = "pinging"
    /\ p \in answered
    /\ status' = "answered" /\ answer' = {p}
    /\ UNCHANGED <<pending, answered>>

Fail ==
    /\ pending = {} /\ status = "pinging"
    /\ answered = {}
    /\ status' = "failed"
    /\ UNCHANGED <<pending, answered, answer>>

Next == Fail \/ \E p \in Port : Settle(p) \/ Succeed(p)

Spec == Init /\ [][Next]_promiseVars
=============================================================================
