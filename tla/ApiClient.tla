----------------------------- MODULE ApiClient -----------------------------
(***************************************************************************)
(* The client of the WARP API: WarpAPI.request (cloudflare/api.go) over    *)
(* an http.Client that gets its connections from Dialer.TLSDial            *)
(* (cloudflare/network/tls.go).  A process makes its requests one after    *)
(* another, over one WarpAPI or over several.                              *)
(*                                                                         *)
(* TLSDial tries three kinds of handshake in three rounds, each up to      *)
(* three times, drops the error of the last and returns the connection it  *)
(* has, or nil.  In between is net/http: it keeps a connection for the     *)
(* next request of the same client, and turns a nil connection into an     *)
(* error.                                                                  *)
(***************************************************************************)
EXTENDS Integers

CONSTANTS Rounds,    \* kinds of handshake
          Attempts   \* dials of each

ASSUME ClientAssumption == Rounds \in Nat \ {0} /\ Attempts \in Nat \ {0}

VARIABLES
    call,      \* where the request is; quiet: there is none
    link,      \* the connection of the client: none, plain or secure
    dials,     \* the dials of this TLSDial that failed
    open,      \* connections the process has open
    clients    \* the clients it has made

apiVars == <<call, link, dials, open, clients>>

Disconnected ==
    /\ call = "quiet" /\ link = "none" /\ dials = 0 /\ open = 0 /\ clients = 0

\* The process ends, and its connections with it.
Exit == call' = "quiet" /\ link' = "none" /\ dials' = 0 /\ open' = 0 /\ clients' = 0

\* A new http.Transport: what the one before it keeps stays open.
NewWarpAPI ==
    /\ clients' = clients + 1
    /\ call' = "quiet" /\ link' = "none" /\ dials' = 0 /\ UNCHANGED open

-----------------------------------------------------------------------------
\* client.Do: over the connection that was kept, or else over a new one.
Request ==
    /\ call = "quiet"
    /\ call' = IF link = "secure" THEN "send" ELSE "dial"
    /\ UNCHANGED <<link, dials, open, clients>>

\* Each dial function starts with a plain connection.
DialPlain ==
    /\ call = "dial" /\ link = "none"
    /\ link' = "plain" /\ open' = open + 1
    /\ UNCHANGED <<call, dials, clients>>

\* What TLSDial's caller does with the connection it is given.
Given(l) == IF l = "none" THEN "failed" ELSE "send"

Handshake ==
    /\ call = "dial" /\ link = "plain"
    /\ link' = "secure" /\ dials' = 0
    /\ call' = Given(link')
    /\ UNCHANGED <<open, clients>>

\* A dial has failed: the next attempt or round, or TLSDial returns.
NextDial ==
    IF dials + 1 < Rounds * Attempts
    THEN dials' = dials + 1 /\ UNCHANGED call
    ELSE dials' = 0 /\ call' = Given(link')

DialRefused ==
    /\ call = "dial" /\ link = "none"
    /\ UNCHANGED <<link, open, clients>>
    /\ NextDial

\* Mutant: a failed handshake leaves the plain connection open.
ClosedNever == open

\* plainConn.Close
Closed == open - 1

HandshakeFails ==
    /\ call = "dial" /\ link = "plain"
    /\ link' = "none" /\ open' = Closed
    /\ NextDial
    /\ UNCHANGED clients

\* Any dial may fail, whatever it was that failed.
DialFails == DialRefused \/ HandshakeFails

-----------------------------------------------------------------------------
\* The API has the request and does what it asks for.
Handled ==
    /\ call = "send"
    /\ call' = "body"
    /\ UNCHANGED <<link, dials, open, clients>>

\* The answer is read and its body closed: the transport keeps the connection
\* or closes it.
Answered ==
    /\ call = "body"
    /\ call' = "quiet"
    /\ \/ UNCHANGED <<link, open>>
       \/ link' = "none" /\ open' = open - 1
    /\ UNCHANGED <<dials, clients>>

\* The API closes a connection that was kept.
KeptCloses ==
    /\ call = "quiet" /\ link = "secure"
    /\ link' = "none" /\ open' = open - 1
    /\ UNCHANGED <<call, dials, clients>>

Connecting == Request \/ DialPlain \/ Handshake

-----------------------------------------------------------------------------
\* Part of the type invariant of a module with such a client.
ClientTypeOK ==
    /\ call \in {"quiet", "dial", "send", "body", "failed"}
    /\ link \in {"none", "plain", "secure"}
    /\ dials \in 0 .. Rounds * Attempts - 1
    /\ open \in Nat /\ clients \in Nat

\* However the dials of a request fail, it travels only over a connection whose
\* handshake was completed, a TLSDial without one hands out nothing, and
\* nothing stays open but at most one connection of each client.
ConnectionsKept ==
    /\ call \in {"send", "body"} => link = "secure"
    /\ call = "failed" => link = "none"
    /\ open <= clients
=============================================================================
