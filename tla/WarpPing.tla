------------------------------ MODULE WarpPing ------------------------------
(***************************************************************************)
(* The ping of one address, ipscanner/ping: PingContext starts a goroutine *)
(* per port, waits for all of them, closes the channel they have reported  *)
(* to and returns the first success in it.  Each goroutine sends a number  *)
(* of random packets, then the initiation of a WireGuard handshake, and    *)
(* takes the first datagram that comes back, if one comes in time.         *)
(*                                                                         *)
(* The context is looked at between the random packets, and nowhere else.  *)
(* The cryptography is left out: a datagram is a valid response or not.    *)
(***************************************************************************)
EXTENDS Integers, Sequences, FiniteSets

CONSTANTS Ports,      \* how many ports network.ScannerPorts() has
          Capacity,   \* the capacity of the channel
          MaxPackets  \* bound: the largest number of random packets

ASSUME PingAssumption ==
    /\ Ports \in Nat \ {0} /\ Capacity \in Nat /\ MaxPackets \in Nat \ {0}

Port == 1 .. Ports

VARIABLES
    main,       \* where PingContext is
    launched,   \* how many goroutines it has started
    at,         \* where the goroutine of a port is
    socket,     \* its UDP socket
    left,       \* random packets it has still to send
    inbox,      \* the first datagram, or refusal, the socket received
    verdict,    \* what initiateHandshake returned
    results,    \* the channel: the ports that have reported, in order
    answer,     \* the port PingContext returns as the result, if any
    cancelled,  \* the context of the scanner's engine is done
    cut         \* history: ports with packets left when that happened

portVars == <<at, socket, left, inbox, verdict>>
mainVars == <<main, launched, answer>>
vars == <<mainVars, portVars, results, cancelled, cut>>

Init ==
    /\ main = "launch" /\ launched = 0 /\ answer = {}
    /\ at = [p \in Port |-> "new"]
    /\ socket = [p \in Port |-> "none"]
    /\ left = [p \in Port |-> 0]
    /\ inbox = [p \in Port |-> "none"]
    /\ verdict = [p \in Port |-> "none"]
    /\ results = <<>>
    /\ cancelled = FALSE /\ cut = {}

-----------------------------------------------------------------------------
(* initiateHandshake.                                                      *)

\* The deferred Close, when the socket has been opened.
Close(p) == socket' = [socket EXCEPT ![p] = IF @ = "open" THEN "closed" ELSE @]

Return(p, v) ==
    /\ at' = [at EXCEPT ![p] = "report"]
    /\ verdict' = [verdict EXCEPT ![p] = v]
    /\ Close(p)
    /\ UNCHANGED <<left, inbox>>

\* Keys, the Noise state, the initiation packet, or the socket cannot be made,
\* or no random number can be had for the packets to come.
Unprepared(p) ==
    /\ at[p] = "prepare"
    /\ Return(p, "err")
    /\ UNCHANGED <<mainVars, results, cancelled, cut>>

\* The socket is open and the number of random packets is drawn.
Prepare(p) ==
    /\ at[p] = "prepare"
    /\ \E n \in 1 .. MaxPackets : left' = [left EXCEPT ![p] = n]
    /\ socket' = [socket EXCEPT ![p] = "open"]
    /\ at' = [at EXCEPT ![p] = "send"]
    /\ UNCHANGED <<mainVars, inbox, verdict, results, cancelled, cut>>

\* Mutants: the loop does not look at the context; it takes a turn too many.
HeedsNothing == FALSE
MoreByOne(p) == left[p] >= 0

Heeds == cancelled
MorePackets(p) == left[p] > 0

\* A turn of the loop of sendRandomPackets.
SendRandomPacket(p) ==
    /\ at[p] = "send" /\ MorePackets(p) /\ ~Heeds
    /\ left' = [left EXCEPT ![p] = @ - 1]
    /\ UNCHANGED <<mainVars, at, socket, inbox, verdict, results, cancelled, cut>>

\* The context is done, or a packet cannot be sent.
SendFails(p) ==
    /\ at[p] = "send" /\ MorePackets(p)
    /\ Return(p, "err")
    /\ UNCHANGED <<mainVars, results, cancelled, cut>>

\* The initiation is sent, whatever the context is by now.
Initiate(p) ==
    /\ at[p] = "send" /\ ~MorePackets(p)
    /\ \/ /\ at' = [at EXCEPT ![p] = "read"]
          /\ UNCHANGED <<socket, left, inbox, verdict>>
       \/ Return(p, "err")
    /\ UNCHANGED <<mainVars, results, cancelled, cut>>

\* The first datagram decides, a later one is not read.
ReadResponse(p) ==
    /\ at[p] = "read" /\ inbox[p] # "none"
    /\ Return(p, IF inbox[p] = "valid" THEN "ok" ELSE "err")
    /\ UNCHANGED <<mainVars, results, cancelled, cut>>

\* Mutant: no deadline is set.
TimesOutNever(p) == FALSE

\* The five seconds are over.
TimesOut(p) == at[p] = "read"

ReadDeadline(p) ==
    /\ TimesOut(p)
    /\ Return(p, "err")
    /\ UNCHANGED <<mainVars, results, cancelled, cut>>

-----------------------------------------------------------------------------
(* The goroutine of a port, and PingContext.                               *)

\* results <- ...: it waits for room, and panics when the channel is closed.
Report(p) ==
    /\ at[p] = "report"
    /\ IF main \in {"launch", "wait"}
       THEN /\ Len(results) < Capacity
            /\ results' = Append(results, p)
            /\ at' = [at EXCEPT ![p] = "reported"]
            /\ UNCHANGED main
       ELSE main' = "panic" /\ UNCHANGED <<results, at>>
    /\ UNCHANGED <<launched, answer, socket, left, inbox, verdict, cancelled, cut>>

\* The deferred wg.Done.
Leave(p) ==
    /\ at[p] = "reported"
    /\ at' = [at EXCEPT ![p] = "over"]
    /\ UNCHANGED <<mainVars, socket, left, inbox, verdict, results, cancelled, cut>>

Goroutine(p) ==
    \/ Unprepared(p) \/ Prepare(p) \/ SendRandomPacket(p) \/ SendFails(p)
    \/ Initiate(p) \/ ReadResponse(p) \/ ReadDeadline(p) \/ Report(p) \/ Leave(p)

Launch ==
    /\ main = "launch"
    /\ launched' = launched + 1
    /\ at' = [at EXCEPT ![launched'] = "prepare"]
    /\ main' = IF launched' = Ports THEN "wait" ELSE main
    /\ UNCHANGED <<answer, socket, left, inbox, verdict, results, cancelled, cut>>

\* wg.Wait returns and the channel is closed.
WaitReturns ==
    /\ main = "wait" /\ \A p \in 1 .. launched : at[p] = "over"
    /\ main' = "collect"
    /\ UNCHANGED <<launched, answer, portVars, results, cancelled, cut>>

\* Mutant: only the result read last counts.
TakesLast(p) == verdict[p] = "ok" /\ Len(results) = 1

\* A result without an error ends the loop over the channel.
Takes(p) == verdict[p] = "ok"

\* A turn of the loop over the channel, or its end.
Collect ==
    /\ main = "collect"
    /\ IF results = <<>>
       THEN main' = "returned" /\ UNCHANGED <<answer, results>>
       ELSE /\ results' = Tail(results)
            /\ IF Takes(Head(results))
               THEN main' = "returned" /\ answer' = {Head(results)}
               ELSE UNCHANGED <<main, answer>>
    /\ UNCHANGED <<launched, portVars, cancelled, cut>>

PingContext == Launch \/ WaitReturns \/ Collect

-----------------------------------------------------------------------------
(* The network, and who stops the scanner.                                 *)

\* Something comes back: a valid response only to the initiation, anything else
\* (a refusal too) to a random packet as well.  It may never come.
Receive(p) ==
    /\ socket[p] = "open" /\ inbox[p] = "none"
    /\ \E d \in {"valid", "junk"} :
          /\ d = "valid" => at[p] = "read"
          /\ inbox' = [inbox EXCEPT ![p] = d]
    /\ UNCHANGED <<mainVars, at, socket, left, verdict, results, cancelled, cut>>

Cancel ==
    /\ ~cancelled
    /\ cancelled' = TRUE
    /\ cut' = {p \in Port : \/ at[p] \in {"new", "prepare"}
                            \/ at[p] = "send" /\ left[p] > 0}
    /\ UNCHANGED <<mainVars, portVars, results>>

Terminated == main \in {"returned", "panic"} /\ UNCHANGED vars

Next ==
    \/ main # "panic" /\ \/ PingContext
                         \/ \E p \in Port : Goroutine(p) \/ Receive(p)
                         \/ Cancel
    \/ Terminated

Spec == Init /\ [][Next]_vars

\* Goroutines are scheduled and the deadline of a read passes; nothing is assumed
\* of the network or of the context.
Fairness == WF_vars(PingContext) /\ \A p \in Port : WF_vars(Goroutine(p))

FairSpec == Spec /\ Fairness

-----------------------------------------------------------------------------
\* The variables have their types, no port reports twice, and the ping never panics:
\* no goroutine sends on results after it was closed.
TypeOK ==
    /\ main \in {"launch", "wait", "collect", "returned"}
    /\ launched \in 0 .. Ports /\ answer \subseteq Port
    /\ at \in [Port -> {"new", "prepare", "send", "read", "report", "reported", "over"}]
    /\ socket \in [Port -> {"none", "open", "closed"}]
    /\ left \in [Port -> 0 .. MaxPackets]
    /\ inbox \in [Port -> {"none", "valid", "junk"}]
    /\ verdict \in [Port -> {"none", "ok", "err"}]
    /\ results \in Seq(Port) /\ \A i, j \in DOMAIN results :
                                   results[i] = results[j] => i = j
    /\ cancelled \in BOOLEAN /\ cut \subseteq Port

\* Stopping the scanner cuts a ping short: a port that has a random packet left
\* to send at that moment never gets to its handshake, so it does not answer,
\* and the address is not offered on its account.
CutNeverAnswers == \A p \in cut : verdict[p] # "ok"

\* A ping returns, whatever the network does and whether it is stopped or not.
PingReturns == <>(main = "returned")

\* The ping implements PingPromise.  A port is pending until its goroutine is
\* over and its socket closed, so nothing outlives the ping; a send on the
\* closed channel would be a result that the promise does not have.
Promise == INSTANCE PingPromise WITH
    pending  <- {p \in Port : at[p] # "over" \/ socket[p] = "open"},
    answered <- {p \in Port : at[p] = "over" /\ socket[p] # "open" /\ verdict[p] = "ok"},
    status   <- IF main = "panic" THEN "panic"
                ELSE IF main # "returned" THEN "pinging"
                ELSE IF answer = {} THEN "failed" ELSE "answered"

KeepsPingPromise == Promise!Spec
=============================================================================
