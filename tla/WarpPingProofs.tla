---------------------------- MODULE WarpPingProofs ----------------------------
(***************************************************************************)
(* Proofs about WarpPing, for every number of ports and packets and every  *)
(* capacity of the channel: the types, that no goroutine sends on a closed *)
(* channel, that a ping cut short does not answer, and that the ping       *)
(* implements PingPromise.                                                 *)
(***************************************************************************)
EXTENDS WarpPing, TLAPS

-----------------------------------------------------------------------------
(* The invariant.                                                          *)

\* TypeOK by parts.
MainTypes ==
    /\ main \in {"launch", "wait", "collect", "returned", "panic"}
    /\ launched \in 0 .. Ports /\ answer \subseteq Port
PortTypes ==
    /\ at \in [Port -> {"new", "prepare", "send", "read", "report", "reported", "over"}]
    /\ socket \in [Port -> {"none", "open", "closed"}]
    /\ left \in [Port -> 0 .. MaxPackets]
    /\ inbox \in [Port -> {"none", "valid", "junk"}]
    /\ verdict \in [Port -> {"none", "ok", "err"}]
ResultTypes ==
    results \in Seq(Port) /\ \A i, j \in DOMAIN results : results[i] = results[j] => i = j
CancelledType == cancelled \in BOOLEAN

\* PingContext: it starts the goroutines in order, and reads the channel, which
\* is closed by then, when all of them are over.
Stages ==
    /\ \A p \in Port : at[p] = "new" <=> p > launched
    /\ main = "launch" <=> launched < Ports
    /\ main \in {"collect", "returned"} => \A p \in Port : at[p] = "over"
    /\ main # "panic"
    /\ main # "returned" => answer = {}

\* A goroutine: its socket is open until it returns, and only then it has a
\* verdict.
Sockets ==
    \A p \in Port :
        /\ at[p] \in {"new", "prepare"} => socket[p] = "none"
        /\ at[p] \in {"report", "reported", "over"} => socket[p] # "open"
        /\ at[p] \in {"new", "prepare", "send", "read"} => verdict[p] = "none"

\* The channel: only ports that have reported are in it, and the successes
\* among them stay until PingContext returns.
Channel ==
    /\ \A i \in DOMAIN results : at[results[i]] \in {"reported", "over"}
    /\ main # "returned" =>
          \A p \in Port : at[p] \in {"reported", "over"} /\ verdict[p] = "ok" =>
                              \E i \in DOMAIN results : results[i] = p

\* A port that was cut short has not come to its handshake, and does not.
Cut ==
    /\ cut \subseteq Port
    /\ \A p \in cut : /\ cancelled
                      /\ at[p] # "read" /\ verdict[p] # "ok"
                      /\ at[p] = "send" => left[p] > 0

PingInv ==
    /\ MainTypes /\ PortTypes /\ ResultTypes /\ CancelledType
    /\ Stages /\ Sockets /\ Channel /\ Cut

-----------------------------------------------------------------------------
(* The steps of a goroutine.                                               *)

\* initiateHandshake returns: with a response after it was read only.
LEMMA ReturnStep ==
    ASSUME PingInv, NEW p \in Port, NEW v \in {"ok", "err"}, Return(p, v),
           at[p] \in {"prepare", "send", "read"}, v = "ok" => at[p] = "read",
           UNCHANGED <<main, launched, answer, results, cancelled, cut>>
    PROVE  PingInv'
<1>1. /\ at' = [at EXCEPT ![p] = "report"] /\ verdict' = [verdict EXCEPT ![p] = v]
      /\ UNCHANGED <<left, inbox>>
  BY DEF Return
<1>2. socket' = [socket EXCEPT ![p] = IF socket[p] = "open" THEN "closed" ELSE socket[p]]
  BY DEF Return, Close
<1>3. MainTypes'
  BY <1>1, <1>2
  DEF PingInv, MainTypes
<1>4. PortTypes'
  BY <1>1, <1>2
  DEF PingInv, PortTypes
<1>5. ResultTypes'
  BY <1>1, <1>2
  DEF PingInv, ResultTypes
<1>6. CancelledType'
  BY <1>1, <1>2
  DEF PingInv, CancelledType
<1>7. Stages'
  BY <1>1, <1>2
  DEF PingInv, MainTypes, PortTypes, ResultTypes, Stages
<1>8. Sockets'
  BY <1>1, <1>2
  DEF PingInv, PortTypes, Sockets
<1>9. Channel'
  BY <1>1, <1>2
  DEF PingInv, MainTypes, PortTypes, ResultTypes, Channel, Stages, Sockets
<1>10. Cut'
  BY <1>1, <1>2
  DEF PingInv, PortTypes, Cut, Sockets
<1> QED
  BY <1>3, <1>4, <1>5, <1>6, <1>7, <1>8, <1>9, <1>10 DEF PingInv

\* The socket is opened and the number of random packets drawn.
LEMMA PrepareStep ==
    ASSUME PingInv, NEW p \in Port, Prepare(p)
    PROVE  PingInv'
<1>1. UNCHANGED <<main, launched, answer, inbox, verdict, results, cancelled, cut>>
  BY DEF Prepare, mainVars
<1>2. /\ at[p] = "prepare" /\ at' = [at EXCEPT ![p] = "send"]
      /\ socket' = [socket EXCEPT ![p] = "open"]
  BY DEF Prepare
<1>3. PICK n \in 1 .. MaxPackets : left' = [left EXCEPT ![p] = n]
  BY DEF Prepare
<1>4. n \in 0 .. MaxPackets /\ n > 0
  BY <1>3, PingAssumption
<1>5. MainTypes'
  BY <1>1, <1>2, <1>3, <1>4
  DEF PingInv, MainTypes
<1>6. PortTypes'
  BY <1>1, <1>2, <1>3, <1>4
  DEF PingInv, PortTypes
<1>7. ResultTypes'
  BY <1>1, <1>2, <1>3, <1>4
  DEF PingInv, ResultTypes
<1>8. CancelledType'
  BY <1>1, <1>2, <1>3, <1>4
  DEF PingInv, CancelledType
<1>9. Stages'
  BY <1>1, <1>2, <1>3, <1>4
  DEF PingInv, MainTypes, PortTypes, ResultTypes, Stages
<1>10. Sockets'
  BY <1>1, <1>2, <1>3, <1>4
  DEF PingInv, PortTypes, Sockets
<1>11. Channel'
  BY <1>1, <1>2, <1>3, <1>4
  DEF PingInv, MainTypes, PortTypes, ResultTypes, Channel, Stages, Sockets
<1>12. Cut'
  BY <1>1, <1>2, <1>3, <1>4
  DEF PingInv, PortTypes, Cut, Sockets
<1> QED
  BY <1>5, <1>6, <1>7, <1>8, <1>9, <1>10, <1>11, <1>12 DEF PingInv

\* A random packet is sent, unless the context is done.
LEMMA SendStep ==
    ASSUME PingInv, NEW p \in Port, SendRandomPacket(p)
    PROVE  PingInv'
<1>1. UNCHANGED <<main, launched, answer, at, socket, inbox, verdict, results, cancelled, cut>>
  BY DEF SendRandomPacket, mainVars
<1>2. /\ at[p] = "send" /\ left[p] > 0 /\ ~cancelled
      /\ left' = [left EXCEPT ![p] = left[p] - 1]
  BY DEF SendRandomPacket, MorePackets, Heeds
<1>3. left[p] - 1 \in 0 .. MaxPackets
  BY <1>2, PingAssumption DEF PingInv, PortTypes
<1>4. MainTypes'
  BY <1>1, <1>2, <1>3
  DEF PingInv, MainTypes
<1>5. PortTypes'
  BY <1>1, <1>2, <1>3
  DEF PingInv, PortTypes
<1>6. ResultTypes'
  BY <1>1, <1>2, <1>3
  DEF PingInv, ResultTypes
<1>7. CancelledType'
  BY <1>1, <1>2, <1>3
  DEF PingInv, CancelledType
<1>8. Stages'
  BY <1>1, <1>2, <1>3
  DEF PingInv, MainTypes, PortTypes, ResultTypes, Stages
<1>9. Sockets'
  BY <1>1, <1>2, <1>3
  DEF PingInv, PortTypes, Sockets
<1>10. Channel'
  BY <1>1, <1>2, <1>3
  DEF PingInv, MainTypes, PortTypes, ResultTypes, Channel, Stages, Sockets
<1>11. Cut'
  BY <1>1, <1>2, <1>3
  DEF PingInv, PortTypes, Cut, Sockets
<1> QED
  BY <1>4, <1>5, <1>6, <1>7, <1>8, <1>9, <1>10, <1>11 DEF PingInv

\* The goroutine is over.
LEMMA LeaveStep ==
    ASSUME PingInv, NEW p \in Port, Leave(p)
    PROVE  PingInv'
<1>1. UNCHANGED <<main, launched, answer, socket, left, inbox, verdict, results, cancelled, cut>>
  BY DEF Leave, mainVars
<1>2. at[p] = "reported" /\ at' = [at EXCEPT ![p] = "over"]
  BY DEF Leave
<1>3. MainTypes'
  BY <1>1, <1>2
  DEF PingInv, MainTypes
<1>4. PortTypes'
  BY <1>1, <1>2
  DEF PingInv, PortTypes
<1>5. ResultTypes'
  BY <1>1, <1>2
  DEF PingInv, ResultTypes
<1>6. CancelledType'
  BY <1>1, <1>2
  DEF PingInv, CancelledType
<1>7. Stages'
  BY <1>1, <1>2
  DEF PingInv, MainTypes, PortTypes, ResultTypes, Stages
<1>8. Sockets'
  BY <1>1, <1>2
  DEF PingInv, PortTypes, Sockets
<1>9. Channel'
  BY <1>1, <1>2
  DEF PingInv, MainTypes, PortTypes, ResultTypes, Channel, Stages, Sockets
<1>10. Cut'
  BY <1>1, <1>2
  DEF PingInv, PortTypes, Cut, Sockets
<1> QED
  BY <1>3, <1>4, <1>5, <1>6, <1>7, <1>8, <1>9, <1>10 DEF PingInv

\* Something comes back from the network.
LEMMA ReceiveStep ==
    ASSUME PingInv, NEW p \in Port, Receive(p)
    PROVE  PingInv'
<1>1. UNCHANGED <<main, launched, answer, at, socket, left, verdict, results, cancelled, cut>>
  BY DEF Receive, mainVars
<1>2. inbox' \in [Port -> {"none", "valid", "junk"}]
  BY DEF Receive, PingInv, PortTypes
<1>3. MainTypes'
  BY <1>1, <1>2
  DEF PingInv, MainTypes
<1>4. PortTypes'
  BY <1>1, <1>2
  DEF PingInv, PortTypes
<1>5. ResultTypes'
  BY <1>1, <1>2
  DEF PingInv, ResultTypes
<1>6. CancelledType'
  BY <1>1, <1>2
  DEF PingInv, CancelledType
<1>7. Stages'
  BY <1>1, <1>2
  DEF PingInv, MainTypes, PortTypes, ResultTypes, Stages
<1>8. Sockets'
  BY <1>1, <1>2
  DEF PingInv, PortTypes, Sockets
<1>9. Channel'
  BY <1>1, <1>2
  DEF PingInv, MainTypes, PortTypes, ResultTypes, Channel, Stages, Sockets
<1>10. Cut'
  BY <1>1, <1>2
  DEF PingInv, PortTypes, Cut, Sockets
<1> QED
  BY <1>3, <1>4, <1>5, <1>6, <1>7, <1>8, <1>9, <1>10 DEF PingInv

\* The initiation is sent, if it can be.
LEMMA InitiateStep ==
    ASSUME PingInv, NEW p \in Port, Initiate(p)
    PROVE  PingInv'
<1>0. /\ at[p] = "send" /\ left[p] <= 0
      /\ UNCHANGED <<main, launched, answer, results, cancelled, cut>>
  BY DEF Initiate, MorePackets, mainVars, PingInv, PortTypes
<1>1. CASE Return(p, "err")
  BY <1>0, <1>1, ReturnStep
<1>2. CASE at' = [at EXCEPT ![p] = "read"] /\ UNCHANGED <<socket, left, inbox, verdict>>
  <2>1. MainTypes' /\ PortTypes' /\ ResultTypes'
    BY <1>0, <1>2 DEF PingInv, MainTypes, PortTypes, ResultTypes
  <2>2. CancelledType'
    BY <1>0 DEF PingInv, CancelledType
  <2>3. Stages' /\ Sockets'
    BY <1>0, <1>2 DEF PingInv, PortTypes, Stages, Sockets
  <2>4. Channel'
    BY <1>0, <1>2 DEF PingInv, PortTypes, ResultTypes, Channel
  <2>5. Cut'
    BY <1>0, <1>2 DEF PingInv, PortTypes, Cut
  <2> QED
    BY <2>1, <2>2, <2>3, <2>4, <2>5 DEF PingInv
<1> QED
  BY <1>0, <1>1, <1>2 DEF Initiate

\* A port reports: the channel is still open, and has not got it yet.
LEMMA ReportStep ==
    ASSUME PingInv, NEW p \in Port, Report(p)
    PROVE  PingInv'
<1>1. at[p] = "report" /\ UNCHANGED <<launched, answer, socket, left, inbox, verdict,
                                      cancelled, cut>>
  BY DEF Report
<1>2. main \in {"launch", "wait"}
  BY <1>1 DEF PingInv, MainTypes, Stages
<1>3. main' = main /\ results' = Append(results, p) /\ at' = [at EXCEPT ![p] = "reported"]
  BY <1>2 DEF Report
<1>4. \A i \in DOMAIN results : results[i] # p
  BY <1>1 DEF PingInv, Channel
<1>5. /\ results' \in Seq(Port) /\ DOMAIN results = 1 .. Len(results) /\ Len(results) \in Nat
      /\ DOMAIN results' = 1 .. Len(results) + 1 /\ results'[Len(results) + 1] = p
      /\ \A i \in DOMAIN results : results'[i] = results[i]
  BY <1>3 DEF PingInv, ResultTypes
<1>6. MainTypes'
  BY <1>1, <1>2, <1>3, <1>4, <1>5
  DEF PingInv, MainTypes
<1>7. PortTypes'
  BY <1>1, <1>2, <1>3, <1>4, <1>5
  DEF PingInv, PortTypes
<1>8. ResultTypes'
  BY <1>1, <1>2, <1>3, <1>4, <1>5
  DEF PingInv, ResultTypes
<1>9. CancelledType'
  BY <1>1, <1>2, <1>3, <1>4, <1>5
  DEF PingInv, CancelledType
<1>10. Stages'
  BY <1>1, <1>2, <1>3, <1>4, <1>5
  DEF PingInv, MainTypes, PortTypes, ResultTypes, Stages
<1>11. Sockets'
  BY <1>1, <1>2, <1>3, <1>4, <1>5
  DEF PingInv, PortTypes, Sockets
<1>12. Channel'
  <2>1. \A i \in DOMAIN results' : at'[results'[i]] \in {"reported", "over"}
    <3>1. ASSUME NEW i \in DOMAIN results'
          PROVE  at'[results'[i]] \in {"reported", "over"}
      <4>1. CASE i \in DOMAIN results
        BY <1>3, <1>4, <1>5, <4>1 DEF PingInv, PortTypes, ResultTypes, Channel
      <4>2. CASE i = Len(results) + 1
        BY <1>3, <1>5, <4>2 DEF PingInv, PortTypes
      <4> QED
        BY <1>5, <4>1, <4>2
    <3> QED
      BY <3>1
  <2>2. ASSUME NEW q \in Port, at'[q] \in {"reported", "over"}, verdict[q] = "ok"
        PROVE  \E i \in DOMAIN results' : results'[i] = q
    <3>1. CASE q = p
      BY <1>5, <3>1
    <3>2. CASE q # p
      <4>1. PICK i \in DOMAIN results : results[i] = q
        BY <1>2, <1>3, <2>2, <3>2 DEF PingInv, PortTypes, Channel
      <4> QED
        BY <1>5, <4>1
    <3> QED
      BY <3>1, <3>2
  <2> QED
    BY <1>1, <2>1, <2>2 DEF Channel
<1>13. Cut'
  BY <1>1, <1>2, <1>3, <1>4, <1>5
  DEF PingInv, PortTypes, Cut, Sockets
<1> QED
  BY <1>6, <1>7, <1>8, <1>9, <1>10, <1>11, <1>12, <1>13 DEF PingInv

\* A step of a goroutine keeps the invariant.
LEMMA GoroutineStep ==
    ASSUME PingInv, NEW p \in Port, Goroutine(p)
    PROVE  PingInv'
<1>1. CASE Unprepared(p)
  BY <1>1, ReturnStep DEF Unprepared, mainVars
<1>2. CASE SendFails(p)
  BY <1>2, ReturnStep DEF SendFails, mainVars
<1>3. CASE ReadResponse(p)
  BY <1>3, ReturnStep DEF ReadResponse, mainVars
<1>4. CASE ReadDeadline(p)
  BY <1>4, ReturnStep DEF ReadDeadline, TimesOut, mainVars
<1> QED
  BY <1>1, <1>2, <1>3, <1>4, PrepareStep, SendStep, InitiateStep, ReportStep, LeaveStep
  DEF Goroutine

-----------------------------------------------------------------------------
(* The steps of PingContext, and of who stops it.                          *)

\* The goroutine of the next port is started.
LEMMA LaunchStep ==
    ASSUME PingInv, Launch
    PROVE  PingInv'
<1>1. main = "launch" /\ launched' = launched + 1
      /\ UNCHANGED <<answer, socket, left, inbox, verdict, results, cancelled, cut>>
  BY DEF Launch
<1>2. launched + 1 \in Port /\ launched + 1 \in 0 .. Ports
  BY <1>1, PingAssumption DEF PingInv, MainTypes, Stages, Port
<1>3. /\ at' = [at EXCEPT ![launched + 1] = "prepare"] /\ at[launched + 1] = "new"
      /\ main' = IF launched + 1 = Ports THEN "wait" ELSE main
  BY <1>1, <1>2 DEF Launch, PingInv, MainTypes, Stages
<1>4. MainTypes'
  BY <1>1, <1>2, <1>3
  DEF PingInv, MainTypes
<1>5. PortTypes'
  BY <1>1, <1>2, <1>3
  DEF PingInv, PortTypes
<1>6. ResultTypes'
  BY <1>1, <1>2, <1>3
  DEF PingInv, ResultTypes
<1>7. CancelledType'
  BY <1>1, <1>2, <1>3
  DEF PingInv, CancelledType
<1>8. Stages'
  <2>1. launched \in Nat /\ Ports \in Nat /\ Port = 1 .. Ports
    BY PingAssumption DEF PingInv, MainTypes, Port
  <2>2. \A p \in Port : at'[p] = "new" <=> p > launched'
    <3>1. ASSUME NEW p \in Port PROVE at'[p] = "new" <=> p > launched + 1
      <4>1. CASE p = launched + 1
        BY <1>3, <2>1, <4>1 DEF PingInv, PortTypes
      <4>2. CASE p # launched + 1
        BY <1>3, <2>1, <4>2 DEF PingInv, PortTypes, Stages
      <4> QED
        BY <4>1, <4>2
    <3> QED
      BY <1>1, <3>1
  <2>3. main' = "launch" <=> launched' < Ports
    BY <1>1, <1>2, <1>3, <2>1
  <2> QED
    BY <1>1, <1>3, <2>2, <2>3 DEF PingInv, Stages
<1>9. Sockets'
  BY <1>1, <1>2, <1>3
  DEF PingInv, PortTypes, Sockets
<1>10. Channel'
  BY <1>1, <1>2, <1>3
  DEF PingInv, MainTypes, PortTypes, ResultTypes, Channel, Stages, Sockets
<1>11. Cut'
  BY <1>1, <1>2, <1>3
  DEF PingInv, PortTypes, Cut, Sockets
<1> QED
  BY <1>4, <1>5, <1>6, <1>7, <1>8, <1>9, <1>10, <1>11 DEF PingInv

\* All goroutines are over, and the channel is closed.
LEMMA WaitReturnsStep ==
    ASSUME PingInv, WaitReturns
    PROVE  PingInv'
<1>1. main = "wait" /\ main' = "collect"
      /\ UNCHANGED <<launched, answer, at, socket, left, inbox, verdict, results, cancelled, cut>>
  BY DEF WaitReturns, portVars
<1>2. launched = Ports /\ \A p \in Port : at[p] = "over"
  BY <1>1, PingAssumption DEF WaitReturns, PingInv, MainTypes, Stages, Port
<1>3. MainTypes'
  BY <1>1, <1>2
  DEF PingInv, MainTypes
<1>4. PortTypes'
  BY <1>1, <1>2
  DEF PingInv, PortTypes
<1>5. ResultTypes'
  BY <1>1, <1>2
  DEF PingInv, ResultTypes
<1>6. CancelledType'
  BY <1>1, <1>2
  DEF PingInv, CancelledType
<1>7. Stages'
  BY <1>1, <1>2
  DEF PingInv, MainTypes, PortTypes, ResultTypes, Stages
<1>8. Sockets'
  BY <1>1, <1>2
  DEF PingInv, PortTypes, Sockets
<1>9. Channel'
  BY <1>1, <1>2
  DEF PingInv, MainTypes, PortTypes, ResultTypes, Channel, Stages, Sockets
<1>10. Cut'
  BY <1>1, <1>2
  DEF PingInv, PortTypes, Cut, Sockets
<1> QED
  BY <1>3, <1>4, <1>5, <1>6, <1>7, <1>8, <1>9, <1>10 DEF PingInv

\* The scanner is stopped.
LEMMA CancelStep ==
    ASSUME PingInv, Cancel
    PROVE  PingInv'
<1>1. cancelled' = TRUE /\ UNCHANGED <<main, launched, answer, at, socket, left, inbox,
                                       verdict, results>>
  BY DEF Cancel, mainVars, portVars
<1>2. /\ cut' \subseteq Port
      /\ \A p \in cut' : at[p] \in {"new", "prepare"} \/ (at[p] = "send" /\ left[p] > 0)
  BY DEF Cancel
<1>3. MainTypes'
  BY <1>1, <1>2
  DEF PingInv, MainTypes
<1>4. PortTypes'
  BY <1>1, <1>2
  DEF PingInv, PortTypes
<1>5. ResultTypes'
  BY <1>1, <1>2
  DEF PingInv, ResultTypes
<1>6. CancelledType'
  BY <1>1, <1>2
  DEF PingInv, CancelledType
<1>7. Stages'
  BY <1>1, <1>2
  DEF PingInv, MainTypes, PortTypes, ResultTypes, Stages
<1>8. Sockets'
  BY <1>1, <1>2
  DEF PingInv, PortTypes, Sockets
<1>9. Channel'
  BY <1>1, <1>2
  DEF PingInv, MainTypes, PortTypes, ResultTypes, Channel, Stages, Sockets
<1>10. Cut'
  BY <1>1, <1>2
  DEF PingInv, PortTypes, Cut, Sockets
<1> QED
  BY <1>3, <1>4, <1>5, <1>6, <1>7, <1>8, <1>9, <1>10 DEF PingInv

\* PingContext reads the channel: a success ends the ping, and anything else
\* leaves the successes that come after it.
LEMMA CollectStep ==
    ASSUME PingInv, Collect
    PROVE  PingInv'
<1>0. main = "collect" /\ UNCHANGED <<launched, at, socket, left, inbox, verdict, cancelled, cut>>
  BY DEF Collect, portVars
<1>1. CancelledType' /\ Sockets' /\ Cut'
  BY <1>0 DEF PingInv, CancelledType, Sockets, Cut
<1>2. PortTypes'
  BY <1>0 DEF PingInv, PortTypes
<1>3. CASE results = <<>>
  <2>1. main' = "returned" /\ answer' = answer /\ results' = results
    BY <1>3 DEF Collect
  <2>2. MainTypes' /\ ResultTypes' /\ Stages' /\ Channel'
    BY <1>0, <2>1 DEF PingInv, MainTypes, ResultTypes, Stages, Channel
  <2> QED
    BY <1>1, <1>2, <2>2 DEF PingInv
<1>4. CASE results # <<>>
  <2> DEFINE h == Head(results)
  <2>1. /\ results' = Tail(results)
        /\ \/ verdict[h] = "ok" /\ main' = "returned" /\ answer' = {h}
           \/ verdict[h] # "ok" /\ main' = main /\ answer' = answer
    BY <1>4 DEF Collect, Takes
  <2>2. /\ h = results[1] /\ h \in Port /\ Len(results) \in Nat \ {0}
        /\ DOMAIN results = 1 .. Len(results)
    BY <1>4 DEF PingInv, ResultTypes
  <2>3. /\ results' \in Seq(Port) /\ DOMAIN results' = 1 .. Len(results) - 1
        /\ \A i \in DOMAIN results' : i + 1 \in DOMAIN results /\ results'[i] = results[i + 1]
        /\ \A i \in DOMAIN results : i # 1 => i - 1 \in DOMAIN results'
           /\ results'[i - 1] = results[i]
    BY <1>4, <2>1, <2>2 DEF PingInv, ResultTypes
  <2>4. MainTypes' /\ Stages'
    BY <1>0, <2>1, <2>2 DEF PingInv, MainTypes, Stages
  <2>5. ResultTypes'
    <3>1. ASSUME NEW i \in DOMAIN results', NEW j \in DOMAIN results', results'[i] = results'[j]
          PROVE  i = j
      <4>1. i + 1 = j + 1
        BY <2>3, <3>1 DEF PingInv, ResultTypes
      <4>2. i \in Int /\ j \in Int
        BY <2>2, <2>3
      <4> QED
        BY <4>1, <4>2
    <3> QED
      BY <2>3, <3>1 DEF ResultTypes
  <2>6. Channel'
    <3>1. \A i \in DOMAIN results' : at[results'[i]] \in {"reported", "over"}
      BY <2>3 DEF PingInv, Channel
    <3>2. ASSUME main' # "returned", NEW p \in Port, at[p] \in {"reported", "over"},
                 verdict[p] = "ok"
          PROVE  \E i \in DOMAIN results' : results'[i] = p
      <4>1. PICK i \in DOMAIN results : results[i] = p
        BY <1>0, <3>2 DEF PingInv, Channel
      <4>2. i # 1
        BY <2>1, <2>2, <3>2, <4>1
      <4> QED
        BY <2>3, <4>1, <4>2
    <3> QED
      BY <1>0, <3>1, <3>2 DEF Channel
  <2> QED
    BY <1>1, <1>2, <2>4, <2>5, <2>6 DEF PingInv
<1> QED
  BY <1>3, <1>4

\* The invariant holds of a ping that begins.
LEMMA InitPing == Init => PingInv
<1> SUFFICES ASSUME Init PROVE PingInv
  OBVIOUS
<1> USE PingAssumption DEF Init
<1>1. MainTypes /\ PortTypes
  BY DEF MainTypes, PortTypes
<1>2. ResultTypes /\ Channel
  BY DEF ResultTypes, Channel
<1>3. CancelledType
  BY DEF CancelledType
<1>4. Stages /\ Sockets /\ Cut
  BY DEF Stages, Sockets, Cut, Port
<1> QED
  BY <1>1, <1>2, <1>3, <1>4 DEF PingInv

\* Every step, and every stutter, keeps the invariant.
LEMMA StepPing == PingInv /\ [Next]_vars => PingInv'
<1> SUFFICES ASSUME PingInv, [Next]_vars PROVE PingInv'
  OBVIOUS
<1>1. CASE UNCHANGED vars
  <2>1. UNCHANGED <<main, launched, answer, at, socket, left, inbox, verdict, results,
                    cancelled, cut>>
    BY <1>1 DEF vars, mainVars, portVars
  <2>2. MainTypes' /\ PortTypes' /\ ResultTypes'
    BY <2>1 DEF PingInv, MainTypes, PortTypes, ResultTypes
  <2>3. CancelledType'
    BY <2>1 DEF PingInv, CancelledType
  <2>4. Stages' /\ Sockets' /\ Channel' /\ Cut'
    BY <2>1 DEF PingInv, Stages, Sockets, Channel, Cut
  <2> QED
    BY <2>2, <2>3, <2>4 DEF PingInv
<1>2. ASSUME NEW p \in Port, Goroutine(p) \/ Receive(p) PROVE PingInv'
  BY <1>2, GoroutineStep, ReceiveStep
<1>3. CASE PingContext \/ Cancel
  BY <1>3, LaunchStep, WaitReturnsStep, CollectStep, CancelStep DEF PingContext
<1> QED
  BY <1>1, <1>2, <1>3 DEF Next, Terminated

-----------------------------------------------------------------------------
(* The refinement of PingPromise.                                          *)

\* Under the invariant, a port is pending until its goroutine is over, and the
\* states of PingContext but the last are all the same to the promise.
LEMMA Mapping ==
    ASSUME PingInv
    PROVE  /\ {p \in Port : at[p] # "over" \/ socket[p] = "open"} = {p \in Port : at[p] # "over"}
           /\ {p \in Port : at[p] = "over" /\ socket[p] # "open" /\ verdict[p] = "ok"}
                  = {p \in Port : at[p] = "over" /\ verdict[p] = "ok"}
           /\ main # "panic"
  BY DEF PingInv, Sockets, Stages

\* A step that ends no goroutine, changes no verdict of one that is over, and
\* does not return, is none of the promise.
LEMMA Stutter ==
    ASSUME PingInv, PingInv',
           \A p \in Port : at'[p] = "over" <=> at[p] = "over",
           \A p \in Port : at[p] = "over" => verdict'[p] = verdict[p],
           main' = main \/ (main # "returned" /\ main' # "returned"), answer' = answer
    PROVE  UNCHANGED Promise!promiseVars
<1>1. {p \in Port : at'[p] # "over"} = {p \in Port : at[p] # "over"}
  OBVIOUS
<1>2. {p \in Port : at'[p] = "over" /\ verdict'[p] = "ok"}
          = {p \in Port : at[p] = "over" /\ verdict[p] = "ok"}
  OBVIOUS
<1>3. /\ {p \in Port : at'[p] # "over" \/ socket'[p] = "open"} = {p \in Port : at'[p] # "over"}
      /\ {p \in Port : at'[p] = "over" /\ socket'[p] # "open" /\ verdict'[p] = "ok"}
             = {p \in Port : at'[p] = "over" /\ verdict'[p] = "ok"}
      /\ main' # "panic"
  BY DEF PingInv, Sockets, Stages
<1> QED
  BY <1>1, <1>2, <1>3, Mapping DEF Promise!promiseVars

\* The step of a goroutine that is over settles its port.
LEMMA LeaveSettles ==
    ASSUME PingInv, PingInv', NEW p \in Port, Leave(p)
    PROVE  Promise!Settle(p)
<1>1. /\ at[p] = "reported" /\ at' = [at EXCEPT ![p] = "over"]
      /\ UNCHANGED <<main, answer, socket, verdict>>
  BY DEF Leave, mainVars
<1>2. \A q \in Port : at'[q] = "over" <=> q = p \/ at[q] = "over"
  BY <1>1 DEF PingInv, PortTypes
<1>3. socket[p] # "open"
  BY <1>1 DEF PingInv, Sockets
<1>4. p \in {q \in Port : at[q] # "over" \/ socket[q] = "open"}
  BY <1>1
<1>5. {q \in Port : at'[q] # "over" \/ socket'[q] = "open"}
          = {q \in Port : at[q] # "over" \/ socket[q] = "open"} \ {p}
  BY <1>1, <1>2, <1>3 DEF PingInv, Sockets
<1>6. {q \in Port : at'[q] = "over" /\ socket'[q] # "open" /\ verdict'[q] = "ok"}
          = {q \in Port : at[q] = "over" /\ socket[q] # "open" /\ verdict[q] = "ok"}
              \cup (IF verdict[p] = "ok" THEN {p} ELSE {})
  BY <1>1, <1>2, <1>3
<1> QED
  BY <1>1, <1>4, <1>5, <1>6 DEF Promise!Settle

\* Any other step of a goroutine, or of the network, is none of the promise.
LEMMA GoroutineRefines ==
    ASSUME PingInv, PingInv', NEW p \in Port, Goroutine(p) \/ Receive(p)
    PROVE  Promise!Settle(p) \/ UNCHANGED Promise!promiseVars
<1>1. CASE Leave(p)
  BY <1>1, LeaveSettles
<1>2. CASE ~Leave(p)
  <2>1. /\ \/ at' = at
           \/ at[p] # "over" /\ \E s \in {"send", "read", "report", "reported"} :
                  at' = [at EXCEPT ![p] = s]
        /\ \/ verdict' = verdict
           \/ at[p] # "over" /\ \E v \in {"ok", "err"} : verdict' = [verdict EXCEPT ![p] = v]
        /\ answer' = answer
    BY <1>2 DEF Goroutine, Unprepared, Prepare, SendRandomPacket, SendFails, Initiate,
                ReadResponse, ReadDeadline, TimesOut, Report, Receive, Return, mainVars
  <2>2. main' = main \/ main' = "panic"
    BY <1>2 DEF Goroutine, Unprepared, Prepare, SendRandomPacket, SendFails, Initiate,
                ReadResponse, ReadDeadline, Report, Receive, mainVars
  <2>3. main' = main
    BY <2>2 DEF PingInv, Stages
  <2>4. /\ \A q \in Port : at'[q] = "over" <=> at[q] = "over"
        /\ \A q \in Port : at[q] = "over" => verdict'[q] = verdict[q]
    BY <2>1 DEF PingInv, PortTypes
  <2> QED
    BY <2>1, <2>3, <2>4, Stutter
<1> QED
  BY <1>1, <1>2

\* PingContext answers with a port that has, or fails when none has.
LEMMA CollectRefines ==
    ASSUME PingInv, PingInv', Collect
    PROVE  Promise!Next \/ UNCHANGED Promise!promiseVars
<1> DEFINE pending == {p \in Port : at[p] # "over" \/ socket[p] = "open"}
           answered == {p \in Port : at[p] = "over" /\ socket[p] # "open" /\ verdict[p] = "ok"}
<1>0. main = "collect" /\ answer = {} /\ UNCHANGED <<at, socket, verdict>>
  BY DEF Collect, portVars, PingInv, Stages
<1>1. pending = {} /\ answered = {p \in Port : verdict[p] = "ok"}
  BY <1>0 DEF PingInv, Stages, Sockets
<1>2. pending' = pending /\ answered' = answered
  BY <1>0
<1>3. CASE results = <<>>
  <2>1. main' = "returned" /\ answer' = answer
    BY <1>3 DEF Collect
  <2>2. answered = {}
    BY <1>0, <1>1, <1>3 DEF PingInv, Channel, Stages
  <2>3. Promise!Fail
    BY <1>0, <1>1, <1>2, <2>1, <2>2 DEF Promise!Fail
  <2> QED
    BY <2>3 DEF Promise!Next
<1>4. CASE results # <<>>
  <2> DEFINE h == Head(results)
  <2>1. \/ verdict[h] = "ok" /\ main' = "returned" /\ answer' = {h}
        \/ main' = main /\ answer' = answer
    BY <1>4 DEF Collect, Takes
  <2>2. h \in Port
    BY <1>4 DEF PingInv, ResultTypes
  <2>3. CASE verdict[h] = "ok" /\ main' = "returned" /\ answer' = {h}
    <3>1. Promise!Succeed(h)
      BY <1>0, <1>1, <1>2, <2>2, <2>3 DEF Promise!Succeed
    <3> QED
      BY <2>2, <3>1 DEF Promise!Next
  <2>4. CASE main' = main /\ answer' = answer
    BY <1>0, <2>4, Stutter
  <2> QED
    BY <2>1, <2>3, <2>4
<1> QED
  BY <1>3, <1>4

\* Every step of a ping is one of the promise, or none.
LEMMA StepRefines ==
    PingInv /\ PingInv' /\ [Next]_vars => [Promise!Next]_(Promise!promiseVars)
<1> SUFFICES ASSUME PingInv, PingInv', [Next]_vars
             PROVE  Promise!Next \/ UNCHANGED Promise!promiseVars
  OBVIOUS
<1>1. CASE UNCHANGED vars
  BY <1>1, Stutter DEF vars, mainVars, portVars
<1>2. ASSUME NEW p \in Port, Goroutine(p) \/ Receive(p)
      PROVE  Promise!Next \/ UNCHANGED Promise!promiseVars
  BY <1>2, GoroutineRefines DEF Promise!Next
<1>3. CASE Launch
  <2>1. /\ at' = [at EXCEPT ![launched + 1] = "prepare"] /\ main = "launch"
        /\ main' \in {main, "wait"} /\ UNCHANGED <<answer, verdict>>
    BY <1>3 DEF Launch
  <2>2. launched + 1 \in Port /\ at[launched + 1] = "new"
    BY <2>1, PingAssumption DEF PingInv, MainTypes, Stages, Port
  <2>3. \A p \in Port : at'[p] = "over" <=> at[p] = "over"
    BY <2>1, <2>2 DEF PingInv, PortTypes
  <2> QED
    BY <2>1, <2>3, Stutter
<1>4. CASE WaitReturns
  BY <1>4, Stutter DEF WaitReturns, portVars
<1>5. CASE Collect
  BY <1>5, CollectRefines
<1>6. CASE Cancel
  BY <1>6, Stutter DEF Cancel, mainVars, portVars
<1> QED
  BY <1>1, <1>2, <1>3, <1>4, <1>5, <1>6 DEF Next, PingContext, Terminated

\* A ping that begins is one that was promised.
LEMMA InitRefines == Init => Promise!Init
<1> SUFFICES ASSUME Init PROVE Promise!Init
  OBVIOUS
<1>1. /\ {p \in Port : at[p] # "over" \/ socket[p] = "open"} = Port
      /\ {p \in Port : at[p] = "over" /\ socket[p] # "open" /\ verdict[p] = "ok"} = {}
      /\ main = "launch" /\ answer = {}
  BY DEF Init
<1> QED
  BY <1>1 DEF Promise!Init

-----------------------------------------------------------------------------
(* The theorems.                                                           *)

\* The invariant holds in every state: among others no goroutine sends on the
\* closed channel, whatever its capacity.
THEOREM PingInvariant == Spec => []PingInv
  BY InitPing, StepPing, PTL DEF Spec

\* The variables have their types, no port is in the channel twice, and the ping never
\* panics: it does not send on the closed channel.
THEOREM PingTypes == Spec => []TypeOK
<1>1. PingInv => TypeOK
  BY DEF PingInv, TypeOK, MainTypes, Stages, PortTypes, ResultTypes, CancelledType, Cut
<1> QED
  BY <1>1, PingInvariant, PTL

\* A port that had a random packet left when the scanner was stopped does not
\* answer, whatever comes from the network.
THEOREM CutPingsNeverAnswer == Spec => []CutNeverAnswers
<1>1. PingInv => CutNeverAnswers
  BY DEF PingInv, Cut, CutNeverAnswers
<1> QED
  BY <1>1, PingInvariant, PTL

\* The ping implements PingPromise: it returns when every port is settled and
\* every socket closed, with a port that has answered if there is one.
THEOREM PingKeepsPromise == Spec => KeepsPingPromise
<1>1. Spec => Promise!Spec
  BY InitRefines, StepRefines, PingInvariant, PTL DEF Spec, Promise!Spec
<1> QED
  BY <1>1 DEF KeepsPingPromise
=============================================================================
