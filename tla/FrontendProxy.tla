--------------------------- MODULE FrontendProxy ---------------------------
(***************************************************************************)
(* The frontend of core/frontend_proxy.go: Run, the accept loop, a handler *)
(* goroutine per client, and for each backend the handler tries two copier *)
(* goroutines, one per direction, which report to it over a channel.       *)
(*                                                                         *)
(* A handler leaves an attempt as soon as one copier has reported; the     *)
(* other one goes on until the connection it is blocked on wakes it, and   *)
(* the client's connection stays open from one attempt to the next.  The   *)
(* pool is fixed here: RotationEngine models how it changes.               *)
(***************************************************************************)
EXTENDS RoundRobin, Sequences, FiniteSets

CONSTANTS Client,       \* the clients, each of which connects once
          PoolLen,      \* the number of backends
          MaxRetries,   \* maxBackendRetries
          Capacity,     \* the capacity of errChan
          MaxChunks,    \* bound: what a client sends
          MaxFaults     \* bound: how often a backend dies or breaks a connection

ASSUME FrontendAssumption ==
    /\ PoolLen \in Nat \ {0} /\ MaxRetries \in Nat \ {0}
    /\ Capacity \in Nat /\ MaxChunks \in Nat /\ MaxFaults \in Nat

Backend == 0 .. PoolLen - 1
Attempt == 1 .. MaxRetries

VARIABLES
    run,        \* where Run is, and how it returned
    ctxDone,    \* the context of the proxy is cancelled
    nextIndex,  \* the counter of getNextBackend
    healthy,    \* the health flags of the backends
    alive,      \* the backends that accept connections
    at,         \* where the handler of a client is
    attempt,    \* the attempt the handler is in
    tried,      \* the backends it was given, in order
    client,     \* the client's connection
    unread,     \* chunks of the client in the socket buffer of the proxy
    try,        \* the connection, the copiers and the channel of each attempt
    sent,       \* history: chunks a client has sent
    lost,       \* history: chunks read for an attempt that was already over
    faults      \* history: number of faults

poolVars   == <<nextIndex, healthy>>
handleVars == <<at, attempt, tried>>
clientVars == <<client, unread, sent>>
vars == <<run, ctxDone, poolVars, alive, handleVars, clientVars, try, lost, faults>>

-----------------------------------------------------------------------------
(* link: the connection to the backend.  A reset is reported by the first  *)
(* call that meets it; later reads see the end of the stream and later     *)
(* writes fail.  A copier is off, copying, about to report (the result of  *)
(* io.Copy is ok or bad), or over.                                         *)

Copier == {"off", "copy", "ok", "bad", "over"}
Try == [link : {"none", "open", "eof", "reset", "spent", "closed"},
        up : Copier, down : Copier, errs : Seq({"ok", "bad"}), got : BOOLEAN]

Handling == {"pick", "dial", "serve", "judge"}

\* Mutant: the handler counts itself, in its own goroutine.
CountedLate == {c \in Client : at[c] \in Handling \ {"pick"}}

\* wg counts the handlers from Add to Done.
Counted == {c \in Client : at[c] \in Handling}

Init ==
    /\ run = "serve" /\ ctxDone = FALSE
    /\ nextIndex = 0
    /\ healthy = [b \in Backend |-> TRUE]
    /\ alive = Backend
    /\ at = [c \in Client |-> "away"]
    /\ attempt = [c \in Client |-> 1]
    /\ tried = [c \in Client |-> <<>>]
    /\ client = [c \in Client |-> "open"]
    /\ unread = [c \in Client |-> 0]
    /\ try = [c \in Client |-> [a \in Attempt |->
                [link |-> "none", up |-> "off", down |-> "off", errs |-> <<>>,
                 got |-> FALSE]]]
    /\ sent = [c \in Client |-> 0]
    /\ lost = [c \in Client |-> 0]
    /\ faults = 0

-----------------------------------------------------------------------------
(* acceptLoop: one goroutine, so one connection at a time is between       *)
(* Accept and wg.Add.                                                      *)

Accept(c) ==
    /\ run = "serve" /\ at[c] = "away"
    /\ \A d \in Client : at[d] # "accepted"
    /\ at' = [at EXCEPT ![c] = "accepted"]
    /\ UNCHANGED <<run, ctxDone, poolVars, alive, attempt, tried, clientVars, try,
                   lost, faults>>

Spawn(c) ==
    /\ at[c] = "accepted"
    /\ at' = [at EXCEPT ![c] = "pick"]
    /\ UNCHANGED <<run, ctxDone, poolVars, alive, attempt, tried, clientVars, try,
                   lost, faults>>

-----------------------------------------------------------------------------
(* handleConnection and proxyToBackend.                                    *)

\* The first healthy backend from the counter on, the first one otherwise.
NextBackend ==
    LET up == {i \in 0 .. PoolLen - 1 : healthy[Index(nextIndex, i, PoolLen)]} IN
    IF up = {} THEN 0
    ELSE Index(nextIndex, CHOOSE i \in up : \A j \in up : i <= j, PoolLen)

\* getNextBackend; Selection models the call in detail.
Pick(c) ==
    /\ at[c] = "pick"
    /\ nextIndex' = Bump(nextIndex)
    /\ tried' = [tried EXCEPT ![c] = Append(@, NextBackend)]
    /\ at' = [at EXCEPT ![c] = "dial"]
    /\ UNCHANGED <<run, ctxDone, healthy, alive, attempt, clientVars, try, lost,
                   faults>>

On(c) == tried[c][attempt[c]]

\* DialTimeout succeeds, and two copiers start.
Connect(c) ==
    /\ at[c] = "dial" /\ On(c) \in alive
    /\ try' = [try EXCEPT ![c][attempt[c]] =
                 [@ EXCEPT !.link = "open", !.up = "copy", !.down = "copy"]]
    /\ at' = [at EXCEPT ![c] = "serve"]
    /\ UNCHANGED <<run, ctxDone, poolVars, alive, attempt, tried, clientVars, lost,
                   faults>>

Refused(c) ==
    /\ at[c] = "dial" /\ On(c) \notin alive
    /\ at' = [at EXCEPT ![c] = "judge"]
    /\ UNCHANGED <<run, ctxDone, poolVars, alive, attempt, tried, clientVars, try,
                   lost, faults>>

\* Mutant: the connection is not closed.
LeaveOpen(c) == UNCHANGED try

\* The deferred Close of the backend's connection.
Leave(c) == try' = [try EXCEPT ![c][attempt[c]].link = "closed"]

\* The deferred Close of the client's connection, when the handler returns.
Finish(c) == /\ at' = [at EXCEPT ![c] = "done"]
             /\ client' = [client EXCEPT ![c] = "closed"]

\* The select of proxyToBackend takes a result: no error ends the handler.
TakeResult(c) ==
    LET t == try[c][attempt[c]] IN
    /\ at[c] = "serve" /\ t.errs # <<>>
    /\ try' = [try EXCEPT ![c][attempt[c]] =
                 [t EXCEPT !.errs = Tail(t.errs), !.link = "closed"]]
    /\ IF Head(t.errs) = "ok"
       THEN Finish(c)
       ELSE at' = [at EXCEPT ![c] = "judge"] /\ UNCHANGED client
    /\ UNCHANGED <<run, ctxDone, poolVars, alive, attempt, tried, unread, sent,
                   lost, faults>>

\* Mutant: the select has no case for the context.
TakeDoneNever(c) == FALSE

\* It takes the cancellation: the error is the context's.
TakeDone(c) ==
    /\ at[c] = "serve" /\ ctxDone
    /\ Leave(c)
    /\ at' = [at EXCEPT ![c] = "judge"]
    /\ UNCHANGED <<run, ctxDone, poolVars, alive, attempt, tried, clientVars,
                   lost, faults>>

\* Mutant: the condition is off by one.
BlamesLate(c) == attempt[c] > 2

\* attempt >= 1, counted from 0.
Blames(c) == attempt[c] > 1

\* The attempt has failed.  From the second one on the backend is marked.
Judge(c) ==
    /\ at[c] = "judge"
    /\ IF ctxDone
       THEN Finish(c) /\ UNCHANGED <<healthy, attempt>>
       ELSE /\ healthy' = IF Blames(c) THEN [healthy EXCEPT ![On(c)] = FALSE]
                                            ELSE healthy
            /\ IF attempt[c] = MaxRetries
               THEN Finish(c) /\ UNCHANGED attempt
               ELSE /\ attempt' = [attempt EXCEPT ![c] = @ + 1]
                    /\ at' = [at EXCEPT ![c] = "pick"]
                    /\ UNCHANGED client
    /\ UNCHANGED <<run, ctxDone, nextIndex, alive, tried, unread, sent, try, lost,
                   faults>>

Handle(c) == \/ Spawn(c) \/ Pick(c) \/ Connect(c) \/ Refused(c) \/ TakeResult(c)
             \/ TakeDone(c) \/ Judge(c)

-----------------------------------------------------------------------------
(* The copiers of attempt a: io.Copy, and the send on errChan.             *)

\* The call that meets a reset reports it.
Met(end) == IF end = "reset" THEN "spent" ELSE end

Delivers(link) == link \in {"open", "eof"}

\* Mutant: io.Copy goes on after an error of the write.
AfterWriteOn(link) == "copy"

AfterWrite(link) == IF Delivers(link) THEN "copy" ELSE "bad"

\* A chunk of the client goes to the backend, unless that connection is over:
\* then the chunk is gone and io.Copy returns the error of the write.
CopyUp(c, a) ==
    LET t == try[c][a] IN
    /\ t.up = "copy" /\ client[c] # "closed" /\ unread[c] > 0
    /\ unread' = [unread EXCEPT ![c] = @ - 1]
    /\ try' = [try EXCEPT ![c][a] =
                 [t EXCEPT !.up = AfterWrite(t.link), !.got = t.got \/ Delivers(t.link),
                           !.link = Met(t.link)]]
    /\ lost' = IF t.link = "closed" THEN [lost EXCEPT ![c] = @ + 1] ELSE lost
    /\ UNCHANGED <<run, ctxDone, poolVars, alive, handleVars, client, sent, faults>>

\* There is nothing more to read from the client.
EndUp(c, a) ==
    /\ try[c][a].up = "copy"
    /\ \/ client[c] = "closed"
       \/ client[c] \in {"eof", "reset", "spent"} /\ unread[c] = 0
    /\ try' = [try EXCEPT ![c][a].up =
                 IF client[c] \in {"eof", "spent"} THEN "ok" ELSE "bad"]
    /\ client' = [client EXCEPT ![c] = Met(@)]
    /\ UNCHANGED <<run, ctxDone, poolVars, alive, handleVars, unread, sent, lost,
                   faults>>

\* The backend answers what it was sent, and the client does not take it: it
\* has closed or reset its connection.
CopyDown(c, a) ==
    /\ try[c][a].down = "copy" /\ try[c][a].link = "open" /\ try[c][a].got
    /\ client[c] # "open"
    /\ try' = [try EXCEPT ![c][a].down = "bad"]
    /\ client' = [client EXCEPT ![c] = Met(@)]
    /\ UNCHANGED <<run, ctxDone, poolVars, alive, handleVars, unread, sent, lost,
                   faults>>

\* There is nothing more to read from the backend.
EndDown(c, a) ==
    LET t == try[c][a] IN
    /\ t.down = "copy" /\ t.link \in {"eof", "reset", "spent", "closed"}
    /\ try' = [try EXCEPT ![c][a] =
                 [t EXCEPT !.down = IF t.link \in {"eof", "spent"} THEN "ok" ELSE "bad",
                           !.link = Met(t.link)]]
    /\ UNCHANGED <<run, ctxDone, poolVars, alive, handleVars, clientVars, lost,
                   faults>>

\* errChan <- err.
ReportUp(c, a) ==
    LET t == try[c][a] IN
    /\ t.up \in {"ok", "bad"} /\ Len(t.errs) < Capacity
    /\ try' = [try EXCEPT ![c][a] =
                 [t EXCEPT !.errs = Append(t.errs, t.up), !.up = "over"]]
    /\ UNCHANGED <<run, ctxDone, poolVars, alive, handleVars, clientVars, lost,
                   faults>>

ReportDown(c, a) ==
    LET t == try[c][a] IN
    /\ t.down \in {"ok", "bad"} /\ Len(t.errs) < Capacity
    /\ try' = [try EXCEPT ![c][a] =
                 [t EXCEPT !.errs = Append(t.errs, t.down), !.down = "over"]]
    /\ UNCHANGED <<run, ctxDone, poolVars, alive, handleVars, clientVars, lost,
                   faults>>

Up(c, a)   == CopyUp(c, a) \/ EndUp(c, a) \/ ReportUp(c, a)
Down(c, a) == CopyDown(c, a) \/ EndDown(c, a) \/ ReportDown(c, a)

-----------------------------------------------------------------------------
(* Run.                                                                    *)

\* The engine is stopped.
Cancel ==
    /\ ~ctxDone
    /\ ctxDone' = TRUE
    /\ UNCHANGED <<run, poolVars, alive, handleVars, clientVars, try, lost, faults>>

CloseListener ==
    /\ run = "serve" /\ ctxDone
    /\ run' = "wait"
    /\ UNCHANGED <<ctxDone, poolVars, alive, handleVars, clientVars, try, lost,
                   faults>>

\* wg.Wait returns, or the 30 seconds are over.
WaitReturns ==
    /\ run = "wait" /\ Counted = {}
    /\ run' = "graceful"
    /\ UNCHANGED <<ctxDone, poolVars, alive, handleVars, clientVars, try, lost,
                   faults>>

WaitTimesOut ==
    /\ run = "wait" /\ Counted # {}
    /\ run' = "timeout"
    /\ UNCHANGED <<ctxDone, poolVars, alive, handleVars, clientVars, try, lost,
                   faults>>

-----------------------------------------------------------------------------
(* Clients and backends.                                                   *)

Send(c) ==
    /\ client[c] = "open" /\ sent[c] < MaxChunks
    /\ sent' = [sent EXCEPT ![c] = @ + 1]
    /\ unread' = [unread EXCEPT ![c] = @ + 1]
    /\ UNCHANGED <<run, ctxDone, poolVars, alive, handleVars, client, try, lost,
                   faults>>

\* The client ends its stream, or resets the connection.
Hang(c) ==
    /\ client[c] = "open" /\ at[c] # "away"
    /\ \E how \in {"eof", "reset"} : client' = [client EXCEPT ![c] = how]
    /\ UNCHANGED <<run, ctxDone, poolVars, alive, handleVars, unread, sent, try,
                   lost, faults>>

\* A backend ends the session in order.
EndSession(c, a) ==
    /\ try[c][a].link = "open"
    /\ try' = [try EXCEPT ![c][a].link = "eof"]
    /\ UNCHANGED <<run, ctxDone, poolVars, alive, handleVars, clientVars, lost,
                   faults>>

\* A backend breaks one connection.
BreakLink(c, a) ==
    /\ try[c][a].link = "open" /\ faults < MaxFaults
    /\ try' = [try EXCEPT ![c][a].link = "reset"]
    /\ faults' = faults + 1
    /\ UNCHANGED <<run, ctxDone, poolVars, alive, handleVars, clientVars, lost>>

\* A backend stops listening; the connections it has may live on.
Die(b) ==
    /\ b \in alive /\ faults < MaxFaults
    /\ alive' = alive \ {b}
    /\ faults' = faults + 1
    /\ UNCHANGED <<run, ctxDone, poolVars, handleVars, clientVars, try, lost>>

-----------------------------------------------------------------------------
CopiersOver(c) == \A a \in Attempt : /\ try[c][a].up \in {"off", "over"}
                                     /\ try[c][a].down \in {"off", "over"}

Drained == \A c \in Client : at[c] \in {"away", "done"} /\ CopiersOver(c)

Returned == run \in {"graceful", "timeout"}

Terminated == Returned /\ Drained /\ UNCHANGED vars

Next ==
    \/ \E c \in Client : Accept(c) \/ Handle(c) \/ Send(c) \/ Hang(c)
    \/ \E c \in Client, a \in Attempt :
          Up(c, a) \/ Down(c, a) \/ EndSession(c, a) \/ BreakLink(c, a)
    \/ \E b \in Backend : Die(b)
    \/ Cancel \/ CloseListener \/ WaitReturns \/ WaitTimesOut
    \/ Terminated

Spec == Init /\ [][Next]_vars

\* The goroutines of the proxy are scheduled and its timer fires; nothing is
\* assumed of the clients, of the backends or of who cancels the context.  A
\* handler and a copier take finitely many steps each, since a client sends a
\* bounded number of chunks, so fairness to all of them together is enough.
Fairness ==
    /\ WF_vars(\E c \in Client : Handle(c) \/ \E a \in Attempt : Up(c, a) \/ Down(c, a))
    /\ WF_vars(CloseListener \/ WaitReturns \/ WaitTimesOut)

FairSpec == Spec /\ Fairness

-----------------------------------------------------------------------------
(* Properties.                                                             *)

\* The variables have their types, and a channel never holds more than its
\* capacity.
TypeOK ==
    /\ run \in {"serve", "wait", "graceful", "timeout"} /\ ctxDone \in BOOLEAN
    /\ nextIndex \in 0 .. Modulus - 1 /\ healthy \in [Backend -> BOOLEAN]
    /\ alive \subseteq Backend /\ faults \in 0 .. MaxFaults
    /\ at \in [Client -> Handling \cup {"away", "accepted", "done"}]
    /\ attempt \in [Client -> Attempt] /\ tried \in [Client -> Seq(Backend)]
    /\ client \in [Client -> {"open", "eof", "reset", "spent", "closed"}]
    /\ unread \in [Client -> 0 .. MaxChunks] /\ sent \in [Client -> 0 .. MaxChunks]
    /\ lost \in [Client -> 0 .. MaxChunks]
    /\ try \in [Client -> [Attempt -> Try]]
    /\ \A c \in Client, a \in Attempt : Len(try[c][a].errs) <= Capacity

\* Run may miss the connection whose handler the accept loop is about to count,
\* but no other: when it says that all connections are closed, at most one is
\* not.
AtMostOneSlips ==
    run = "graceful" =>
        Cardinality({c \in Client : at[c] \notin {"away", "done"}}) <= 1

\* The last retry of c goes to the backend of the one before.
Repeats(c) == /\ at[c] = "dial" /\ attempt[c] = MaxRetries /\ MaxRetries > 2
              /\ tried[c][MaxRetries] = tried[c][MaxRetries - 1]

\* A client is given up on only after another backend was tried, unless every
\* backend is marked unhealthy: however many clients share the counter, the call
\* of getNextBackend for the last retry repeats the backend of the one before
\* only when it finds no healthy one.  A call whose additions wrap around is left
\* out: unless the length of the pool divides 2^32 it can pass over a healthy
\* backend, so that the last retry does repeat the one before.
RetryElsewhere ==
    [][\A c \in Client : (Pick(c) /\ Repeats(c)' /\ NoWrap(nextIndex, PoolLen))
           => \A b \in Backend : ~healthy[b]]_vars

\* When a handler has returned, the copiers of all its attempts end, those of
\* the attempts it abandoned too, however its last attempt ended.
NoCopierLeaks == \A c \in Client : (at[c] = "done") ~> CopiersOver(c)

\* After the context is cancelled Run returns and every handler and copier
\* ends, whatever the clients and backends do.
ShutdownDrains == ctxDone ~> (Returned /\ Drained)

\* core/frontend_proxy.go:184 says of the copier that has not finished that it
\* "will finish when connection closes", but the one that reads the client
\* sleeps on the client's connection, and takes the next chunk away from the
\* attempt that is being served.  It does that once: whatever a client sends and
\* however its attempts end, each abandoned one costs it a chunk at most.
TheftIsBounded ==
    \A c \in Client :
        lost[c] <= Cardinality({a \in Attempt : try[c][a].link = "closed"})
=============================================================================
