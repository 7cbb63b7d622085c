------------------------------ MODULE Scanner ------------------------------
(***************************************************************************)
(* A scan: core.RunScan, which the run command calls, or the scanner       *)
(* command; the goroutine of ipscanner.IPScanner.Run, the rounds of the    *)
(* scanner engine, with one pinging goroutine per address generator, the   *)
(* queue of what they find (ipscanner/engine/queue.go) and the endpoint    *)
(* cache they fill.                                                        *)
(*                                                                         *)
(* RunScan polls the queue while the goroutines enqueue, and stops the     *)
(* scanner when it returns; pings in flight then still finish.  The        *)
(* scanner command waits for Run to end, which an interrupt makes it do.   *)
(* The queue is kept sorted by RTT, so a set with the RTTs in it stands    *)
(* for it.                                                                 *)
(***************************************************************************)
EXTENDS IPGenerator, FiniteSets, ScanResult

CONSTANTS Prefixes,    \* network.ScannerPrefixes()
          RTT,         \* the round-trip times a ping can measure
          MaxRTT,      \* MaxDesirableRTT
          RunQueue,    \* IPQueueSize of a scan of the run command
          CommandQueue, \* and of the scanner command
          OnFile       \* the endpoints the cache file held at the start

ASSUME ScannerAssumption ==
    /\ IsFiniteSet(Prefixes) /\ Prefixes \subseteq Prefix
    \* No address is in two of them; those of IPv4 are other numbers than those of IPv6.
    /\ \A p, q \in Prefixes : p # q => Last(p) < q.addr \/ Last(q) < p.addr
    /\ RTT \subseteq Nat /\ MaxRTT \in Nat
    /\ RunQueue \in Nat \ {0} /\ CommandQueue \in Nat \ {0}

\* One port of an address, the first to report, stands for it.
Endpoint == Address
Info == [ep : Endpoint, rtt : RTT]

ASSUME FileAssumption == OnFile \subseteq Endpoint

VARIABLES
    command,   \* run or scanner
    families,  \* UseIPv4 and UseIPv6: the families scanned, as values of v6
    main,      \* where RunScan or the command is: scanning, found or failed
    result,    \* the endpoints it returned or listed
    interrupted, \* the context of the scanner command is cancelled
    scan,      \* where the goroutine of IPScanner.Run is; new: no engine yet
    engDone,   \* the context of the scanner's engine is cancelled
    gen,       \* the generators, one per prefix
    ip,        \* the address a generator's goroutine is pinging
    pinger,    \* where the goroutine of a generator is
    info,      \* what its last ping found; nothing: {}
    queue,     \* the queue's items
    reserved,  \* its reserved items
    ideal,     \* inIdealMode
    signals,   \* what is in the channel available
    cached,    \* the addresses in the endpoint cache
    file,      \* the addresses in the cache file
    offered    \* history: what was given to Enqueue

mainVars  == <<command, families, main, result, interrupted>>
genVars   == <<gen, ip>>
queueVars == <<queue, reserved, ideal, signals>>
cacheVars == <<cached, file>>
vars == <<mainVars, scan, engDone, genVars, pinger, info, queueVars, cacheVars, offered>>

Init ==
    /\ command \in {"run", "scanner"}
    /\ families \in SUBSET BOOLEAN \ {{}}
    /\ main = "scanning" /\ result = <<>> /\ interrupted = FALSE
    /\ scan = "new" /\ engDone = FALSE
    /\ gen = [g \in Prefixes |-> NewIpGenerator(<<g>>)]
    /\ ip = [g \in Prefixes |-> g.addr]
    /\ pinger = [g \in Prefixes |-> "done"]
    /\ info = [g \in Prefixes |-> {}]
    /\ queue = {} /\ reserved = {} /\ ideal = FALSE /\ signals = 0
    /\ cached = OnFile /\ file = OnFile
    /\ offered = {}

-----------------------------------------------------------------------------
(* IPScanner.Run and Engine.Run.                                           *)

\* The engine is made and becomes visible to RunScan.  Its context is a child of
\* the command's, or of none.
Create ==
    /\ scan = "new"
    /\ scan' = "init"
    /\ engDone' = interrupted
    /\ UNCHANGED <<mainVars, genVars, pinger, info, queueVars, cacheVars, offered>>

\* IPQueueSize
QueueSize == IF command = "run" THEN RunQueue ELSE CommandQueue

\* IPQueue.Init: the send is one on a buffered channel.
InitQueue ==
    /\ scan = "init"
    /\ IF ideal THEN UNCHANGED signals
                ELSE signals < QueueSize /\ signals' = signals + 1
    /\ scan' = "loop"
    /\ UNCHANGED <<mainVars, engDone, genVars, pinger, info, queue, reserved, ideal,
                   cacheVars, offered>>

\* Mutant: the loop does not look at the context.
StopsNever == FALSE

Stops == engDone

\* NewScannerEngine passes over the prefixes of a family that is not wanted.
Generators == {g \in Prefixes : g.v6 \in families}

\* A round: every generator is asked for its next address, in a goroutine.  One
\* that has none left makes its goroutine end at once.
Round ==
    LET asked == {g \in Generators : More(gen[g])} IN
    /\ scan = "loop" /\ ~Stops
    /\ scan' = "round"
    /\ pinger' = [g \in Prefixes |-> IF g \in asked THEN "ping" ELSE "done"]
    /\ ip' = [g \in Prefixes |-> IF g \in asked THEN NextIP(gen[g]) ELSE ip[g]]
    /\ gen' = [g \in Prefixes |-> IF g \in Generators THEN Advanced(gen[g]) ELSE gen[g]]
    /\ UNCHANGED <<mainVars, engDone, info, queueVars, cacheVars, offered>>

\* wg.Wait
RoundOver ==
    /\ scan = "round" /\ \A g \in Prefixes : pinger[g] = "done"
    /\ scan' = "loop"
    /\ UNCHANGED <<mainVars, engDone, genVars, pinger, info, queueVars, cacheVars, offered>>

EngineStops ==
    /\ scan = "loop" /\ Stops
    /\ scan' = "save"
    /\ UNCHANGED <<mainVars, engDone, genVars, pinger, info, queueVars, cacheVars, offered>>

\* SaveCache, and the goroutine is over.  A failure is only logged.
SaveCache ==
    /\ scan = "save"
    /\ \/ file' = cached /\ scan' = "over"
       \/ file' = file /\ scan' = "unsaved"
    /\ UNCHANGED <<mainVars, engDone, genVars, pinger, info, queueVars, cached, offered>>

-----------------------------------------------------------------------------
(* pingAddr, in the goroutine of generator g.                              *)

\* DoPing: no port of the address answers, or one does.
PingFails(g) ==
    /\ pinger[g] = "ping"
    /\ pinger' = [pinger EXCEPT ![g] = "done"]
    /\ info' = [info EXCEPT ![g] = {}]
    /\ UNCHANGED <<mainVars, scan, engDone, genVars, queueVars, cacheVars, offered>>

PingAnswers(g) ==
    /\ pinger[g] = "ping"
    /\ \E r \in RTT : info' = [info EXCEPT ![g] = {[ep |-> ip[g], rtt |-> r]}]
    /\ pinger' = [pinger EXCEPT ![g] = "cache"]
    /\ UNCHANGED <<mainVars, scan, engDone, genVars, queueVars, cacheVars, offered>>

\* Mutant: the endpoint is not cached.
CachedWithout(ep) == cached

CachedWith(ep) == cached \cup {ep}

\* Whatever answers is cached; what is slow is not enqueued.
SaveEndpoint(g) ==
    /\ pinger[g] = "cache"
    /\ \E i \in info[g] :
          /\ cached' = CachedWith(i.ep)
          /\ pinger' = [pinger EXCEPT ![g] = IF i.rtt < MaxRTT THEN "enqueue" ELSE "done"]
    /\ UNCHANGED <<mainVars, scan, engDone, genVars, info, queueVars, file, offered>>

\* Mutant: the queue counts as full one item too late.
FullLate == Cardinality(queue) > QueueSize

Full == Cardinality(queue) >= QueueSize

Slowest == {i \in queue : \A j \in queue : j.rtt <= i.rtt}

Queued(i) == \E j \in queue : j.ep = i.ep

\* The body of Enqueue for a new item of a queue that is not empty.
Insert(i) ==
    \/ i.rtt > MaxRTT /\ UNCHANGED <<queue, reserved>>
    \/ /\ i.rtt <= MaxRTT /\ ~Full
       /\ queue' = queue \cup {i}
       /\ UNCHANGED reserved
    \/ /\ i.rtt <= MaxRTT /\ Full /\ \E j \in queue : i.rtt < j.rtt
       /\ \E j \in Slowest : queue' = queue \ {j}
       /\ UNCHANGED reserved
    \/ /\ i.rtt <= MaxRTT /\ Full /\ \A j \in queue : i.rtt >= j.rtt
       /\ reserved' = reserved \cup {i}
       /\ UNCHANGED queue

\* IPQueue.Enqueue, under the queue's lock.
Enqueue(g) ==
    /\ pinger[g] = "enqueue"
    /\ pinger' = [pinger EXCEPT ![g] = "done"]
    /\ offered' = offered \cup info[g]
    /\ \E i \in info[g] :
          \/ Queued(i) /\ UNCHANGED <<queue, reserved, ideal>>
          \/ ~Queued(i) /\ queue = {} /\ queue' = {i} /\ UNCHANGED <<reserved, ideal>>
          \/ /\ ~Queued(i) /\ queue # {}
             /\ Insert(i)
             /\ ideal' = (ideal \/ (/\ \A j \in queue' : j.rtt <= MaxRTT
                                    /\ Cardinality(queue') >= QueueSize))
    /\ UNCHANGED <<mainVars, scan, engDone, genVars, info, signals, cacheVars>>

Ping(g) == PingFails(g) \/ PingAnswers(g) \/ SaveEndpoint(g) \/ Enqueue(g)

-----------------------------------------------------------------------------
(* RunScan, and the scanner command.                                       *)

\* Mutants: the same item may come twice; the items are sorted downwards.
AvailableTwice(n) == {s \in [1 .. n -> queue] : \A i, j \in 1 .. n :
                                                i < j => s[i].rtt <= s[j].rtt}
AvailableDown(n) == {s \in [1 .. n -> queue] :
                       /\ \A i, j \in 1 .. n : i < j => s[i].rtt >= s[j].rtt /\ s[i] # s[j]
                       /\ \A i \in queue \ {s[j] : j \in 1 .. n} : s[n].rtt >= i.rtt}

\* The first n of AvailableIPs(false): the queue sorted by RTT.
Available(n) == {s \in [1 .. n -> queue] :
                   /\ \A i, j \in 1 .. n : i < j => s[i].rtt <= s[j].rtt /\ s[i] # s[j]
                   /\ \A i \in queue \ {s[j] : j \in 1 .. n} : s[n].rtt <= i.rtt}

Take(n) == \E s \in Available(n) : result' = [i \in 1 .. n |-> s[i].ep]

\* IPScanner.Stop: it finds no engine before Create.
StopScanner == engDone' = (scan # "new")

\* The tick that finds more than one endpoint: it may be taken although the
\* context is done.
CheckFinds ==
    /\ command = "run" /\ main = "scanning" /\ Cardinality(queue) > 1
    /\ Take(2)
    /\ main' = "found"
    /\ StopScanner
    /\ UNCHANGED <<command, families, interrupted, scan, genVars, pinger, info,
                   queueVars, cacheVars, offered>>

\* The context is done: the minute is over, or the program is stopped.
CheckGivesUp ==
    /\ command = "run" /\ main = "scanning"
    /\ main' = "failed"
    /\ StopScanner
    /\ UNCHANGED <<command, families, result, interrupted, scan, genVars, pinger,
                   info, queueVars, cacheVars, offered>>

\* The scanner command is interrupted: its context is the scanner's own.
Interrupt ==
    /\ command = "scanner" /\ ~interrupted
    /\ interrupted' = TRUE
    /\ engDone' = (scan # "new")
    /\ UNCHANGED <<command, families, main, result, scan, genVars, pinger, info,
                   queueVars, cacheVars, offered>>

Over == scan \in {"over", "unsaved"}

\* Run has returned, and the command lists what it finds in the queue.
List ==
    /\ command = "scanner" /\ main = "scanning" /\ Over
    /\ IF queue = {} THEN main' = "failed" /\ UNCHANGED result
                     ELSE main' = "found" /\ Take(Cardinality(queue))
    /\ UNCHANGED <<command, families, interrupted, scan, engDone, genVars, pinger,
                   info, queueVars, cacheVars, offered>>

-----------------------------------------------------------------------------
Terminated == Over /\ main # "scanning" /\ UNCHANGED vars

Scanning == Create \/ InitQueue \/ Round \/ RoundOver \/ EngineStops \/ SaveCache

Next == \/ Scanning
        \/ \E g \in Prefixes : Ping(g)
        \/ CheckFinds \/ CheckGivesUp \/ Interrupt \/ List
        \/ Terminated

Spec == Init /\ [][Next]_vars

\* Goroutines are scheduled, a ping ends after its timeout at the latest, and
\* so does RunScan.  Nobody need interrupt the scanner command.
Fairness == /\ WF_vars(Scanning)
            /\ \A g \in Prefixes : WF_vars(Ping(g))
            /\ WF_vars(CheckFinds \/ CheckGivesUp \/ List)

FairSpec == Spec /\ Fairness

-----------------------------------------------------------------------------
\* The variables have their types.
TypeOK ==
    /\ command \in {"run", "scanner"} /\ families \subseteq BOOLEAN
    /\ main \in {"scanning", "found", "failed"} /\ interrupted \in BOOLEAN
    /\ result \in Seq(Endpoint) /\ Len(result) <= QueueSize
    /\ scan \in {"new", "init", "loop", "round", "save", "over", "unsaved"}
    /\ engDone \in BOOLEAN
    /\ \A g \in Prefixes : /\ ip[g] \in Address
                            /\ gen[g].currentRange \in 1 .. 2
                            /\ gen[g].ranges[1].current \in g.addr .. (Last(g) + 1)
    /\ pinger \in [Prefixes -> {"ping", "cache", "enqueue", "done"}]
    /\ \A g \in Prefixes : info[g] \subseteq Info
    /\ queue \subseteq Info /\ reserved \subseteq Info /\ offered \subseteq Info
    /\ ideal \in BOOLEAN /\ signals \in 0 .. QueueSize
    /\ cached \subseteq Endpoint /\ file \subseteq Endpoint

\* The queue holds fast endpoints only, each once and no more than its size,
\* in whatever order the goroutines of a round come to enqueue.
QueueSound ==
    /\ \A i \in queue : i.rtt < MaxRTT
    /\ \A i, j \in queue : i.ep = j.ep => i = j
    /\ Cardinality(queue) <= QueueSize

\* A scan stays in the prefixes of the families it was asked for, and leaves no
\* address of them out: the addresses a generator has yielded are those of its
\* prefix, from the given one on, and all of them when it has no more.
SamePrefix(a, g) == a \div Hosts(g) = g.addr \div Hosts(g)

ScansItsPrefixes ==
    /\ \A i \in offered : \E g \in Prefixes : SamePrefix(i.ep, g) /\ g.v6 \in families
    /\ \A g \in Prefixes : \A a \in Address :
          LET upTo == gen[g].ranges[1].current IN
          /\ a \in g.addr .. (upTo - 1) => SamePrefix(a, g)
          /\ (~More(gen[g]) /\ SamePrefix(a, g) /\ a >= g.addr) => a < upTo

\* The n fastest of the infos in S.
Fastest(S, n) == {s \in [1 .. n -> S] :
                    /\ \A i, j \in 1 .. n : i < j => s[i].rtt <= s[j].rtt /\ s[i] # s[j]
                    /\ \A i \in S : (\E j \in 1 .. n : i = s[j]) \/ s[n].rtt <= i.rtt}

\* As long as no more was offered than the queue can hold, a scan of the run
\* command returns the two fastest of all the endpoints that were offered up to
\* that moment, and the scanner command lists all that were ever offered,
\* fastest first.
FastestFound ==
    [][(main = "scanning" /\ main' = "found" /\ Cardinality(offered) <= QueueSize)
         => LET n == IF command = "run" THEN 2 ELSE Cardinality(offered) IN
            \E s \in Fastest(offered, n) : result' = [i \in 1 .. n |-> s[i].ep]]_vars

\* The endpoints a scan returned or listed are in the cache, and in the file too
\* when the scanner has stopped and could write it.
ResultIsSaved ==
    main = "found" =>
        \A i \in DOMAIN result : /\ result[i] \in cached
                                 /\ scan = "over" => result[i] \in file

\* A scanner that was stopped ends, in the middle of a round too, and so does a
\* scanner command that is interrupted at any moment, before its engine exists
\* too.
StoppedScanEnds == (engDone \/ interrupted) ~> (Over /\ main # "scanning")

\* To the engine of the run command a scan is what ScanPromise says.
Promise == INSTANCE ScanPromise WITH
    status <- IF main = "scanning" \/ command # "run" THEN "running" ELSE main,
    pinged <- {i.ep : i \in offered},
    found  <- IF command = "run" THEN result ELSE <<>>

KeepsPromise == Promise!Spec
=============================================================================
