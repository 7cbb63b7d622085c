# A TLA+ verification of cloudflare-warp

This directory models the concurrent core of the program in `src/` (a
Cloudflare WARP client with a rotating SOCKS5 proxy) in TLA+. TLC checks the
models on small instances, and TLAPS proves the safety properties they check for
every value of the constants. File and line references are to `src/`.

## 1. The system

| Part | Code | State it keeps | Operations |
|---|---|---|---|
| Rotation engine | `core/rotation.go` | the pool (`backends`), the `Backend` objects with their contexts, health flags and listeners, one identity directory per port | initial filling, health monitor, replacers, rotator, clean-up of directories, `Stop` |
| Backend selection | `core/rotation.go` `getNextBackend` | the counter `nextIndex` shared by all callers | round-robin scan over the healthy members, fallback on the first |
| Frontend proxy | `core/frontend_proxy.go` | client connections, attempts, copiers, result channels, the wait group | accept, handle with retries, copy both ways, shut down within 30 s |
| WARP engine, `run` command | `core/engine.go`, `cmd/run.go` | the list of endpoints, the proxy and its context | scan, choose, try, drop, wait, stop |
| Scan, `scanner` command | `core/scanner.go`, `cmd/scanner.go`, `ipscanner/` | generators, pinging goroutines, the IP queue, the endpoint cache and its file | rounds of pings, enqueue, poll, stop, save |
| Endpoint cache | `core/cache/cache.go` | endpoints with failure counts, a JSON file | save, record failure, pick at random, load and save |
| Identity store | `cloudflare/identity.go`, `cmd/generate.go`, `update.go`, `status.go` | two files per identity, the account at the API | register, load, save, update |
| API client, TLS dialer | `cloudflare/api.go`, `cloudflare/network/tls.go` | the connections of a process | dial with retries over three kinds of handshake, request, answer |
| IP generator, endpoint lists | `ipscanner/ipgenerator`, `cloudflare/network/endpoint.go`, `utils` | the position in a prefix | next address |
| WARP ping | `ipscanner/ping` | a goroutine and a socket per port, a channel | handshake with an address on every port |
| WireGuard configuration, keys, logging, version, formatting | `core/wireguard.go`, `core/config.go`, `cloudflare/crypto`, `log`, `internal`, `cmd/shared.go` | none | stateless |

How the parts interact:

* `RotationEngine.Run` starts the backends, then the goroutines of the monitor
  and the rotator, then the frontend. The monitor starts one replacer goroutine
  per health check that finds something; each instance of the `wiresocks`
  library runs in a goroutine of its own. They share the pool under `poolMu`
  and the health flags without any lock.
* Each frontend handler calls `getNextBackend` and may lower the flag of the
  backend it got. The monitor reads the flag and throws the backend out.
* A backend's identity is a directory named after its port; a replacement
  starts on the same port, a rotation on the port plus 100.
* `Engine.Run` shares the endpoint cache with the scanner, which fills it; all
  commands share the cache's file.
* The scanner's engine pings an address through `WarpPing`, with a context that
  ends when the scanner is stopped.
* The identity store makes its requests through a `WarpAPI`, each with its own
  `http.Transport`, which dials through `TLSDial`.
* `RunScan` polls the scanner's queue while its goroutines enqueue, and stops
  the scanner through a field that the scanner's goroutine sets.

What is hard here, and makes the correctness of each part:

* **Rotation engine.** `startBackend` takes up to 30 seconds and runs outside
  the lock, so indices and pointers taken before it are used after it, while
  the monitor, replacers and the rotator change the pool. The pool must not
  outgrow its size, broken members must leave it, every member must be rotated,
  no backend may be forgotten while it runs, rotation must be invisible to
  clients, and `Stop` must end everything.
* **Selection.** The flags fall and other callers advance the counter during a
  scan. The fallback must be the last resort, and the load balanced.
* **Frontend.** The copiers of an abandoned attempt live on until their
  connection wakes them, and the client's connection outlives the attempt.
  Nothing may leak, shutdown must end, and a retry must go elsewhere.
* **WARP engine.** The proxy's life is known to the engine only through a
  context. It must give up only when it has nothing left and return on `Stop`.
* **Scan.** Pings end in any order, also after the scan has been stopped. What
  it returns must be sound, fast and in the cache; it must end when stopped.
* **Ping.** One goroutine per port, each of which may meet silence, junk, a
  refusal or the end of the context. The ping must return whatever happens, with
  an answer if there is one, and leave nothing behind.
* **Cache and identity store.** Crashes between two writes; commands that write
  the same file; a device registered and then forgotten; failure counts nobody
  raises.
* **API client.** Nine dials for one connection, and an error that is dropped.

`PROJECT.json` lists each hazard at its line with the properties that bear on
it.

## 2. The modules

| Module | Models |
|---|---|
| `RotationEngine` | the rotation engine, one action per critical section or step of `startBackend` |
| `RotationEngineProofs` | theorems about it |
| `RoundRobin` | the arithmetic of the shared counter, used by the next two |
| `Selection` | concurrent calls of `getNextBackend`, one action per turn of its loop |
| `SelectionProofs` | theorems about it |
| `FrontendProxy` | the frontend, its handlers and its copiers |
| `FrontendProxyProofs` | theorems about it |
| `ScanResult` | what a scan may return: the contract between the next three |
| `WarpEngine` | `Engine.Run` and the proxy it starts; a scan is one step |
| `WarpEngineProofs` | theorems about it |
| `IPGenerator` | the arithmetic of prefixes, ranges and generators, used by the next one |
| `Scanner` | `RunScan` and the `scanner` command, the scanner's goroutines, the queue, cache and file |
| `ScanPromise` | the abstract specification of a scan, which `Scanner` implements |
| `ScannerProofs` | theorems about `Scanner` and `IPGenerator`, the refinement of `ScanPromise` among them |
| `WarpPing` | the ping of one address on all ports; to `Scanner` it is one step |
| `PingPromise` | the abstract specification of a ping, which `WarpPing` implements |
| `WarpPingProofs` | theorems about `WarpPing`, the refinement of `PingPromise` among them |
| `EndpointCache` | the list of each command and the file they share |
| `EndpointCacheProofs` | theorems about it |
| `ApiClient` | a `WarpAPI`, the dials of `TLSDial` and the connections of a process |
| `IdentityStore` | the identity of one directory: load, create, update, save, crashes; its requests are those of an `ApiClient` |
| `IdentityStoreProofs` | theorems about `IdentityStore` and `ApiClient` |
| `MC...` | the instances TLC checks: symmetry and views |

### RotationEngine

`pool`, `inst`, `disk` are the slice, the `Backend` objects and the identity
directories. A thread (`Main` for `Run`, `Rotator`, `Replacer` 1, 2, ...)
that starts backends is a list `todo` of ports, the `step` of `startBackend`
it is at and the backend `cur` it has created. All of them share the actions
`StartSteps`; `AppendBackend` and `SwapBackends` are where they publish the
result. `MonitorCheck` is the whole critical section of
`checkAndReplaceUnhealthyBackends`. `Library` is a wiresocks instance:
listening, failing (the flag falls before the context is cancelled, as in the
code), closing once its context is done.

Abstractions. The object of a backend is taken from a fixed set and may be
used again once nothing refers to it (`Garbage`), and so may an identity that
is neither on disk nor in use. Loading or registering and saving an identity is
one step. A readiness probe is a dial answered by *whoever* listens on the port.
Exit addresses are only logged and are left out. Time is left out: timers may
fire at any moment. There are `PoolSize` replacers; the theorem
`ReplacersSuffice` shows that this loses no behaviour.

Bounds. `Backend` and `Identity` bound the heap, `MaxFailures` the failures of
the environment (a start, a listener, a directory that cannot be removed, a
flag lowered by the frontend), `MaxPort` and `PortStart` how often the engine
can rotate, for the port grows by `TempOffset` = 100 each time. `MayStop` says
whether the engine is stopped.

### Selection and RoundRobin

`Modulus` stands for 2^32; `Index` adds and reduces in the order of the code,
so wrap-around behaves as there. A flag may fall in the middle of a scan
(no lock is needed for that); a member is replaced only when no scan is under
way (the write lock). `picks` and `quiet` are history.

### FrontendProxy

`at` is where the handler of a client is, `try` what each of its attempts
consists of: the backend connection, two copiers and the result channel.
`io.Copy` moves one chunk per step; a chunk read from the client is lost when
the backend's connection is closed. The model of a TCP connection is the usual
one: a reset is reported once, to the first call that meets it, and later reads
see the end of the stream. The pool is fixed and not empty (`RotationEngine` is
where it changes), deadlines of the handshake are left out since they are
cleared before the first read, and the data from a backend is one chunk.

### WarpEngine, Scanner, IPGenerator, ScanPromise

`WarpEngine.Init` has the states the `run` command can build: endpoints of the
user, one of the cache, two default ones, or none and a scan; a scan in
`WarpEngine` is one step that adds any endpoints to the cache (late answers
included) and returns two of them. `Scanner` refines that step: a goroutine per
generator and round, each in four steps (ping, cache, enqueue, done); the queue
as a set, since it is sorted at every use; `RunScan` as the tick that finds two
endpoints or gives up. `command` says who scans: the `scanner` command instead
gives the scanner its own context, which an interrupt cancels, waits for `Run`
and lists the queue. One port stands for an address. `Promise` maps the
endpoints *offered* to the queue to those that have answered fast enough.

A generator is a record of ranges and an index, as in the code; addresses are
numbers of `Width` bits, and conversions between addresses and big integers,
which are exact, are left out. `Dequeue`, `Expire` and the reserved queue's
reader have no caller and are not modelled.

### WarpPing and PingPromise

`at` is where the goroutine of a port is, `left` the random packets it has still
to send, `inbox` the one datagram (or refusal) its `Read` will return. `results`
is the channel with its capacity; a send on it after `close` would panic. The
handshake's cryptography is left out: a datagram is a valid response, which can
only come after the initiation, or it is not. `cut` is history: the ports that
had packets left when the context was cancelled. `PingPromise` says what the
engine relies on: every port is settled before the ping returns, no socket or
goroutine stays, the result is a port that has answered, and an error only when
none has.

### EndpointCache

`mem` is the list of each command, `file` the file: missing, empty, torn (it
does not parse) or whole. A command loads when it starts and when it makes a
scanner, adds what its pings find, and writes when the scan has stopped; it may
end at any step, in the middle of a write too. `WriteFile` is two steps; over
what another command has written meanwhile a shorter list may leave a tail.
`due`, `kept`, `rewritten` and `cutShort` are history: `due` grows with each load
and each find and shrinks only when an endpoint has failed too often, and
`rewritten` is what of it another command has left out of a file it wrote between
the two loads. `RecordFailure` and `RecordSuccess` are
modelled although no command calls them, since the cache's promise is about
them.

### ApiClient and IdentityStore

`call` is where a request is, `link` the connection of the latest client, `open`
how many connections the process has, `dials` how many of the nine dials have
failed. `Given` is net/http's reaction to what `TLSDial` returns. A request is
handled by the API in one step and answered in another; the process may fail in
between, which is a lost answer. net/http may keep the connection for the next
request of the same client, and the API may close it.

`reg` and `conf` are the two files: missing, incomplete or whole. The commands
`generate` (standing for `run` and `rotate` too), `update` with a name, a license
or both, `status` and `scanner` run one after another; `load` counts their calls
of `LoadIdentity`, for `LoadOrCreateIdentity` and `update` load twice before they
create or change anything. A load may also fail for a passing reason, which
makes the code create a new identity. One command runs at a time; see section 5
for two.

## 3. What is checked

Passing runs:

| Run | Instance | Properties |
|---|---|---|
| `calm` | pool of 3, ports from 65330 on (two rotations of each member before the range ends), leftover directories on a port of the pool and on one a rotation will use, no failures, never stopped | `TypeOK`; `CalmService`: the pool is full, every member is selected and answers on its own port, ports and identities are distinct and on disk, in the middle of a rotation too; `CalmNoOrphan`: no running backend is forgotten; `RotatesEvenly`: no member is rotated twice before another one is rotated once |
| `faults` | pool of 2, 6 objects, one failure anywhere, one rotation | `PoolBound`: pool members and starts under way that will be appended are at most `PoolSize`; `LosesOnePlace`: a failed start costs its own place, and no other step costs any |
| `repairs` | pool of 1, one failure, 3 objects, stopped at any point of the filling, a rotation or a replacement, or never | `BadLeaves`: a broken or blamed member is taken out; `StopQuiesces`: every goroutine returns and every listener is closed, but for a thread that may stay in the call for its identity |
| `calls` | 3 members, 2 callers, counter modulo 8 | `TypeOK`, `FallBackIsLastResort`, `Balanced` |
| `retry` | 2 clients, 3 backends, 3 attempts, one fault, counter modulo 7 | `AtMostOneSlips`: a shutdown reported graceful misses one connection at most; `RetryElsewhere`: while a backend is healthy the last retry does not repeat the one before, unless the counter wraps around in the middle of the call |
| `drain` | 1 client with two chunks, 1 backend, 3 attempts, two faults | `TypeOK`; `TheftIsBounded`: each abandoned attempt takes one chunk at most; `NoCopierLeaks`, `ShutdownDrains` |
| `scan` | both commands, a prefix of each family with 2 addresses, of 4 bits, any choice of families, 3 round-trip times, one of them too slow, queue of 3 or 65535 | `TypeOK`, `QueueSound`; `ScansItsPrefixes`: every address of the prefixes asked for and no other; `FastestFound`, `ResultIsSaved`, `StoppedScanEnds`, `KeepsPromise` (refinement of `ScanPromise`) |
| `ping` | 3 ports, a channel for 3, up to 2 random packets, any datagrams, cancelled at any point or never | `TypeOK`; `CutNeverAnswers`: a port with a packet left when the scan is stopped does not answer; `PingReturns`; `KeepsPingPromise` (refinement of `PingPromise`) |
| `cache` | 2 commands, 2 endpoints, 3 failures, any sequence of operations, ends and broken writes | `TypeOK`; `NothingForgotten`: what a command has found or loaded is in its list and in what it writes, unless the other one has written the file without it between the two loads; `ReadableUnlessCutShort` |
| `engine` | 3 endpoints, every way to start | `TypeOK`, `GivesUpLate`; `StopReturns`: Run returns and no proxy is left, but for a call for an identity, in which it may stay |
| `commands` | 5 devices, 3 licenses, 3 mishaps (crashes, failed requests, failed reads), any of the nine dials failing, any sequence of commands | `TypeOK`; `ConnectionsKept`: a request travels only over a completed handshake, and a failed dial leaves nothing open; `WholeIdentity`: one mishap, wherever it happens, never mixes the keys of one device with the configuration of another; `UsedIsSaved`: what a command that succeeded used is what the directory holds; `MishapCostsOneDevice`; `NothingForgotten` |

Why the bounds are enough. A pool of two already has a member that is being rotated
and another one that fails meanwhile, which is what the interleavings of
monitor, replacer and rotator need; ports 100 apart make a rotation meet the
leftover directory and the other member. In `calls` the counter wraps around
several times, at each position relative to the pool, and 8 is no multiple of 3
as 2^32 is none. Three attempts are `maxBackendRetries`; two clients are what
it takes to disturb the other's place in the round robin, and 7 lets the
counter of `retry` wrap around in the middle of the sixth call (without its
guard the property is violated there). A queue of three is
filled by four addresses, while two are enough for a result. `WholeIdentity`
speaks of one mishap since two can mix an identity (`reg.json` is lost, and the
creation that follows breaks off between the two files); three let the other
properties of that run meet mixed identities too. Three ports are one that
answers, one that is junk and one that is silent, in every order. Two commands
and two endpoints are enough for each to write over the other's file, and the
list of one to be the shorter. Two prefixes that meet at a boundary make a
generator that goes wrong at either end visible; their addresses are the first
ones, as all in `ScannerPrefixes` are, while the theorem `ScanStaysInPrefixes`
covers any. The rounds and attempts of `TLSDial` are those of the code. In
`repairs` three objects are fewer than the threads can ask for, so that one
sometimes waits for another object to become garbage, as no program does; what
the run shows of the others is not affected, and `faults` has objects enough.
Liveness is checked without symmetry; a view hides only what cannot
influence a later step (the fields of garbage objects, the flags of cancelled
ones, the remains of finished handlers) and no property reads it.
`drain` and the runs of `RotationEngine` with liveness are smaller, for liveness
checking is what takes the time.

One run ends in a violation: it checks what a comment says.

* `orphan`: "rotateOneBackend disconnects and reconnects a single backend"
  (`core/rotation.go:683`). The swap compares only the index with the pool's
  length. If the monitor has shrunk or refilled the pool during the start, the
  rotator overwrites a member it did not cancel, or drops its new backend; the
  one forgotten runs on, on its port and with its identity. Through the port it
  holds an orphan can make another start fail, so that one failure may in the
  end cost the pool two places; `LosesOnePlace` therefore speaks of a step.

### Other divergences met while modelling

For most of them a property above states what *does* hold.

* "the other will finish when connection closes"
  (`core/frontend_proxy.go:184`): the copier from the client of an abandoned
  attempt is blocked in a read of the *client*, which stays open, and takes the
  next chunk away from the attempt now being served (`TheftIsBounded`).
* "connection successful, wait for context to be done" (`core/engine.go:75`):
  `startProxy` returns nil whatever ended its context, so that after a failure
  of the instance the engine waits with nothing running, until it is stopped
  (`StopReturns`).
* Identities need not be unique, though the plan says "Give each backend its
  own unique WARP identity"
  (`docs/plans/2026-01-02-unique-identities-per-backend.md:5`): `startBackend`
  loads what the directory of the port holds, also while an orphan uses it; and
  the delayed removal of a directory (`core/rotation.go:721`, "for a backend that
  is no longer running", line 39) may hit one in use again. `CalmService` holds
  without failures.
* `Stop` never removes directories, although `cleanupBackendIdentity` is
  "Called during graceful shutdown or when cleaning up old backends"
  (`core/rotation.go:40`).
* "Use a different port temporarily for the new backend"
  (`core/rotation.go:703`): nothing takes the port back, until
  `MustParseAddrPort` panics (line 245; `panicked` in the model).
* `rotateBackends` "periodically disconnects and reconnects backends"
  (`core/rotation.go:665`) by an index that goes round modulo `PoolSize`, whatever
  the pool's length is: with fewer members the last ticks of a round do nothing,
  and when the monitor takes one out the others move up, so that one of them is
  passed over in this round. `RotatesEvenly` holds without failures.
* The monitor "replaces failed ones" (`core/rotation.go:566`) once: a
  replacement that fails to start is not tried again and the pool stays short.
* `getNextBackend` "returns the next healthy backend" (`core/rotation.go:495`)
  unless `startIndex + i` wraps around at 2^32 in the middle of a scan.
* "All frontend connections closed gracefully" (`core/frontend_proxy.go:75`) may
  be one connection short: the one between `Accept` and `wg.Add`.
* "Mark backend as potentially unhealthy after repeated failures"
  (`core/frontend_proxy.go:143`): an error on the client's side counts too, and
  what is counted is the attempts of the client.
* `IPScanner.Run` ends when "it gets canceled with context"
  (`ipscanner/scanner.go:123`), but `RunScan` passes it no context, and `Stop`
  does nothing before `Run` has made the engine: a scan given up that early goes
  on for ever.
* "Built-in scanner to find the best Cloudflare WARP IP addresses"
  (`README.md:54`): a full queue drops its slowest item for a faster newcomer
  and does not insert the newcomer (`ipscanner/engine/queue.go:72`).
* The scan's limit comes from the key `rtt` (`cmd/run.go:115`), which no flag is
  bound to; `--scan-rtt` (line 41) has no effect and the limit is 0 unless the
  environment sets it, so that nothing is fast enough.
* `GetRandomEndpoint` "retrieves a random endpoint that has not failed more than
  maxFailures" (`core/cache/cache.go:94`), but `Engine.Run` never calls
  `RecordFailure`: only tests do.
* `RecordFailure` "removes it if it exceeds the maxFailures"
  (`core/cache/cache.go:132`), and the getters return what "has not failed more
  than maxFailures" (lines 71, 94, 115): the code removes an endpoint when its
  failures *reach* `maxFailures` and returns those below, as its test expects.
* The cache's file is overwritten with the list of one command
  (`core/cache/cache.go:199`): what another has saved since this one loaded is
  lost. It is lost to that other one too, if it has read it at its start and the
  list comes in between: making the scanner replaces its list with the file's
  (line 180), which `NothingForgotten` allows for. And `run` may exit on a failed scan before the scanner's goroutine has
  written it (`ipscanner/scanner.go:142`).
* A ping returns the first port in the channel, that is the first goroutine to
  finish, which need not be the port with the shortest round trip
  (`ipscanner/ping/warp.go:106`); and after the random packets nobody looks at
  the context, so that a stopped ping may take five seconds more.
* All nine dials of `TLSDial` go to one address, drawn at random once
  (`cloudflare/network/tls.go:208`): a request whose address is dead fails. Only
  the plain dial has a timeout; a handshake has none, so that a silent peer
  keeps the command waiting (`StopReturns` and `StopQuiesces` say what still ends).
* The default endpoints of `run` are the first two addresses from the resolved
  one to the end of its /24 (`cmd/run.go:124`): of the last address there is only
  one, and the second index panics.

### Fairness

Weak fairness for every goroutine that can run: threads that start backends,
`Run`, monitor, replacers, handlers, copiers, pings. None for the calls of
`LoadOrCreateIdentity` in `RotationEngine` and `WarpEngine` (the step `begin`,
`LoadPrimary` and `LoadIdentity`): they take no context, and neither the client's
requests nor the TLS handshake have a timeout, so that nothing makes them return.
`StopQuiesces` and `StopReturns` hold all the same of everything else, and since
they lead to a quiet state from every later state too, a thread whose call comes
back after all still ends. Weak fairness for timers:
the tick of the monitor, the 30 seconds of the shutdown, the minute of a scan,
the five seconds of a `Read`. One condition covers all handlers and copiers, all
instances or all clean-ups: each takes finitely many steps, so that none can keep
the others waiting for ever. The `scanner` command need not be interrupted.
`EndpointCache` and `IdentityStore` are checked for safety only: a handshake may
hang.
The rotator's tick has no fairness: its interval is the user's choice, so that
nothing else may depend on it. Strong fairness for `RotatorExit` alone: the `select` of
`rotateBackends` picks among ready cases at random, so it cannot take the tick
for ever when the context is done as well. A wiresocks instance ends up
listening, failing or closed. Nothing is assumed of clients, backends (as seen
by the frontend), failures or whoever stops the program.

## 4. What is proved

Every invariant, action property and refinement of the passing runs is a
theorem, for every value of the constants that the named assumptions of the
models allow. Each follows from an inductive invariant that is a conjunction of
named parts; each proof has one lemma per action or group of actions. The runs
check the invariants' conclusions, and TLC was used to check the invariants
themselves before they were proved.

**`RotationEngineProofs`**, for every pool size, heap, port range and number of
failures. The assumptions: the pool is not empty and has at most `TempOffset`
members, leftover directories hold different identities, the nil pointer is no
object.

* `TypeCorrect`: `Spec => []TypeOK`. `TypeOK` alone is not inductive: `Head` of
  a thread's ports, or the object it has created, may not exist. `TypeInv` adds
  `ThreadOK`: a thread past the first step has a port, past the second a
  backend, and the rotator in a rotation has an old backend.
* `PoolBounded`: `Spec => []PoolBound`. A *claim* is a filled place of the pool
  or a port that `Run` or a replacer has still to start. The invariant `IInv` is
  `TypeInv` and that the claims are finitely many and at most `PoolSize`. Each
  step is shown to be an injection of the claims after it into those before it:
  appending a backend turns its thread's first port into a place
  (`AppendClaims`), a health check turns the places of bad members into the
  ports of a replacer (`MonitorClaims`), and every other step only drops claims
  (`FewerClaims`).
* `ReplacersSuffice`: when the pool is not empty some replacer is idle, hence
  `MonitorCheck` is never blocked for want of one.
* `OnePlaceAtATime`: `Spec => LosesOnePlace`. The other way round: each step but
  a failed start is an injection of the claims before it into those after it
  (`AppendKeeps`, `MonitorKeeps`, for which the health check must not pass over
  a member: `InOrderCovers`), and a failed start drops exactly one
  (`FailedStartClaims`).
* `CalmServes`, `CalmForgetsNobody`, `RotationIsFair`: the three properties of
  `calm`, from one invariant `CalmInv` of the states before the first failure.
  What makes it inductive is how ports tell backends apart: the i-th member has
  a port in the i-th place modulo `TempOffset`, a rotation moves it on by
  `TempOffset`, and every backend that still listens or waits for its clean-up
  has a lower port in the same place (`CalmRetired`). So the port being started
  is fresh (`FreshPort`): nobody listens on it, no clean-up will remove its
  directory (`CleaningPort`), and the probe is answered by the new backend. That
  `PoolSize <= TempOffset` is needed here. Identities are distinct
  because the directories hold distinct ones (`CalmDisk`), and rotation is even
  because the places left of the rotator's have been rotated exactly once more
  (`CalmRound`).

**`SelectionProofs`**, for every modulus, pool length and set of callers.

* `SelectionTypes`, and `LastResort`: `Spec => []FallBackIsLastResort`. The
  invariant adds `SeenDown`: the indices a call has passed belong to members
  whose flag is down, which holds since flags only fall while a call is under
  way. `ScanCovers` is the arithmetic: `n` consecutive indices modulo `n` are all
  of them, as long as the addition does not wrap.
* `CallsAreBalanced`: `Spec => []Balanced`. While all flags are up and the counter has not wrapped, a member's
  picks and the calls that are heading for it are together its *turns*, the
  numbers below the counter that leave its remainder (`BalanceInv`, `OneTurn`);
  turns of two members differ by one at most (`TurnsAreEven`).

**`FrontendProxyProofs`**, for any clients, pool, retries and capacity of the
result channel.

* `ProxyTypes`, with the bound on each channel, and `OneConnectionSlips`: at most
  one connection is between `Accept` and `wg.Add`, and a graceful end is
  reported only when no counted one is left.
* `TheftsAreBounded`: the invariant is sharper than the property. It counts only
  the finished attempts whose copier can take nothing more (`Stolen`), since a
  copier that is still in its read has not stolen yet.
* `RetriesElsewhere`: `Spec => RetryElsewhere`, for every length of the pool and
  width of the counter. The property leaves out a call whose additions wrap
  around: 2^32 is a multiple of powers of two only, and with another length (the
  default is 10) such a call can pass over a healthy backend, the divergence of
  `getNextBackend` listed above.
  The invariant part is `Blamed`: from the third attempt on the backend of
  the previous one has its flag down. That the scan of `getNextBackend`, taken
  here as one step, finds a healthy member if it meets one needs the least such
  index (`LeastNatural`).

**`WarpEngineProofs`**, for any set of at least two endpoints: `EngineTypes` and
`EngineGivesUpLate`. The invariant adds that an attempt has an endpoint
(`HasCurrent`) and that what the user gave has failed or is still in the list
(`NoneSkipped`).

**`ScannerProofs`**, for every width of an address, finite set of prefixes no two
of which overlap (as those of the code do not), limit, and sizes of queues.

* `ScanStaysInPrefixes`: the arithmetic of `NewIPRange`. Two addresses are in
  one prefix iff they have the same quotient by a power of two, so a prefix is
  an interval (`SameQuotient`, `PrefixRange`). That powers multiply, which
  would take an induction, is proved by counting subsets (`PowerSplit`).
* `QueueIsSound`, `FastestIsFound` (an action property), `ResultsAreSaved`: the
  queue is all that was offered as long as it can hold that (`Queues`). An
  address is offered once (`Fresh`), since a generator has one goroutine per
  round and prefixes are disjoint, so that "already queued" never drops one.
* `ScanKeepsPromise`: `Spec => KeepsPromise`, the refinement of `ScanPromise`. A
  step of a ping is its `Answer`, the tick that finds two endpoints its `Succeed`
  (`PromiseSucceeds`: two different items of the queue are two endpoints), giving
  up its `Fail`, and everything else a stutter.

**`WarpPingProofs`**, for any number of ports and packets and a channel of any
capacity (that the ping returns needs room for every port, but that is
liveness).

* `PingTypes`, of which one conjunct is that the ping does not panic: `TypeOK` has
  no such value, so nobody sends on `results` after `close`. And
  `CutPingsNeverAnswer`.
* `PingKeepsPromise`: `Spec => KeepsPingPromise`, the refinement of `PingPromise`.
  `Channel` is the part it rests on: the successes of all ports that have reported are in
  the channel until `PingContext` returns, so that an error is returned only
  when no port has answered.

**`EndpointCacheProofs`**, for any commands and endpoints: `CacheTypes`,
`CacheForgetsNothing`, and `CacheReadable`. The first needs `Loads`: what is due of
a command between its two loads is owed by the writer of the file, or counts as
rewritten, so that the second load drops nothing else. The last needs `OneWriter`:
as long as no write was cut short, the one that is under way is alone and finds
the file as it left it.

**`IdentityStoreProofs`**, for any devices, licenses, numbers of dials and of
mishaps: `StoreTypes`, `ClientKeepsConnections`, `IdentityIsWhole`,
`UsedIdentityIsSaved`, `MishapsCostOneDevice`, `StoreForgetsNothing`. They follow
from one invariant, whose parts say what a directory is like before the first
mishap (`Calm`), with at most one (`Agree`: the two files name one device except
between the two writes of a command that goes on) and after any number (`Cost`:
a command that is about to register has lost one mishap for each device
registered before; `Saved`: what the files hold while an identity that was read
from them is in memory).

Two remarks on the prover. It cannot instantiate an induction theorem, which
takes an operator; where a proof needs the naturals' order, the set of the
counterexamples is given to the theorem about well-founded relations, which
takes a set (`LeastNatural`). And one proof found an assumption that `Scanner`
had made without a word: that no address is in two prefixes, which is true of
the list in `ScannerPrefixes` and is now part of `ScannerAssumption`.

Only model-checked: liveness (`BadLeaves`, `StopQuiesces`, `NoCopierLeaks`,
`ShutdownDrains`, `StoppedScanEnds`, `PingReturns`, `StopReturns`), since
temporal proofs under fairness and `ENABLED` are out of this prover's reach; and
that the `orphan` run ends in a violation.

## 5. What is not modelled

Two commands at once on one identity directory are not modelled: nothing keeps
them apart, so each may write one of the two files last and leave an identity
mixed of two (`EndpointCache` does model two commands, for its file). Methods
without a caller are left out: `Dequeue` and `Expire` of the queue,
`ResetAccountLicense`, `UpdateBoundDevice` and `DeleteDevice` of the API, and the
cache's getters other than `GetRandomEndpoint(s)`, which only read. The random
choices of addresses, ports and prefixes hold no state.
Stateless conversions (WireGuard configuration, keys, TLS configurations,
address parsing, formatting, versions) and logging have no state a property
could be about. `processedIPs` of the scanner's engine is incremented without
synchronisation, but only logged.

## 6. The plan

In this order, the most important behaviour first; 1 to 8 and 10 are done.

1. `RotationEngine`, its runs and `RotationEngineProofs`.
2. `RoundRobin`, `Selection`, `SelectionProofs`.
3. `FrontendProxy`.
4. `ScanResult`, `WarpEngine`.
5. `ScanPromise`, `Scanner` and the refinement.
6. `IdentityStore`: the two files, crashes between them, the account at the API;
   `ApiClient` below it.
7. `EndpointCache`: save, failure counts, eviction, the file and crashes while
   it is written.
8. `IPGenerator` in `Scanner`; `PingPromise`, `WarpPing` and the refinement.
9. An abstract pool (slots that are empty, filled or being filled) implemented
   by `RotationEngine`, and a composition of pool and frontend.
10. Proofs of every safety property, action property and refinement that the
   passing runs check.
