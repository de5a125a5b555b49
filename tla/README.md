# Specifications of the tunnel client

TLA+ models of the Go tunnel client in `go_client/` and of the parts of the iOS
application and extension that drive it, with TLC runs for small instances and
TLAPS proofs for all instances. `PROJECT.json` lists components, runs, the
correspondence of definitions and source lines (`map`), mutants, hazards,
findings and theorems.

Run a model with `tlc -config X.cfg M`, check proofs with `tlapm M.tla`.

## 1. The system

The client carries WireGuard packets to a peer through the TURN servers of VK
calls. A *worker* holds one DTLS-over-TURN session; workers form *groups*, and
all groups of one call link share the TURN credentials that the VK API hands out
for that link. A run of the transport (`runOnce`) starts the groups, a dispatcher
that spreads packets over the sessions, and a consumer that brings up WireGuard
when the first session has received the configuration from the peer. The iOS
runtime restarts runs when the network changes or traffic stalls.

| Component | State | Operations | Talks to |
|---|---|---|---|
| TURN scheduler (`turn_scheduler.go`) | per endpoint: reservations, timeouts, pause, probe mark; channel `global`; `notify` | `Acquire`, `finish`, `Reset` | sessions; reset by network change and start |
| Credential cache (`creds.go`) | credentials with a generation, `revision`, `activeFetch` with its waiters | `getVkCredsCached`, `runCacheFetch`, `InvalidateLinkCacheIfGen` | groups; VK request path |
| VK request path (`creds.go`, `flood_gate.go`) | pause, backoff step, probe slot; semaphore; time of the last request | `Acquire`, `ReportFlood`, `ReportSuccess`, `ReleaseProbe`, `fetchVkCredsSerialized` | VK API |
| Group coordinator (`group.go`) | the group's credentials, `activeOp`, time of the last refresh | `Snapshot`, `RefreshCreds` | workers; cache |
| Worker group (`group.go`) | phase of the group, signal to the next group, retry delays | `WorkerGroup` | sessions; coordinators |
| Session (`session.go`, `protocol.go`) | contexts, permit, relay, DTLS connection and its deadlines, six goroutines, two `AfterFunc`s, slot, recorded cause | `RunSession`, `RequestConfig`, `SendAuth` | scheduler, dispatcher, config coordinator |
| Config coordinator (`config_coordinator.go`) | `sent`, `activeOp`, `retryUntil` | `TryAcquire`, `DeliverConfig`, `ReleaseWithCooldown` | sessions; `configCh` |
| Run (`ios_bridge.go`, `runOnce`) | run context, `configCh`, WireGuard device | consumer, teardown | iOS through `WDTT_Activate` |
| iOS runtime (`ios_bridge.go`, `ios_cbridge.go`) | `iosCurrent`, of each runtime the attempt's cancel function, reconnect flag, wake token, limiter | `WDTT_Start`, `WDTT_Stop`, `runTunnelLoop`, `requestReconnect` | Swift, watchdogs |
| Dispatcher (`dispatcher.go`) | registered workers, round-robin position, queues, packet buffers | `Register`, `Unregister`, `readLoop`, `writeLoop`, `Shutdown` | sessions, WireGuard |
| VK token chain (`creds.go`, `creds_vkcalls.go`, `captcha_v2.go`) | attempt and captcha counters, solver chain, lockout | `fetchVkCreds` on two paths, captcha solvers | VK API, captcha exchange |
| Watchdogs (`ios_bridge.go`, `stats_publish_ios.go`) | times and counters of traffic and of live workers | tick | runtime |
| Captcha exchange (`captcha_ipc_ios.go`, `CaptchaBridge.swift`) | request and result files, `CaptchaResultChan` | request, solve, deliver | VK token chain, application |
| Obfuscation (`obfs.go`) | packet counter | seal, open | sessions |
| Packet tunnel provider (`PacketTunnelProvider.swift`) | start generation, pending completion, path | start, stop, path update, sleep, wake | iOS, Go client |
| Tunnel manager (`TunnelManager.swift`) | connection status, auto-reconnect task | connect, disconnect, auto-reconnect | user, iOS |
| Profiles (`ProfilesStore.swift`, `SubscriptionImport.swift`) | stored profiles | import, merge, select | user interface |

What is hard about it: every component above is shared by goroutines; contexts
are cancelled at any moment; several locks are dropped around network calls and
the state re-read after them; results of abandoned operations arrive late; pauses
and cooldowns race the work they delay; and most of it must not merely be safe
but also never get stuck. The hazards are listed with their lines in
`PROJECT.json`.

## 2. Modules

| Module | What it is |
|---|---|
| `TurnScheduler` | the TURN endpoint scheduler |
| `PermitUse` | what a session and the scheduler expect of each other about one permit: the abstract specification of both |
| `TurnSchedulerProofs` | the scheduler's safety for every set of workers, endpoints and candidate lists, that of `Session`, and that both implement `PermitUse` |
| `CredsService` | what the credential cache promises: the abstract specification |
| `CredsCache` | the cache in detail; refines `CredsService` |
| `CredsCacheProofs` | its safety, and the refinement, for every set of callers |
| `GroupCreds` | the start of the groups in a cascade and their coordinators, composed with `CredsService` |
| `GroupCredsProofs` | that the promise of the cache makes answers fresh, and the safety of any number of groups and workers |
| `FloodGate` | gate, semaphore and throttle in front of the VK API |
| `FloodGateProofs` | its safety for any number of fetches and any schedule of pauses |
| `ConfigCoordinator` | how the configuration gets from a session to the WireGuard device |
| `ConfigCoordinatorProofs` | its safety for every set of workers |
| `Session` | `RunSession` with its goroutines, contexts and deferred calls |
| `Dispatcher` | the dispatcher with the packet ends of the sessions and the end of a run |
| `DispatcherProofs` | buffers, chunks and registration for any number of sessions and buffers |
| `IosRuntime` | runtimes that replace each other, the tunnel loop, reconnect requests, the local port |
| `IosRuntimeProofs` | that no accepted reconnect is lost, for any number of runtimes and callers |
| `VKAuth` | a fetch of credentials: both paths, captcha chain, exchange with the application |
| `VKAuthProofs` | its safety for all limits and any length of the pipe |
| `MC...` | small instances: model values, candidate lists, groups |

How they fit together. `VKAuth` is the inside of the one step "request" of
`FloodGate`; a `FloodGate` fetch is what a fetch operation of `CredsCache` does;
`CredsCache` is shown to implement `CredsService`, which `GroupCreds` extends. A
worker of `GroupCreds` runs sessions: `Session` has the whole of one, while
`TurnScheduler` has the permits it takes, `ConfigCoordinator` the configuration it
asks for and `Dispatcher` the queues it serves, each with as many sessions as
compete there. `Session` and `TurnScheduler` each have the other side as a free
choice; both are shown to keep to `PermitUse`, the agreement between them about one
permit. `IosRuntime` repeats the runs whose teardown is in `ConfigCoordinator`
(configuration and device) and `Dispatcher` (socket and loops).

A step of a model is one critical section, one channel operation, one read of the
clock or one return from the network: the grain at which goroutines can see each
other. A mutex that is held for one step only is not a variable; one held over
several steps (`fetchMu`, `c.mu`, the semaphore) is. A `select` with several
ready cases is a choice among actions. Definitions whose name ends in what goes
wrong (`CancelReservedSilently`, `CleanAlways`, ...) are mutated forms of the
definition that follows them; no specification uses them.

### TurnScheduler

The map of `turnEndpointState` is kept field by field (`active`, `failures`,
`lastUsed`, `pausedUntil`, `probing`); an endpoint that is not in the map has the
zero values `stateLocked` would give it. `global` is the number of occupied
places of the channel; `parked` are the workers whose captured `notify` is still
open, so that `signalLocked` is `parked' = {}`. `Acquire` is `Acquire` (reads the
clock), `Reserve` or `Park` (the critical section with `pickLocked`),
`WakeByNotify`, `WakeByTimer`, `CancelWait`, `TakeSlot`, `CancelReserved`.
`finish` is `ReleaseSlot` (receive from `global`) and `Finish` (under `mu`): the
code does the first before it locks, and the model keeps the gap. The outcome is
settled at the call of `Finish`, so `told` keeps it over the gap, in which the run
may still be stopped. The failure
counter is kept up to `FailureLimit`, beyond which nothing distinguishes its
values.

### CredsService, CredsCache

`CredsService` has a cache that is empty or holds the newest generation, and
answers a call with an error or with that generation. `CredsCache` has the two
looks at the cache, the fetch operations with their waiters, revision and late
results, expiry and invalidation. Refinement: `issued` is `generation`, `current`
is `cached`, a call is open while its caller is not idle. `dead`, `floor` and
`opDead` are history variables.

### GroupCreds

The cascade: each group is `queued` until the signal of the one before it, then
`asking` for its first credentials. The signal is closed after a head start of
2 s, after a failed first request, or by the deferred call when the group leaves;
a group that failed retries (`RetryCreds`) or gives up. Its workers run when it is
`up`, and leave when the run is stopped or after a session that ended with a fatal
error; the group ends, and gives its signal, with the last of them.

`EXTENDS CredsService`: the calls of `GetCredsWithGen` in `RefreshCreds` are
`Begin` and `Answer`, the invalidation is `Reject`, and a fetch for any reason is
`CachePublishes`. The numbered steps of `RefreshCreds` are actions with the same
numbers in their comments. `c.mu` is a variable because it is held over the
second call of `GetCredsWithGen`. Whether cached credentials have expired is left
open at the two peeks. In account mode `invalidateInjectedTurnCreds` also clears
another store; it is not modelled.

### FloodGate

Goroutines in `fetchVkCredsSerialized`, whichever link they work for, from
`Acquire` of the gate through `acquireVkRequestLock`, the checks, the throttle,
the request and the deferred releases. Times are countdowns (`pause`, `sleep`),
`sinceFetch` counts up and stops at `MaxInterval`. The jitter of `ReportFlood` is
below the unit of time.

### ConfigCoordinator

`TryAcquire` is part of `BeginSession`, which starts a session in a worker's
loop; a worker has at most one unfinished `ConfigOperation`, so the operation has
the worker's name, and `open` are those whose `doneOnce` has not run. A worker returns
for good in a cancelled run, after FATAL_AUTH, or after "error 29" (`AfterSession`). `DeliverConfig`
has two steps, the write to `configCh` and `finishOp`. `cooling` abstracts
`retryUntil`. The consumer and the teardown are those of `runOnce`: `runCancel`,
`close(configCh)`, wait for the consumer, close the device. The initial state
allows `ready` and `activated` to be left from an earlier run of the same
runtime.

### Session

`main` is the goroutine of `RunSession` from `Acquire` to its return; `gr` places
its six goroutines: `relayIn` and `relayOut` between the obfuscated relay and the
pipe of DTLS, `binding` that keeps the relay's binding alive, and `writer`,
`reader` and `keepalive` of the proxy. The
contexts are `parent` (the run), `sess` and `hctx` (the handshake, with its own
deadline); cancelling an outer one ends the inner ones. `stopRelay` and
`stopDTLS` are the two `context.AfterFunc`: armed, run or stopped. The deferred
calls are the last steps of `main`, in the order in which Go runs them, each of
which may wait (`joining`, `joiningAll`). `readFar` says that the read deadline of
the DTLS connection lies `sessionReadTimeout` ahead, `cause` is the first recorded
teardown error and `hsErr` whether the error of the handshake looks like a time-out,
which it may do whatever ended the handshake. `classifyHandshakeFailure` is in three
steps, because the contexts may end between them: its arguments (`ReadCause`), the
test of `ctx` (`TestParent`), and the tests that follow, in their order
(`Classify`); `ReportFailure` then finishes the permit, and there `permitOutcome` looks
at `ctx` once more. To `PermitUse` a session is asking while
`main` is `queued`, holding while `permit` is true, and its run is `parent`.

### Dispatcher

A packet is the buffer it lies in. `pool` counts how often a buffer is in
`pktPool`, so that a double put is visible. One round of `readLoop` is one of
`DispatchCurrent`, `DispatchAlternate`, `DropWhenFull`, `DropWithoutWorkers`: it
does not wait between `ReadFrom` and the end of the round. A session's writer
takes from its queue (`WritePacket`), its reader pushes to `ReturnCh` or gives up
when the session ends. `CancelRun`, `CloseLocal`, `BeginShutdown` and
`ShutdownReturns` are the end of `runOnce` and of `Shutdown`.

### IosRuntime

Runtimes are numbered in the order of their starts. `Start` is refused while
`iosCurrent` is live; `Stop` cancels `rt.ctx` and, as `WDTT_Stop` waits for 2.5 s
at most, leaves the rest to the loop. `requestReconnect` is `LookUp`, the critical
section with the limiter, the token and the call of the cancel function it took:
three steps between which the attempt may end and another begin. `port` is the
local UDP port: it is closed some time after the attempt was cancelled, also after
`runOnce` has returned, so that a new attempt may find it taken. The provider, the
application and the watchdogs are all `Callers`, which may ask at any time. `owed`
is history.

### VKAuth

One fetch at a time, as the semaphore of `FloodGate` ensures. The VK Calls path is
`step` 1 to 5, the legacy path a token chain with captchas; `CallsAnswers` and its
like are what VK may answer, `chain` the solvers that are left (automatic and
WebView, in the order of the captcha mode). The exchange with the application is a
line in `pipe`, a server that handles one line at a time (`serving`), two files,
and `CaptchaResultChan`; whether an answer belongs to the request the solver waits
for is the `owner` it carries, which the code does not look at in the channel.
One attempt of the automatic solver is one step with four outcomes.

## 3. Runs

| Run | Instance | Distinct states | Shows |
|---|---|---|---|
| `turn_scheduler` | 2 workers and at times a third, 2 endpoints, 1 slot, lists of one and of two | 125 986 | reservations are counted right, no endpoint is shared by two workers with a choice, no wake-up is lost, pauses are respected, each permit lives as `PermitUse` says, every reservation gets its slot and every wait ends, with a timer or without |
| `creds_cache` | 2 callers, 3 calls | 157 850 | a fetch somebody waits for is not cancelled, one fetch at a time, nothing stale is published, the cache refines `CredsService`, every call returns |
| `creds_cache_error` | 2 callers, 2 calls | | finding 1 |
| `group_creds` | 2 groups, 2 workers of the first, 2 generations | 231 758 | the groups start in turn and none is left out; one refresh per group, nobody waits in vain, a refresh that says yes has newer credentials, only rejected ones are cleared, every refresh returns |
| `flood_gate` | 2 fetches, 3 floods, schedule of 2 | 50 509 | no request in a pause, one probe, whose slot is not lost, only probes after flood control, requests are spaced, every fetch returns |
| `config_coordinator` | 3 workers | 17 213 | ownership, delivery, close and teardown; every cancelled run ends |
| `config_retry` | 2 workers | | finding 2 |
| `session` | one worker, sessions and runs without bound | 39 206 | the gauges and the slot stand for something alive, nothing is left at the return, the endpoint and the cause of a failed handshake are judged right, the session implements `PermitUse`, a cancelled session ends |
| `session_teardown` | the same | | finding 3 |
| `dispatcher` | 3 sessions, 2 buffers, chunks of 2, queues of 1 | 51 152 | a buffer has one owner, a chunk stays on one worker, every worker is served, `Shutdown` returns |
| `ios_runtime` | 2 runtimes, 1 caller | 150 253 | a live runtime can be reached, an accepted reconnect ends the attempt it was made in and a new one follows, a stop ends the runtime, the port is got in the end |
| `vk_auth` | 2 credentials, 4 attempts, 3 captchas (the code's values), 2 lines in the pipe | 431 607 | no request during a lockout, a final answer ends the fetch, a solver takes its own answer, every fetch returns |

Bounds. `MaxClock` = 2 with `Pause` = 1 and `FailureLimit` = 1 lets an endpoint be
paused, run out and be probed; the limit on timeouts only delays that, and the
proofs hold for all values. Two workers, one slot and two endpoints, one of which
may be paused, are enough for a wait for the slot, for the other worker's endpoint
and for the end of a pause. Every such wait has a timer, since the other worker
occupies one endpoint only, and a lost wake-up would be made good by the timer. A third
worker therefore joins (`ThreeAreThere`), so that both endpoints may be occupied and
a wait has no timer; it does so only while the clock stands at its first instant,
nothing has timed out and everybody lists both endpoints without a preference. Time
waits until it has left (the fairness of `FairBoundedSpec`), when no pause is running,
so that no timer is delayed by it. Of the first two workers only one
has a preferred endpoint. The liveness of the scheduler is checked for that worker,
as the specification treats all alike. Three calls of the cache by two callers allow
a fetch, its abandonment, a successor and a late publication. In `group_creds` two
generations let one be rejected and replaced, and `CachePublishes` and the
rejections of the other worker stand for what other groups do to the shared
cache; two groups are enough for the signal from one to the next. Three floods on
a schedule of two steps go to its end and beyond it. In `dispatcher` three
sessions let one be removed before, at and after the round-robin index, queues of
one are full at once, and two buffers are the fewest of which one can be confused
with the other. Two runtimes let one replace the other; one caller suffices for a
request to be overtaken by the loop, by a stop and by a restart, and it may call
any number of times. In `vk_auth` two lines in the pipe let the server be one
request behind the solver.

Time in `FloodGate`. Any amount of time may pass between two steps. Then a fetch
that has become the probe could be delayed for a whole further pause before its
next step, and a second fetch take the slot meanwhile. The history variable
`rushed` records that time has passed while somebody was about to take a step.
That there is one probe, and only it after flood control (`OneProbe`), is stated for
behaviours without that: the
unit of time is a pause of a minute or more, and a goroutine is not suspended that
long between two statements. The other properties do not depend on it.

`TypeOK` of each module is the base of its invariants and is proved; it is not a
property of the runs.

Deadlock is checked in every run but `ios_runtime`, where the provider may never
start another runtime and nobody ask for a reconnect. Where another model really
ends (all workers gone, the calls used up, `runOnce` returned) an action says so.

### Fairness

- Goroutines that can run do run, and time passes (weak fairness). A session
  finishes its permit, a fetch or request returns and a retry delay ends because
  each has a time-out in the code. An established session need not end.
- A sender or receiver blocked on a channel is served in order by the Go runtime:
  strong fairness of `TakeSlot` and `TakeToken`.
- `sync.Mutex` hands over to a waiter that has waited for 1 ms: strong fairness of
  `RefreshStep` (which waits for `c.mu`), and of `AcquireProbe`, whose worker
  competes for `g.mu` each time the slot becomes free.
- `Session`: a blocked network call returns when its deadline has passed or its
  connection is closed, not because a context is done. What is left in the pipe of
  a cancelled session is finite, so the DTLS read, which packets may interrupt,
  fails or times out in the end (strong fairness), even with the deadline 30
  minutes ahead; how long that takes is finding 3.
- `Dispatcher`: packets keep coming while the socket is open and a buffer is free
  (strong fairness of `Dispatch`, needed for `EveryWorkerIsServed` only), and a
  writer sends what is queued.
- `IosRuntime`: a cancelled run closes its socket; binding the port succeeds in
  the end if the port is free again and again.
- `VKAuth`: the fetch and the server go on. Nothing is assumed of the application
  or the user.
- A caller's cancellation is not assumed; nor is a successful fetch, a
  configuration from the server, or an activation by iOS.
- `FetchReturns` of `FloodGate` is about behaviours with at most `MaxFloods` flood
  answers: with flood control for ever the code waits for ever.

## 4. Proofs

`TurnSchedulerProofs` proves all safety properties of the scheduler for arbitrary
finite sets of workers, arbitrary endpoints and candidate lists, limits and
pauses, from `SchedulerAssumption` only. `TypeOK` is not inductive alone: the
counters `active` and `global` are decremented without a test, so that they stay
natural numbers follows from what they count. The inductive invariant `Inv` is
types, `Locals` (a call's local variables match its program counter, and its `now`
is not ahead of the clock), the two counts, `OneHandshakePerEndpoint` and
`SleepIsJustified`. The counts are argued with lemmas for a set of holders that
one worker joins or leaves. Exclusivity uses the counts: an endpoint with
`active = 0` has no holder. The wake-up step uses that every action that frees an
endpoint or ends a pause early empties `parked`. `PauseIsRespected` follows from
`now[w] <= clock`.

The same module extends `Session`, whose specification `SessionSpec` has variables of its
own, and proves it. Its two invariants are not inductive. That nothing is left at the return is the sum of what every path took and
gave back, so `SessionInv` says for each resource at which places of `main` it may, and
at which it must, be held: the relay and the goroutines (`RelayIsUsed`), the connection
and the `AfterFunc`s (`DTLSIsUsed`), the slot, the gauges and the permit. Fair blame is
about the order of events, so `SessionInv` also has how the contexts nest
(`ContextsNest`: before a goroutine runs, only the run can have cancelled the session)
and that whoever cancels a session that is not connected yet has recorded its error
before, unless it is the run or a failed obfuscation (`CauseIsRecorded`). Between the
classification and the report `PermitIsUsed` keeps the outcome for the scheduler and
the error for the worker in agreement. The session has
no constants, so its run already visits every state; what the proof adds is the argument,
place by place, and the base for the refinement.

That both sides implement `PermitUse` is shown step by step (`PermitsCorrect`,
`SessionPermitsCorrect`). For the scheduler it says that no step of another worker, and
no `Reset`, is visible in a worker's permit (`OthersKeepPermits`); the promise is about all
workers at once. For the session it needs `PermitIsUsed` (it is out of the permit when it
begins, an outcome of `canceled` means that the run was stopped, and it has no outcome
but `other` while it holds one at the return), and
`ContextsNest` for the refusal: `Acquire` is given `sessCtx`, while a permit is judged by
`ctx`, and while `Acquire` waits the two end together.

`ConfigCoordinatorProofs`: types, `ActiveOpIsOwed`, where operations may be open,
that a delivery is recorded or about to be, that `sent` ends requests, that the
channel is closed after the last worker, and that the device is closed are inductive
together, for any set of workers.

`CredsCacheProofs`, for any finite set of callers, set of operations and number of
calls. `op.waiters` is decremented without a test, so that it is a natural number
follows from `WaitersAreCounted` (it is the number of callers in the select). Nobody
joins an abandoned fetch because `activeFetch` names the one fetch under way that is
not abandoned (`ActiveIsRunning`) and an abandoned one has no waiters
(`AbandonedIsDeserted`). `NoStalePublication` rests on `RevisionsTell`: a fetch whose
`startRevision` is still the revision has seen every invalidation. From the same
invariant every step of the cache is a step of `CredsService` or leaves it alone
(`RefinementCorrect`, the run's `ServicePromise`), and the freshness of the service's
answers carries over to the cache (`CacheIsFresh`).

`GroupCredsProofs`, for any number of groups, workers and generations, first proves
the promise of the service: `AnswersAreFresh` follows from what the cache holds being
newer than all that was invalidated, and from `dead`, as a call found it, never
exceeding the present one. The groups' own difficulty is `RefreshedIsNewer`: on one
path `RefreshCreds` takes an answer of `GetCredsWithGen` without comparing
generations. That is right because of `CacheIsLatest` (the cache holds the generation
issued last, or that one has been invalidated): once the failed generation was
invalidated, by whomever, it is behind the cache for good. `CascadeCorrect` is the
safety part of `CascadeGoesOn`. The attempt to prove it for any number of groups
showed that it does not hold once the run is stopped: a group that leaves the queue
then gives its signal through the deferred call although its own turn has not come,
and of three groups two may ask at once, both to be cancelled. Two groups, the
instance of the run, cannot show that; `OneAsksFirst` is stated for a run that is not
stopped.

`FloodGateProofs`, for any number of fetches, floods and any schedule. The token of
the semaphore is held by one fetch (`TokenIsHeld`), and a fetch that passed its check
has no pause behind it (`NoPauseBehind`), because only the holder of the token can
report flood control; hence `NoRequestDuringPause`. The owner of the probe slot is
somebody who will give it back (`ProbesAreAdmitted`, `ProbeIsAlone`).
`RequestsAreSpaced` is an action property: a sleeping fetch holds the token, so the
time of the last request does not move meanwhile.

`IosRuntimeProofs`, for any number of runtimes and callers: the life cycle of a
runtime and its attempt, what a caller of `requestReconnect` may still believe after
the lock was dropped, and that the attempt of an accepted request is cancelled or
about to be.

`DispatcherProofs`, for any number of sessions, buffers and places in the channels.
`OneOwner` counts the places of a buffer; its inductive form `Owned` says where the
buffer is (pool, one reader, once in `ReturnCh`, once in one `SendCh`), and lemmas
about queues say how a send, a receive and the end of a channel move it. At the end
the place is turned back into a count. `ChunkStaysTogether` holds because
`DispatchCurrent` and `DispatchAlternate` leave the index at the worker they chose,
modulo the number of workers, and everything else that moves it starts a new chunk.
`RegisteredOnce` shows that `Unregister` always finds its slot, as the model's guard
demands, and that no packet is queued for a session that has ended. `ChunkSize` is
assumed to be at least 2 (8 in the code): `DispatchAlternate` starts a chunk with one
packet without comparing, so with chunks of 1 the chunk would be full already.

`VKAuthProofs`, for any number of credentials, attempts and captchas and any length
of the pipe. A solver is only called while fewer than `CaptchaLimit` captchas were
solved (`CaptchaToSpare`), and the automatic solver is never the last of a chain, so
the counters and the chain keep their bounds. `OwnAnswer` needs `NothingOld`: after a
request that found the exchange at rest, neither pipe nor server nor channel have
anything of an older one.

All theorems are about `Spec` (`SessionSpec`), without fairness, and use the named assumptions about
the constants only; TLC evaluates these on every run.

Only model-checked is liveness, which rests on fairness and is out of the prover's
reach: `AcquireGoesOn`, `EveryCallReturns`, the second part of `CascadeGoesOn`,
`RefreshReturns`, `FetchReturns` (twice), `RunEnds`, `SessionEnds`,
`EveryWorkerIsServed`, `ShutdownEnds`, `RequestsAreHonoured`, `PortIsRegained`. That the
two sides of `PermitUse`, put together, are the whole system is not shown: each is proved
on its own.

## 5. Findings

1. `creds.go:427`. An abandoned fetch that succeeds after all publishes its result
   and advances `revision`; the fetch that replaced it is then dropped with
   `ErrCredentialsInvalidated` though nothing was invalidated. The next attempt
   finds the cache filled.
2. `session.go:574`. After `NOCONF` nobody asks for the configuration again once
   every worker has a session, although the log line says that it will be retried.

3. `session.go:658`. The reader moves the read deadline 30 minutes ahead at the
   head of each round without looking at `sessCtx`. When the cancellation has just
   set it to now, that is undone, and `RunSession` waits for the reader
   (`session.go:691`) before it closes the connection, although the comment at
   `session.go:365` says that goroutines are waited for only after their I/O was
   unblocked.

Observed while modelling; nothing in the repository says otherwise in a form a run
could refute:

- `flood_gate.go:50`: the codes of a dead call (951, 954, 9000 to 9999) begin with
  9, so the text of such an error contains `error_code=9` and counts as flood
  control for all links.
- `creds.go:931` with `captcha_v2.go:159`: the solver replaces every error but two
  by "attempts exhausted", so the branch for a dead captcha session is never
  taken.
- `creds.go:550`: the 30 s of the HTTP stage include the captcha chain, in which a
  WebView alone may take 60 or 120 s.
- `creds.go:783`: a solver that fails because its context was cancelled sets the
  lockout of 60 s as well.
- `captcha_ipc_ios.go`: when the server is a request behind, its answer to an older
  request is taken for the newer one. VK refuses the token and a new captcha is
  asked for; hence `OwnAnswer` speaks of an exchange that was at rest.
- `captcha_v2.go:265`: the change between checkbox and slider has no bound of its
  own; the deadline of the fetch ends it.
- `ios_bridge.go:168`: a reconnect within 1.5 s of an accepted one is refused and
  forgotten. `ios_bridge.go:178`: the wake token is sent before the attempt is
  cancelled, so the delay it cuts short is normally the one that follows at once.
- `dispatcher.go:114`: when the last worker leaves, the round-robin index is not
  corrected; `readLoop` takes it modulo the number of workers, so it is harmless.
- `session.go:532`: a handshake that fails by itself while the session is being
  cancelled is classed as a teardown, possibly without a cause, unless its error looks
  like a time-out: then it is one, and counts against the endpoint.

## 6. Not modelled

- Watchdogs: when they ask for a reconnect is decided by thresholds on measured
  traffic; that they may ask at any time is in `IosRuntime`.
- Packet tunnel provider and tunnel manager: their calls into Go are `Start`,
  `Stop` and `LookUp` of `IosRuntime`, in any order. Their own state lives on the
  callback queues of the system and the main actor, whose ordering guarantees are
  not in the repository.
- `RunPing`, the command line client, and the account mode: they compose the same
  parts, or are not reached by the iOS client.
- Inside one HTTP request and one attempt of the automatic captcha solver (HTML,
  hash puzzle, image processing), DNS, SOCKS and WireGuard glue, obfuscation,
  memory tuning, profiles, user interface, widget and build tooling: input and
  output, cryptography, presentation or third-party code without a protocol of
  their own.

## 7. Plan

Every safety property of the runs is proved. What is left:

1. The composition of `FloodGate` and `VKAuth`: that the one step "request" of the
   first is an abstraction of a fetch of the second.
2. `Session` with more than one configuration exchange: an abstract specification of the
   `ConfigOperation` a session holds, as `PermitUse` is of its permit, implemented by
   `Session` and `ConfigCoordinator`.
