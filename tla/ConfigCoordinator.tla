------------------------- MODULE ConfigCoordinator --------------------------
(***************************************************************************)
(* How the WireGuard configuration reaches the tunnel in one run of the    *)
(* transport: ConfigCoordinator and ConfigOperation,                       *)
(* go_client/config_coordinator.go; the sessions that ask the server for   *)
(* it (WorkerGroup in group.go, RunSession in session.go, RequestConfig in *)
(* protocol.go); the consumer of configCh and the teardown of runOnce in   *)
(* ios_bridge.go.                                                          *)
(*                                                                         *)
(* A worker has at most one ConfigOperation that is not finished, so the   *)
(* operation is named by its worker.                                       *)
(***************************************************************************)
EXTENDS Naturals, FiniteSets

CONSTANTS
    Workers,  \* the workers of all groups
    Nobody    \* activeOp is nil

ASSUME ConfigAssumption == Nobody \notin Workers

VARIABLES
    sent,          \* c.sent
    activeOp,      \* c.activeOp
    cooling,       \* time.Now() is before c.retryUntil
    pc,            \* where each worker is
    open,          \* workers whose operation's doneOnce has not run
    configCh,      \* configurations in the buffer of configCh (capacity 1)
    closed,        \* configCh is closed
    runCancelled,  \* runCtx is done
    activated,     \* rt.activate is closed: iOS has installed the routes
    consumer,      \* where the consumer goroutine of runOnce is
    ready,         \* rt.ready is closed
    device,        \* the userspace WireGuard device
    runPc,         \* where runOnce is
    deliveries     \* history: configurations put into configCh

coordVars == <<sent, activeOp, cooling>>
workerVars == <<pc, open>>
consumerVars == <<consumer, ready, device>>
vars == <<coordVars, workerVars, configCh, closed, runCancelled, activated, consumerVars,
          runPc, deliveries>>

\* connecting: in RunSession, before the handshake is done;  requesting: in
\* RequestConfig;  delivering, delivered: in DeliverConfig, before and after
\* the write to configCh;  running: registered with the dispatcher;  ending,
\* dying: in the deferred calls of RunSession, the latter with FATAL_AUTH
InSession == {"connecting", "requesting", "delivering", "delivered", "running",
              "ending", "dying"}
Locations == {"top", "retry", "gone"} \cup InSession

\* A run after a reconnect finds rt.ready, and perhaps rt.activate, closed by an
\* earlier one; everything else is new in each run.
Init ==
    /\ sent = FALSE /\ activeOp = Nobody /\ cooling = FALSE
    /\ pc = [w \in Workers |-> "top"]
    /\ open = {}
    /\ configCh = 0 /\ closed = FALSE
    /\ runCancelled = FALSE
    /\ ready \in BOOLEAN /\ activated \in BOOLEAN /\ (activated => ready)
    /\ consumer = "waiting" /\ device = "none"
    /\ runPc = "working"
    /\ deliveries = 0

Goto(w, l) == pc' = [pc EXCEPT ![w] = l]

rest == <<closed, runCancelled, activated, consumerVars, runPc>>

-----------------------------------------------------------------------------
\* finishOp with the cooldown of 3 s that every failing caller passes.
FinishOp(w, success) ==
    \/ /\ activeOp = w
       /\ activeOp' = Nobody
       /\ sent' = (sent \/ success)
       /\ cooling' = ~success
    \/ activeOp # w /\ UNCHANGED coordVars

\* ReleaseWithCooldown: at most once per operation.
Release(w) ==
    \/ w \in open /\ open' = open \ {w} /\ FinishOp(w, FALSE)
    \/ w \notin open /\ UNCHANGED <<open, coordVars>>

MayAcquire == ~sent /\ activeOp = Nobody /\ ~cooling

\* The head of the worker's loop: TryAcquire, then RunSession.
BeginSession(w) ==
    /\ pc[w] = "top"
    /\ ~runCancelled
    /\ \/ /\ MayAcquire
          /\ activeOp' = w
          /\ open' = open \cup {w}
       \/ /\ ~MayAcquire
          /\ UNCHANGED <<activeOp, open>>
    /\ Goto(w, "connecting")
    /\ UNCHANGED <<sent, cooling, configCh, deliveries, rest>>

\* Any failure up to the end of the handshake, or to send AUTH after it.
ConnectFails(w) ==
    /\ pc[w] = "connecting"
    /\ Goto(w, "ending")
    /\ UNCHANGED <<coordVars, open, configCh, deliveries, rest>>

\* A session without an operation sends AUTH and goes on.
Connected(w) ==
    /\ pc[w] = "connecting"
    /\ Goto(w, IF w \in open THEN "requesting" ELSE "running")
    /\ UNCHANGED <<coordVars, open, configCh, deliveries, rest>>

\* RequestConfig: DENIED ...
RequestDenied(w) ==
    /\ pc[w] = "requesting"
    /\ Goto(w, "dying")
    /\ UNCHANGED <<coordVars, open, configCh, deliveries, rest>>

\* ... NOCONF, or no usable answer in ten attempts: the session goes on
\* without a configuration ...
RequestFruitless(w) ==
    /\ pc[w] = "requesting"
    /\ Release(w)
    /\ Goto(w, "running")
    /\ UNCHANGED <<configCh, deliveries, rest>>

\* ... or a configuration, and DeliverConfig is entered.
RequestAnswered(w) ==
    /\ pc[w] = "requesting"
    /\ open' = open \ {w}
    /\ Goto(w, "delivering")
    /\ UNCHANGED <<coordVars, configCh, deliveries, rest>>

\* configCh <- conf
WriteConfig(w) ==
    /\ pc[w] = "delivering"
    /\ configCh = 0
    /\ configCh' = 1
    /\ deliveries' = deliveries + 1
    /\ Goto(w, "delivered")
    /\ UNCHANGED <<coordVars, open, rest>>

DeliveryTimesOutAsSent(w) ==
    /\ pc[w] = "delivering"
    /\ FinishOp(w, TRUE)
    /\ Goto(w, "running")
    /\ UNCHANGED <<open, configCh, deliveries, rest>>

\* The 2 s are over; a random select may prefer them to a free channel.
DeliveryTimesOut(w) ==
    /\ pc[w] = "delivering"
    /\ FinishOp(w, FALSE)
    /\ Goto(w, "running")
    /\ UNCHANGED <<open, configCh, deliveries, rest>>

FinishDelivery(w) ==
    /\ pc[w] = "delivered"
    /\ FinishOp(w, TRUE)
    /\ Goto(w, "running")
    /\ UNCHANGED <<open, configCh, deliveries, rest>>

\* An established session ends with its connection or with runCtx, but not by
\* itself: a read that times out is repeated.
SessionEnds(w) ==
    /\ pc[w] = "running"
    /\ Goto(w, "ending")
    /\ UNCHANGED <<coordVars, open, configCh, deliveries, rest>>

\* What the worker does when its session has ended: it returns after FATAL_AUTH
\* and in a cancelled run; another failure is retried, or "error 29" and final.
AfterSession(w) ==
    IF pc[w] = "dying" \/ runCancelled THEN {"gone"} ELSE {"gone", "retry"}

LeaveSessionKeepsOp(w) ==
    /\ pc[w] \in {"ending", "dying"}
    /\ open' = open \ {w}
    /\ \E l \in AfterSession(w) : Goto(w, l)
    /\ UNCHANGED <<coordVars, configCh, deliveries, rest>>

\* The deferred ReleaseWithCooldown; then the worker returns or retries.
LeaveSession(w) ==
    /\ pc[w] \in {"ending", "dying"}
    /\ Release(w)
    /\ \E l \in AfterSession(w) : Goto(w, l)
    /\ UNCHANGED <<configCh, deliveries, rest>>

RetryDelayOver(w) ==
    /\ pc[w] = "retry"
    /\ Goto(w, "top")
    /\ UNCHANGED <<coordVars, open, configCh, deliveries, rest>>

WorkerReturns(w) ==
    /\ runCancelled
    /\ pc[w] \in {"top", "retry"}
    /\ Goto(w, "gone")
    /\ UNCHANGED <<coordVars, open, configCh, deliveries, rest>>

CooldownOver ==
    /\ cooling
    /\ cooling' = FALSE
    /\ UNCHANGED <<sent, activeOp, workerVars, configCh, deliveries, rest>>

-----------------------------------------------------------------------------
other == <<coordVars, workerVars, deliveries>>

\* The consumer goroutine: a configuration arrives, ...
TakeConfig ==
    /\ consumer = "waiting"
    /\ configCh = 1
    /\ configCh' = 0
    /\ consumer' = "configuring"
    /\ UNCHANGED <<other, closed, runCancelled, activated, ready, device, runPc>>

ConsumerStopsWaiting ==
    /\ consumer = "waiting"
    /\ runCancelled \/ (closed /\ configCh = 0)
    /\ consumer' = "exited"
    /\ UNCHANGED <<other, configCh, closed, runCancelled, activated, ready, device, runPc>>

\* ... or the run ends first ...
ConsumerStops ==
    /\ \/ consumer = "waiting" /\ (runCancelled \/ (closed /\ configCh = 0))
       \/ consumer = "activating" /\ runCancelled
    /\ consumer' = "exited"
    /\ UNCHANGED <<other, configCh, closed, runCancelled, activated, ready, device, runPc>>

\* ... or the configuration cannot be parsed, or WireGuard not be started:
\* runCancel().
ConsumerFails ==
    /\ consumer \in {"configuring", "starting"}
    /\ consumer' = "exited"
    /\ runCancelled' = TRUE
    /\ UNCHANGED <<other, configCh, closed, activated, ready, device, runPc>>

AnnounceReady ==
    /\ consumer = "configuring"
    /\ ready' = TRUE
    /\ consumer' = "activating"
    /\ UNCHANGED <<other, configCh, closed, runCancelled, activated, device, runPc>>

SeeActivated ==
    /\ consumer = "activating"
    /\ activated
    /\ consumer' = "starting"
    /\ UNCHANGED <<other, configCh, closed, runCancelled, activated, ready, device, runPc>>

StartDevice ==
    /\ consumer = "starting"
    /\ device' = "up"
    /\ consumer' = "exited"
    /\ UNCHANGED <<other, configCh, closed, runCancelled, activated, ready, runPc>>

\* The Swift side calls WDTT_Activate after rt.ready.
Activate ==
    /\ ready
    /\ ~activated
    /\ activated' = TRUE
    /\ UNCHANGED <<other, configCh, closed, runCancelled, consumerVars, runPc>>

\* Stop, or a request to reconnect.
CancelRun ==
    /\ ~runCancelled
    /\ runCancelled' = TRUE
    /\ UNCHANGED <<other, configCh, closed, activated, consumerVars, runPc>>

CloseConfigEagerly ==
    /\ runPc = "working"
    /\ runCancelled
    /\ closed' = TRUE
    /\ runPc' = "closing"
    /\ UNCHANGED <<other, configCh, runCancelled, activated, consumerVars>>

\* runOnce after wg.Wait(): runCancel(), close(configCh) ...
CloseConfig ==
    /\ runPc = "working"
    /\ \A w \in Workers : pc[w] = "gone"
    /\ runCancelled' = TRUE
    /\ closed' = TRUE
    /\ runPc' = "closing"
    /\ UNCHANGED <<other, configCh, activated, consumerVars>>

\* ... <-configDone, and the device is closed.
Return ==
    /\ runPc = "closing"
    /\ consumer = "exited"
    /\ device' = IF device = "up" THEN "closed" ELSE device
    /\ runPc' = "returned"
    /\ UNCHANGED <<other, configCh, closed, runCancelled, activated, consumer, ready>>

Finished == runPc = "returned" /\ UNCHANGED vars

\* What a worker does by itself.
WorkerStep(w) ==
    \/ BeginSession(w) \/ ConnectFails(w) \/ Connected(w)
    \/ RequestDenied(w) \/ RequestFruitless(w) \/ RequestAnswered(w)
    \/ WriteConfig(w) \/ DeliveryTimesOut(w) \/ FinishDelivery(w)
    \/ LeaveSession(w) \/ RetryDelayOver(w) \/ WorkerReturns(w)

ConsumerStep ==
    \/ TakeConfig \/ ConsumerStops \/ ConsumerFails \/ AnnounceReady \/ SeeActivated
    \/ StartDevice

Next ==
    \/ \E w \in Workers : WorkerStep(w) \/ SessionEnds(w)
    \/ ConsumerStep
    \/ CooldownOver \/ Activate \/ CancelRun \/ CloseConfig \/ Return \/ Finished

Spec == Init /\ [][Next]_vars

\* Handshake, RequestConfig, DeliverConfig and the retry delay have timeouts,
\* and a cancelled run ends its sessions; a session that is well may last.
FairSpec ==
    /\ Spec
    /\ \A w \in Workers :
          WF_vars(WorkerStep(w)) /\ WF_vars(runCancelled /\ SessionEnds(w))
    /\ WF_vars(ConsumerStep) /\ WF_vars(CooldownOver) /\ WF_vars(CloseConfig)
    /\ WF_vars(Return)

-----------------------------------------------------------------------------
\* Types of the coordinator, of configCh and of runOnce: configCh, with room
\* for one, gets at most one configuration in a run.
TypeOK ==
    /\ sent \in BOOLEAN /\ cooling \in BOOLEAN
    /\ activeOp \in Workers \cup {Nobody}
    /\ pc \in [Workers -> Locations]
    /\ open \subseteq Workers
    /\ configCh \in 0..1
    /\ closed \in BOOLEAN /\ runCancelled \in BOOLEAN /\ activated \in BOOLEAN
    /\ consumer \in {"waiting", "configuring", "activating", "starting", "exited"}
    /\ ready \in BOOLEAN
    /\ device \in {"none", "up", "closed"}
    /\ runPc \in {"working", "closing", "returned"}
    /\ deliveries \in 0..1

\* The owner of an operation that is to be finished yet.
Owes(w) == w \in open \/ pc[w] \in {"delivering", "delivered"}

\* The operation in activeOp is the only unfinished one, and its owner is in a
\* session that is going to finish it: no early return leaks it.
ActiveOpIsOwed == \A w \in Workers : Owes(w) <=> activeOp = w

\* c.sent is set for a configuration that was really written to configCh, and
\* nobody works on another one from then on.
SentMeansDelivered == sent => deliveries = 1 /\ activeOp = Nobody

\* configCh is never written to after it was closed (a panic in Go).
NoWriteAfterClose == closed => \A w \in Workers : pc[w] # "delivering"

\* runOnce does not return with the WireGuard device still up, or about to be
\* brought up by the consumer.
DeviceIsClosed == runPc = "returned" => device # "up" /\ consumer = "exited"

\* The teardown of runOnce keeps its order: the channel is closed after the last
\* write, and the device after the consumer that may have brought it up.
TeardownIsOrderly == NoWriteAfterClose /\ DeviceIsClosed

\* A run that is cancelled comes to its end.
RunEnds == runCancelled ~> runPc = "returned"

\* session.go promises to ask again later when the server has no configuration
\* yet: an attempt without success is followed by another one while the run and
\* its workers last.  Does not hold: nobody asks once every worker has a session.
FruitlessIsRetried ==
    (cooling /\ activeOp = Nobody)
       ~> (activeOp # Nobody \/ sent \/ runCancelled \/ \E w \in Workers : pc[w] = "gone")
=============================================================================
