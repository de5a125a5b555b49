---------------------- MODULE ConfigCoordinatorProofs -----------------------
(***************************************************************************)
(* The safety of ConfigCoordinator for any set of workers.                 *)
(***************************************************************************)
EXTENDS ConfigCoordinator, TLAPS

\* An operation that is still open belongs to a session before its delivery or
\* on its way out; workers between sessions have none.  Only its owner asks.
OpenInSession ==
    /\ \A w \in open : pc[w] \in {"connecting", "requesting", "ending", "dying"}
    /\ \A w \in Workers : pc[w] = "requesting" => w \in open

\* A configuration has been put into configCh exactly when it is recorded as
\* sent or its worker is about to record it.
DeliveriesRecorded ==
    deliveries = 1 <=> (sent \/ \E w \in Workers : pc[w] = "delivered")

\* sent excludes an operation under way.
SentIsFinal == sent => activeOp = Nobody

\* The channel is closed only after the last worker has returned.
ClosedAfterWorkers ==
    /\ closed <=> runPc # "working"
    /\ closed => \A w \in Workers : pc[w] = "gone"

\* Each of SentMeansDelivered, NoWriteAfterClose and DeviceIsClosed is a
\* consequence; none is inductive alone.
Inv ==
    /\ TypeOK
    /\ ActiveOpIsOwed
    /\ OpenInSession
    /\ DeliveriesRecorded
    /\ SentIsFinal
    /\ ClosedAfterWorkers
    /\ DeviceIsClosed

\* A run starts without operations, deliveries or a device.
LEMMA InitInv == Init => Inv
  <1> SUFFICES ASSUME Init PROVE Inv
    OBVIOUS
  <1> USE DEF Init
  <1>1. TypeOK
    <2>1. pc \in [Workers -> Locations] /\ configCh \in 0..1 /\ deliveries \in 0..1
      BY DEF Locations
    <2> QED
      BY <2>1, Zenon DEF TypeOK
  <1>2. ActiveOpIsOwed /\ OpenInSession
    BY ConfigAssumption DEF ActiveOpIsOwed, Owes, OpenInSession
  <1>3. DeliveriesRecorded /\ SentIsFinal
    BY DEF DeliveriesRecorded, SentIsFinal
  <1>4. ClosedAfterWorkers /\ DeviceIsClosed
    BY DEF ClosedAfterWorkers, DeviceIsClosed
  <1> QED
    BY <1>1, <1>2, <1>3, <1>4 DEF Inv

\* The steps of runOnce and of its consumer leave coordinator and workers
\* alone; close(configCh) waits for the workers, return for the consumer.
LEMMA RunStepInv ==
  ASSUME Inv,
         \/ ConsumerStep \/ CooldownOver \/ Activate \/ CancelRun
         \/ CloseConfig \/ Return \/ UNCHANGED vars
  PROVE  Inv'
  <1> USE DEF Inv, TypeOK, ActiveOpIsOwed, Owes, OpenInSession, DeliveriesRecorded,
              SentIsFinal, ClosedAfterWorkers, DeviceIsClosed, other, rest, coordVars,
              workerVars, consumerVars
  <1>1. CASE TakeConfig       BY <1>1 DEF TakeConfig
  <1>2. CASE ConsumerStops    BY <1>2 DEF ConsumerStops
  <1>3. CASE ConsumerFails    BY <1>3 DEF ConsumerFails
  <1>4. CASE AnnounceReady    BY <1>4 DEF AnnounceReady
  <1>5. CASE SeeActivated     BY <1>5 DEF SeeActivated
  <1>6. CASE StartDevice      BY <1>6 DEF StartDevice
  <1>7. CASE CooldownOver     BY <1>7, ZenonT(60) DEF CooldownOver
  <1>8. CASE Activate         BY <1>8 DEF Activate
  <1>9. CASE CancelRun        BY <1>9 DEF CancelRun
  <1>10. CASE CloseConfig     BY <1>10 DEF CloseConfig
  <1>11. CASE Return          BY <1>11 DEF Return
  <1>12. CASE UNCHANGED vars  BY <1>12 DEF vars
  <1> QED
    BY <1>1, <1>2, <1>3, <1>4, <1>5, <1>6, <1>7, <1>8, <1>9, <1>10, <1>11, <1>12
    DEF ConsumerStep

\* What a step of a worker leaves to show, once the run's own variables are
\* known to be unchanged.
LEMMA WorkerFrame ==
  ASSUME Inv, NEW w \in Workers, pc[w] # "gone",
         UNCHANGED rest,
         TypeOK', ActiveOpIsOwed', OpenInSession', DeliveriesRecorded', SentIsFinal'
  PROVE  Inv'
  BY DEF Inv, ClosedAfterWorkers, DeviceIsClosed, rest, consumerVars

\* finishOp keeps the types of the coordinator.
LEMMA FinishOpTypes ==
  ASSUME TypeOK, NEW w, NEW success \in BOOLEAN, FinishOp(w, success)
  PROVE  sent' \in BOOLEAN /\ cooling' \in BOOLEAN /\ activeOp' \in Workers \cup {Nobody}
  <1>1. CASE activeOp = w
    BY <1>1, Zenon DEF FinishOp, TypeOK, coordVars
  <1>2. CASE activeOp # w
    BY <1>2 DEF FinishOp, TypeOK, coordVars
  <1> QED
    BY <1>1, <1>2

\* So does ReleaseWithCooldown, which may take away its own worker only.
LEMMA ReleaseTypes ==
  ASSUME TypeOK, NEW w, Release(w)
  PROVE  /\ sent' \in BOOLEAN /\ cooling' \in BOOLEAN /\ activeOp' \in Workers \cup {Nobody}
         /\ open' \subseteq Workers
  <1>1. CASE w \in open
    BY <1>1, FinishOpTypes DEF Release, TypeOK
  <1>2. CASE w \notin open
    BY <1>2 DEF Release, TypeOK, coordVars
  <1> QED
    BY <1>1, <1>2

\* The steps of a worker.
LEMMA WorkerStepInv ==
  ASSUME Inv, NEW w \in Workers, WorkerStep(w) \/ SessionEnds(w)
  PROVE  Inv'
  <1> USE ConfigAssumption DEF Inv, coordVars, Goto
  <1>1. CASE BeginSession(w)
    <2> USE <1>1 DEF BeginSession, MayAcquire
    <2>1. TypeOK'
      BY DEF TypeOK, Locations, InSession, rest, consumerVars
    <2>2. ActiveOpIsOwed' /\ OpenInSession'
      BY DEF TypeOK, ActiveOpIsOwed, Owes, OpenInSession
    <2>3. DeliveriesRecorded' /\ SentIsFinal'
      BY DEF TypeOK, ActiveOpIsOwed, Owes, OpenInSession, DeliveriesRecorded, SentIsFinal
    <2> QED
      BY <2>1, <2>2, <2>3, WorkerFrame
  <1>2. CASE ConnectFails(w)
    <2> USE <1>2 DEF ConnectFails
    <2>1. TypeOK'
      BY DEF TypeOK, Locations, InSession, rest, consumerVars
    <2>2. ActiveOpIsOwed' /\ OpenInSession'
      BY DEF TypeOK, ActiveOpIsOwed, Owes, OpenInSession
    <2>3. DeliveriesRecorded' /\ SentIsFinal'
      BY DEF TypeOK, ActiveOpIsOwed, Owes, OpenInSession, DeliveriesRecorded, SentIsFinal
    <2> QED
      BY <2>1, <2>2, <2>3, WorkerFrame
  <1>3. CASE Connected(w)
    <2> USE <1>3 DEF Connected
    <2>1. TypeOK'
      BY DEF TypeOK, Locations, InSession, rest, consumerVars
    <2>2. ActiveOpIsOwed' /\ OpenInSession'
      BY DEF TypeOK, ActiveOpIsOwed, Owes, OpenInSession
    <2>3. DeliveriesRecorded' /\ SentIsFinal'
      BY DEF TypeOK, ActiveOpIsOwed, Owes, OpenInSession, DeliveriesRecorded, SentIsFinal
    <2> QED
      BY <2>1, <2>2, <2>3, WorkerFrame
  <1>4. CASE RequestDenied(w)
    <2> USE <1>4 DEF RequestDenied
    <2>1. TypeOK'
      BY DEF TypeOK, Locations, InSession, rest, consumerVars
    <2>2. ActiveOpIsOwed' /\ OpenInSession'
      BY DEF TypeOK, ActiveOpIsOwed, Owes, OpenInSession
    <2>3. DeliveriesRecorded' /\ SentIsFinal'
      BY DEF TypeOK, ActiveOpIsOwed, Owes, OpenInSession, DeliveriesRecorded, SentIsFinal
    <2> QED
      BY <2>1, <2>2, <2>3, WorkerFrame
  <1>5. CASE RequestFruitless(w)
    <2>1. /\ sent' \in BOOLEAN /\ cooling' \in BOOLEAN
          /\ activeOp' \in Workers \cup {Nobody} /\ open' \subseteq Workers
      BY <1>5, ReleaseTypes DEF RequestFruitless, TypeOK
    <2>2. TypeOK'
      BY <1>5, <2>1 DEF RequestFruitless, TypeOK, Locations, InSession, rest, consumerVars
    <2> USE <1>5 DEF RequestFruitless, Release, FinishOp
    <2>3. ActiveOpIsOwed' /\ OpenInSession'
      BY DEF TypeOK, ActiveOpIsOwed, Owes, OpenInSession
    <2>4. DeliveriesRecorded' /\ SentIsFinal'
      BY DEF TypeOK, ActiveOpIsOwed, Owes, OpenInSession, DeliveriesRecorded, SentIsFinal
    <2> QED
      BY <2>2, <2>3, <2>4, WorkerFrame
  <1>6. CASE RequestAnswered(w)
    <2> USE <1>6 DEF RequestAnswered
    <2>1. TypeOK'
      BY DEF TypeOK, Locations, InSession, rest, consumerVars
    <2>2. ActiveOpIsOwed' /\ OpenInSession'
      BY DEF TypeOK, ActiveOpIsOwed, Owes, OpenInSession
    <2>3. DeliveriesRecorded' /\ SentIsFinal'
      BY DEF TypeOK, ActiveOpIsOwed, Owes, OpenInSession, DeliveriesRecorded, SentIsFinal
    <2> QED
      BY <2>1, <2>2, <2>3, WorkerFrame
  <1>7. CASE WriteConfig(w)
    <2> USE <1>7 DEF WriteConfig
    <2>1. activeOp = w /\ deliveries = 0
      BY DEF TypeOK, ActiveOpIsOwed, Owes, DeliveriesRecorded, SentIsFinal
    <2>2. TypeOK'
      BY <2>1 DEF TypeOK, Locations, InSession, rest, consumerVars
    <2>3. \A v \in Workers : Owes(v)' <=> Owes(v)
      BY DEF TypeOK, Owes
    <2>4. ActiveOpIsOwed' /\ OpenInSession'
      BY <2>3 DEF TypeOK, ActiveOpIsOwed, Owes, OpenInSession
    <2>5. DeliveriesRecorded' /\ SentIsFinal'
      BY DEF TypeOK, ActiveOpIsOwed, Owes, OpenInSession, DeliveriesRecorded, SentIsFinal
    <2> QED
      BY <2>2, <2>4, <2>5, WorkerFrame
  <1>8. CASE DeliveryTimesOut(w)
    <2>1. /\ sent' \in BOOLEAN /\ cooling' \in BOOLEAN
          /\ activeOp' \in Workers \cup {Nobody} /\ open' \subseteq Workers
      BY <1>8, FinishOpTypes DEF DeliveryTimesOut, TypeOK
    <2>2. TypeOK'
      BY <1>8, <2>1 DEF DeliveryTimesOut, TypeOK, Locations, InSession, rest, consumerVars
    <2> USE <1>8 DEF DeliveryTimesOut, FinishOp
    <2>3. ActiveOpIsOwed' /\ OpenInSession'
      BY DEF TypeOK, ActiveOpIsOwed, Owes, OpenInSession
    <2>4. DeliveriesRecorded' /\ SentIsFinal'
      BY DEF TypeOK, ActiveOpIsOwed, Owes, OpenInSession, DeliveriesRecorded, SentIsFinal
    <2> QED
      BY <2>2, <2>3, <2>4, WorkerFrame
  <1>9. CASE FinishDelivery(w)
    <2>1. /\ sent' \in BOOLEAN /\ cooling' \in BOOLEAN
          /\ activeOp' \in Workers \cup {Nobody} /\ open' \subseteq Workers
      BY <1>9, FinishOpTypes DEF FinishDelivery, TypeOK
    <2>2. TypeOK'
      BY <1>9, <2>1 DEF FinishDelivery, TypeOK, Locations, InSession, rest, consumerVars
    <2> USE <1>9 DEF FinishDelivery, FinishOp
    <2>3. ActiveOpIsOwed' /\ OpenInSession'
      BY DEF TypeOK, ActiveOpIsOwed, Owes, OpenInSession
    <2>4. DeliveriesRecorded' /\ SentIsFinal'
      BY DEF TypeOK, ActiveOpIsOwed, Owes, OpenInSession, DeliveriesRecorded, SentIsFinal
    <2> QED
      BY <2>2, <2>3, <2>4, WorkerFrame
  <1>10. CASE LeaveSession(w)
    <2>1. /\ sent' \in BOOLEAN /\ cooling' \in BOOLEAN
          /\ activeOp' \in Workers \cup {Nobody} /\ open' \subseteq Workers
      BY <1>10, ReleaseTypes DEF LeaveSession, TypeOK
    <2>2. PICK l \in {"gone", "retry"} : pc' = [pc EXCEPT ![w] = l]
      BY <1>10 DEF LeaveSession, AfterSession, Goto
    <2>3. /\ pc[w] \in {"ending", "dying"} /\ Release(w)
          /\ UNCHANGED <<configCh, deliveries, rest>>
      BY <1>10 DEF LeaveSession
    <2>4. TypeOK'
      BY <2>1, <2>2, <2>3 DEF TypeOK, Locations, InSession, rest, consumerVars
    <2> USE <2>2, <2>3 DEF Release, FinishOp
    <2>5. ActiveOpIsOwed' /\ OpenInSession'
      BY DEF TypeOK, ActiveOpIsOwed, Owes, OpenInSession
    <2>6. DeliveriesRecorded' /\ SentIsFinal'
      BY DEF TypeOK, ActiveOpIsOwed, Owes, OpenInSession, DeliveriesRecorded, SentIsFinal
    <2> QED
      BY <2>4, <2>5, <2>6, WorkerFrame
  <1>11. CASE RetryDelayOver(w)
    <2> USE <1>11 DEF RetryDelayOver
    <2>1. TypeOK'
      BY DEF TypeOK, Locations, InSession, rest, consumerVars
    <2>2. ActiveOpIsOwed' /\ OpenInSession'
      BY DEF TypeOK, ActiveOpIsOwed, Owes, OpenInSession
    <2>3. DeliveriesRecorded' /\ SentIsFinal'
      BY DEF TypeOK, ActiveOpIsOwed, Owes, OpenInSession, DeliveriesRecorded, SentIsFinal
    <2> QED
      BY <2>1, <2>2, <2>3, WorkerFrame
  <1>12. CASE WorkerReturns(w)
    <2> USE <1>12 DEF WorkerReturns
    <2>1. TypeOK'
      BY DEF TypeOK, Locations, InSession, rest, consumerVars
    <2>2. ActiveOpIsOwed' /\ OpenInSession'
      BY DEF TypeOK, ActiveOpIsOwed, Owes, OpenInSession
    <2>3. DeliveriesRecorded' /\ SentIsFinal'
      BY DEF TypeOK, ActiveOpIsOwed, Owes, OpenInSession, DeliveriesRecorded, SentIsFinal
    <2> QED
      BY <2>1, <2>2, <2>3, WorkerFrame
  <1>13. CASE SessionEnds(w)
    <2> USE <1>13 DEF SessionEnds
    <2>1. TypeOK'
      BY DEF TypeOK, Locations, InSession, rest, consumerVars
    <2>2. ActiveOpIsOwed' /\ OpenInSession'
      BY DEF TypeOK, ActiveOpIsOwed, Owes, OpenInSession
    <2>3. DeliveriesRecorded' /\ SentIsFinal'
      BY DEF TypeOK, ActiveOpIsOwed, Owes, OpenInSession, DeliveriesRecorded, SentIsFinal
    <2> QED
      BY <2>1, <2>2, <2>3, WorkerFrame
  <1> QED
    BY <1>1, <1>2, <1>3, <1>4, <1>5, <1>6, <1>7, <1>8, <1>9, <1>10, <1>11, <1>12, <1>13
    DEF WorkerStep

\* The invariant holds in every run.
THEOREM InvHolds == Spec => []Inv
  <1>1. Inv /\ [Next]_vars => Inv'
    BY RunStepInv, WorkerStepInv DEF Next, Finished
  <1> QED
    BY <1>1, InitInv, PTL DEF Spec

\* configCh gets at most one configuration in a run, and every variable keeps
\* its type.
THEOREM TypeCorrect == Spec => []TypeOK
  <1>1. Inv => TypeOK
    BY DEF Inv
  <1> QED
    BY <1>1, InvHolds, PTL

\* No return of RunSession leaks the ConfigOperation: whoever is in
\* c.activeOp is in a session that will finish it, and nobody else has one.
THEOREM OwnershipCorrect == Spec => []ActiveOpIsOwed
  <1>1. Inv => ActiveOpIsOwed
    BY DEF Inv
  <1> QED
    BY <1>1, InvHolds, PTL

\* c.sent tells the truth: the configuration is in the hands of the consumer,
\* and nobody asks the server for another one.
THEOREM DeliveryCorrect == Spec => []SentMeansDelivered
  <1>1. Inv => SentMeansDelivered
    BY DEF Inv, SentMeansDelivered, DeliveriesRecorded, SentIsFinal
  <1> QED
    BY <1>1, InvHolds, PTL

\* runOnce closes configCh when nobody can write to it any more, and does not
\* leave a WireGuard device behind.
THEOREM TeardownCorrect == Spec => []TeardownIsOrderly
  <1>1. Inv => TeardownIsOrderly
    BY DEF Inv, TeardownIsOrderly, NoWriteAfterClose, ClosedAfterWorkers
  <1> QED
    BY <1>1, InvHolds, PTL
=============================================================================
