--------------------------- MODULE MCTurnScheduler --------------------------
(* A small instance of TurnScheduler: two workers and two relays for two   *)
(* instants, and a third worker that comes and goes before time passes.    *)
EXTENDS TurnScheduler

CONSTANTS w1, w2, w3, e1, e2

\* A group whose only relay is e1, and groups that list both relays.
MCEndpoints == {e1, e2}
MCCandidateLists == {<<e1>>, <<e1, e2>>}

\* The third worker is there so that both relays can be occupied while a worker
\* looks for one: only then is a wait without a timer.  Bound: it is in the
\* scheduler only while time stands at its first instant, nothing has timed out, and
\* everybody lists both relays without a preference.
ThreeAreThere ==
    /\ clock = 1
    /\ \A e \in Endpoints : failures[e] = 0
    /\ \A w \in Workers : /\ told[w] # "timeout"
                         /\ cands[w] \in {<< >>, <<e1, e2>>}
                         /\ preferred[w] = NoEndpoint

\* Bound: of the first two workers only one has a preferred relay.
Bounded ==
    /\ preferred'[w2] = NoEndpoint
    /\ pc'[w3] # "idle" => ThreeAreThere'

BoundedSpec == Init /\ [][Next /\ Bounded]_vars

\* The fairness of FairSpec as far as AcquireGoesOn needs it.  Time waits for the
\* third worker to leave, but then no pause is running either.
FairBoundedSpec ==
    /\ BoundedSpec
    /\ WF_vars(Tick /\ Bounded)
    /\ \A w \in Workers : WF_vars(WorkerStep(w))
    /\ SF_vars(TakeSlot(w1))

\* Acquire goes on, with a timer or without: a worker that waits because every relay
\* is occupied is woken when one is given back, by Finish or by a cancelled Acquire,
\* and one that waits for a pause by its timer; a worker that has reserved a relay
\* gets a slot of `global` or its context ends.  (For one worker, the one that may have
\* a preferred relay: the specification treats all alike.)
AcquireGoesOn == WaitEndsFor(w1) /\ ReservationIsServedFor(w1)
=============================================================================
