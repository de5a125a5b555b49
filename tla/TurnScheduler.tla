--------------------------- MODULE TurnScheduler ---------------------------
(***************************************************************************)
(* The TURN endpoint scheduler of go_client/turn_scheduler.go: a worker    *)
(* that wants to run a DTLS handshake first reserves one of its candidate  *)
(* endpoints (under mu) and then takes one of GlobalLimit handshake slots  *)
(* (a send on the channel `global`, outside mu).  Endpoints that time out  *)
(* are paused and later probed once.                                       *)
(*                                                                         *)
(* Every step below is one critical section of mu, one channel operation   *)
(* or one read of the clock: what other goroutines can see of a call.  An  *)
(* endpoint absent from the Go map is the state Fresh, which is what       *)
(* stateLocked creates on first use.                                       *)
(***************************************************************************)
EXTENDS Integers, Sequences, FiniteSets

CONSTANTS
    Workers,         \* goroutines running RunSession
    Endpoints,       \* TURN endpoint keys
    NoEndpoint,      \* "no preferred endpoint", "none selected"
    CandidateLists,  \* what buildTurnEndpointCandidates may return
    GlobalLimit,     \* HandshakeConcurrency
    FailureLimit,    \* turnEndpointFailureLimit
    Pause,           \* turnEndpointPause, in ticks
    MaxClock         \* bound: last instant of the clock

\* A candidate list is not empty and free of duplicates
\* (buildTurnEndpointCandidates refuses the one and drops the other).
ASSUME SchedulerAssumption ==
    /\ IsFiniteSet(Workers)
    /\ NoEndpoint \notin Endpoints
    /\ CandidateLists \subseteq Seq(Endpoints)
    /\ \A c \in CandidateLists :
          /\ c # << >>
          /\ \A i, j \in DOMAIN c : c[i] = c[j] => i = j
    /\ GlobalLimit \in Nat \ {0}
    /\ FailureLimit \in Nat \ {0}
    /\ Pause \in Nat \ {0}
    /\ MaxClock \in Nat

VARIABLES
    clock,        \* time.Now; instant 0 is the zero time.Time
    \* the map of turnEndpointState, field by field
    active, failures, lastUsed, pausedUntil, probing,
    global,       \* occupied slots of the channel `global`
    parked,       \* waiting workers whose captured notify channel is open
    pc,           \* where each worker is in Acquire / Finish
    \* the local variables of its Acquire call
    cands, preferred, now, waitUntil,
    \* its permit: the endpoint, the holders with hasAlternatives, and the
    \* outcome Finish was told
    endpoint, chooser, told,
    cancelled     \* workers whose context is done

endpointVars == <<active, failures, lastUsed, pausedUntil, probing>>
callVars == <<cands, preferred, now, waitUntil>>
permitVars == <<endpoint, chooser, told>>
vars == <<clock, endpointVars, global, parked, pc, callVars, permitVars, cancelled>>

-----------------------------------------------------------------------------
Unset == 0      \* the zero time.Time

\* turnHandshakeOutcome
Outcomes == {"success", "timeout", "canceled", "other"}

\* idle:      not in the scheduler
\* picking:   has read the clock, about to lock mu
\* waiting:   in the select on ctx, notify and possibly a timer
\* reserved:  endpoint reserved, in the select on the global slot
\* granted:   holds a turnPermit
\* releasing: finish has received from `global`, about to lock mu
Holding == {"reserved", "granted", "releasing"}
Locations == {"idle", "picking", "waiting"} \cup Holding

Holders(e) == {w \in Workers : pc[w] \in Holding /\ endpoint[w] = e}

InSlots == {w \in Workers : pc[w] = "granted"}

SeveralCandidates(w) == Len(cands[w]) > 1

\* The candidates pickLocked looks at: a single one is taken as it is.
Judged(w) == {e \in Endpoints : /\ SeveralCandidates(w)
                                /\ \E i \in DOMAIN cands[w] : cands[w][i] = e}

-----------------------------------------------------------------------------
\* signalLocked closes the current notify channel and installs a new one.
signalLocked == parked' = {}

\* Timeouts were collected while there was no alternative: pause now.
LatePause(w) ==
    {e \in Judged(w) : failures[e] >= FailureLimit /\ pausedUntil[e] = Unset}

\* The pauses and the probe marks as the loop of pickLocked leaves them: an
\* endpoint whose pause has run out is marked for a probe.
PausedByPick(w) ==
    [e \in Endpoints |-> IF e \in LatePause(w) THEN now[w] + Pause ELSE pausedUntil[e]]

ProbingByPick(w) ==
    (probing \ LatePause(w))
       \cup {e \in Judged(w) : /\ failures[e] >= FailureLimit
                               /\ now[w] >= PausedByPick(w)[e]}

EligibleIgnoringPause(w, e) == active[e] = 0

EligibleIgnoringActive(w, e) == now[w] >= PausedByPick(w)[e]

Eligible(w, e) == now[w] >= PausedByPick(w)[e] /\ active[e] = 0

\* Positions of the candidates that may be taken.
Free(w) ==
    {i \in DOMAIN cands[w] : SeveralCandidates(w) => Eligible(w, cands[w][i])}

\* The result of pickLocked: the preferred endpoint if it is free, else the
\* least recently used one, the first of them in list order.
Selected(w) ==
    LET used(i) == lastUsed[cands[w][i]]
        wanted == {i \in Free(w) : cands[w][i] = preferred[w]}
        oldest == {i \in Free(w) : \A j \in Free(w) :
                       used(i) < used(j) \/ (used(i) = used(j) /\ i <= j)}
    IN  IF wanted # {} THEN wanted ELSE oldest

\* The ends of the pauses that are running as seen by w, and the first of
\* them (earliestPause; the zero time if no pause is running).
PauseEnds(w) == {t \in {PausedByPick(w)[e] : e \in Judged(w)} : t > now[w]}

IsEarliestPause(w, t) ==
    \/ PauseEnds(w) = {} /\ t = Unset
    \/ t \in PauseEnds(w) /\ \A u \in PauseEnds(w) : t <= u

-----------------------------------------------------------------------------
Init ==
    /\ clock = 1
    /\ active = [e \in Endpoints |-> 0]
    /\ failures = [e \in Endpoints |-> 0]
    /\ lastUsed = [e \in Endpoints |-> Unset]
    /\ pausedUntil = [e \in Endpoints |-> Unset]
    /\ probing = {}
    /\ global = 0
    /\ parked = {}
    /\ pc = [w \in Workers |-> "idle"]
    /\ cands = [w \in Workers |-> << >>]
    /\ preferred = [w \in Workers |-> NoEndpoint]
    /\ now = [w \in Workers |-> 0]
    /\ waitUntil = [w \in Workers |-> Unset]
    /\ endpoint = [w \in Workers |-> NoEndpoint]
    /\ chooser = {}
    /\ told = [w \in Workers |-> "none"]
    /\ cancelled = {}

\* The locals of a call go out of scope.
ForgetCall(w) ==
    /\ cands' = [cands EXCEPT ![w] = << >>]
    /\ preferred' = [preferred EXCEPT ![w] = NoEndpoint]
    /\ now' = [now EXCEPT ![w] = 0]
    /\ waitUntil' = [waitUntil EXCEPT ![w] = Unset]

\* The permit, or the reservation, is gone; so is the context of the session.
GiveUp(w) ==
    /\ pc' = [pc EXCEPT ![w] = "idle"]
    /\ endpoint' = [endpoint EXCEPT ![w] = NoEndpoint]
    /\ chooser' = chooser \ {w}
    /\ told' = [told EXCEPT ![w] = "none"]
    /\ cancelled' = cancelled \ {w}

\* The endpoint of preferredURL, if it is among the candidates; with a single
\* candidate it makes no difference.
Preferences(c) ==
    {NoEndpoint} \cup {c[i] : i \in {j \in DOMAIN c : Len(c) > 1}}

\* A session calls Acquire: it notes the preferred endpoint and reads the
\* clock, not yet holding mu.
Acquire(w) ==
    /\ pc[w] = "idle"
    /\ \E c \in CandidateLists : \E p \in Preferences(c) :
          /\ cands' = [cands EXCEPT ![w] = c]
          /\ preferred' = [preferred EXCEPT ![w] = p]
    /\ now' = [now EXCEPT ![w] = clock]
    /\ pc' = [pc EXCEPT ![w] = "picking"]
    /\ UNCHANGED <<clock, endpointVars, global, parked, waitUntil, permitVars, cancelled>>

\* The critical section of Acquire when pickLocked selects a candidate.
Reserve(w) ==
    /\ pc[w] = "picking"
    /\ \E i \in Selected(w) :
          /\ active' = [active EXCEPT ![cands[w][i]] = @ + 1]
          /\ lastUsed' = [lastUsed EXCEPT ![cands[w][i]] = now[w]]
          /\ endpoint' = [endpoint EXCEPT ![w] = cands[w][i]]
    /\ pausedUntil' = PausedByPick(w)
    /\ probing' = ProbingByPick(w)
    /\ chooser' = IF SeveralCandidates(w) THEN chooser \cup {w} ELSE chooser
    /\ pc' = [pc EXCEPT ![w] = "reserved"]
    /\ ForgetCall(w)
    /\ UNCHANGED <<clock, failures, global, parked, told, cancelled>>

\* The same critical section when there is nothing to select: the worker
\* captures notify and, when a candidate is paused, arms a timer.
Park(w) ==
    /\ pc[w] = "picking"
    /\ Free(w) = {}
    /\ \E t \in PauseEnds(w) \cup {Unset} :
          /\ IsEarliestPause(w, t)
          /\ waitUntil' = [waitUntil EXCEPT ![w] = t]
    /\ pausedUntil' = PausedByPick(w)
    /\ probing' = ProbingByPick(w)
    /\ parked' = parked \cup {w}
    /\ now' = [now EXCEPT ![w] = 0]
    /\ pc' = [pc EXCEPT ![w] = "waiting"]
    /\ UNCHANGED <<clock, active, failures, lastUsed, global, cands, preferred,
                   permitVars, cancelled>>

\* Back to the top of the loop of Acquire, where the clock is read again.
Retry(w) ==
    /\ pc' = [pc EXCEPT ![w] = "picking"]
    /\ now' = [now EXCEPT ![w] = clock]
    /\ waitUntil' = [waitUntil EXCEPT ![w] = Unset]
    /\ parked' = parked \ {w}
    /\ UNCHANGED <<clock, endpointVars, global, cands, preferred, permitVars, cancelled>>

WakeByNotify(w) == pc[w] = "waiting" /\ w \notin parked /\ Retry(w)

\* The timer, or time.Until(waitUntil) <= 0 before it is armed.
WakeByTimer(w) ==
    /\ pc[w] = "waiting"
    /\ waitUntil[w] # Unset
    /\ clock >= waitUntil[w]
    /\ Retry(w)

\* ctx.Done while waiting for an endpoint.
CancelWait(w) ==
    /\ pc[w] = "waiting"
    /\ w \in cancelled
    /\ parked' = parked \ {w}
    /\ GiveUp(w)
    /\ ForgetCall(w)
    /\ UNCHANGED <<clock, endpointVars, global>>

\* The send on `global` succeeds and Acquire returns a permit.
TakeSlot(w) ==
    /\ pc[w] = "reserved"
    /\ global < GlobalLimit
    /\ global' = global + 1
    /\ pc' = [pc EXCEPT ![w] = "granted"]
    /\ UNCHANGED <<clock, endpointVars, parked, callVars, permitVars, cancelled>>

CancelReservedSilently(w) ==
    /\ pc[w] = "reserved"
    /\ w \in cancelled
    /\ active' = [active EXCEPT ![endpoint[w]] = @ - 1]
    /\ GiveUp(w)
    /\ UNCHANGED <<clock, failures, lastUsed, pausedUntil, probing, global, parked, callVars>>

\* ctx.Done while waiting for the slot: the reservation is taken back.
CancelReserved(w) ==
    /\ pc[w] = "reserved"
    /\ w \in cancelled
    /\ active' = [active EXCEPT ![endpoint[w]] = @ - 1]
    /\ signalLocked
    /\ GiveUp(w)
    /\ UNCHANGED <<clock, failures, lastUsed, pausedUntil, probing, global, callVars>>

\* A variant: the outcome is passed on as it is.
ReportableAsIs(w) == {"success", "timeout", "other"}

\* What a session may report, by permitOutcome and classifyHandshakeFailure: a
\* cancelled parent context turns Other into Canceled; Canceled is never reported
\* otherwise.
Reportable(w) ==
    {"success", "timeout"} \cup IF w \in cancelled THEN {"canceled"} ELSE {"other"}

\* The session calls permit.Finish with the outcome; the first half of finish is
\* the receive from `global`, before mu is taken.  once.Do makes the permit finish
\* only once, and from here on the context of the session does not matter.
ReleaseSlot(w) ==
    /\ pc[w] = "granted"
    /\ \E o \in Reportable(w) : told' = [told EXCEPT ![w] = o]
    /\ global' = global - 1
    /\ pc' = [pc EXCEPT ![w] = "releasing"]
    /\ UNCHANGED <<clock, endpointVars, parked, callVars, endpoint, chooser, cancelled>>

\* The counter of timeouts, only ever compared with FailureLimit, is kept
\* up to that limit.
CountFailure(n) == IF n < FailureLimit THEN n + 1 ELSE n

\* A holder with alternatives pauses its endpoint after the last allowed
\* timeout, and after any failed probe.
PausesEndpoint(w) ==
    /\ w \in chooser
    /\ \/ told[w] = "timeout" /\ CountFailure(failures[endpoint[w]]) >= FailureLimit
       \/ told[w] = "other" /\ endpoint[w] \in probing

Unreserve(n) == IF n > 0 THEN n - 1 ELSE n

\* The second half of finish, under mu.
Finish(w) ==
    /\ pc[w] = "releasing"
    /\ active' = [active EXCEPT ![endpoint[w]] = Unreserve(@)]
    /\ failures' = [failures EXCEPT ![endpoint[w]] =
          CASE told[w] = "success" -> 0 [] told[w] = "timeout" -> CountFailure(@) [] OTHER -> @]
    /\ pausedUntil' = [pausedUntil EXCEPT ![endpoint[w]] =
          CASE told[w] = "success" -> Unset [] PausesEndpoint(w) -> clock + Pause [] OTHER -> @]
    /\ probing' = probing \ {endpoint[w]}
    /\ signalLocked
    /\ GiveUp(w)
    /\ UNCHANGED <<clock, lastUsed, global, callVars>>

ResetForgetsHolders ==
    /\ active' = [e \in Endpoints |-> 0]
    /\ failures' = [e \in Endpoints |-> 0]
    /\ lastUsed' = [e \in Endpoints |-> Unset]
    /\ pausedUntil' = [e \in Endpoints |-> Unset]
    /\ probing' = {}
    /\ signalLocked
    /\ UNCHANGED <<clock, global, pc, callVars, permitVars, cancelled>>

\* Reset, called on a network change and when the tunnel starts.  An endpoint
\* with a holder keeps its count and lastUsed; one without is deleted from
\* the map.
Reset ==
    /\ failures' = [e \in Endpoints |-> 0]
    /\ lastUsed' = [e \in Endpoints |-> IF active[e] > 0 THEN lastUsed[e] ELSE Unset]
    /\ pausedUntil' = [e \in Endpoints |-> Unset]
    /\ probing' = {}
    /\ signalLocked
    /\ UNCHANGED <<clock, active, global, pc, callVars, permitVars, cancelled>>

\* The context of the session is cancelled (from the outside, at any time).
CancelContext(w) ==
    /\ pc[w] \notin {"idle", "releasing"}
    /\ w \notin cancelled
    /\ cancelled' = cancelled \cup {w}
    /\ UNCHANGED <<clock, endpointVars, global, parked, pc, callVars, permitVars>>

Tick ==
    /\ clock < MaxClock
    /\ clock' = clock + 1
    /\ UNCHANGED <<endpointVars, global, parked, pc, callVars, permitVars, cancelled>>

\* What a worker does by itself.
WorkerStep(w) ==
    \/ Reserve(w) \/ Park(w) \/ WakeByNotify(w) \/ WakeByTimer(w) \/ CancelWait(w)
    \/ TakeSlot(w) \/ CancelReserved(w) \/ ReleaseSlot(w) \/ Finish(w)

Next ==
    \/ \E w \in Workers : Acquire(w) \/ WorkerStep(w) \/ CancelContext(w)
    \/ Reset
    \/ Tick

Spec == Init /\ [][Next]_vars

(***************************************************************************)
(* Fairness.  Time passes; a goroutine that can run does run (the lock mu  *)
(* is starvation free); a session always finishes its permit, because the  *)
(* TURN preparation and the DTLS handshake have time limits.  A sender     *)
(* blocked on a Go channel queues first-in first-out, so a worker is not   *)
(* overtaken for ever while slots keep being freed: strong fairness.       *)
(***************************************************************************)
Fairness ==
    /\ WF_vars(Tick)
    /\ \A w \in Workers : WF_vars(WorkerStep(w)) /\ SF_vars(TakeSlot(w))

FairSpec == Spec /\ Fairness

-----------------------------------------------------------------------------
\* Types: the reservation and slot counters never become negative, and a
\* permit names an endpoint (turnEndpointState, turnPermit).
TypeOK ==
    /\ clock \in Nat
    /\ active \in [Endpoints -> Nat]
    /\ failures \in [Endpoints -> Nat]
    /\ lastUsed \in [Endpoints -> Nat]
    /\ pausedUntil \in [Endpoints -> Nat]
    /\ probing \subseteq Endpoints
    /\ global \in Nat
    /\ parked \subseteq Workers
    /\ pc \in [Workers -> Locations]
    /\ cands \in [Workers -> CandidateLists \cup {<< >>}]
    /\ preferred \in [Workers -> Endpoints \cup {NoEndpoint}]
    /\ now \in [Workers -> Nat]
    /\ waitUntil \in [Workers -> Nat]
    /\ endpoint \in [Workers -> Endpoints \cup {NoEndpoint}]
    /\ chooser \subseteq Workers
    /\ told \in [Workers -> Outcomes \cup {"none"}]
    /\ cancelled \subseteq Workers

\* The reservation count of an endpoint is the number of workers between
\* their reservation and the second half of finish, across cancellations
\* and resets: the count neither leaks nor is given back twice.
ActiveCountsHolders ==
    \A e \in Endpoints : active[e] = Cardinality(Holders(e))

\* Every occupied slot of the channel `global` belongs to a live permit, and
\* no more than GlobalLimit handshakes run at once.
SlotsBelongToPermits ==
    /\ global = Cardinality(InSlots)
    /\ global <= GlobalLimit

\* "не более одного незавершённого handshake на endpoint при наличии
\* альтернатив": two workers that both had a choice of endpoints never
\* hold the same one, also while the network changes (Reset).
OneHandshakePerEndpoint ==
    \A e \in Endpoints : \A v, w \in Holders(e) :
        v \in chooser /\ w \in chooser => v = w

\* No lost wake-up: a worker asleep on an open notify channel has nothing to
\* take before its timer fires; each of its candidates is in use or paused
\* until then.
SleepIsJustified ==
    \A w \in parked :
        \A i \in DOMAIN cands[w] :
            \/ active[cands[w][i]] > 0
            \/ waitUntil[w] # Unset /\ pausedUntil[cands[w][i]] >= waitUntil[w]

\* A worker that has a choice is never given an endpoint whose pause is
\* still running at that moment, although it judges the pause by a clock
\* value read before it got the lock.
PauseIsRespected ==
    [][\A w \in Workers :
          (pc[w] = "picking" /\ pc'[w] = "reserved" /\ SeveralCandidates(w))
             => clock >= pausedUntil'[endpoint'[w]]]_vars

\* A reserved endpoint is not held for ever without a slot: the worker gets
\* its permit or its context ends.
ReservationIsServedFor(w) == pc[w] = "reserved" ~> pc[w] # "reserved"

\* Every wait for an endpoint ends, by notification or by its timer (timers
\* due after the modelled time are left out).
WaitEndsFor(w) ==
    (pc[w] = "waiting" /\ waitUntil[w] <= MaxClock) ~> pc[w] # "waiting"

\* What a worker has to do with the scheduler, as PermitUse sees it.
PermitState(w) ==
    CASE pc[w] \in {"picking", "waiting", "reserved"} -> "asking"
      [] pc[w] = "granted"                            -> "holding"
      [] OTHER                                        -> "out"

Use(w) == INSTANCE PermitUse WITH
              state   <- PermitState(w),
              stopped <- w \in cancelled /\ pc[w] # "releasing",
              told    <- told[w]

\* A permit lives as PermitUse says (Session makes the same promise from its side):
\* a session asks once, is refused only when its run was stopped, finishes a permit
\* once, also while others are woken, paused and reset, and what it reports agrees
\* with its run.
PermitPromise ==
    /\ \A w \in Workers : Use(w)!UseInit
    /\ [][\A w \in Workers : [Use(w)!UseNext]_(Use(w)!useVars)]_vars
=============================================================================
