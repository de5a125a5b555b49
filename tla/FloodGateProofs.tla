-------------------------- MODULE FloodGateProofs ---------------------------
(***************************************************************************)
(* Proofs about FloodGate, for any set of fetchers, any backoff schedule   *)
(* and any intervals of the throttle.                                      *)
(*                                                                         *)
(* What makes the invariants inductive is the token of vkRequestSem: who   *)
(* has it decides alone when a pause begins, and so a pause finds nobody   *)
(* between the last look at IsFlooded and the end of the request.  That a  *)
(* probe is alone needs more, namely that a pause is long enough for those *)
(* who were let in before it to see it (~rushed): when it is over, nobody  *)
(* is left behind the gate.                                                *)
(***************************************************************************)
EXTENDS FloodGate, TLAPS

\* The token is held from acquireVkRequestLock to its release, by one fetcher.
TokenIsHeld == \A f \in Fetchers : pc[f] \in HoldingToken <=> sem = f

\* Between the choice of its delay and the end of its request, a fetcher is not
\* overtaken by a pause, ...
Cleared == {"throttling", "recheck", "http"}
NoPauseBehind == \A f \in Fetchers : pc[f] \in Cleared => pause = 0

\* ... and what is left of its delay makes up for what is missing to MinInterval.
DelayIsEnough ==
    \A f \in Fetchers :
       /\ pc[f] = "throttling" => sinceFetch + sleep[f] >= MinInterval
       /\ pc[f] = "recheck" => sinceFetch >= MinInterval

\* Let through by Acquire, and not back yet.
Admitted == {"queued", "unprobing"} \cup HoldingToken

\* A taken probe slot has an owner, and owners are behind the gate.
ProbesAreAdmitted ==
    /\ probeActive => probes # {}
    /\ \A f \in probes : pc[f] \in Admitted

\* As long as pauses are long: there is no probe while the gate is open or a
\* pause is on; afterwards there is at most one, it has the slot, and nobody
\* else is behind the gate.
ProbeIsAlone ==
    ~rushed =>
       /\ (backoffStep = 0 \/ pause > 0) => probes = {}
       /\ (backoffStep > 0 /\ pause = 0) => \A f \in Fetchers : pc[f] \in Admitted => f \in probes
       /\ probes # {} => probeActive
       /\ \A f, h \in probes : f = h

Inv ==
    /\ TypeOK
    /\ TokenIsHeld
    /\ NoPauseBehind
    /\ DelayIsEnough
    /\ ProbesAreAdmitted
    /\ ProbeIsAlone

-----------------------------------------------------------------------------
\* The schedule is not empty.
LEMMA FirstStep == 0 \in 0..(Len(BackoffSchedule) - 1)
<1>1. Len(BackoffSchedule) \in Nat \ {0}
  BY GateAssumption
<1> QED
  BY <1>1

\* A pause of the schedule is positive, and the step stays an index of it.
LEMMA ScheduleFacts ==
    ASSUME backoffStep \in 0..(Len(BackoffSchedule) - 1)
    PROVE  /\ BackoffSchedule[BackoffIndex] \in Nat \ {0}
           /\ NextStep \in 0..(Len(BackoffSchedule) - 1)
<1>1. Len(BackoffSchedule) \in Nat /\ BackoffIndex \in 1..Len(BackoffSchedule)
  BY GateAssumption DEF BackoffIndex
<1>2. BackoffSchedule \in [1..Len(BackoffSchedule) -> Nat \ {0}]
  BY GateAssumption
<1> QED
  BY <1>1, <1>2 DEF NextStep

\* A pause that VK asks for is positive.
LEMMA PauseIsPositive ==
    ASSUME TypeOK, NEW p \in RetryAfters \cup {BackoffSchedule[BackoffIndex]}
    PROVE  p \in Nat \ {0}
  BY ScheduleFacts, GateAssumption DEF TypeOK

\* No fetcher is told off, no token is taken and no time is lost at the start.
LEMMA InitInv == Init => Inv
<1> SUFFICES ASSUME Init PROVE Inv
  OBVIOUS
<1>1. MaxInterval \in 0..MaxInterval /\ 0 \in 0..MaxFloods
  BY GateAssumption
<1>2. TypeOK
  BY <1>1, FirstStep DEF Init, TypeOK, Locations
<1>3. TokenIsHeld /\ NoPauseBehind /\ DelayIsEnough /\ ProbesAreAdmitted /\ ProbeIsAlone
  BY GateAssumption DEF Init, TokenIsHeld, NoPauseBehind, DelayIsEnough, ProbesAreAdmitted,
     ProbeIsAlone, HoldingToken, Cleared
<1> QED
  BY <1>2, <1>3 DEF Inv

\* Types.
LEMMA TypeStep == Inv /\ [Next]_vars => TypeOK'
<1> SUFFICES ASSUME Inv, [Next]_vars PROVE TypeOK'
  OBVIOUS
<1>0. TypeOK
  BY DEF Inv
<1> USE DEF TypeOK, Locations, Goto, NotifyAndGoto, Return, gateVars, fetchVars, history
<1>1. ASSUME NEW f \in Fetchers,
             StartFetch(f) \/ AcquireCools(f) \/ AcquireProbe(f) \/ AcquirePolls(f)
      PROVE  TypeOK'
  BY <1>0, <1>1 DEF StartFetch, AcquireCools, AcquireProbe, AcquirePolls
<1>2. ASSUME NEW f \in Fetchers,
             AcquireFreely(f) \/ AcquireWakes(f) \/ AcquireCancelled(f) \/ TakeToken(f)
      PROVE  TypeOK'
  BY <1>0, <1>2 DEF AcquireFreely, AcquireWakes, AcquireCancelled, TakeToken
<1>3. ASSUME NEW f \in Fetchers, QueueCancelled(f) \/ Abort(f) \/ Cancel(f)
      PROVE  TypeOK'
  BY <1>0, <1>3 DEF QueueCancelled, Abort, Cancel
<1>4. ASSUME NEW f \in Fetchers, CheckAfterToken(f)
      PROVE  TypeOK'
  BY <1>0, <1>4, GateAssumption DEF CheckAfterToken
<1>5. ASSUME NEW f \in Fetchers, ThrottleOver(f) \/ CheckAfterThrottle(f) \/ HttpFails(f)
      PROVE  TypeOK'
  BY <1>0, <1>5 DEF ThrottleOver, CheckAfterThrottle, HttpFails
<1>6. ASSUME NEW f \in Fetchers, HttpSucceeds(f)
      PROVE  TypeOK'
  BY <1>0, <1>6, FirstStep DEF HttpSucceeds
<1>7. ASSUME NEW f \in Fetchers, HttpFlooded(f)
      PROVE  TypeOK'
  <2>1. pause' \in Nat /\ NextStep \in 0..(Len(BackoffSchedule) - 1)
    BY <1>0, <1>7, PauseIsPositive, ScheduleFacts DEF HttpFlooded
  <2>2. floods' \in 0..MaxFloods
    BY <1>0, <1>7, GateAssumption DEF HttpFlooded
  <2> QED
    BY <1>0, <1>7, <2>1, <2>2 DEF HttpFlooded
<1>8. ASSUME NEW f \in Fetchers, LeaveHttp(f)
      PROVE  TypeOK'
  BY <1>0, <1>8, GateAssumption DEF LeaveHttp
<1>9. ASSUME NEW f \in Fetchers, ReleaseProbe(f)
      PROVE  TypeOK'
  BY <1>0, <1>9 DEF ReleaseProbe
<1>10. CASE Tick
  BY <1>0, <1>10, GateAssumption DEF Tick, Less, Quiet
<1>11. CASE UNCHANGED vars
  BY <1>0, <1>11 DEF vars
<1> QED
  BY <1>1, <1>2, <1>3, <1>4, <1>5, <1>6, <1>7, <1>8, <1>9, <1>10, <1>11
  DEF Next, Step, FetchStep

\* The token, and what its holder relies on.
LEMMA TokenStep == Inv /\ [Next]_vars => TokenIsHeld' /\ NoPauseBehind' /\ DelayIsEnough'
<1> DEFINE Good == TokenIsHeld /\ NoPauseBehind /\ DelayIsEnough
<1> SUFFICES ASSUME Inv, [Next]_vars PROVE Good'
  OBVIOUS
<1>0. /\ Good /\ TypeOK
      /\ Nobody \notin Fetchers /\ MinInterval \in Nat /\ MaxInterval \in Nat
      /\ MinInterval <= MaxInterval
  BY GateAssumption DEF Inv
<1> USE <1>0 DEF TypeOK, TokenIsHeld, NoPauseBehind, DelayIsEnough, HoldingToken, Cleared, Goto,
       Return, gateVars, fetchVars, history
<1>1. ASSUME NEW f \in Fetchers,
             \/ StartFetch(f) \/ AcquireCools(f) \/ AcquireProbe(f) \/ AcquirePolls(f)
             \/ AcquireFreely(f) \/ AcquireWakes(f) \/ AcquireCancelled(f)
             \/ QueueCancelled(f) \/ Cancel(f)
      PROVE  Good'
  <2>1. /\ UNCHANGED <<pause, sem, sinceFetch>>
        /\ \/ pc[f] \notin HoldingToken /\ pc'[f] \notin HoldingToken
           \/ UNCHANGED pc
        /\ \A h \in Fetchers \ {f} : pc'[h] = pc[h] /\ sleep'[h] = sleep[h]
        /\ pc[f] \in HoldingToken => sleep'[f] = sleep[f]
    BY <1>1 DEF StartFetch, AcquireCools, AcquireProbe, AcquirePolls, AcquireFreely,
       AcquireWakes, AcquireCancelled, QueueCancelled, Cancel
  <2> QED
    BY <2>1
<1>2. ASSUME NEW f \in Fetchers, TakeToken(f) \/ Abort(f) PROVE Good'
  BY <1>2 DEF TakeToken, Abort
<1>3. ASSUME NEW f \in Fetchers, CheckAfterToken(f) PROVE Good'
  BY <1>3 DEF CheckAfterToken, Clean, IsFlooded
<1>4. ASSUME NEW f \in Fetchers, ThrottleOver(f) \/ CheckAfterThrottle(f) \/ HttpFails(f)
      PROVE  Good'
  BY <1>4 DEF ThrottleOver, CheckAfterThrottle, HttpFails
<1>5. ASSUME NEW f \in Fetchers, HttpSucceeds(f) \/ HttpFlooded(f) \/ ReleaseProbe(f)
      PROVE  Good'
  <2>1. /\ UNCHANGED <<sem, sinceFetch, sleep>>
        /\ \A h \in Fetchers \ {f} :
              \/ pc'[h] = pc[h]
              \/ pc[h] \notin HoldingToken /\ pc'[h] \notin HoldingToken
    BY <1>5 DEF HttpSucceeds, HttpFlooded, ReleaseProbe, NotifyAndGoto
  <2>2. \/ pc[f] = "http" /\ pc'[f] = "leaving"
        \/ pc[f] = "unprobing" /\ pc'[f] = "idle" /\ UNCHANGED pause
    BY <1>5 DEF HttpSucceeds, HttpFlooded, ReleaseProbe, NotifyAndGoto
  <2>3. TokenIsHeld'
    BY <2>1, <2>2
  <2> QED
    BY <2>1, <2>2, <2>3
<1>6. ASSUME NEW f \in Fetchers, LeaveHttp(f) PROVE Good'
  BY <1>6 DEF LeaveHttp
<1>7. CASE Tick
  BY <1>7 DEF Tick, Less
<1>8. CASE UNCHANGED vars
  BY <1>8 DEF vars
<1> QED
  BY <1>1, <1>2, <1>3, <1>4, <1>5, <1>6, <1>7, <1>8 DEF Next, Step, FetchStep

\* Probes.
LEMMA ProbeStep == Inv /\ [Next]_vars => ProbesAreAdmitted' /\ ProbeIsAlone'
<1> DEFINE Good == ProbesAreAdmitted /\ ProbeIsAlone
<1> SUFFICES ASSUME Inv, [Next]_vars PROVE Good'
  OBVIOUS
<1>0. /\ Good /\ TypeOK /\ TokenIsHeld /\ NoPauseBehind /\ Nobody \notin Fetchers
      /\ backoffStep \in Nat
  BY GateAssumption DEF Inv, TypeOK
<1> USE <1>0 DEF TypeOK, ProbesAreAdmitted, ProbeIsAlone, Admitted, HoldingToken, Goto, Return,
       IsFlooded, gateVars, fetchVars, history
<1>1. ASSUME NEW f \in Fetchers,
             \/ StartFetch(f) \/ AcquireCools(f) \/ AcquirePolls(f) \/ AcquireWakes(f)
             \/ AcquireCancelled(f) \/ Cancel(f)
      PROVE  Good'
  <2>1. /\ UNCHANGED <<gateVars, probes, rushed>>
        /\ \A h \in Fetchers : pc'[h] = pc[h] \/ (pc[h] \notin Admitted /\ pc'[h] \notin Admitted)
    BY <1>1 DEF StartFetch, AcquireCools, AcquirePolls, AcquireWakes, AcquireCancelled, Cancel
  <2> QED
    BY <2>1
<1>2. ASSUME NEW f \in Fetchers, AcquireProbe(f) PROVE Good'
  BY <1>2 DEF AcquireProbe, ProbeFree
<1>3. ASSUME NEW f \in Fetchers, AcquireFreely(f) PROVE Good'
  BY <1>3 DEF AcquireFreely
<1>4. ASSUME NEW f \in Fetchers,
             \/ TakeToken(f) \/ CheckAfterToken(f) \/ ThrottleOver(f)
             \/ CheckAfterThrottle(f) \/ HttpFails(f)
      PROVE  Good'
  <2>1. /\ UNCHANGED <<gateVars, probes, rushed>>
        /\ \A h \in Fetchers : pc'[h] = pc[h] \/ (pc[h] \in Admitted /\ pc'[h] \in Admitted)
    BY <1>4 DEF TakeToken, CheckAfterToken, ThrottleOver, CheckAfterThrottle, HttpFails
  <2> QED
    BY <2>1
<1>5. ASSUME NEW f \in Fetchers, QueueCancelled(f) \/ LeaveHttp(f) \/ Abort(f)
      PROVE  Good'
  <2>1. /\ UNCHANGED <<gateVars, probes, rushed>>
        /\ pc[f] \in Admitted
        /\ pc'[f] = IF f \in probes THEN "unprobing" ELSE "idle"
        /\ \A h \in Fetchers \ {f} : pc'[h] = pc[h]
    BY <1>5 DEF QueueCancelled, LeaveHttp, Abort
  <2> QED
    BY <2>1
<1>6. ASSUME NEW f \in Fetchers, HttpSucceeds(f) \/ HttpFlooded(f) PROVE Good'
  <2>1. /\ probeActive' = FALSE /\ probes' = probes \ {f} /\ UNCHANGED rushed
        /\ pc[f] = "http" /\ pc'[f] = "leaving"
        /\ \A h \in Fetchers \ {f} : pc'[h] = pc[h] \/ pc[h] \notin Admitted
    BY <1>6 DEF HttpSucceeds, HttpFlooded, NotifyAndGoto
  <2>2. backoffStep' = 0 \/ pause' > 0
    BY <1>6, PauseIsPositive DEF HttpSucceeds, HttpFlooded
  <2>3. ~(backoffStep' > 0 /\ pause' = 0)
    BY <2>2, TypeStep
  <2>4. pause = 0
    BY <2>1 DEF NoPauseBehind, Cleared
  <2>5. ~rushed => probes \ {f} = {}
    BY <2>1, <2>4
  <2>6. ProbesAreAdmitted'
    BY <2>1
  <2>7. ProbeIsAlone'
    BY <2>1, <2>2, <2>3, <2>5, TypeStep
  <2> QED
    BY <2>6, <2>7
<1>7. ASSUME NEW f \in Fetchers, ReleaseProbe(f) PROVE Good'
  <2>1. /\ probeActive' = FALSE /\ probes' = probes \ {f}
        /\ UNCHANGED <<backoffStep, pause, rushed>>
        /\ pc[f] = "unprobing" /\ pc'[f] = "idle"
        /\ \A h \in Fetchers \ {f} :
              pc'[h] = pc[h] \/ (pc[h] \notin Admitted /\ pc'[h] \notin Admitted)
    BY <1>7 DEF ReleaseProbe, NotifyAndGoto
  <2> QED
    BY <2>1
<1>8. CASE Tick
  <2>1. /\ UNCHANGED <<backoffStep, probeActive, pc, probes>>
        /\ rushed' = (rushed \/ ~Quiet)
        /\ pause' = IF pause > 0 THEN pause - 1 ELSE 0
    BY <1>8 DEF Tick, Less
  <2>2. ASSUME Quiet, pause > 0, NEW f \in Fetchers
        PROVE  pc[f] \notin Admitted
    <3>1. \A h \in Fetchers : pc[h] \notin HoldingToken
      BY <2>2 DEF Quiet, NoPauseBehind, Cleared
    <3>2. sem = Nobody
      BY <3>1 DEF TokenIsHeld
    <3> QED
      BY <2>2, <3>1, <3>2 DEF Quiet
  <2> HIDE DEF Admitted, HoldingToken
  <2>3. CASE pause > 0 /\ Quiet
    BY <2>1, <2>2, <2>3
  <2>4. CASE ~(pause > 0)
    BY <2>1, <2>4
  <2>5. CASE ~Quiet
    BY <2>1, <2>5
  <2> QED
    BY <2>3, <2>4, <2>5
<1>9. CASE UNCHANGED vars
  BY <1>9 DEF vars
<1> QED
  BY <1>1, <1>2, <1>3, <1>4, <1>5, <1>6, <1>7, <1>8, <1>9 DEF Next, Step, FetchStep

-----------------------------------------------------------------------------
\* The invariant holds in every reachable state.
THEOREM InvCorrect == Spec => []Inv
<1>1. Inv /\ [Next]_vars => Inv'
  BY TypeStep, TokenStep, ProbeStep DEF Inv
<1> QED
  BY <1>1, InitInv, PTL DEF Spec

\* Types; g.backoffStep stays an index of backoffSchedule, also at its end.
THEOREM TypeCorrect == Spec => []TypeOK
<1>1. Inv => TypeOK
  BY DEF Inv
<1> QED
  BY <1>1, InvCorrect, PTL

\* A request to VK is made with the token, and never during a pause: the checks
\* of fetchVkCredsSerialized are not outrun by ReportFlood.
THEOREM PauseCorrect == Spec => []NoRequestDuringPause
<1>1. Inv => NoRequestDuringPause
  BY DEF Inv, TokenIsHeld, NoPauseBehind, NoRequestDuringPause, HoldingToken, Cleared, IsFlooded
<1> QED
  BY <1>1, InvCorrect, PTL

\* A taken probe slot has an owner that will give it back, and while pauses are
\* long there is one probe at most, which makes the request after flood control.
THEOREM ProbeCorrect == Spec => []OneProbe
<1>1. Inv => OneProbe
  BY DEF Inv, ProbesAreAdmitted, NoPauseBehind, ProbeIsAlone, OneProbe, Admitted,
         HoldingToken, Cleared
<1> QED
  BY <1>1, InvCorrect, PTL

\* Two requests are at least MinInterval apart, whoever makes them: the token
\* keeps globalLastVkFetchTime still while a fetcher sleeps what is missing.
THEOREM SpacingCorrect == Spec => RequestsAreSpaced
<1>1. ASSUME Inv, [Next]_vars, NEW f \in Fetchers, pc[f] # "http", pc'[f] = "http"
      PROVE  sinceFetch >= MinInterval
  <2>0. TypeOK
    BY <1>1 DEF Inv
  <2>1. CheckAfterToken(f) \/ CheckAfterThrottle(f)
    BY <1>1, <2>0 DEF TypeOK, Next, Step, FetchStep, Tick, StartFetch, AcquireCools,
       AcquireProbe, AcquirePolls, AcquireFreely, AcquireWakes, AcquireCancelled, TakeToken,
       QueueCancelled, CheckAfterToken, ThrottleOver, CheckAfterThrottle, HttpSucceeds,
       HttpFlooded, HttpFails, LeaveHttp, Abort, ReleaseProbe, Cancel, Goto, NotifyAndGoto,
       Return, vars, fetchVars
  <2>2. CASE CheckAfterToken(f)
    BY <1>1, <2>0, <2>2, GateAssumption DEF TypeOK, CheckAfterToken, Goto
  <2>3. CASE CheckAfterThrottle(f)
    BY <1>1, <2>3 DEF Inv, DelayIsEnough, CheckAfterThrottle
  <2> QED
    BY <2>1, <2>2, <2>3
<1>2. Inv /\ [Next]_vars
        => [\A f \in Fetchers :
               (pc[f] # "http" /\ pc'[f] = "http") => sinceFetch >= MinInterval]_vars
  BY <1>1
<1> QED
  BY <1>2, InvCorrect, PTL DEF Spec, RequestsAreSpaced
=============================================================================
