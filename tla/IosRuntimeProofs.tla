-------------------------- MODULE IosRuntimeProofs --------------------------
(***************************************************************************)
(* Proofs about IosRuntime, for any number of runtimes and callers.        *)
(*                                                                         *)
(* NoLostReconnect is not inductive alone.  Its first part needs that a    *)
(* runtime leaves its loop only when it is stopped, so that the deferred   *)
(* clearing of iosCurrent never hits a live one; its second part needs     *)
(* that rt.attemptCancel is set exactly during an attempt, so that         *)
(* requestReconnect takes the cancel function of the attempt under way.    *)
(***************************************************************************)
EXTENDS IosRuntime, TLAPS

\* A runtime and its goroutine: nothing happens before WDTT_Start, and the
\* goroutine ends only after WDTT_Stop.
LifeCycle ==
    /\ current # Nobody => life[current] # "none"
    /\ \A r \in Runtimes :
          /\ life[r] = "live" => current = r
          /\ life[r] = "none" => loop[r] = "none"
          /\ loop[r] \in {"exiting", "done"} => life[r] = "stopped"
          /\ owed[r] => life[r] = "live"

\* rt.attemptCancel is set from before runOnce until after its return.
CancelIsSet ==
    \A r \in Runtimes : attemptCancel[r] <=> loop[r] \in Attempting \cup {"returned"}

\* A caller looks at a runtime that was started, and holds the cancel function
\* of the current attempt only between taking it and calling it.
CallersHold ==
    /\ callRt \in [Callers -> Runtimes \cup {Nobody}]
    /\ \A c \in Callers :
          /\ callPc[c] # "idle" => life[callRt[c]] # "none"
          /\ callCancel[c] = "current" =>
                callPc[c] \in {"accepted", "waking"} /\ attemptCancel[callRt[c]]

\* Somebody is about to cancel the attempt of runtime r.
AboutToCancel(r) ==
    \E c \in Callers : /\ callPc[c] \in {"accepted", "waking"}
                       /\ callRt[c] = r /\ callCancel[c] = "current"

OwedIsCancelled ==
    \A r \in Runtimes :
       owed[r] /\ loop[r] \in Attempting /\ ~attemptDone[r] => AboutToCancel(r)

Inv ==
    /\ TypeOK
    /\ LifeCycle
    /\ CancelIsSet
    /\ CallersHold
    /\ OwedIsCancelled

-----------------------------------------------------------------------------
\* No runtime has the number that stands for none.
LEMMA NobodyIsNoRuntime == Nobody \notin Runtimes
  BY RuntimeAssumption DEF Nobody, Runtimes

\* Before the first start nobody is owed anything.
LEMMA InitInv == Init => Inv
  BY NobodyIsNoRuntime DEF Init, Inv, TypeOK, LifeCycle, CancelIsSet, CallersHold,
     OwedIsCancelled, LoopLocations, Attempting

\* The types of the runtimes and of their callers.
LEMMA TypeStep == Inv /\ [Next]_vars => TypeOK' /\ (callRt \in [Callers -> Runtimes \cup {Nobody}])'
<1> SUFFICES ASSUME Inv, [Next]_vars
             PROVE  TypeOK' /\ (callRt \in [Callers -> Runtimes \cup {Nobody}])'
  OBVIOUS
<1>0. TypeOK /\ callRt \in [Callers -> Runtimes \cup {Nobody}]
  BY DEF Inv, CallersHold
<1> DEFINE Goal == TypeOK' /\ (callRt \in [Callers -> Runtimes \cup {Nobody}])'
<1> USE <1>0, NobodyIsNoRuntime
    DEF TypeOK, LoopLocations, Attempting, GoTo, loopVars, requestVars, callVars
<1>1. ASSUME NEW r \in Runtimes, Start(r) \/ Stop(r) PROVE Goal
  <2>1. CASE Start(r)
    BY <2>1 DEF Start
  <2>2. CASE Stop(r)
    BY <2>2 DEF Stop
  <2> QED
    BY <1>1, <2>1, <2>2
<1>2. ASSUME NEW r \in Runtimes, BeginAttempt(r) \/ ClearAttempt(r) PROVE Goal
  <2>1. CASE BeginAttempt(r)
    BY <2>1 DEF BeginAttempt
  <2>2. CASE ClearAttempt(r)
    BY <2>2 DEF ClearAttempt
  <2> QED
    BY <1>2, <2>1, <2>2
<1>3. ASSUME NEW r \in Runtimes,
             LeaveLoop(r) \/ OpenFails(r) \/ Listen(r) \/ AttemptReturns(r)
      PROVE  Goal
  BY <1>3 DEF LeaveLoop, OpenFails, Listen, AttemptReturns
<1>4. ASSUME NEW r \in Runtimes, Consume(r) \/ DelayOver(r) \/ DelayCancelled(r) \/ Exit(r)
      PROVE  Goal
  <2>1. CASE Consume(r)
    BY <2>1 DEF Consume
  <2>2. CASE DelayOver(r)
    <3>1. wake' \in [Runtimes -> BOOLEAN]
      BY <2>2 DEF DelayOver
    <3>2. loop' = [loop EXCEPT ![r] = "head"]
          /\ UNCHANGED <<current, life, attemptCancel, attemptDone, port, requested, limited, owed>>
          /\ UNCHANGED <<callPc, callRt, callCancel>>
      BY <2>2 DEF DelayOver
    <3> QED
      BY <3>1, <3>2
  <2>3. CASE DelayCancelled(r)
    BY <2>3 DEF DelayCancelled
  <2>4. CASE Exit(r)
    BY <2>4 DEF Exit
  <2> QED
    BY <1>4, <2>1, <2>2, <2>3, <2>4
<1>5. ASSUME NEW r \in Runtimes, AttemptFails(r) \/ ClosePort(r) \/ LimitOver(r)
      PROVE  Goal
  BY <1>5 DEF AttemptFails, ClosePort, LimitOver
<1>6. ASSUME NEW c \in Callers, LookUp(c) \/ Refused(c) \/ SendWake(c) PROVE Goal
  <2>1. CASE LookUp(c)
    BY <2>1 DEF LookUp
  <2>2. CASE Refused(c)
    BY <2>2 DEF Refused, Back
  <2>3. CASE SendWake(c)
    BY <2>3 DEF SendWake
  <2> QED
    BY <1>6, <2>1, <2>2, <2>3
<1>7. ASSUME NEW c \in Callers, Accepted(c) PROVE Goal
  BY <1>7 DEF Accepted
<1>8. ASSUME NEW c \in Callers, CallCancel(c) PROVE Goal
  BY <1>8 DEF CallCancel, Back
<1>9. CASE UNCHANGED vars
  BY <1>9 DEF vars
<1> QED
  BY <1>1, <1>2, <1>3, <1>4, <1>5, <1>6, <1>7, <1>8, <1>9 DEF Next, LoopStep, CallStep

\* Starts, stops and the end of the goroutine.
LEMMA LifeStep == Inv /\ [Next]_vars => LifeCycle' /\ CancelIsSet'
<1> SUFFICES ASSUME Inv, [Next]_vars PROVE LifeCycle' /\ CancelIsSet'
  OBVIOUS
<1>0. /\ TypeOK /\ LifeCycle /\ CancelIsSet
      /\ \A c \in Callers : callPc[c] = "asking" => callRt[c] \in Runtimes
  BY DEF Inv, TypeOK
<1> USE <1>0, NobodyIsNoRuntime
    DEF TypeOK, LifeCycle, CancelIsSet, Attempting, GoTo, loopVars, requestVars, callVars
<1>1. ASSUME NEW r \in Runtimes, Start(r) PROVE LifeCycle' /\ CancelIsSet'
  BY <1>1 DEF Start, AlreadyRunning
<1>2. ASSUME NEW r \in Runtimes, Stop(r) PROVE LifeCycle' /\ CancelIsSet'
  BY <1>2 DEF Stop
<1>3. ASSUME NEW r \in Runtimes, BeginAttempt(r) \/ ClearAttempt(r)
      PROVE  LifeCycle' /\ CancelIsSet'
  BY <1>3 DEF BeginAttempt, ClearAttempt
<1>4. ASSUME NEW r \in Runtimes,
             LeaveLoop(r) \/ OpenFails(r) \/ Listen(r) \/ AttemptReturns(r)
      PROVE  LifeCycle' /\ CancelIsSet'
  BY <1>4 DEF LeaveLoop, OpenFails, Listen, AttemptReturns
<1>5. ASSUME NEW r \in Runtimes, Consume(r) \/ DelayOver(r) \/ DelayCancelled(r) \/ Exit(r)
      PROVE  LifeCycle' /\ CancelIsSet'
  BY <1>5 DEF Consume, DelayOver, DelayCancelled, Exit
<1>6. ASSUME NEW r \in Runtimes, AttemptFails(r) \/ ClosePort(r) \/ LimitOver(r)
      PROVE  LifeCycle' /\ CancelIsSet'
  BY <1>6 DEF AttemptFails, ClosePort, LimitOver
<1>7. ASSUME NEW c \in Callers, LookUp(c) \/ CallStep(c)
      PROVE  LifeCycle' /\ CancelIsSet'
  BY <1>7 DEF LookUp, CallStep, Refused, Accepted, SendWake, CallCancel
<1>8. CASE UNCHANGED vars
  BY <1>8 DEF vars
<1> QED
  BY <1>1, <1>2, <1>3, <1>4, <1>5, <1>6, <1>7, <1>8 DEF Next, LoopStep

\* What callers hold.
LEMMA CallersStep == Inv /\ [Next]_vars => CallersHold'
<1> SUFFICES ASSUME Inv, [Next]_vars PROVE CallersHold'
  OBVIOUS
<1>0. TypeOK /\ LifeCycle /\ CallersHold
  BY DEF Inv
<1>a. callRt' \in [Callers -> Runtimes \cup {Nobody}]
  BY TypeStep
<1> USE <1>0, <1>a, NobodyIsNoRuntime
    DEF TypeOK, CallersHold, LifeCycle, loopVars, requestVars, callVars
<1>1. ASSUME NEW r \in Runtimes,
             \/ Start(r) \/ Stop(r) \/ LeaveLoop(r) \/ OpenFails(r) \/ Listen(r)
             \/ AttemptReturns(r) \/ AttemptFails(r) \/ ClosePort(r) \/ LimitOver(r)
             \/ Consume(r) \/ DelayOver(r) \/ DelayCancelled(r) \/ Exit(r)
      PROVE  CallersHold'
  <2>1. /\ UNCHANGED <<callVars, attemptCancel>>
        /\ \A q \in Runtimes : life[q] # "none" => life'[q] # "none"
    BY <1>1 DEF Start, Stop, LeaveLoop, OpenFails, Listen, AttemptReturns, AttemptFails,
       ClosePort, LimitOver, Consume, DelayOver, DelayCancelled, Exit
  <2> QED
    BY <2>1
<1>2. ASSUME NEW r \in Runtimes, BeginAttempt(r) PROVE CallersHold'
  BY <1>2 DEF BeginAttempt
<1>3. ASSUME NEW r \in Runtimes, ClearAttempt(r) PROVE CallersHold'
  BY <1>3 DEF ClearAttempt
<1>4. ASSUME NEW c \in Callers, LookUp(c) PROVE CallersHold'
  BY <1>4 DEF LookUp
<1>5. ASSUME NEW c \in Callers, Refused(c) \/ CallCancel(c) PROVE CallersHold'
  BY <1>5 DEF Refused, CallCancel, Back
<1>6. ASSUME NEW c \in Callers, Accepted(c) PROVE CallersHold'
  BY <1>6 DEF Accepted
<1>7. ASSUME NEW c \in Callers, SendWake(c) PROVE CallersHold'
  BY <1>7 DEF SendWake
<1>8. CASE UNCHANGED vars
  BY <1>8 DEF vars
<1> QED
  BY <1>1, <1>2, <1>3, <1>4, <1>5, <1>6, <1>7, <1>8 DEF Next, LoopStep, CallStep

\* Accepted requests and the attempts they are to end.
LEMMA OwedStep == Inv /\ [Next]_vars => OwedIsCancelled'
<1> SUFFICES ASSUME Inv, [Next]_vars PROVE OwedIsCancelled'
  OBVIOUS
<1>0. /\ TypeOK /\ CancelIsSet /\ OwedIsCancelled
      /\ callRt \in [Callers -> Runtimes \cup {Nobody}]
      /\ \A r \in Runtimes : life[r] = "none" => ~owed[r]
  BY DEF Inv, CallersHold, LifeCycle
<1> USE <1>0, NobodyIsNoRuntime
    DEF TypeOK, OwedIsCancelled, AboutToCancel, Attempting, GoTo, loopVars, requestVars, callVars
<1>1. ASSUME NEW r \in Runtimes, Start(r) PROVE OwedIsCancelled'
  BY <1>1 DEF Start
<1>2. ASSUME NEW r \in Runtimes, Stop(r) \/ AttemptFails(r) PROVE OwedIsCancelled'
  BY <1>2 DEF Stop, AttemptFails
<1>3. ASSUME NEW r \in Runtimes, BeginAttempt(r) PROVE OwedIsCancelled'
  BY <1>3 DEF BeginAttempt
<1>4. ASSUME NEW r \in Runtimes, ClearAttempt(r) PROVE OwedIsCancelled'
  <2>1. ASSUME NEW q \in Runtimes \ {r}, AboutToCancel(q) PROVE AboutToCancel(q)'
    BY <1>4, <2>1 DEF ClearAttempt
  <2>2. loop'[r] = "consuming" /\ UNCHANGED owed /\ \A q \in Runtimes \ {r} :
          loop'[q] = loop[q] /\ attemptDone'[q] = attemptDone[q]
    BY <1>4 DEF ClearAttempt
  <2> HIDE DEF AboutToCancel
  <2> QED
    BY <2>1, <2>2
<1>5. ASSUME NEW r \in Runtimes,
             LeaveLoop(r) \/ OpenFails(r) \/ Listen(r) \/ AttemptReturns(r)
      PROVE  OwedIsCancelled'
  BY <1>5 DEF LeaveLoop, OpenFails, Listen, AttemptReturns
<1>6. ASSUME NEW r \in Runtimes, Consume(r) \/ DelayOver(r) \/ DelayCancelled(r) \/ Exit(r)
      PROVE  OwedIsCancelled'
  BY <1>6 DEF Consume, DelayOver, DelayCancelled, Exit
<1>7. ASSUME NEW r \in Runtimes, ClosePort(r) \/ LimitOver(r) PROVE OwedIsCancelled'
  BY <1>7 DEF ClosePort, LimitOver
<1>8. ASSUME NEW c \in Callers, LookUp(c) \/ Refused(c) PROVE OwedIsCancelled'
  BY <1>8 DEF LookUp, Refused, Back
<1>9. ASSUME NEW c \in Callers, Accepted(c) PROVE OwedIsCancelled'
  BY <1>9 DEF Accepted, CancelIsSet
<1>10. ASSUME NEW c \in Callers, SendWake(c) PROVE OwedIsCancelled'
  BY <1>10 DEF SendWake
<1>11. ASSUME NEW c \in Callers, CallCancel(c) PROVE OwedIsCancelled'
  BY <1>11 DEF CallCancel, Back
<1>12. CASE UNCHANGED vars
  BY <1>12 DEF vars
<1> QED
  BY <1>1, <1>2, <1>3, <1>4, <1>5, <1>6, <1>7, <1>8, <1>9, <1>10, <1>11, <1>12
  DEF Next, LoopStep, CallStep

\* The invariant holds in every reachable state.
THEOREM InvCorrect == Spec => []Inv
<1>1. Inv /\ [Next]_vars => Inv'
  BY TypeStep, LifeStep, CallersStep, OwedStep DEF Inv
<1> QED
  BY <1>1, InitInv, PTL DEF Spec

\* Types; a caller of requestReconnect has a runtime to look at.
THEOREM TypeCorrect == Spec => []TypeOK
<1>1. Inv => TypeOK
  BY DEF Inv
<1> QED
  BY <1>1, InvCorrect, PTL

\* The runtime that has not been stopped is iosCurrent, whatever older runtimes
\* are still being torn down, and the attempt an accepted reconnect found is
\* cancelled, or somebody who holds its cancel function is about to do it.
THEOREM ReconnectCorrect == Spec => []NoLostReconnect
<1>1. Inv => NoLostReconnect
  BY DEF Inv, LifeCycle, OwedIsCancelled, AboutToCancel, NoLostReconnect
<1> QED
  BY <1>1, InvCorrect, PTL
=============================================================================
