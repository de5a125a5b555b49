------------------------- MODULE TurnSchedulerProofs ------------------------
(***************************************************************************)
(* Proofs about the two parties to a turnPermit: TurnScheduler, for every  *)
(* number of workers, endpoints and candidate lists and for every value of *)
(* the limits, and then Session.  That either implements PermitUse closes  *)
(* the part on it.                                                         *)
(*                                                                         *)
(* TypeOK is not inductive alone: the counters active and global are       *)
(* decremented without a test (CancelReserved, ReleaseSlot), so that they  *)
(* stay natural numbers follows from what they count.  Inv joins the types,*)
(* the shape of a call's local variables, the two counts, the exclusive    *)
(* reservations and the justification of every sleep.                      *)
(***************************************************************************)
EXTENDS TurnScheduler, Session, FiniteSetTheorems, TLAPS

\* The local variables of a call match its program counter.
Locals ==
    /\ \A w \in parked : pc[w] = "waiting"
    /\ \A w \in chooser : pc[w] \in Holding
    /\ \A w \in Workers :
          /\ pc[w] \in {"picking", "waiting"} => cands[w] \in CandidateLists
          /\ pc[w] \in Holding => endpoint[w] \in Endpoints
          /\ now[w] <= clock
          /\ pc[w] # "releasing" => told[w] = "none"

Counting == ActiveCountsHolders /\ SlotsBelongToPermits

Inv ==
    /\ TypeOK
    /\ Locals
    /\ Counting
    /\ OneHandshakePerEndpoint
    /\ SleepIsJustified

-----------------------------------------------------------------------------
\* Every candidate is an endpoint, and a list with one entry is not a choice.
LEMMA CandidateFacts ==
    ASSUME NEW c \in CandidateLists
    PROVE  /\ Len(c) \in Nat
           /\ \A i \in DOMAIN c : c[i] \in Endpoints
           /\ Preferences(c) \subseteq Endpoints \cup {NoEndpoint}
BY SchedulerAssumption DEF Preferences

\* The two counted sets are finite, as Workers is.
LEMMA HoldersFinite ==
    /\ \A e \in Endpoints : IsFiniteSet(Holders(e)) /\ Cardinality(Holders(e)) \in Nat
    /\ IsFiniteSet(InSlots) /\ Cardinality(InSlots) \in Nat
<1>1. \A e \in Endpoints : Holders(e) \subseteq Workers
  BY DEF Holders
<1>2. InSlots \subseteq Workers
  BY DEF InSlots
<1> QED
  BY <1>1, <1>2, SchedulerAssumption, FS_Subset, FS_CardinalityType

\* A worker that holds an endpoint, or a slot, is counted.
LEMMA HolderIsCounted ==
    ASSUME Locals, Counting, NEW w \in Workers
    PROVE  /\ pc[w] \in Holding => active[endpoint[w]] > 0
           /\ pc[w] = "granted" => global > 0
<1>1. ASSUME pc[w] \in Holding
      PROVE  active[endpoint[w]] > 0
  <2>1. endpoint[w] \in Endpoints
    BY <1>1 DEF Locals
  <2>2. Holders(endpoint[w]) # {}
    BY <1>1 DEF Holders
  <2> QED
    BY <2>1, <2>2, HoldersFinite, FS_EmptySet DEF Counting, ActiveCountsHolders
<1>2. ASSUME pc[w] = "granted"
      PROVE  global > 0
  <2>1. InSlots # {}
    BY <1>2 DEF InSlots
  <2> QED
    BY <2>1, HoldersFinite, FS_EmptySet DEF Counting, SlotsBelongToPermits
<1> QED
  BY <1>1, <1>2

\* What pickLocked writes has the right type and can only lengthen pauses.
LEMMA PickFacts ==
    ASSUME TypeOK, NEW w \in Workers
    PROVE  /\ PausedByPick(w) \in [Endpoints -> Nat]
           /\ ProbingByPick(w) \subseteq Endpoints
           /\ PauseEnds(w) \subseteq Nat
           /\ \A e \in Endpoints : PausedByPick(w)[e] >= pausedUntil[e]
<1>1. now[w] \in Nat /\ Pause \in Nat
  BY SchedulerAssumption DEF TypeOK
<1>2. /\ PausedByPick(w) \in [Endpoints -> Nat]
      /\ \A e \in Endpoints : PausedByPick(w)[e] >= pausedUntil[e]
  BY <1>1 DEF PausedByPick, LatePause, TypeOK, Unset
<1>3. ProbingByPick(w) \subseteq Endpoints
  BY DEF ProbingByPick, Judged, TypeOK
<1>4. PauseEnds(w) \subseteq Nat
  BY <1>2 DEF PauseEnds, Judged
<1> QED
  BY <1>2, <1>3, <1>4

\* Whatever pickLocked selects is one of the candidates, and with a choice it
\* is unused and not paused.
LEMMA SelectedFacts ==
    ASSUME TypeOK, NEW w \in Workers, cands[w] \in CandidateLists, NEW i \in Selected(w)
    PROVE  /\ i \in DOMAIN cands[w]
           /\ cands[w][i] \in Endpoints
           /\ SeveralCandidates(w) => Eligible(w, cands[w][i])
<1>1. i \in Free(w)
  BY DEF Selected
<1> QED
  BY <1>1, CandidateFacts DEF Free

-----------------------------------------------------------------------------
\* The invariant holds in the state newTurnScheduler leaves behind.
LEMMA InitInv == Init => Inv
<1> SUFFICES ASSUME Init PROVE Inv
  OBVIOUS
<1>1. TypeOK
  BY SchedulerAssumption DEF Init, TypeOK, Unset, Locations, Outcomes
<1>2. Locals
  BY DEF Init, Locals, Holding
<1>3. /\ \A e \in Endpoints : Holders(e) = {}
      /\ InSlots = {}
  BY DEF Init, Holders, InSlots, Holding
<1>4. Counting
  <2>1. \A e \in Endpoints : Cardinality(Holders(e)) = 0
    BY <1>3, HoldersFinite, FS_EmptySet
  <2>2. Cardinality(InSlots) = 0
    BY <1>3, HoldersFinite, FS_EmptySet
  <2> QED
    BY <2>1, <2>2, SchedulerAssumption DEF Init, Counting, ActiveCountsHolders,
       SlotsBelongToPermits
<1>5. OneHandshakePerEndpoint /\ SleepIsJustified
  BY <1>3 DEF Init, OneHandshakePerEndpoint, SleepIsJustified
<1> QED
  BY <1>1, <1>2, <1>4, <1>5 DEF Inv

\* Types and locals.
LEMMA TypeStep ==
    ASSUME TypeOK, Locals, Counting, [Next]_vars
    PROVE  TypeOK' /\ Locals'
<1> USE SchedulerAssumption
<1> USE DEF TypeOK, Locals, Locations, Holding, Unset, Outcomes
<1>1. ASSUME NEW w \in Workers, Acquire(w) PROVE TypeOK' /\ Locals'
  <2>1. PICK c \in CandidateLists :
           /\ cands' = [cands EXCEPT ![w] = c]
           /\ \E p \in Preferences(c) : preferred' = [preferred EXCEPT ![w] = p]
    BY <1>1 DEF Acquire
  <2>2. preferred' \in [Workers -> Endpoints \cup {NoEndpoint}]
    BY <2>1, CandidateFacts
  <2>3. TypeOK'
    BY <1>1, <2>1, <2>2 DEF Acquire, endpointVars, permitVars
  <2>4. Locals'
    BY <1>1, <2>1, SMTT(30) DEF Acquire, endpointVars, permitVars
  <2> QED
    BY <2>3, <2>4
<1>2. ASSUME NEW w \in Workers, Reserve(w) PROVE TypeOK' /\ Locals'
  <2>1. PICK i \in Selected(w) :
           /\ active' = [active EXCEPT ![cands[w][i]] = @ + 1]
           /\ lastUsed' = [lastUsed EXCEPT ![cands[w][i]] = now[w]]
           /\ endpoint' = [endpoint EXCEPT ![w] = cands[w][i]]
    BY <1>2 DEF Reserve
  <2>2. cands[w][i] \in Endpoints
    BY <1>2, SelectedFacts DEF Reserve
  <2>3. /\ PausedByPick(w) \in [Endpoints -> Nat]
        /\ ProbingByPick(w) \subseteq Endpoints
    BY PickFacts
  <2>4. /\ pc[w] = "picking" /\ pc' = [pc EXCEPT ![w] = "reserved"]
        /\ pausedUntil' = PausedByPick(w) /\ probing' = ProbingByPick(w)
        /\ chooser' \in SUBSET Workers /\ chooser' \subseteq chooser \cup {w}
        /\ cands' = [cands EXCEPT ![w] = << >>]
        /\ preferred' = [preferred EXCEPT ![w] = NoEndpoint]
        /\ now' = [now EXCEPT ![w] = 0]
        /\ waitUntil' = [waitUntil EXCEPT ![w] = Unset]
        /\ UNCHANGED <<clock, failures, global, parked, told, cancelled>>
    BY <1>2 DEF Reserve, ForgetCall
  <2>5. /\ active' \in [Endpoints -> Nat] /\ lastUsed' \in [Endpoints -> Nat]
        /\ endpoint' \in [Workers -> Endpoints \cup {NoEndpoint}]
    BY <2>1, <2>2
  <2>6. TypeOK'
    BY <2>3, <2>4, <2>5
  <2>7. Locals'
    BY <2>1, <2>2, <2>4, SMTT(30)
  <2> QED
    BY <2>6, <2>7
<1>3. ASSUME NEW w \in Workers, Park(w) PROVE TypeOK' /\ Locals'
  <2>1. /\ PausedByPick(w) \in [Endpoints -> Nat]
        /\ ProbingByPick(w) \subseteq Endpoints
        /\ PauseEnds(w) \subseteq Nat
    BY PickFacts
  <2>2. waitUntil' \in [Workers -> Nat]
    BY <1>3, <2>1 DEF Park
  <2>3. TypeOK'
    BY <1>3, <2>1, <2>2 DEF Park, permitVars
  <2>4. Locals'
    BY <1>3, SMTT(30) DEF Park, permitVars
  <2> QED
    BY <2>3, <2>4
<1>4. ASSUME NEW w \in Workers, pc[w] = "waiting", Retry(w) PROVE TypeOK' /\ Locals'
  <2>1. TypeOK'
    BY <1>4 DEF Retry, endpointVars, permitVars
  <2>2. Locals'
    BY <1>4, SMTT(30) DEF Retry, endpointVars, permitVars
  <2> QED
    BY <2>1, <2>2
<1>5. ASSUME NEW w \in Workers, CancelWait(w) PROVE TypeOK' /\ Locals'
  BY <1>5, SMTT(30) DEF CancelWait, GiveUp, ForgetCall, endpointVars
<1>6. ASSUME NEW w \in Workers, TakeSlot(w) PROVE TypeOK' /\ Locals'
  BY <1>6 DEF TakeSlot, endpointVars, callVars, permitVars
<1>7. ASSUME NEW w \in Workers, CancelReserved(w) PROVE TypeOK' /\ Locals'
  <2>1. endpoint[w] \in Endpoints /\ active[endpoint[w]] > 0
    BY <1>7, HolderIsCounted DEF CancelReserved
  <2> QED
    BY <1>7, <2>1 DEF CancelReserved, GiveUp, signalLocked, callVars
<1>8. ASSUME NEW w \in Workers, ReleaseSlot(w) PROVE TypeOK' /\ Locals'
  <2>1. global > 0
    BY <1>8, HolderIsCounted DEF ReleaseSlot
  <2> QED
    BY <1>8, <2>1 DEF ReleaseSlot, Reportable, endpointVars, callVars
<1>9. ASSUME NEW w \in Workers, Finish(w) PROVE TypeOK' /\ Locals'
  <2>1. endpoint[w] \in Endpoints
    BY <1>9 DEF Finish
  <2>3. active' \in [Endpoints -> Nat]
    BY <1>9, <2>1, SMTT(30) DEF Finish, Unreserve
  <2>4. failures' \in [Endpoints -> Nat]
    BY <1>9, <2>1 DEF Finish, CountFailure
  <2>5. pausedUntil' \in [Endpoints -> Nat]
    BY <1>9, <2>1 DEF Finish, PausesEndpoint
  <2>6. /\ probing' = probing \ {endpoint[w]} /\ parked' = {}
        /\ UNCHANGED <<clock, lastUsed, global, cands, preferred, now, waitUntil>>
        /\ GiveUp(w)
    BY <1>9 DEF Finish, signalLocked, callVars
  <2>7. TypeOK'
    BY <2>3, <2>4, <2>5, <2>6 DEF GiveUp
  <2>8. Locals'
    BY <2>6 DEF GiveUp
  <2> QED
    BY <2>7, <2>8
<1>10. ASSUME NEW w \in Workers, CancelContext(w) PROVE TypeOK' /\ Locals'
  BY <1>10 DEF CancelContext, endpointVars, callVars, permitVars
<1>11. ASSUME Reset PROVE TypeOK' /\ Locals'
  BY <1>11 DEF Reset, signalLocked, callVars, permitVars
<1>12. ASSUME Tick PROVE TypeOK' /\ Locals'
  BY <1>12 DEF Tick, endpointVars, callVars, permitVars
<1>13. ASSUME UNCHANGED vars PROVE TypeOK' /\ Locals'
  BY <1>13 DEF vars, endpointVars, callVars, permitVars
<1> QED
  BY <1>1, <1>2, <1>3, <1>4, <1>5, <1>6, <1>7, <1>8, <1>9, <1>10, <1>11, <1>12, <1>13
     DEF Next, WorkerStep, WakeByNotify, WakeByTimer

-----------------------------------------------------------------------------
\* How the two counted sets change: one worker joins, one leaves, or nothing.
LEMMA CountJoin ==
    ASSUME NEW S, IsFiniteSet(S), NEW x, x \notin S, NEW T, T = S \cup {x}
    PROVE  Cardinality(T) = Cardinality(S) + 1
BY FS_AddElement

\* A worker that leaves a counted set lowers its cardinality by one.
LEMMA CountLeave ==
    ASSUME NEW S, IsFiniteSet(S), NEW x, x \in S, NEW T, T = S \ {x}
    PROVE  Cardinality(T) = Cardinality(S) - 1
BY FS_RemoveElement

\* A step that moves no worker into or out of Holding, into or out of a
\* slot, and leaves the counters alone.
LEMMA CountSame ==
    ASSUME Counting, UNCHANGED <<active, global>>,
           \A e \in Endpoints : Holders(e)' = Holders(e),
           InSlots' = InSlots
    PROVE  Counting'
BY DEF Counting, ActiveCountsHolders, SlotsBelongToPermits

\* The counters: one case per action that reserves, releases or takes a slot.
LEMMA CountStep ==
    ASSUME TypeOK, Locals, Counting, [Next]_vars
    PROVE  Counting'
<1> USE SchedulerAssumption, HoldersFinite DEF TypeOK
<1>1. ASSUME NEW w \in Workers, Acquire(w) PROVE Counting'
  BY <1>1, CountSame DEF Acquire, Holders, InSlots, Holding, endpointVars, permitVars
<1>2. ASSUME NEW w \in Workers, Reserve(w) PROVE Counting'
  <2>1. PICK e \in Endpoints :
           /\ active' = [active EXCEPT ![e] = @ + 1]
           /\ endpoint' = [endpoint EXCEPT ![w] = e]
    BY <1>2, SelectedFacts DEF Reserve, Locals
  <2>2. /\ w \notin Holders(e) /\ Holders(e)' = Holders(e) \cup {w}
        /\ \A d \in Endpoints \ {e} : Holders(d)' = Holders(d)
        /\ InSlots' = InSlots /\ global' = global
    <3>1. /\ pc[w] = "picking" /\ pc' = [pc EXCEPT ![w] = "reserved"] /\ global' = global
      BY <1>2 DEF Reserve
    <3>2. /\ w \notin Holders(e) /\ Holders(e)' = Holders(e) \cup {w}
          /\ \A d \in Endpoints \ {e} : Holders(d)' = Holders(d)
      <4>1. \A v \in Workers : v # w => pc'[v] = pc[v] /\ endpoint'[v] = endpoint[v]
        BY <2>1, <3>1
      <4>2. pc'[w] = "reserved" /\ endpoint'[w] = e
        BY <2>1, <3>1
      <4> QED
        BY <3>1, <4>1, <4>2 DEF Holders, Holding
    <3>3. InSlots' = InSlots
      BY <3>1 DEF InSlots
    <3> QED
      BY <3>1, <3>2, <3>3
  <2>3. Cardinality(Holders(e)') = Cardinality(Holders(e)) + 1
    BY <2>2, CountJoin
  <2> QED
    <3>1. ActiveCountsHolders'
      <4> SUFFICES ASSUME NEW d \in Endpoints PROVE active'[d] = Cardinality(Holders(d)')
        BY DEF ActiveCountsHolders
      <4>1. CASE d = e
        BY <2>1, <2>3, <4>1 DEF Counting, ActiveCountsHolders
      <4>2. CASE d # e
        BY <2>1, <2>2, <4>2 DEF Counting, ActiveCountsHolders
      <4> QED
        BY <4>1, <4>2
    <3>2. SlotsBelongToPermits'
      BY <2>2 DEF Counting, SlotsBelongToPermits
    <3> QED
      BY <3>1, <3>2 DEF Counting
<1>3. ASSUME NEW w \in Workers, Park(w) PROVE Counting'
  BY <1>3, CountSame DEF Park, Holders, InSlots, Holding, permitVars
<1>4. ASSUME NEW w \in Workers, pc[w] = "waiting", Retry(w) PROVE Counting'
  BY <1>4, CountSame DEF Retry, Holders, InSlots, Holding, endpointVars, permitVars
<1>5. ASSUME NEW w \in Workers, CancelWait(w) PROVE Counting'
  BY <1>5, CountSame DEF CancelWait, GiveUp, Holders, InSlots, Holding, endpointVars
<1>6. ASSUME NEW w \in Workers, TakeSlot(w) PROVE Counting'
  <2>1. /\ w \notin InSlots /\ InSlots' = InSlots \cup {w}
        /\ \A e \in Endpoints : Holders(e)' = Holders(e)
        /\ active' = active /\ global' = global + 1 /\ global < GlobalLimit
    BY <1>6 DEF TakeSlot, Holders, InSlots, Holding, endpointVars, permitVars
  <2>2. Cardinality(InSlots') = Cardinality(InSlots) + 1
    BY <2>1, CountJoin
  <2> QED
    BY <2>1, <2>2 DEF Counting, ActiveCountsHolders, SlotsBelongToPermits
<1>7. ASSUME NEW w \in Workers, pc[w] \in {"reserved", "releasing"}, GiveUp(w),
             active' = [active EXCEPT ![endpoint[w]] = @ - 1], global' = global
      PROVE  Counting'
  <2>1. PICK e \in Endpoints : e = endpoint[w]
    BY <1>7 DEF Locals, Holding
  <2>2. /\ w \in Holders(e) /\ Holders(e)' = Holders(e) \ {w}
        /\ \A d \in Endpoints \ {e} : Holders(d)' = Holders(d)
        /\ InSlots' = InSlots
    <3>1. /\ pc' = [pc EXCEPT ![w] = "idle"]
          /\ endpoint' = [endpoint EXCEPT ![w] = NoEndpoint]
      BY <1>7 DEF GiveUp
    <3>2. /\ w \in Holders(e) /\ Holders(e)' = Holders(e) \ {w}
          /\ \A d \in Endpoints \ {e} : Holders(d)' = Holders(d)
      <4>1. \A v \in Workers : v # w => pc'[v] = pc[v] /\ endpoint'[v] = endpoint[v]
        BY <3>1
      <4>2. pc'[w] = "idle" /\ pc[w] \in Holding
        BY <1>7, <3>1 DEF Holding
      <4>3. pc'[w] \notin Holding
        BY <4>2 DEF Holding
      <4>4. w \in Holders(e)
        BY <2>1, <4>2 DEF Holders
      <4>5. \A d \in Endpoints : Holders(d)' = Holders(d) \ {w}
        BY <4>1, <4>3 DEF Holders
      <4>6. ASSUME NEW d \in Endpoints \ {e} PROVE Holders(d)' = Holders(d)
        BY <2>1, <4>1, <4>3 DEF Holders
      <4>7. Holders(e)' = Holders(e) \ {w}
        BY <4>5
      <4> QED
        BY <4>4, <4>6, <4>7
    <3>3. InSlots' = InSlots
      BY <1>7, <3>1 DEF InSlots
    <3> QED
      BY <3>2, <3>3
  <2>3. Cardinality(Holders(e)') = Cardinality(Holders(e)) - 1
    BY <2>1, <2>2, CountLeave
  <2> QED
    <3>1. ActiveCountsHolders'
      <4> SUFFICES ASSUME NEW d \in Endpoints PROVE active'[d] = Cardinality(Holders(d)')
        BY DEF ActiveCountsHolders
      <4>1. CASE d = e
        BY <1>7, <2>1, <2>3, <4>1 DEF Counting, ActiveCountsHolders
      <4>2. CASE d # e
        BY <1>7, <2>1, <2>2, <4>2 DEF Counting, ActiveCountsHolders
      <4> QED
        BY <4>1, <4>2
    <3>2. SlotsBelongToPermits'
      BY <1>7, <2>2 DEF Counting, SlotsBelongToPermits
    <3> QED
      BY <3>1, <3>2 DEF Counting
<1>8. ASSUME NEW w \in Workers, CancelReserved(w) PROVE Counting'
  BY <1>7, <1>8 DEF CancelReserved
<1>9. ASSUME NEW w \in Workers, Finish(w) PROVE Counting'
  <2>1. endpoint[w] \in Endpoints /\ active[endpoint[w]] > 0
    BY <1>9, HolderIsCounted DEF Finish, Locals, Holding
  <2>2. active' = [active EXCEPT ![endpoint[w]] = @ - 1]
    BY <1>9, <2>1 DEF Finish, Unreserve
  <2> QED
    BY <1>7, <1>9, <2>2 DEF Finish
<1>10. ASSUME NEW w \in Workers, ReleaseSlot(w) PROVE Counting'
  <2>1. /\ w \in InSlots /\ InSlots' = InSlots \ {w}
        /\ \A e \in Endpoints : Holders(e)' = Holders(e)
        /\ active' = active /\ global' = global - 1
    BY <1>10 DEF ReleaseSlot, Holders, InSlots, Holding, endpointVars, permitVars
  <2>2. Cardinality(InSlots') = Cardinality(InSlots) - 1
    BY <2>1, CountLeave
  <2> QED
    BY <2>1, <2>2 DEF Counting, ActiveCountsHolders, SlotsBelongToPermits
<1>11. ASSUME NEW w \in Workers, CancelContext(w) PROVE Counting'
  BY <1>11, CountSame DEF CancelContext, Holders, InSlots, endpointVars, permitVars
<1>12. ASSUME Reset PROVE Counting'
  BY <1>12, CountSame DEF Reset, Holders, InSlots, permitVars
<1>13. ASSUME Tick PROVE Counting'
  BY <1>13, CountSame DEF Tick, Holders, InSlots, endpointVars, permitVars
<1>14. ASSUME UNCHANGED vars PROVE Counting'
  BY <1>14, CountSame DEF vars, Holders, InSlots, endpointVars, permitVars
<1> QED
  BY <1>1, <1>2, <1>3, <1>4, <1>5, <1>6, <1>8, <1>9, <1>10, <1>11, <1>12, <1>13, <1>14
     DEF Next, WorkerStep, WakeByNotify, WakeByTimer

-----------------------------------------------------------------------------
\* A step that lets nobody join Holders(e) or the choosers keeps the
\* reservations exclusive.
LEMMA ExclusiveShrink ==
    ASSUME OneHandshakePerEndpoint, chooser' \subseteq chooser,
           \A e \in Endpoints : Holders(e)' \subseteq Holders(e)
    PROVE  OneHandshakePerEndpoint'
BY DEF OneHandshakePerEndpoint

\* Exclusive reservations: only Reserve lets a worker join the holders.
LEMMA ExclusiveStep ==
    ASSUME TypeOK, Locals, Counting, OneHandshakePerEndpoint, [Next]_vars
    PROVE  OneHandshakePerEndpoint'
<1> USE DEF TypeOK
<1>1. ASSUME NEW w \in Workers, Acquire(w) PROVE OneHandshakePerEndpoint'
  BY <1>1, ExclusiveShrink DEF Acquire, Holders, Holding, permitVars
<1>2. ASSUME NEW w \in Workers, Reserve(w) PROVE OneHandshakePerEndpoint'
  <2>0. /\ pc[w] = "picking" /\ pc' = [pc EXCEPT ![w] = "reserved"]
        /\ chooser' = IF SeveralCandidates(w) THEN chooser \cup {w} ELSE chooser
        /\ cands[w] \in CandidateLists
    BY <1>2 DEF Reserve, Locals
  <2>a. PICK i \in Selected(w) : endpoint' = [endpoint EXCEPT ![w] = cands[w][i]]
    BY <1>2 DEF Reserve
  <2>b. /\ cands[w][i] \in Endpoints
        /\ SeveralCandidates(w) => active[cands[w][i]] = 0
    BY <2>0, SelectedFacts DEF Eligible
  <2>1. PICK e \in Endpoints :
           /\ endpoint' = [endpoint EXCEPT ![w] = e]
           /\ SeveralCandidates(w) => active[e] = 0
    BY <2>a, <2>b
  <2>2. w \notin chooser
    BY <2>0 DEF Locals, Holding
  <2>3. /\ Holders(e)' \subseteq Holders(e) \cup {w}
        /\ \A d \in Endpoints \ {e} : Holders(d)' \subseteq Holders(d)
    BY <2>0, <2>1 DEF Holders, Holding
  <2>4. \A d \in Endpoints \ {e} : w \notin Holders(d)'
    BY <2>1 DEF Holders
  <2>5. CASE SeveralCandidates(w)
    <3>1. Holders(e) = {}
      BY <2>1, <2>5, HoldersFinite, FS_EmptySet DEF Counting, ActiveCountsHolders
    <3>2. ASSUME NEW u \in Holders(e)', NEW v \in Holders(e)' PROVE u = v
      BY <2>3, <3>1
    <3>3. ASSUME NEW d \in Endpoints \ {e}, NEW u \in Holders(d)', NEW v \in Holders(d)',
                 u \in chooser', v \in chooser'
          PROVE  u = v
      <4>1. u # w /\ v # w
        BY <2>4
      <4>2. u \in chooser /\ v \in chooser /\ u \in Holders(d) /\ v \in Holders(d)
        BY <2>0, <2>3, <3>3, <4>1
      <4> QED
        BY <4>2 DEF OneHandshakePerEndpoint
    <3> QED
      BY <3>2, <3>3 DEF OneHandshakePerEndpoint
  <2>6. CASE ~SeveralCandidates(w)
    <3>1. ASSUME NEW d \in Endpoints, NEW u \in Holders(d)', NEW v \in Holders(d)',
                 u \in chooser', v \in chooser'
          PROVE  u = v
      <4>1. u \in chooser /\ v \in chooser
        BY <2>0, <2>6, <3>1
      <4>2. u \in Holders(d) /\ v \in Holders(d)
        BY <2>2, <2>3, <4>1
      <4> QED
        BY <4>1, <4>2 DEF OneHandshakePerEndpoint
    <3> QED
      BY <3>1 DEF OneHandshakePerEndpoint
  <2> QED
    BY <2>5, <2>6
<1>3. ASSUME NEW w \in Workers, Park(w) PROVE OneHandshakePerEndpoint'
  BY <1>3, ExclusiveShrink DEF Park, Holders, Holding, permitVars
<1>4. ASSUME NEW w \in Workers, Retry(w) PROVE OneHandshakePerEndpoint'
  BY <1>4, ExclusiveShrink DEF Retry, Holders, Holding, permitVars
<1>5. ASSUME NEW w \in Workers, TakeSlot(w) PROVE OneHandshakePerEndpoint'
  BY <1>5, ExclusiveShrink DEF TakeSlot, Holders, Holding, permitVars
<1>6. ASSUME NEW w \in Workers, ReleaseSlot(w) PROVE OneHandshakePerEndpoint'
  BY <1>6, ExclusiveShrink DEF ReleaseSlot, Holders, Holding, permitVars
<1>7. ASSUME NEW w \in Workers, GiveUp(w) PROVE OneHandshakePerEndpoint'
  BY <1>7, ExclusiveShrink DEF GiveUp, Holders, Holding
<1>8. ASSUME UNCHANGED <<pc, endpoint, chooser>> PROVE OneHandshakePerEndpoint'
  BY <1>8, ExclusiveShrink DEF Holders
<1> QED
  BY <1>1, <1>2, <1>3, <1>4, <1>5, <1>6, <1>7, <1>8
     DEF Next, WorkerStep, WakeByNotify, WakeByTimer, CancelWait, CancelReserved, Finish,
         CancelContext, Reset, Tick, vars, permitVars

\* A step after which every sleeper was asleep before, with the same call,
\* and no endpoint got freer, keeps every sleep justified.
LEMMA SleepKeeps ==
    ASSUME TypeOK, Locals, SleepIsJustified, active' \in [Endpoints -> Nat],
           pausedUntil' \in [Endpoints -> Nat], parked' \subseteq parked,
           \A v \in parked' : cands'[v] = cands[v] /\ waitUntil'[v] = waitUntil[v],
           \A e \in Endpoints : active'[e] >= active[e] /\ pausedUntil'[e] >= pausedUntil[e]
    PROVE  SleepIsJustified'
<1> SUFFICES ASSUME NEW v \in parked', NEW i \in DOMAIN cands'[v]
             PROVE  \/ active'[cands'[v][i]] > 0
                    \/ waitUntil'[v] # Unset /\ pausedUntil'[cands'[v][i]] >= waitUntil'[v]
  BY DEF SleepIsJustified
<1>1. /\ v \in parked /\ v \in Workers /\ cands[v] \in CandidateLists
      /\ cands'[v] = cands[v] /\ waitUntil'[v] = waitUntil[v]
  BY DEF Locals, TypeOK
<1>2. PICK e \in Endpoints : e = cands[v][i]
  BY <1>1, CandidateFacts
<1>3. active[e] > 0 \/ (waitUntil[v] # Unset /\ pausedUntil[e] >= waitUntil[v])
  BY <1>1, <1>2 DEF SleepIsJustified
<1>4. /\ active[e] \in Nat /\ active'[e] \in Nat /\ pausedUntil[e] \in Nat
      /\ pausedUntil'[e] \in Nat /\ waitUntil[v] \in Nat
  BY <1>1 DEF TypeOK
<1> QED
  BY <1>1, <1>2, <1>3, <1>4

\* A worker only falls asleep when nothing is free: a single candidate always
\* is, and of several each is in use or paused beyond the armed timer.
LEMMA SleepBegins ==
    ASSUME TypeOK, NEW w \in Workers, cands[w] \in CandidateLists, Free(w) = {},
           NEW t \in PauseEnds(w) \cup {Unset}, IsEarliestPause(w, t),
           NEW i \in DOMAIN cands[w]
    PROVE  \/ active[cands[w][i]] > 0
           \/ t # Unset /\ PausedByPick(w)[cands[w][i]] >= t
<1>1. PICK e \in Endpoints : e = cands[w][i]
  BY CandidateFacts
<1>2. SeveralCandidates(w) /\ ~Eligible(w, e)
  BY <1>1 DEF Free
<1>3. /\ now[w] \in Nat /\ active[e] \in Nat /\ PausedByPick(w)[e] \in Nat
  BY <1>1, PickFacts DEF TypeOK
<1>4. CASE active[e] > 0
  BY <1>1, <1>4
<1>5. CASE PausedByPick(w)[e] > now[w]
  <2>1. e \in Judged(w)
    BY <1>1, <1>2 DEF Judged
  <2>2. PausedByPick(w)[e] \in PauseEnds(w)
    BY <1>5, <2>1 DEF PauseEnds
  <2>3. t \in PauseEnds(w) /\ t <= PausedByPick(w)[e]
    BY <2>2 DEF IsEarliestPause
  <2>4. t > now[w] /\ t \in Nat
    BY <2>3, PickFacts DEF PauseEnds
  <2> QED
    BY <1>1, <1>3, <2>3, <2>4 DEF Unset
<1> QED
  BY <1>2, <1>3, <1>4, <1>5 DEF Eligible

\* Justified sleeps: only Park begins one, and what frees an endpoint signals.
LEMMA SleepStep ==
    ASSUME TypeOK, Locals, Counting, SleepIsJustified, [Next]_vars
    PROVE  SleepIsJustified'
<1>t. /\ active \in [Endpoints -> Nat] /\ active' \in [Endpoints -> Nat]
      /\ pausedUntil \in [Endpoints -> Nat] /\ pausedUntil' \in [Endpoints -> Nat]
      /\ parked \subseteq Workers
      /\ cands \in [Workers -> CandidateLists \cup {<< >>}]
      /\ waitUntil \in [Workers -> Nat]
  BY TypeStep DEF TypeOK
<1>1. ASSUME NEW w \in Workers, Acquire(w) PROVE SleepIsJustified'
  <2>1. /\ UNCHANGED <<active, pausedUntil, parked, waitUntil>>
        /\ \A v \in Workers \ {w} : cands'[v] = cands[v]
        /\ w \notin parked
    BY <1>1, <1>t DEF Acquire, endpointVars, Locals
  <2> QED
    BY <1>t, <2>1, SleepKeeps
<1>2. ASSUME NEW w \in Workers, Reserve(w) PROVE SleepIsJustified'
  <2>1. /\ parked' = parked /\ pausedUntil' = PausedByPick(w)
        /\ \A v \in Workers \ {w} : cands'[v] = cands[v] /\ waitUntil'[v] = waitUntil[v]
        /\ w \notin parked
    BY <1>2, <1>t DEF Reserve, ForgetCall, Locals
  <2>2. \A e \in Endpoints : active'[e] >= active[e]
    BY <1>2, <1>t DEF Reserve
  <2>3. \A e \in Endpoints : pausedUntil'[e] >= pausedUntil[e]
    BY <2>1, PickFacts
  <2> QED
    BY <1>t, <2>1, <2>2, <2>3, SleepKeeps
<1>3. ASSUME NEW w \in Workers, Park(w) PROVE SleepIsJustified'
  <2>1. /\ parked' = parked \cup {w} /\ pausedUntil' = PausedByPick(w)
        /\ active' = active /\ cands' = cands /\ Free(w) = {}
        /\ cands[w] \in CandidateLists
    BY <1>3 DEF Park, Locals
  <2>2. PICK t \in PauseEnds(w) \cup {Unset} :
           /\ IsEarliestPause(w, t)
           /\ waitUntil' = [waitUntil EXCEPT ![w] = t]
    BY <1>3 DEF Park
  <2>3. ASSUME NEW v \in parked', NEW i \in DOMAIN cands'[v]
        PROVE  \/ active'[cands'[v][i]] > 0
               \/ waitUntil'[v] # Unset /\ pausedUntil'[cands'[v][i]] >= waitUntil'[v]
    <3>1. CASE v = w
      BY <1>t, <2>1, <2>2, <3>1, SleepBegins
    <3>2. CASE v # w
      <4>1. v \in parked /\ v \in Workers /\ waitUntil'[v] = waitUntil[v]
        BY <1>t, <2>1, <2>2, <3>2
      <4>2. cands[v] \in CandidateLists
        BY <4>1 DEF Locals
      <4>3. PICK e \in Endpoints : e = cands[v][i]
        BY <2>1, <4>2, CandidateFacts
      <4>4. active[e] > 0 \/ (waitUntil[v] # Unset /\ pausedUntil[e] >= waitUntil[v])
        BY <2>1, <4>1, <4>3 DEF SleepIsJustified
      <4>5. pausedUntil'[e] >= pausedUntil[e]
        BY <2>1, PickFacts
      <4> QED
        BY <1>t, <2>1, <4>1, <4>3, <4>4, <4>5
    <3> QED
      BY <3>1, <3>2
  <2> QED
    BY <2>3 DEF SleepIsJustified
<1>4. ASSUME NEW w \in Workers, Retry(w) PROVE SleepIsJustified'
  BY <1>4, <1>t, SleepKeeps DEF Retry, endpointVars
<1>5. ASSUME NEW w \in Workers, CancelWait(w) PROVE SleepIsJustified'
  BY <1>5, <1>t, SleepKeeps DEF CancelWait, ForgetCall, endpointVars
<1>6. ASSUME signalLocked PROVE SleepIsJustified'
  BY <1>6 DEF signalLocked, SleepIsJustified
<1>7. ASSUME UNCHANGED <<endpointVars, parked, callVars>> PROVE SleepIsJustified'
  BY <1>7 DEF SleepIsJustified, endpointVars, callVars
<1> QED
  BY <1>1, <1>2, <1>3, <1>4, <1>5, <1>6, <1>7
     DEF Next, WorkerStep, WakeByNotify, WakeByTimer, TakeSlot, CancelReserved,
         ReleaseSlot, Finish,
         CancelContext, Reset, Tick, vars

-----------------------------------------------------------------------------
\* Every step preserves the invariant ...
LEMMA InvStep == Inv /\ [Next]_vars => Inv'
BY TypeStep, CountStep, ExclusiveStep, SleepStep DEF Inv

\* ... which therefore holds in every reachable state.
LEMMA InvHolds == Spec => []Inv
BY InitInv, InvStep, PTL DEF Spec

\* The type invariant of the scheduler: in particular neither counter of
\* turn_scheduler.go ever goes below zero.
THEOREM TypeCorrect == Spec => []TypeOK
<1>1. Inv => TypeOK
  BY DEF Inv
<1> QED
  BY <1>1, InvHolds, PTL

\* The reservation count of every endpoint is the number of its holders,
\* whatever mix of cancellations, late finishes and resets happens.
THEOREM ReservationsCorrect == Spec => []ActiveCountsHolders
<1>1. Inv => ActiveCountsHolders
  BY DEF Inv, Counting
<1> QED
  BY <1>1, InvHolds, PTL

\* Every occupied handshake slot belongs to a live permit, and there are at
\* most GlobalLimit of them.
THEOREM SlotsCorrect == Spec => []SlotsBelongToPermits
<1>1. Inv => SlotsBelongToPermits
  BY DEF Inv, Counting
<1> QED
  BY <1>1, InvHolds, PTL

\* Workers with a choice of endpoints never share one.
THEOREM ExclusivityCorrect == Spec => []OneHandshakePerEndpoint
<1>1. Inv => OneHandshakePerEndpoint
  BY DEF Inv
<1> QED
  BY <1>1, InvHolds, PTL

\* No wake-up of a waiting Acquire is lost.
THEOREM WakeupsCorrect == Spec => []SleepIsJustified
<1>1. Inv => SleepIsJustified
  BY DEF Inv
<1> QED
  BY <1>1, InvHolds, PTL

\* The action of PauseIsRespected, proved of every step from Inv.
LEMMA PauseStep ==
    ASSUME Inv, [Next]_vars, NEW w \in Workers,
           pc[w] = "picking", pc'[w] = "reserved", SeveralCandidates(w)
    PROVE  clock >= pausedUntil'[endpoint'[w]]
<1>t. /\ pc \in [Workers -> Locations] /\ endpoint \in [Workers -> Endpoints \cup {NoEndpoint}]
      /\ now[w] \in Nat /\ clock \in Nat /\ now[w] <= clock /\ TypeOK
      /\ cands[w] \in CandidateLists
  BY DEF Inv, TypeOK, Locals
<1>1. Reserve(w)
  BY <1>t DEF Next, WorkerStep, vars, Acquire, Reserve, Park, WakeByNotify, WakeByTimer, Retry,
     CancelWait, GiveUp, TakeSlot, CancelReserved, ReleaseSlot, Finish, CancelContext,
     Reset, Tick
<1>2. PICK i \in Selected(w) : endpoint' = [endpoint EXCEPT ![w] = cands[w][i]]
  BY <1>1 DEF Reserve
<1>3. /\ cands[w][i] \in Endpoints
      /\ now[w] >= PausedByPick(w)[cands[w][i]]
  BY <1>t, SelectedFacts DEF Eligible
<1>4. PausedByPick(w)[cands[w][i]] \in Nat
  BY <1>t, <1>3, PickFacts
<1>5. endpoint'[w] = cands[w][i] /\ pausedUntil' = PausedByPick(w)
  BY <1>1, <1>2, <1>t DEF Reserve
<1> QED
  BY <1>t, <1>3, <1>4, <1>5

\* A worker with a choice is never sent to an endpoint whose pause is running.
THEOREM PausesCorrect == Spec => PauseIsRespected
<1>1. Inv /\ [Next]_vars =>
        [\A w \in Workers :
            (pc[w] = "picking" /\ pc'[w] = "reserved" /\ SeveralCandidates(w))
               => clock >= pausedUntil'[endpoint'[w]]]_vars
  BY PauseStep
<1> QED
  BY <1>1, InvHolds, PTL DEF Spec, PauseIsRespected

-----------------------------------------------------------------------------
\* The scheduler as the sessions see it.

\* A worker that does not move has nothing to do with the step.
LEMMA OthersKeepPermits ==
    ASSUME NEW v \in Workers, pc'[v] = pc[v], told'[v] = told[v],
           v \in cancelled' <=> v \in cancelled
    PROVE  UNCHANGED Use(v)!useVars
BY DEF Use!useVars, PermitState

\* A step of worker w is a step of its permit, or not visible in it.
LEMMA OwnPermitStep ==
    ASSUME Inv, NEW w \in Workers, Acquire(w) \/ WorkerStep(w) \/ CancelContext(w)
    PROVE  [Use(w)!UseNext]_(Use(w)!useVars)
<1> USE DEF Inv, TypeOK, Locals, Locations, Holding, PermitState, Use!useVars
<1>1. CASE Acquire(w)
  BY <1>1 DEF Acquire, permitVars, Use!UseNext, Use!Ask
<1>2. CASE Reserve(w)
  BY <1>2 DEF Reserve
<1>3. CASE Park(w)
  BY <1>3 DEF Park, permitVars
<1>4. CASE pc[w] = "waiting" /\ Retry(w)
  BY <1>4 DEF Retry, permitVars
<1>5. CASE CancelWait(w)
  BY <1>5 DEF CancelWait, GiveUp, Use!UseNext, Use!Refuse
<1>6. CASE TakeSlot(w)
  BY <1>6 DEF TakeSlot, permitVars, Use!UseNext, Use!Get
<1>7. CASE CancelReserved(w)
  BY <1>7 DEF CancelReserved, GiveUp, Use!UseNext, Use!Refuse
<1>8. CASE ReleaseSlot(w)
  <2>1. PICK o \in Reportable(w) : told' = [told EXCEPT ![w] = o]
    BY <1>8 DEF ReleaseSlot
  <2>2. Use(w)!FinishWith(o)
    BY <1>8, <2>1 DEF ReleaseSlot, Reportable, Use!FinishWith
  <2> QED
    BY <2>1, <2>2 DEF Reportable, Use!UseNext
<1>9. CASE Finish(w)
  BY <1>9 DEF Finish, GiveUp, Use!UseNext, Use!Forget
<1>10. CASE CancelContext(w)
  BY <1>10 DEF CancelContext, permitVars, Use!UseNext, Use!StopRun
<1> QED
  BY <1>1, <1>2, <1>3, <1>4, <1>5, <1>6, <1>7, <1>8, <1>9, <1>10
     DEF WorkerStep, WakeByNotify, WakeByTimer

\* A step of the scheduler is, for each worker, a step of its permit or none.
LEMMA PermitsStep ==
    ASSUME Inv, [Next]_vars, NEW v \in Workers
    PROVE  [Use(v)!UseNext]_(Use(v)!useVars)
<1>1. ASSUME NEW w \in Workers, Acquire(w) \/ WorkerStep(w) \/ CancelContext(w), w # v
      PROVE  pc'[v] = pc[v] /\ told'[v] = told[v] /\ (v \in cancelled' <=> v \in cancelled)
  <2> USE DEF Inv, TypeOK, permitVars
  <2>1. CASE Acquire(w)
    BY <1>1, <2>1 DEF Acquire
  <2>2. CASE Reserve(w) \/ Park(w)
    BY <1>1, <2>2 DEF Reserve, Park
  <2>3. CASE Retry(w)
    BY <1>1, <2>3 DEF Retry
  <2>4. CASE GiveUp(w)
    BY <1>1, <2>4 DEF GiveUp
  <2>5. CASE TakeSlot(w) \/ ReleaseSlot(w) \/ CancelContext(w)
    BY <1>1, <2>5 DEF TakeSlot, ReleaseSlot, CancelContext
  <2> QED
    BY <1>1, <2>1, <2>2, <2>3, <2>4, <2>5
       DEF WorkerStep, WakeByNotify, WakeByTimer, CancelWait, CancelReserved, Finish
<1>2. CASE Reset \/ Tick \/ UNCHANGED vars
  <2>1. pc' = pc /\ told' = told /\ cancelled' = cancelled
    BY <1>2 DEF Reset, Tick, vars, permitVars
  <2> QED
    BY <2>1, OthersKeepPermits
<1> QED
  BY <1>1, <1>2, OwnPermitStep, OthersKeepPermits DEF Next

\* Whatever the scheduler does to the others, each worker's permit lives as a
\* session expects it, for every number of workers; SessionPermitsCorrect below is
\* the other side of the agreement.
THEOREM PermitsCorrect == Spec => PermitPromise
<1>1. Init => \A w \in Workers : Use(w)!UseInit
  BY DEF Init, PermitState, Use!UseInit
<1>2. Inv /\ [Next]_vars => [\A w \in Workers : [Use(w)!UseNext]_(Use(w)!useVars)]_vars
  BY PermitsStep
<1> QED
  BY <1>1, <1>2, InvHolds, PTL DEF Spec, PermitPromise

-----------------------------------------------------------------------------
(***************************************************************************)
(* The session, the other party to a permit.                               *)
(*                                                                         *)
(* Neither of its two invariants is inductive.  That nothing is left when  *)
(* RunSession returns, on whatever path, is the sum of what each path has  *)
(* taken and given back at each place, so SessionInv says for every        *)
(* resource at which places it may, and at which it must, be held.  That   *)
(* the endpoint is blamed fairly is about an order of events: what the     *)
(* contexts and the recorded cause say between the failure of the          *)
(* handshake and its classification.                                       *)
(***************************************************************************)
\* From the failure of the handshake until it is reported.
Failing == {"judging", "classifying", "comparing", "reporting"}

\* From the allocation of the relay to the end of the handshake.
Unconnected == {"relayed", "handshaking"} \cup Failing

\* The relay is open, and the goroutines run, only between their start and the
\* Waits for them; the keepalives do not cancel the session.
RelayIsUsed ==
    /\ relay => main \in Unconnected \cup {"established", "registered", "joining", "closing",
                                           "unslotted", "unwired"}
    /\ ~relay /\ main # "joiningAll" => Gone(RelayGoroutines \cup {"binding"})
    /\ main # "joining" => Gone(ProxyGoroutines)
    /\ {gr["binding"], gr["keepalive"]} \subseteq {"off", "running"}

\* The DTLS connection is open, and the AfterFuncs are armed, only until the
\* deferred calls that end them.
DTLSIsUsed ==
    /\ dtls = "open" => main \in {"handshaking", "established", "registered", "joining",
                                  "closing", "unslotted"} \cup Failing
    /\ main \in {"handshaking", "established", "unslotted"} \cup Failing \/ slot
          => dtls # "none"
    /\ "stopDTLS" \in armed => slot
    /\ "stopRelay" \in armed => slot \/ main \in Unconnected \cup {"established", "unslotted"}

\* The slot is held from Register to Unregister, by a session that was connected,
\* and without its writer only by one that is cancelled.
SlotIsUsed ==
    /\ slot => main \in {"registered", "joining", "closing", "joiningAll", "unwinding"}
    /\ main \in {"registered", "joining", "closing", "unwinding"} => slot
    /\ slot \/ main = "established" => outcome = "success"
    /\ slot /\ main \in {"joiningAll", "unwinding"} => sess
    /\ slot /\ main # "registered" /\ gr["writer"] = "off" => sess

\* Each gauge is exactly what this session contributes.
GaugesCount ==
    /\ waiting = IF main = "queued" THEN 1 ELSE 0
    /\ inFlight = IF permit THEN 1 ELSE 0
    /\ connections = IF \/ slot \/ main = "established"
                        \/ main = "unslotted" /\ outcome = "success"
                        THEN 1 ELSE 0

\* The permit is held through the handshake, and afterwards only on the paths that
\* left before there was an outcome to report.
PermitIsUsed ==
    /\ main \in {"preparing", "allocating"} \cup Unconnected => permit
    /\ permit => /\ main \in {"preparing", "allocating", "unwired", "joiningAll", "cooling",
                              "leaving"} \cup Unconnected
                 /\ ~slot
    /\ permit \/ main = "queued" => reported = "none"
    /\ (permit /\ main # "reporting") \/ main = "queued" => outcome = "other" /\ blamed = "none"
    /\ main = "reporting" => /\ blamed # "none"
                             /\ (outcome = "timeout" <=> blamed = "timeout")
                             /\ (outcome = "canceled" <=> blamed = "parent")
                             /\ (outcome = "canceled" => parent)
                             /\ outcome # "success"

\* The contexts: before the goroutines run only the run can have cancelled the
\* session, and the handshake context is live only in a live session.
ContextsNest ==
    /\ parent /\ main # "idle" => sess
    /\ main \in {"queued", "preparing", "allocating"} /\ sess => parent
    /\ hctx = "live" => main = "handshaking" /\ ~sess
    /\ main \in {"handshaking"} \cup Failing /\ hctx = "canceled" => sess

\* Whatever cancels the session before it is connected, other than the run and a
\* failed obfuscation, has recorded its error before it cancels.
CauseIsRecorded ==
    /\ cause = "secondary" => sess
    /\ main \in Unconnected /\ ~parent /\ ~wrapFailed
          /\ (sess \/ \E g \in RelayGoroutines : gr[g] = "failing") => cause = "primary"
    /\ main = "classifying" /\ hctx = "canceled" /\ ~parent /\ ~wrapFailed => named = "primary"
    /\ main = "comparing" /\ hctx = "canceled" /\ ~wrapFailed => named = "primary"

SessionInv ==
    /\ SessionTypeOK
    /\ RelayIsUsed /\ DTLSIsUsed /\ SlotIsUsed /\ GaugesCount /\ PermitIsUsed
    /\ ContextsNest /\ CauseIsRecorded
    /\ EndpointIsBlamedFairly

\* The variables that are true or false.
Flags ==
    /\ parent \in BOOLEAN /\ sess \in BOOLEAN /\ permit \in BOOLEAN /\ relay \in BOOLEAN
    /\ readFar \in BOOLEAN /\ slot \in BOOLEAN /\ wrapFailed \in BOOLEAN

\* A worker that has no session.
LEMMA SessionInitInv == SessionInit => SessionInv
BY DEF SessionInit, SessionInv, SessionTypeOK, RelayIsUsed, DTLSIsUsed, SlotIsUsed, GaugesCount,
       PermitIsUsed, ContextsNest, CauseIsRecorded, EndpointIsBlamedFairly, HandshakeTimedOut, Unconnected, Failing,
       SessionLocations, Goroutines, RelayGoroutines, ProxyGoroutines, Places, Gone

\* Every step of RunSession, of its goroutines and of the contexts keeps the
\* invariant.
LEMMA SessionStep == SessionInv /\ [SessionNext]_sessionVars => SessionInv'
<1> SUFFICES ASSUME SessionInv, [SessionNext]_sessionVars
             PROVE  SessionInv'
  OBVIOUS
<1> USE DEF SessionInv, SessionTypeOK, RelayIsUsed, DTLSIsUsed, SlotIsUsed, GaugesCount,
            PermitIsUsed, ContextsNest, CauseIsRecorded, EndpointIsBlamedFairly,
            HandshakeTimedOut, Unconnected, Failing
<1> USE DEF SessionLocations, Goroutines, RelayGoroutines, ProxyGoroutines, Places, Gone,
            contextVars, ownPermitVars, gauges, ioVars, causeVars
<1> USE DEF SessCancel, GoTo
<1>1. ASSUME CancelParent PROVE SessionInv'
  BY <1>1 DEF CancelParent
<1>2. ASSUME NewRun PROVE SessionInv'
  <2>1. Flags'
    BY <1>2 DEF NewRun, Flags
  <2> QED
    BY <1>2, <2>1 DEF NewRun, Flags
<1>3. ASSUME HandshakeDeadline PROVE SessionInv'
  BY <1>3 DEF HandshakeDeadline
<1>4. ASSUME Begin PROVE SessionInv'
  <2>1. Flags'
    BY <1>4 DEF Begin, Flags
  <2> QED
    BY <1>4, <2>1 DEF Begin, Flags
<1>5. ASSUME Granted PROVE SessionInv'
  BY <1>5 DEF Granted
<1>6. ASSUME AcquireFails PROVE SessionInv'
  BY <1>6 DEF AcquireFails
<1>7. ASSUME Prepared PROVE SessionInv'
  BY <1>7 DEF Prepared
<1>8. ASSUME PrepareFails PROVE SessionInv'
  BY <1>8 DEF PrepareFails
<1>9. ASSUME AllocateFails PROVE SessionInv'
  BY <1>9 DEF AllocateFails
<1>10. ASSUME Allocated PROVE SessionInv'
  BY <1>10 DEF Allocated
<1>11. ASSUME SetupFails PROVE SessionInv'
  <2>1. Flags'
    BY <1>11 DEF SetupFails, releasePermit, permitOutcome, Flags
  <2>2. permit /\ inFlight = 1 /\ ~slot
    BY <1>11 DEF SetupFails
  <2>3. CASE UNCHANGED <<permit, reported, inFlight>>
    BY <1>11, <2>1, <2>2, <2>3 DEF SetupFails, Flags
  <2>4. CASE releasePermit("other")
    <3>1. permit' = FALSE
      BY <2>2, <2>4 DEF releasePermit
    <3>2. inFlight' = 0 /\ reported' = IF parent THEN "canceled" ELSE "other"
      BY <2>2, <2>4 DEF releasePermit, permitOutcome
    <3> QED
      BY <1>11, <2>1, <2>2, <3>1, <3>2 DEF SetupFails, Flags
  <2> QED
    BY <1>11, <2>3, <2>4 DEF SetupFails
<1>12. ASSUME StartHandshake PROVE SessionInv'
  BY <1>12 DEF StartHandshake
<1>13. ASSUME HandshakeFails PROVE SessionInv'
  BY <1>13 DEF HandshakeFails
<1>14. ASSUME ReadCause PROVE SessionInv'
  BY <1>14 DEF ReadCause
<1>15. ASSUME TestParent PROVE SessionInv'
  <2>1. Flags'
    BY <1>15 DEF TestParent, Flags
  <2> QED
    BY <1>15, <2>1 DEF TestParent, Flags
<1>16. ASSUME Classify PROVE SessionInv'
  BY <1>16 DEF Classify, CauseOfFailure
<1>17. ASSUME ReportFailure PROVE SessionInv'
  <2>1. Flags'
    BY <1>17 DEF ReportFailure, releasePermit, permitOutcome, Flags
  <2> QED
    BY <1>17, <2>1 DEF ReportFailure, releasePermit, permitOutcome, Flags
<1>18. ASSUME Established PROVE SessionInv'
  <2>1. Flags'
    BY <1>18 DEF Established, releasePermit, permitOutcome, Flags
  <2> QED
    BY <1>18, <2>1 DEF Established, releasePermit, permitOutcome, Flags
<1>19. ASSUME AuthFails PROVE SessionInv'
  BY <1>19 DEF AuthFails
<1>20. ASSUME Register PROVE SessionInv'
  BY <1>20 DEF Register
<1>21. ASSUME StartProxy PROVE SessionInv'
  BY <1>21 DEF StartProxy
<1>22. ASSUME Joined PROVE SessionInv'
  BY <1>22 DEF Joined
<1>23. ASSUME Cleanup PROVE SessionInv'
  <2>1. Flags'
    BY <1>23 DEF Cleanup, Flags
  <2> QED
    BY <1>23, <2>1 DEF Cleanup, Flags
<1>24. ASSUME CleanedUp PROVE SessionInv'
  BY <1>24 DEF CleanedUp
<1>25. ASSUME Unslot PROVE SessionInv'
  <2>1. Flags'
    BY <1>25 DEF Unslot, Flags
  <2> QED
    BY <1>25, <2>1 DEF Unslot, Flags
<1>26. ASSUME Unwire PROVE SessionInv'
  <2>1. Flags'
    BY <1>26 DEF Unwire, Flags
  <2> QED
    BY <1>26, <2>1 DEF Unwire, Flags
<1>27. ASSUME CoolingOver PROVE SessionInv'
  BY <1>27 DEF CoolingOver
<1>28. ASSUME Leave PROVE SessionInv'
  <2>1. Flags'
    BY <1>28 DEF Leave, releasePermit, permitOutcome, Flags
  <2> QED
    BY <1>28, <2>1 DEF Leave, releasePermit, permitOutcome, Flags
<1>29. ASSUME WrapFails PROVE SessionInv'
  BY <1>29 DEF WrapFails
<1>30. ASSUME WriterReturns PROVE SessionInv'
  BY <1>30 DEF WriterReturns
<1>31. ASSUME SetReadDeadline PROVE SessionInv'
  BY <1>31 DEF SetReadDeadline
<1>32. ASSUME ReadReturns PROVE SessionInv'
  BY <1>32 DEF ReadReturns
<1>33. ASSUME ReadTimesOut PROVE SessionInv'
  <2>1. Flags'
    BY <1>33 DEF ReadTimesOut, Flags
  <2> QED
    BY <1>33, <2>1 DEF ReadTimesOut, Flags
<1>34. ASSUME ReadFails PROVE SessionInv'
  BY <1>34 DEF ReadFails
<1>35. ASSUME Push PROVE SessionInv'
  BY <1>35 DEF Push
<1>36. ASSUME PushGivesUp PROVE SessionInv'
  BY <1>36 DEF PushGivesUp
<1>37. ASSUME NEW f \in {"stopRelay", "stopDTLS"}, RunAfterFunc(f) PROVE SessionInv'
  BY <1>37 DEF RunAfterFunc
<1>38. ASSUME NEW g \in RelayGoroutines, RelayFails(g) PROVE SessionInv'
  <2>1. main \in Unconnected /\ ~parent /\ ~wrapFailed => cause' = "primary"
    BY <1>38 DEF RelayFails, RecordCause
  <2> QED
    BY <1>38, <2>1 DEF RelayFails, RecordCause
<1>39. ASSUME NEW g \in Goroutines, GoroutineEnds(g) PROVE SessionInv'
  BY <1>39 DEF GoroutineEnds
<1>40. ASSUME NEW g \in Goroutines, KeepaliveEnds(g) PROVE SessionInv'
  BY <1>40 DEF KeepaliveEnds
<1>41. CASE UNCHANGED sessionVars
  BY <1>41 DEF sessionVars
<1> QED
  BY <1>1, <1>2, <1>3, <1>4, <1>5, <1>6, <1>7, <1>8, <1>9, <1>10, <1>11, <1>12,
     <1>13, <1>14, <1>15, <1>16, <1>17, <1>18, <1>19, <1>20, <1>21, <1>22, <1>23, <1>24,
     <1>25, <1>26, <1>27, <1>28, <1>29, <1>30, <1>31, <1>32, <1>33, <1>34, <1>35, <1>36,
     <1>37, <1>38, <1>39, <1>40, <1>41
     DEF SessionNext, MainStep

\* The inductive invariant holds throughout.
THEOREM SessionInvHolds == SessionSpec => []SessionInv
BY SessionInitInv, SessionStep, PTL DEF SessionSpec

\* The variables of RunSession keep their types; the gauges are 0 or 1 although
\* they are decremented without a test.
THEOREM SessionTypeCorrect == SessionSpec => []SessionTypeOK
<1>1. SessionInv => SessionTypeOK
  BY DEF SessionInv
<1> QED
  BY <1>1, SessionInvHolds, PTL

\* A session that has returned has left nothing behind, on whatever path it
\* returned, and one that runs holds what the gauges and the slot say.
THEOREM ResourcesCorrect == SessionSpec => []ResourcesAreAccountedFor
<1>1. SessionInv => ResourcesAreAccountedFor
  <2> SUFFICES ASSUME SessionInv
               PROVE  ResourcesAreAccountedFor
    OBVIOUS
  <2> USE DEF SessionInv, SessionTypeOK, SlotIsUsed, GaugesCount, PermitIsUsed
  <2>1. NothingIsLeft
    BY DEF NothingIsLeft, RelayIsUsed, DTLSIsUsed, Unconnected, Failing, Gone, Goroutines,
           RelayGoroutines, ProxyGoroutines
  <2>2. GaugesMatch
    BY DEF GaugesMatch, DTLSIsUsed, Unconnected, Failing
  <2>3. SlotHasAWriter
    BY DEF SlotHasAWriter
  <2> QED
    BY <2>1, <2>2, <2>3 DEF ResourcesAreAccountedFor
<1> QED
  BY <1>1, SessionInvHolds, PTL

\* The scheduler and the worker judge a failed handshake alike, and by what ended it.
THEOREM BlameCorrect == SessionSpec => []EndpointIsBlamedFairly
<1>1. SessionInv => EndpointIsBlamedFairly
  BY DEF SessionInv
<1> QED
  BY <1>1, SessionInvHolds, PTL

-----------------------------------------------------------------------------
\* The session and its permit.

\* releasePermit, called while the permit is held, is the end of the permit with
\* an outcome that fits the run; called again it does nothing.
LEMMA ReleaseIsFinish ==
    ASSUME SessionInv, NEW o \in {"success", "timeout", "canceled", "other"},
           o = "canceled" => parent,
           releasePermit(o), main # "queued", main' # "queued", UNCHANGED parent
    PROVE  [Permit!UseNext]_Permit!useVars
<1> USE DEF OwnPermit, Permit!useVars
<1>1. CASE permit
  <2> DEFINE r == permitOutcome(o)
  <2>1. /\ r \in {"success", "timeout", "canceled", "other"}
        /\ r = "canceled" => parent
        /\ r = "other" => ~parent
    BY DEF permitOutcome
  <2>2. permit' = FALSE /\ reported' = r
    BY <1>1 DEF releasePermit
  <2> HIDE DEF r
  <2>3. Permit!FinishWith(r)
    BY <1>1, <2>1, <2>2 DEF Permit!FinishWith
  <2> QED
    BY <2>1, <2>3 DEF Permit!UseNext
<1>2. CASE ~permit
  BY <1>2 DEF releasePermit
<1> QED
  BY <1>1, <1>2

\* A step that neither enters nor leaves Acquire and does not touch the permit or
\* the run.
LEMMA PermitUntouched ==
    ASSUME UNCHANGED <<parent, permit, reported>>, main = "queued" <=> main' = "queued"
    PROVE  UNCHANGED Permit!useVars
BY DEF OwnPermit, Permit!useVars

\* A step of RunSession is a step of its permit or not visible in it.
LEMMA SessionPermitStep ==
    SessionInv /\ [SessionNext]_sessionVars => [Permit!UseNext]_Permit!useVars
<1> SUFFICES ASSUME SessionInv, [SessionNext]_sessionVars
             PROVE  [Permit!UseNext]_Permit!useVars
  OBVIOUS
<1> USE DEF contextVars, ownPermitVars, gauges, ioVars, causeVars
<1>1. ASSUME CancelParent PROVE Permit!StopRun \/ UNCHANGED Permit!useVars
  BY <1>1 DEF CancelParent, OwnPermit, Permit!StopRun, Permit!useVars
<1>2. ASSUME NewRun PROVE UNCHANGED Permit!useVars
  BY <1>2 DEF NewRun, OwnPermit, Permit!useVars, SessionInv, PermitIsUsed, Unconnected, Failing
<1>3. ASSUME Begin PROVE Permit!Ask \/ Permit!Forget
  <2>1. ~permit /\ ~parent /\ main = "idle"
    BY <1>3 DEF Begin, SessionInv, PermitIsUsed, Unconnected, Failing
  <2>2. CASE main' = "queued"
    BY <1>3, <2>1, <2>2 DEF Begin, OwnPermit, Permit!Ask
  <2>3. CASE main' = "leaving"
    BY <1>3, <2>1, <2>3 DEF Begin, OwnPermit, Permit!Forget
  <2> QED
    BY <1>3, <2>2, <2>3 DEF Begin
<1>4. ASSUME Granted PROVE Permit!Get
  BY <1>4 DEF Granted, OwnPermit, Permit!Get
<1>5. ASSUME AcquireFails PROVE Permit!Refuse
  <2>1. parent /\ ~permit
    BY <1>5 DEF AcquireFails, SessionInv, ContextsNest, PermitIsUsed, Unconnected, Failing
  <2> QED
    BY <1>5, <2>1 DEF AcquireFails, OwnPermit, Permit!Refuse
<1>6. ASSUME SetupFails PROVE [Permit!UseNext]_Permit!useVars
  BY <1>6, ReleaseIsFinish, PermitUntouched DEF SetupFails
<1>7. ASSUME ReportFailure PROVE [Permit!UseNext]_Permit!useVars
  <2>1. /\ outcome \in {"success", "timeout", "canceled", "other"}
        /\ outcome = "canceled" => parent
    BY <1>7 DEF ReportFailure, SessionInv, SessionTypeOK, PermitIsUsed
  <2>2. releasePermit(outcome) /\ main # "queued" /\ main' # "queued" /\ UNCHANGED parent
    BY <1>7 DEF ReportFailure
  <2> QED
    BY <2>1, <2>2, ReleaseIsFinish
<1>8. ASSUME Established PROVE [Permit!UseNext]_Permit!useVars
  BY <1>8, ReleaseIsFinish DEF Established
<1>9. ASSUME Leave PROVE [Permit!UseNext]_Permit!useVars
  <2>1. CASE permit
    <3>1. outcome = "other"
      BY <1>9, <2>1 DEF Leave, SessionInv, PermitIsUsed
    <3> QED
      BY <1>9, <3>1, ReleaseIsFinish DEF Leave
  <2>2. CASE ~permit
    BY <1>9, <2>2, PermitUntouched DEF Leave, releasePermit
  <2> QED
    BY <2>1, <2>2
<1>10. ASSUME \/ Prepared \/ PrepareFails \/ AllocateFails \/ Allocated
              \/ StartHandshake \/ HandshakeFails \/ ReadCause \/ TestParent \/ Classify
              \/ AuthFails \/ Register \/ StartProxy \/ Joined
              \/ Cleanup \/ CleanedUp \/ Unslot \/ Unwire \/ CoolingOver
       PROVE  UNCHANGED Permit!useVars
  BY <1>10, PermitUntouched
     DEF Prepared, PrepareFails, AllocateFails, Allocated, StartHandshake,
         HandshakeFails, ReadCause, TestParent, Classify, AuthFails, Register, StartProxy, Joined,
         Cleanup, CleanedUp, Unslot, Unwire, CoolingOver
<1>11. ASSUME \/ HandshakeDeadline \/ WrapFails \/ WriterReturns
              \/ SetReadDeadline \/ ReadReturns \/ ReadTimesOut \/ ReadFails
              \/ Push \/ PushGivesUp
              \/ \E f \in {"stopRelay", "stopDTLS"} : RunAfterFunc(f)
              \/ \E g \in RelayGoroutines : RelayFails(g)
              \/ \E g \in Goroutines : GoroutineEnds(g) \/ KeepaliveEnds(g)
              \/ UNCHANGED sessionVars
       PROVE  UNCHANGED Permit!useVars
  BY <1>11, PermitUntouched
     DEF HandshakeDeadline, WrapFails, WriterReturns, SetReadDeadline, ReadReturns,
         ReadTimesOut, ReadFails, Push, PushGivesUp, RunAfterFunc, RelayFails,
         GoroutineEnds, KeepaliveEnds, sessionVars
<1> QED
  BY <1>1, <1>2, <1>3, <1>4, <1>5, <1>6, <1>7, <1>8, <1>9, <1>10, <1>11
     DEF SessionNext, MainStep, Permit!UseNext

\* The session keeps its side of the agreement on permits, as the scheduler does
\* (PermitsCorrect): whatever path it leaves on, it finishes a permit it got once,
\* and with an outcome that agrees with the run.
THEOREM SessionPermitsCorrect == SessionSpec => PermitIsHonoured
<1>1. SessionInit => Permit!UseInit
  BY DEF SessionInit, OwnPermit, Permit!UseInit
<1> QED
  BY <1>1, SessionPermitStep, SessionInvHolds, PTL
     DEF SessionSpec, PermitIsHonoured, Permit!UseSpec
=============================================================================
