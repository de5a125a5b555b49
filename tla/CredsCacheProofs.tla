-------------------------- MODULE CredsCacheProofs --------------------------
(***************************************************************************)
(* Proofs about CredsCache, for every finite set of callers and any number *)
(* of calls: nobody waits for a cancelled fetch, fetches are single        *)
(* flight, a fetch older than an invalidation is not published, and the    *)
(* cache implements CredsService.                                          *)
(*                                                                         *)
(* None of these is inductive alone.  op.waiters is decremented without a  *)
(* test, so that it stays a natural number follows from what it counts;    *)
(* that nobody joins an abandoned fetch follows from activeFetch naming    *)
(* the one fetch under way that has not been abandoned.                    *)
(***************************************************************************)
EXTENDS CredsCache, FiniteSetTheorems, TLAPS

\* fetchMu is held by the caller that decides, and by nobody else.
LockDiscipline == \A c \in Callers : pc[c] = "deciding" <=> fetchMu = c

\* A caller refers to an operation from the moment it joins it until it returns.
CallerRefers ==
    \A c \in Callers :
       IF pc[c] \in {"waiting", "reading"}
       THEN callerOp[c] \in Ops /\ opPc[callerOp[c]] # "unused"
       ELSE callerOp[c] = NoOp

WaitersAreCounted == \A o \in Ops : waiters[o] = Cardinality(Waiters(o))

\* A fetch cancelled before its end has no waiters, one that was never started
\* is not cancelled, and one that has ended is.
AbandonedIsDeserted ==
    /\ \A o \in opCancelled : opPc[o] # "done" => waiters[o] = 0
    /\ \A o \in opCancelled : opPc[o] # "unused"

\* activeFetch is under way, and no other fetch that is under way is wanted.
ActiveIsRunning ==
    /\ activeFetch # NoOp => opPc[activeFetch] \in Running
    /\ \A o \in Ops : (opPc[o] \in Running /\ o \notin opCancelled) => activeFetch = o

\* The revision stands for the invalidations a fetch has seen.
RevisionsTell ==
    /\ \A o \in Ops :
          opPc[o] # "unused" =>
             /\ startRevision[o] <= revision
             /\ startRevision[o] = revision => opDead[o] = dead
    /\ 0 \notin served

Inv ==
    /\ TypeOK
    /\ LockDiscipline
    /\ CallerRefers
    /\ WaitersAreCounted
    /\ AbandonedIsDeserted
    /\ ActiveIsRunning
    /\ RevisionsTell
-----------------------------------------------------------------------------
\* The waiters of an operation are finitely many.
LEMMA WaitersFinite ==
    \A o \in Ops : IsFiniteSet(Waiters(o)) /\ Cardinality(Waiters(o)) \in Nat
<1>1. \A o \in Ops : Waiters(o) \subseteq Callers
  BY DEF Waiters
<1> QED
  BY <1>1, CacheAssumption, FS_Subset, FS_CardinalityType

\* Somebody who waits is counted.
LEMMA WaiterIsCounted ==
    ASSUME Inv, NEW c \in Callers, pc[c] = "waiting"
    PROVE  /\ callerOp[c] \in Ops
           /\ opPc[callerOp[c]] # "unused"
           /\ waiters[callerOp[c]] \in Nat \ {0}
<1>1. callerOp[c] \in Ops /\ opPc[callerOp[c]] # "unused"
  BY DEF Inv, CallerRefers
<1>2. Waiters(callerOp[c]) # {}
  BY DEF Waiters
<1> QED
  BY <1>1, <1>2, WaitersFinite, FS_EmptySet DEF Inv, WaitersAreCounted

\* An operation that has not been started has no waiters.
LEMMA UnusedHasNoWaiters ==
    ASSUME Inv, NEW o \in Ops, opPc[o] = "unused"
    PROVE  Waiters(o) = {} /\ waiters[o] = 0
<1>1. Waiters(o) = {}
  BY DEF Inv, CallerRefers, Waiters
<1> QED
  BY <1>1, FS_EmptySet DEF Inv, WaitersAreCounted

\* A step of a caller that neither waited nor waits afterwards, and every step
\* that leaves the callers alone, leaves the count right.
LEMMA CountUnmoved ==
    ASSUME Inv, UNCHANGED waiters,
           \A c \in Callers :
              \/ pc'[c] = pc[c] /\ callerOp'[c] = callerOp[c]
              \/ pc'[c] # "waiting" /\ pc[c] # "waiting"
    PROVE  WaitersAreCounted'
<1>1. \A o \in Ops : Waiters(o)' = Waiters(o)
  BY DEF Waiters
<1> QED
  BY <1>1 DEF Inv, WaitersAreCounted

\* A caller that begins to wait for an operation adds one to its waiters.
LEMMA CountJoins ==
    ASSUME Inv, NEW c \in Callers, NEW o \in Ops, pc[c] # "waiting",
           pc' = [pc EXCEPT ![c] = "waiting"],
           callerOp' = [callerOp EXCEPT ![c] = o],
           waiters' = [waiters EXCEPT ![o] = waiters[o] + 1]
    PROVE  WaitersAreCounted'
<1> USE DEF Inv, TypeOK
<1>1. Waiters(o)' = Waiters(o) \cup {c} /\ c \notin Waiters(o)
  BY DEF Waiters
<1>2. Cardinality(Waiters(o)') = Cardinality(Waiters(o)) + 1
  BY <1>1, WaitersFinite, FS_AddElement, ZenonT(60)
<1>3. \A p \in Ops \ {o} : Waiters(p)' = Waiters(p)
  BY DEF Waiters
<1> QED
  BY <1>2, <1>3 DEF WaitersAreCounted

\* A caller that ceases to wait takes one from them.
LEMMA CountLeaves ==
    ASSUME Inv, NEW c \in Callers, NEW o \in Ops, pc[c] = "waiting", callerOp[c] = o,
           NEW l, l # "waiting",
           pc' = [pc EXCEPT ![c] = l],
           \A d \in Callers \ {c} : callerOp'[d] = callerOp[d],
           waiters' = [waiters EXCEPT ![o] = waiters[o] - 1]
    PROVE  WaitersAreCounted'
<1>0. pc \in [Callers -> CallLocations] /\ waiters \in [Ops -> Nat]
  BY DEF Inv, TypeOK
<1>1. Waiters(o)' = Waiters(o) \ {c} /\ c \in Waiters(o)
  BY <1>0 DEF Waiters
<1>2. Cardinality(Waiters(o)') = Cardinality(Waiters(o)) - 1
  BY <1>1, WaitersFinite, FS_RemoveElement, ZenonT(60)
<1>3. \A p \in Ops \ {o} : Waiters(p)' = Waiters(p)
  BY <1>0 DEF Waiters
<1>4. \A p \in Ops : waiters[p] = Cardinality(Waiters(p))
  BY DEF Inv, WaitersAreCounted
<1>5. waiters'[o] = Cardinality(Waiters(o)')
  BY <1>0, <1>2, <1>4
<1>6. \A p \in Ops \ {o} : waiters'[p] = Cardinality(Waiters(p)')
  BY <1>0, <1>3, <1>4
<1> QED
  BY <1>5, <1>6 DEF WaitersAreCounted

-----------------------------------------------------------------------------
\* The cache starts empty, with no operation and no waiter.
LEMMA InitInv == Init => Inv
<1> SUFFICES ASSUME Init PROVE Inv
  OBVIOUS
<1>1. WaitersAreCounted
  <2>1. \A o \in Ops : Waiters(o) = {}
    BY DEF Init, Waiters
  <2> QED
    BY <2>1, FS_EmptySet DEF Init, WaitersAreCounted
<1>2. TypeOK
  BY CacheAssumption DEF Init, TypeOK, OpLocations, CallLocations, Errors, Outcomes
<1>3. LockDiscipline /\ CallerRefers
  BY CacheAssumption DEF Init, LockDiscipline, CallerRefers
<1>4. AbandonedIsDeserted /\ ActiveIsRunning /\ RevisionsTell
  BY DEF Init, AbandonedIsDeserted, ActiveIsRunning, RevisionsTell, Running
<1> QED
  BY <1>1, <1>2, <1>3, <1>4 DEF Inv

\* What a returning call writes has the right types.
LEMMA ReturnTypes ==
    ASSUME TypeOK, NEW c \in Callers,
           ReturnCreds(c) \/ \E e \in Outcomes : ReturnError(c, e)
    PROVE  /\ pc' \in [Callers -> CallLocations]
           /\ callerOp' \in [Callers -> Ops \cup {NoOp}]
           /\ ctxDone' \subseteq Callers
           /\ outcome' \in [Callers -> Outcomes]
           /\ got' \in [Callers -> Nat]
           /\ served' \subseteq Nat
<1>1. CASE ReturnCreds(c)
  BY <1>1 DEF TypeOK, ReturnCreds, Outcomes, CallLocations
<1>2. ASSUME NEW e \in Outcomes, ReturnError(c, e)
      PROVE  /\ pc' \in [Callers -> CallLocations]
             /\ callerOp' \in [Callers -> Ops \cup {NoOp}]
             /\ ctxDone' \subseteq Callers
             /\ outcome' \in [Callers -> Outcomes]
             /\ got' \in [Callers -> Nat]
             /\ served' \subseteq Nat
  BY <1>2 DEF TypeOK, ReturnError, CallLocations
<1> QED
  BY <1>1, <1>2

\* The types of the cache, the operations and the callers.
LEMMA TypeStep == Inv /\ [Next]_vars => TypeOK'
<1> SUFFICES ASSUME Inv, [Next]_vars PROVE TypeOK'
  OBVIOUS
<1>0. TypeOK
  BY DEF Inv
<1> USE DEF cacheVars, opVars, callVars, answerVars, historyVars
<1>1. ASSUME NEW c \in Callers, FastHit(c) PROVE TypeOK'
  BY <1>0, <1>1, ReturnTypes DEF TypeOK, FastHit, StartCall
<1>2. ASSUME NEW c \in Callers, FastMiss(c) PROVE TypeOK'
  BY <1>0, <1>2 DEF TypeOK, FastMiss, StartCall, CallLocations, Outcomes
<1>3. ASSUME NEW c \in Callers, LockedHit(c) PROVE TypeOK'
  BY <1>0, <1>3, ReturnTypes DEF TypeOK, LockedHit
<1>4. ASSUME NEW c \in Callers, LockedMiss(c) PROVE TypeOK'
  BY <1>0, <1>4 DEF TypeOK, LockedMiss, CallLocations
<1>5. ASSUME NEW c \in Callers, JoinFetch(c) PROVE TypeOK'
  BY <1>0, <1>5 DEF TypeOK, JoinFetch, Joinable, CallLocations
<1>6. ASSUME NEW c \in Callers, StartFetch(c) PROVE TypeOK'
  BY <1>0, <1>6 DEF TypeOK, StartFetch, CallLocations, OpLocations, Running
<1>7. ASSUME NEW c \in Callers, WakeDone(c) \/ LeaveFetch(c) PROVE TypeOK'
  <2>1. waiters' \in [Ops -> Nat] /\ opCancelled' \subseteq Ops
    BY <1>0, <1>7, WaiterIsCounted DEF TypeOK, WakeDone, LeaveFetch
  <2>2. CASE \E e \in Outcomes : ReturnError(c, e)
    BY <1>0, <1>7, <2>1, <2>2, ReturnTypes DEF TypeOK, WakeDone, LeaveFetch
  <2>3. CASE pc' = [pc EXCEPT ![c] = "reading"] /\ UNCHANGED <<callerOp, ctxDone, answerVars>>
    BY <1>0, <1>7, <2>1, <2>3 DEF TypeOK, WakeDone, LeaveFetch, CallLocations
  <2>4. callerOp[c] \in Ops
    BY <1>7, WaiterIsCounted DEF WakeDone, LeaveFetch
  <2>5. opErr[callerOp[c]] \in Outcomes /\ "canceled" \in Outcomes
    BY <1>0, <2>4 DEF TypeOK, Errors, Outcomes
  <2> QED
    BY <1>7, <2>2, <2>3, <2>5 DEF WakeDone, LeaveFetch
<1>8. ASSUME NEW c \in Callers, ReadResult(c) PROVE TypeOK'
  <2>1. ReturnCreds(c) \/ \E e \in Outcomes : ReturnError(c, e)
    BY <1>8 DEF ReadResult, Outcomes
  <2> QED
    BY <1>0, <1>8, <2>1, ReturnTypes DEF TypeOK, ReadResult
<1>9. ASSUME NEW c \in Callers, CancelContext(c) PROVE TypeOK'
  BY <1>0, <1>9 DEF TypeOK, CancelContext
<1>10. ASSUME NEW o \in Ops, FetchSucceeds(o) \/ ClearActive(o) \/ CloseDone(o)
       PROVE  TypeOK'
  BY <1>0, <1>10 DEF TypeOK, FetchSucceeds, ClearActive, CloseDone, OpLocations, Running
<1>11. ASSUME NEW o \in Ops, FetchFails(o) \/ DropResult(o)
       PROVE  TypeOK'
  BY <1>0, <1>11 DEF TypeOK, FetchFails, DropResult, OpLocations, Running, Errors
<1>12. ASSUME NEW o \in Ops, Publish(o) PROVE TypeOK'
  BY <1>0, <1>12 DEF TypeOK, Publish, OpLocations, Running
<1>13. CASE InvalidateLinkCacheIfGen
  BY <1>0, <1>13 DEF TypeOK, InvalidateLinkCacheIfGen
<1>14. CASE Expire
  BY <1>0, <1>14 DEF TypeOK, Expire
<1>15. CASE Finished \/ UNCHANGED vars
  BY <1>0, <1>15 DEF TypeOK, Finished, vars
<1> QED
  BY <1>1, <1>2, <1>3, <1>4, <1>5, <1>6, <1>7, <1>8, <1>9, <1>10, <1>11, <1>12, <1>13,
     <1>14, <1>15 DEF Next, CallerStep, OpStep

\* op.waiters counts the callers in the select.
LEMMA CountStep == Inv /\ [Next]_vars => WaitersAreCounted'
<1> SUFFICES ASSUME Inv, [Next]_vars PROVE WaitersAreCounted'
  OBVIOUS
<1>0. pc \in [Callers -> CallLocations] /\ callerOp \in [Callers -> Ops \cup {NoOp}]
      /\ waiters \in [Ops -> Nat] /\ activeFetch \in Ops \cup {NoOp}
  BY DEF Inv, TypeOK
<1>1. ASSUME NEW c \in Callers,
             \/ FastHit(c) \/ FastMiss(c) \/ LockedHit(c) \/ LockedMiss(c)
             \/ ReadResult(c) \/ CancelContext(c)
      PROVE  WaitersAreCounted'
  BY <1>0, <1>1, CountUnmoved DEF FastHit, FastMiss, StartCall, LockedHit, LockedMiss,
     ReadResult, CancelContext, ReturnCreds, ReturnError, opVars
<1>2. ASSUME NEW c \in Callers, JoinFetch(c) PROVE WaitersAreCounted'
  BY <1>0, <1>2, CountJoins DEF JoinFetch, Joinable
<1>3. ASSUME NEW c \in Callers, StartFetch(c) PROVE WaitersAreCounted'
  <2>1. PICK o \in Ops : /\ opPc[o] = "unused"
                         /\ waiters' = [waiters EXCEPT ![o] = 1]
                         /\ callerOp' = [callerOp EXCEPT ![c] = o]
    BY <1>3 DEF StartFetch
  <2>2. waiters' = [waiters EXCEPT ![o] = waiters[o] + 1]
    <3>1. waiters[o] = 0
      BY <2>1, UnusedHasNoWaiters
    <3> QED
      BY <2>1, <3>1
  <2> QED
    BY <1>3, <2>1, <2>2, CountJoins DEF StartFetch
<1>4. ASSUME NEW c \in Callers, WakeDone(c) \/ LeaveFetch(c) PROVE WaitersAreCounted'
  <2>1. pc[c] = "waiting" /\ callerOp[c] \in Ops
    BY <1>4, WaiterIsCounted DEF WakeDone, LeaveFetch
  <2>2. waiters' = [waiters EXCEPT ![callerOp[c]] = waiters[callerOp[c]] - 1]
    BY <1>4 DEF WakeDone, LeaveFetch
  <2>3. /\ pc' = [pc EXCEPT ![c] = "idle"] \/ pc' = [pc EXCEPT ![c] = "reading"]
        /\ \A d \in Callers \ {c} : callerOp'[d] = callerOp[d]
    BY <1>0, <1>4 DEF WakeDone, LeaveFetch, ReturnError
  <2> QED
    BY <2>1, <2>2, <2>3, CountLeaves
<1>5. ASSUME NEW o \in Ops, OpStep(o) PROVE WaitersAreCounted'
  BY <1>5, CountUnmoved DEF OpStep, FetchSucceeds, FetchFails, Publish, DropResult,
     ClearActive, CloseDone, callVars
<1>6. CASE InvalidateLinkCacheIfGen \/ Expire \/ Finished \/ UNCHANGED vars
  BY <1>6, CountUnmoved DEF InvalidateLinkCacheIfGen, Expire, Finished, vars, opVars,
     callVars
<1> QED
  BY <1>1, <1>2, <1>3, <1>4, <1>5, <1>6 DEF Next, CallerStep

-----------------------------------------------------------------------------
\* fetchMu and the operations the callers refer to.
LEMMA CallerStepOK == Inv /\ [Next]_vars => LockDiscipline' /\ CallerRefers'
<1> SUFFICES ASSUME Inv, [Next]_vars PROVE LockDiscipline' /\ CallerRefers'
  OBVIOUS
<1>0. /\ pc \in [Callers -> CallLocations] /\ callerOp \in [Callers -> Ops \cup {NoOp}]
      /\ opPc \in [Ops -> OpLocations] /\ activeFetch \in Ops \cup {NoOp}
      /\ LockDiscipline /\ CallerRefers
      /\ activeFetch # NoOp => opPc[activeFetch] \in Running
      /\ Nobody \notin Callers
  BY CacheAssumption DEF Inv, TypeOK, ActiveIsRunning
<1> USE <1>0 DEF LockDiscipline, CallerRefers, opVars, callVars
<1>1. ASSUME NEW c \in Callers, FastHit(c) \/ LockedHit(c)
      PROVE  LockDiscipline' /\ CallerRefers'
  BY <1>1 DEF FastHit, StartCall, LockedHit, ReturnCreds
<1>2. ASSUME NEW c \in Callers, FastMiss(c) \/ LockedMiss(c)
      PROVE  LockDiscipline' /\ CallerRefers'
  BY <1>2 DEF FastMiss, StartCall, LockedMiss
<1>3. ASSUME NEW c \in Callers, JoinFetch(c)
      PROVE  LockDiscipline' /\ CallerRefers'
  BY <1>3 DEF JoinFetch, Joinable, Running
<1>4. ASSUME NEW c \in Callers, StartFetch(c)
      PROVE  LockDiscipline' /\ CallerRefers'
  BY <1>4 DEF StartFetch
<1>5. ASSUME NEW c \in Callers, WakeDone(c) \/ LeaveFetch(c)
      PROVE  LockDiscipline' /\ CallerRefers'
  BY <1>5 DEF WakeDone, LeaveFetch, ReturnError
<1>6. ASSUME NEW c \in Callers, ReadResult(c)
      PROVE  LockDiscipline' /\ CallerRefers'
  BY <1>6 DEF ReadResult, ReturnCreds, ReturnError
<1>7. ASSUME NEW c \in Callers, CancelContext(c)
      PROVE  LockDiscipline' /\ CallerRefers'
  BY <1>7 DEF CancelContext
<1>8. ASSUME NEW o \in Ops, OpStep(o)
      PROVE  LockDiscipline' /\ CallerRefers'
  <2>1. \A p \in Ops : opPc[p] # "unused" => opPc'[p] # "unused"
    BY <1>8 DEF OpStep, FetchSucceeds, FetchFails, Publish, DropResult, ClearActive, CloseDone
  <2>2. UNCHANGED <<pc, callerOp, fetchMu>>
    BY <1>8 DEF OpStep, FetchSucceeds, FetchFails, Publish, DropResult, ClearActive, CloseDone
  <2> QED
    BY <2>1, <2>2
<1>9. CASE InvalidateLinkCacheIfGen \/ Expire \/ Finished \/ UNCHANGED vars
  BY <1>9 DEF InvalidateLinkCacheIfGen, Expire, Finished, vars
<1> QED
  BY <1>1, <1>2, <1>3, <1>4, <1>5, <1>6, <1>7, <1>8, <1>9 DEF Next, CallerStep

\* Abandoned fetches and the active one.
LEMMA FlightStep == Inv /\ [Next]_vars => AbandonedIsDeserted' /\ ActiveIsRunning'
<1> SUFFICES ASSUME Inv, [Next]_vars PROVE AbandonedIsDeserted' /\ ActiveIsRunning'
  OBVIOUS
<1>0. /\ opPc \in [Ops -> OpLocations] /\ activeFetch \in Ops \cup {NoOp}
      /\ waiters \in [Ops -> Nat] /\ opCancelled \subseteq Ops
      /\ AbandonedIsDeserted /\ ActiveIsRunning
  BY DEF Inv, TypeOK
<1>1. 0 \notin Ops
  BY CacheAssumption DEF Ops
<1> USE <1>0, <1>1 DEF AbandonedIsDeserted, ActiveIsRunning, opVars, Running, NoOp
<1>2. ASSUME NEW c \in Callers,
             \/ FastHit(c) \/ FastMiss(c) \/ LockedHit(c) \/ LockedMiss(c)
             \/ ReadResult(c) \/ CancelContext(c)
      PROVE  AbandonedIsDeserted' /\ ActiveIsRunning'
  <2>1. UNCHANGED <<opPc, activeFetch, waiters, opCancelled>>
    BY <1>2 DEF FastHit, FastMiss, StartCall, LockedHit, LockedMiss, ReadResult, CancelContext
  <2> QED
    BY <2>1
<1>3. ASSUME NEW c \in Callers, JoinFetch(c)
      PROVE  AbandonedIsDeserted' /\ ActiveIsRunning'
  BY <1>3 DEF JoinFetch, Joinable
<1>4. ASSUME NEW c \in Callers, StartFetch(c)
      PROVE  AbandonedIsDeserted' /\ ActiveIsRunning'
  BY <1>4 DEF StartFetch, Joinable
<1>5. ASSUME NEW c \in Callers, WakeDone(c)
      PROVE  AbandonedIsDeserted' /\ ActiveIsRunning'
  BY <1>5, WaiterIsCounted DEF WakeDone
<1>6. ASSUME NEW c \in Callers, LeaveFetch(c)
      PROVE  AbandonedIsDeserted' /\ ActiveIsRunning'
  BY <1>6, WaiterIsCounted DEF LeaveFetch, Abandons
<1>7. ASSUME NEW o \in Ops, OpStep(o)
      PROVE  AbandonedIsDeserted' /\ ActiveIsRunning'
  BY <1>7 DEF OpStep, FetchSucceeds, FetchFails, Publish, DropResult, ClearActive, CloseDone
<1>8. CASE InvalidateLinkCacheIfGen \/ Expire \/ Finished \/ UNCHANGED vars
  BY <1>8 DEF InvalidateLinkCacheIfGen, Expire, Finished, vars
<1> QED
  BY <1>2, <1>3, <1>4, <1>5, <1>6, <1>7, <1>8 DEF Next, CallerStep

\* The revision tells a fetch whether an invalidation has come in between.
LEMMA RevisionStep == Inv /\ [Next]_vars => RevisionsTell'
<1> SUFFICES ASSUME Inv, [Next]_vars PROVE RevisionsTell'
  OBVIOUS
<1>0. /\ opPc \in [Ops -> OpLocations] /\ startRevision \in [Ops -> Nat]
      /\ opDead \in [Ops -> Nat] /\ revision \in Nat /\ dead \in Nat /\ RevisionsTell
  BY DEF Inv, TypeOK
<1> USE <1>0 DEF RevisionsTell, opVars, cacheVars, historyVars, answerVars
<1>1. ASSUME NEW c \in Callers,
             FastHit(c) \/ LockedHit(c) \/ ReadResult(c)
      PROVE  RevisionsTell'
  BY <1>1 DEF FastHit, StartCall, LockedHit, ReadResult, Valid, ReturnCreds, ReturnError
<1>2. ASSUME NEW c \in Callers,
             \/ FastMiss(c) \/ LockedMiss(c) \/ JoinFetch(c) \/ CancelContext(c)
             \/ WakeDone(c) \/ LeaveFetch(c)
      PROVE  RevisionsTell'
  BY <1>2 DEF FastMiss, StartCall, LockedMiss, JoinFetch, CancelContext, WakeDone,
     LeaveFetch, ReturnError
<1>3. ASSUME NEW c \in Callers, StartFetch(c)
      PROVE  RevisionsTell'
  BY <1>3 DEF StartFetch
<1>4. ASSUME NEW o \in Ops, OpStep(o)
      PROVE  RevisionsTell'
  BY <1>4 DEF OpStep, FetchSucceeds, FetchFails, Publish, DropResult, ClearActive, CloseDone
<1>5. CASE InvalidateLinkCacheIfGen
  BY <1>5 DEF InvalidateLinkCacheIfGen
<1>6. CASE Expire \/ Finished \/ UNCHANGED vars
  BY <1>6 DEF Expire, Finished, vars
<1> QED
  BY <1>1, <1>2, <1>3, <1>4, <1>5, <1>6 DEF Next, CallerStep

\* Every step of a caller, a fetch or a worker preserves the invariant.
LEMMA InvStep == Inv /\ [Next]_vars => Inv'
  BY TypeStep, CountStep, CallerStepOK, FlightStep, RevisionStep DEF Inv

\* The invariant holds in every reachable state.
THEOREM InvCorrect == Spec => []Inv
  BY InitInv, InvStep, PTL DEF Spec

\* The variables of getVkCredsCached and of its operations keep their types: in
\* particular op.waiters, decremented without a test, does not become negative.
THEOREM TypeCorrect == Spec => []TypeOK
<1>1. Inv => TypeOK
  BY DEF Inv
<1> QED
  BY <1>1, InvCorrect, PTL

\* op.waiters is the number of callers in the select, and a fetch somebody
\* waits for is cancelled only by its own end: the last caller to leave is the
\* one that abandons it, and nobody joins it after that.
THEOREM WaitersCorrect == Spec => []WaitedForIsNotCancelled
<1>1. ASSUME Inv PROVE WaitedForIsNotCancelled
  <2>1. ASSUME NEW c \in Callers, pc[c] = "waiting", callerOp[c] \in opCancelled
        PROVE  opPc[callerOp[c]] = "done"
    BY <1>1, <2>1, WaiterIsCounted DEF Inv, AbandonedIsDeserted
  <2> QED
    BY <1>1, <2>1 DEF Inv, WaitersAreCounted, WaitedForIsNotCancelled
<1> QED
  BY <1>1, InvCorrect, PTL

\* However many callers miss the cache at once, at most one of the fetches
\* under way has not been abandoned: it is cache.activeFetch.
THEOREM SingleFlightCorrect == Spec => []SingleFlight
<1>1. Inv => SingleFlight
  BY DEF Inv, ActiveIsRunning, SingleFlight
<1> QED
  BY <1>1, InvCorrect, PTL

\* runCacheFetch publishes what it fetched only if nothing has been invalidated
\* since it began: the comparison of revisions sees every invalidation.
THEOREM PublicationCorrect == Spec => NoStalePublication
<1>1. ASSUME Inv, [Next]_vars, NEW o \in Ops, opGen[o] = 0, opGen'[o] # 0
      PROVE  opDead[o] = dead
  <2>0. opGen \in [Ops -> Nat]
    BY <1>1 DEF Inv, TypeOK
  <2>1. ASSUME NEW c \in Callers,
               FastHit(c) \/ FastMiss(c) \/ CallerStep(c) \/ LeaveFetch(c) \/ CancelContext(c)
        PROVE  UNCHANGED opGen
    BY <2>1 DEF FastHit, FastMiss, StartCall, CallerStep, LockedHit, LockedMiss, JoinFetch,
       StartFetch, WakeDone, ReadResult, LeaveFetch, CancelContext, opVars
  <2>2. ASSUME NEW p \in Ops, OpStep(p)
        PROVE  opGen' = opGen \/ (Publish(p) /\ opGen' = [opGen EXCEPT ![p] = generation + 1])
    BY <2>2 DEF OpStep, FetchSucceeds, FetchFails, Publish, DropResult, ClearActive, CloseDone
  <2>3. ASSUME InvalidateLinkCacheIfGen \/ Expire \/ Finished \/ UNCHANGED vars
        PROVE  UNCHANGED opGen
    BY <2>3 DEF InvalidateLinkCacheIfGen, Expire, Finished, vars, opVars
  <2>4. PICK p \in Ops : Publish(p) /\ opGen' = [opGen EXCEPT ![p] = generation + 1]
    <3>1. opGen' # opGen
      BY <1>1
    <3> QED
      BY <1>1, <3>1, <2>1, <2>2, <2>3 DEF Next
  <2>5. p = o
    BY <1>1, <2>0, <2>4
  <2> QED
    BY <1>1, <2>4, <2>5 DEF Publish, RevisionUnchanged, Inv, RevisionsTell
<1>2. Inv /\ [Next]_vars
        => [\A o \in Ops : (opGen[o] = 0 /\ opGen'[o] # 0) => opDead[o] = dead]_vars
  BY <1>1
<1> QED
  BY <1>2, InvCorrect, PTL DEF Spec, NoStalePublication

-----------------------------------------------------------------------------
\* Refinement.  The callers of the service that have no answer yet are the ones
\* whose call is not idle; what goes on between a call and its answer, the
\* lock, the shared operation and its waiters, is invisible to the service.

\* An empty cache is the initial state of the service.
LEMMA RefinesInit == Init => Service!ServiceInit
  BY DEF Init, Service!ServiceInit

\* Every step of the cache is a step of the service, or none.
LEMMA RefinesStep ==
    Inv /\ [Next]_vars => [Service!ServiceNext]_(Service!serviceVars)
<1> SUFFICES ASSUME Inv, [Next]_vars
             PROVE  [Service!ServiceNext]_(Service!serviceVars)
  OBVIOUS
<1>0. /\ pc \in [Callers -> CallLocations] /\ got \in [Callers -> Nat]
      /\ floor \in [Callers -> Nat] /\ 0 \notin served
  BY DEF Inv, TypeOK, RevisionsTell
<1> DEFINE open == {c \in Callers : pc[c] # "idle"}
<1> USE DEF cacheVars, opVars, callVars, answerVars, historyVars
<1>1. ASSUME NEW c \in Callers, FastHit(c)
      PROVE  Service!AnswerWith(c, cached)
  BY <1>0, <1>1 DEF FastHit, StartCall, ReturnCreds, Service!AnswerWith
<1>2. ASSUME NEW c \in Callers, FastMiss(c)
      PROVE  Service!Begin(c)
  BY <1>0, <1>2 DEF FastMiss, StartCall, Service!Begin
<1>3. ASSUME NEW c \in Callers, pc[c] # "idle", ReturnCreds(c),
             UNCHANGED <<cacheVars, dead, floor>>
      PROVE  Service!AnswerWith(c, cached)
  BY <1>0, <1>3 DEF ReturnCreds, Service!AnswerWith
<1>4. ASSUME NEW c \in Callers, NEW e, pc[c] # "idle", ReturnError(c, e),
             UNCHANGED <<cacheVars, dead, floor>>
      PROVE  Service!AnswerWith(c, 0)
  BY <1>0, <1>4 DEF ReturnError, Service!AnswerWith
<1>5. ASSUME NEW c \in Callers, NEW l, l # "idle", pc[c] # "idle",
             pc' = [pc EXCEPT ![c] = l],
             UNCHANGED <<cacheVars, dead, floor, got>>
      PROVE  UNCHANGED Service!serviceVars
  BY <1>0, <1>5 DEF Service!serviceVars
<1>6. ASSUME NEW c \in Callers, LockedHit(c)
      PROVE  Service!AnswerWith(c, cached)
  BY <1>3, <1>6 DEF LockedHit
<1>7. ASSUME NEW c \in Callers, LockedMiss(c) \/ JoinFetch(c) \/ StartFetch(c)
      PROVE  UNCHANGED Service!serviceVars
  BY <1>5, <1>7 DEF LockedMiss, JoinFetch, StartFetch
<1>8. ASSUME NEW c \in Callers, WakeDone(c)
      PROVE  Service!AnswerWith(c, 0) \/ UNCHANGED Service!serviceVars
  BY <1>4, <1>5, <1>8 DEF WakeDone
<1>9. ASSUME NEW c \in Callers, ReadResult(c)
      PROVE  Service!AnswerWith(c, 0) \/ Service!AnswerWith(c, cached)
  BY <1>3, <1>4, <1>9 DEF ReadResult
<1>10. ASSUME NEW c \in Callers, LeaveFetch(c)
       PROVE  Service!AnswerWith(c, 0)
  BY <1>4, <1>10 DEF LeaveFetch
<1>11. ASSUME NEW c \in Callers, CancelContext(c)
       PROVE  UNCHANGED Service!serviceVars
  BY <1>11 DEF CancelContext, Service!serviceVars
<1>12. ASSUME NEW o \in Ops, Publish(o)
       PROVE  Service!PublishNext
  BY <1>12 DEF Publish, Service!PublishNext
<1>13. ASSUME NEW o \in Ops,
              \/ FetchSucceeds(o) \/ FetchFails(o) \/ DropResult(o)
              \/ ClearActive(o) \/ CloseDone(o)
       PROVE  UNCHANGED Service!serviceVars
  BY <1>13 DEF FetchSucceeds, FetchFails, DropResult, ClearActive, CloseDone,
     Service!serviceVars
<1>14. CASE InvalidateLinkCacheIfGen
  <2>1. Service!Reject
    BY <1>0, <1>14 DEF InvalidateLinkCacheIfGen, Service!Reject
  <2> QED
    BY <2>1 DEF Service!ServiceNext
<1>15. CASE Expire \/ Finished \/ UNCHANGED vars
  BY <1>15 DEF Expire, Finished, vars, Service!serviceVars
<1>16. ASSUME NEW c \in Callers,
              FastHit(c) \/ FastMiss(c) \/ CallerStep(c) \/ LeaveFetch(c) \/ CancelContext(c)
       PROVE  [Service!ServiceNext]_(Service!serviceVars)
  BY <1>1, <1>2, <1>6, <1>7, <1>8, <1>9, <1>10, <1>11, <1>16
  DEF CallerStep, Service!ServiceNext, Service!Answer
<1>17. ASSUME NEW o \in Ops, OpStep(o)
       PROVE  [Service!ServiceNext]_(Service!serviceVars)
  BY <1>12, <1>13, <1>17 DEF OpStep, Service!ServiceNext
<1> QED
  BY <1>14, <1>15, <1>16, <1>17 DEF Next

\* The cache, with its locks, shared fetches and abandoned fetches, implements
\* the service the groups see.
THEOREM RefinementCorrect == Spec => ServicePromise
  BY RefinesInit, RefinesStep, InvCorrect, PTL
  DEF Spec, ServicePromise, Service!ServiceSpec

\* What the answers' freshness rests on, in terms of the service: the cache
\* holds something newer than all that was invalidated, and what was
\* invalidated when a call began has been invalidated by now.
CacheIsNewer ==
    /\ cached <= generation /\ dead <= generation
    /\ cached # 0 => cached > dead
    /\ \A c \in Callers : floor[c] <= dead
    /\ Service!AnswersAreFresh

\* It is preserved by every step of the service.
LEMMA FreshStep ==
    Inv /\ CacheIsNewer /\ [Service!ServiceNext]_(Service!serviceVars) => CacheIsNewer'
<1> SUFFICES ASSUME Inv, CacheIsNewer, [Service!ServiceNext]_(Service!serviceVars)
             PROVE  CacheIsNewer'
  OBVIOUS
<1>0. /\ cached \in Nat /\ generation \in Nat /\ dead \in Nat
      /\ floor \in [Callers -> Nat] /\ got \in [Callers -> Nat]
  BY DEF Inv, TypeOK
<1> USE DEF CacheIsNewer, Service!AnswersAreFresh
<1>1. ASSUME NEW c \in Callers, Service!Begin(c)
      PROVE  CacheIsNewer'
  BY <1>0, <1>1 DEF Service!Begin
<1>2. ASSUME NEW c \in Callers, NEW g \in {0, cached}, Service!AnswerWith(c, g)
      PROVE  CacheIsNewer'
  <2>1. \A d \in Callers : floor'[d] = floor[d] \/ (d = c /\ floor'[d] = dead)
    BY <1>0, <1>2 DEF Service!AnswerWith
  <2>2. got'[c] = g /\ \A d \in Callers \ {c} : got'[d] = got[d] /\ floor'[d] = floor[d]
    BY <1>0, <1>2 DEF Service!AnswerWith
  <2>3. cached' = cached /\ generation' = generation /\ dead' = dead
    BY <1>2 DEF Service!AnswerWith
  <2> QED
    BY <1>0, <2>1, <2>2, <2>3
<1>3. CASE Service!PublishNext
  BY <1>0, <1>3 DEF Service!PublishNext
<1>4. CASE Service!Reject
  BY <1>0, <1>4 DEF Service!Reject
<1>5. CASE UNCHANGED Service!serviceVars
  BY <1>5 DEF Service!serviceVars
<1> HIDE DEF CacheIsNewer, Service!AnswersAreFresh
<1>6. ASSUME NEW c \in Callers, Service!Answer(c)
      PROVE  CacheIsNewer'
  <2>1. Service!AnswerWith(c, 0) \/ Service!AnswerWith(c, cached)
    BY <1>6 DEF Service!Answer
  <2>2. 0 \in {0, cached} /\ cached \in {0, cached}
    OBVIOUS
  <2> QED
    BY <1>2, <2>1, <2>2 DEF Service!AnswerWith
<1> QED
  BY <1>1, <1>3, <1>4, <1>5, <1>6 DEF Service!ServiceNext

\* What getVkCredsCached returns is newer than every generation that had been
\* invalidated when it was called.
THEOREM CacheIsFresh == Spec => []Service!AnswersAreFresh
<1>1. Service!ServiceInit => CacheIsNewer
  BY DEF Service!ServiceInit, CacheIsNewer, Service!AnswersAreFresh
<1>2. CacheIsNewer => Service!AnswersAreFresh
  BY DEF CacheIsNewer
<1> QED
  BY <1>1, <1>2, FreshStep, RefinementCorrect, InvCorrect, PTL
  DEF ServicePromise, Service!ServiceSpec
=============================================================================
