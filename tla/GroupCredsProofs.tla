-------------------------- MODULE GroupCredsProofs --------------------------
(***************************************************************************)
(* Proofs about GroupCreds and the service it uses (CredsService), for any *)
(* number of groups, workers and generations.  That the cache implements   *)
(* the service is proved in CredsCacheProofs.                              *)
(*                                                                         *)
(* The path of RefreshCreds that takes the answer of GetCredsWithGen       *)
(* without comparing it (step 5) is right because of what is true of the   *)
(* link's cache: it holds the generation issued last, or that one has been *)
(* invalidated.  So once InvalidateLinkCacheIfGen was called, whatever it  *)
(* found, the failed generation is behind the cache for good.              *)
(***************************************************************************)
EXTENDS GroupCreds, TLAPS

-----------------------------------------------------------------------------
\* The link's cache, as CredsService promises it.

\* The types of the service, relative to the generations issued.
ServiceTypes ==
    /\ issued \in Nat
    /\ current \in 0..issued
    /\ dead \in 0..issued
    /\ open \subseteq Callers
    /\ floor \in [Callers -> 0..issued]
    /\ got \in [Callers -> 0..issued]

\* AnswersAreFresh is not inductive by itself.  It follows from two facts about
\* the cache: what it holds is newer than all that was invalidated, and what
\* was invalidated when a call began has been invalidated by now.
ServiceInv ==
    /\ ServiceTypes
    /\ current # 0 => current > dead
    /\ \A c \in Callers : floor[c] <= dead
    /\ AnswersAreFresh

\* The service starts with nothing issued, nothing invalidated.
LEMMA ServiceInitOK == ServiceInit => ServiceInv
  BY DEF ServiceInit, ServiceInv, ServiceTypes, AnswersAreFresh

\* Every operation of the service preserves the invariant.
LEMMA ServiceStepOK == ServiceInv /\ [ServiceNext]_serviceVars => ServiceInv'
  <1> SUFFICES ASSUME ServiceInv, [ServiceNext]_serviceVars
               PROVE  ServiceInv'
    OBVIOUS
  <1> USE DEF ServiceInv, ServiceTypes, AnswersAreFresh
  <1>1. ASSUME NEW c \in Callers, Begin(c)
        PROVE  ServiceInv'
    BY <1>1 DEF Begin
  <1>2. ASSUME NEW c \in Callers, NEW g \in {0, current}, AnswerWith(c, g)
        PROVE  ServiceInv'
    <2>1. (c \in open /\ g # 0) => g > floor[c]
      BY <1>2
    <2>2. floor' \in [Callers -> 0..issued] /\ \A d \in Callers : floor'[d] <= dead
      BY <1>2 DEF AnswerWith
    <2>3. got'[c] # 0 => got'[c] > floor'[c]
      BY <1>2, <2>1 DEF AnswerWith
    <2>4. \A d \in Callers \ {c} : got'[d] = got[d] /\ floor'[d] = floor[d]
      BY <1>2 DEF AnswerWith
    <2>5. AnswersAreFresh'
      BY <2>3, <2>4
    <2> QED
      BY <1>2, <2>2, <2>5 DEF AnswerWith
  <1>3. CASE PublishNext
    BY <1>3 DEF PublishNext
  <1>4. CASE Reject
    BY <1>4 DEF Reject
  <1>5. CASE UNCHANGED serviceVars
    BY <1>5 DEF serviceVars
  <1>6. ASSUME NEW c \in Callers, Answer(c)
        PROVE  ServiceInv'
    BY <1>2, <1>6 DEF Answer
  <1> QED
    BY <1>1, <1>3, <1>4, <1>5, <1>6 DEF ServiceNext

\* Whatever a caller of getVkCredsCached is given is newer than every
\* generation that had been invalidated when it called: rejected credentials
\* are not handed out again to somebody who asks after the rejection.
THEOREM FreshnessCorrect == ServiceSpec => []AnswersAreFresh
  <1>1. ServiceInv => AnswersAreFresh
    BY DEF ServiceInv
  <1> QED
    BY <1>1, ServiceInitOK, ServiceStepOK, PTL DEF ServiceSpec

-----------------------------------------------------------------------------
\* The groups

\* The cache holds the newest generation or has lost it by an invalidation.
CacheIsLatest == IF current = 0 THEN dead = issued ELSE current = issued

\* A group has workers from the moment it has credentials.
WorkersHaveCreds ==
    /\ \A g \in Groups : phase[g] = "up" => groupGen[g] # 0
    /\ \A w \in Workers :
          /\ phase[GroupOf[w]] \in {"queued", "asking", "retrying"} => pc[w] = "unborn"
          /\ pc[w] # "unborn" => groupGen[GroupOf[w]] # 0

\* What a refresh is about: a generation that a TURN server has rejected.
RefreshIsForRejected ==
    \A w \in Workers :
       /\ pc[w] \in InRefresh \cup {"session"} => failedGen[w] # 0
       /\ pc[w] \in InRefresh => failedGen[w] \in rejected

\* c.mu and c.activeOp belong to a worker of the group, in the right place.
LockIsHeld ==
    \A g \in Groups, w \in Workers :
       mu[g] = w <=> (GroupOf[w] = g /\ pc[w] \in {"under", "decide"})

OpIsOwned ==
    \A g \in Groups, w \in Workers :
       activeOp[g] = w <=> (GroupOf[w] = g /\ pc[w] \in Owning)

WaitsForActive ==
    \A w \in Workers :
       pc[w] = "wait" => waitingFor[w] = activeOp[GroupOf[w]] /\ waitingFor[w] # Nobody

\* The failed generation of worker w is behind the cache.
Behind(w) == dead >= failedGen[w] \/ current > failedGen[w]

AnswersAreNewer ==
    \A w \in Workers :
       /\ answer[w] # 0 => answer[w] > failedGen[w]
       /\ pc[w] \in {"store", "write"} => got[w] > failedGen[w]
       /\ pc[w] = "fetch" => Behind(w)

\* Past its first GetCredsWithGen.
Passed(g) == phase[g] \notin {"queued", "asking"}

\* A group that gives the signal has passed, and unless the run is stopped a
\* group leaves the queue only when all before it have passed.
CascadeInTurn ==
    /\ \A g \in signalled \cup headStart : Passed(g)
    /\ ~stopped => \A g \in Groups : phase[g] # "queued" => \A k \in 1..(g - 1) : Passed(k)

Inv ==
    /\ ServiceInv /\ CacheIsLatest
    /\ TypeOK
    /\ WorkersHaveCreds
    /\ RefreshIsForRejected
    /\ LockIsHeld /\ OpIsOwned /\ WaitsForActive
    /\ AnswersAreNewer
    /\ CascadeInTurn

-----------------------------------------------------------------------------
\* What the groups and their workers do to the cache of the link is what its
\* promise allows.
LEMMA StepOfService == [Next]_vars => [ServiceNext]_serviceVars
<1> SUFFICES ASSUME [Next]_vars PROVE [ServiceNext]_serviceVars
  OBVIOUS
<1>1. ASSUME NEW w \in Workers,
             \/ Snapshot(w) \/ SessionEnds(w) \/ SessionRejected(w) \/ WorkerExits(w)
             \/ CheckLocal(w) \/ StoreEarly(w) \/ JoinRefresh(w) \/ Throttled(w)
             \/ RegisterRefresh(w) \/ WriteRefreshed(w) \/ FinishRefresh(w)
             \/ ReadAfterWait(w) \/ LeaveWait(w)
      PROVE  UNCHANGED serviceVars
  BY <1>1 DEF Snapshot, SessionEnds, SessionRejected, WorkerExits, CheckLocal, StoreEarly,
     JoinRefresh, Throttled, RegisterRefresh, WriteRefreshed, FinishRefresh, ReadAfterWait,
     LeaveWait
<1>2. ASSUME NEW w \in Workers, PeekCache(w) \/ LockCoordinator(w) \/ BeginFetch(w)
      PROVE  Begin(w) \/ UNCHANGED serviceVars
  BY <1>2 DEF PeekCache, LockCoordinator, BeginFetch
<1>3. ASSUME NEW w \in Workers, EarlyAnswered(w) \/ LockedAnswered(w) \/ FetchAnswered(w)
      PROVE  Answer(w)
  BY <1>3 DEF EarlyAnswered, LockedAnswered, FetchAnswered
<1>4. ASSUME NEW w \in Workers, Invalidate(w)
      PROVE  Reject \/ UNCHANGED serviceVars
  BY <1>4 DEF Invalidate
<1>5. ASSUME NEW g \in Groups,
             GroupStep(g) \/ RetryCreds(g) \/ RetryEnds(g) \/ ThrottleEnds(g)
      PROVE  UNCHANGED serviceVars
  BY <1>5 DEF GroupStep, TakeTurn, LeaveQueue, FirstCreds, FirstFails, HeadStartOver,
     GroupEnds, RetryCreds, RetryEnds, ThrottleEnds, StartWorkers
<1>6. ASSUME CachePublishes
      PROVE  PublishNext
  BY <1>6 DEF CachePublishes
<1>7. ASSUME Stop \/ Finished \/ UNCHANGED vars
      PROVE  UNCHANGED serviceVars
  BY <1>7 DEF Stop, Finished, vars
<1> QED
  BY <1>1, <1>2, <1>3, <1>4, <1>5, <1>6, <1>7 DEF Next, RefreshStep, ServiceNext, Workers

\* The service, seen from its users: its numbers only grow, and what is behind
\* the cache stays there.
LEMMA ServiceFacts ==
    ASSUME ServiceInv, CacheIsLatest, [ServiceNext]_serviceVars
    PROVE  /\ ServiceInv' /\ CacheIsLatest'
           /\ issued <= issued' /\ dead <= dead'
           /\ \A n \in 0..issued : (dead >= n \/ current > n) => (dead' >= n \/ current' > n)
<1>1. ServiceInv'
  BY ServiceStepOK
<1> USE DEF CacheIsLatest, ServiceInv, ServiceTypes
<1>2. CASE PublishNext
  BY <1>1, <1>2 DEF PublishNext
<1>3. CASE Reject
  BY <1>1, <1>3 DEF Reject
<1>4. CASE UNCHANGED <<issued, current, dead>>
  BY <1>1, <1>4
<1> QED
  BY <1>2, <1>3, <1>4 DEF ServiceNext, Begin, Answer, AnswerWith, serviceVars

\* The bound of the model on generations, and the step of the service.
LEMMA GrowthFacts ==
    ASSUME Inv, [Next]_vars
    PROVE  /\ ServiceInv' /\ CacheIsLatest'
           /\ issued' \in 0..MaxIssued /\ issued <= issued' /\ dead <= dead'
           /\ 0..issued \subseteq 0..issued' /\ 1..issued \subseteq 1..issued'
           /\ \A w \in Workers : failedGen[w] \in 0..issued
           /\ \A w \in Workers : (Behind(w) /\ failedGen'[w] = failedGen[w]) => Behind(w)'
<1>1. /\ ServiceInv' /\ CacheIsLatest' /\ issued <= issued' /\ dead <= dead'
      /\ \A n \in 0..issued : (dead >= n \/ current > n) => (dead' >= n \/ current' > n)
  BY StepOfService, ServiceFacts DEF Inv
<1>2. issued' = issued \/ (issued < MaxIssued /\ issued' = issued + 1)
  <2>1. ASSUME PublishNext, Next PROVE CachePublishes \/ UNCHANGED issued
    BY <2>1, ZenonT(60) DEF Next, Snapshot, SessionEnds, SessionRejected, WorkerExits, RefreshStep,
     CheckLocal, StoreEarly, JoinRefresh, Throttled, RegisterRefresh, WriteRefreshed,
     FinishRefresh, ReadAfterWait, LeaveWait, PeekCache, LockCoordinator, BeginFetch,
     EarlyAnswered, LockedAnswered, FetchAnswered, Invalidate, GroupStep, TakeTurn, LeaveQueue,
     FirstCreds, FirstFails, HeadStartOver, GroupEnds, RetryCreds, RetryEnds, ThrottleEnds,
     StartWorkers, Stop, Finished, vars, serviceVars, Begin, Answer, AnswerWith, Reject
  <2>2. ASSUME ~PublishNext PROVE UNCHANGED issued
    BY <2>2, StepOfService DEF ServiceNext, Begin, Answer, AnswerWith, Reject, serviceVars
  <2> QED
    BY <2>1, <2>2 DEF CachePublishes, PublishNext, vars, serviceVars
<1>3. \A w \in Workers : failedGen[w] \in 0..issued
  BY DEF Inv, TypeOK
<1>4. issued \in 0..MaxIssued /\ issued' \in Nat /\ MaxIssued \in Nat
  BY <1>1, GroupAssumption DEF Inv, TypeOK, ServiceInv, ServiceTypes
<1>5. issued' \in 0..MaxIssued
  BY <1>2, <1>4
<1>6. \A w \in Workers : (Behind(w) /\ failedGen'[w] = failedGen[w]) => Behind(w)'
  BY <1>1, <1>3 DEF Behind
<1> QED
  BY <1>1, <1>3, <1>4, <1>5, <1>6

-----------------------------------------------------------------------------
\* No group has begun, no generation has been issued.
LEMMA InitInv == Init => Inv
<1> SUFFICES ASSUME Init PROVE Inv
  OBVIOUS
<1>1. ServiceInv
  BY ServiceInitOK DEF Init
<1>2. CacheIsLatest
  BY DEF Init, ServiceInit, CacheIsLatest
<1>3. TypeOK
  <2>1. 0 \in 0..MaxIssued /\ 0 \in 0..0
    BY GroupAssumption
  <2> QED
    BY <2>1 DEF Init, ServiceInit, TypeOK, Phases, Locations, Workers
<1>4. WorkersHaveCreds /\ RefreshIsForRejected
  BY DEF Init, WorkersHaveCreds, RefreshIsForRejected, InRefresh
<1>5. LockIsHeld /\ OpIsOwned /\ WaitsForActive
  BY GroupAssumption DEF Init, LockIsHeld, OpIsOwned, WaitsForActive, Owning, Workers
<1>6. AnswersAreNewer
  BY DEF Init, AnswersAreNewer
<1>7. CascadeInTurn
  BY DEF Init, CascadeInTurn
<1> QED
  BY <1>1, <1>2, <1>3, <1>4, <1>5, <1>6, <1>7 DEF Inv

\* Types.
LEMMA TypeStep == Inv /\ [Next]_vars => TypeOK'
<1> SUFFICES ASSUME Inv, [Next]_vars PROVE TypeOK'
  OBVIOUS
<1>a. /\ issued' \in 0..MaxIssued
      /\ current' \in 0..issued' /\ dead' \in 0..issued'
      /\ open' \subseteq Workers
      /\ floor' \in [Workers -> 0..issued'] /\ got' \in [Workers -> 0..issued']
  BY GrowthFacts DEF ServiceInv, ServiceTypes, Workers
<1>b. 0..issued \subseteq 0..issued' /\ 1..issued \subseteq 1..issued'
  BY GrowthFacts
<1>c. /\ phase \in [Groups -> Phases] /\ signalled \subseteq Groups /\ headStart \subseteq Groups
      /\ current \in 0..issued /\ got \in [Workers -> 0..issued]
      /\ groupGen \in [Groups -> 0..issued']
      /\ \A g \in Groups : phase[g] = "up" => groupGen[g] # 0
      /\ mu \in [Groups -> Workers \cup {Nobody}]
      /\ activeOp \in [Groups -> Workers \cup {Nobody}]
      /\ recent \subseteq Groups /\ stopped \in BOOLEAN
      /\ pc \in [Workers -> Locations]
      /\ failedGen \in [Workers -> 0..issued']
      /\ waitingFor \in [Workers -> Workers \cup {Nobody}]
      /\ answer \in [Workers -> 0..issued']
      /\ rejected \subseteq 1..issued'
  BY <1>b DEF Inv, TypeOK
<1>e. \A w \in Workers : GroupOf[w] \in Groups
  BY GroupAssumption DEF Workers, Groups
<1>d. /\ \A w \in Workers : GroupOf[w] \in Groups /\ groupGen[GroupOf[w]] \in 0..issued'
      /\ \A w \in Workers : got[w] \in 0..issued' /\ failedGen[w] \in 0..issued'
      /\ current \in 0..issued' /\ 0 \in 0..issued'
  <2>1. current \in 0..issued' /\ 0 \in 0..issued'
    BY <1>a, <1>b, <1>c, GroupAssumption
  <2> QED
    BY <1>b, <1>c, <1>e, <2>1
<1> USE <1>a, <1>c, <1>d DEF Goto, ReturnTrue, ReturnFalse, Release, cascadeVars, coordVars,
       groupVars, workerVars
<1>1. ASSUME NEW g \in Groups,
             TakeTurn(g) \/ LeaveQueue(g) \/ FirstFails(g) \/ RetryEnds(g) \/ GroupEnds(g)
      PROVE  TypeOK'
  <2>1. /\ \E p \in Phases \ {"up"} : phase' = [phase EXCEPT ![g] = p]
        /\ signalled' \subseteq Groups
    BY <1>1 DEF TakeTurn, LeaveQueue, FirstFails, RetryEnds, GroupEnds, Phases
  <2>2. UNCHANGED <<headStart, coordVars, workerVars>>
    BY <1>1 DEF TakeTurn, LeaveQueue, FirstFails, RetryEnds, GroupEnds
  <2> QED
    BY <2>1, <2>2 DEF TypeOK
<1>2. ASSUME NEW g \in Groups, HeadStartOver(g)
      PROVE  TypeOK'
  BY <1>2 DEF HeadStartOver, TypeOK
<1>3. ASSUME NEW g \in Groups, FirstCreds(g) \/ RetryCreds(g)
      PROVE  TypeOK'
  <2>1. StartWorkers(g) /\ UNCHANGED signalled /\ headStart' \subseteq Groups
    BY <1>3 DEF FirstCreds, RetryCreds
  <2> QED
    BY <2>1 DEF StartWorkers, TypeOK, Phases, Locations
<1>4. ASSUME NEW w \in Workers, Snapshot(w) \/ SessionEnds(w) \/ WorkerExits(w)
      PROVE  TypeOK'
  <2>1. CASE Snapshot(w)
    BY <2>1 DEF Snapshot, TypeOK, Locations
  <2>2. CASE SessionEnds(w) \/ WorkerExits(w)
    BY <2>2 DEF SessionEnds, WorkerExits, TypeOK, Locations
  <2> QED
    BY <1>4, <2>1, <2>2
<1>5. ASSUME NEW w \in Workers, SessionRejected(w)
      PROVE  TypeOK'
  <2>1. failedGen[w] \in 1..issued'
    <3>1. failedGen[w] # 0
      BY <1>5 DEF SessionRejected, Inv, RefreshIsForRejected
    <3> QED
      BY <3>1
  <2> QED
    BY <1>5, <2>1 DEF SessionRejected, TypeOK, Locations, InRefresh
<1>6. ASSUME NEW w \in Workers,
             CheckLocal(w) \/ PeekCache(w) \/ EarlyAnswered(w) \/ Invalidate(w) \/ BeginFetch(w)
      PROVE  TypeOK'
  BY <1>6 DEF CheckLocal, PeekCache, EarlyAnswered, Invalidate, BeginFetch, TypeOK, Locations,
     InRefresh
<1>7. ASSUME NEW w \in Workers, FetchAnswered(w) \/ ReadAfterWait(w) \/ LeaveWait(w)
      PROVE  TypeOK'
  <2>1. CASE FetchAnswered(w)
    BY <2>1 DEF FetchAnswered, TypeOK, Locations, InRefresh
  <2>2. CASE ReadAfterWait(w)
    BY <2>2 DEF ReadAfterWait, TypeOK, Locations
  <2>3. CASE LeaveWait(w)
    BY <2>3 DEF LeaveWait, TypeOK, Locations
  <2> QED
    BY <1>7, <2>1, <2>2, <2>3
<1>8. ASSUME NEW w \in Workers, StoreEarly(w) \/ WriteRefreshed(w)
      PROVE  TypeOK'
  <2>1. got[w] # 0
    BY <1>8 DEF StoreEarly, WriteRefreshed, Inv, AnswersAreNewer
  <2> QED
    BY <1>8, <2>1 DEF StoreEarly, WriteRefreshed, TypeOK, Locations, InRefresh
<1>9. ASSUME NEW w \in Workers, LockCoordinator(w)
      PROVE  TypeOK'
  BY <1>9 DEF LockCoordinator, TypeOK, Locations, InRefresh
<1>10. ASSUME NEW w \in Workers, LockedAnswered(w)
       PROVE  TypeOK'
  BY <1>10 DEF LockedAnswered, TypeOK, Locations, InRefresh
<1>11. ASSUME NEW w \in Workers, JoinRefresh(w) \/ Throttled(w) \/ RegisterRefresh(w)
       PROVE  TypeOK'
  <2>1. CASE JoinRefresh(w)
    BY <2>1 DEF JoinRefresh, TypeOK, Locations, InRefresh
  <2>2. CASE Throttled(w)
    BY <2>2 DEF Throttled, TypeOK, Locations
  <2>3. CASE RegisterRefresh(w)
    BY <2>3 DEF RegisterRefresh, TypeOK, Locations, InRefresh
  <2> QED
    BY <1>11, <2>1, <2>2, <2>3
<1>12. ASSUME NEW w \in Workers, FinishRefresh(w)
       PROVE  TypeOK'
  BY <1>12 DEF FinishRefresh, TypeOK, Locations, InRefresh
<1>13. ASSUME NEW g \in Groups, ThrottleEnds(g)
       PROVE  TypeOK'
  BY <1>13 DEF ThrottleEnds, TypeOK
<1>14. CASE CachePublishes \/ Stop \/ Finished \/ UNCHANGED vars
  BY <1>14 DEF CachePublishes, Stop, Finished, vars, TypeOK
<1> QED
  BY <1>1, <1>2, <1>3, <1>4, <1>5, <1>6, <1>7, <1>8, <1>9, <1>10, <1>11, <1>12, <1>13, <1>14
  DEF Next, RefreshStep, GroupStep

\* Credentials of groups, and the generations refreshes are about.
LEMMA CredsStep == Inv /\ [Next]_vars => WorkersHaveCreds' /\ RefreshIsForRejected'
<1> DEFINE Good == WorkersHaveCreds /\ RefreshIsForRejected
<1> SUFFICES ASSUME Inv, [Next]_vars PROVE Good'
  OBVIOUS
<1>0. /\ phase \in [Groups -> Phases] /\ groupGen \in [Groups -> 0..issued]
      /\ pc \in [Workers -> Locations] /\ failedGen \in [Workers -> 0..issued]
      /\ \A w \in Workers : GroupOf[w] \in Groups
      /\ WorkersHaveCreds /\ RefreshIsForRejected
  BY GroupAssumption DEF Inv, TypeOK, Workers, Groups
<1> USE <1>0 DEF WorkersHaveCreds, RefreshIsForRejected, InRefresh, Goto, ReturnTrue, ReturnFalse,
       cascadeVars, coordVars, groupVars, workerVars
<1>1. ASSUME NEW g \in Groups,
             TakeTurn(g) \/ LeaveQueue(g) \/ FirstFails(g) \/ RetryEnds(g) \/ GroupEnds(g)
      PROVE  Good'
  BY <1>1 DEF TakeTurn, LeaveQueue, FirstFails, RetryEnds, GroupEnds
<1>2. ASSUME NEW g \in Groups, FirstCreds(g) \/ RetryCreds(g)
      PROVE  Good'
  BY <1>2 DEF FirstCreds, RetryCreds, StartWorkers
<1>3. ASSUME NEW w \in Workers, Snapshot(w)
      PROVE  Good'
  BY <1>3 DEF Snapshot
<1>4. ASSUME NEW w \in Workers, SessionRejected(w)
      PROVE  Good'
  BY <1>4 DEF SessionRejected
<1>5. ASSUME NEW w \in Workers,
             \/ SessionEnds(w) \/ WorkerExits(w) \/ LeaveWait(w)
             \/ RefreshStep(w) /\ UNCHANGED groupGen
      PROVE  Good'
  <2>1. /\ UNCHANGED <<phase, groupGen, failedGen, rejected>>
        /\ pc[w] # "unborn" /\ pc'[w] # "unborn"
        /\ pc'[w] \in InRefresh \cup {"session"} => pc[w] \in InRefresh
        /\ \A v \in Workers \ {w} :
              pc'[v] = pc[v] \/ (pc[v] = "wait" /\ pc'[v] = "read")
    BY <1>5 DEF SessionEnds, WorkerExits, LeaveWait, RefreshStep, CheckLocal, PeekCache,
       EarlyAnswered, StoreEarly, LockCoordinator, LockedAnswered, JoinRefresh, Throttled,
       RegisterRefresh, Invalidate, BeginFetch, FetchAnswered, WriteRefreshed, FinishRefresh,
       ReadAfterWait
  <2> QED
    BY <2>1
<1>6. ASSUME NEW w \in Workers, RefreshStep(w), groupGen' # groupGen
      PROVE  Good'
  <2>1. \/ StoreEarly(w) \/ WriteRefreshed(w)
        \/ LockedAnswered(w) /\ got'[w] > failedGen[w]
    BY <1>6 DEF RefreshStep, CheckLocal, PeekCache, EarlyAnswered, LockCoordinator,
       LockedAnswered, JoinRefresh, Throttled, RegisterRefresh, Invalidate, BeginFetch,
       FetchAnswered, FinishRefresh, ReadAfterWait
  <2>2. /\ UNCHANGED <<phase, failedGen, rejected>>
        /\ groupGen' = [groupGen EXCEPT ![GroupOf[w]] = got'[w]]
        /\ pc[w] \in InRefresh /\ pc'[w] \in {"ready", "finish"}
        /\ \A v \in Workers \ {w} : pc'[v] = pc[v]
    BY <1>6, <2>1 DEF StoreEarly, WriteRefreshed, LockedAnswered, serviceVars
  <2>3. got'[w] > failedGen[w]
    BY <2>1 DEF StoreEarly, WriteRefreshed, serviceVars, Inv, AnswersAreNewer
  <2>4. got'[w] # 0
    BY <2>3
  <2> QED
    BY <2>2, <2>4
<1>7. ASSUME NEW g \in Groups, ThrottleEnds(g) \/ HeadStartOver(g)
      PROVE  Good'
  BY <1>7 DEF ThrottleEnds, HeadStartOver
<1>8. CASE CachePublishes \/ Stop \/ Finished \/ UNCHANGED vars
  BY <1>8 DEF CachePublishes, Stop, Finished, vars
<1> QED
  BY <1>1, <1>2, <1>3, <1>4, <1>5, <1>6, <1>7, <1>8 DEF Next, GroupStep

\* c.mu, c.activeOp and those who wait for it.
LEMMA SharingStep == Inv /\ [Next]_vars => LockIsHeld' /\ OpIsOwned' /\ WaitsForActive'
<1> DEFINE Good == LockIsHeld /\ OpIsOwned /\ WaitsForActive
<1> SUFFICES ASSUME Inv, [Next]_vars PROVE Good'
  OBVIOUS
<1>0. /\ mu \in [Groups -> Workers \cup {Nobody}]
      /\ activeOp \in [Groups -> Workers \cup {Nobody}]
      /\ waitingFor \in [Workers -> Workers \cup {Nobody}]
      /\ pc \in [Workers -> Locations]
      /\ \A w \in Workers : GroupOf[w] \in Groups
      /\ Nobody \notin Workers
      /\ LockIsHeld /\ OpIsOwned /\ WaitsForActive
  BY GroupAssumption DEF Inv, TypeOK, Workers, Groups
<1> USE <1>0 DEF LockIsHeld, OpIsOwned, WaitsForActive, Owning, Goto, ReturnTrue, ReturnFalse,
       cascadeVars, coordVars, groupVars, workerVars
<1>1. ASSUME NEW g \in Groups,
             \/ TakeTurn(g) \/ LeaveQueue(g) \/ FirstFails(g) \/ RetryEnds(g) \/ GroupEnds(g)
             \/ ThrottleEnds(g) \/ HeadStartOver(g)
      PROVE  Good'
  BY <1>1 DEF TakeTurn, LeaveQueue, FirstFails, RetryEnds, GroupEnds, ThrottleEnds, HeadStartOver
<1>2. ASSUME NEW g \in Groups, FirstCreds(g) \/ RetryCreds(g)
      PROVE  Good'
  <2>1. \A w \in Workers : GroupOf[w] = g => pc[w] = "unborn"
    BY <1>2 DEF FirstCreds, RetryCreds, Inv, WorkersHaveCreds
  <2>2. /\ UNCHANGED <<mu, activeOp, waitingFor>>
        /\ \A w \in Workers : pc'[w] = pc[w] \/ (pc[w] = "unborn" /\ pc'[w] = "ready")
    BY <1>2, <2>1 DEF FirstCreds, RetryCreds, StartWorkers
  <2> QED
    BY <2>2
<1>3. ASSUME NEW w \in Workers,
             \/ Snapshot(w) \/ SessionEnds(w) \/ SessionRejected(w) \/ WorkerExits(w)
             \/ CheckLocal(w) \/ PeekCache(w) \/ EarlyAnswered(w) \/ StoreEarly(w)
             \/ ReadAfterWait(w) \/ LeaveWait(w)
      PROVE  Good'
  <2>1. /\ UNCHANGED <<mu, activeOp>>
        /\ \A v \in Workers \ {w} : pc'[v] = pc[v] /\ waitingFor'[v] = waitingFor[v]
    BY <1>3 DEF Snapshot, SessionEnds, SessionRejected, WorkerExits, CheckLocal, PeekCache,
       EarlyAnswered, StoreEarly, ReadAfterWait, LeaveWait
  <2>2. /\ pc[w] \notin {"under", "decide"} \cup Owning
        /\ pc'[w] \notin {"under", "decide", "wait"} \cup Owning
    BY <1>3 DEF Snapshot, SessionEnds, SessionRejected, WorkerExits, CheckLocal, PeekCache,
       EarlyAnswered, StoreEarly, ReadAfterWait, LeaveWait
  <2> QED
    BY <2>1, <2>2
<1>4. ASSUME NEW w \in Workers,
             Invalidate(w) \/ BeginFetch(w) \/ FetchAnswered(w) \/ WriteRefreshed(w)
      PROVE  Good'
  <2>1. /\ UNCHANGED <<mu, activeOp, waitingFor>>
        /\ \A v \in Workers \ {w} : pc'[v] = pc[v]
        /\ pc[w] \in Owning /\ pc'[w] \in Owning
    BY <1>4 DEF Invalidate, BeginFetch, FetchAnswered, WriteRefreshed
  <2> QED
    BY <2>1
<1>5. ASSUME NEW w \in Workers, LockCoordinator(w)
      PROVE  Good'
  BY <1>5 DEF LockCoordinator
<1>6. ASSUME NEW w \in Workers, LockedAnswered(w)
      PROVE  Good'
  BY <1>6 DEF LockedAnswered
<1>7. ASSUME NEW w \in Workers, JoinRefresh(w)
      PROVE  Good'
  BY <1>7 DEF JoinRefresh
<1>8. ASSUME NEW w \in Workers, Throttled(w)
      PROVE  Good'
  BY <1>8 DEF Throttled
<1>9. ASSUME NEW w \in Workers, RegisterRefresh(w)
      PROVE  Good'
  BY <1>9 DEF RegisterRefresh, MayRegister
<1>10. ASSUME NEW w \in Workers, FinishRefresh(w)
       PROVE  Good'
  BY <1>10 DEF FinishRefresh
<1>11. CASE CachePublishes \/ Stop \/ Finished \/ UNCHANGED vars
  BY <1>11 DEF CachePublishes, Stop, Finished, vars
<1> QED
  BY <1>1, <1>2, <1>3, <1>4, <1>5, <1>6, <1>7, <1>8, <1>9, <1>10, <1>11
  DEF Next, RefreshStep, GroupStep

\* What a call of GetCredsWithGen does to its caller's result.
LEMMA GotFacts ==
    ASSUME Inv, NEW w \in Workers
    PROVE  /\ (Begin(w) \/ Answer(w)) => \A v \in Workers \ {w} : got'[v] = got[v]
           /\ Answer(w) => (got'[w] \in {0, current} /\ UNCHANGED <<current, dead, issued>>)
<1>1. got \in [Workers -> 0..issued] /\ w \in Callers
  BY DEF Inv, TypeOK, Workers
<1> QED
  BY <1>1 DEF Begin, Answer, AnswerWith

\* The generations RefreshCreds goes by.
LEMMA AnswersStep == Inv /\ [Next]_vars => AnswersAreNewer'
<1> SUFFICES ASSUME Inv, [Next]_vars PROVE AnswersAreNewer'
  OBVIOUS
<1>0. /\ pc \in [Workers -> Locations] /\ failedGen \in [Workers -> 0..issued]
      /\ answer \in [Workers -> 0..issued] /\ got \in [Workers -> 0..issued]
      /\ groupGen \in [Groups -> 0..issued]
      /\ \A w \in Workers : GroupOf[w] \in Groups
      /\ issued \in Nat /\ current \in 0..issued /\ dead \in 0..issued
      /\ AnswersAreNewer
  BY GroupAssumption DEF Inv, TypeOK, ServiceInv, ServiceTypes, Workers, Groups
<1>a. \A w \in Workers : (Behind(w) /\ failedGen'[w] = failedGen[w]) => Behind(w)'
  BY GrowthFacts
\* Workers other than the one that takes the step.
<1>b. ASSUME NEW w \in Workers,
             \A v \in Workers \ {w} :
                /\ pc'[v] = pc[v] \/ pc'[v] \notin {"store", "write", "fetch"}
                /\ failedGen'[v] = failedGen[v] /\ answer'[v] = answer[v] /\ got'[v] = got[v],
             /\ answer'[w] # 0 => answer'[w] > failedGen'[w]
             /\ pc'[w] \in {"store", "write"} => got'[w] > failedGen'[w]
             /\ pc'[w] = "fetch" => Behind(w)'
      PROVE  AnswersAreNewer'
  BY <1>0, <1>a, <1>b DEF AnswersAreNewer
<1> USE <1>0 DEF Goto, ReturnTrue, ReturnFalse, cascadeVars, coordVars, groupVars, workerVars,
       serviceVars
<1>1. ASSUME NEW w \in Workers,
             \/ Snapshot(w) \/ SessionEnds(w) \/ SessionRejected(w) \/ WorkerExits(w)
             \/ JoinRefresh(w) \/ Throttled(w) \/ RegisterRefresh(w) \/ LeaveWait(w)
             \/ FinishRefresh(w)
      PROVE  AnswersAreNewer'
  <2>1. /\ \A v \in Workers \ {w} :
              /\ pc'[v] = pc[v] \/ pc'[v] \notin {"store", "write", "fetch"}
              /\ failedGen'[v] = failedGen[v] /\ answer'[v] = answer[v] /\ got'[v] = got[v]
        /\ answer'[w] = 0 \/ UNCHANGED <<answer, failedGen>>
        /\ pc'[w] \notin {"store", "write", "fetch"}
    BY <1>1 DEF Snapshot, SessionEnds, SessionRejected, WorkerExits, JoinRefresh, Throttled,
       RegisterRefresh, LeaveWait, FinishRefresh
  <2> QED
    BY <2>1, <1>b DEF AnswersAreNewer
<1>2. ASSUME NEW w \in Workers, CheckLocal(w) \/ ReadAfterWait(w)
      PROVE  AnswersAreNewer'
  <2>1. /\ \A v \in Workers \ {w} : pc'[v] = pc[v] /\ answer'[v] = answer[v]
        /\ UNCHANGED <<failedGen, got>>
        /\ answer'[w] \in {0, answer[w]} \/ answer'[w] > failedGen[w]
        /\ pc'[w] \notin {"store", "write", "fetch"}
    BY <1>2 DEF CheckLocal, ReadAfterWait
  <2> QED
    BY <2>1, <1>b DEF AnswersAreNewer
<1>3. ASSUME NEW w \in Workers, PeekCache(w) \/ LockCoordinator(w)
      PROVE  AnswersAreNewer'
  <2>1. /\ \A v \in Workers \ {w} : pc'[v] = pc[v] /\ answer'[v] = answer[v] /\ got'[v] = got[v]
        /\ UNCHANGED failedGen
        /\ answer'[w] = answer[w] \/ answer'[w] > failedGen[w]
        /\ pc'[w] \notin {"store", "write", "fetch"}
    BY <1>3, GotFacts DEF PeekCache, LockCoordinator
  <2> QED
    BY <2>1, <1>b DEF AnswersAreNewer
<1>4. ASSUME NEW w \in Workers, EarlyAnswered(w) \/ LockedAnswered(w)
      PROVE  AnswersAreNewer'
  <2>1. /\ \A v \in Workers \ {w} : pc'[v] = pc[v] /\ answer'[v] = answer[v] /\ got'[v] = got[v]
        /\ UNCHANGED failedGen
        /\ answer'[w] = answer[w] \/ answer'[w] > failedGen[w]
        /\ pc'[w] \in {"store", "write"} => got'[w] > failedGen[w]
        /\ pc'[w] # "fetch"
    BY <1>4, GotFacts DEF EarlyAnswered, LockedAnswered
  <2> QED
    BY <2>1, <1>b DEF AnswersAreNewer
<1>5. ASSUME NEW w \in Workers, StoreEarly(w) \/ WriteRefreshed(w)
      PROVE  AnswersAreNewer'
  <2>1. /\ \A v \in Workers \ {w} : pc'[v] = pc[v] /\ answer'[v] = answer[v]
        /\ UNCHANGED <<failedGen, got>>
        /\ answer'[w] = got[w] /\ got[w] > failedGen[w]
        /\ pc'[w] \notin {"store", "write", "fetch"}
    BY <1>5 DEF StoreEarly, WriteRefreshed, AnswersAreNewer
  <2> QED
    BY <2>1, <1>b
<1>6. ASSUME NEW w \in Workers, Invalidate(w)
      PROVE  AnswersAreNewer'
  <2>1. Behind(w)'
    <3>1. CASE Invalidates(w)
      BY <1>6, <3>1 DEF Invalidate, Invalidates, Reject, Behind
    <3>2. CASE ~Invalidates(w)
      BY <1>6, <3>2 DEF Invalidate, Invalidates, Behind, Inv, CacheIsLatest
    <3> QED
      BY <3>1, <3>2
  <2>2. /\ \A v \in Workers \ {w} : pc'[v] = pc[v]
        /\ pc'[w] = "fetch" /\ UNCHANGED <<failedGen, answer, got>>
    BY <1>6 DEF Invalidate, Reject
  <2> QED
    BY <2>1, <2>2, <1>b DEF AnswersAreNewer
<1>7. ASSUME NEW w \in Workers, BeginFetch(w)
      PROVE  AnswersAreNewer'
  <2>1. /\ \A v \in Workers \ {w} : got'[v] = got[v]
        /\ pc'[w] = "fetch" /\ pc[w] = "fetch" /\ UNCHANGED <<pc, failedGen, answer>>
    BY <1>7, GotFacts DEF BeginFetch
  <2>2. Behind(w)'
    BY <1>a, <2>1 DEF AnswersAreNewer
  <2> QED
    BY <2>1, <2>2, <1>b DEF AnswersAreNewer
<1>8. ASSUME NEW w \in Workers, FetchAnswered(w)
      PROVE  AnswersAreNewer'
  <2>1. /\ \A v \in Workers \ {w} : pc'[v] = pc[v] /\ answer'[v] = answer[v] /\ got'[v] = got[v]
        /\ UNCHANGED failedGen /\ got'[w] \in {0, current}
        /\ answer'[w] \in {0, answer[w]}
        /\ pc[w] = "fetch"
        /\ \/ pc'[w] = "finish"
           \/ pc'[w] = "write" /\ got'[w] # 0
    BY <1>8, GotFacts DEF FetchAnswered
  <2>2. current # 0 => current > failedGen[w]
    BY <2>1 DEF AnswersAreNewer, Behind, Inv, ServiceInv
  <2> QED
    BY <2>1, <2>2, <1>b DEF AnswersAreNewer
<1>9. ASSUME NEW g \in Groups,
             \/ FirstCreds(g) \/ RetryCreds(g) \/ TakeTurn(g) \/ LeaveQueue(g) \/ FirstFails(g)
             \/ RetryEnds(g) \/ GroupEnds(g) \/ ThrottleEnds(g) \/ HeadStartOver(g)
      PROVE  AnswersAreNewer'
  <2>1. /\ UNCHANGED <<failedGen, answer, got, current, dead>>
        /\ \A v \in Workers : pc'[v] = pc[v] \/ pc'[v] = "ready"
    BY <1>9 DEF FirstCreds, RetryCreds, StartWorkers, TakeTurn, LeaveQueue, FirstFails,
       RetryEnds, GroupEnds, ThrottleEnds, HeadStartOver
  <2> QED
    BY <2>1, <1>a DEF AnswersAreNewer
<1>10. CASE CachePublishes
  <2>1. UNCHANGED <<failedGen, answer, got, pc>>
    BY <1>10 DEF CachePublishes, PublishNext
  <2> QED
    BY <2>1, <1>a DEF AnswersAreNewer
<1>11. CASE Stop \/ Finished \/ UNCHANGED vars
  BY <1>11 DEF Stop, Finished, vars, AnswersAreNewer, Behind
<1> QED
  BY <1>1, <1>2, <1>3, <1>4, <1>5, <1>6, <1>7, <1>8, <1>9, <1>10, <1>11
  DEF Next, RefreshStep, GroupStep

\* The cascade.
LEMMA CascadeStep == Inv /\ [Next]_vars => CascadeInTurn'
<1> SUFFICES ASSUME Inv, [Next]_vars PROVE CascadeInTurn'
  OBVIOUS
<1>0. /\ phase \in [Groups -> Phases] /\ signalled \subseteq Groups /\ headStart \subseteq Groups
      /\ \A g \in Groups : g \in Nat /\ \A k \in 1..(g - 1) : k \in Groups
      /\ stopped \in BOOLEAN /\ CascadeInTurn
  BY GroupAssumption DEF Inv, TypeOK, Groups
<1> USE <1>0 DEF CascadeInTurn, Passed, Release, cascadeVars, coordVars, groupVars
<1>1. ASSUME NEW g \in Groups, TakeTurn(g)
      PROVE  CascadeInTurn'
  <2>1. ~stopped => \A k \in 1..(g - 1) : Passed(k)
    <3>1. CASE g = 1
      BY <3>1
    <3>2. CASE g - 1 \in signalled
      <4>1. g - 1 \in Groups /\ Passed(g - 1)
        BY <3>2
      <4>2. ~stopped => \A k \in 1..((g - 1) - 1) : Passed(k)
        BY <4>1
      <4>3. \A k \in 1..(g - 1) : k = g - 1 \/ k \in 1..((g - 1) - 1)
        OBVIOUS
      <4> QED
        BY <4>1, <4>2, <4>3
    <3> QED
      BY <1>1, <3>1, <3>2 DEF TakeTurn
  <2>2. /\ phase[g] = "queued" /\ phase' = [phase EXCEPT ![g] = "asking"]
        /\ UNCHANGED <<signalled, headStart, stopped>>
    BY <1>1 DEF TakeTurn
  <2>3. \A h \in signalled \cup headStart : Passed(h)'
    BY <2>2
  <2>4. ASSUME ~stopped, NEW h \in Groups, phase'[h] # "queued", NEW k \in 1..(h - 1)
        PROVE  Passed(k)'
    <3>1. k # g
      <4>1. CASE h = g
        BY <4>1
      <4>2. CASE h # g
        BY <2>2, <2>4, <4>2
      <4> QED
        BY <4>1, <4>2
    <3>2. Passed(k)
      BY <2>1, <2>2, <2>4
    <3> QED
      BY <2>2, <3>1, <3>2
  <2> QED
    BY <2>2, <2>3, <2>4
<1>2. ASSUME NEW g \in Groups, FirstFails(g) \/ RetryEnds(g) \/ GroupEnds(g) \/ LeaveQueue(g)
      PROVE  CascadeInTurn'
  <2>1. /\ \E p \in {"ended", "retrying"} : phase' = [phase EXCEPT ![g] = p]
        /\ signalled' \subseteq signalled \cup {g} /\ UNCHANGED <<headStart, stopped>>
        /\ phase[g] # "queued" \/ stopped
    BY <1>2 DEF FirstFails, RetryEnds, GroupEnds, LeaveQueue
  <2> QED
    BY <2>1
<1>3. ASSUME NEW g \in Groups, FirstCreds(g) \/ RetryCreds(g)
      PROVE  CascadeInTurn'
  <2>1. /\ phase' = [phase EXCEPT ![g] = "up"]
        /\ headStart' \subseteq headStart \cup {g} /\ UNCHANGED <<signalled, stopped>>
        /\ phase[g] # "queued"
    BY <1>3 DEF FirstCreds, RetryCreds, StartWorkers
  <2> QED
    BY <2>1
<1>4. ASSUME NEW g \in Groups, HeadStartOver(g)
      PROVE  CascadeInTurn'
  BY <1>4 DEF HeadStartOver
<1>5. ASSUME NEW g \in Groups, ThrottleEnds(g)
      PROVE  CascadeInTurn'
  BY <1>5 DEF ThrottleEnds
<1>6. ASSUME NEW w \in Workers,
             \/ Snapshot(w) \/ SessionEnds(w) \/ SessionRejected(w) \/ WorkerExits(w)
             \/ RefreshStep(w) \/ LeaveWait(w)
      PROVE  CascadeInTurn'
  <2>1. UNCHANGED <<phase, signalled, headStart, stopped>>
    BY <1>6 DEF Snapshot, SessionEnds, SessionRejected, WorkerExits, LeaveWait, RefreshStep,
       CheckLocal, PeekCache, EarlyAnswered, StoreEarly, LockCoordinator, LockedAnswered,
       JoinRefresh, Throttled, RegisterRefresh, Invalidate, BeginFetch, FetchAnswered,
       WriteRefreshed, FinishRefresh, ReadAfterWait
  <2> QED
    BY <2>1
<1>7. CASE CachePublishes \/ Stop \/ Finished \/ UNCHANGED vars
  BY <1>7 DEF CachePublishes, Stop, Finished, vars
<1> QED
  BY <1>1, <1>2, <1>3, <1>4, <1>5, <1>6, <1>7 DEF Next, GroupStep

-----------------------------------------------------------------------------
\* The invariant holds in every reachable state.
THEOREM InvCorrect == Spec => []Inv
<1>1. ASSUME Inv, [Next]_vars PROVE Inv'
  BY <1>1, GrowthFacts, TypeStep, CredsStep, SharingStep, AnswersStep, CascadeStep DEF Inv
<1> QED
  BY <1>1, InitInv, PTL DEF Spec

\* Types; a group whose workers run has credentials that were really issued.
THEOREM TypeCorrect == Spec => []TypeOK
<1>1. Inv => TypeOK
  BY DEF Inv
<1> QED
  BY <1>1, InvCorrect, PTL

\* In each group one refresh is under way at most, it is c.activeOp, and those
\* who wait do so for it.
THEOREM SharingCorrect == Spec => []RefreshIsShared
<1>1. ASSUME Inv PROVE RefreshIsShared
  <2>1. \A w \in Workers : GroupOf[w] \in Groups
    BY GroupAssumption DEF Workers, Groups
  <2> QED
    BY <1>1, <2>1 DEF Inv, OpIsOwned, WaitsForActive, RefreshIsShared
<1> QED
  BY <1>1, InvCorrect, PTL

\* RefreshCreds returns true only on the strength of a generation newer than
\* the rejected one, on all of its five paths.
THEOREM RefreshCorrect == Spec => []RefreshedIsNewer
<1>1. Inv => RefreshedIsNewer
  BY DEF Inv, AnswersAreNewer, RefreshedIsNewer
<1> QED
  BY <1>1, InvCorrect, PTL

\* The groups use the cache of a link as its promise says, so that what they
\* are given is newer than all that was invalidated when they asked.
THEOREM GroupsAreFresh == Spec => []AnswersAreFresh
<1>1. Spec => ServiceSpec
  BY StepOfService, PTL DEF Spec, Init, ServiceSpec
<1> QED
  BY <1>1, FreshnessCorrect, PTL

\* The credentials in the cache are cleared only when a TURN server has
\* rejected that very generation.
THEOREM ClearingCorrect == Spec => OnlyRejectedIsCleared
<1>1. ASSUME Inv, [Next]_vars, current # 0, current' = 0
      PROVE  current \in rejected
  <2>1. PICK w \in Workers : Invalidate(w) /\ Invalidates(w)
    <3>1. current' # current
      BY <1>1
    <3>2. ASSUME NEW w \in Workers,
                 \/ Snapshot(w) \/ SessionEnds(w) \/ SessionRejected(w) \/ WorkerExits(w)
                 \/ RefreshStep(w) \/ LeaveWait(w)
          PROVE  UNCHANGED current \/ (Invalidate(w) /\ Invalidates(w))
      BY <3>2 DEF Snapshot, SessionEnds, SessionRejected, WorkerExits, LeaveWait, RefreshStep,
         CheckLocal, PeekCache, EarlyAnswered, StoreEarly, LockCoordinator, LockedAnswered,
         JoinRefresh, Throttled, RegisterRefresh, Invalidate, BeginFetch, FetchAnswered,
         WriteRefreshed, FinishRefresh, ReadAfterWait, Begin, Answer, AnswerWith, serviceVars
    <3>3. ASSUME NEW g \in Groups,
                 GroupStep(g) \/ RetryCreds(g) \/ RetryEnds(g) \/ ThrottleEnds(g)
          PROVE  UNCHANGED current
      BY <3>3 DEF GroupStep, TakeTurn, LeaveQueue, FirstCreds, FirstFails, HeadStartOver,
         GroupEnds, RetryCreds, RetryEnds, ThrottleEnds, StartWorkers, serviceVars
    <3>4. ~CachePublishes
      BY <1>1 DEF CachePublishes, PublishNext, Inv, TypeOK
    <3>5. ~(Stop \/ Finished \/ UNCHANGED vars)
      BY <3>1 DEF Stop, Finished, vars, serviceVars
    <3> QED
      BY <1>1, <3>1, <3>2, <3>3, <3>4, <3>5 DEF Next
  <2> QED
    BY <1>1, <2>1 DEF Invalidate, Invalidates, Inv, RefreshIsForRejected, InRefresh
<1>2. Inv /\ [Next]_vars => [(current # 0 /\ current' = 0) => current \in rejected]_vars
  BY <1>1
<1> QED
  BY <1>2, InvCorrect, PTL DEF Spec, OnlyRejectedIsCleared

\* Until the run is stopped, one group at a time asks for its first
\* credentials: the part of CascadeGoesOn that is not liveness.
THEOREM CascadeCorrect == Spec => []OneAsksFirst
<1>1. ASSUME Inv, ~stopped, NEW g \in Groups, NEW h \in Groups, g < h,
             phase[g] = "asking", phase[h] = "asking"
      PROVE  FALSE
  <2>1. g \in 1..(h - 1)
    BY <1>1, GroupAssumption DEF Groups
  <2> QED
    BY <1>1, <2>1 DEF Inv, CascadeInTurn, Passed
<1>2. \A g, h \in Groups : g < h \/ h < g \/ g = h
  BY GroupAssumption DEF Groups
<1>3. Inv => OneAsksFirst
  BY <1>1, <1>2 DEF OneAsksFirst
<1> QED
  BY <1>3, InvCorrect, PTL
=============================================================================
