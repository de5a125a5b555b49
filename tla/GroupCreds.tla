----------------------------- MODULE GroupCreds -----------------------------
(***************************************************************************)
(* WorkerGroup and GroupCredCoordinator, go_client/group.go.  The groups   *)
(* of a run start in a cascade: each one waits for a signal of the one     *)
(* before it, asks for its first credentials and starts its workers.  The  *)
(* workers of a group share one set of TURN credentials, and a worker      *)
(* whose session was rejected (401/441) calls RefreshCreds with the        *)
(* generation it had used.  Groups of one VK link share the credential     *)
(* cache of that link, which is here its promise, CredsService; CredsCache *)
(* shows that the cache keeps it.                                          *)
(*                                                                         *)
(* c.mu is held over a call of GetCredsWithGen, so it is a variable;       *)
(* credsMu and the cache's mutex are held for one step at a time.          *)
(***************************************************************************)
EXTENDS CredsService, FiniteSets

CONSTANTS
    NumGroups,   \* numGroups of a run
    GroupOf,     \* the group of a worker; the workers are the Callers
    Watched,     \* the worker whose refreshes RefreshReturns is about
    Nobody,      \* c.mu is free, c.activeOp is nil
    MaxIssued    \* bound: generations the link ever hands out

ASSUME GroupAssumption ==
    /\ NumGroups \in Nat \ {0}
    /\ GroupOf \in [Callers -> 1..NumGroups]
    /\ Nobody \notin Callers /\ Watched \in Callers
    /\ MaxIssued \in Nat \ {0}

VARIABLES
    phase,       \* where WorkerGroup is in each group
    signalled,   \* groups whose signalReady is closed
    headStart,   \* groups whose goroutine waits 2 s to close it
    groupGen,    \* c.creds.Generation of each group
    mu,          \* the holder of c.mu
    activeOp,    \* c.activeOp: the worker that registered it
    recent,      \* groups whose last network refresh began under 15 s ago
    stopped,     \* the context of the run is cancelled
    pc,          \* where each worker is
    failedGen,   \* the generation of the session's snapshot, then of the refresh
    waitingFor,  \* the owner of the operation a worker waits for
    answer,      \* what the last RefreshCreds returned: 0 for false, and for true
                 \* the generation it went by
    rejected     \* history: generations a TURN server has rejected

cascadeVars == <<phase, signalled, headStart>>
coordVars == <<groupGen, mu, activeOp, recent, stopped>>
groupVars == <<cascadeVars, coordVars>>
workerVars == <<pc, failedGen, waitingFor, answer, rejected>>
vars == <<serviceVars, groupVars, workerVars>>

Workers == Callers
Groups == 1..NumGroups

\* queued: waits for waitReady;  asking: in its first GetCredsWithGen;
\* retrying: in the loop after a failure;  up: its workers run;  ended
Phases == {"queued", "asking", "retrying", "up", "ended"}

\* session: between Snapshot and the end of RunSession;  local: at step 1 of
\* RefreshCreds;  peek: at step 2;  early: in GetCredsWithGen of step 2;
\* store: about to write c.creds;  lock: at c.mu.Lock of step 3;  under: in
\* GetCredsWithGen with c.mu held;  decide: holds c.mu, about to look at
\* activeOp;  wait: in the select;  read: the operation it waited for ended;
\* invalidate, fetch, write, finish: the owner of an operation, steps 5 on
InRefresh == {"local", "peek", "early", "store", "lock", "under", "decide", "wait",
              "read", "invalidate", "fetch", "write", "finish"}
Owning == {"invalidate", "fetch", "write", "finish"}
Locations == {"unborn", "ready", "session", "gone"} \cup InRefresh

Init ==
    /\ ServiceInit
    /\ phase = [g \in Groups |-> "queued"]
    /\ signalled = {}
    /\ headStart = {}
    /\ groupGen = [g \in Groups |-> 0]
    /\ mu = [g \in Groups |-> Nobody]
    /\ activeOp = [g \in Groups |-> Nobody]
    /\ recent = {}
    /\ stopped = FALSE
    /\ pc = [w \in Workers |-> "unborn"]
    /\ failedGen = [w \in Workers |-> 0]
    /\ waitingFor = [w \in Workers |-> Nobody]
    /\ answer = [w \in Workers |-> 0]
    /\ rejected = {}

-----------------------------------------------------------------------------
Goto(w, l) == pc' = [pc EXCEPT ![w] = l]

\* RefreshCreds returns true on the strength of generation n, or false.
ReturnTrue(w, n) ==
    /\ Goto(w, "ready")
    /\ answer' = [answer EXCEPT ![w] = n]

ReturnFalse(w) ==
    /\ Goto(w, "ready")
    /\ answer' = [answer EXCEPT ![w] = 0]

\* releaseSignalReady; the last group has nobody to tell.
Release(g) == signalled' = IF g < NumGroups THEN signalled \cup {g} ELSE signalled

\* The group before has given its signal.  (pauseFlag is never set on iOS.)
TakeTurn(g) ==
    /\ phase[g] = "queued"
    /\ g = 1 \/ g - 1 \in signalled
    /\ phase' = [phase EXCEPT ![g] = "asking"]
    /\ UNCHANGED <<serviceVars, signalled, headStart, coordVars, workerVars>>

LeaveQueue(g) ==
    /\ phase[g] = "queued" /\ g > 1 /\ stopped
    /\ phase' = [phase EXCEPT ![g] = "ended"]
    /\ Release(g)
    /\ UNCHANGED <<serviceVars, headStart, coordVars, workerVars>>

\* The group gets the credentials the cache holds and starts its workers.
StartWorkers(g) ==
    /\ current # 0
    /\ phase' = [phase EXCEPT ![g] = "up"]
    /\ groupGen' = [groupGen EXCEPT ![g] = current]
    /\ pc' = [w \in Workers |-> IF GroupOf[w] = g THEN "ready" ELSE pc[w]]
    /\ UNCHANGED <<serviceVars, mu, activeOp, recent, stopped, failedGen, waitingFor, answer,
                   rejected>>

\* The first GetCredsWithGen succeeds: the next group follows after 2 s.
FirstCreds(g) ==
    /\ phase[g] = "asking"
    /\ StartWorkers(g)
    /\ headStart' = IF g < NumGroups THEN headStart \cup {g} ELSE headStart
    /\ UNCHANGED signalled

\* A variant: a group that retries keeps the next one waiting.
FirstFailsSilently(g) ==
    /\ phase[g] = "asking"
    /\ \/ phase' = [phase EXCEPT ![g] = "ended"] /\ Release(g)
       \/ phase' = [phase EXCEPT ![g] = "retrying"] /\ UNCHANGED signalled
    /\ UNCHANGED <<serviceVars, headStart, coordVars, workerVars>>

\* It fails: for good when the call is dead, else to be tried again; in both
\* cases the next group follows at once.
FirstFails(g) ==
    /\ phase[g] = "asking"
    /\ \E p \in {"ended", "retrying"} : phase' = [phase EXCEPT ![g] = p]
    /\ Release(g)
    /\ UNCHANGED <<serviceVars, headStart, coordVars, workerVars>>

RetryCreds(g) ==
    /\ phase[g] = "retrying"
    /\ StartWorkers(g)
    /\ UNCHANGED <<signalled, headStart>>

\* The call is dead, or the context is done.
RetryEnds(g) ==
    /\ phase[g] = "retrying"
    /\ phase' = [phase EXCEPT ![g] = "ended"]
    /\ UNCHANGED <<serviceVars, signalled, headStart, coordVars, workerVars>>

\* The goroutine that gives the signal, or leaves it to the deferred call.
HeadStartOver(g) ==
    /\ g \in headStart
    /\ headStart' = headStart \ {g}
    /\ \/ Release(g)
       \/ stopped /\ UNCHANGED signalled
    /\ UNCHANGED <<serviceVars, phase, coordVars, workerVars>>

\* wg.Wait is over, and the deferred call gives the signal if the head start has
\* not.  (An instance may leave out the workers of a group; such a group ends with
\* the run.)
GroupEnds(g) ==
    /\ phase[g] = "up"
    /\ stopped \/ \E w \in Workers : GroupOf[w] = g
    /\ \A w \in Workers : GroupOf[w] = g => pc[w] = "gone"
    /\ phase' = [phase EXCEPT ![g] = "ended"]
    /\ Release(g)
    /\ UNCHANGED <<serviceVars, headStart, coordVars, workerVars>>

-----------------------------------------------------------------------------
\* The worker's loop: a session is run with a snapshot of the group's
\* credentials ...
Snapshot(w) ==
    /\ pc[w] = "ready"
    /\ ~stopped
    /\ failedGen' = [failedGen EXCEPT ![w] = groupGen[GroupOf[w]]]
    /\ answer' = [answer EXCEPT ![w] = 0]
    /\ Goto(w, "session")
    /\ UNCHANGED <<serviceVars, groupVars, waitingFor, rejected>>

\* ... and ends without a rejection ...
SessionEnds(w) ==
    /\ pc[w] = "session"
    /\ Goto(w, "ready")
    /\ UNCHANGED <<serviceVars, groupVars, failedGen, waitingFor, answer, rejected>>

\* ... or with one, and RefreshCreds is called.
SessionRejected(w) ==
    /\ pc[w] = "session"
    /\ rejected' = rejected \cup {failedGen[w]}
    /\ Goto(w, "local")
    /\ UNCHANGED <<serviceVars, groupVars, failedGen, waitingFor, answer>>

\* The worker returns: the run is stopped, or a session it has run ended with a
\* fatal error (a dead call, FATAL_AUTH) or, looked at after a refresh, "error 29".
WorkerExits(w) ==
    /\ pc[w] \in {"ready", "session"}
    /\ stopped \/ failedGen[w] # 0
    /\ Goto(w, "gone")
    /\ UNCHANGED <<serviceVars, groupVars, failedGen, waitingFor, answer, rejected>>

-----------------------------------------------------------------------------
\* Step 1: the group may have newer credentials already.
CheckLocal(w) ==
    /\ pc[w] = "local"
    /\ \/ /\ groupGen[GroupOf[w]] > failedGen[w]
          /\ ReturnTrue(w, groupGen[GroupOf[w]])
       \/ /\ groupGen[GroupOf[w]] <= failedGen[w]
          /\ Goto(w, "peek")
          /\ UNCHANGED answer
    /\ UNCHANGED <<serviceVars, groupVars, failedGen, waitingFor, rejected>>

\* Credentials in the cache may have expired at any time, so only the
\* generation is decisive.
CacheIsNewer(w) == current > failedGen[w]

\* Step 2: and so may the cache of the link.
PeekCache(w) ==
    /\ pc[w] = "peek"
    /\ \/ /\ CacheIsNewer(w)
          /\ Begin(w)
          /\ Goto(w, "early")
       \/ /\ Goto(w, "lock")
          /\ UNCHANGED serviceVars
    /\ UNCHANGED <<groupVars, failedGen, waitingFor, answer, rejected>>

\* Its GetCredsWithGen returns; err == nil && newGen > failedGen.
EarlyAnswered(w) ==
    /\ pc[w] = "early"
    /\ Answer(w)
    /\ Goto(w, IF got'[w] > failedGen[w] THEN "store" ELSE "lock")
    /\ UNCHANGED <<groupVars, failedGen, waitingFor, answer, rejected>>

\* c.creds is replaced whatever it has become meanwhile.
StoreEarly(w) ==
    /\ pc[w] = "store"
    /\ groupGen' = [groupGen EXCEPT ![GroupOf[w]] = got[w]]
    /\ ReturnTrue(w, got[w])
    /\ UNCHANGED <<serviceVars, cascadeVars, mu, activeOp, recent, stopped, failedGen, waitingFor,
                   rejected>>

\* Step 3: c.mu, and both checks again.
LockCoordinator(w) ==
    /\ pc[w] = "lock"
    /\ mu[GroupOf[w]] = Nobody
    /\ \/ /\ groupGen[GroupOf[w]] > failedGen[w]
          /\ ReturnTrue(w, groupGen[GroupOf[w]])
          /\ UNCHANGED <<serviceVars, mu>>
       \/ /\ groupGen[GroupOf[w]] <= failedGen[w]
          /\ mu' = [mu EXCEPT ![GroupOf[w]] = w]
          /\ \/ /\ CacheIsNewer(w)
                /\ Begin(w)
                /\ Goto(w, "under")
             \/ /\ Goto(w, "decide")
                /\ UNCHANGED serviceVars
          /\ UNCHANGED answer
    /\ UNCHANGED <<cascadeVars, groupGen, activeOp, recent, stopped, failedGen, waitingFor, rejected>>

LockedAnswered(w) ==
    /\ pc[w] = "under"
    /\ Answer(w)
    /\ \/ /\ got'[w] > failedGen[w]
          /\ groupGen' = [groupGen EXCEPT ![GroupOf[w]] = got'[w]]
          /\ mu' = [mu EXCEPT ![GroupOf[w]] = Nobody]
          /\ ReturnTrue(w, got'[w])
       \/ /\ got'[w] <= failedGen[w]
          /\ Goto(w, "decide")
          /\ UNCHANGED <<groupGen, mu, answer>>
    /\ UNCHANGED <<cascadeVars, activeOp, recent, stopped, failedGen, waitingFor, rejected>>

\* Somebody of the group is refreshing already: wait for it.
JoinRefresh(w) ==
    /\ pc[w] = "decide"
    /\ activeOp[GroupOf[w]] # Nobody
    /\ waitingFor' = [waitingFor EXCEPT ![w] = activeOp[GroupOf[w]]]
    /\ mu' = [mu EXCEPT ![GroupOf[w]] = Nobody]
    /\ Goto(w, "wait")
    /\ UNCHANGED <<serviceVars, cascadeVars, groupGen, activeOp, recent, stopped, failedGen,
                   answer, rejected>>

MayRegister(w) == activeOp[GroupOf[w]] = Nobody

\* Step 4: the last network refresh was too recent.
Throttled(w) ==
    /\ pc[w] = "decide"
    /\ MayRegister(w)
    /\ GroupOf[w] \in recent
    /\ mu' = [mu EXCEPT ![GroupOf[w]] = Nobody]
    /\ ReturnFalse(w)
    /\ UNCHANGED <<serviceVars, cascadeVars, groupGen, activeOp, recent, stopped, failedGen, waitingFor,
                   rejected>>

\* Step 5: the worker registers an operation of its own ...
RegisterRefresh(w) ==
    /\ pc[w] = "decide"
    /\ MayRegister(w)
    /\ GroupOf[w] \notin recent
    /\ recent' = recent \cup {GroupOf[w]}
    /\ activeOp' = [activeOp EXCEPT ![GroupOf[w]] = w]
    /\ mu' = [mu EXCEPT ![GroupOf[w]] = Nobody]
    /\ Goto(w, "invalidate")
    /\ UNCHANGED <<serviceVars, cascadeVars, groupGen, stopped, failedGen, waitingFor, answer,
                   rejected>>

InvalidateAlways(w) == current # 0

InvalidatesNothing(w) == FALSE

\* InvalidateLinkCacheIfGen(c.hash, failedGen) clears that generation only.
Invalidates(w) == current = failedGen[w]

Invalidate(w) ==
    /\ pc[w] = "invalidate"
    /\ \/ Invalidates(w) /\ Reject
       \/ ~Invalidates(w) /\ UNCHANGED serviceVars
    /\ Goto(w, "fetch")
    /\ UNCHANGED <<groupVars, failedGen, waitingFor, answer, rejected>>

\* ... calls GetCredsWithGen ...
BeginFetch(w) ==
    /\ pc[w] = "fetch"
    /\ w \notin open
    /\ Begin(w)
    /\ UNCHANGED <<groupVars, workerVars>>

\* ... whose error makes the refresh fail ...
FetchAnswered(w) ==
    /\ pc[w] = "fetch"
    /\ w \in open
    /\ Answer(w)
    /\ \/ /\ got'[w] # 0
          /\ Goto(w, "write")
          /\ UNCHANGED answer
       \/ /\ got'[w] = 0
          /\ Goto(w, "finish")
          /\ answer' = [answer EXCEPT ![w] = 0]
    /\ UNCHANGED <<groupVars, failedGen, waitingFor, rejected>>

\* ... and whose result becomes the group's, without another look at failedGen.
WriteRefreshed(w) ==
    /\ pc[w] = "write"
    /\ groupGen' = [groupGen EXCEPT ![GroupOf[w]] = got[w]]
    /\ answer' = [answer EXCEPT ![w] = got[w]]
    /\ Goto(w, "finish")
    /\ UNCHANGED <<serviceVars, cascadeVars, mu, activeOp, recent, stopped, failedGen, waitingFor,
                   rejected>>

FinishWithoutClose(w) ==
    /\ pc[w] = "finish"
    /\ mu[GroupOf[w]] = Nobody
    /\ activeOp' = [activeOp EXCEPT ![GroupOf[w]] = IF @ = w THEN Nobody ELSE @]
    /\ pc' = [pc EXCEPT ![w] = "ready"]
    /\ UNCHANGED <<serviceVars, cascadeVars, groupGen, mu, recent, stopped, failedGen, waitingFor,
                   answer, rejected>>

\* The deferred end: activeOp is cleared and close(op.done) wakes the waiters.
FinishRefresh(w) ==
    /\ pc[w] = "finish"
    /\ mu[GroupOf[w]] = Nobody
    /\ activeOp' = [activeOp EXCEPT ![GroupOf[w]] = IF @ = w THEN Nobody ELSE @]
    /\ pc' = [v \in Workers |->
                 IF v = w THEN "ready"
                 ELSE IF pc[v] = "wait" /\ waitingFor[v] = w THEN "read" ELSE pc[v]]
    /\ UNCHANGED <<serviceVars, cascadeVars, groupGen, mu, recent, stopped, failedGen, waitingFor,
                   answer, rejected>>

\* A variant: a waiter whose operation failed begins anew.
ReadAfterWaitRetries(w) ==
    /\ pc[w] = "read"
    /\ waitingFor' = [waitingFor EXCEPT ![w] = Nobody]
    /\ \/ groupGen[GroupOf[w]] > failedGen[w] /\ ReturnTrue(w, groupGen[GroupOf[w]])
       \/ groupGen[GroupOf[w]] <= failedGen[w] /\ Goto(w, "local") /\ UNCHANGED answer
    /\ UNCHANGED <<serviceVars, groupVars, failedGen, rejected>>

\* A waiter looks at what the operation has left.
ReadAfterWait(w) ==
    /\ pc[w] = "read"
    /\ waitingFor' = [waitingFor EXCEPT ![w] = Nobody]
    /\ \/ groupGen[GroupOf[w]] > failedGen[w] /\ ReturnTrue(w, groupGen[GroupOf[w]])
       \/ groupGen[GroupOf[w]] <= failedGen[w] /\ ReturnFalse(w)
    /\ UNCHANGED <<serviceVars, groupVars, failedGen, rejected>>

LeaveWait(w) ==
    /\ pc[w] = "wait"
    /\ stopped
    /\ waitingFor' = [waitingFor EXCEPT ![w] = Nobody]
    /\ ReturnFalse(w)
    /\ UNCHANGED <<serviceVars, groupVars, failedGen, rejected>>

-----------------------------------------------------------------------------
\* 15 s pass.
ThrottleEnds(g) ==
    /\ g \in recent
    /\ recent' = recent \ {g}
    /\ UNCHANGED <<serviceVars, cascadeVars, groupGen, mu, activeOp, stopped, workerVars>>

\* A fetch of the cache, for these groups or for an abandoned call, succeeds.
CachePublishes ==
    /\ issued < MaxIssued
    /\ PublishNext
    /\ UNCHANGED <<groupVars, workerVars>>

Stop ==
    /\ ~stopped
    /\ stopped' = TRUE
    /\ UNCHANGED <<serviceVars, cascadeVars, groupGen, mu, activeOp, recent, workerVars>>

\* All groups have ended.
Finished ==
    /\ \A g \in Groups : phase[g] = "ended"
    /\ UNCHANGED vars

RefreshStep(w) ==
    \/ CheckLocal(w) \/ PeekCache(w) \/ EarlyAnswered(w) \/ StoreEarly(w)
    \/ LockCoordinator(w) \/ LockedAnswered(w) \/ JoinRefresh(w) \/ Throttled(w)
    \/ RegisterRefresh(w) \/ Invalidate(w) \/ BeginFetch(w) \/ FetchAnswered(w)
    \/ WriteRefreshed(w) \/ FinishRefresh(w) \/ ReadAfterWait(w)

GroupStep(g) ==
    \/ TakeTurn(g) \/ LeaveQueue(g) \/ FirstCreds(g) \/ FirstFails(g)
    \/ HeadStartOver(g) \/ GroupEnds(g)

Next ==
    \/ \E w \in Workers :
          \/ Snapshot(w) \/ SessionEnds(w) \/ SessionRejected(w) \/ WorkerExits(w)
          \/ RefreshStep(w) \/ LeaveWait(w)
    \/ \E g \in Groups : GroupStep(g) \/ RetryCreds(g) \/ RetryEnds(g) \/ ThrottleEnds(g)
    \/ CachePublishes
    \/ Stop
    \/ Finished

Spec == Init /\ [][Next]_vars

\* Goroutines run on, c.mu is granted to those who wait for it (the Go mutex
\* hands over to a waiter after 1 ms), and GetCredsWithGen returns: this is
\* EveryCallReturns of CredsCache.
FairSpec ==
    /\ Spec
    /\ \A w \in Workers : SF_vars(RefreshStep(w))
    /\ \A g \in Groups : WF_vars(GroupStep(g))

-----------------------------------------------------------------------------
\* Types of WorkerGroup and GroupCredCoordinator: a group whose workers run has
\* credentials of a generation that was really issued, never those of a failed
\* GetCredsWithGen.
TypeOK ==
    /\ issued \in 0..MaxIssued
    /\ phase \in [Groups -> Phases]
    /\ signalled \subseteq Groups /\ headStart \subseteq Groups
    /\ current \in 0..issued /\ dead \in 0..issued
    /\ open \subseteq Workers
    /\ floor \in [Workers -> 0..issued]
    /\ got \in [Workers -> 0..issued]
    /\ groupGen \in [Groups -> 0..issued]
    /\ \A g \in Groups : phase[g] = "up" => groupGen[g] # 0
    /\ mu \in [Groups -> Workers \cup {Nobody}]
    /\ activeOp \in [Groups -> Workers \cup {Nobody}]
    /\ recent \subseteq Groups
    /\ stopped \in BOOLEAN
    /\ pc \in [Workers -> Locations]
    /\ failedGen \in [Workers -> 0..issued]
    /\ waitingFor \in [Workers -> Workers \cup {Nobody}]
    /\ answer \in [Workers -> 0..issued]
    /\ rejected \subseteq 1..issued

\* One refresh at a time in a group: c.activeOp is the one under way, and the
\* others wait for that one, never for an operation that has ended.
RefreshIsShared ==
    \A w \in Workers :
        /\ pc[w] \in Owning <=> activeOp[GroupOf[w]] = w
        /\ pc[w] = "wait" => waitingFor[w] = activeOp[GroupOf[w]] /\ waitingFor[w] # Nobody

\* When RefreshCreds says that the group has good credentials, it goes by a
\* generation newer than the rejected one, also on the path that takes the
\* answer of the cache without comparing it.
RefreshedIsNewer ==
    \A w \in Workers : answer[w] # 0 => answer[w] > failedGen[w]

\* Only a generation that a TURN server has rejected is cleared from the cache
\* of the link: a late report about an old one does not cost the other groups
\* their good credentials.
OnlyRejectedIsCleared ==
    [][(current # 0 /\ current' = 0) => current \in rejected]_vars

\* The groups of a run that is not stopped ask VK for their first credentials one
\* after the other.  (When it is stopped, a group that leaves the queue gives its
\* signal too, out of turn.)
OneAsksFirst ==
    ~stopped => \A g, h \in Groups : phase[g] = "asking" /\ phase[h] = "asking" => g = h

\* The groups come one after the other, and every group gets its turn or leaves
\* when the run is stopped: no group that fails, retries or ends breaks the
\* cascade (group.go:97).
CascadeGoesOn ==
    /\ []OneAsksFirst
    /\ <>(\A g \in Groups : phase[g] # "queued")

\* Every RefreshCreds of the watched worker returns; it is any worker, and the
\* others are no different.
RefreshReturns == pc[Watched] \in InRefresh ~> pc[Watched] \notin InRefresh
=============================================================================
