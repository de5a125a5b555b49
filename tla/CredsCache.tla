----------------------------- MODULE CredsCache -----------------------------
(***************************************************************************)
(* The credential cache of one VK link, go_client/creds.go:                *)
(* getVkCredsCached, runCacheFetch and InvalidateLinkCacheIfGen on one     *)
(* StreamCredentialsCache.  Callers that miss the cache share one fetch    *)
(* (a cacheFetchOp), which is abandoned when its last waiter leaves; a     *)
(* fetch publishes its result only if the revision of the cache is the     *)
(* one it started from.                                                    *)
(*                                                                         *)
(* cache.mutex is held for one step at a time, so it is not a variable.    *)
(* fetchMu is: a caller holds it from its second look at the cache until   *)
(* it has joined or registered a fetch, and publications and invalidations *)
(* (which take cache.mutex only) may fall in between.                      *)
(***************************************************************************)
EXTENDS Integers, FiniteSets

CONSTANTS
    Callers,    \* goroutines that call getVkCredsCached
    Nobody,     \* fetchMu is free
    MaxCalls    \* bound: calls of getVkCredsCached in a behaviour

ASSUME CacheAssumption ==
    /\ IsFiniteSet(Callers)
    /\ Nobody \notin Callers
    /\ MaxCalls \in Nat

VARIABLES
    cached,       \* cache.creds.Generation, 0 when the credentials are cleared
    expired,      \* the newest generation whose ExpiresAt has passed
    generation,   \* cache.generation
    revision,     \* cache.revision
    fetchMu,      \* the holder of fetchMu
    activeFetch,  \* cache.activeFetch, NoOp when nil
    \* the cacheFetchOps, in the order of their creation
    opPc, waiters, startRevision, opGen, opErr,
    opCancelled,  \* operations whose ctx is cancelled
    \* the callers
    pc, callerOp, ctxDone,
    calls,        \* calls begun so far
    \* what a call returned: its error, or "ok" and a generation
    outcome, got,
    \* history: the newest generation invalidated, its value when a call and
    \* when a fetch began, and the generations handed out
    dead, floor, opDead, served

cacheVars == <<cached, expired, generation, revision>>
opVars == <<opPc, waiters, startRevision, opGen, opErr, opCancelled>>
callVars == <<pc, callerOp, ctxDone, calls>>
answerVars == <<outcome, got, served>>
historyVars == <<dead, floor, opDead>>
vars == <<cacheVars, fetchMu, activeFetch, opVars, callVars, answerVars, historyVars>>

-----------------------------------------------------------------------------
Ops == 1..MaxCalls
NoOp == 0

\* fetching: in fetchVkCredsSerialized;  fetched: about to publish;
\* clearing: about to lock fetchMu;      closing: in the deferred calls
Running == {"fetching", "fetched", "clearing"}
OpLocations == {"unused", "closing", "done"} \cup Running

\* entering: missed the cache, wants fetchMu;  deciding: holds fetchMu, missed
\* again;  waiting: in the select;  reading: the fetch succeeded, about to read
\* its result from the cache
CallLocations == {"idle", "entering", "deciding", "waiting", "reading"}

Errors == {"none", "network", "invalidated"}
Outcomes == {"none", "ok", "network", "invalidated", "canceled"}

\* The credentials are there and have not expired.
Valid == cached # 0 /\ cached > expired

Waiters(o) == {c \in Callers : pc[c] = "waiting" /\ callerOp[c] = o}

Init ==
    /\ cached = 0 /\ expired = 0 /\ generation = 0 /\ revision = 0
    /\ fetchMu = Nobody
    /\ activeFetch = NoOp
    /\ opPc = [o \in Ops |-> "unused"]
    /\ waiters = [o \in Ops |-> 0]
    /\ startRevision = [o \in Ops |-> 0]
    /\ opGen = [o \in Ops |-> 0]
    /\ opErr = [o \in Ops |-> "none"]
    /\ opCancelled = {}
    /\ pc = [c \in Callers |-> "idle"]
    /\ callerOp = [c \in Callers |-> NoOp]
    /\ ctxDone = {}
    /\ calls = 0
    /\ outcome = [c \in Callers |-> "none"]
    /\ got = [c \in Callers |-> 0]
    /\ served = {}
    /\ dead = 0
    /\ floor = [c \in Callers |-> 0]
    /\ opDead = [o \in Ops |-> 0]

-----------------------------------------------------------------------------
\* getVkCredsCached returns.
ReturnCreds(c) ==
    /\ pc' = [pc EXCEPT ![c] = "idle"]
    /\ callerOp' = [callerOp EXCEPT ![c] = NoOp]
    /\ ctxDone' = ctxDone \ {c}
    /\ outcome' = [outcome EXCEPT ![c] = "ok"]
    /\ got' = [got EXCEPT ![c] = cached]
    /\ served' = served \cup {cached}

ReturnError(c, e) ==
    /\ pc' = [pc EXCEPT ![c] = "idle"]
    /\ callerOp' = [callerOp EXCEPT ![c] = NoOp]
    /\ ctxDone' = ctxDone \ {c}
    /\ outcome' = [outcome EXCEPT ![c] = e]
    /\ got' = [got EXCEPT ![c] = 0]
    /\ UNCHANGED served

StartCall(c) ==
    /\ pc[c] = "idle"
    /\ calls < MaxCalls
    /\ calls' = calls + 1
    /\ floor' = [floor EXCEPT ![c] = dead]
    /\ UNCHANGED <<cacheVars, fetchMu, activeFetch, opVars, dead, opDead>>

\* The fast read under RLock.
FastHit(c) ==
    /\ StartCall(c)
    /\ Valid
    /\ ReturnCreds(c)

FastMiss(c) ==
    /\ StartCall(c)
    /\ ~Valid
    /\ pc' = [pc EXCEPT ![c] = "entering"]
    /\ outcome' = [outcome EXCEPT ![c] = "none"]
    /\ got' = [got EXCEPT ![c] = 0]
    /\ UNCHANGED <<callerOp, ctxDone, served>>

\* fetchMu.Lock and the second look at the cache.
LockedHit(c) ==
    /\ pc[c] = "entering"
    /\ fetchMu = Nobody
    /\ Valid
    /\ ReturnCreds(c)
    /\ UNCHANGED <<cacheVars, fetchMu, activeFetch, opVars, calls, historyVars>>

LockedMiss(c) ==
    /\ pc[c] = "entering"
    /\ fetchMu = Nobody
    /\ ~Valid
    /\ fetchMu' = c
    /\ pc' = [pc EXCEPT ![c] = "deciding"]
    /\ UNCHANGED <<cacheVars, activeFetch, opVars, callerOp, ctxDone, calls, answerVars,
                   historyVars>>

\* A registered fetch whose context is not cancelled is shared.
Joinable == activeFetch # NoOp /\ activeFetch \notin opCancelled

JoinFetchKeepsLock(c) ==
    /\ pc[c] = "deciding"
    /\ Joinable
    /\ waiters' = [waiters EXCEPT ![activeFetch] = @ + 1]
    /\ callerOp' = [callerOp EXCEPT ![c] = activeFetch]
    /\ pc' = [pc EXCEPT ![c] = "waiting"]
    /\ UNCHANGED <<cacheVars, fetchMu, activeFetch, opPc, startRevision, opGen, opErr,
                   opCancelled, ctxDone, calls, answerVars, historyVars>>

JoinFetch(c) ==
    /\ pc[c] = "deciding"
    /\ Joinable
    /\ waiters' = [waiters EXCEPT ![activeFetch] = @ + 1]
    /\ callerOp' = [callerOp EXCEPT ![c] = activeFetch]
    /\ pc' = [pc EXCEPT ![c] = "waiting"]
    /\ fetchMu' = Nobody
    /\ UNCHANGED <<cacheVars, activeFetch, opPc, startRevision, opGen, opErr, opCancelled,
                   ctxDone, calls, answerVars, historyVars>>

\* Otherwise the caller registers a new one and starts runCacheFetch.
StartFetch(c) ==
    /\ pc[c] = "deciding"
    /\ ~Joinable
    /\ \E o \in Ops :
          /\ opPc[o] = "unused"
          /\ \A p \in Ops : p < o => opPc[p] # "unused"
          /\ opPc' = [opPc EXCEPT ![o] = "fetching"]
          /\ waiters' = [waiters EXCEPT ![o] = 1]
          /\ startRevision' = [startRevision EXCEPT ![o] = revision]
          /\ opDead' = [opDead EXCEPT ![o] = dead]
          /\ activeFetch' = o
          /\ callerOp' = [callerOp EXCEPT ![c] = o]
    /\ pc' = [pc EXCEPT ![c] = "waiting"]
    /\ fetchMu' = Nobody
    /\ UNCHANGED <<cacheVars, opGen, opErr, opCancelled, ctxDone, calls, answerVars,
                   dead, floor>>

-----------------------------------------------------------------------------
\* fetchVkCredsSerialized returns credentials, also when op.ctx has been
\* cancelled meanwhile ...
FetchSucceeds(o) ==
    /\ opPc[o] = "fetching"
    /\ opPc' = [opPc EXCEPT ![o] = "fetched"]
    /\ UNCHANGED <<cacheVars, fetchMu, activeFetch, waiters, startRevision, opGen, opErr,
                   opCancelled, callVars, answerVars, historyVars>>

\* ... or an error, which op.err records.
FetchFails(o) ==
    /\ opPc[o] = "fetching"
    /\ opPc' = [opPc EXCEPT ![o] = "clearing"]
    /\ opErr' = [opErr EXCEPT ![o] = "network"]
    /\ UNCHANGED <<cacheVars, fetchMu, activeFetch, waiters, startRevision, opGen,
                   opCancelled, callVars, answerVars, historyVars>>

RevisionIgnored(o) == TRUE

RevisionUnchanged(o) == revision = startRevision[o]

\* The result is published under cache.mutex, as the next generation ...
Publish(o) ==
    /\ opPc[o] = "fetched"
    /\ RevisionUnchanged(o)
    /\ generation' = generation + 1
    /\ revision' = revision + 1
    /\ cached' = generation + 1
    /\ opGen' = [opGen EXCEPT ![o] = generation + 1]
    /\ opPc' = [opPc EXCEPT ![o] = "clearing"]
    /\ UNCHANGED <<expired, fetchMu, activeFetch, waiters, startRevision, opErr,
                   opCancelled, callVars, answerVars, historyVars>>

\* ... or dropped, because the cache has changed since the fetch began.
DropResult(o) ==
    /\ opPc[o] = "fetched"
    /\ ~RevisionUnchanged(o)
    /\ opErr' = [opErr EXCEPT ![o] = "invalidated"]
    /\ opPc' = [opPc EXCEPT ![o] = "clearing"]
    /\ UNCHANGED <<cacheVars, fetchMu, activeFetch, waiters, startRevision, opGen,
                   opCancelled, callVars, answerVars, historyVars>>

ClearAnyActive(o) ==
    /\ opPc[o] = "clearing"
    /\ fetchMu = Nobody
    /\ activeFetch' = NoOp
    /\ opPc' = [opPc EXCEPT ![o] = "closing"]
    /\ UNCHANGED <<cacheVars, fetchMu, waiters, startRevision, opGen, opErr, opCancelled,
                   callVars, answerVars, historyVars>>

\* Under fetchMu the fetch takes itself, and only itself, off the cache.
ClearActive(o) ==
    /\ opPc[o] = "clearing"
    /\ fetchMu = Nobody
    /\ activeFetch' = IF activeFetch = o THEN NoOp ELSE activeFetch
    /\ opPc' = [opPc EXCEPT ![o] = "closing"]
    /\ UNCHANGED <<cacheVars, fetchMu, waiters, startRevision, opGen, opErr, opCancelled,
                   callVars, answerVars, historyVars>>

\* The deferred op.cancel() and close(op.done).
CloseDone(o) ==
    /\ opPc[o] = "closing"
    /\ opPc' = [opPc EXCEPT ![o] = "done"]
    /\ opCancelled' = opCancelled \cup {o}
    /\ UNCHANGED <<cacheVars, fetchMu, activeFetch, waiters, startRevision, opGen, opErr,
                   callVars, answerVars, historyVars>>

-----------------------------------------------------------------------------
\* op.done is closed: leave the waiters, return op.err if there is one, and
\* otherwise go on to read the cache.
WakeDone(c) ==
    /\ pc[c] = "waiting"
    /\ opPc[callerOp[c]] = "done"
    /\ fetchMu = Nobody
    /\ waiters' = [waiters EXCEPT ![callerOp[c]] = @ - 1]
    /\ \/ /\ opErr[callerOp[c]] # "none"
          /\ ReturnError(c, opErr[callerOp[c]])
       \/ /\ opErr[callerOp[c]] = "none"
          /\ pc' = [pc EXCEPT ![c] = "reading"]
          /\ UNCHANGED <<callerOp, ctxDone, answerVars>>
    /\ UNCHANGED <<cacheVars, fetchMu, activeFetch, opPc, startRevision, opGen, opErr,
                   opCancelled, calls, historyVars>>

ReadOwnResult(c) ==
    /\ pc[c] = "reading"
    /\ pc' = [pc EXCEPT ![c] = "idle"]
    /\ callerOp' = [callerOp EXCEPT ![c] = NoOp]
    /\ ctxDone' = ctxDone \ {c}
    /\ outcome' = [outcome EXCEPT ![c] = "ok"]
    /\ got' = [got EXCEPT ![c] = opGen[callerOp[c]]]
    /\ UNCHANGED <<cacheVars, fetchMu, activeFetch, opVars, calls, historyVars, served>>

\* The result is taken from the cache, where it may have been replaced by a
\* newer one, or invalidated.
ReadResult(c) ==
    /\ pc[c] = "reading"
    /\ \/ Valid /\ cached >= opGen[callerOp[c]] /\ ReturnCreds(c)
       \/ ~(Valid /\ cached >= opGen[callerOp[c]]) /\ ReturnError(c, "invalidated")
    /\ UNCHANGED <<cacheVars, fetchMu, activeFetch, opVars, calls, historyVars>>

AbandonsEagerly(o) == TRUE

\* `if op.waiters <= 0 { op.cancel() }` after waiters--
Abandons(o) == waiters[o] - 1 <= 0

\* ctx.Done: the last waiter to leave abandons the fetch.
LeaveFetch(c) ==
    /\ pc[c] = "waiting"
    /\ c \in ctxDone
    /\ fetchMu = Nobody
    /\ waiters' = [waiters EXCEPT ![callerOp[c]] = @ - 1]
    /\ opCancelled' = opCancelled \cup {o \in Ops : o = callerOp[c] /\ Abandons(o)}
    /\ ReturnError(c, "canceled")
    /\ UNCHANGED <<cacheVars, fetchMu, activeFetch, opPc, startRevision, opGen, opErr,
                   calls, historyVars>>

CancelContext(c) ==
    /\ pc[c] \in {"entering", "deciding", "waiting"}
    /\ c \notin ctxDone
    /\ ctxDone' = ctxDone \cup {c}
    /\ UNCHANGED <<cacheVars, fetchMu, activeFetch, opVars, pc, callerOp, calls, answerVars,
                   historyVars>>

\* InvalidateLinkCacheIfGen: a worker reports the rejection of a generation it
\* was given; anything but the generation in the cache is left alone.
InvalidateLinkCacheIfGen ==
    /\ cached \in served
    /\ cached' = 0
    /\ revision' = revision + 1
    /\ dead' = cached
    /\ UNCHANGED <<expired, generation, fetchMu, activeFetch, opVars, callVars, answerVars,
                   floor, opDead>>

\* ExpiresAt passes.
Expire ==
    /\ Valid
    /\ expired' = cached
    /\ UNCHANGED <<cached, generation, revision, fetchMu, activeFetch, opVars, callVars,
                   answerVars, historyVars>>

\* The bound on calls is used up and every operation has ended.
Finished ==
    /\ calls = MaxCalls
    /\ \A c \in Callers : pc[c] = "idle"
    /\ \A o \in Ops : opPc[o] \in {"unused", "done"}
    /\ UNCHANGED vars

CallerStep(c) ==
    \/ LockedHit(c) \/ LockedMiss(c) \/ JoinFetch(c) \/ StartFetch(c)
    \/ WakeDone(c) \/ ReadResult(c)

OpStep(o) ==
    \/ FetchSucceeds(o) \/ FetchFails(o) \/ Publish(o) \/ DropResult(o)
    \/ ClearActive(o) \/ CloseDone(o)

Next ==
    \/ \E c \in Callers :
          FastHit(c) \/ FastMiss(c) \/ CallerStep(c) \/ LeaveFetch(c) \/ CancelContext(c)
    \/ \E o \in Ops : OpStep(o)
    \/ InvalidateLinkCacheIfGen
    \/ Expire
    \/ Finished

Spec == Init /\ [][Next]_vars

\* Goroutines run on, and a network fetch returns because every HTTP request
\* it makes has a timeout.
FairSpec ==
    /\ Spec
    /\ \A c \in Callers : WF_vars(CallerStep(c)) /\ WF_vars(LeaveFetch(c))
    /\ \A o \in Ops : WF_vars(OpStep(o))

-----------------------------------------------------------------------------
\* Types of a StreamCredentialsCache and of its cacheFetchOps: the number of
\* waiters never becomes negative.
TypeOK ==
    /\ cached \in Nat /\ expired \in Nat /\ generation \in Nat /\ revision \in Nat
    /\ fetchMu \in Callers \cup {Nobody}
    /\ activeFetch \in Ops \cup {NoOp}
    /\ opPc \in [Ops -> OpLocations]
    /\ waiters \in [Ops -> Nat]
    /\ startRevision \in [Ops -> Nat]
    /\ opGen \in [Ops -> Nat]
    /\ opErr \in [Ops -> Errors]
    /\ opCancelled \subseteq Ops
    /\ pc \in [Callers -> CallLocations]
    /\ callerOp \in [Callers -> Ops \cup {NoOp}]
    /\ ctxDone \subseteq Callers
    /\ calls \in Nat
    /\ outcome \in [Callers -> Outcomes]
    /\ got \in [Callers -> Nat]
    /\ served \subseteq Nat
    /\ dead \in Nat
    /\ floor \in [Callers -> Nat]
    /\ opDead \in [Ops -> Nat]

\* A fetch somebody still waits for is never cancelled: op.waiters is the number
\* of callers in the select on that operation, the last one to leave abandons
\* it, and nobody joins it afterwards.
WaitedForIsNotCancelled ==
    /\ \A o \in Ops : waiters[o] = Cardinality(Waiters(o))
    /\ \A c \in Callers :
          (pc[c] = "waiting" /\ callerOp[c] \in opCancelled) => opPc[callerOp[c]] = "done"

\* Single flight: of the fetches that are under way at most one has not been
\* abandoned, however many callers miss the cache at once.
SingleFlight ==
    \A o, p \in {q \in Ops : opPc[q] \in Running} \ opCancelled : o = p

\* Credentials fetched before a rejection was reported are never put into the
\* cache after it: they might be the rejected ones.
NoStalePublication ==
    [][\A o \in Ops : (opGen[o] = 0 /\ opGen'[o] # 0) => opDead[o] = dead]_vars

\* ErrCredentialsInvalidated says "credentials invalidated before consumption":
\* a call that ends with it saw an invalidation, or at least leaves no valid
\* credentials in the cache.  Does not hold: see the finding about the
\* publication of an abandoned fetch.
InvalidatedMeansInvalidated ==
    [][\A c \in Callers :
          (pc[c] # "idle" /\ pc'[c] = "idle" /\ outcome'[c] = "invalidated")
             => dead # floor[c] \/ ~Valid]_vars

\* Every call of getVkCredsCached returns.
EveryCallReturns ==
    \A c \in Callers : pc[c] # "idle" ~> pc[c] = "idle"

Service == INSTANCE CredsService WITH
    issued <- generation, current <- cached,
    open <- {c \in Callers : pc[c] # "idle"}

\* The cache keeps the promise of CredsService.
ServicePromise == Service!ServiceSpec
=============================================================================
