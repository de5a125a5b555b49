----------------------------- MODULE FloodGate ------------------------------
(***************************************************************************)
(* The path of a credential request to the VK API: FloodGate,              *)
(* go_client/flood_gate.go, and fetchVkCredsSerialized with its semaphore  *)
(* and its throttle, go_client/creds.go.  After an answer "flood control"  *)
(* (code 9) everybody pauses; then one request probes, and the others wait *)
(* for its result.  The requests are the fetches of all links (runCache-   *)
(* Fetch), each with a context of its own.                                 *)
(*                                                                         *)
(* Time is kept as countdowns: what is left of the pause, of a sleep.      *)
(***************************************************************************)
EXTENDS Integers, Sequences, FiniteSets

CONSTANTS
    Fetchers,        \* goroutines in runCacheFetch, of all links
    Nobody,          \* vkRequestSem is free
    BackoffSchedule, \* backoffSchedule: the pauses, one per step
    RetryAfters,     \* the explicit pauses a VK error may ask for
    MinInterval,     \* least and greatest minInterval of the throttle
    MaxInterval,
    MaxFloods        \* bound: flood control answers in a behaviour

ASSUME GateAssumption ==
    /\ Nobody \notin Fetchers
    /\ BackoffSchedule \in Seq(Nat \ {0}) /\ BackoffSchedule # <<>>
    /\ RetryAfters \subseteq Nat \ {0}
    /\ MinInterval \in Nat /\ MaxInterval \in Nat /\ MinInterval <= MaxInterval
    /\ MaxFloods \in Nat

VARIABLES
    backoffStep,  \* g.backoffStep
    pause,        \* time left until g.floodedUntil
    probeActive,  \* g.probeActive
    sem,          \* who has taken the token of vkRequestSem
    sinceFetch,   \* time since globalLastVkFetchTime, MaxInterval when long ago
    pc,           \* where each fetcher is
    sleep,        \* what is left of its time.After
    probes,       \* fetchers with isProbe /\ ~probeDone
    cancelled,    \* fetchers whose context is done
    floods,       \* flood control answers so far
    rushed        \* time has passed while somebody was about to take a step

gateVars == <<backoffStep, pause, probeActive>>
fetchVars == <<pc, sleep, probes, cancelled>>
history == <<floods, rushed>>
vars == <<gateVars, sem, sinceFetch, fetchVars, history>>

\* asking: at the head of Acquire's loop;  cooling, polling: in its selects;
\* queued: at acquireVkRequestLock;  checking: has the token, about to look at
\* ctx and IsFlooded;  throttling: in the select of the throttle;  recheck:
\* after it;  http: in fetchVkCreds;  leaving: with the token, after http;
\* aborting: with the token, without http;  unprobing: in the deferred
\* ReleaseProbe
Locations == {"idle", "asking", "cooling", "polling", "queued", "checking",
              "throttling", "recheck", "http", "leaving", "aborting", "unprobing"}
HoldingToken == {"checking", "throttling", "recheck", "http", "leaving", "aborting"}

IsFlooded == pause > 0

Init ==
    /\ backoffStep = 0
    /\ pause = 0
    /\ probeActive = FALSE
    /\ sem = Nobody
    /\ sinceFetch = MaxInterval
    /\ pc = [f \in Fetchers |-> "idle"]
    /\ sleep = [f \in Fetchers |-> 0]
    /\ probes = {}
    /\ cancelled = {}
    /\ floods = 0
    /\ rushed = FALSE

Goto(f, l) == pc' = [pc EXCEPT ![f] = l]

\* close(notifyCh): whoever is in a select of Acquire goes round its loop, and
\* f goes to l.
NotifyAndGoto(f, l) ==
    pc' = [h \in Fetchers |->
              IF h = f THEN l
              ELSE IF pc[h] \in {"cooling", "polling"} THEN "asking" ELSE pc[h]]

\* A fetch without the token ends; a probe releases its slot first.
Return(f) == Goto(f, IF f \in probes THEN "unprobing" ELSE "idle")

-----------------------------------------------------------------------------
StartFetch(f) ==
    /\ pc[f] = "idle"
    /\ Goto(f, "asking")
    /\ cancelled' = cancelled \ {f}
    /\ UNCHANGED <<gateVars, sem, sinceFetch, sleep, probes, history>>

\* One round of Acquire: pause on, ...
AcquireCools(f) ==
    /\ pc[f] = "asking"
    /\ IsFlooded
    /\ sleep' = [sleep EXCEPT ![f] = pause]
    /\ Goto(f, "cooling")
    /\ UNCHANGED <<gateVars, sem, sinceFetch, probes, cancelled, history>>

ProbeFreeAlways == TRUE

ProbeFree == ~probeActive

\* ... pause over: this one is the probe, ...
AcquireProbe(f) ==
    /\ pc[f] = "asking"
    /\ ~IsFlooded
    /\ backoffStep > 0
    /\ ProbeFree
    /\ probeActive' = TRUE
    /\ probes' = probes \cup {f}
    /\ Goto(f, "queued")
    /\ UNCHANGED <<backoffStep, pause, sem, sinceFetch, sleep, cancelled, history>>

\* ... or somebody else is, ...
AcquirePolls(f) ==
    /\ pc[f] = "asking"
    /\ ~IsFlooded
    /\ backoffStep > 0
    /\ ~ProbeFree
    /\ Goto(f, "polling")
    /\ UNCHANGED <<gateVars, sem, sinceFetch, sleep, probes, cancelled, history>>

\* ... or there is no flood control.
AcquireFreely(f) ==
    /\ pc[f] = "asking"
    /\ ~IsFlooded
    /\ backoffStep = 0
    /\ Goto(f, "queued")
    /\ UNCHANGED <<gateVars, sem, sinceFetch, sleep, probes, cancelled, history>>

\* The timer of a select fires.  The 5 s of the probe wait are not counted.
AcquireWakes(f) ==
    /\ \/ pc[f] = "cooling" /\ sleep[f] = 0
       \/ pc[f] = "polling"
    /\ Goto(f, "asking")
    /\ UNCHANGED <<gateVars, sem, sinceFetch, sleep, probes, cancelled, history>>

AcquireCancelled(f) ==
    /\ pc[f] \in {"cooling", "polling"}
    /\ f \in cancelled
    /\ Goto(f, "idle")
    /\ UNCHANGED <<gateVars, sem, sinceFetch, sleep, probes, cancelled, history>>

-----------------------------------------------------------------------------
TakeTokenAlways(f) ==
    /\ pc[f] = "queued"
    /\ sem' = f
    /\ Goto(f, "checking")
    /\ UNCHANGED <<gateVars, sinceFetch, sleep, probes, cancelled, history>>

\* acquireVkRequestLock
TakeToken(f) ==
    /\ pc[f] = "queued"
    /\ sem = Nobody
    /\ sem' = f
    /\ Goto(f, "checking")
    /\ UNCHANGED <<gateVars, sinceFetch, sleep, probes, cancelled, history>>

QueueCancelled(f) ==
    /\ pc[f] = "queued"
    /\ f \in cancelled
    /\ Return(f)
    /\ UNCHANGED <<gateVars, sem, sinceFetch, sleep, probes, cancelled, history>>

CleanAlways(f) == TRUE

\* ctx.Err() == nil and not IsFlooded
Clean(f) == f \notin cancelled /\ ~IsFlooded

\* The checks after the token was taken, and the choice of minInterval.
CheckAfterToken(f) ==
    /\ pc[f] = "checking"
    /\ \/ /\ Clean(f)
          /\ \E interval \in MinInterval..MaxInterval :
                \/ /\ sinceFetch >= interval
                   /\ Goto(f, "http")
                   /\ UNCHANGED sleep
                \/ /\ sinceFetch < interval
                   /\ Goto(f, "throttling")
                   /\ sleep' = [sleep EXCEPT ![f] = interval - sinceFetch]
       \/ /\ ~Clean(f)
          /\ Goto(f, "aborting")
          /\ UNCHANGED sleep
    /\ UNCHANGED <<gateVars, sem, sinceFetch, probes, cancelled, history>>

ThrottleOver(f) ==
    /\ pc[f] = "throttling"
    /\ \/ sleep[f] = 0 /\ Goto(f, "recheck")
       \/ f \in cancelled /\ Goto(f, "aborting")
    /\ UNCHANGED <<gateVars, sem, sinceFetch, sleep, probes, cancelled, history>>

CheckAfterThrottle(f) ==
    /\ pc[f] = "recheck"
    /\ Goto(f, IF Clean(f) THEN "http" ELSE "aborting")
    /\ UNCHANGED <<gateVars, sem, sinceFetch, sleep, probes, cancelled, history>>

-----------------------------------------------------------------------------
\* ReportSuccess opens the gate; the waiters are told if it was not open.
HttpSucceeds(f) ==
    /\ pc[f] = "http"
    /\ backoffStep' = 0
    /\ pause' = 0
    /\ probeActive' = FALSE
    /\ probes' = probes \ {f}
    /\ IF backoffStep > 0 THEN NotifyAndGoto(f, "leaving") ELSE Goto(f, "leaving")
    /\ UNCHANGED <<sem, sinceFetch, sleep, cancelled, history>>

\* backoffSchedule[idx], counted from 1 here
BackoffIndex ==
    1 + (IF backoffStep >= Len(BackoffSchedule) THEN Len(BackoffSchedule) - 1 ELSE backoffStep)

NextStep == IF backoffStep < Len(BackoffSchedule) - 1 THEN backoffStep + 1 ELSE backoffStep

\* ReportFlood starts or lengthens the pause.  The jitter of up to 10 s is
\* below the unit of time.
HttpFlooded(f) ==
    /\ pc[f] = "http"
    /\ floods < MaxFloods
    /\ floods' = floods + 1
    /\ pause' \in RetryAfters \cup {BackoffSchedule[BackoffIndex]}
    /\ backoffStep' = NextStep
    /\ probeActive' = FALSE
    /\ probes' = probes \ {f}
    /\ NotifyAndGoto(f, "leaving")
    /\ UNCHANGED <<sem, sinceFetch, sleep, cancelled, rushed>>

\* Any other error, a timeout of the network stage included.
HttpFails(f) ==
    /\ pc[f] = "http"
    /\ Goto(f, "leaving")
    /\ UNCHANGED <<gateVars, sem, sinceFetch, sleep, probes, cancelled, history>>

\* The deferred calls: globalLastVkFetchTime, the token, the probe slot.
LeaveHttp(f) ==
    /\ pc[f] = "leaving"
    /\ sinceFetch' = 0
    /\ sem' = Nobody
    /\ Return(f)
    /\ UNCHANGED <<gateVars, sleep, probes, cancelled, history>>

Abort(f) ==
    /\ pc[f] = "aborting"
    /\ sem' = Nobody
    /\ Return(f)
    /\ UNCHANGED <<gateVars, sinceFetch, sleep, probes, cancelled, history>>

ReleaseProbeKeepsSlot(f) ==
    /\ pc[f] = "unprobing"
    /\ probes' = probes \ {f}
    /\ Goto(f, "idle")
    /\ UNCHANGED <<gateVars, sem, sinceFetch, sleep, cancelled, history>>

ReleaseProbe(f) ==
    /\ pc[f] = "unprobing"
    /\ probes' = probes \ {f}
    /\ probeActive' = FALSE
    /\ IF probeActive THEN NotifyAndGoto(f, "idle") ELSE Goto(f, "idle")
    /\ UNCHANGED <<backoffStep, pause, sem, sinceFetch, sleep, cancelled, history>>

Cancel(f) ==
    /\ pc[f] # "idle"
    /\ f \notin cancelled
    /\ cancelled' = cancelled \cup {f}
    /\ UNCHANGED <<gateVars, sem, sinceFetch, pc, sleep, probes, history>>

-----------------------------------------------------------------------------
Less(n) == IF n > 0 THEN n - 1 ELSE 0

\* Nobody is about to take a step that costs no time.
Quiet ==
    /\ \A f \in Fetchers :
          /\ pc[f] \in {"idle", "cooling", "polling", "queued", "throttling", "http"}
          /\ pc[f] \in {"cooling", "throttling"} => sleep[f] > 0
    /\ (\E f \in Fetchers : pc[f] = "queued") => sem # Nobody

Tick ==
    /\ pause' = Less(pause)
    /\ sleep' = [f \in Fetchers |-> Less(sleep[f])]
    /\ sinceFetch' = IF sinceFetch < MaxInterval THEN sinceFetch + 1 ELSE MaxInterval
    /\ rushed' = (rushed \/ ~Quiet)
    /\ UNCHANGED <<backoffStep, probeActive, sem, pc, probes, cancelled, floods>>

FetchStep(f) ==
    \/ AcquireCools(f) \/ AcquireProbe(f) \/ AcquirePolls(f) \/ AcquireFreely(f)
    \/ AcquireWakes(f) \/ TakeToken(f) \/ CheckAfterToken(f) \/ ThrottleOver(f)
    \/ CheckAfterThrottle(f) \/ HttpSucceeds(f) \/ HttpFlooded(f) \/ HttpFails(f)
    \/ LeaveHttp(f) \/ Abort(f) \/ ReleaseProbe(f)

Step(f) ==
    \/ StartFetch(f) \/ FetchStep(f) \/ AcquireCancelled(f) \/ QueueCancelled(f)
    \/ Cancel(f)

Next == Tick \/ \E f \in Fetchers : Step(f)

Spec == Init /\ [][Next]_vars

\* Goroutines run on, HTTP requests have timeouts, time passes; a waiting
\* receiver gets the token (Go serves the receivers of a channel in order),
\* and who is told again and again that the probe slot is free gets it once
\* (g.mu is handed to the waiter that has waited longest).
FairSpec ==
    /\ Spec
    /\ WF_vars(Tick)
    /\ \A f \in Fetchers :
          WF_vars(FetchStep(f)) /\ SF_vars(TakeToken(f)) /\ SF_vars(AcquireProbe(f))

-----------------------------------------------------------------------------
\* Types of FloodGate and of fetchVkCredsSerialized: backoffStep stays an index
\* of backoffSchedule.
TypeOK ==
    /\ backoffStep \in 0..(Len(BackoffSchedule) - 1)
    /\ pause \in Nat
    /\ probeActive \in BOOLEAN
    /\ sem \in Fetchers \cup {Nobody}
    /\ sinceFetch \in 0..MaxInterval
    /\ pc \in [Fetchers -> Locations]
    /\ sleep \in [Fetchers -> Nat]
    /\ probes \subseteq Fetchers
    /\ cancelled \subseteq Fetchers
    /\ floods \in 0..MaxFloods /\ rushed \in BOOLEAN

\* No request is under way during a pause: whoever comes to vkRequestSem late
\* sees the pause, and as only the holder of the token can start one, a pause
\* cannot begin behind its back.
NoRequestDuringPause ==
    \A f \in Fetchers : pc[f] = "http" => sem = f /\ ~IsFlooded

\* "По истечении таймера только ОДИН поток получает разрешение на пробный
\* запрос": there is never a second probe, as long as the pauses of VK are long
\* compared with the steps of the code; and a taken probe slot has an owner that
\* will give it back, also when it is cancelled, aborted or its request fails.
\* And once flood control has been seen the request under way is the probe's.
OneProbe ==
    /\ probeActive => probes # {}
    /\ ~rushed => /\ \A f, h \in probes : f = h
                  /\ \A f \in Fetchers : (pc[f] = "http" /\ backoffStep > 0) => f \in probes

\* Requests are at least MinInterval apart, whoever makes them.
RequestsAreSpaced ==
    [][\A f \in Fetchers :
          (pc[f] # "http" /\ pc'[f] = "http") => sinceFetch >= MinInterval]_vars

\* Every fetch returns, as VK stops answering "flood control" at some point.
FetchReturns == \A f \in Fetchers : pc[f] # "idle" ~> pc[f] = "idle"
=============================================================================
