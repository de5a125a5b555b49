----------------------------- MODULE IosRuntime -----------------------------
(***************************************************************************)
(* The runtime of a tunnel on iOS, go_client/ios_bridge.go: WDTT_Start and *)
(* WDTT_Stop, called by the packet tunnel provider, the loop that repeats  *)
(* transport attempts (runTunnelLoop), and requestReconnect, called by the *)
(* provider, the application and the watchdogs.  An attempt (runOnce)      *)
(* binds the local UDP port and is torn down when its context is           *)
(* cancelled; its inside is the subject of the other modules.              *)
(*                                                                         *)
(* WDTT_Stop waits for at most 2.5 s, so a new runtime may start while the *)
(* run of the previous one is still being torn down and holds the port.    *)
(***************************************************************************)
EXTENDS Integers

CONSTANTS
    MaxRuntimes,  \* bound: calls of WDTT_Start that succeed
    Callers       \* goroutines and threads that ask for a reconnect

ASSUME RuntimeAssumption == MaxRuntimes \in Nat

VARIABLES
    current,       \* iosCurrent
    life,          \* of each runtime: none, live, or stopped (rt.ctx done)
    loop,          \* where its goroutine is
    attemptCancel, \* rt.attemptCancel is set
    attemptDone,   \* the attempt's context is done
    requested,     \* rt.reconnectRequested
    wake,          \* rt.reconnectWake holds a token
    limited,       \* less than 1.5 s since rt.lastReconnect
    port,          \* the runtime whose attempt has the local UDP port
    callPc,        \* callers: idle, asking, accepted (flag set), waking (token
                   \* sent)
    callRt,        \* the runtime a caller looks at
    callCancel,    \* the cancel function it took: none, current (attempt), old
    owed           \* history: a request was accepted, and since then no attempt
                   \* began and the runtime was not stopped

loopVars == <<loop, attemptCancel, attemptDone, port>>
requestVars == <<requested, wake, limited, owed>>
callVars == <<callPc, callRt, callCancel>>
vars == <<current, life, loopVars, requestVars, callVars>>

Runtimes == 1..MaxRuntimes   \* in the order of their starts
Nobody == 0                  \* no runtime

-----------------------------------------------------------------------------
\* none: not started; head: at the loop condition; opening: in runOnce before
\* listenUDP; running: in runOnce after it; returned: runOnce has returned;
\* consuming: attemptCancel is cleared; delaying: in the select; exiting: in
\* the deferred calls; done: rt.done is closed
Attempting == {"opening", "running"}
LoopLocations == Attempting \cup {"none", "head", "returned", "consuming", "delaying",
                                  "exiting", "done"}

Init ==
    /\ current = Nobody
    /\ life = [r \in Runtimes |-> "none"]
    /\ loop = [r \in Runtimes |-> "none"]
    /\ attemptCancel = [r \in Runtimes |-> FALSE]
    /\ attemptDone = [r \in Runtimes |-> FALSE]
    /\ requested = [r \in Runtimes |-> FALSE]
    /\ wake = [r \in Runtimes |-> FALSE]
    /\ limited = [r \in Runtimes |-> FALSE]
    /\ port = Nobody
    /\ callPc = [c \in Callers |-> "idle"]
    /\ callRt = [c \in Callers |-> Nobody]
    /\ callCancel = [c \in Callers |-> "none"]
    /\ owed = [r \in Runtimes |-> FALSE]

-----------------------------------------------------------------------------
\* Start and stop, called by the provider

AlreadyRunning == current # Nobody /\ life[current] = "live"

\* WDTT_Start: a runtime that is cancelled but not done is replaced.
Start(r) ==
    /\ ~AlreadyRunning
    /\ life[r] = "none" /\ \A q \in 1..(r - 1) : life[q] # "none"
    /\ current' = r
    /\ life' = [life EXCEPT ![r] = "live"]
    /\ loop' = [loop EXCEPT ![r] = "head"]
    /\ UNCHANGED <<attemptCancel, attemptDone, port, requestVars, callVars>>

\* WDTT_Stop, before its wait: rt.cancel cancels the attempt too.
Stop(r) ==
    /\ current = r
    /\ life' = [life EXCEPT ![r] = "stopped"]
    /\ attemptDone' = [attemptDone EXCEPT ![r] = TRUE]
    /\ owed' = [owed EXCEPT ![r] = FALSE]
    /\ UNCHANGED <<current, loop, attemptCancel, port, requested, wake, limited, callVars>>

-----------------------------------------------------------------------------
\* The goroutine of the runtime

GoTo(r, l) == loop' = [loop EXCEPT ![r] = l]

\* A variant: setAttemptCancel is left out.
BeginAttemptUnnoticed(r) ==
    /\ loop[r] = "head" /\ life[r] = "live"
    /\ GoTo(r, "opening")
    /\ attemptDone' = [attemptDone EXCEPT ![r] = FALSE]
    /\ owed' = [owed EXCEPT ![r] = FALSE]
    /\ UNCHANGED <<current, life, attemptCancel, port, requested, wake, limited, callVars>>

\* The loop condition, a new attempt context and setAttemptCancel.  The context
\* is a child of rt.ctx.  The cancel functions callers hold are those of older
\* attempts now.
BeginAttempt(r) ==
    /\ loop[r] = "head" /\ life[r] = "live"
    /\ GoTo(r, "opening")
    /\ attemptCancel' = [attemptCancel EXCEPT ![r] = TRUE]
    /\ attemptDone' = [attemptDone EXCEPT ![r] = FALSE]
    /\ owed' = [owed EXCEPT ![r] = FALSE]
    /\ UNCHANGED <<current, life, port, requested, wake, limited, callVars>>

LeaveLoop(r) ==
    /\ loop[r] = "head" /\ life[r] = "stopped"
    /\ GoTo(r, "exiting")
    /\ UNCHANGED <<current, life, attemptCancel, attemptDone, port, requestVars, callVars>>

\* runOnce fails before it listens, or the port is still taken.
OpenFails(r) ==
    /\ loop[r] = "opening"
    /\ GoTo(r, "returned")
    /\ UNCHANGED <<current, life, attemptCancel, attemptDone, port, requestVars, callVars>>

Listen(r) ==
    /\ loop[r] = "opening" /\ port = Nobody
    /\ GoTo(r, "running")
    /\ port' = r
    /\ UNCHANGED <<current, life, attemptCancel, attemptDone, requestVars, callVars>>

\* All workers are gone, or the configuration is unusable: runCancel from
\* within.
AttemptFails(r) ==
    /\ loop[r] = "running" /\ ~attemptDone[r]
    /\ attemptDone' = [attemptDone EXCEPT ![r] = TRUE]
    /\ UNCHANGED <<current, life, loop, attemptCancel, port, requestVars, callVars>>

\* A variant: only the current runtime closes its socket.
ClosePortOfCurrent(r) ==
    /\ port = r /\ (loop[r] = "running" => attemptDone[r]) /\ current = r
    /\ port' = Nobody
    /\ UNCHANGED <<current, life, loop, attemptCancel, attemptDone, requestVars, callVars>>

\* stopLocalConn, the AfterFunc of a cancelled run, in a goroutine of its own:
\* readLoop may end before it at the head of its loop, so runOnce may even have
\* returned.
ClosePort(r) ==
    /\ port = r /\ (loop[r] = "running" => attemptDone[r])
    /\ port' = Nobody
    /\ UNCHANGED <<current, life, loop, attemptCancel, attemptDone, requestVars, callVars>>

\* The torn down runOnce returns: an error always, since no connection is left.
AttemptReturns(r) ==
    /\ loop[r] = "running" /\ attemptDone[r]
    /\ GoTo(r, "returned")
    /\ UNCHANGED <<current, life, attemptCancel, attemptDone, port, requestVars, callVars>>

\* attemptCancel() and clearAttemptCancel; a cancel function taken before is
\* without effect from now on.
ClearAttempt(r) ==
    /\ loop[r] = "returned"
    /\ GoTo(r, "consuming")
    /\ attemptDone' = [attemptDone EXCEPT ![r] = TRUE]
    /\ attemptCancel' = [attemptCancel EXCEPT ![r] = FALSE]
    /\ callCancel' = [c \in Callers |-> IF callRt[c] = r /\ callCancel[c] = "current"
                                           THEN "old" ELSE callCancel[c]]
    /\ UNCHANGED <<current, life, port, requestVars, callPc, callRt>>

\* rt.ctx.Err and consumeReconnectRequest.  The length of the delay, 350 ms or
\* up to 15 s, is abstracted: any finite one.
Consume(r) ==
    /\ loop[r] = "consuming"
    /\ IF life[r] = "stopped"
          THEN GoTo(r, "exiting") /\ UNCHANGED requested
          ELSE GoTo(r, "delaying") /\ requested' = [requested EXCEPT ![r] = FALSE]
    /\ UNCHANGED <<current, life, attemptCancel, attemptDone, port, wake, limited, owed, callVars>>

\* The select after an attempt: the delay is over, or a token cuts it short.
DelayOver(r) ==
    /\ loop[r] = "delaying"
    /\ GoTo(r, "head")
    /\ \/ wake[r] /\ wake' = [wake EXCEPT ![r] = FALSE]
       \/ UNCHANGED wake
    /\ UNCHANGED <<current, life, attemptCancel, attemptDone, port, requested, limited, owed, callVars>>

DelayCancelled(r) ==
    /\ loop[r] = "delaying" /\ life[r] = "stopped"
    /\ GoTo(r, "exiting")
    /\ UNCHANGED <<current, life, attemptCancel, attemptDone, port, requestVars, callVars>>

\* The deferred calls: iosCurrent is cleared only if it is still this runtime.
Exit(r) ==
    /\ loop[r] = "exiting"
    /\ GoTo(r, "done")
    /\ current' = IF current = r THEN Nobody ELSE current
    /\ UNCHANGED <<life, attemptCancel, attemptDone, port, requestVars, callVars>>

-----------------------------------------------------------------------------
\* requestReconnect

\* currentIOSRuntime, in NotifyNetworkChange, RequestReconnect or a watchdog.
LookUp(c) ==
    /\ callPc[c] = "idle" /\ current # Nobody
    /\ callPc' = [callPc EXCEPT ![c] = "asking"]
    /\ callRt' = [callRt EXCEPT ![c] = current]
    /\ UNCHANGED <<current, life, loopVars, requestVars, callCancel>>

Back(c) ==
    /\ callPc' = [callPc EXCEPT ![c] = "idle"]
    /\ callRt' = [callRt EXCEPT ![c] = Nobody]
    /\ callCancel' = [callCancel EXCEPT ![c] = "none"]

\* Under rt.mu: refused when the runtime is stopped or a reconnect was accepted
\* less than 1.5 s ago.
Refused(c) ==
    /\ callPc[c] = "asking"
    /\ life[callRt[c]] = "stopped" \/ limited[callRt[c]]
    /\ Back(c)
    /\ UNCHANGED <<current, life, loopVars, requestVars>>

Accepted(c) ==
    LET r == callRt[c] IN
    /\ callPc[c] = "asking"
    /\ life[r] = "live" /\ ~limited[r]
    /\ limited' = [limited EXCEPT ![r] = TRUE]
    /\ requested' = [requested EXCEPT ![r] = TRUE]
    /\ owed' = [owed EXCEPT ![r] = TRUE]
    /\ callCancel' = [callCancel EXCEPT ![c] = IF attemptCancel[r] THEN "current" ELSE "none"]
    /\ callPc' = [callPc EXCEPT ![c] = "accepted"]
    /\ UNCHANGED <<current, life, loopVars, wake, callRt>>

\* The token, without blocking.
SendWake(c) ==
    /\ callPc[c] = "accepted"
    /\ wake' = [wake EXCEPT ![callRt[c]] = TRUE]
    /\ callPc' = [callPc EXCEPT ![c] = "waking"]
    /\ UNCHANGED <<current, life, loopVars, requested, limited, owed, callRt, callCancel>>

\* A variant: the token is thought to be enough to end the attempt.
CallCancelNothing(c) ==
    /\ callPc[c] = "waking"
    /\ Back(c)
    /\ UNCHANGED <<current, life, loopVars, requestVars>>

\* cancel(), of the attempt that was current under rt.mu.
CallCancel(c) ==
    /\ callPc[c] = "waking"
    /\ attemptDone' = IF callCancel[c] = "current"
                         THEN [attemptDone EXCEPT ![callRt[c]] = TRUE] ELSE attemptDone
    /\ Back(c)
    /\ UNCHANGED <<current, life, loop, attemptCancel, port, requestVars>>

\* 1.5 s have passed.  It is of no consequence for a stopped runtime.
LimitOver(r) ==
    /\ limited[r] /\ life[r] = "live"
    /\ limited' = [limited EXCEPT ![r] = FALSE]
    /\ UNCHANGED <<current, life, loopVars, requested, wake, owed, callVars>>

-----------------------------------------------------------------------------
\* The goroutine of runtime r.
LoopStep(r) ==
    \/ BeginAttempt(r) \/ LeaveLoop(r)
    \/ OpenFails(r) \/ Listen(r) \/ AttemptReturns(r)
    \/ ClearAttempt(r) \/ Consume(r) \/ DelayOver(r) \/ DelayCancelled(r) \/ Exit(r)

CallStep(c) == Refused(c) \/ Accepted(c) \/ SendWake(c) \/ CallCancel(c)

Next ==
    \/ \E r \in Runtimes :
          \/ Start(r) \/ Stop(r)
          \/ LoopStep(r) \/ AttemptFails(r) \/ ClosePort(r) \/ LimitOver(r)
    \/ \E c \in Callers : LookUp(c) \/ CallStep(c)

Spec == Init /\ [][Next]_vars

\* Goroutines and callers go on; a cancelled run closes its socket.  Binding
\* the port succeeds in the end if it is free again and again: its other
\* obstacles are a peer name that does not resolve and a bad key, which the
\* loop retries every 15 s.
Fairness ==
    /\ \A r \in Runtimes : WF_vars(LoopStep(r)) /\ WF_vars(ClosePort(r)) /\ SF_vars(Listen(r))
    /\ \A c \in Callers : WF_vars(CallStep(c))

FairSpec == Spec /\ Fairness

-----------------------------------------------------------------------------
\* The types, and that a caller in requestReconnect has a runtime.
TypeOK ==
    /\ current \in Runtimes \cup {Nobody}
    /\ life \in [Runtimes -> {"none", "live", "stopped"}]
    /\ loop \in [Runtimes -> LoopLocations]
    /\ attemptCancel \in [Runtimes -> BOOLEAN] /\ attemptDone \in [Runtimes -> BOOLEAN]
    /\ requested \in [Runtimes -> BOOLEAN] /\ wake \in [Runtimes -> BOOLEAN]
    /\ limited \in [Runtimes -> BOOLEAN] /\ owed \in [Runtimes -> BOOLEAN]
    /\ port \in Runtimes \cup {Nobody}
    /\ callPc \in [Callers -> {"idle", "asking", "accepted", "waking"}]
    /\ callCancel \in [Callers -> {"none", "current", "old"}]
    /\ \A c \in Callers : callRt[c] \in IF callPc[c] = "idle" THEN {Nobody} ELSE Runtimes

\* A runtime that was not stopped is iosCurrent, so that requests find it: the
\* late end of a replaced runtime does not take it away (ios_bridge.go:318).  And
\* an accepted reconnect never leaves an attempt that began before it alone: as
\* long as that attempt goes on, somebody holds its cancel function and is about
\* to call it.
NoLostReconnect ==
    \A r \in Runtimes :
       /\ life[r] = "live" => current = r
       /\ owed[r] /\ loop[r] \in Attempting /\ ~attemptDone[r] =>
             \E c \in Callers : /\ callPc[c] \in {"accepted", "waking"}
                                /\ callRt[c] = r /\ callCancel[c] = "current"

\* An accepted reconnect leads to a new attempt, unless the runtime is stopped,
\* and a stopped runtime ends: its attempt is torn down and rt.done is closed.
RequestsAreHonoured ==
    \A r \in Runtimes :
       /\ []<>(~owed[r])
       /\ []<>(life[r] = "stopped" => loop[r] = "done")

\* A live runtime gets the local port, again and again, although the run of the
\* runtime it replaced may still hold it when the first attempts are made, and so
\* may its own last run.
PortIsRegained ==
    \A r \in Runtimes : []<>(life[r] = "live" => port = r /\ loop[r] = "running")
=============================================================================
