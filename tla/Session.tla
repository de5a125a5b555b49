------------------------------ MODULE Session -------------------------------
(***************************************************************************)
(* One worker's RunSession, go_client/session.go, over and over: the       *)
(* goroutine of the call (`main`), the six goroutines it starts, the two   *)
(* context.AfterFunc that unblock I/O when the session is cancelled, and   *)
(* the deferred calls of its return, in their order.                       *)
(*                                                                         *)
(* The scheduler that gives permits is TurnScheduler, the exchange for the *)
(* configuration ConfigCoordinator; here they answer or fail.  A blocked   *)
(* network call returns when its deadline has passed, when the connection  *)
(* is closed, or by itself.                                                *)
(***************************************************************************)
EXTENDS Integers

VARIABLES
    main,       \* where RunSession is
    parent,     \* ctx is done (run stopped or reconnecting)
    sess,       \* sessCtx is done
    hctx,       \* handshake context: none, live, deadline or canceled
    permit,     \* the turnPermit is not finished yet
    outcome,    \* the local variable `outcome`
    reported,   \* what permit.Finish was told, "none" before
    waiting, inFlight, connections,  \* HandshakesWaiting, -InFlight, ActiveConnections
    relay,      \* the allocated relay is open
    dtls,       \* dtlsConn: none, open or closed
    slot,       \* registered in the dispatcher
    gr,         \* the goroutines: where each one is
    readFar,    \* the DTLS read deadline is sessionReadTimeout away
    armed,      \* AfterFuncs of sessCtx that have neither run nor been stopped
    unblocked,  \* AfterFuncs that have run
    cause,      \* teardown: none, primary, or secondary (set after the cancel)
    named,      \* the cause given to classifyHandshakeFailure
    wrapFailed, \* a relay goroutine ended by a failed obfuscation
    hsErr,      \* the error of HandshakeContext: none, timeout (by isTimeoutError) or other
    blamed      \* what RunSession returns of a failed handshake, "none" before

contextVars == <<parent, sess, hctx>>
ownPermitVars == <<permit, outcome, reported>>
gauges == <<waiting, inFlight, connections>>
ioVars == <<relay, dtls, readFar, armed, unblocked>>
causeVars == <<cause, named, wrapFailed, hsErr, blamed>>
sessionVars == <<main, contextVars, ownPermitVars, gauges, ioVars, slot, gr, causeVars>>

-----------------------------------------------------------------------------
\* idle: between two sessions; queued: in Acquire; preparing: dial, client,
\* Listen; allocating; relayed: relay goroutines run; handshaking;
\* judging: the handshake failed; classifying: teardown.get() is evaluated;
\* comparing: ctx was found live; reporting: the outcome is known; established: configuration or AUTH; registered: in the dispatcher, goroutines
\* not started; joining: in proxyWg.Wait; closing: in cleanup before its Waits,
\* joiningAll: in its Waits; unwinding, unslotted, unwired: in the deferred
\* calls; cooling: relay closed by the deferred call, seatCoolFor; leaving: the
\* outermost deferred calls
SessionLocations == {"idle", "queued", "preparing", "allocating", "relayed",
              "handshaking", "judging", "classifying", "comparing", "reporting",
              "established", "registered", "joining",
              "closing", "joiningAll", "unwinding", "unslotted", "unwired",
              "cooling", "leaving"}

RelayGoroutines == {"relayIn", "relayOut"}
ProxyGoroutines == {"keepalive", "writer", "reader"}
Goroutines == RelayGoroutines \cup ProxyGoroutines \cup {"binding"}

\* failing: has recorded its error, about to call the deferred sessCancel;
\* arming, reading, pushing: the reader at SetReadDeadline, in Read and in the
\* select on ReturnCh
Places == {"off", "running", "failing", "arming", "reading", "pushing"}

Gone(G) == \A g \in G : gr[g] = "off"

SessionInit ==
    /\ main = "idle"
    /\ parent = FALSE /\ sess = TRUE /\ hctx = "none"
    /\ permit = FALSE /\ outcome = "other" /\ reported = "none"
    /\ waiting = 0 /\ inFlight = 0 /\ connections = 0
    /\ relay = FALSE /\ dtls = "none" /\ readFar = FALSE
    /\ armed = {} /\ unblocked = {}
    /\ slot = FALSE
    /\ gr = [g \in Goroutines |-> "off"]
    /\ cause = "none" /\ named = "none" /\ wrapFailed = FALSE
    /\ hsErr = "none" /\ blamed = "none"

-----------------------------------------------------------------------------
\* Contexts

\* sessCancel: the handshake context ends with it.
SessCancel ==
    /\ sess' = TRUE
    /\ hctx' = IF hctx = "live" THEN "canceled" ELSE hctx

\* The run is stopped or asked to reconnect: ctx is cancelled, its children
\* with it.
CancelParent ==
    /\ ~parent
    /\ parent' = TRUE
    /\ SessCancel
    /\ UNCHANGED <<main, ownPermitVars, gauges, ioVars, slot, gr, causeVars>>

\* The next attempt of the tunnel loop starts the worker with a new context.
NewRun ==
    /\ main = "idle" /\ parent
    /\ parent' = FALSE
    /\ UNCHANGED <<main, sess, hctx, ownPermitVars, gauges, ioVars, slot, gr, causeVars>>

HandshakeDeadline ==
    /\ hctx = "live"
    /\ hctx' = "deadline"
    /\ UNCHANGED <<main, parent, sess, ownPermitVars, gauges, ioVars, slot, gr, causeVars>>

-----------------------------------------------------------------------------
\* Permit

\* A mutant: no rewriting.
permitOutcomeAsIs(o) == o

\* permitOutcome: the only rewriting of an outcome.
permitOutcome(o) == IF o = "other" /\ parent THEN "canceled" ELSE o

\* releasePermit, a sync.Once.
releasePermit(o) ==
    IF permit
       THEN /\ permit' = FALSE
            /\ reported' = permitOutcome(o)
            /\ inFlight' = inFlight - 1
       ELSE UNCHANGED <<permit, reported, inFlight>>

\* RunSession up to Acquire.  A list without usable endpoints is an error.
Begin ==
    /\ main = "idle" /\ ~parent
    /\ sess' = FALSE /\ hctx' = "none"
    /\ outcome' = "other" /\ reported' = "none"
    /\ dtls' = "none" /\ readFar' = FALSE /\ armed' = {} /\ unblocked' = {}
    /\ cause' = "none" /\ named' = "none" /\ wrapFailed' = FALSE
    /\ hsErr' = "none" /\ blamed' = "none"
    /\ \/ main' = "leaving" /\ UNCHANGED waiting
       \/ main' = "queued" /\ waiting' = waiting + 1
    /\ UNCHANGED <<parent, permit, inFlight, connections, relay, slot, gr>>

Granted ==
    /\ main = "queued"
    /\ main' = "preparing"
    /\ waiting' = waiting - 1 /\ inFlight' = inFlight + 1
    /\ permit' = TRUE
    /\ UNCHANGED <<contextVars, outcome, reported, connections, ioVars, slot, gr, causeVars>>

AcquireFails ==
    /\ main = "queued" /\ sess
    /\ main' = "leaving"
    /\ waiting' = waiting - 1
    /\ UNCHANGED <<contextVars, ownPermitVars, inFlight, connections, ioVars, slot, gr, causeVars>>

-----------------------------------------------------------------------------
\* TURN allocation

Prepared ==
    /\ main = "preparing"
    /\ main' = "allocating"
    /\ UNCHANGED <<contextVars, ownPermitVars, gauges, ioVars, slot, gr, causeVars>>

\* Dial, NewClient or Listen fails.
PrepareFails ==
    /\ main = "preparing"
    /\ main' = "leaving"
    /\ UNCHANGED <<contextVars, ownPermitVars, gauges, ioVars, slot, gr, causeVars>>

\* Allocate fails, or turnPreparationTimeout or a cancellation closed its
\* socket: a relay got in the meantime is closed and the call returns.
AllocateFails ==
    /\ main = "allocating"
    /\ main' = "leaving"
    /\ UNCHANGED <<contextVars, ownPermitVars, gauges, ioVars, slot, gr, causeVars>>

\* Allocate succeeds and prepCtx is still good: the keepalive and the two
\* relay goroutines start, stopRelay is armed.
Allocated ==
    /\ main = "allocating" /\ ~sess
    /\ main' = "relayed"
    /\ relay' = TRUE
    /\ gr' = [g \in Goroutines |->
                 IF g \in RelayGoroutines \cup {"binding"} THEN "running" ELSE gr[g]]
    /\ armed' = armed \cup {"stopRelay"}
    /\ UNCHANGED <<contextVars, ownPermitVars, gauges, dtls, readFar, unblocked, slot, causeVars>>

-----------------------------------------------------------------------------
\* DTLS handshake

\* No certificate (the permit is kept until the deferred call) or no client.
SetupFails ==
    /\ main = "relayed"
    /\ main' = "unwired"
    /\ armed' = armed \ {"stopRelay"}
    /\ \/ UNCHANGED <<permit, reported, inFlight>>
       \/ releasePermit("other")
    /\ UNCHANGED <<contextVars, outcome, waiting, connections, relay, dtls, readFar,
                   unblocked, slot, gr, causeVars>>

StartHandshake ==
    /\ main = "relayed"
    /\ main' = "handshaking"
    /\ dtls' = "open"
    /\ hctx' = IF sess THEN "canceled" ELSE "live"
    /\ UNCHANGED <<parent, sess, ownPermitVars, gauges, relay, readFar, armed, unblocked,
                   slot, gr, causeVars>>

\* HandshakeContext returns an error: its context ended, or a transport error;
\* either may look like a time-out or not, whatever ended the handshake.
\* hctx.Err() is read before hcancel: afterwards only `parent` and sessCtx matter.
HandshakeFails ==
    /\ main = "handshaking"
    /\ main' = "judging"
    /\ hctx' = IF hctx = "live" THEN "none" ELSE hctx
    /\ hsErr' \in {"timeout", "other"}
    /\ UNCHANGED <<parent, sess, ownPermitVars, gauges, ioVars, slot, gr,
                   cause, named, wrapFailed, blamed>>

\* The arguments of classifyHandshakeFailure are evaluated before its tests.
ReadCause ==
    /\ main = "judging"
    /\ main' = "classifying"
    /\ named' = cause
    /\ UNCHANGED <<contextVars, ownPermitVars, gauges, ioVars, slot, gr,
                   cause, wrapFailed, hsErr, blamed>>

\* Its first test: a run that was stopped.
TestParent ==
    /\ main = "classifying"
    /\ IF parent
          THEN main' = "reporting" /\ outcome' = "canceled" /\ blamed' = "parent"
          ELSE main' = "comparing" /\ UNCHANGED <<outcome, blamed>>
    /\ UNCHANGED <<contextVars, permit, reported, gauges, ioVars, slot, gr,
                   cause, named, wrapFailed, hsErr>>

\* errors.Is(handshakeCtxErr, DeadlineExceeded) || isTimeoutError(hsErr)
HandshakeTimedOut == hctx = "deadline" \/ hsErr = "timeout"

\* A mutant: the teardown is tested before the time-out.
CauseOfFailureTeardownFirst ==
    IF sess THEN "teardown" ELSE IF HandshakeTimedOut THEN "timeout" ELSE "transport"

CauseOfFailure ==
    IF HandshakeTimedOut THEN "timeout" ELSE IF sess THEN "teardown" ELSE "transport"

\* Its other tests, in their order; only a time-out is an outcome of its own.
Classify ==
    /\ main = "comparing"
    /\ main' = "reporting"
    /\ blamed' = CauseOfFailure
    /\ outcome' = IF CauseOfFailure = "timeout" THEN "timeout" ELSE "other"
    /\ UNCHANGED <<contextVars, permit, reported, gauges, ioVars, slot, gr,
                   cause, named, wrapFailed, hsErr>>

\* RunSession finishes the permit with the outcome and returns the error.
ReportFailure ==
    /\ main = "reporting"
    /\ main' = "unslotted"
    /\ releasePermit(outcome)
    /\ UNCHANGED <<contextVars, outcome, waiting, connections, ioVars, slot, gr, causeVars>>

\* The handshake succeeds; a cancellation that comes as it completes is not
\* noticed before the session is set up.
Established ==
    /\ main = "handshaking" /\ hctx = "live"
    /\ main' = "established"
    /\ hctx' = "none"
    /\ outcome' = "success"
    /\ releasePermit("success")
    /\ connections' = connections + 1
    /\ UNCHANGED <<parent, sess, waiting, ioVars, slot, gr, causeVars>>

-----------------------------------------------------------------------------
\* The established session

\* FATAL_AUTH, or AUTH could not be sent.
AuthFails ==
    /\ main = "established"
    /\ main' = "unslotted"
    /\ UNCHANGED <<contextVars, ownPermitVars, gauges, ioVars, slot, gr, causeVars>>

Register ==
    /\ main = "established"
    /\ main' = "registered"
    /\ slot' = TRUE
    /\ UNCHANGED <<contextVars, ownPermitVars, gauges, ioVars, gr, causeVars>>

StartProxy ==
    /\ main = "registered"
    /\ main' = "joining"
    /\ armed' = armed \cup {"stopDTLS"}
    /\ gr' = [g \in Goroutines |-> CASE g = "reader" -> "arming"
                                     [] g \in {"keepalive", "writer"} -> "running"
                                     [] OTHER -> gr[g]]
    /\ UNCHANGED <<contextVars, ownPermitVars, gauges, relay, dtls, readFar, unblocked,
                   slot, causeVars>>

\* An AfterFunc of sessCtx runs, in a goroutine of its own: it moves the
\* deadlines of the relay and the pipe, or of the DTLS connection, to now.
RunAfterFunc(f) ==
    /\ sess /\ f \in armed
    /\ armed' = armed \ {f}
    /\ unblocked' = unblocked \cup {f}
    /\ readFar' = (readFar /\ f # "stopDTLS")
    /\ UNCHANGED <<main, contextVars, ownPermitVars, gauges, relay, dtls, slot, gr, causeVars>>

-----------------------------------------------------------------------------
\* The goroutines

GoTo(g, p) == gr' = [gr EXCEPT ![g] = p]

\* teardownCause.record: the first error stays.
RecordCause ==
    cause' = IF cause # "none" THEN cause ELSE IF sess THEN "secondary" ELSE "primary"

\* relay -> pipeA and pipeA -> relay: a read or a write fails, by itself, or
\* because its deadline has passed or its end is closed.
RelayFails(g) ==
    /\ gr[g] = "running"
    /\ GoTo(g, "failing")
    /\ RecordCause
    /\ UNCHANGED <<main, contextVars, ownPermitVars, gauges, ioVars, slot,
                   named, wrapFailed, hsErr, blamed>>

\* obfsWrapPacket fails: the goroutine returns and records nothing.
WrapFails ==
    /\ gr["relayOut"] = "running"
    /\ GoTo("relayOut", "failing")
    /\ wrapFailed' = TRUE
    /\ UNCHANGED <<main, contextVars, ownPermitVars, gauges, ioVars, slot,
                   cause, named, hsErr, blamed>>

\* The deferred sessCancel of a goroutine, then its Done.
GoroutineEnds(g) ==
    /\ gr[g] = "failing"
    /\ GoTo(g, "off")
    /\ SessCancel
    /\ UNCHANGED <<main, parent, ownPermitVars, gauges, ioVars, slot, causeVars>>

\* The TURN keepalive ends with the session, the DTLS one also when a write
\* fails; neither cancels the session.
KeepaliveEnds(g) ==
    /\ g \in {"binding", "keepalive"} /\ gr[g] = "running"
    /\ g = "binding" => sess
    /\ GoTo(g, "off")
    /\ UNCHANGED <<main, contextVars, ownPermitVars, gauges, ioVars, slot, causeVars>>

\* The writer sees sessCtx done, or its Write fails.
WriterReturns ==
    /\ gr["writer"] = "running"
    /\ GoTo("writer", "failing")
    /\ UNCHANGED <<main, contextVars, ownPermitVars, gauges, ioVars, slot, causeVars>>

\* The reader: SetReadDeadline(now + sessionReadTimeout), whatever the AfterFunc
\* may have set before.
SetReadDeadline ==
    /\ gr["reader"] = "arming"
    /\ GoTo("reader", "reading")
    /\ readFar' = (dtls = "open")
    /\ UNCHANGED <<main, contextVars, ownPermitVars, gauges, relay, dtls, armed, unblocked,
                   slot, causeVars>>

\* Read returns data, or a keepalive answer.
ReadReturns ==
    /\ gr["reader"] = "reading" /\ dtls = "open"
    /\ \/ GoTo("reader", "pushing")
       \/ GoTo("reader", "arming")
    /\ UNCHANGED <<main, contextVars, ownPermitVars, gauges, ioVars, slot, causeVars>>

\* Read times out: the deadline set by the AfterFunc, or 30 minutes of silence.
\* A live session goes on.
ReadTimesOut ==
    /\ gr["reader"] = "reading"
    /\ GoTo("reader", IF sess THEN "failing" ELSE "arming")
    /\ readFar' = FALSE
    /\ UNCHANGED <<main, contextVars, ownPermitVars, gauges, relay, dtls, armed, unblocked,
                   slot, causeVars>>

ReadFails ==
    /\ gr["reader"] = "reading"
    /\ GoTo("reader", "failing")
    /\ UNCHANGED <<main, contextVars, ownPermitVars, gauges, ioVars, slot, causeVars>>

\* ReturnCh takes the packet.
Push ==
    /\ gr["reader"] = "pushing"
    /\ GoTo("reader", "arming")
    /\ UNCHANGED <<main, contextVars, ownPermitVars, gauges, ioVars, slot, causeVars>>

\* ReturnCh is full and sessCtx is done.
PushGivesUp ==
    /\ gr["reader"] = "pushing" /\ sess
    /\ GoTo("reader", "failing")
    /\ UNCHANGED <<main, contextVars, ownPermitVars, gauges, ioVars, slot, causeVars>>

-----------------------------------------------------------------------------
\* The end of the session

\* proxyWg.Wait returns; cleanup is next.
Joined ==
    /\ main = "joining"
    /\ Gone(ProxyGoroutines)
    /\ main' = "closing"
    /\ UNCHANGED <<contextVars, ownPermitVars, gauges, ioVars, slot, gr, causeVars>>

\* A mutant: cleanup leaves the relay and the pipe open.
CleanupWithoutClose ==
    /\ main \in {"closing", "unwired"}
    /\ main' = "joiningAll"
    /\ SessCancel
    /\ UNCHANGED <<parent, ownPermitVars, gauges, ioVars, slot, gr, causeVars>>

\* cleanup up to its Waits: everything is closed.  It runs before the deferred
\* calls when the proxy goroutines have ended, among them otherwise.
Cleanup ==
    /\ main \in {"closing", "unwired"}
    /\ main' = "joiningAll"
    /\ SessCancel
    /\ dtls' = IF dtls = "open" THEN "closed" ELSE dtls
    /\ relay' = FALSE
    /\ readFar' = FALSE
    /\ UNCHANGED <<parent, ownPermitVars, gauges, armed, unblocked, slot, gr, causeVars>>

\* A mutant: cleanup waits for the proxy goroutines only.
CleanedUpEarly ==
    /\ main = "joiningAll"
    /\ Gone(ProxyGoroutines)
    /\ main' = IF slot THEN "unwinding" ELSE "cooling"
    /\ UNCHANGED <<contextVars, ownPermitVars, gauges, ioVars, slot, gr, causeVars>>

\* The Waits of cleanup; a second cleanup does nothing.
CleanedUp ==
    /\ main = "joiningAll"
    /\ Gone(Goroutines)
    /\ main' = IF slot THEN "unwinding" ELSE "cooling"
    /\ UNCHANGED <<contextVars, ownPermitVars, gauges, ioVars, slot, gr, causeVars>>

\* The deferred calls of a registered session: stopDTLS and Unregister.
Unslot ==
    /\ main = "unwinding"
    /\ main' = "unslotted"
    /\ armed' = armed \ {"stopDTLS"}
    /\ slot' = FALSE
    /\ UNCHANGED <<contextVars, ownPermitVars, gauges, relay, dtls, readFar, unblocked, gr,
                   causeVars>>

\* ActiveConnections, dtlsConn.Close and stopRelay.  cleanup follows if it has
\* not run yet.
Unwire ==
    /\ main = "unslotted"
    /\ connections' = IF outcome = "success" THEN connections - 1 ELSE connections
    /\ dtls' = "closed"
    /\ readFar' = FALSE
    /\ armed' = armed \ {"stopRelay"}
    /\ main' = IF relay THEN "unwired" ELSE "cooling"
    /\ UNCHANGED <<contextVars, ownPermitVars, waiting, inFlight, relay, unblocked, slot, gr,
                   causeVars>>

\* seatCoolFor, cut short by ctx.
CoolingOver ==
    /\ main = "cooling"
    /\ main' = "leaving"
    /\ UNCHANGED <<contextVars, ownPermitVars, gauges, ioVars, slot, gr, causeVars>>

\* The outermost deferred calls: sockets, releasePermit, sessCancel.
Leave ==
    /\ main = "leaving"
    /\ main' = "idle"
    /\ releasePermit(outcome)
    /\ SessCancel
    /\ UNCHANGED <<parent, outcome, waiting, connections, ioVars, slot, gr, causeVars>>

-----------------------------------------------------------------------------
\* RunSession's own steps between Begin and its return.
MainStep ==
    \/ Granted \/ AcquireFails
    \/ Prepared \/ PrepareFails \/ AllocateFails \/ Allocated
    \/ SetupFails \/ StartHandshake \/ HandshakeFails \/ ReadCause \/ TestParent \/ Classify
    \/ ReportFailure \/ Established
    \/ AuthFails \/ Register \/ StartProxy
    \/ Joined \/ Cleanup \/ CleanedUp \/ Unslot \/ Unwire \/ CoolingOver \/ Leave

SessionNext ==
    \/ CancelParent \/ NewRun \/ HandshakeDeadline \/ Begin
    \/ MainStep
    \/ \E f \in {"stopRelay", "stopDTLS"} : RunAfterFunc(f)
    \/ \E g \in RelayGoroutines : RelayFails(g)
    \/ WrapFails
    \/ \E g \in Goroutines : GoroutineEnds(g) \/ KeepaliveEnds(g)
    \/ WriterReturns
    \/ SetReadDeadline \/ ReadReturns \/ ReadTimesOut \/ ReadFails
    \/ Push \/ PushGivesUp

SessionSpec == SessionInit /\ [][SessionNext]_sessionVars

\* A blocked relay or pipe call returns once its deadline has passed or its end
\* is closed, not merely because the session is cancelled.
RelayUnblocked == "stopRelay" \in unblocked \/ ~relay

\* The calls of RunSession are bounded (Acquire by AcquireGoesOn of TurnScheduler,
\* the preparation by 20 s, the handshake by 50 s, the configuration by its own
\* deadlines); a ready goroutine runs.  What is left in the pipe of a cancelled
\* session is finite, so Read fails or times out in the end.
FairSessionSpec ==
    /\ SessionSpec
    /\ WF_sessionVars(MainStep)
    /\ \A f \in {"stopRelay", "stopDTLS"} : WF_sessionVars(RunAfterFunc(f))
    /\ \A g \in RelayGoroutines : WF_sessionVars(RelayUnblocked /\ RelayFails(g))
    /\ \A g \in Goroutines :
          WF_sessionVars(GoroutineEnds(g)) /\ WF_sessionVars(sess /\ KeepaliveEnds(g))
    /\ WF_sessionVars(sess /\ WriterReturns)
    /\ WF_sessionVars(SetReadDeadline) /\ WF_sessionVars(PushGivesUp)
    /\ SF_sessionVars(sess /\ (ReadTimesOut \/ ReadFails))

-----------------------------------------------------------------------------
\* Every variable of the session has a value of its type; the gauges shared
\* by all workers never go below what this session contributes.
SessionTypeOK ==
    /\ main \in SessionLocations
    /\ parent \in BOOLEAN /\ sess \in BOOLEAN
    /\ hctx \in {"none", "live", "deadline", "canceled"}
    /\ permit \in BOOLEAN
    /\ outcome \in {"other", "success", "timeout", "canceled"}
    /\ reported \in {"none", "other", "success", "timeout", "canceled"}
    /\ waiting \in {0, 1} /\ inFlight \in {0, 1} /\ connections \in {0, 1}
    /\ relay \in BOOLEAN /\ dtls \in {"none", "open", "closed"} /\ readFar \in BOOLEAN
    /\ armed \subseteq {"stopRelay", "stopDTLS"}
    /\ unblocked \subseteq {"stopRelay", "stopDTLS"}
    /\ slot \in BOOLEAN
    /\ gr \in [Goroutines -> Places]
    /\ {cause, named} \subseteq {"none", "primary", "secondary"} /\ wrapFailed \in BOOLEAN
    /\ hsErr \in {"none", "timeout", "other"}
    /\ blamed \in {"none", "parent", "timeout", "teardown", "transport"}

\* When RunSession has returned, on whatever path, nothing of the session is
\* left: no goroutine, no open relay or DTLS connection, no slot in the
\* dispatcher, no permit, no armed AfterFunc and nothing in the gauges
\* (session.go's deferred calls and cleanup).
NothingIsLeft ==
    main = "idle" => /\ Gone(Goroutines)
                     /\ ~relay /\ dtls # "open" /\ ~slot /\ ~permit /\ armed = {}
                     /\ waiting = 0 /\ inFlight = 0 /\ connections = 0

\* The gauges count what they are named after: a permit in flight is counted
\* until it is finished, and a session that is connected or being unwound is an
\* active connection and holds no permit.
GaugesMatch ==
    /\ inFlight = 1 <=> permit
    /\ connections = 1 => ~permit /\ dtls # "none"
    /\ slot => connections = 1

\* A slot of the dispatcher whose writer has ended belongs to a session that is
\* cancelled: packets are never queued for a session that goes on without
\* sending them.
SlotHasAWriter ==
    slot /\ main # "registered" /\ gr["writer"] = "off" => sess

\* RunSession accounts for what it holds: while it runs the gauges and the slot
\* stand for something that is alive, and when it returns nothing is left.
ResourcesAreAccountedFor == NothingIsLeft /\ GaugesMatch /\ SlotHasAWriter

\* The scheduler and the worker judge a failed handshake alike, and by what ended
\* it (classifyHandshakeFailure, permitOutcome, teardownCause).
\* A timeout is counted against the endpoint exactly when the worker is given the
\* error that makes it go to another endpoint.  Unless the run was stopped, that
\* is so exactly when the handshake's deadline had passed or its error looks like
\* a time-out, and neither a teardown of the session nor the end of the run
\* afterwards changes it.  An end of the run found by the classification is
\* reported as a cancellation, and nothing else is unless the run ends.  When the
\* cancellation of the session ended the handshake, a teardown error carries what
\* cancelled it, not an error that followed from the cancellation; only a failed
\* obfuscation leaves no cause.
EndpointIsBlamedFairly ==
    /\ reported # "none" => (reported = "timeout" <=> blamed = "timeout")
    /\ blamed \notin {"none", "parent"} => (blamed = "timeout" <=> HandshakeTimedOut)
    /\ blamed = "parent" /\ reported # "none" => reported = "canceled"
    /\ reported = "canceled" => parent \/ main = "idle"
    /\ reported = "success" => blamed = "none"
    /\ blamed = "teardown" /\ hctx = "canceled" /\ ~wrapFailed => named = "primary"

\* The session as PermitUse sees it.
OwnPermit ==
    IF main = "queued" THEN "asking" ELSE IF permit THEN "holding" ELSE "out"

Permit == INSTANCE PermitUse WITH
           state   <- OwnPermit,
           stopped <- parent /\ OwnPermit # "out",
           told    <- reported

\* A session does what the scheduler expects of it (TurnScheduler makes the same
\* promise): on no path does it finish a permit twice or keep it when it asks for
\* the next one, its wait ends with an error only when the run was stopped, since
\* nothing else can have cancelled it by then, and what it reports at any of the
\* places where it may finish agrees with the run (releasePermit, permitOutcome).
PermitIsHonoured == Permit!UseSpec

\* Once the session is cancelled, by the run or by the end of one of its
\* goroutines, RunSession returns.
SessionEnds ==
    (sess \/ \E g \in Goroutines : gr[g] = "failing") ~> (main = "idle")

\* The comment of cleanup: goroutines are waited for only after their I/O has
\* been unblocked.  While RunSession waits for the proxy goroutines of a
\* cancelled session and stopDTLS has run, the reader is not in a Read whose
\* deadline is still sessionReadTimeout away.
JoinedAfterUnblocking ==
    main = "joining" /\ sess /\ "stopDTLS" \in unblocked
       => ~(gr["reader"] = "reading" /\ readFar)
=============================================================================
