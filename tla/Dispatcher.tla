----------------------------- MODULE Dispatcher -----------------------------
(***************************************************************************)
(* The dispatcher between the local WireGuard socket and the sessions,     *)
(* go_client/dispatcher.go, composed with the two ends of each session     *)
(* that touch it (the writer and the reader goroutine of session.go) and   *)
(* with the end of a run (runOnce in ios_bridge.go).                       *)
(*                                                                         *)
(* A packet is known by the buffer that carries it: buffers come from      *)
(* pktPool and go back to it, and one put twice would carry two packets at *)
(* once.  A buffer that is dropped with its channel is collected, and      *)
(* sync.Pool makes another in its place.  An iteration of a loop that does *)
(* not wait between its first and its last effect is one step.             *)
(***************************************************************************)
EXTENDS Integers, Sequences, FiniteSets, SequencesExt

CONSTANTS
    Slots,       \* WorkerSlots, one per session
    Readers,     \* bound: the sessions that receive packets
    Watched,     \* the session whose service is checked
    Buffers,     \* bound: packet buffers in existence
    Nothing,     \* no buffer, no slot
    ChunkSize,   \* chunkSize
    SendCap,     \* workerSendBuf
    ReturnCap    \* returnChBuf

ASSUME DispatcherAssumption ==
    /\ IsFiniteSet(Slots) /\ IsFiniteSet(Buffers)
    /\ Readers \subseteq Slots /\ Watched \in Slots
    /\ Nothing \notin Slots \cup Buffers
    /\ ChunkSize \in Nat \ {0, 1}
    /\ SendCap \in Nat \ {0} /\ ReturnCap \in Nat \ {0}

VARIABLES
    workers,     \* d.workers
    rrIndex, rrCount,
    sendCh,      \* slot.SendCh of each session
    returnCh,    \* d.ReturnCh
    pool,        \* pktPool: how often each buffer is in it
    loops,       \* readLoop and writeLoop, as long as they run
    client,      \* clientAddr is known
    sess,        \* sessions: new, up, down (sessCtx done, goroutines ending), gone
    inPkt,       \* the packet of the reader's select
    run,         \* up, cancelled (runCtx done), shutting (in Shutdown), over
    local,       \* the local socket is open
    last         \* history: where the last packet went since a Register

rrVars == <<workers, rrIndex, rrCount>>
loopVars == <<loops, client>>
sessVars == <<sess, inPkt>>
runVars == <<run, local>>
vars == <<rrVars, sendCh, returnCh, pool, loopVars, sessVars, runVars, last>>

-----------------------------------------------------------------------------
\* getPktBuf returns some buffer of the pool.
getPktBuf(b) == pool[b] > 0 /\ pool' = [pool EXCEPT ![b] = @ - 1]
putPktBuf(b) == pool' = [pool EXCEPT ![b] = @ + 1]

Init ==
    /\ workers = <<>> /\ rrIndex = 0 /\ rrCount = 0
    /\ sendCh = [s \in Slots |-> <<>>] /\ returnCh = <<>>
    /\ pool = [b \in Buffers |-> 1]
    /\ loops = {"read", "write"} /\ client = FALSE
    /\ sess = [s \in Slots |-> "new"]
    /\ inPkt = [s \in Slots |-> Nothing]
    /\ run = "up" /\ local = TRUE
    /\ last = Nothing

-----------------------------------------------------------------------------
\* Registration

\* RunSession registers its slot and starts writer and reader.  The run may be
\* cancelled already.
Register(s) ==
    /\ sess[s] = "new" /\ run \in {"up", "cancelled"}
    /\ workers' = Append(workers, s)
    /\ sess' = [sess EXCEPT ![s] = IF run = "up" THEN "up" ELSE "down"]
    /\ last' = Nothing
    /\ UNCHANGED <<rrIndex, rrCount, sendCh, returnCh, pool, loopVars, inPkt, runVars>>

\* A mutant: the chunk goes on after a removal.
UnregisterKeepsCount(s) ==
    /\ sess[s] = "down" /\ inPkt[s] = Nothing
    /\ \E i \in DOMAIN workers : workers[i] = s /\ workers' = RemoveAt(workers, i)
    /\ rrIndex' = IF rrIndex >= Len(workers') /\ Len(workers') > 0
                     THEN rrIndex % Len(workers') ELSE rrIndex
    /\ sendCh' = [sendCh EXCEPT ![s] = <<>>]
    /\ pool' = [b \in Buffers |-> pool[b] + IF b \in Range(sendCh[s]) THEN 1 ELSE 0]
    /\ sess' = [sess EXCEPT ![s] = "gone"]
    /\ UNCHANGED <<rrCount, last, returnCh, loopVars, inPkt, runVars>>

\* The deferred Unregister, after proxyWg.Wait.  The channel of the slot, with
\* what is left in it, becomes garbage.
Unregister(s) ==
    /\ sess[s] = "down" /\ inPkt[s] = Nothing
    /\ \E i \in DOMAIN workers :
          LET remaining == Len(workers) - 1 IN
          /\ workers[i] = s
          /\ workers' = RemoveAt(workers, i)
          /\ rrIndex' = IF rrIndex >= remaining /\ remaining > 0
                           THEN rrIndex % remaining ELSE rrIndex
    /\ rrCount' = 0
    /\ sendCh' = [sendCh EXCEPT ![s] = <<>>]
    /\ pool' = [b \in Buffers |-> pool[b] + IF b \in Range(sendCh[s]) THEN 1 ELSE 0]
    /\ sess' = [sess EXCEPT ![s] = "gone"]
    /\ UNCHANGED <<last, returnCh, loopVars, inPkt, runVars>>

-----------------------------------------------------------------------------
\* readLoop: local socket -> sessions

Room(s) == Len(sendCh[s]) < SendCap
At(i) == workers[(i % Len(workers)) + 1]

\* ReadFrom returns a packet; the client address is kept.
ReadPacket ==
    /\ "read" \in loops /\ local
    /\ client' = TRUE
    /\ UNCHANGED <<loops, returnCh, sessVars, runVars>>

\* The packet is copied into buffer b, which goes to slot s.
Queue(b, s) ==
    /\ getPktBuf(b)
    /\ sendCh' = [sendCh EXCEPT ![s] = Append(@, b)]
    /\ last' = s

\* The packet is copied into buffer b, and dropped.
Drop(b) ==
    /\ pool[b] > 0
    /\ UNCHANGED <<pool, sendCh, last>>

\* Nobody is registered.
DropWithoutWorkers(b) ==
    /\ ReadPacket
    /\ workers = <<>>
    /\ Drop(b)
    /\ UNCHANGED rrVars

\* A mutant: a full chunk does not move the index on.
DispatchCurrentStays(b) ==
    /\ ReadPacket
    /\ workers # <<>>
    /\ Room(At(rrIndex))
    /\ Queue(b, At(rrIndex))
    /\ rrCount' = (rrCount + 1) % ChunkSize
    /\ UNCHANGED <<workers, rrIndex>>

\* The current worker takes it; a full chunk moves the index on.
DispatchCurrent(b) ==
    /\ ReadPacket
    /\ workers # <<>>
    /\ LET idx == rrIndex % Len(workers) IN
          /\ Room(At(idx))
          /\ Queue(b, At(idx))
          /\ IF rrCount + 1 >= ChunkSize
                THEN rrIndex' = (idx + 1) % Len(workers) /\ rrCount' = 0
                ELSE rrCount' = rrCount + 1 /\ UNCHANGED rrIndex
    /\ UNCHANGED workers

\* The current worker is full: the first one after it that is not starts a new
\* chunk.
DispatchAlternate(b) ==
    /\ ReadPacket
    /\ workers # <<>>
    /\ LET nw == Len(workers)
           idx == rrIndex % nw
       IN  \E i \in 1..(nw - 1) :
              /\ Room(At(idx + i)) /\ \A j \in 0..(i - 1) : ~Room(At(idx + j))
              /\ Queue(b, At(idx + i))
              /\ rrIndex' = (idx + i) % nw
    /\ rrCount' = 1
    /\ UNCHANGED workers

\* Every worker is full: the index moves on.
DropWhenFull(b) ==
    /\ ReadPacket
    /\ workers # <<>>
    /\ \A i \in DOMAIN workers : ~Room(workers[i])
    /\ Drop(b)
    /\ rrIndex' = ((rrIndex % Len(workers)) + 1) % Len(workers)
    /\ rrCount' = 0
    /\ UNCHANGED workers

\* The loop ends at its head, or when ReadFrom fails, once d.ctx is done.
ReadLoopEnds ==
    /\ "read" \in loops /\ run # "up"
    /\ loops' = loops \ {"read"}
    /\ UNCHANGED <<rrVars, sendCh, returnCh, pool, client, sessVars, runVars, last>>

-----------------------------------------------------------------------------
\* writeLoop: sessions -> local socket

\* A packet from ReturnCh is written if a client is known, and its buffer put
\* back in any case.  When the write fails and d.ctx is done the loop ends.
WriteBack ==
    /\ "write" \in loops /\ returnCh # <<>>
    /\ returnCh' = Tail(returnCh)
    /\ putPktBuf(Head(returnCh))
    /\ \/ UNCHANGED loops
       \/ client /\ run # "up" /\ loops' = loops \ {"write"}
    /\ UNCHANGED <<rrVars, sendCh, client, sessVars, runVars, last>>

WriteLoopEnds ==
    /\ "write" \in loops /\ run # "up"
    /\ loops' = loops \ {"write"}
    /\ UNCHANGED <<rrVars, sendCh, returnCh, pool, client, sessVars, runVars, last>>

-----------------------------------------------------------------------------
\* The goroutines of a session

SessionFails(s) ==
    /\ sess[s] = "up"
    /\ sess' = [sess EXCEPT ![s] = "down"]
    /\ UNCHANGED <<rrVars, sendCh, returnCh, pool, loopVars, inPkt, runVars,
                   last>>

\* The writer's select takes a packet, also when sessCtx is done.  The buffer
\* goes back whether Write fails or not; a failure ends the writer, and with it
\* the session.
WritePacket(s) ==
    /\ sess[s] \in {"up", "down"} 
    /\ sendCh[s] # <<>>
    /\ sendCh' = [sendCh EXCEPT ![s] = Tail(@)]
    /\ putPktBuf(Head(sendCh[s]))
    /\ \/ UNCHANGED sess
       \/ sess' = [sess EXCEPT ![s] = "down"]
    /\ UNCHANGED <<rrVars, returnCh, loopVars, inPkt, runVars, last>>

\* Read returns a packet, which is copied into a buffer.
ReaderReads(s, b) ==
    /\ sess[s] \in {"up", "down"} /\ inPkt[s] = Nothing
    /\ getPktBuf(b)
    /\ inPkt' = [inPkt EXCEPT ![s] = b]
    /\ UNCHANGED <<rrVars, sendCh, returnCh, loopVars, sess, runVars, last>>

ReaderPushes(s) ==
    /\ inPkt[s] # Nothing /\ Len(returnCh) < ReturnCap
    /\ returnCh' = Append(returnCh, inPkt[s])
    /\ inPkt' = [inPkt EXCEPT ![s] = Nothing]
    /\ UNCHANGED <<rrVars, sendCh, pool, loopVars, sess, runVars, last>>

\* A mutant: the buffer of the packet is forgotten.
ReaderGivesUpLeaks(s) ==
    /\ inPkt[s] # Nothing /\ sess[s] = "down"
    /\ inPkt' = [inPkt EXCEPT ![s] = Nothing]
    /\ UNCHANGED <<rrVars, sendCh, returnCh, pool, loopVars, sess, runVars, last>>

\* sessCtx is done while the reader waits for room in ReturnCh.
ReaderGivesUp(s) ==
    /\ inPkt[s] # Nothing /\ sess[s] = "down"
    /\ putPktBuf(inPkt[s])
    /\ inPkt' = [inPkt EXCEPT ![s] = Nothing]
    /\ UNCHANGED <<rrVars, sendCh, returnCh, loopVars, sess, runVars, last>>

-----------------------------------------------------------------------------
\* The end of the run

\* runCtx is cancelled: d.ctx and every sessCtx with it.
CancelRun ==
    /\ run = "up"
    /\ run' = "cancelled"
    /\ sess' = [s \in Slots |-> IF sess[s] = "up" THEN "down" ELSE sess[s]]
    /\ UNCHANGED <<rrVars, sendCh, returnCh, pool, loopVars, inPkt, local,
                   last>>

\* A mutant: the socket is closed only after Shutdown, by a deferred call.
CloseLocalLate ==
    /\ run = "over" /\ local
    /\ local' = FALSE
    /\ UNCHANGED <<rrVars, sendCh, returnCh, pool, loopVars, sessVars, run, last>>

\* stopLocalConn, an AfterFunc of runCtx.
CloseLocal ==
    /\ run # "up" /\ local
    /\ local' = FALSE
    /\ UNCHANGED <<rrVars, sendCh, returnCh, pool, loopVars, sessVars, run, last>>

\* runOnce calls Shutdown when all worker groups have returned.
BeginShutdown ==
    /\ run = "cancelled"
    /\ \A s \in Slots : sess[s] \in {"new", "gone"}
    /\ run' = "shutting"
    /\ UNCHANGED <<rrVars, sendCh, returnCh, pool, loopVars, sessVars, local, last>>

ShutdownReturns ==
    /\ run = "shutting" /\ loops = {}
    /\ run' = "over"
    /\ UNCHANGED <<rrVars, sendCh, returnCh, pool, loopVars, sessVars, local, last>>

-----------------------------------------------------------------------------
Dispatch(b) ==
    DispatchCurrent(b) \/ DispatchAlternate(b) \/ DropWhenFull(b) \/ DropWithoutWorkers(b)

Next ==
    \/ \E s \in Slots :
          \/ Register(s) \/ Unregister(s) \/ SessionFails(s)
          \/ WritePacket(s)
          \/ ReaderPushes(s) \/ ReaderGivesUp(s)
    \/ \E b \in Buffers :
          \/ DispatchCurrent(b) \/ DispatchAlternate(b)
          \/ DropWhenFull(b) \/ DropWithoutWorkers(b)
          \/ \E s \in Readers : ReaderReads(s, b)
    \/ ReadLoopEnds \/ WriteBack \/ WriteLoopEnds
    \/ CancelRun \/ CloseLocal \/ BeginShutdown \/ ShutdownReturns
    \/ run = "over" /\ UNCHANGED vars

Spec == Init /\ [][Next]_vars

\* Goroutines run, network calls return, and WireGuard keeps sending; only the
\* bound on the buffers can keep a packet from being read, for a while (SF).  A
\* session is cancelled when one of its goroutines ends; it need not end by
\* itself.
FairSpec ==
    /\ Spec
    /\ SF_vars(\E b \in Buffers : Dispatch(b))
    /\ WF_vars(~local /\ ReadLoopEnds) /\ WF_vars(WriteBack \/ WriteLoopEnds)
    /\ WF_vars(CloseLocal) /\ WF_vars(BeginShutdown \/ ShutdownReturns)
    /\ \A s \in Slots : WF_vars(WritePacket(s)) /\ SF_vars(Unregister(s))
    /\ \A s \in Readers : WF_vars(ReaderPushes(s) \/ ReaderGivesUp(s))

-----------------------------------------------------------------------------
\* The ends of all the places a packet can be: pool, queues and goroutines.
Places(b) ==
    pool[b] + Cardinality({s \in Slots : inPkt[s] = b})
    + Cardinality({i \in DOMAIN returnCh : returnCh[i] = b})
    + Cardinality({q \in Slots \X (1..SendCap) :
                     q[2] <= Len(sendCh[q[1]]) /\ sendCh[q[1]][q[2]] = b})

\* Every variable of the dispatcher has a value of its type: queues stay within
\* their capacities, and the current chunk is not full.
TypeOK ==
    /\ workers \in Seq(Slots) /\ rrIndex \in Nat /\ rrCount \in 0..(ChunkSize - 1)
    /\ sendCh \in [Slots -> Seq(Buffers)] /\ \A s \in Slots : Len(sendCh[s]) <= SendCap
    /\ returnCh \in Seq(Buffers) /\ Len(returnCh) <= ReturnCap
    /\ pool \in [Buffers -> Nat]
    /\ loops \subseteq {"read", "write"} /\ client \in BOOLEAN
    /\ sess \in [Slots -> {"new", "up", "down", "gone"}]
    /\ inPkt \in [Slots -> Buffers \cup {Nothing}]
    /\ run \in {"up", "cancelled", "shutting", "over"} /\ local \in BOOLEAN
    /\ last \in Slots \cup {Nothing}

\* A buffer has exactly one owner: it is once in the pool, or one queue or
\* goroutine holds it.  Nobody puts a buffer twice, and none is lost when a
\* packet is dropped, a queue is full or a session ends half-way
\* (getPktBuf/putPktBuf in dispatcher.go and session.go).
OneOwner == \A b \in Buffers : Places(b) = 1

\* While a chunk is under way the round-robin index points at the worker that
\* got its packets, whatever workers were removed in between: packets of one
\* chunk take one relay.
ChunkStaysTogether ==
    last # Nothing /\ rrCount > 0 => workers # <<>> /\ At(rrIndex) = last

\* As long as packets come and nobody joins or leaves for ever, a registered
\* worker is given a packet or ends: busy neighbours do not starve it.
EveryWorkerIsServed ==
    (sess[Watched] = "up") ~> (last = Watched \/ sess[Watched] # "up")

\* A cancelled run gets through Shutdown: readLoop leaves ReadFrom because the
\* local socket is closed, and a full ReturnCh holds no session up.
ShutdownEnds == (run = "cancelled") ~> (run = "over")
=============================================================================
