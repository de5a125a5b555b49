-------------------------- MODULE DispatcherProofs --------------------------
(***************************************************************************)
(* Proofs about Dispatcher, for any number of sessions and buffers and any *)
(* capacity of the channels: every packet buffer has one owner, the        *)
(* packets of a chunk take one worker, and the workers are exactly the     *)
(* sessions that run.                                                      *)
(*                                                                         *)
(* OneOwner counts the places of a buffer with cardinalities.  Its         *)
(* inductive form says where the buffer is: in the pool, with one reader,  *)
(* once in ReturnCh, or once in one SendCh.                                *)
(***************************************************************************)
EXTENDS Dispatcher, FiniteSetTheorems, SequenceTheorems, TLAPS

\* Buffer b is not in the queue; it is in it, at one position.
Absent(q, b) == \A i \in DOMAIN q : q[i] # b
Once(q, b) == \E i \in DOMAIN q : q[i] = b /\ \A j \in DOMAIN q : q[j] = b => j = i

NoReader(b) == \A s \in Slots : inPkt[s] # b
NotQueued(b) == \A s \in Slots : Absent(sendCh[s], b)
OneReader(b) == \E s \in Slots : inPkt[s] = b /\ \A t \in Slots : inPkt[t] = b => t = s
QueuedOnce(b) ==
    \E s \in Slots : Once(sendCh[s], b) /\ \A t \in Slots \ {s} : Absent(sendCh[t], b)

\* The buffer is in one of its four places.
InPool(b) == pool[b] = 1 /\ NoReader(b) /\ Absent(returnCh, b) /\ NotQueued(b)
WithReader(b) == pool[b] = 0 /\ OneReader(b) /\ Absent(returnCh, b) /\ NotQueued(b)
Returning(b) == pool[b] = 0 /\ NoReader(b) /\ Once(returnCh, b) /\ NotQueued(b)
Sending(b) == pool[b] = 0 /\ NoReader(b) /\ Absent(returnCh, b) /\ QueuedOnce(b)

Owned(b) == InPool(b) \/ WithReader(b) \/ Returning(b) \/ Sending(b)

\* The sessions between Register and Unregister are in d.workers once, the
\* others are not, and only a registered one has packets.
RegisteredOnce ==
    \A s \in Slots :
       /\ sess[s] \in {"up", "down"} => Once(workers, s)
       /\ sess[s] \in {"new", "gone"} => Absent(workers, s) /\ sendCh[s] = <<>> /\ inPkt[s] = Nothing

Inv ==
    /\ TypeOK
    /\ RegisteredOnce
    /\ \A b \in Buffers : Owned(b)
    /\ ChunkStaysTogether

-----------------------------------------------------------------------------
\* Lemmas about queues

\* An empty queue holds nothing.
LEMMA EmptyHoldsNothing == \A b : Absent(<<>>, b)
  BY DEF Absent

\* What Append does to the places of its element and of the others.
LEMMA QueueAppend ==
    ASSUME NEW T, NEW q \in Seq(T), NEW x \in T
    PROVE  /\ Append(q, x) \in Seq(T) /\ Len(Append(q, x)) = Len(q) + 1
           /\ Absent(q, x) => Once(Append(q, x), x)
           /\ \A b : b # x /\ Absent(q, b) => Absent(Append(q, x), b)
           /\ \A b : b # x /\ Once(q, b) => Once(Append(q, x), b)
  <1> DEFINE r == Append(q, x)
  <1>1. /\ r \in Seq(T) /\ Len(r) = Len(q) + 1 /\ Len(q) \in Nat
        /\ DOMAIN q = 1..Len(q) /\ DOMAIN r = 1..(Len(q) + 1)
        /\ \A i \in 1..Len(q) : r[i] = q[i]
        /\ r[Len(q) + 1] = x
    OBVIOUS
  <1> HIDE DEF r
  <1>2. Absent(q, x) => Once(r, x)
    BY <1>1, SMTT(30) DEF Absent, Once
  <1>3. \A b : b # x /\ Absent(q, b) => Absent(r, b)
    BY <1>1 DEF Absent
  <1>4. ASSUME NEW b, b # x, Once(q, b)
        PROVE  Once(r, b)
    <2>1. PICK i \in DOMAIN q : q[i] = b /\ \A j \in DOMAIN q : q[j] = b => j = i
      BY <1>4 DEF Once
    <2>2. i \in DOMAIN r /\ r[i] = b /\ \A j \in DOMAIN r : r[j] = b => j = i
      BY <1>1, <1>4, <2>1
    <2> QED
      BY <2>2 DEF Once
  <1> QED
    BY <1>1, <1>2, <1>3, <1>4 DEF r

\* What a receive does to the places of the element taken and of the others.
LEMMA QueueTail ==
    ASSUME NEW T, NEW q \in Seq(T), q # <<>>
    PROVE  /\ Head(q) \in T /\ Tail(q) \in Seq(T) /\ Len(Tail(q)) = Len(q) - 1
           /\ ~Absent(q, Head(q))
           /\ Once(q, Head(q)) => Absent(Tail(q), Head(q))
           /\ \A b : Absent(q, b) => Absent(Tail(q), b)
           /\ \A b : b # Head(q) /\ Once(q, b) => Once(Tail(q), b)
  <1> DEFINE r == Tail(q)
  <1>1. /\ Head(q) \in T /\ r \in Seq(T) /\ Len(r) = Len(q) - 1 /\ Len(q) \in Nat \ {0}
        /\ DOMAIN q = 1..Len(q) /\ DOMAIN r = 1..(Len(q) - 1)
        /\ \A i \in 1..(Len(q) - 1) : r[i] = q[i + 1]
        /\ q[1] = Head(q)
    OBVIOUS
  <1> HIDE DEF r
  <1>2. ~Absent(q, Head(q))
    BY <1>1 DEF Absent
  <1>3. Once(q, Head(q)) => Absent(r, Head(q))
    BY <1>1 DEF Absent, Once
  <1>4. \A b : Absent(q, b) => Absent(r, b)
    BY <1>1 DEF Absent
  <1>5. ASSUME NEW b, b # Head(q), Once(q, b)
        PROVE  Once(r, b)
    <2>1. PICK i \in DOMAIN q : q[i] = b /\ \A j \in DOMAIN q : q[j] = b => j = i
      BY <1>5 DEF Once
    <2>2. i \in Nat /\ i # 1 /\ i <= Len(q)
      BY <1>1, <1>5, <2>1
    <2>3. i - 1 \in DOMAIN r /\ r[i - 1] = b
      BY <1>1, <2>1, <2>2
    <2>4. ASSUME NEW j \in DOMAIN r, r[j] = b
          PROVE  j = i - 1
      <3>1. j + 1 \in DOMAIN q /\ q[j + 1] = b
        BY <1>1, <2>4
      <3>2. j + 1 = i
        BY <2>1, <3>1
      <3> QED
        BY <1>1, <3>2
    <2> QED
      BY <2>3, <2>4 DEF Once
  <1> QED
    BY <1>1, <1>2, <1>3, <1>4, <1>5 DEF r

\* What the removal of a position does to the places of its element and of the
\* others.
LEMMA QueueRemove ==
    ASSUME NEW T, NEW q \in Seq(T), NEW i \in DOMAIN q
    PROVE  /\ RemoveAt(q, i) \in Seq(T) /\ Len(RemoveAt(q, i)) = Len(q) - 1
           /\ Once(q, q[i]) => Absent(RemoveAt(q, i), q[i])
           /\ \A b : Absent(q, b) => Absent(RemoveAt(q, i), b)
           /\ \A b : b # q[i] /\ Once(q, b) => Once(RemoveAt(q, i), b)
  <1> DEFINE front == SubSeq(q, 1, i - 1)
             back == SubSeq(q, i + 1, Len(q))
             r == RemoveAt(q, i)
  <1>1. /\ Len(q) \in Nat /\ DOMAIN q = 1..Len(q) /\ i \in 1..Len(q)
    OBVIOUS
  <1>2. /\ front \in Seq(T) /\ Len(front) = i - 1
        /\ \A j \in 1..(i - 1) : front[j] = q[j]
    BY <1>1
  <1>3. /\ back \in Seq(T) /\ Len(back) = Len(q) - i
        /\ \A j \in 1..(Len(q) - i) : back[j] = q[i + j]
    BY <1>1
  <1>4. r = front \o back
    BY DEF RemoveAt
  <1> HIDE DEF front, back, r
  <1>5. /\ r \in Seq(T) /\ Len(r) = Len(q) - 1 /\ DOMAIN r = 1..(Len(q) - 1)
        /\ \A j \in 1..(Len(q) - 1) : r[j] = IF j < i THEN q[j] ELSE q[j + 1]
    <2>1. /\ r \in Seq(T) /\ Len(r) = Len(front) + Len(back)
          /\ \A j \in 1..(Len(front) + Len(back)) :
                r[j] = IF j <= Len(front) THEN front[j] ELSE back[j - Len(front)]
      BY <1>2, <1>3, <1>4, ConcatProperties
    <2>2. Len(r) = Len(q) - 1 /\ DOMAIN r = 1..(Len(q) - 1)
      BY <1>1, <1>2, <1>3, <2>1
    <2>3. ASSUME NEW j \in 1..(Len(q) - 1)
          PROVE  r[j] = IF j < i THEN q[j] ELSE q[j + 1]
      <3>1. CASE j < i
        BY <1>1, <1>2, <1>3, <2>1, <3>1, SMTT(30)
      <3>2. CASE ~(j < i)
        <4>1. r[j] = back[j - (i - 1)]
          BY <1>1, <1>2, <1>3, <2>1, <3>2, SMTT(30)
        <4>2. j - (i - 1) \in 1..(Len(q) - i) /\ i + (j - (i - 1)) = j + 1
          BY <1>1, <3>2
        <4> QED
          BY <1>3, <3>2, <4>1, <4>2
      <3> QED
        BY <3>1, <3>2
    <2> QED
      BY <2>1, <2>2, <2>3
  <1>6. Once(q, q[i]) => Absent(r, q[i])
    BY <1>1, <1>5, SMTT(30) DEF Absent, Once
  <1>7. \A b : Absent(q, b) => Absent(r, b)
    BY <1>1, <1>5 DEF Absent
  <1>8. ASSUME NEW b, b # q[i], Once(q, b)
        PROVE  Once(r, b)
    <2>1. PICK k \in DOMAIN q : q[k] = b /\ \A j \in DOMAIN q : q[j] = b => j = k
      BY <1>8 DEF Once
    <2> DEFINE m == IF k < i THEN k ELSE k - 1
    <2>2. k \in 1..Len(q) /\ k # i
      BY <1>1, <1>8, <2>1
    <2>3. m \in DOMAIN r /\ r[m] = b
      BY <1>1, <1>5, <2>1, <2>2
    <2>4. ASSUME NEW j \in DOMAIN r, r[j] = b
          PROVE  j = m
      <3> DEFINE l == IF j < i THEN j ELSE j + 1
      <3>1. l \in DOMAIN q /\ q[l] = b
        BY <1>1, <1>5, <2>4
      <3>2. l = k
        BY <2>1, <3>1
      <3> QED
        BY <1>1, <1>5, <3>2
    <2> QED
      BY <2>3, <2>4 DEF Once
  <1> QED
    BY <1>5, <1>6, <1>7, <1>8 DEF r

\* A queue without b is one whose range is without it.
LEMMA AbsentIsRange == \A q, b : Absent(q, b) <=> b \notin Range(q)
  BY DEF Absent, Range

\* The round-robin index, reduced modulo the number of workers, names a worker.
LEMMA IndexInRange ==
    ASSUME NEW i \in Nat, NEW n \in Nat \ {0}
    PROVE  i % n \in 0..(n - 1) /\ (i % n) % n = i % n /\ ((i % n) + 1) % n \in Nat
  <1>1. i % n \in 0..(n - 1)
    OBVIOUS
  <1>2. \A k \in 0..(n - 1) : k % n = k
    OBVIOUS
  <1>3. \A k \in Nat : k % n \in Nat
    OBVIOUS
  <1>4. (i % n) + 1 \in Nat
    BY <1>1
  <1> QED
    BY <1>1, <1>2, <1>3, <1>4

-----------------------------------------------------------------------------
\* Lemmas about the owner of a buffer

\* The types of the places a buffer can be in.
PlaceTypes ==
    /\ pool \in [Buffers -> Nat]
    /\ inPkt \in [Slots -> Buffers \cup {Nothing}]
    /\ returnCh \in Seq(Buffers)
    /\ sendCh \in [Slots -> Seq(Buffers)]
    /\ Nothing \notin Buffers

\* A buffer that no place loses or gains keeps its owner.
LEMMA OwnerStays ==
    ASSUME NEW c \in Buffers, Owned(c), pool'[c] = pool[c],
           NoReader(c) => NoReader(c)', OneReader(c) => OneReader(c)',
           Absent(returnCh, c) => Absent(returnCh', c), Once(returnCh, c) => Once(returnCh', c),
           NotQueued(c) => NotQueued(c)', QueuedOnce(c) => QueuedOnce(c)'
    PROVE  Owned(c)'
  BY DEF Owned, InPool, WithReader, Returning, Sending

\* A change of one SendCh that keeps the places of a buffer in it.
LEMMA QueueStays ==
    ASSUME NEW c \in Buffers, NEW s \in Slots,
           \A t \in Slots \ {s} : sendCh'[t] = sendCh[t],
           Absent(sendCh[s], c) => Absent(sendCh'[s], c),
           Once(sendCh[s], c) => Once(sendCh'[s], c)
    PROVE  /\ NotQueued(c) => NotQueued(c)'
           /\ QueuedOnce(c) => QueuedOnce(c)'
  <1>1. NotQueued(c) => NotQueued(c)'
    BY DEF NotQueued
  <1>2. ASSUME QueuedOnce(c)
        PROVE  QueuedOnce(c)'
    <2>1. PICK u \in Slots : Once(sendCh[u], c) /\ \A t \in Slots \ {u} : Absent(sendCh[t], c)
      BY <1>2 DEF QueuedOnce
    <2>2. Once(sendCh'[u], c) /\ \A t \in Slots \ {u} : Absent(sendCh'[t], c)
      BY <2>1
    <2> QED
      BY <2>2 DEF QueuedOnce
  <1> QED
    BY <1>1, <1>2

\* A packet goes from the pool to a SendCh.
LEMMA QueueOwned ==
    ASSUME PlaceTypes, \A c \in Buffers : Owned(c),
           NEW b \in Buffers, NEW s \in Slots, Queue(b, s), UNCHANGED <<returnCh, inPkt>>
    PROVE  \A c \in Buffers : Owned(c)'
  <1>1. /\ pool[b] > 0 /\ pool'[b] = pool[b] - 1 /\ \A c \in Buffers \ {b} : pool'[c] = pool[c]
        /\ sendCh'[s] = Append(sendCh[s], b) /\ \A t \in Slots \ {s} : sendCh'[t] = sendCh[t]
        /\ sendCh[s] \in Seq(Buffers)
    BY DEF Queue, getPktBuf, PlaceTypes
  <1>2. InPool(b)
    BY <1>1 DEF Owned, InPool, WithReader, Returning, Sending
  <1>3. Sending(b)'
    <2>1. pool'[b] = 0
      BY <1>1, <1>2 DEF InPool
    <2>2. NoReader(b)'
      BY <1>2 DEF InPool, NoReader
    <2>3. Absent(returnCh', b)
      BY <1>2 DEF InPool
    <2>4. Absent(sendCh[s], b) /\ \A t \in Slots \ {s} : Absent(sendCh'[t], b)
      BY <1>1, <1>2 DEF InPool, NotQueued
    <2>5. Once(sendCh'[s], b)
      BY <1>1, <2>4, QueueAppend
    <2>6. QueuedOnce(b)'
      BY <2>4, <2>5 DEF QueuedOnce
    <2> QED
      BY <2>1, <2>2, <2>3, <2>6 DEF Sending
  <1>4. ASSUME NEW c \in Buffers, c # b
        PROVE  Owned(c)'
    <2>1. Absent(sendCh[s], c) => Absent(sendCh'[s], c)
      BY <1>1, <1>4, QueueAppend
    <2>2. Once(sendCh[s], c) => Once(sendCh'[s], c)
      BY <1>1, <1>4, QueueAppend
    <2>3. (NotQueued(c) => NotQueued(c)') /\ (QueuedOnce(c) => QueuedOnce(c)')
      BY <1>1, <2>1, <2>2, QueueStays
    <2>4. (NoReader(c) => NoReader(c)') /\ (OneReader(c) => OneReader(c)')
      BY DEF NoReader, OneReader
    <2> QED
      BY <1>1, <1>4, <2>3, <2>4, OwnerStays
  <1> QED
    BY <1>3, <1>4 DEF Owned

\* The writer of a session puts the buffer of its packet back.
LEMMA WriteOwned ==
    ASSUME PlaceTypes, \A c \in Buffers : Owned(c), NEW s \in Slots, WritePacket(s)
    PROVE  \A c \in Buffers : Owned(c)'
  <1>0. PICK b : b = Head(sendCh[s])
    OBVIOUS
  <1>1. /\ sendCh[s] \in Seq(Buffers) /\ sendCh[s] # <<>>
        /\ sendCh'[s] = Tail(sendCh[s]) /\ \A t \in Slots \ {s} : sendCh'[t] = sendCh[t]
        /\ UNCHANGED <<returnCh, inPkt>>
        /\ pool' = [pool EXCEPT ![b] = @ + 1]
    BY <1>0 DEF WritePacket, putPktBuf, PlaceTypes
  <1>2. /\ b \in Buffers /\ ~Absent(sendCh[s], b)
        /\ Once(sendCh[s], b) => Absent(sendCh'[s], b)
        /\ \A c : Absent(sendCh[s], c) => Absent(sendCh'[s], c)
        /\ \A c : c # b /\ Once(sendCh[s], c) => Once(sendCh'[s], c)
    BY <1>0, <1>1, QueueTail
  <1>3. Sending(b)
    BY <1>2 DEF Owned, InPool, WithReader, Returning, NotQueued
  <1>4. InPool(b)'
    <2>1. pool'[b] = 1
      BY <1>1, <1>2, <1>3 DEF Sending, PlaceTypes
    <2>2. NoReader(b)' /\ Absent(returnCh', b)
      BY <1>1, <1>3 DEF Sending, NoReader
    <2>3. Once(sendCh[s], b) /\ \A t \in Slots \ {s} : Absent(sendCh[t], b)
      BY <1>2, <1>3 DEF Sending, QueuedOnce
    <2>4. NotQueued(b)'
      BY <1>1, <1>2, <2>3 DEF NotQueued
    <2> QED
      BY <2>1, <2>2, <2>4 DEF InPool
  <1>5. ASSUME NEW c \in Buffers, c # b
        PROVE  Owned(c)'
    <2>1. (NotQueued(c) => NotQueued(c)') /\ (QueuedOnce(c) => QueuedOnce(c)')
      BY <1>1, <1>2, <1>5, QueueStays
    <2>2. (NoReader(c) => NoReader(c)') /\ (OneReader(c) => OneReader(c)')
      BY <1>1 DEF NoReader, OneReader
    <2>3. pool'[c] = pool[c]
      BY <1>1, <1>5 DEF PlaceTypes
    <2> QED
      BY <1>1, <2>1, <2>2, <2>3, OwnerStays
  <1> QED
    BY <1>4, <1>5 DEF Owned

\* A reader takes a buffer from the pool.
LEMMA ReadOwned ==
    ASSUME PlaceTypes, \A c \in Buffers : Owned(c),
           NEW b \in Buffers, NEW s \in Slots, ReaderReads(s, b)
    PROVE  \A c \in Buffers : Owned(c)'
  <1>1. /\ pool[b] > 0 /\ pool'[b] = pool[b] - 1 /\ \A c \in Buffers \ {b} : pool'[c] = pool[c]
        /\ inPkt[s] = Nothing /\ inPkt'[s] = b /\ \A t \in Slots \ {s} : inPkt'[t] = inPkt[t]
        /\ UNCHANGED <<returnCh, sendCh>>
    BY DEF ReaderReads, getPktBuf, PlaceTypes
  <1>2. InPool(b)
    BY <1>1 DEF Owned, InPool, WithReader, Returning, Sending
  <1>3. WithReader(b)'
    <2>1. pool'[b] = 0 /\ Absent(returnCh', b) /\ NotQueued(b)'
      BY <1>1, <1>2 DEF InPool, NotQueued
    <2>2. OneReader(b)'
      BY <1>1, <1>2 DEF InPool, NoReader, OneReader
    <2> QED
      BY <2>1, <2>2 DEF WithReader
  <1>4. ASSUME NEW c \in Buffers, c # b
        PROVE  Owned(c)'
    <2>1. (NotQueued(c) => NotQueued(c)') /\ (QueuedOnce(c) => QueuedOnce(c)')
      BY <1>1 DEF NotQueued, QueuedOnce
    <2>2. c # Nothing
      BY DEF PlaceTypes
    <2>3. (NoReader(c) => NoReader(c)') /\ (OneReader(c) => OneReader(c)')
      BY <1>1, <1>4, <2>2 DEF NoReader, OneReader
    <2> QED
      BY <1>1, <1>4, <2>1, <2>3, OwnerStays
  <1> QED
    BY <1>3, <1>4 DEF Owned

\* A reader that gives its packet away, to ReturnCh or back to the pool, no
\* longer has the buffer; the other readers keep theirs.
LEMMA ReaderLetsGo ==
    ASSUME PlaceTypes, NEW s \in Slots, inPkt[s] # Nothing, Owned(inPkt[s]),
           inPkt' = [inPkt EXCEPT ![s] = Nothing]
    PROVE  /\ inPkt[s] \in Buffers /\ WithReader(inPkt[s])
           /\ \A t \in Slots : inPkt'[t] # inPkt[s]
           /\ \A c \in Buffers \ {inPkt[s]} :
                 (NoReader(c) => NoReader(c)') /\ (OneReader(c) => OneReader(c)')
  <1>1. inPkt[s] \in Buffers /\ inPkt'[s] = Nothing /\ \A t \in Slots \ {s} : inPkt'[t] = inPkt[t]
    BY DEF PlaceTypes
  <1>2. WithReader(inPkt[s])
    BY DEF Owned, InPool, Returning, Sending, NoReader
  <1>3. \A t \in Slots : inPkt'[t] # inPkt[s]
    BY <1>1, <1>2 DEF WithReader, OneReader
  <1>4. ASSUME NEW c \in Buffers \ {inPkt[s]}
        PROVE  (NoReader(c) => NoReader(c)') /\ (OneReader(c) => OneReader(c)')
    BY <1>1, <1>4 DEF NoReader, OneReader, PlaceTypes
  <1> QED
    BY <1>1, <1>2, <1>3, <1>4

\* A reader pushes its packet to ReturnCh.
LEMMA PushOwned ==
    ASSUME PlaceTypes, \A c \in Buffers : Owned(c), NEW s \in Slots, ReaderPushes(s)
    PROVE  \A c \in Buffers : Owned(c)'
  <1>0. PICK b : b = inPkt[s]
    OBVIOUS
  <1>1. /\ b \in Buffers /\ inPkt[s] # Nothing /\ inPkt' = [inPkt EXCEPT ![s] = Nothing]
        /\ returnCh' = Append(returnCh, b) /\ returnCh \in Seq(Buffers)
        /\ UNCHANGED <<pool, sendCh>>
    BY <1>0 DEF ReaderPushes, PlaceTypes
  <1>2. /\ WithReader(b) /\ \A t \in Slots : inPkt'[t] # b
        /\ \A c \in Buffers \ {b} :
              (NoReader(c) => NoReader(c)') /\ (OneReader(c) => OneReader(c)')
    BY <1>0, <1>1, ReaderLetsGo
  <1>3. Returning(b)'
    <2>1. pool'[b] = 0 /\ NotQueued(b)' /\ Absent(returnCh, b)
      BY <1>1, <1>2 DEF WithReader, NotQueued
    <2>2. Once(returnCh', b)
      BY <1>1, <2>1, QueueAppend
    <2>3. NoReader(b)'
      BY <1>2 DEF NoReader
    <2> QED
      BY <2>1, <2>2, <2>3 DEF Returning
  <1>4. ASSUME NEW c \in Buffers, c # b
        PROVE  Owned(c)'
    <2>1. (NotQueued(c) => NotQueued(c)') /\ (QueuedOnce(c) => QueuedOnce(c)')
      BY <1>1 DEF NotQueued, QueuedOnce
    <2>2. (Absent(returnCh, c) => Absent(returnCh', c)) /\ (Once(returnCh, c) => Once(returnCh', c))
      BY <1>1, <1>4, QueueAppend
    <2> QED
      BY <1>1, <1>2, <1>4, <2>1, <2>2, OwnerStays
  <1> QED
    BY <1>3, <1>4 DEF Owned

\* A reader that is cancelled puts the buffer of its packet back.
LEMMA GiveUpOwned ==
    ASSUME PlaceTypes, \A c \in Buffers : Owned(c), NEW s \in Slots, ReaderGivesUp(s)
    PROVE  \A c \in Buffers : Owned(c)'
  <1>0. PICK b : b = inPkt[s]
    OBVIOUS
  <1>1. /\ b \in Buffers /\ inPkt[s] # Nothing /\ inPkt' = [inPkt EXCEPT ![s] = Nothing]
        /\ pool' = [pool EXCEPT ![b] = @ + 1]
        /\ UNCHANGED <<returnCh, sendCh>>
    BY <1>0 DEF ReaderGivesUp, putPktBuf, PlaceTypes
  <1>2. /\ WithReader(b) /\ \A t \in Slots : inPkt'[t] # b
        /\ \A c \in Buffers \ {b} :
              (NoReader(c) => NoReader(c)') /\ (OneReader(c) => OneReader(c)')
    BY <1>0, <1>1, ReaderLetsGo
  <1>3. InPool(b)'
    <2>1. pool'[b] = 1
      BY <1>1, <1>2 DEF WithReader, PlaceTypes
    <2>2. NotQueued(b)' /\ Absent(returnCh', b) /\ NoReader(b)'
      BY <1>1, <1>2 DEF WithReader, NotQueued, NoReader
    <2> QED
      BY <2>1, <2>2 DEF InPool
  <1>4. ASSUME NEW c \in Buffers, c # b
        PROVE  Owned(c)'
    <2>1. (NotQueued(c) => NotQueued(c)') /\ (QueuedOnce(c) => QueuedOnce(c)')
      BY <1>1 DEF NotQueued, QueuedOnce
    <2>2. pool'[c] = pool[c]
      BY <1>1, <1>4 DEF PlaceTypes
    <2> QED
      BY <1>1, <1>2, <1>4, <2>1, <2>2, OwnerStays
  <1> QED
    BY <1>3, <1>4 DEF Owned

\* writeLoop puts the buffer of the packet it wrote back.
LEMMA WriteBackOwned ==
    ASSUME PlaceTypes, \A c \in Buffers : Owned(c), WriteBack
    PROVE  \A c \in Buffers : Owned(c)'
  <1>0. PICK b : b = Head(returnCh)
    OBVIOUS
  <1>1. /\ returnCh \in Seq(Buffers) /\ returnCh # <<>> /\ returnCh' = Tail(returnCh)
        /\ pool' = [pool EXCEPT ![b] = @ + 1]
        /\ UNCHANGED <<inPkt, sendCh>>
    BY <1>0 DEF WriteBack, putPktBuf, PlaceTypes, sessVars
  <1>2. /\ b \in Buffers /\ ~Absent(returnCh, b)
        /\ Once(returnCh, b) => Absent(returnCh', b)
        /\ \A c : Absent(returnCh, c) => Absent(returnCh', c)
        /\ \A c : c # b /\ Once(returnCh, c) => Once(returnCh', c)
    BY <1>0, <1>1, QueueTail
  <1>3. Returning(b)
    BY <1>2 DEF Owned, InPool, WithReader, Sending
  <1>4. InPool(b)'
    <2>1. pool'[b] = 1
      BY <1>1, <1>2, <1>3 DEF Returning, PlaceTypes
    <2>2. NotQueued(b)' /\ Absent(returnCh', b) /\ NoReader(b)'
      BY <1>1, <1>2, <1>3 DEF Returning, NotQueued, NoReader
    <2> QED
      BY <2>1, <2>2 DEF InPool
  <1>5. ASSUME NEW c \in Buffers, c # b
        PROVE  Owned(c)'
    <2>1. (NotQueued(c) => NotQueued(c)') /\ (QueuedOnce(c) => QueuedOnce(c)')
      BY <1>1 DEF NotQueued, QueuedOnce
    <2>2. (NoReader(c) => NoReader(c)') /\ (OneReader(c) => OneReader(c)')
      BY <1>1 DEF NoReader, OneReader
    <2>3. pool'[c] = pool[c]
      BY <1>1, <1>5 DEF PlaceTypes
    <2> QED
      BY <1>2, <1>5, <2>1, <2>2, <2>3, OwnerStays
  <1> QED
    BY <1>4, <1>5 DEF Owned

\* The buffers left in the SendCh of a session that ends are collected, and the
\* pool makes others in their place: each was in that channel only, and once.
LEMMA UnregisterOwned ==
    ASSUME PlaceTypes, \A c \in Buffers : Owned(c), NEW s \in Slots, Unregister(s)
    PROVE  \A c \in Buffers : Owned(c)'
  <1>1. /\ sendCh'[s] = <<>> /\ \A t \in Slots \ {s} : sendCh'[t] = sendCh[t]
        /\ \A c \in Buffers : pool'[c] = pool[c] + IF Absent(sendCh[s], c) THEN 0 ELSE 1
        /\ UNCHANGED <<inPkt, returnCh>>
    BY AbsentIsRange DEF Unregister, PlaceTypes
  <1>2. \A c : Absent(sendCh'[s], c)
    BY <1>1, EmptyHoldsNothing
  <1> TAKE c \in Buffers
  <1>3. CASE Absent(sendCh[s], c)
    <2>1. NotQueued(c) => NotQueued(c)'
      BY <1>1, <1>2 DEF NotQueued
    <2>2. ~Once(sendCh[s], c)
      BY <1>3 DEF Absent, Once
    <2>3. QueuedOnce(c) => QueuedOnce(c)'
      BY <1>1, <1>2, <1>3, <2>2, QueueStays
    <2>4. (NoReader(c) => NoReader(c)') /\ (OneReader(c) => OneReader(c)')
      BY <1>1 DEF NoReader, OneReader
    <2>5. pool'[c] = pool[c]
      BY <1>1, <1>3 DEF PlaceTypes
    <2> QED
      BY <1>1, <2>1, <2>3, <2>4, <2>5, OwnerStays
  <1>4. CASE ~Absent(sendCh[s], c)
    <2>1. Sending(c)
      BY <1>4 DEF Owned, InPool, WithReader, Returning, NotQueued
    <2>2. pool'[c] = 1
      BY <1>1, <1>4, <2>1 DEF Sending
    <2>3. \A t \in Slots \ {s} : Absent(sendCh[t], c)
      BY <1>4, <2>1 DEF Sending, QueuedOnce
    <2>4. NotQueued(c)'
      BY <1>1, <1>2, <2>3 DEF NotQueued
    <2>5. NoReader(c)' /\ Absent(returnCh', c)
      BY <1>1, <2>1 DEF Sending, NoReader
    <2> QED
      BY <2>2, <2>4, <2>5 DEF Owned, InPool
  <1> QED
    BY <1>3, <1>4

\* A step that moves no packet.
LEMMA NothingMoves ==
    ASSUME \A c \in Buffers : Owned(c), UNCHANGED <<pool, inPkt, returnCh, sendCh>>
    PROVE  \A c \in Buffers : Owned(c)'
  BY DEF Owned, InPool, WithReader, Returning, Sending, NoReader, NotQueued, OneReader, QueuedOnce

-----------------------------------------------------------------------------
\* The invariant is inductive

\* The types, without the assumptions about the constants.
LEMMA TypeFacts ==
    ASSUME Inv
    PROVE  /\ PlaceTypes
           /\ workers \in Seq(Slots) /\ rrIndex \in Nat /\ rrCount \in Nat /\ rrCount < ChunkSize
           /\ \A s \in Slots : Len(sendCh[s]) \in Nat /\ Len(sendCh[s]) <= SendCap
           /\ Len(returnCh) \in Nat /\ Len(returnCh) <= ReturnCap
           /\ SendCap \in Nat /\ ReturnCap \in Nat /\ ChunkSize \in Nat /\ ChunkSize >= 2
           /\ sess \in [Slots -> {"new", "up", "down", "gone"}]
  BY DispatcherAssumption DEF Inv, TypeOK, PlaceTypes

\* The index names a worker.
LEMMA AtIsWorker ==
    ASSUME workers \in Seq(Slots), workers # <<>>, NEW i \in Nat
    PROVE  /\ At(i) \in Slots /\ ~Absent(workers, At(i)) /\ At(i % Len(workers)) = At(i)
           /\ Len(workers) \in Nat \ {0} /\ i % Len(workers) \in Nat
           /\ ((i % Len(workers)) + 1) % Len(workers) \in Nat
  <1>1. Len(workers) \in Nat \ {0} /\ DOMAIN workers = 1..Len(workers)
    OBVIOUS
  <1>2. i % Len(workers) \in 0..(Len(workers) - 1) /\ (i % Len(workers)) % Len(workers) = i % Len(workers)
        /\ ((i % Len(workers)) + 1) % Len(workers) \in Nat
    BY <1>1, IndexInRange
  <1>3. (i % Len(workers)) + 1 \in DOMAIN workers
    BY <1>1, <1>2
  <1> QED
    BY <1>1, <1>2, <1>3 DEF At, Absent

\* A step that changes neither sessions nor workers keeps the registration, if
\* it gives packets to registered sessions only.
LEMMA RegistrationStays ==
    ASSUME RegisteredOnce, UNCHANGED workers,
           sess \in [Slots -> {"new", "up", "down", "gone"}],
           \A s \in Slots : /\ sess'[s] = sess[s] \/ {sess'[s], sess[s]} \subseteq {"up", "down"}
                            /\ sendCh'[s] = sendCh[s] \/ sess[s] \in {"up", "down"}
                            /\ inPkt'[s] \in {inPkt[s], Nothing} \/ sess[s] \in {"up", "down"}
    PROVE  RegisteredOnce'
  BY DEF RegisteredOnce

\* What a step of readLoop that queues a packet preserves.
LEMMA QueueOK ==
    ASSUME Inv, NEW b \in Buffers, NEW s \in Slots, ~Absent(workers, s), Room(s), Queue(b, s),
           UNCHANGED <<workers, returnCh, sessVars, runVars, loops>>, client' = TRUE,
           rrIndex' \in Nat, rrCount' \in 0..(ChunkSize - 1),
           rrCount' > 0 => At(rrIndex)' = s
    PROVE  Inv'
  <1>0. /\ UNCHANGED <<workers, returnCh, sess, inPkt, run, local, loops>>
        /\ pool' = [pool EXCEPT ![b] = @ - 1] /\ pool[b] > 0 /\ last' = s
        /\ sendCh' = [sendCh EXCEPT ![s] = Append(@, b)]
    BY DEF Queue, getPktBuf, sessVars, runVars
  <1>1. /\ sendCh[s] \in Seq(Buffers) /\ Append(sendCh[s], b) \in Seq(Buffers)
        /\ Len(Append(sendCh[s], b)) <= SendCap
    BY TypeFacts DEF PlaceTypes, Room
  <1>2. TypeOK'
    <2>1. sendCh' \in [Slots -> Seq(Buffers)] /\ \A t \in Slots : Len(sendCh'[t]) <= SendCap
      BY <1>0, <1>1, TypeFacts DEF PlaceTypes
    <2>2. pool' \in [Buffers -> Nat]
      <3>1. pool \in [Buffers -> Nat] /\ pool[b] - 1 \in Nat
        BY <1>0, TypeFacts, SMTT(30) DEF PlaceTypes
      <3> QED
        BY <1>0, <3>1
    <2> QED
      BY <1>0, <2>1, <2>2 DEF Inv, TypeOK
  <1>3. RegisteredOnce'
    <2>1. sess[s] \in {"up", "down"}
      BY TypeFacts DEF Inv, RegisteredOnce
    <2>2. \A t \in Slots \ {s} : sendCh'[t] = sendCh[t]
      BY <1>0, TypeFacts DEF PlaceTypes
    <2> QED
      BY <1>0, <2>1, <2>2, TypeFacts, RegistrationStays DEF Inv
  <1>4. \A c \in Buffers : Owned(c)'
    BY <1>0, TypeFacts, QueueOwned DEF Inv
  <1>5. ChunkStaysTogether'
    <2>1. workers' # <<>>
      BY <1>0, EmptyHoldsNothing
    <2> QED
      BY <1>0, <2>1 DEF ChunkStaysTogether
  <1> QED
    BY <1>2, <1>3, <1>4, <1>5 DEF Inv

\* readLoop: chunks, alternatives and drops.
LEMMA DispatchOK ==
    ASSUME Inv, NEW b \in Buffers, Dispatch(b)
    PROVE  Inv'
  <1>1. CASE DispatchCurrent(b)
    <2> DEFINE nw == Len(workers)
               idx == rrIndex % nw
    <2>1. /\ workers # <<>> /\ Room(At(idx)) /\ Queue(b, At(idx)) /\ UNCHANGED workers
          /\ UNCHANGED <<returnCh, sessVars, runVars, loops>> /\ client' = TRUE
          /\ IF rrCount + 1 >= ChunkSize
                THEN rrIndex' = (idx + 1) % nw /\ rrCount' = 0
                ELSE rrCount' = rrCount + 1 /\ UNCHANGED rrIndex
      BY <1>1 DEF DispatchCurrent, ReadPacket
    <2>2. /\ At(rrIndex) \in Slots /\ ~Absent(workers, At(rrIndex)) /\ At(idx) = At(rrIndex)
          /\ nw \in Nat \ {0} /\ idx \in Nat
      BY <2>1, TypeFacts, AtIsWorker
    <2>3. (idx + 1) % nw \in Nat
      BY <2>1, TypeFacts, AtIsWorker
    <2>4. PICK s \in Slots : s = At(rrIndex)
      BY <2>2
    <2>5. rrIndex' \in Nat /\ rrCount' \in 0..(ChunkSize - 1)
      <3>1. /\ rrIndex \in Nat /\ rrCount \in Nat /\ rrCount < ChunkSize /\ ChunkSize \in Nat
            /\ ChunkSize >= 2
        BY TypeFacts
      <3> HIDE DEF nw, idx
      <3> QED
        BY <2>1, <2>3, <3>1
    <2>6. rrCount' > 0 => At(rrIndex)' = s
      BY <2>1, <2>4, TypeFacts DEF At
    <2>7. Room(s) /\ Queue(b, s) /\ ~Absent(workers, s)
      BY <2>1, <2>2, <2>4
    <2> QED
      BY <2>1, <2>5, <2>6, <2>7, QueueOK
  <1>2. CASE DispatchAlternate(b)
    <2> DEFINE nw == Len(workers)
               idx == rrIndex % nw
    <2>1. /\ workers # <<>> /\ UNCHANGED workers /\ rrCount' = 1
          /\ UNCHANGED <<returnCh, sessVars, runVars, loops>> /\ client' = TRUE
      BY <1>2 DEF DispatchAlternate, ReadPacket
    <2>2. PICK i \in 1..(nw - 1) :
             Room(At(idx + i)) /\ Queue(b, At(idx + i)) /\ rrIndex' = (idx + i) % nw
      BY <1>2 DEF DispatchAlternate
    <2>3. nw \in Nat \ {0} /\ idx \in Nat
      BY <2>1, TypeFacts, AtIsWorker
    <2>4. idx + i \in Nat
      BY <2>3
    <2>5. PICK k \in Nat : k = idx + i
      BY <2>4
    <2>6. /\ At(k) \in Slots /\ ~Absent(workers, At(k)) /\ At(k % nw) = At(k) /\ k % nw \in Nat
      BY <2>1, TypeFacts, AtIsWorker
    <2>7. PICK s \in Slots : s = At(k)
      BY <2>6
    <2>8. rrIndex' = k % nw
      BY <2>2, <2>5
    <2>9. rrIndex' \in Nat /\ rrCount' \in 0..(ChunkSize - 1)
      BY <2>1, <2>6, <2>8, TypeFacts
    <2>10. At(rrIndex)' = s
      BY <2>1, <2>6, <2>7, <2>8 DEF At
    <2>11. Room(s) /\ Queue(b, s) /\ ~Absent(workers, s)
      BY <2>2, <2>5, <2>6, <2>7
    <2> QED
      BY <2>1, <2>9, <2>10, <2>11, QueueOK
  <1>3. CASE DropWhenFull(b) \/ DropWithoutWorkers(b)
    <2>1. /\ UNCHANGED <<workers, sendCh, returnCh, pool, loops, sess, inPkt, run, local, last>>
          /\ client' = TRUE
      BY <1>3 DEF DropWhenFull, DropWithoutWorkers, Drop, ReadPacket, rrVars, sessVars, runVars
    <2>2. rrIndex' \in Nat /\ rrCount' \in 0..(ChunkSize - 1)
          /\ (rrCount' = 0 \/ (rrCount' = rrCount /\ rrIndex' = rrIndex))
      <3>1. CASE DropWhenFull(b)
        <4>1. Len(workers) \in Nat \ {0} /\ rrIndex % Len(workers) \in Nat
          BY <3>1, TypeFacts, AtIsWorker DEF DropWhenFull
        <4>2. ((rrIndex % Len(workers)) + 1) % Len(workers) \in Nat
          BY <3>1, TypeFacts, AtIsWorker DEF DropWhenFull
        <4> QED
          BY <3>1, <4>2, TypeFacts DEF DropWhenFull
      <3>2. CASE DropWithoutWorkers(b)
        BY <3>2, TypeFacts DEF DropWithoutWorkers, rrVars
      <3> QED
        BY <1>3, <3>1, <3>2
    <2>3. TypeOK'
      BY <2>1, <2>2 DEF Inv, TypeOK
    <2>4. RegisteredOnce'
      BY <2>1, TypeFacts, RegistrationStays DEF Inv
    <2>5. \A c \in Buffers : Owned(c)'
      BY <2>1, NothingMoves DEF Inv
    <2>6. ChunkStaysTogether'
      BY <2>1, <2>2 DEF Inv, ChunkStaysTogether, At
    <2> QED
      BY <2>3, <2>4, <2>5, <2>6 DEF Inv
  <1> QED
    BY <1>1, <1>2, <1>3 DEF Dispatch

\* A session joins the workers.
LEMMA RegisterOK ==
    ASSUME Inv, NEW s \in Slots, Register(s)
    PROVE  Inv'
  <1>0. /\ sess[s] = "new" /\ workers' = Append(workers, s) /\ last' = Nothing
        /\ sess' = [sess EXCEPT ![s] = IF run = "up" THEN "up" ELSE "down"]
        /\ UNCHANGED <<rrIndex, rrCount, sendCh, returnCh, pool, loops, client, inPkt, run, local>>
    BY DEF Register, loopVars, runVars
  <1>1. TypeOK'
    <2>1. workers' \in Seq(Slots)
      BY <1>0, TypeFacts
    <2>2. sess' \in [Slots -> {"new", "up", "down", "gone"}]
      BY <1>0, TypeFacts
    <2> QED
      BY <1>0, <2>1, <2>2 DEF Inv, TypeOK
  <1>2. RegisteredOnce'
    <2>1. Absent(workers, s) /\ Once(workers', s)
      BY <1>0, TypeFacts, QueueAppend DEF Inv, RegisteredOnce
    <2>2. \A t \in Slots \ {s} : (Absent(workers, t) => Absent(workers', t))
                                 /\ (Once(workers, t) => Once(workers', t))
      BY <1>0, TypeFacts, QueueAppend
    <2>3. sess'[s] \in {"up", "down"} /\ \A t \in Slots \ {s} : sess'[t] = sess[t]
      BY <1>0, TypeFacts
    <2> QED
      BY <1>0, <2>1, <2>2, <2>3 DEF Inv, RegisteredOnce
  <1>3. \A c \in Buffers : Owned(c)'
    BY <1>0, NothingMoves DEF Inv
  <1>4. ChunkStaysTogether'
    BY <1>0 DEF ChunkStaysTogether
  <1> QED
    BY <1>1, <1>2, <1>3, <1>4 DEF Inv

\* A session leaves the workers, wherever the index points.
LEMMA UnregisterOK ==
    ASSUME Inv, NEW s \in Slots, Unregister(s)
    PROVE  Inv'
  <1>0. /\ sess[s] = "down" /\ inPkt[s] = Nothing /\ rrCount' = 0
        /\ sendCh' = [sendCh EXCEPT ![s] = <<>>]
        /\ pool' = [b \in Buffers |-> pool[b] + IF b \in Range(sendCh[s]) THEN 1 ELSE 0]
        /\ sess' = [sess EXCEPT ![s] = "gone"]
        /\ UNCHANGED <<last, returnCh, loops, client, inPkt, run, local>>
    BY DEF Unregister, loopVars, runVars
  <1>a. PICK i \in DOMAIN workers :
           /\ workers[i] = s /\ workers' = RemoveAt(workers, i)
           /\ rrIndex' = IF rrIndex >= Len(workers) - 1 /\ Len(workers) - 1 > 0
                            THEN rrIndex % (Len(workers) - 1) ELSE rrIndex
    BY DEF Unregister
  <1>b. /\ workers' \in Seq(Slots)
        /\ Once(workers, s) => Absent(workers', s)
        /\ \A t : Absent(workers, t) => Absent(workers', t)
        /\ \A t : t # s /\ Once(workers, t) => Once(workers', t)
    BY <1>a, TypeFacts, QueueRemove
  <1>1. TypeOK'
    <2>1. rrIndex' \in Nat
      <3>1. rrIndex \in Nat /\ Len(workers) \in Nat
        BY TypeFacts
      <3>2. ASSUME Len(workers) - 1 > 0
            PROVE  rrIndex % (Len(workers) - 1) \in Nat
        BY <3>1, <3>2, IndexInRange
      <3> QED
        BY <1>a, <3>1, <3>2
    <2>2. rrCount' \in 0..(ChunkSize - 1)
      BY <1>0, TypeFacts
    <2>3. sendCh' \in [Slots -> Seq(Buffers)] /\ \A t \in Slots : Len(sendCh'[t]) <= SendCap
      <3>1. <<>> \in Seq(Buffers) /\ Len(<<>>) = 0
        OBVIOUS
      <3>2. sendCh' \in [Slots -> Seq(Buffers)]
        BY <1>0, <3>1, TypeFacts DEF PlaceTypes
      <3>3. sendCh'[s] = <<>> /\ \A t \in Slots \ {s} : sendCh'[t] = sendCh[t]
        BY <1>0, TypeFacts DEF PlaceTypes
      <3>4. Len(sendCh'[s]) <= SendCap
        BY <3>1, <3>3, TypeFacts
      <3>5. \A t \in Slots \ {s} : Len(sendCh'[t]) <= SendCap
        BY <3>3, TypeFacts
      <3> QED
        BY <3>2, <3>4, <3>5
    <2>4. pool' \in [Buffers -> Nat]
      BY <1>0, TypeFacts DEF PlaceTypes
    <2>5. sess' \in [Slots -> {"new", "up", "down", "gone"}]
      BY <1>0, TypeFacts
    <2> QED
      BY <1>0, <1>b, <2>1, <2>2, <2>3, <2>4, <2>5 DEF Inv, TypeOK
  <1>2. RegisteredOnce'
    <2>1. Absent(workers', s)
      BY <1>0, <1>b DEF Inv, RegisteredOnce
    <2>2. sess'[s] = "gone" /\ \A t \in Slots \ {s} : sess'[t] = sess[t]
      BY <1>0, TypeFacts
    <2>3. sendCh'[s] = <<>> /\ \A t \in Slots \ {s} : sendCh'[t] = sendCh[t]
      BY <1>0, TypeFacts DEF PlaceTypes
    <2> QED
      BY <1>0, <1>b, <2>1, <2>2, <2>3 DEF Inv, RegisteredOnce
  <1>3. \A c \in Buffers : Owned(c)'
    BY TypeFacts, UnregisterOwned DEF Inv
  <1>4. ChunkStaysTogether'
    BY <1>0 DEF ChunkStaysTogether
  <1> QED
    BY <1>1, <1>2, <1>3, <1>4 DEF Inv

\* The goroutines of a session.
LEMMA SessionOK ==
    ASSUME Inv, NEW s \in Slots,
           \/ WritePacket(s) \/ ReaderPushes(s) \/ ReaderGivesUp(s)
           \/ \E b \in Buffers : ReaderReads(s, b)
    PROVE  Inv'
  <1>0. /\ UNCHANGED <<workers, rrIndex, rrCount, loops, client, run, local, last>>
        /\ sess' = sess \/ (sess[s] \in {"up", "down"} /\ sess' = [sess EXCEPT ![s] = "down"])
    BY DEF WritePacket, ReaderPushes, ReaderGivesUp, ReaderReads, rrVars, loopVars, runVars
  <1>1. \A c \in Buffers : Owned(c)'
    BY TypeFacts, WriteOwned, PushOwned, GiveUpOwned, ReadOwned DEF Inv
  <1>2. ChunkStaysTogether'
    BY <1>0 DEF Inv, ChunkStaysTogether, At
  <1> DEFINE Kept ==
          /\ pool' \in [Buffers -> Nat] /\ inPkt' \in [Slots -> Buffers \cup {Nothing}]
          /\ sendCh' \in [Slots -> Seq(Buffers)] /\ \A t \in Slots : Len(sendCh'[t]) <= SendCap
          /\ returnCh' \in Seq(Buffers) /\ Len(returnCh') <= ReturnCap
  <1>3. Kept
    <2>0. /\ pool \in [Buffers -> Nat] /\ inPkt \in [Slots -> Buffers \cup {Nothing}]
          /\ sendCh \in [Slots -> Seq(Buffers)] /\ \A t \in Slots : Len(sendCh[t]) <= SendCap
          /\ returnCh \in Seq(Buffers) /\ Len(returnCh) <= ReturnCap
          /\ SendCap \in Nat /\ ReturnCap \in Nat
      BY TypeFacts DEF PlaceTypes
    <2>1. CASE WritePacket(s)
      <3>1. /\ sendCh[s] \in Seq(Buffers) /\ sendCh[s] # <<>> /\ Len(sendCh[s]) \in Nat
            /\ sendCh' = [sendCh EXCEPT ![s] = Tail(sendCh[s])]
            /\ pool' = [pool EXCEPT ![Head(sendCh[s])] = @ + 1] /\ UNCHANGED <<returnCh, inPkt>>
        BY <2>0, <2>1 DEF WritePacket, putPktBuf
      <3>2. Head(sendCh[s]) \in Buffers /\ Tail(sendCh[s]) \in Seq(Buffers)
            /\ Len(Tail(sendCh[s])) = Len(sendCh[s]) - 1
        BY <3>1, QueueTail
      <3>3. pool' \in [Buffers -> Nat]
        BY <2>0, <3>1, <3>2
      <3>4. sendCh' \in [Slots -> Seq(Buffers)] /\ \A t \in Slots : Len(sendCh'[t]) <= SendCap
        BY <2>0, <3>1, <3>2
      <3> QED
        BY <2>0, <3>1, <3>3, <3>4
    <2>2. CASE ReaderPushes(s)
      <3>1. /\ inPkt[s] \in Buffers /\ returnCh' = Append(returnCh, inPkt[s])
            /\ Len(returnCh) < ReturnCap /\ inPkt' = [inPkt EXCEPT ![s] = Nothing]
            /\ UNCHANGED <<pool, sendCh>>
        BY <2>0, <2>2 DEF ReaderPushes
      <3>2. returnCh' \in Seq(Buffers) /\ Len(returnCh') <= ReturnCap
        BY <2>0, <3>1
      <3> QED
        BY <2>0, <3>1, <3>2
    <2>3. CASE ReaderGivesUp(s)
      <3>1. /\ inPkt[s] \in Buffers /\ pool' = [pool EXCEPT ![inPkt[s]] = @ + 1]
            /\ inPkt' = [inPkt EXCEPT ![s] = Nothing] /\ UNCHANGED <<returnCh, sendCh>>
        BY <2>0, <2>3 DEF ReaderGivesUp, putPktBuf
      <3> QED
        BY <2>0, <3>1
    <2>4. ASSUME NEW b \in Buffers, ReaderReads(s, b)
          PROVE  Kept
      <3>1. /\ pool[b] - 1 \in Nat /\ pool' = [pool EXCEPT ![b] = pool[b] - 1]
            /\ inPkt' = [inPkt EXCEPT ![s] = b] /\ UNCHANGED <<returnCh, sendCh>>
        BY <2>0, <2>4 DEF ReaderReads, getPktBuf
      <3> QED
        BY <2>0, <3>1
    <2> HIDE DEF Kept
    <2> QED
      BY <2>1, <2>2, <2>3, <2>4
  <1>4. TypeOK'
    <2>1. sess' \in [Slots -> {"new", "up", "down", "gone"}]
      BY <1>0, TypeFacts
    <2> QED
      BY <1>0, <1>3, <2>1 DEF Inv, TypeOK
  <1>5. RegisteredOnce'
    <2>1. /\ \A t \in Slots : sess'[t] = sess[t] \/ {sess'[t], sess[t]} \subseteq {"up", "down"}
          /\ \A t \in Slots : sendCh'[t] = sendCh[t] \/ sess[t] \in {"up", "down"}
          /\ \A t \in Slots : inPkt'[t] \in {inPkt[t], Nothing} \/ sess[t] \in {"up", "down"}
      BY <1>0, TypeFacts DEF PlaceTypes, WritePacket, ReaderPushes, ReaderGivesUp, ReaderReads
    <2> QED
      BY <1>0, <2>1, TypeFacts, RegistrationStays DEF Inv
  <1> QED
    BY <1>1, <1>2, <1>4, <1>5 DEF Inv

\* writeLoop sends a packet to the local socket.
LEMMA WriteBackOK ==
    ASSUME Inv, WriteBack
    PROVE  Inv'
  <1>0. /\ UNCHANGED <<workers, rrIndex, rrCount, sendCh, client, sess, inPkt, run, local, last>>
        /\ loops' \subseteq loops /\ returnCh # <<>> /\ returnCh' = Tail(returnCh)
        /\ pool' = [pool EXCEPT ![Head(returnCh)] = @ + 1]
    BY DEF WriteBack, putPktBuf, rrVars, sessVars, runVars
  <1>1. TypeOK'
    <2>1. /\ Head(returnCh) \in Buffers /\ Tail(returnCh) \in Seq(Buffers)
          /\ Len(Tail(returnCh)) = Len(returnCh) - 1
      BY <1>0, TypeFacts, QueueTail DEF PlaceTypes
    <2>2. returnCh' \in Seq(Buffers) /\ Len(returnCh') <= ReturnCap
      BY <1>0, <2>1, TypeFacts
    <2>3. pool' \in [Buffers -> Nat]
      BY <1>0, <2>1, TypeFacts DEF PlaceTypes
    <2> QED
      BY <1>0, <2>2, <2>3 DEF Inv, TypeOK
  <1>2. RegisteredOnce'
    BY <1>0, TypeFacts, RegistrationStays DEF Inv
  <1>3. \A c \in Buffers : Owned(c)'
    BY TypeFacts, WriteBackOwned DEF Inv
  <1>4. ChunkStaysTogether'
    BY <1>0 DEF Inv, ChunkStaysTogether, At
  <1> QED
    BY <1>1, <1>2, <1>3, <1>4 DEF Inv

\* Steps that move no packet and leave the round robin alone.
LEMMA QuietOK ==
    ASSUME Inv,
           UNCHANGED <<workers, rrIndex, rrCount, sendCh, returnCh, pool, client, inPkt, last>>,
           loops' \subseteq loops, run' \in {"up", "cancelled", "shutting", "over"},
           local' \in BOOLEAN, sess' \in [Slots -> {"new", "up", "down", "gone"}],
           \A s \in Slots : sess'[s] = sess[s] \/ {sess'[s], sess[s]} \subseteq {"up", "down"}
    PROVE  Inv'
  <1>1. TypeOK'
    BY DEF Inv, TypeOK
  <1>2. RegisteredOnce'
    BY TypeFacts, RegistrationStays DEF Inv
  <1>3. \A c \in Buffers : Owned(c)'
    BY NothingMoves DEF Inv
  <1>4. ChunkStaysTogether'
    BY DEF Inv, ChunkStaysTogether, At
  <1> QED
    BY <1>1, <1>2, <1>3, <1>4 DEF Inv

\* Every step preserves the invariant.
LEMMA StepOK == Inv /\ [Next]_vars => Inv'
  <1> SUFFICES ASSUME Inv, [Next]_vars
               PROVE  Inv'
    OBVIOUS
  <1>0. /\ run \in {"up", "cancelled", "shutting", "over"} /\ local \in BOOLEAN
        /\ sess \in [Slots -> {"new", "up", "down", "gone"}]
    BY DEF Inv, TypeOK
  <1>1. ASSUME NEW s \in Slots, SessionFails(s)
        PROVE  Inv'
    <2>1. sess' = [sess EXCEPT ![s] = "down"] /\ sess[s] = "up"
          /\ UNCHANGED <<workers, rrIndex, rrCount, sendCh, returnCh, pool, client, inPkt, last>>
          /\ UNCHANGED <<loops, run, local>>
      BY <1>1 DEF SessionFails, rrVars, loopVars, runVars
    <2> QED
      BY <1>0, <2>1, QuietOK
  <1>2. CASE CancelRun
    <2>1. sess' = [s \in Slots |-> IF sess[s] = "up" THEN "down" ELSE sess[s]]
          /\ run' = "cancelled"
          /\ UNCHANGED <<workers, rrIndex, rrCount, sendCh, returnCh, pool, client, inPkt, last>>
          /\ UNCHANGED <<loops, local>>
      BY <1>2 DEF CancelRun, rrVars, loopVars
    <2> QED
      BY <1>0, <2>1, QuietOK
  <1>3. CASE ReadLoopEnds \/ WriteLoopEnds \/ CloseLocal \/ BeginShutdown \/ ShutdownReturns
             \/ UNCHANGED vars
    <2>1. /\ UNCHANGED <<workers, rrIndex, rrCount, sendCh, returnCh, pool, client, inPkt, last>>
          /\ sess' = sess /\ loops' \subseteq loops
          /\ run' \in {run, "shutting", "over"} /\ local' \in {local, FALSE}
      BY <1>3 DEF ReadLoopEnds, WriteLoopEnds, CloseLocal, BeginShutdown, ShutdownReturns, vars,
                  rrVars, loopVars, sessVars, runVars
    <2>2. local' \in BOOLEAN
      BY <1>0, <2>1
    <2> QED
      BY <1>0, <2>1, <2>2, QuietOK
  <1>4. ASSUME NEW s \in Readers, NEW b \in Buffers, ReaderReads(s, b)
        PROVE  Inv'
    <2>1. s \in Slots
      BY DispatcherAssumption
    <2> QED
      BY <1>4, <2>1, SessionOK
  <1> QED
    BY <1>1, <1>2, <1>3, <1>4, RegisterOK, UnregisterOK, SessionOK, DispatchOK, WriteBackOK
       DEF Next, Dispatch

\* Nobody is registered, and every buffer is in the pool.
LEMMA InitOK == Init => Inv
  <1> SUFFICES ASSUME Init PROVE Inv
    OBVIOUS
  <1>1. TypeOK
    <2>1. <<>> \in Seq(Buffers) /\ <<>> \in Seq(Slots) /\ Len(<<>>) = 0
      OBVIOUS
    <2>2. sendCh \in [Slots -> Seq(Buffers)] /\ \A s \in Slots : Len(sendCh[s]) <= SendCap
      BY <2>1, DispatcherAssumption DEF Init
    <2>3. returnCh \in Seq(Buffers) /\ Len(returnCh) <= ReturnCap
      BY <2>1, DispatcherAssumption DEF Init
    <2> QED
      <3>1. workers \in Seq(Slots)
        BY <2>1 DEF Init
      <3>2. rrIndex \in Nat /\ rrCount \in 0..(ChunkSize - 1)
        BY DispatcherAssumption DEF Init
      <3>3. /\ pool \in [Buffers -> Nat] /\ loops \subseteq {"read", "write"} /\ client \in BOOLEAN
            /\ sess \in [Slots -> {"new", "up", "down", "gone"}]
            /\ inPkt \in [Slots -> Buffers \cup {Nothing}]
            /\ run \in {"up", "cancelled", "shutting", "over"} /\ local \in BOOLEAN
            /\ last \in Slots \cup {Nothing}
        BY DEF Init
      <3> QED
        BY <2>2, <2>3, <3>1, <3>2, <3>3 DEF TypeOK
  <1>2. RegisteredOnce
    BY EmptyHoldsNothing DEF Init, RegisteredOnce
  <1>3. \A b \in Buffers : Owned(b)
    <2> TAKE b \in Buffers
    <2>1. NoReader(b)
      BY DispatcherAssumption DEF Init, NoReader
    <2>2. Absent(returnCh, b) /\ NotQueued(b)
      BY EmptyHoldsNothing DEF Init, NotQueued
    <2>3. pool[b] = 1
      BY DEF Init
    <2> QED
      BY <2>1, <2>2, <2>3 DEF Owned, InPool
  <1>4. ChunkStaysTogether
    BY DEF Init, ChunkStaysTogether
  <1> QED
    BY <1>1, <1>2, <1>3, <1>4 DEF Inv

\* The invariant holds in every reachable state.
THEOREM InvCorrect == Spec => []Inv
  BY InitOK, StepOK, PTL DEF Spec

\* The channels stay within their capacities, the current chunk is never full,
\* and the index is never negative.
THEOREM TypeCorrect == Spec => []TypeOK
  <1>1. Inv => TypeOK
    BY DEF Inv
  <1> QED
    BY <1>1, InvCorrect, PTL

\* d.workers holds exactly the sessions between Register and Unregister, each
\* once: readLoop never queues a packet for a session that has ended, and
\* Unregister finds its slot.
THEOREM RegistrationCorrect == Spec => []RegisteredOnce
  <1>1. Inv => RegisteredOnce
    BY DEF Inv
  <1> QED
    BY <1>1, InvCorrect, PTL

\* The packets of a chunk take one worker, whoever leaves or is full meanwhile.
THEOREM ChunkCorrect == Spec => []ChunkStaysTogether
  <1>1. Inv => ChunkStaysTogether
    BY DEF Inv
  <1> QED
    BY <1>1, InvCorrect, PTL

-----------------------------------------------------------------------------
\* From the place of a buffer to the count of its places

\* A set with exactly one element has cardinality 1, an empty one 0.
LEMMA CountPlaces ==
    ASSUME NEW S
    PROVE  /\ (\A x : x \notin S) => Cardinality(S) = 0
           /\ \A x : (x \in S /\ \A y \in S : y = x) => Cardinality(S) = 1
  <1>1. (\A x : x \notin S) => S = {}
    OBVIOUS
  <1>2. \A x : (x \in S /\ \A y \in S : y = x) => S = {x}
    OBVIOUS
  <1>3. Cardinality({}) = 0 /\ \A x : Cardinality({x}) = 1
    BY FS_EmptySet, FS_Singleton, Zenon
  <1>4. ASSUME \A x : x \notin S
        PROVE  Cardinality(S) = 0
    <2>1. S = {}
      BY <1>1, <1>4
    <2> QED
      BY <1>3, <2>1
  <1>5. ASSUME NEW x, x \in S, \A y \in S : y = x
        PROVE  Cardinality(S) = 1
    <2>1. S = {x}
      BY <1>2, <1>5
    <2> QED
      BY <1>3, <2>1
  <1> QED
    BY <1>4, <1>5

\* A buffer that is in one of the four places is counted once.
LEMMA OwnedIsOnce ==
    ASSUME Inv, NEW b \in Buffers
    PROVE  Places(b) = 1
  <1> DEFINE R == {s \in Slots : inPkt[s] = b}
             B == {i \in DOMAIN returnCh : returnCh[i] = b}
             Q == {q \in Slots \X (1..SendCap) :
                     q[2] <= Len(sendCh[q[1]]) /\ sendCh[q[1]][q[2]] = b}
  <1>0. /\ \A s \in Slots : sendCh[s] \in Seq(Buffers) /\ Len(sendCh[s]) \in Nat
                            /\ Len(sendCh[s]) <= SendCap /\ DOMAIN sendCh[s] = 1..Len(sendCh[s])
        /\ SendCap \in Nat
    BY TypeFacts DEF PlaceTypes
  <1>1. NoReader(b) => Cardinality(R) = 0
    BY CountPlaces DEF NoReader
  <1>2. OneReader(b) => Cardinality(R) = 1
    BY CountPlaces DEF OneReader
  <1>3. Absent(returnCh, b) => Cardinality(B) = 0
    BY CountPlaces DEF Absent
  <1>4. Once(returnCh, b) => Cardinality(B) = 1
    BY CountPlaces DEF Once
  <1>5. NotQueued(b) => Cardinality(Q) = 0
    <2>1. NotQueued(b) => \A q : q \notin Q
      BY <1>0 DEF NotQueued, Absent
    <2> QED
      BY <2>1, CountPlaces
  <1>6. QueuedOnce(b) => Cardinality(Q) = 1
    <2> SUFFICES ASSUME QueuedOnce(b) PROVE Cardinality(Q) = 1
      OBVIOUS
    <2>1. PICK s \in Slots : Once(sendCh[s], b) /\ \A t \in Slots \ {s} : Absent(sendCh[t], b)
      BY DEF QueuedOnce
    <2>2. PICK i \in DOMAIN sendCh[s] :
             sendCh[s][i] = b /\ \A j \in DOMAIN sendCh[s] : sendCh[s][j] = b => j = i
      BY <2>1 DEF Once
    <2>3. <<s, i>> \in Q
      BY <1>0, <2>2
    <2>4. ASSUME NEW q \in Q
          PROVE  q = <<s, i>>
      <3>1. PICK t \in Slots, j \in 1..SendCap : q = <<t, j>> /\ j <= Len(sendCh[t]) /\ sendCh[t][j] = b
        OBVIOUS
      <3>2. j \in DOMAIN sendCh[t]
        BY <1>0, <3>1
      <3>3. t = s
        BY <2>1, <3>1, <3>2 DEF Absent
      <3>4. j = i
        BY <2>2, <3>1, <3>2, <3>3
      <3> QED
        BY <3>1, <3>3, <3>4
    <2> HIDE DEF Q
    <2> QED
      BY <2>3, <2>4, CountPlaces
  <1>7. Places(b) = pool[b] + Cardinality(R) + Cardinality(B) + Cardinality(Q)
    BY DEF Places
  <1>8. Owned(b)
    BY DEF Inv
  <1> HIDE DEF R, B, Q
  <1> QED
    BY <1>1, <1>2, <1>3, <1>4, <1>5, <1>6, <1>7, <1>8
       DEF Owned, InPool, WithReader, Returning, Sending

\* Every packet buffer has exactly one owner in every reachable state, for any
\* number of buffers and sessions: none is put twice, none is lost.
THEOREM OwnerCorrect == Spec => []OneOwner
  <1>1. Inv => OneOwner
    BY OwnedIsOnce DEF OneOwner
  <1> QED
    BY <1>1, InvCorrect, PTL
=============================================================================
