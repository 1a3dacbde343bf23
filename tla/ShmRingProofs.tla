--------------------------- MODULE ShmRingProofs ---------------------------
(***************************************************************************)
(* Proofs about ShmRing for every number of threads, slots and messages    *)
(* and every maximum position: RingInv is inductive, and the ownership,    *)
(* consistency and no-partial-data properties follow from it.              *)
(***************************************************************************)
EXTENDS ShmRing, Sequences, TLAPS

-----------------------------------------------------------------------------
(* Arithmetic of slot indices. *)

\* A quotient that is larger by one or more adds at least one whole lap.
LEMMA LapMonotone ==
  ASSUME NEW n \in Nat, NEW x \in Nat, NEW y \in Nat, x < y
  PROVE  n * x + n <= n * y
<1>1. PICK d \in Nat : y = x + 1 + d
  <2>1. y - x - 1 \in Nat
    OBVIOUS
  <2> QED BY <2>1
<1>2. n * y = n * x + n + n * d
  BY <1>1
<1>3. n * d \in Nat /\ n * x \in Nat
  OBVIOUS
<1> QED BY <1>2, <1>3

\* Two positions that share a slot are a whole lap apart.
LEMMA SameSlotLap ==
  ASSUME NEW n \in Nat \ {0}, NEW a \in Nat, NEW b \in Nat,
         a % n = b % n, a < b
  PROVE  a + n <= b
<1> DEFINE q == a \div n
           r == b \div n
<1>1. a = n * q + (a % n) /\ q \in Nat /\ a % n \in Nat
  OBVIOUS
<1>2. b = n * r + (a % n) /\ r \in Nat
  OBVIOUS
<1> HIDE DEF q, r
<1>3. n * q \in Nat /\ n * r \in Nat
  BY <1>1, <1>2
<1>4. n * q < n * r
  BY <1>1, <1>2, <1>3
<1>5. q < r
  <2> SUFFICES ASSUME r <= q PROVE FALSE
    BY <1>1, <1>2
  <2>1. CASE r = q
    BY <2>1, <1>3, <1>4
  <2>2. CASE r < q
    BY <2>2, <1>1, <1>2, <1>3, <1>4, LapMonotone
  <2> QED BY <2>1, <2>2, <1>1, <1>2
<1>6. n * q + n <= n * r
  BY <1>1, <1>2, <1>5, LapMonotone
<1> QED BY <1>1, <1>2, <1>3, <1>6

\* A position and the one a lap later share their slot.
LEMMA NextLapSameSlot ==
  ASSUME NEW n \in Nat \ {0}, NEW a \in Nat
  PROVE  (a + n) % n = a % n
<1> DEFINE q == a \div n
           r == (a + n) \div n
           x == a % n
           y == (a + n) % n
<1>1. a = n * q + x /\ q \in Nat /\ x \in 0 .. n - 1
  OBVIOUS
<1>2. a + n = n * r + y /\ r \in Nat /\ y \in 0 .. n - 1
  OBVIOUS
<1> HIDE DEF q, r, x, y
<1>3. n * q \in Nat /\ n * r \in Nat /\ n * (q + 1) = n * q + n
  BY <1>1, <1>2
<1>4. CASE r = q + 1
  <2>1. n * r = n * q + n
    BY <1>3, <1>4
  <2>2. x = y
    BY <2>1, <1>1, <1>2, <1>3
  <2> QED BY <2>2 DEF x, y
<1>5. CASE r < q + 1
  <2>1. n * r + n <= n * (q + 1)
    BY <1>1, <1>2, <1>5, LapMonotone
  <2> QED BY <2>1, <1>1, <1>2, <1>3
<1>6. CASE q + 1 < r
  <2>1. n * (q + 1) + n <= n * r
    BY <1>1, <1>2, <1>6, LapMonotone
  <2> QED BY <2>1, <1>1, <1>2, <1>3
<1> QED BY <1>1, <1>2, <1>4, <1>5, <1>6

\* Every position names a slot, and the first slot_count ones their own.
LEMMA SlotAtType ==
  /\ \A q \in Nat : SlotAt(q) \in Slots
  /\ \A s \in Slots : SlotAt(s) = s
<1> USE ShmRingAssumption DEF SlotAt, Slots
<1>1. ASSUME NEW q \in Nat PROVE SlotAt(q) \in Slots
  OBVIOUS
<1>2. ASSUME NEW s \in Slots PROVE SlotAt(s) = s
  OBVIOUS
<1> QED BY <1>1, <1>2

LEMMA SlotLaps ==
  ASSUME NEW a \in Nat, NEW b \in Nat
  PROVE  /\ SlotAt(a) = SlotAt(b) /\ a < b => a + SlotCount <= b
         /\ SlotAt(a + SlotCount) = SlotAt(a)
BY Zenon, ShmRingAssumption, SameSlotLap, NextLapSameSlot DEF SlotAt

\* A sequence encodes its generation and its bit without ambiguity.
LEMMA EncodeInjective ==
  ASSUME NEW a \in Nat, NEW b \in Nat
  PROVE  /\ EncodeSequence(a, Reusable) # EncodeSequence(b, Published)
         /\ EncodeSequence(a, Reusable) = EncodeSequence(b, Reusable) => a = b
         /\ EncodeSequence(a, Published) = EncodeSequence(b, Published) => a = b
BY DEF EncodeSequence, Reusable, Published

-----------------------------------------------------------------------------
(* The inductive invariant. *)

LEMMA IdleType == Idle \in Locals
BY DEF Idle, Locals, Labels

\* The freshly initialised ring satisfies the invariant.
LEMMA RingInvInit == Init => RingInv
<1> SUFFICES ASSUME Init PROVE RingInv
  OBVIOUS
<1> USE ShmRingAssumption
<1>1. TypeOK
  BY IdleType DEF Init, TypeOK, EncodeSequence, Reusable, Slots
<1>2. Window
  BY DEF Init, Window
<1>3. ASSUME NEW s \in Slots
      PROVE  \E g \in 0 .. MaximumPosition : SlotGeneration(s, g)
  <2>1. s \in 0 .. MaximumPosition
    BY DEF Slots
  <2>2. SlotGeneration(s, s)
    BY SlotAtType DEF Init, SlotGeneration, Slots
  <2> QED BY <2>1, <2>2
<1>4. \A t \in Threads : pc(t) = "idle"
  BY DEF Init, pc, Idle
<1>5. \A p \in Producers : ProducerInv(p)
  BY <1>4 DEF ProducerInv, Reserved, Threads
<1>6. \A c \in Consumers : ConsumerInv(c)
  BY <1>4 DEF ConsumerInv, Claimed, Threads
<1>7. DistinctPositions
  BY <1>4 DEF DistinctPositions, Reserved, Claimed
<1>8. NoFalseCorruption
  BY <1>4 DEF NoFalseCorruption
<1> QED BY <1>1, <1>2, <1>3, <1>5, <1>6, <1>7, <1>8 DEF RingInv

\* What the invariant says of a thread mentions only that thread's locals.
LEMMA SameLocals ==
  ASSUME NEW t \in Threads, local'[t] = local[t]
  PROVE  /\ pc(t)' = pc(t) /\ position(t)' = position(t)
         /\ Reserved(t)' = Reserved(t) /\ Claimed(t)' = Claimed(t)
BY DEF pc, position, Reserved, Claimed

\* A step that only moves one thread, and hands it no slot it did not own,
\* preserves everything but what the invariant says of that thread.
LEMMA LocalStep ==
  ASSUME RingInv,
         NEW t \in Threads, NEW l \in Locals,
         Become(t, l), l.pc # "fault",
         UNCHANGED <<producerPosition, consumerPosition, sequence, header, body>>,
         t \in Producers => ProducerInv(t)',
         t \in Consumers => ConsumerInv(t)',
         Reserved(t)' => Reserved(t) /\ position(t)' = position(t),
         Claimed(t)' => Claimed(t) /\ position(t)' = position(t)
  PROVE  RingInv'
<1>0. local \in [Threads -> Locals]
  BY DEF RingInv, TypeOK
<1>1. local' \in [Threads -> Locals] /\ local'[t] = l
  BY <1>0 DEF Become
<1>2. \A u \in Threads : u # t => local'[u] = local[u]
  BY <1>0 DEF Become
<1>3. TypeOK' /\ Window'
  BY <1>1 DEF RingInv, TypeOK, Window
<1>4. (\A s \in Slots : \E g \in 0 .. MaximumPosition : SlotGeneration(s, g))'
  BY DEF RingInv, SlotGeneration
<1>5. ASSUME NEW p \in Producers PROVE ProducerInv(p)'
  <2>1. CASE p = t
    BY <2>1
  <2>2. CASE p # t
    <3>1. local'[p] = local[p]
      BY <1>2, <2>2 DEF Threads
    <3>2. ProducerInv(p)
      BY DEF RingInv
    <3>9. /\ pc(p)' = pc(p) /\ position(p)' = position(p)
          /\ Reserved(p)' = Reserved(p)
      BY <3>1, SameLocals DEF Threads
    <3> QED BY <3>1, <3>2, <3>9 DEF ProducerInv
  <2> QED BY <2>1, <2>2
<1>6. ASSUME NEW c \in Consumers PROVE ConsumerInv(c)'
  <2>1. CASE c = t
    BY <2>1
  <2>2. CASE c # t
    <3>1. local'[c] = local[c]
      BY <1>2, <2>2 DEF Threads
    <3>2. ConsumerInv(c)
      BY DEF RingInv
    <3>9. /\ pc(c)' = pc(c) /\ position(c)' = position(c)
          /\ Claimed(c)' = Claimed(c)
      BY <3>1, SameLocals DEF Threads
    <3> QED BY <3>1, <3>2, <3>9 DEF ConsumerInv
  <2> QED BY <2>1, <2>2
<1>7. ASSUME NEW u \in Threads
      PROVE  /\ Reserved(u)' => Reserved(u) /\ position(u)' = position(u)
             /\ Claimed(u)' => Claimed(u) /\ position(u)' = position(u)
  BY <1>2 DEF Reserved, Claimed, pc, position
<1>8. DistinctPositions'
  BY <1>7 DEF RingInv, DistinctPositions
<1>9. NoFalseCorruption'
  BY <1>1, <1>2 DEF RingInv, NoFalseCorruption, pc
<1> QED BY <1>3, <1>4, <1>5, <1>6, <1>8, <1>9 DEF RingInv

\* The slot at the producer head holds the head's own generation or the one
\* before it, and only a consumer's release moves it on.
LEMMA HeadGeneration ==
  ASSUME RingInv,
         sequence[SlotAt(producerPosition)] #
           EncodeSequence(producerPosition, Reusable)
  PROVE  IsPreviousGeneration(sequence[SlotAt(producerPosition)],
                              producerPosition)
<1> USE ShmRingAssumption
<1>1. producerPosition \in Nat /\ consumerPosition \in Nat
  BY DEF RingInv, TypeOK
<1>2. SlotAt(producerPosition) \in Slots
  BY <1>1, SlotAtType
<1>3. PICK g \in 0 .. MaximumPosition :
        SlotGeneration(SlotAt(producerPosition), g)
  BY <1>2 DEF RingInv
<1>4. g \in Nat /\ SlotAt(g) = SlotAt(producerPosition)
  BY <1>3 DEF SlotGeneration
<1>5. g < producerPosition + SlotCount
  BY <1>1, <1>3, <1>4 DEF SlotGeneration, RingInv, Window
<1>6. g <= producerPosition
  BY <1>1, <1>4, <1>5, SlotLaps
<1>7. g # producerPosition
  BY <1>1, <1>3, <1>4 DEF SlotGeneration
<1>8. g = producerPosition - SlotCount
  <2>1. g + SlotCount <= producerPosition
    BY <1>1, <1>4, <1>6, <1>7, SlotLaps
  <2> QED BY <1>1, <1>3, <1>4, <2>1 DEF SlotGeneration
<1> QED BY <1>1, <1>3, <1>4, <1>8
        DEF SlotGeneration, IsPreviousGeneration, PreviousGeneration

\* The slot at the consumer head is published, free for its own generation,
\* or still held by the consumer of the generation before.
LEMMA TailGeneration ==
  ASSUME RingInv,
         sequence[SlotAt(consumerPosition)] #
           EncodeSequence(consumerPosition, Published)
  PROVE  NotReady(sequence[SlotAt(consumerPosition)], consumerPosition)
<1> USE ShmRingAssumption
<1>1. producerPosition \in Nat /\ consumerPosition \in Nat
  BY DEF RingInv, TypeOK
<1>2. SlotAt(consumerPosition) \in Slots
  BY <1>1, SlotAtType
<1>3. PICK g \in 0 .. MaximumPosition :
        SlotGeneration(SlotAt(consumerPosition), g)
  BY <1>2 DEF RingInv
<1>4. g \in Nat /\ SlotAt(g) = SlotAt(consumerPosition)
  BY <1>3 DEF SlotGeneration
<1>5. Window
  BY DEF RingInv
<1>6. g < consumerPosition + SlotCount
  BY <1>1, <1>3, <1>4, <1>5 DEF SlotGeneration, Window
<1>7. g <= consumerPosition
  BY <1>1, <1>4, <1>6, SlotLaps
<1>8. CASE g = consumerPosition
  BY <1>1, <1>3, <1>8 DEF SlotGeneration, NotReady
<1>9. CASE g # consumerPosition
  <2>1. g + SlotCount <= consumerPosition
    BY <1>1, <1>4, <1>7, <1>9, SlotLaps
  <2>2. g = consumerPosition - SlotCount
    BY <1>1, <1>3, <1>4, <1>5, <2>1 DEF SlotGeneration, Window
  <2> QED BY <1>1, <1>3, <1>4, <2>2
          DEF SlotGeneration, NotReady, PreviousGeneration
<1> QED BY <1>8, <1>9

\* A thread that owns nothing and knows nothing: it returns, or starts over.
LEMMA RestartStep ==
  ASSUME RingInv,
         NEW t \in Threads, NEW l \in Locals,
         Become(t, l), l.pc \in {"idle", "load"},
         t \in Producers /\ l.pc = "load" => l.msg \in Messages,
         UNCHANGED <<producerPosition, consumerPosition, sequence, header, body>>
  PROVE  RingInv'
<1>1. local' \in [Threads -> Locals] /\ local'[t] = l
  BY DEF RingInv, TypeOK, Become
<1>2. t \in Producers => ProducerInv(t)'
  BY <1>1 DEF ProducerInv, Reserved, pc, position
<1>3. t \in Consumers => ConsumerInv(t)'
  BY <1>1 DEF ConsumerInv, Claimed, pc, position
<1>4. ~ Reserved(t)' /\ ~ Claimed(t)'
  BY <1>1 DEF Reserved, Claimed, pc
<1> QED BY <1>2, <1>3, <1>4, LocalStep

\* A failed attempt of reserve_impl.
LEMMA ReserveAgainStep ==
  ASSUME RingInv, NEW p \in Producers, ReserveAgain(p), pc(p) \in {"recheck", "cas"},
         UNCHANGED <<producerPosition, consumerPosition, sequence, header, body>>
  PROVE  RingInv'
<1>1. p \in Threads /\ local[p] \in Locals /\ local[p].msg \in Messages
  BY DEF RingInv, TypeOK, Threads, ProducerInv
<1>2. PICK l \in Locals : /\ Become(p, l)
                          /\ l.pc \in {"idle", "load"}
                          /\ l.pc = "load" => l.msg \in Messages
  <2> DEFINE more == [Reload(p) EXCEPT !.attempt = @ + 1]
             anew == [Reload(p) EXCEPT !.attempt = 0]
  <2>1. /\ Reload(p) \in Locals /\ Reload(p).attempt \in Nat
        /\ Reload(p).pc = "load" /\ Reload(p).msg \in Messages
    BY Zenon, <1>1 DEF Locals, Labels, Reload
  <2>2. more \in Locals /\ more.pc = "load" /\ more.msg \in Messages
    BY <2>1 DEF Locals
  <2>3. anew \in Locals /\ anew.pc = "load" /\ anew.msg \in Messages
    BY <2>1 DEF Locals
  <2>4. Idle \in Locals /\ Idle.pc = "idle"
    BY IdleType DEF Idle
  <2>5. Become(p, more) \/ Become(p, anew) \/ Become(p, Idle)
    BY DEF ReserveAgain, Return
  <2> HIDE DEF more, anew
  <2> QED BY <2>2, <2>3, <2>4, <2>5
<1> QED BY <1>1, <1>2, RestartStep

\* A failed attempt of poll.
LEMMA PollAgainStep ==
  ASSUME RingInv, NEW c \in Consumers, PollAgain(c),
         UNCHANGED <<producerPosition, consumerPosition, sequence, header, body>>
  PROVE  RingInv'
<1>1. c \in Threads /\ local[c] \in Locals /\ c \notin Producers
  BY ShmRingAssumption DEF RingInv, TypeOK, Threads
<1>2. PICK l \in Locals : Become(c, l) /\ l.pc \in {"idle", "load"}
  <2> DEFINE more == [Reload(c) EXCEPT !.attempt = @ + 1]
  <2>1. /\ Reload(c) \in Locals /\ Reload(c).attempt \in Nat
        /\ Reload(c).pc = "load"
    BY Zenon, <1>1 DEF Locals, Labels, Reload
  <2>2. more \in Locals /\ more.pc = "load"
    BY <2>1 DEF Locals
  <2>3. Idle \in Locals /\ Idle.pc = "idle"
    BY IdleType DEF Idle
  <2>4. Become(c, more) \/ Become(c, Idle)
    BY DEF PollAgain, Return
  <2> HIDE DEF more
  <2> QED BY <2>2, <2>3, <2>4
<1> QED BY <1>1, <1>2, RestartStep

LEMMA PostSendInv ==
  ASSUME RingInv, NEW p \in Producers, NEW m \in Messages, NEW r \in BOOLEAN,
         PostSend(p, m, r)
  PROVE  RingInv'
<1> DEFINE l == [Idle EXCEPT !.pc = "load", !.msg = m, !.allowRetry = r]
<1>1. l \in Locals /\ l.pc = "load" /\ l.msg \in Messages
  BY Zenon DEF Idle, Locals, Labels
<1>2. Become(p, l) /\ p \in Threads
  BY DEF PostSend, Threads
<1> HIDE DEF l
<1> QED BY <1>1, <1>2, RestartStep DEF PostSend

LEMMA ReserveLoadInv ==
  ASSUME RingInv, NEW p \in Producers, ReserveLoad(p)
  PROVE  RingInv'
<1>1. p \in Threads /\ local[p] \in Locals /\ local[p].msg \in Messages
  BY DEF RingInv, TypeOK, Threads, ProducerInv, ReserveLoad
<1>2. producerPosition \in Nat /\ MaximumPosition \in Nat
  BY ShmRingAssumption DEF RingInv, TypeOK
<1>3. CASE producerPosition >= MaximumPosition
  BY <1>1, <1>3, IdleType, RestartStep DEF ReserveLoad, Return, Idle
<1>4. CASE ~ (producerPosition >= MaximumPosition)
  <2> DEFINE l == [local[p] EXCEPT !.pc = "sequence",
                                   !.position = producerPosition]
  <2>1. /\ l \in Locals /\ l.pc = "sequence" /\ l.position = producerPosition
        /\ l.msg \in Messages
    BY Zenon, <1>1, <1>2 DEF Locals, Labels
  <2>2. Become(p, l)
    BY <1>4 DEF ReserveLoad
  <2> HIDE DEF l
  <2>3. local'[p] = l
    BY <1>1, <2>2 DEF Become, RingInv, TypeOK
  <2>4. ProducerInv(p)'
    BY <1>2, <1>4, <2>1, <2>3
       DEF ProducerInv, Reserved, pc, position, ReserveLoad
  <2>5. ~ Reserved(p)' /\ ~ Claimed(p)' /\ p \notin Consumers
    BY <2>1, <2>3, ShmRingAssumption DEF Reserved, Claimed, pc
  <2> QED BY <1>1, <2>1, <2>2, <2>4, <2>5, LocalStep DEF ReserveLoad
<1> QED BY <1>3, <1>4

LEMMA ReserveSequenceInv ==
  ASSUME RingInv, NEW p \in Producers, ReserveSequence(p)
  PROVE  RingInv'
<1> DEFINE s == sequence[SlotAt(position(p))]
<1>1. p \in Threads /\ local[p] \in Locals /\ local[p].msg \in Messages
  BY DEF RingInv, TypeOK, Threads, ProducerInv, ReserveSequence
<1>2. position(p) \in Nat /\ position(p) <= producerPosition
      /\ position(p) < MaximumPosition
  BY <1>1 DEF RingInv, ProducerInv, ReserveSequence, Locals, position
<1>3. SlotAt(position(p)) \in Slots /\ s \in Nat
  BY <1>2, SlotAtType DEF RingInv, TypeOK
<1>4. PICK l \in Locals :
        /\ Become(p, l)
        /\ l.position = position(p) /\ l.msg = local[p].msg
        /\ \/ s = EncodeSequence(position(p), Reusable) /\ l.pc = "cas"
           \/ /\ s # EncodeSequence(position(p), Reusable)
              /\ l.pc = "recheck" /\ l.seen = s
  <2>1. CASE s = EncodeSequence(position(p), Reusable)
    <3> DEFINE l == [local[p] EXCEPT !.pc = "cas"]
    <3>1. l \in Locals /\ l.pc = "cas" /\ l.position = position(p)
          /\ l.msg = local[p].msg
      BY <1>1 DEF Locals, Labels, position
    <3>2. Become(p, l)
      BY <2>1 DEF ReserveSequence, Goto
    <3> QED BY Zenon, <2>1, <3>1, <3>2
  <2>2. CASE s # EncodeSequence(position(p), Reusable)
    <3> DEFINE l == [local[p] EXCEPT !.pc = "recheck", !.seen = s]
    <3>1. l \in Locals /\ l.pc = "recheck" /\ l.position = position(p)
          /\ l.msg = local[p].msg /\ l.seen = s
      BY Zenon, <1>1, <1>3 DEF Locals, Labels, position
    <3>2. Become(p, l)
      BY <2>2 DEF ReserveSequence
    <3> QED BY Zenon, <2>2, <3>1, <3>2
  <2> QED BY Zenon, <2>1, <2>2
<1>5. local'[p] = l
  BY Zenon, <1>1, <1>4 DEF Become, RingInv, TypeOK
<1>6. s # EncodeSequence(position(p), Reusable)
      /\ position(p) = producerPosition => IsPreviousGeneration(s, position(p))
  BY HeadGeneration
<1>7. ProducerInv(p)'
  <2>1. pc(p)' = l.pc /\ position(p)' = position(p) /\ local'[p].msg \in Messages
        /\ local'[p].seen = l.seen
    BY <1>1, <1>4, <1>5 DEF pc, position
  <2> QED BY <1>2, <1>4, <1>6, <2>1
          DEF ProducerInv, Reserved, ReserveSequence, IsPreviousGeneration
<1>8. ~ Reserved(p)' /\ ~ Claimed(p)' /\ p \notin Consumers
  BY <1>4, <1>5, ShmRingAssumption DEF Reserved, Claimed, pc
<1> QED BY <1>1, <1>4, <1>7, <1>8, LocalStep DEF ReserveSequence

LEMMA ReserveRecheckInv ==
  ASSUME RingInv, NEW p \in Producers, ReserveRecheck(p)
  PROVE  RingInv'
<1>1. CASE producerPosition # position(p)
  BY <1>1, ReserveAgainStep DEF ReserveRecheck
<1>2. CASE producerPosition = position(p)
  <2>1. IsPreviousGeneration(local[p].seen, position(p))
    BY Zenon, <1>2 DEF RingInv, ProducerInv, ReserveRecheck
  <2>2. Become(p, Idle)
    BY <1>2, <2>1 DEF ReserveRecheck, Return
  <2> QED BY <2>2, IdleType, RestartStep DEF ReserveRecheck, Idle, Threads
<1> QED BY <1>1, <1>2

LEMMA ProgressShmInv ==
  ASSUME RingInv, NEW c \in Consumers, ProgressShm(c)
  PROVE  RingInv'
<1> DEFINE l == [Idle EXCEPT !.pc = "available", !.position = consumerPosition]
<1>1. c \in Threads /\ c \notin Producers /\ consumerPosition \in Nat
  BY ShmRingAssumption DEF RingInv, TypeOK, Threads
<1>2. l \in Locals /\ l.pc = "available" /\ l.position = consumerPosition
  BY Zenon, <1>1 DEF Idle, Locals, Labels
<1>3. Become(c, l)
  BY DEF ProgressShm
<1> HIDE DEF l
<1>4. local'[c] = l
  BY <1>1, <1>3 DEF Become, RingInv, TypeOK
<1>5. ConsumerInv(c)'
  BY <1>1, <1>2, <1>4 DEF ConsumerInv, Claimed, pc, position, ProgressShm
<1>6. ~ Reserved(c)' /\ ~ Claimed(c)'
  BY <1>2, <1>4 DEF Reserved, Claimed, pc
<1> QED BY <1>1, <1>2, <1>3, <1>5, <1>6, LocalStep DEF ProgressShm

LEMMA RecvAvailableInv ==
  ASSUME RingInv, NEW c \in Consumers, NEW n \in 0 .. MaxPolls, RecvAvailable(c, n)
  PROVE  RingInv'
<1> DEFINE l == [Idle EXCEPT !.pc = "load", !.polls = n]
<1>1. c \in Threads /\ c \notin Producers
  BY ShmRingAssumption DEF Threads
<1>2. l \in Locals /\ l.pc = "load" /\ Idle \in Locals /\ Idle.pc = "idle"
  <2>1. n \in Nat
    BY ShmRingAssumption
  <2> QED BY Zenon, <2>1, IdleType DEF Idle, Locals, Labels
<1>3. Become(c, l) \/ Become(c, Idle)
  BY DEF RecvAvailable, Poll, Return
<1> HIDE DEF l
<1> QED BY <1>1, <1>2, <1>3, RestartStep DEF RecvAvailable

LEMMA PollLoadInv ==
  ASSUME RingInv, NEW c \in Consumers, PollLoad(c)
  PROVE  RingInv'
<1> DEFINE l == [local[c] EXCEPT !.pc = "sequence", !.position = consumerPosition]
<1>1. /\ c \in Threads /\ c \notin Producers /\ consumerPosition \in Nat
      /\ local[c] \in Locals
  BY ShmRingAssumption DEF RingInv, TypeOK, Threads
<1>2. l \in Locals /\ l.pc = "sequence" /\ l.position = consumerPosition
  BY Zenon, <1>1 DEF Locals, Labels
<1>3. Become(c, l)
  BY DEF PollLoad
<1> HIDE DEF l
<1>4. local'[c] = l
  BY <1>1, <1>3 DEF Become, RingInv, TypeOK
<1>5. ConsumerInv(c)'
  BY <1>1, <1>2, <1>4 DEF ConsumerInv, Claimed, pc, position, PollLoad
<1>6. ~ Reserved(c)' /\ ~ Claimed(c)'
  BY <1>2, <1>4 DEF Reserved, Claimed, pc
<1> QED BY <1>1, <1>2, <1>3, <1>5, <1>6, LocalStep DEF PollLoad

LEMMA PollSequenceInv ==
  ASSUME RingInv, NEW c \in Consumers, PollSequence(c)
  PROVE  RingInv'
<1> DEFINE s == sequence[SlotAt(position(c))]
<1>1. c \in Threads /\ c \notin Producers /\ local[c] \in Locals
  BY ShmRingAssumption DEF RingInv, TypeOK, Threads
<1>2. position(c) \in Nat /\ position(c) <= consumerPosition
  BY <1>1 DEF RingInv, ConsumerInv, PollSequence, Locals, position
<1>3. SlotAt(position(c)) \in Slots /\ s \in Nat
  BY <1>2, SlotAtType DEF RingInv, TypeOK
<1>4. PICK l \in Locals :
        /\ Become(c, l)
        /\ l.position = position(c)
        /\ \/ s = EncodeSequence(position(c), Published) /\ l.pc = "cas"
           \/ /\ s # EncodeSequence(position(c), Published)
              /\ l.pc = "recheck" /\ l.seen = s
  <2>1. CASE s = EncodeSequence(position(c), Published)
    <3> DEFINE l == [local[c] EXCEPT !.pc = "cas"]
    <3>1. l \in Locals /\ l.pc = "cas" /\ l.position = position(c)
      BY <1>1 DEF Locals, Labels, position
    <3>2. Become(c, l)
      BY <2>1 DEF PollSequence, Goto
    <3> QED BY Zenon, <2>1, <3>1, <3>2
  <2>2. CASE s # EncodeSequence(position(c), Published)
    <3> DEFINE l == [local[c] EXCEPT !.pc = "recheck", !.seen = s]
    <3>1. /\ l \in Locals /\ l.pc = "recheck" /\ l.position = position(c)
          /\ l.seen = s
      BY Zenon, <1>1, <1>3 DEF Locals, Labels, position
    <3>2. Become(c, l)
      BY <2>2 DEF PollSequence
    <3> QED BY Zenon, <2>2, <3>1, <3>2
  <2> QED BY Zenon, <2>1, <2>2
<1>5. local'[c] = l
  BY <1>1, <1>4 DEF Become, RingInv, TypeOK
<1>6. s # EncodeSequence(position(c), Published)
      /\ position(c) = consumerPosition => NotReady(s, position(c))
  BY TailGeneration
<1>7. ConsumerInv(c)'
  <2>1. /\ pc(c)' = l.pc /\ position(c)' = position(c)
        /\ local'[c].seen = l.seen
    BY Zenon, <1>1, <1>4, <1>5 DEF pc, position
  <2> QED BY <1>2, <1>4, <1>6, <2>1
          DEF ConsumerInv, Claimed, PollSequence, NotReady
<1>8. ~ Reserved(c)' /\ ~ Claimed(c)'
  BY <1>4, <1>5 DEF Reserved, Claimed, pc
<1> QED BY <1>1, <1>4, <1>7, <1>8, LocalStep DEF PollSequence

LEMMA PollRecheckInv ==
  ASSUME RingInv, NEW c \in Consumers, PollRecheck(c)
  PROVE  RingInv'
<1>1. CASE consumerPosition # position(c)
  BY <1>1, PollAgainStep DEF PollRecheck
<1>2. CASE consumerPosition = position(c)
  <2>1. NotReady(local[c].seen, position(c))
    BY <1>2 DEF RingInv, ConsumerInv, PollRecheck
  <2>2. Become(c, Idle)
    BY <1>2, <2>1 DEF PollRecheck, Return
  <2>3. c \notin Producers /\ c \in Threads
    BY ShmRingAssumption DEF Threads
  <2> QED BY <2>2, <2>3, IdleType, RestartStep DEF PollRecheck, Idle
<1> QED BY <1>1, <1>2

\* The slot under a claim was published: its header names a producer.
LEMMA PollMetadataInv ==
  ASSUME RingInv, NEW c \in Consumers, PollMetadata(c)
  PROVE  RingInv'
<1> DEFINE l == [local[c] EXCEPT !.pc = "view"]
<1>1. c \in Threads /\ c \notin Producers /\ local[c] \in Locals
  BY ShmRingAssumption DEF RingInv, TypeOK, Threads
<1>2. Claimed(c) /\ position(c) \in Nat /\ SlotAt(position(c)) \in Slots
  BY <1>1, SlotAtType DEF PollMetadata, Claimed, Locals, position
<1>3. header[SlotAt(position(c))] # NoHeader
  <2>1. sequence[SlotAt(position(c))] = EncodeSequence(position(c), Published)
    BY <1>2 DEF RingInv, ConsumerInv
  <2>2. PICK g \in 0 .. MaximumPosition : SlotGeneration(SlotAt(position(c)), g)
    BY <1>2 DEF RingInv
  <2>3. sequence[SlotAt(position(c))] # EncodeSequence(g, Reusable)
    BY <1>2, <2>1 DEF EncodeSequence, Published, Reusable
  <2>4. PICK p \in Producers, m \in Messages :
          header[SlotAt(position(c))] = <<p, m>>
    BY <2>2, <2>3 DEF SlotGeneration
  <2> QED BY <2>4, ShmRingAssumption
<1>4. l \in Locals /\ l.pc = "view" /\ l.position = position(c)
  BY <1>1 DEF Locals, Labels, position
<1>5. Become(c, l) /\ UNCHANGED sequence
  BY <1>3 DEF PollMetadata, Goto
<1> HIDE DEF l
<1>6. local'[c] = l
  BY <1>1, <1>5 DEF Become, RingInv, TypeOK
<1>7. ConsumerInv(c)'
  <2>1. pc(c)' = "view" /\ position(c)' = position(c)
    BY <1>4, <1>6 DEF pc, position
  <2>2. ConsumerInv(c)
    BY DEF RingInv
  <2> QED BY Zenon, <1>2, <1>5, <2>1, <2>2 DEF ConsumerInv, Claimed, PollMetadata
<1>8. /\ ~ Reserved(c)'
      /\ Claimed(c) /\ position(c)' = position(c)
  BY <1>1, <1>2, <1>4, <1>6 DEF Reserved, position
<1> QED BY Zenon, <1>1, <1>4, <1>5, <1>7, <1>8, LocalStep DEF PollMetadata

\* Two owners never share a slot: its sequence would have to name both of
\* their positions.
LEMMA OwnersInv == RingInv => ExclusiveOwnership
<1> SUFFICES ASSUME RingInv, NEW t \in Threads, NEW u \in Threads,
                    Reserved(t) \/ Claimed(t), Reserved(u) \/ Claimed(u), t # u,
                    SlotAt(position(t)) = SlotAt(position(u))
             PROVE  FALSE
  BY DEF ExclusiveOwnership
<1>1. position(t) \in Nat /\ position(u) \in Nat
  BY DEF RingInv, TypeOK, Locals, position
<1>2. /\ Reserved(t) => sequence[SlotAt(position(t))] =
                          EncodeSequence(position(t), Reusable)
      /\ Claimed(t) => sequence[SlotAt(position(t))] =
                         EncodeSequence(position(t), Published)
  BY Zenon DEF RingInv, ProducerInv, ConsumerInv, Reserved, Claimed
<1>3. /\ Reserved(u) => sequence[SlotAt(position(u))] =
                          EncodeSequence(position(u), Reusable)
      /\ Claimed(u) => sequence[SlotAt(position(u))] =
                         EncodeSequence(position(u), Published)
  BY Zenon DEF RingInv, ProducerInv, ConsumerInv, Reserved, Claimed
<1>4. (Reserved(t) /\ Reserved(u)) \/ (Claimed(t) /\ Claimed(u))
  BY <1>1, <1>2, <1>3 DEF EncodeSequence, Reusable, Published
<1>5. position(t) = position(u)
  BY <1>1, <1>2, <1>3, <1>4 DEF EncodeSequence, Reusable, Published
<1> QED BY <1>4, <1>5 DEF RingInv, DistinctPositions

\* The winner of the CAS on the producer position owns the slot of the old
\* head; no other slot can be a lap behind the new head.
LEMMA ReserveCasInv ==
  ASSUME RingInv, NEW p \in Producers, ReserveCas(p)
  PROVE  RingInv'
<1>1. CASE ReserveAgain(p) /\ UNCHANGED producerPosition
  BY <1>1, ReserveAgainStep DEF ReserveCas
<1>2. CASE /\ producerPosition = position(p)
           /\ producerPosition' = position(p) + 1
           /\ Goto(p, "header")
  <2> USE ShmRingAssumption
  <2>1. /\ p \in Threads /\ p \notin Consumers
        /\ local \in [Threads -> Locals] /\ local[p] \in Locals
    BY DEF RingInv, TypeOK, Threads
  <2>2. /\ producerPosition \in Nat /\ consumerPosition \in Nat
        /\ producerPosition' = producerPosition + 1
        /\ SlotAt(producerPosition) \in Slots
    BY <1>2, SlotAtType DEF RingInv, TypeOK
  <2>3. /\ UNCHANGED <<consumerPosition, sequence, header, body>>
        /\ pc(p) = "cas"
    BY DEF ReserveCas
  <2>4. /\ sequence[SlotAt(producerPosition)] =
             EncodeSequence(producerPosition, Reusable)
        /\ producerPosition < MaximumPosition
    BY Zenon, <1>2, <2>3 DEF RingInv, ProducerInv
  <2> DEFINE l == [local[p] EXCEPT !.pc = "header"]
  <2>5. /\ l \in Locals /\ l.pc = "header" /\ l.position = producerPosition
        /\ l.msg = local[p].msg /\ local[p].msg \in Messages
    BY <1>2, <2>1, <2>3 DEF Locals, Labels, position, RingInv, ProducerInv
  <2>6. local' = [local EXCEPT ![p] = l]
    BY <1>2 DEF Goto, Become
  <2> HIDE DEF l
  <2>7. local' \in [Threads -> Locals] /\ local'[p] = l
        /\ \A u \in Threads : u # p => local'[u] = local[u]
    BY <2>1, <2>5, <2>6
  <2>8. TypeOK'
    BY <2>2, <2>3, <2>7 DEF RingInv, TypeOK
  <2>9. producerPosition < consumerPosition + SlotCount
    <3>1. PICK g \in 0 .. MaximumPosition :
            SlotGeneration(SlotAt(producerPosition), g)
      BY <2>2 DEF RingInv
    <3> QED BY <2>2, <2>4, <3>1
            DEF SlotGeneration, EncodeSequence, Reusable, Published
  <2>10. Window'
    BY <2>2, <2>3, <2>4, <2>9 DEF RingInv, Window
  <2>11. ASSUME NEW s \in Slots
         PROVE  \E g \in 0 .. MaximumPosition : SlotGeneration(s, g)'
    <3>1. PICK g \in 0 .. MaximumPosition : SlotGeneration(s, g)
      BY DEF RingInv
    <3>2. producerPosition # g + SlotCount
      <4> SUFFICES ASSUME producerPosition = g + SlotCount PROVE FALSE
        OBVIOUS
      <4>1. SlotAt(producerPosition) = s
        BY <3>1, SlotLaps DEF SlotGeneration
      <4> QED BY <2>2, <2>4, <3>1, <4>1
              DEF SlotGeneration, EncodeSequence, Reusable, Published
    <3>3. SlotGeneration(s, g)'
      BY <2>2, <2>3, <3>1, <3>2 DEF SlotGeneration
    <3> QED BY <3>3
  <2>12. ASSUME NEW q \in Producers PROVE ProducerInv(q)'
    <3>1. CASE q = p
      BY <2>2, <2>3, <2>4, <2>5, <2>7, <3>1
         DEF ProducerInv, Reserved, pc, position
    <3>2. CASE q # p
      <4>1. local'[q] = local[q] /\ position(q) \in Nat /\ ProducerInv(q)
        BY <2>1, <2>7, <3>2 DEF Threads, RingInv, Locals, position
      <4>9. /\ pc(q)' = pc(q) /\ position(q)' = position(q)
            /\ Reserved(q)' = Reserved(q)
        BY <4>1, SameLocals DEF Threads
      <4> QED BY <2>2, <2>3, <4>1, <4>9 DEF ProducerInv
    <3> QED BY <3>1, <3>2
  <2>13. ASSUME NEW c \in Consumers PROVE ConsumerInv(c)'
    <3>1. local'[c] = local[c] /\ ConsumerInv(c)
      BY <2>1, <2>7 DEF Threads, RingInv
    <3>9. /\ pc(c)' = pc(c) /\ position(c)' = position(c)
          /\ Claimed(c)' = Claimed(c)
      BY <3>1, SameLocals DEF Threads
    <3> QED BY <2>3, <3>1, <3>9 DEF ConsumerInv
  <2>14. DistinctPositions'
    <3>1. ASSUME NEW u \in Threads, u # p
          PROVE  /\ Reserved(u)' <=> Reserved(u)
                 /\ Claimed(u)' <=> Claimed(u)
                 /\ position(u)' = position(u)
                 /\ Reserved(u) => position(u) # producerPosition
      <4>1. local'[u] = local[u] /\ position(u) \in Nat
        BY <2>1, <2>7, <3>1 DEF Locals, position
      <4>2. Reserved(u) => position(u) < producerPosition
        BY DEF RingInv, ProducerInv, Reserved
      <4> QED BY <2>2, <4>1, <4>2 DEF Reserved, Claimed, pc, position
    <3>2. ~ Claimed(p)' /\ position(p)' = producerPosition
      BY <2>1, <2>5, <2>7 DEF Claimed, position
    <3> QED BY <3>1, <3>2 DEF RingInv, DistinctPositions
  <2>15. NoFalseCorruption'
    BY <2>5, <2>7 DEF RingInv, NoFalseCorruption, pc
  <2> QED BY <2>8, <2>10, <2>11, <2>12, <2>13, <2>14, <2>15 DEF RingInv
<1> QED BY <1>1, <1>2 DEF ReserveCas

\* An owner moves on to its next label and may write into its own slot: the
\* control words and the sequences stay, and so do the other slots.
LEMMA OwnerWriteStep ==
  ASSUME RingInv, NEW p \in Producers, Reserved(p),
         NEW label \in {"body", "publish"}, Goto(p, label),
         UNCHANGED <<producerPosition, consumerPosition, sequence>>,
         header' \in [Slots -> (Producers \X Messages) \cup {NoHeader}],
         body' \in [Slots -> Messages \cup {NoBody}],
         \A s \in Slots : s # SlotAt(position(p)) =>
                            header'[s] = header[s] /\ body'[s] = body[s],
         header'[SlotAt(position(p))] = <<p, local[p].msg>>,
         label = "publish" => body'[SlotAt(position(p))] = local[p].msg
  PROVE  RingInv'
<1> USE ShmRingAssumption
<1> DEFINE l == [local[p] EXCEPT !.pc = label]
<1>1. /\ p \in Threads /\ p \notin Consumers
      /\ local \in [Threads -> Locals] /\ local[p] \in Locals
  BY Zenon DEF RingInv, TypeOK, Threads
<1>2. /\ l \in Locals /\ l.pc = label /\ l.position = position(p)
      /\ l.msg = local[p].msg /\ local[p].msg \in Messages
  BY <1>1 DEF Locals, Labels, position, RingInv, ProducerInv, Reserved
<1>3. local' = [local EXCEPT ![p] = l]
  BY DEF Goto, Become
<1> HIDE DEF l
<1>4. /\ local' \in [Threads -> Locals] /\ local'[p] = l
      /\ \A u \in Threads : u # p => local'[u] = local[u]
  BY <1>1, <1>2, <1>3
<1>5. /\ position(p) \in Nat /\ position(p) < producerPosition
      /\ sequence[SlotAt(position(p))] = EncodeSequence(position(p), Reusable)
  BY Zenon, <1>1 DEF RingInv, ProducerInv, Locals, position
<1>6. TypeOK' /\ Window'
  BY Zenon, <1>4 DEF RingInv, TypeOK, Window
<1>7. ASSUME NEW s \in Slots
      PROVE  \E g \in 0 .. MaximumPosition : SlotGeneration(s, g)'
  <2>1. PICK g \in 0 .. MaximumPosition : SlotGeneration(s, g)
    BY Zenon DEF RingInv
  <2>2. CASE s = SlotAt(position(p))
    <3>1. sequence[s] # EncodeSequence(g, Published)
      BY <1>5, <2>2 DEF EncodeSequence, Reusable, Published
    <3>2. SlotGeneration(s, g)'
      BY Zenon, <2>1, <3>1 DEF SlotGeneration
    <3> QED BY Zenon, <3>2
  <2>3. CASE s # SlotAt(position(p))
    <3>1. SlotGeneration(s, g)'
      BY <2>1, <2>3 DEF SlotGeneration
    <3> QED BY <3>1
  <2> QED BY Zenon, <2>2, <2>3
<1>8. ASSUME NEW q \in Producers PROVE ProducerInv(q)'
  <2>1. CASE q = p
    BY Zenon, <1>2, <1>4, <1>5, <2>1 DEF ProducerInv, Reserved, pc, position
  <2>2. CASE q # p
    <3>1. /\ local'[q] = local[q] /\ position(q) \in Nat /\ ProducerInv(q)
          /\ q \in Threads
      BY Zenon, <1>1, <1>4, <2>2 DEF Threads, RingInv, Locals, position
    <3>2. SlotAt(position(q)) \in Slots
      BY Zenon, <3>1, SlotAtType
    <3>3. Reserved(q) => SlotAt(position(q)) # SlotAt(position(p))
      BY Zenon, <1>1, <2>2, <3>1, OwnersInv DEF ExclusiveOwnership
    <3>9. /\ pc(q)' = pc(q) /\ position(q)' = position(q)
          /\ Reserved(q)' = Reserved(q)
      BY Zenon, <3>1, SameLocals DEF Threads
    <3> QED BY Zenon, <3>1, <3>2, <3>3, <3>9 DEF ProducerInv, Reserved
  <2> QED BY Zenon, <2>1, <2>2
<1>9. ASSUME NEW c \in Consumers PROVE ConsumerInv(c)'
  <2>1. local'[c] = local[c] /\ ConsumerInv(c)
    BY Zenon, <1>1, <1>4 DEF Threads, RingInv
  <2>9. /\ pc(c)' = pc(c) /\ position(c)' = position(c)
        /\ Claimed(c)' = Claimed(c)
    BY Zenon, <2>1, SameLocals DEF Threads
  <2> QED BY Zenon, <2>1, <2>9 DEF ConsumerInv
<1>10. DistinctPositions'
  <2>1. ASSUME NEW u \in Threads
        PROVE  /\ Reserved(u)' => Reserved(u)
               /\ Claimed(u)' => Claimed(u)
               /\ position(u)' = position(u)
    BY <1>1, <1>2, <1>4 DEF Reserved, Claimed, pc, position
  <2> QED BY Zenon, <2>1 DEF RingInv, DistinctPositions
<1>11. NoFalseCorruption'
  BY Zenon, <1>2, <1>4 DEF RingInv, NoFalseCorruption, pc
<1> QED BY Zenon, <1>6, <1>7, <1>8, <1>9, <1>10, <1>11 DEF RingInv

LEMMA PublishHeaderInv ==
  ASSUME RingInv, NEW p \in Producers, PublishHeader(p)
  PROVE  RingInv'
<1>1. Reserved(p) /\ p \in Threads
  BY DEF PublishHeader, Reserved, Threads
<1>2. /\ position(p) \in Nat /\ local[p].msg \in Messages
      /\ sequence[SlotAt(position(p))] = EncodeSequence(position(p), Reusable)
  BY Zenon, <1>1 DEF RingInv, TypeOK, ProducerInv, Locals, position, Reserved
<1>3. SlotAt(position(p)) \in Slots
  BY <1>2, SlotAtType
<1>4. /\ header' = [header EXCEPT ![SlotAt(position(p))] = <<p, local[p].msg>>]
      /\ Goto(p, "body")
  BY <1>2 DEF PublishHeader
<1>5. /\ UNCHANGED <<producerPosition, consumerPosition, sequence, body>>
  BY DEF PublishHeader
<1>6. /\ header \in [Slots -> (Producers \X Messages) \cup {NoHeader}]
      /\ body \in [Slots -> Messages \cup {NoBody}]
  BY DEF RingInv, TypeOK
<1>7. /\ header' \in [Slots -> (Producers \X Messages) \cup {NoHeader}]
      /\ header'[SlotAt(position(p))] = <<p, local[p].msg>>
      /\ \A s \in Slots : s # SlotAt(position(p)) => header'[s] = header[s]
  BY Zenon, <1>2, <1>3, <1>4, <1>6
<1> QED BY Zenon, <1>1, <1>4, <1>5, <1>6, <1>7, OwnerWriteStep

LEMMA PublishBodyInv ==
  ASSUME RingInv, NEW p \in Producers, PublishBody(p)
  PROVE  RingInv'
<1>1. Reserved(p) /\ p \in Threads
  BY DEF PublishBody, Reserved, Threads
<1>2. /\ position(p) \in Nat /\ local[p].msg \in Messages
      /\ header[SlotAt(position(p))] = <<p, local[p].msg>>
  BY Zenon, <1>1 DEF RingInv, TypeOK, ProducerInv, Locals, position, PublishBody
<1>3. SlotAt(position(p)) \in Slots
  BY Zenon, <1>2, SlotAtType
<1>4. /\ body' = [body EXCEPT ![SlotAt(position(p))] = local[p].msg]
      /\ Goto(p, "publish")
      /\ UNCHANGED <<producerPosition, consumerPosition, sequence, header>>
  BY DEF PublishBody
<1>5. /\ header \in [Slots -> (Producers \X Messages) \cup {NoHeader}]
      /\ body \in [Slots -> Messages \cup {NoBody}]
  BY DEF RingInv, TypeOK
<1>6. /\ body' \in [Slots -> Messages \cup {NoBody}]
      /\ body'[SlotAt(position(p))] = local[p].msg
      /\ \A s \in Slots : s # SlotAt(position(p)) => body'[s] = body[s]
  BY Zenon, <1>2, <1>3, <1>4, <1>5
<1> QED BY Zenon, <1>1, <1>2, <1>4, <1>5, <1>6, OwnerWriteStep

\* An owner stores a new sequence in its slot and gives the slot up: the
\* slot's new generation g is all that has to be argued about.
LEMMA OwnerStoreStep ==
  ASSUME RingInv, NEW t \in Threads, Reserved(t) \/ Claimed(t),
         NEW l \in Locals, Become(t, l), l.pc \in {"idle", "load"},
         t \notin Producers \/ l.pc = "idle",
         UNCHANGED <<producerPosition, consumerPosition, header, body>>,
         sequence' \in [Slots -> Nat],
         NEW own \in Slots, own = SlotAt(position(t)),
         \A s \in Slots : s # own => sequence'[s] = sequence[s],
         \E g \in 0 .. MaximumPosition : SlotGeneration(own, g)'
  PROVE  RingInv'
<1> USE ShmRingAssumption
<1>1. local \in [Threads -> Locals] /\ position(t) \in Nat
      /\ producerPosition \in Nat /\ consumerPosition \in Nat
  BY Zenon DEF RingInv, TypeOK, Locals, position
<1>2. /\ local' \in [Threads -> Locals] /\ local'[t] = l
      /\ \A u \in Threads : u # t => local'[u] = local[u]
  BY Zenon, <1>1 DEF Become
<1>3. /\ Reserved(t) =>
           /\ position(t) < producerPosition
           /\ sequence[SlotAt(position(t))] = EncodeSequence(position(t), Reusable)
      /\ Claimed(t) =>
           /\ position(t) < consumerPosition
           /\ sequence[SlotAt(position(t))] = EncodeSequence(position(t), Published)
  BY Zenon DEF RingInv, ProducerInv, ConsumerInv, Reserved, Claimed
<1>4. TypeOK' /\ Window'
  BY Zenon, <1>2 DEF RingInv, TypeOK, Window
<1>5. ASSUME NEW s \in Slots
      PROVE  \E g \in 0 .. MaximumPosition : SlotGeneration(s, g)'
  <2>1. CASE s = own
    BY Zenon, <2>1
  <2>2. CASE s # own
    <3>1. PICK g \in 0 .. MaximumPosition : SlotGeneration(s, g)
      BY DEF RingInv
    <3>2. SlotGeneration(s, g)'
      BY Zenon, <2>2, <3>1 DEF SlotGeneration
    <3> QED BY Zenon, <3>2
  <2> QED BY Zenon, <2>1, <2>2
<1>6. ASSUME NEW u \in Threads, u # t, Reserved(u) \/ Claimed(u)
      PROVE  sequence'[SlotAt(position(u))] = sequence[SlotAt(position(u))]
  <2>1. position(u) \in Nat
    BY Zenon, <1>1 DEF Locals, position
  <2>2. SlotAt(position(u)) \in Slots /\ SlotAt(position(u)) # SlotAt(position(t))
    BY Zenon, <1>6, <2>1, SlotAtType, OwnersInv DEF ExclusiveOwnership
  <2> QED BY Zenon, <2>2
<1>7. ASSUME NEW q \in Producers PROVE ProducerInv(q)'
  <2>1. CASE q = t
    BY Zenon, <1>2, <2>1 DEF ProducerInv, Reserved, pc, position
  <2>2. CASE q # t
    <3>1. /\ q \in Threads /\ local'[q] = local[q] /\ ProducerInv(q)
          /\ position(q) \in Nat
      BY Zenon, <1>1, <1>2, <2>2 DEF Threads, RingInv, Locals, position
    <3>2. pc(q) = "cas" /\ position(q) = producerPosition =>
            sequence'[SlotAt(position(q))] = sequence[SlotAt(position(q))]
      <4> SUFFICES ASSUME pc(q) = "cas", position(q) = producerPosition,
                          SlotAt(position(q)) = SlotAt(position(t))
                   PROVE  FALSE
        BY <3>1, SlotAtType
      <4>1. sequence[SlotAt(position(t))] =
              EncodeSequence(producerPosition, Reusable)
        BY Zenon, <3>1 DEF ProducerInv
      <4>2. position(t) \in Nat /\ producerPosition \in Nat BY Zenon, <1>1
      <4>3. CASE Reserved(t)
        <5>1. position(t) = producerPosition BY Zenon, <1>3, <4>1, <4>2, <4>3, EncodeInjective
        <5>2. position(t) < producerPosition BY Zenon, <1>3, <4>3
        <5> QED BY <4>2, <5>1, <5>2
      <4>4. CASE Claimed(t) BY Zenon, <1>3, <4>1, <4>2, <4>4, EncodeInjective
      <4> QED BY Zenon, <4>3, <4>4
    <3>3. Reserved(q) =>
            sequence'[SlotAt(position(q))] = sequence[SlotAt(position(q))]
      BY <1>6, <2>2, <3>1
    <3>9. /\ pc(q)' = pc(q) /\ position(q)' = position(q)
          /\ Reserved(q)' = Reserved(q)
      BY <3>1, SameLocals DEF Threads
    <3> QED BY <3>1, <3>2, <3>3, <3>9 DEF ProducerInv
  <2> QED BY Zenon, <2>1, <2>2
<1>8. ASSUME NEW c \in Consumers PROVE ConsumerInv(c)'
  <2>1. CASE c = t
    BY Zenon, <1>2, <2>1 DEF ConsumerInv, Claimed, pc, position
  <2>2. CASE c # t
    <3>1. /\ c \in Threads /\ local'[c] = local[c] /\ ConsumerInv(c)
          /\ position(c) \in Nat
      BY <1>1, <1>2, <2>2 DEF Threads, RingInv, Locals, position
    <3>2. pc(c) = "cas" /\ position(c) = consumerPosition =>
            sequence'[SlotAt(position(c))] = sequence[SlotAt(position(c))]
      <4> SUFFICES ASSUME pc(c) = "cas", position(c) = consumerPosition,
                          SlotAt(position(c)) = SlotAt(position(t))
                   PROVE  FALSE
        BY Zenon, <3>1, SlotAtType
      <4>1. sequence[SlotAt(position(t))] =
              EncodeSequence(consumerPosition, Published)
        BY Zenon, <3>1 DEF ConsumerInv
      <4>2. ~ Reserved(t)
        BY <1>1, <1>3, <4>1, EncodeInjective, Zenon
      <4>3. position(t) = consumerPosition /\ position(t) < consumerPosition
        BY <1>1, <1>3, <4>1, <4>2, EncodeInjective, Zenon
      <4> QED BY <1>1, <4>3
    <3>3. Claimed(c) =>
            sequence'[SlotAt(position(c))] = sequence[SlotAt(position(c))]
      BY Zenon, <1>6, <2>2, <3>1
    <3>9. /\ pc(c)' = pc(c) /\ position(c)' = position(c)
          /\ Claimed(c)' = Claimed(c)
      BY <3>1, SameLocals DEF Threads
    <3> QED BY Zenon, <3>1, <3>2, <3>3, <3>9 DEF ConsumerInv
  <2> QED BY Zenon, <2>1, <2>2
<1>9. DistinctPositions'
  <2>1. ~ Reserved(t)' /\ ~ Claimed(t)'
    BY Zenon, <1>2 DEF Reserved, Claimed, pc
  <2>2. ASSUME NEW u \in Threads, u # t
        PROVE  /\ Reserved(u)' => Reserved(u)
               /\ Claimed(u)' => Claimed(u)
               /\ position(u)' = position(u)
    BY Zenon, <1>2, <2>2 DEF Reserved, Claimed, pc, position
  <2> QED BY <2>1, <2>2 DEF RingInv, DistinctPositions
<1>10. NoFalseCorruption'
  BY <1>2 DEF RingInv, NoFalseCorruption, pc
<1> QED BY <1>4, <1>5, <1>7, <1>8, <1>9, <1>10 DEF RingInv

LEMMA PublishSequenceInv ==
  ASSUME RingInv, NEW p \in Producers, PublishSequence(p)
  PROVE  RingInv'
<1> USE ShmRingAssumption
<1>1. Reserved(p) /\ p \in Threads /\ pc(p) = "publish"
  BY DEF PublishSequence, Reserved, Threads
<1>2. /\ position(p) \in Nat /\ local[p].msg \in Messages
      /\ producerPosition \in Nat /\ consumerPosition \in Nat
      /\ position(p) < producerPosition
      /\ sequence[SlotAt(position(p))] = EncodeSequence(position(p), Reusable)
      /\ header[SlotAt(position(p))] = <<p, local[p].msg>>
      /\ body[SlotAt(position(p))] = local[p].msg
  BY Zenon, <1>1 DEF RingInv, TypeOK, ProducerInv, Locals, position
<1>3. SlotAt(position(p)) \in Slots
  BY <1>2, SlotAtType
<1>4. /\ sequence' = [sequence EXCEPT ![SlotAt(position(p))] =
                                        EncodeSequence(position(p), Published)]
      /\ Become(p, Idle)
      /\ UNCHANGED <<producerPosition, consumerPosition, header, body>>
  BY DEF PublishSequence, Return
<1>5. /\ sequence' \in [Slots -> Nat]
      /\ sequence'[SlotAt(position(p))] = EncodeSequence(position(p), Published)
      /\ \A s \in Slots : s # SlotAt(position(p)) => sequence'[s] = sequence[s]
  <2>1. EncodeSequence(position(p), Published) \in Nat
    BY <1>2 DEF EncodeSequence, Published
  <2> QED BY Zenon, <1>3, <1>4, <2>1 DEF RingInv, TypeOK
<1>6. PICK g \in 0 .. MaximumPosition : SlotGeneration(SlotAt(position(p)), g)
  BY <1>3 DEF RingInv
<1>7. g = position(p)
  <2>1. g \in Nat
    BY <1>6
  <2>2. sequence[SlotAt(position(p))] \in {EncodeSequence(g, Reusable),
                                          EncodeSequence(g, Published)}
    BY <1>6 DEF SlotGeneration
  <2> QED BY <1>2, <2>1, <2>2, EncodeInjective
<1>8. PICK own \in Slots : own = SlotAt(position(p))
  BY <1>3
<1>9. SlotGeneration(own, g)'
  BY <1>2, <1>4, <1>5, <1>6, <1>7, <1>8 DEF SlotGeneration
<1> QED BY Zenon, <1>1, <1>4, <1>5, <1>6, <1>8, <1>9, IdleType, OwnerStoreStep DEF Idle

\* A released slot is free for the position one lap later, which the producers
\* have not passed because the slot was still published.
LEMMA ReleaseInv ==
  ASSUME RingInv, NEW c \in Consumers, Release(c)
  PROVE  RingInv'
<1> USE ShmRingAssumption
<1>1. Claimed(c) /\ c \in Threads /\ c \notin Producers
  BY Zenon DEF Release, Claimed, Threads
<1>2. /\ position(c) \in Nat /\ local[c] \in Locals
      /\ producerPosition \in Nat /\ consumerPosition \in Nat
      /\ sequence \in [Slots -> Nat]
      /\ position(c) < consumerPosition
      /\ sequence[SlotAt(position(c))] = EncodeSequence(position(c), Published)
  BY Zenon, <1>1 DEF RingInv, TypeOK, ConsumerInv, Locals, position
<1>3. PICK own \in Slots : own = SlotAt(position(c))
  BY <1>2, SlotAtType
<1>4. /\ Recycle(position(c))
      /\ \/ /\ Become(c, [Idle EXCEPT !.pc = "load", !.polls = local[c].polls - 1])
            /\ local[c].polls > 1
         \/ Become(c, Idle)
      /\ UNCHANGED <<producerPosition, consumerPosition, header, body>>
  BY <1>2 DEF Release, Poll, Return
<1>5. PICK l \in Locals : Become(c, l) /\ l.pc \in {"idle", "load"}
  <2>1. CASE Become(c, Idle)
    BY Zenon, <2>1, IdleType DEF Idle
  <2>2. CASE /\ Become(c, [Idle EXCEPT !.pc = "load", !.polls = local[c].polls - 1])
             /\ local[c].polls > 1
    <3> DEFINE l == [Idle EXCEPT !.pc = "load", !.polls = local[c].polls - 1]
    <3>1. local[c].polls - 1 \in Nat
      BY <1>2, <2>2 DEF Locals
    <3>2. l \in Locals /\ l.pc = "load"
      BY Zenon, <3>1, IdleType DEF Idle, Locals, Labels
    <3> QED BY Zenon, <2>2, <3>2
  <2> QED BY <1>4, <2>1, <2>2
<1>6. PICK g \in 0 .. MaximumPosition : SlotGeneration(own, g)
  BY DEF RingInv
<1>7. g = position(c)
  <2>1. g \in Nat
    BY <1>6
  <2>2. sequence[own] \in {EncodeSequence(g, Reusable),
                           EncodeSequence(g, Published)}
    BY <1>6 DEF SlotGeneration
  <2> QED BY Zenon, <1>2, <1>3, <2>1, <2>2, EncodeInjective
<1>8. CASE position(c) <= MaximumPosition - SlotCount
  <2>0. PICK h \in 0 .. MaximumPosition : h = position(c) + SlotCount
    BY <1>2, <1>8
  <2>1. h \in Nat
    BY <2>0
  <2>2. sequence' = [sequence EXCEPT ![own] = EncodeSequence(h, Reusable)]
    BY <1>3, <1>4, <1>8, <2>0 DEF Recycle
  <2>3. /\ sequence' \in [Slots -> Nat]
        /\ sequence'[own] = EncodeSequence(h, Reusable)
        /\ \A s \in Slots : s # own => sequence'[s] = sequence[s]
    <3>1. EncodeSequence(h, Reusable) \in Nat
      BY <2>1 DEF EncodeSequence, Reusable
    <3> QED BY Zenon, <1>2, <2>2, <3>1
  <2>4. SlotAt(h) = own
    BY <1>2, <1>3, <2>0, SlotLaps
  <2>5. consumerPosition <= h /\ h < consumerPosition + SlotCount
        /\ producerPosition <= h + SlotCount
    <3>1. producerPosition <= h /\ consumerPosition <= producerPosition
      BY Zenon, <1>6, <1>7, <2>0 DEF SlotGeneration, RingInv, Window
    <3> QED BY <1>2, <2>0, <2>1, <3>1
  <2>6. SlotGeneration(own, h)'
    BY <1>4, <2>3, <2>4, <2>5 DEF SlotGeneration
  <2> QED BY <1>1, <1>3, <1>4, <1>5, <2>0, <2>3, <2>6, OwnerStoreStep
<1>9. CASE ~ (position(c) <= MaximumPosition - SlotCount)
  <2>1. sequence' = sequence
    BY <1>4, <1>9 DEF Recycle
  <2>2. SlotGeneration(own, g)'
    BY <1>4, <1>6, <2>1 DEF SlotGeneration
  <2> QED BY <1>1, <1>2, <1>3, <1>4, <1>5, <1>6, <2>1, <2>2, OwnerStoreStep
<1> QED BY <1>8, <1>9

\* The winner of the CAS on the consumer position owns the published slot of
\* the old head; no slot still free for that position is left behind.
LEMMA PollCasInv ==
  ASSUME RingInv, NEW c \in Consumers, PollCas(c)
  PROVE  RingInv'
<1>1. CASE PollAgain(c) /\ UNCHANGED consumerPosition
  BY <1>1, PollAgainStep DEF PollCas
<1>2. CASE /\ consumerPosition = position(c)
           /\ consumerPosition' = position(c) + 1
           /\ Goto(c, "metadata")
  <2> USE ShmRingAssumption
  <2>1. /\ c \in Threads /\ c \notin Producers
        /\ local \in [Threads -> Locals] /\ local[c] \in Locals
    BY Zenon DEF RingInv, TypeOK, Threads
  <2>2. /\ producerPosition \in Nat /\ consumerPosition \in Nat
        /\ consumerPosition' = consumerPosition + 1
        /\ SlotAt(consumerPosition) \in Slots
    BY Zenon, <1>2, SlotAtType DEF RingInv, TypeOK
  <2>3. /\ UNCHANGED <<producerPosition, sequence, header, body>>
        /\ pc(c) = "cas"
    BY Zenon DEF PollCas
  <2>4. sequence[SlotAt(consumerPosition)] =
          EncodeSequence(consumerPosition, Published)
    BY Zenon, <1>2, <2>3 DEF RingInv, ConsumerInv
  <2> DEFINE l == [local[c] EXCEPT !.pc = "metadata"]
  <2>5. l \in Locals /\ l.pc = "metadata" /\ l.position = consumerPosition
    BY <1>2, <2>1 DEF Locals, Labels, position
  <2>6. local' = [local EXCEPT ![c] = l]
    BY <1>2 DEF Goto, Become
  <2> HIDE DEF l
  <2>7. /\ local' \in [Threads -> Locals] /\ local'[c] = l
        /\ \A u \in Threads : u # c => local'[u] = local[u]
    BY Zenon, <2>1, <2>5, <2>6
  <2>8. TypeOK'
    BY SMTT(20), <2>2, <2>3, <2>7 DEF RingInv, TypeOK
  <2>9. consumerPosition < producerPosition
    <3>1. PICK g \in 0 .. MaximumPosition :
            SlotGeneration(SlotAt(consumerPosition), g)
      BY <2>2 DEF RingInv
    <3>2. g \in Nat
      BY <3>1
    <3>3. sequence[SlotAt(consumerPosition)] # EncodeSequence(g, Reusable)
      BY <2>2, <2>4, <3>2, EncodeInjective
    <3>4. g < producerPosition
          /\ sequence[SlotAt(consumerPosition)] = EncodeSequence(g, Published)
      BY Zenon, <3>1, <3>3 DEF SlotGeneration
    <3>5. g = consumerPosition
      BY Zenon, <2>2, <2>4, <3>2, <3>4, EncodeInjective
    <3> QED BY Zenon, <3>4, <3>5
  <2>10. Window'
    BY <2>2, <2>3, <2>9 DEF RingInv, Window
  <2>11. ASSUME NEW s \in Slots
         PROVE  \E g \in 0 .. MaximumPosition : SlotGeneration(s, g)'
    <3>1. PICK g \in 0 .. MaximumPosition : SlotGeneration(s, g)
      BY DEF RingInv
    <3>2. g \in Nat
      BY <3>1
    <3>3. sequence[s] = EncodeSequence(g, Reusable) => g # consumerPosition
      BY Zenon, <2>2, <2>4, <3>1, <3>2, EncodeInjective DEF SlotGeneration
    <3>4. SlotGeneration(s, g)'
      BY <2>2, <2>3, <3>1, <3>2, <3>3 DEF SlotGeneration
    <3> QED BY <3>4
  <2>12. ASSUME NEW p \in Producers PROVE ProducerInv(p)'
    <3>1. local'[p] = local[p] /\ ProducerInv(p)
      BY <2>1, <2>7 DEF Threads, RingInv
    <3>9. /\ pc(p)' = pc(p) /\ position(p)' = position(p)
          /\ Reserved(p)' = Reserved(p)
      BY Zenon, <3>1, SameLocals DEF Threads
    <3> QED BY Zenon, <2>3, <3>1, <3>9 DEF ProducerInv
  <2>13. ASSUME NEW d \in Consumers PROVE ConsumerInv(d)'
    <3>1. CASE d = c
      <4>1. pc(c)' = "metadata" /\ position(c)' = consumerPosition
        BY Zenon, <2>5, <2>7 DEF pc, position
      <4>2. consumerPosition < consumerPosition' BY <2>2
      <4>3. sequence'[SlotAt(consumerPosition)] = EncodeSequence(consumerPosition, Published)
        BY Zenon, <2>3, <2>4
      <4> QED BY Zenon, <3>1, <4>1, <4>2, <4>3 DEF ConsumerInv
    <3>2. CASE d # c
      <4>1. local'[d] = local[d] /\ position(d) \in Nat /\ ConsumerInv(d)
        BY <2>1, <2>7, <3>2 DEF Threads, RingInv, Locals, position
      <4>9. /\ pc(d)' = pc(d) /\ position(d)' = position(d)
            /\ Claimed(d)' = Claimed(d)
        BY Zenon, <4>1, SameLocals DEF Threads
      <4>2. /\ position(d) <= consumerPosition => position(d) # consumerPosition'
            /\ position(d) <= consumerPosition => position(d) <= consumerPosition'
            /\ position(d) < consumerPosition => position(d) < consumerPosition'
        <5>1. position(d) \in Nat BY Zenon, <4>1
        <5> QED BY <2>2, <5>1
      <4> QED BY Zenon, <2>3, <4>1, <4>2, <4>9 DEF ConsumerInv
    <3> QED BY Zenon, <3>1, <3>2
  <2>14. DistinctPositions'
    <3>1. ASSUME NEW u \in Threads, u # c
          PROVE  /\ Reserved(u)' <=> Reserved(u)
                 /\ Claimed(u)' <=> Claimed(u)
                 /\ position(u)' = position(u)
                 /\ Claimed(u) => position(u) # consumerPosition
      <4>1. local'[u] = local[u] /\ position(u) \in Nat
        BY Zenon, <2>1, <2>7, <3>1 DEF Locals, position
      <4>2. Claimed(u) => position(u) < consumerPosition
        BY DEF RingInv, ConsumerInv, Claimed
      <4> QED BY <2>2, <4>1, <4>2 DEF Reserved, Claimed, pc, position
    <3>2. ~ Reserved(c)' /\ position(c)' = consumerPosition
      BY Zenon, <2>1, <2>5, <2>7 DEF Reserved, position
    <3> QED BY <3>1, <3>2 DEF RingInv, DistinctPositions
  <2>15. NoFalseCorruption'
    BY <2>5, <2>7 DEF RingInv, NoFalseCorruption, pc
  <2> QED BY <2>8, <2>10, <2>11, <2>12, <2>13, <2>14, <2>15 DEF RingInv
<1> QED BY <1>1, <1>2 DEF PollCas

-----------------------------------------------------------------------------
(* The theorems. *)

LEMMA RingInvStutter == RingInv /\ UNCHANGED vars => RingInv'
<1> SUFFICES ASSUME RingInv, UNCHANGED vars PROVE RingInv'
  OBVIOUS
<1>1. TypeOK' /\ Window' /\ NoFalseCorruption' /\ DistinctPositions'
  BY DEF RingInv, vars, TypeOK, Window, NoFalseCorruption, DistinctPositions,
         Reserved, Claimed, pc, position
<1>2. (\A s \in Slots : \E g \in 0 .. MaximumPosition : SlotGeneration(s, g))'
  BY Zenon DEF RingInv, vars, SlotGeneration
<1>3. (\A p \in Producers : ProducerInv(p))'
  BY Zenon DEF RingInv, vars, ProducerInv, Reserved, pc, position
<1>4. (\A c \in Consumers : ConsumerInv(c))'
  BY Zenon DEF RingInv, vars, ConsumerInv, Claimed, pc, position
<1> QED BY <1>1, <1>2, <1>3, <1>4 DEF RingInv

LEMMA RingInvNext == RingInv /\ [Next]_vars => RingInv'
<1> SUFFICES ASSUME RingInv, [Next]_vars PROVE RingInv'
  OBVIOUS
<1>1. CASE UNCHANGED vars
  BY <1>1, RingInvStutter
<1>2. ASSUME NEW p \in Producers, NEW m \in Messages, NEW retry \in BOOLEAN,
             PostSend(p, m, retry)
      PROVE  RingInv'
  BY <1>2, PostSendInv
<1>3. ASSUME NEW p \in Producers, ProducerStep(p) PROVE RingInv'
  BY <1>3, ReserveLoadInv, ReserveSequenceInv, ReserveRecheckInv, ReserveCasInv,
     PublishHeaderInv, PublishBodyInv, PublishSequenceInv DEF ProducerStep
<1>4. ASSUME NEW c \in Consumers, ConsumerStep(c) PROVE RingInv'
  BY <1>4, ProgressShmInv, RecvAvailableInv, PollLoadInv, PollSequenceInv,
     PollRecheckInv, PollCasInv, PollMetadataInv, ReleaseInv DEF ConsumerStep
<1> QED BY <1>1, <1>2, <1>3, <1>4 DEF Next

\* RingInv is an invariant of every ring: it holds when the owner initialises
\* the region and every access of ring.cpp preserves it.
THEOREM RingInvariant == Spec => []RingInv
BY RingInvInit, RingInvNext, PTL DEF Spec

\* For any number of threads and slots, no two threads ever fill or read the
\* same slot: the CAS on a position is enough to own it (ring.cpp:232, 297).
THEOREM RingExclusiveOwnership == Spec => []ExclusiveOwnership
BY RingInvariant, OwnersInv, PTL

\* No consistency check of reserve_impl, publish, poll and release fails by
\* contention, whatever the interleaving, up to the last encodable position.
THEOREM RingNoFalseCorruption == Spec => []NoFalseCorruption
<1>1. RingInv => NoFalseCorruption
  BY DEF RingInv
<1> QED BY <1>1, RingInvariant, PTL

\* A view returned by poll shows one whole message until it is released.
THEOREM RingWholeMessage == Spec => []WholeMessage
<1>1. RingInv => WholeMessage
  <2> SUFFICES ASSUME RingInv, NEW c \in Consumers, pc(c) = "view"
               PROVE  \E p \in Producers, m \in Messages :
                        /\ header[SlotAt(position(c))] = <<p, m>>
                        /\ body[SlotAt(position(c))] = m
    BY DEF WholeMessage
  <2>1. Claimed(c) /\ position(c) \in Nat /\ SlotAt(position(c)) \in Slots
    BY Zenon, SlotAtType DEF Claimed, RingInv, TypeOK, Threads, Locals, position
  <2>2. sequence[SlotAt(position(c))] = EncodeSequence(position(c), Published)
    BY Zenon, <2>1 DEF RingInv, ConsumerInv
  <2>3. PICK g \in 0 .. MaximumPosition : SlotGeneration(SlotAt(position(c)), g)
    BY <2>1 DEF RingInv
  <2>4. g \in Nat
    BY <2>3, ShmRingAssumption
  <2>5. sequence[SlotAt(position(c))] # EncodeSequence(g, Reusable)
    BY <2>1, <2>2, <2>4, EncodeInjective
  <2> QED BY Zenon, <2>3, <2>5 DEF SlotGeneration
<1> QED BY <1>1, RingInvariant, PTL

-----------------------------------------------------------------------------
(***************************************************************************)
(* The ring implements the bounded channel of ShmChannel, for every number *)
(* of threads, slots and messages and every maximum position: each access  *)
(* of ring.cpp is one step of the channel or leaves it as it is.           *)
(***************************************************************************)

\* Who is filling a reserved place, and what an idle producer is posting.
FillersInv ==
  /\ \A q \in Nat : consumerPosition <= q /\ q < producerPosition =>
       \/ sequence[SlotAt(q)] = EncodeSequence(q, Published)
       \/ \E p \in Producers : Reserved(p) /\ position(p) = q
  /\ \A p \in Producers : pc(p) = "idle" => local[p].msg = NoBody

-----------------------------------------------------------------------------
(* Reading the mapping. *)

LEMMA PositionsNat ==
  ASSUME RingInv PROVE producerPosition \in Nat /\ consumerPosition \in Nat
BY DEF RingInv, TypeOK

\* The producer that a reserved place waits for is the one that reserved it.
LEMMA FillerIs ==
  RingInv => \A p \in Producers : Reserved(p) => Filler(position(p)) = p
<1> SUFFICES ASSUME RingInv, NEW p \in Producers, Reserved(p)
             PROVE  Filler(position(p)) = p
  OBVIOUS
<1>1. \A u \in Producers : Reserved(u) /\ position(u) = position(p) => u = p
  BY DEF RingInv, DistinctPositions, Threads
<1> QED BY <1>1 DEF Filler

\* The generation of a slot that is published, or reserved by its filler.
LEMMA GenerationIs ==
  ASSUME RingInv, NEW q \in Nat
  PROVE  /\ sequence[SlotAt(q)] = EncodeSequence(q, Published) =>
              /\ q < producerPosition /\ producerPosition <= q + SlotCount
              /\ header[SlotAt(q)][1] \in Producers
              /\ body[SlotAt(q)] \in Messages
         /\ sequence[SlotAt(q)] = EncodeSequence(q, Reusable) =>
              consumerPosition <= q /\ q < consumerPosition + SlotCount
<1>1. SlotAt(q) \in Slots
  BY SlotAtType
<1>2. PICK g \in 0 .. MaximumPosition : SlotGeneration(SlotAt(q), g)
  BY <1>1 DEF RingInv
<1>3. g \in Nat
  BY <1>2, ShmRingAssumption
<1>4. CASE sequence[SlotAt(q)] = EncodeSequence(q, Published)
  <2>1. g = q /\ sequence[SlotAt(q)] # EncodeSequence(q, Reusable)
    BY <1>2, <1>3, <1>4, EncodeInjective DEF SlotGeneration
  <2> QED BY <1>2, <1>4, <2>1, EncodeInjective DEF SlotGeneration
<1>5. CASE sequence[SlotAt(q)] = EncodeSequence(q, Reusable)
  <2>1. g = q /\ sequence[SlotAt(q)] # EncodeSequence(q, Published)
    BY <1>2, <1>3, <1>5, EncodeInjective DEF SlotGeneration
  <2> QED BY <1>2, <1>5, <2>1, EncodeInjective DEF SlotGeneration
<1> QED BY <1>4, <1>5

\* Two places of the queue, or a place and a view, are in different slots.
LEMMA PlacesApart ==
  ASSUME RingInv, NEW q \in Nat, NEW r \in Nat, q # r,
         consumerPosition <= r, r < producerPosition,
         \/ consumerPosition <= q /\ q < producerPosition
         \/ sequence[SlotAt(q)] = EncodeSequence(q, Published)
  PROVE  SlotAt(q) # SlotAt(r)
<1> SUFFICES ASSUME SlotAt(q) = SlotAt(r) PROVE FALSE
  OBVIOUS
<1>1. producerPosition \in Nat /\ consumerPosition \in Nat /\ Window
      /\ SlotCount \in Nat
  BY ShmRingAssumption DEF RingInv, TypeOK
<1>2. q + SlotCount <= r \/ r + SlotCount <= q
  BY SlotLaps
<1>3. CASE consumerPosition <= q /\ q < producerPosition
  BY <1>1, <1>2, <1>3 DEF Window
<1>4. CASE sequence[SlotAt(q)] = EncodeSequence(q, Published)
  <2>1. q < producerPosition /\ producerPosition <= q + SlotCount
    BY <1>4, GenerationIs
  <2> QED BY <1>1, <1>2, <2>1 DEF Window
<1> QED BY <1>3, <1>4

\* What a consumer holds is a whole message of some producer.
LEMMA ViewIs ==
  ASSUME RingInv, NEW c \in Consumers, Claimed(c)
  PROVE  /\ position(c) \in Nat /\ position(c) < consumerPosition
         /\ sequence[SlotAt(position(c))] = EncodeSequence(position(c), Published)
         /\ Place(position(c)) \in Producers \X Messages
         /\ Views[c] = Place(position(c)) /\ Views[c] # NoBody
<1>1. /\ position(c) \in Nat /\ position(c) < consumerPosition
      /\ sequence[SlotAt(position(c))] = EncodeSequence(position(c), Published)
  BY DEF RingInv, TypeOK, Threads, Locals, position, ConsumerInv
<1>2. Place(position(c)) \in Producers \X Messages
  BY <1>1, GenerationIs DEF Place
<1> QED BY <1>1, <1>2, ShmRingAssumption DEF Views

\* What is at a place of the queue.
LEMMA PlaceIs ==
  ASSUME RingInv, FillersInv, NEW q \in Nat,
         consumerPosition <= q, q < producerPosition
  PROVE  \/ /\ sequence[SlotAt(q)] = EncodeSequence(q, Published)
            /\ Place(q) \in Producers \X Messages
         \/ \E p \in Producers :
              /\ Reserved(p) /\ position(p) = q
              /\ sequence[SlotAt(q)] # EncodeSequence(q, Published)
              /\ Place(q) = <<p, NoBody>>
<1>1. CASE sequence[SlotAt(q)] = EncodeSequence(q, Published)
  BY <1>1, GenerationIs DEF Place
<1>2. CASE sequence[SlotAt(q)] # EncodeSequence(q, Published)
  <2>1. PICK p \in Producers : Reserved(p) /\ position(p) = q
    BY <1>2 DEF FillersInv
  <2>2. Filler(q) = p
    BY <2>1, FillerIs
  <2> QED BY <1>2, <2>1, <2>2 DEF Place
<1> QED BY <1>1, <1>2

\* The place that a producer fills.
LEMMA ReservedIs ==
  ASSUME RingInv, NEW p \in Producers, Reserved(p)
  PROVE  /\ position(p) \in Nat /\ SlotAt(position(p)) \in Slots
         /\ consumerPosition <= position(p) /\ position(p) < producerPosition
         /\ sequence[SlotAt(position(p))] = EncodeSequence(position(p), Reusable)
         /\ Place(position(p)) = <<p, NoBody>>
         /\ local[p].msg \in Messages
<1>1. /\ position(p) \in Nat /\ position(p) < producerPosition
      /\ sequence[SlotAt(position(p))] = EncodeSequence(position(p), Reusable)
      /\ local[p].msg \in Messages
  BY DEF RingInv, TypeOK, Threads, Locals, position, ProducerInv, Reserved
<1>2. consumerPosition <= position(p)
  BY <1>1, GenerationIs
<1>3. sequence[SlotAt(position(p))] # EncodeSequence(position(p), Published)
  BY <1>1, EncodeInjective
<1>4. Place(position(p)) = <<p, NoBody>>
  BY <1>3, FillerIs DEF Place
<1> QED BY <1>1, <1>2, <1>4, SlotAtType

\* The queue of the mapping is a sequence: its length and its entries.
LEMMA QueueIs ==
  ASSUME RingInv
  PROVE  /\ Queue \in Seq({Place(q) : q \in Nat})
         /\ Len(Queue) = producerPosition - consumerPosition
         /\ \A i \in 1 .. Len(Queue) : Queue[i] = Place(consumerPosition + i - 1)
<1> DEFINE n == producerPosition - consumerPosition
           S == {Place(q) : q \in Nat}
<1>1. n \in Nat /\ consumerPosition \in Nat
  BY DEF RingInv, TypeOK, Window
<1>2. \A i \in 1 .. n : consumerPosition + i - 1 \in Nat
  BY <1>1
<1> HIDE DEF n
<1>3. Queue = [i \in 1 .. n |-> Place(consumerPosition + i - 1)]
  BY DEF Queue, n
<1>4. \A i \in 1 .. n : Place(consumerPosition + i - 1) \in S
  BY <1>2
<1> HIDE DEF S
<1>5. Queue \in [1 .. n -> S]
  BY <1>3, <1>4
<1>6. Queue \in Seq(S)
  BY <1>1, <1>5
<1>7. Len(Queue) = n
  BY <1>1, <1>5
<1>8. \A i \in 1 .. n : Queue[i] = Place(consumerPosition + i - 1)
  BY <1>3
<1> QED BY <1>6, <1>7, <1>8 DEF n, S

\* The queue and a place after a step, read at fixed positions.
LEMMA QueueNext ==
  ASSUME NEW n, NEW k, consumerPosition' = k,
         producerPosition' - consumerPosition' = n
  PROVE  Queue' = [i \in 1 .. n |-> Place(k + i - 1)']
BY DEF Queue, Place, Filler

LEMMA PlaceNext ==
  ASSUME NEW S, NEW t, position(t) \in S, position(t)' = position(t),
         \A q \in {position(t)} : Place(q)' = Place(q)
  PROVE  Place(position(t))' = Place(position(t))
<1>1. PICK q \in S : q = position(t)
  OBVIOUS
<1>2. Place(position(t))' = Place(q)'
  BY <1>1 DEF Place, Filler
<1> QED BY <1>1, <1>2

LEMMA TailIs ==
  ASSUME NEW S, NEW s \in Seq(S), NEW n \in Nat, Len(s) = n + 1
  PROVE  Tail(s) = [i \in 1 .. n |-> s[i + 1]]
<1>1. s # <<>>
  OBVIOUS
<1>2. /\ Tail(s) \in Seq(S) /\ Len(Tail(s)) = n
      /\ \A i \in 1 .. n : Tail(s)[i] = s[i + 1]
  BY <1>1
<1>3. Tail(s) \in [1 .. n -> S]
  <2>1. \A q \in Seq(S) : q \in [1 .. Len(q) -> S]
    OBVIOUS
  <2> QED BY Zenon, <1>2, <2>1
<1> QED BY Zenon, <1>2, <1>3

-----------------------------------------------------------------------------
(* Steps that leave the queue and the views as they are. *)

\* No thread becomes or ceases to be an owner of a slot.
OwnersKept ==
  \A t \in Threads :
    /\ Reserved(t)' <=> Reserved(t)
    /\ Claimed(t)' <=> Claimed(t)
    /\ Reserved(t) \/ Claimed(t) => position(t)' = position(t)

\* What is in a slot that someone may read stays there.
ContentsKept ==
  \A q \in Nat :
    sequence[SlotAt(q)] = EncodeSequence(q, Published) =>
      /\ header'[SlotAt(q)] = header[SlotAt(q)]
      /\ body'[SlotAt(q)] = body[SlotAt(q)]

LEMMA QuietStep ==
  ASSUME RingInv, OwnersKept, ContentsKept,
         UNCHANGED <<producerPosition, consumerPosition, sequence>>
  PROVE  Queue' = Queue /\ Views' = Views
<1>1. ASSUME NEW q \in Nat PROVE Place(q)' = Place(q)
  <2>1. \A p \in Producers :
          (Reserved(p) /\ position(p) = q)' <=> (Reserved(p) /\ position(p) = q)
    BY DEF OwnersKept, Threads
  <2>2. Filler(q)' = Filler(q)
    BY <2>1 DEF Filler
  <2> QED BY <2>2 DEF Place, ContentsKept
<1>2. producerPosition - consumerPosition \in Nat /\ consumerPosition \in Nat
  BY DEF RingInv, TypeOK, Window
<1>3. Queue' = Queue
  BY <1>1, <1>2 DEF Queue
<1>4. ASSUME NEW c \in Consumers, Claimed(c)
      PROVE  Claimed(c)' /\ Place(position(c))' = Place(position(c))
  <2>1. Claimed(c)' /\ position(c)' = position(c) /\ position(c) \in Nat
    BY <1>4, ViewIs DEF OwnersKept, Threads
  <2>2. PICK q \in Nat : q = position(c)
    BY <2>1
  <2>3. Place(position(c))' = Place(q)'
    BY <2>1, <2>2 DEF Place, Filler
  <2> QED BY <1>1, <2>1, <2>2, <2>3
<1>5. \A c \in Consumers : Claimed(c)' <=> Claimed(c)
  BY DEF OwnersKept, Threads
<1>6. Views' = Views
  BY <1>4, <1>5 DEF Views
<1> QED BY <1>3, <1>6

\* A thread that owns no slot returns, starts over or moves on.
LEMMA MoveStep ==
  ASSUME RingInv, FillersInv, NEW t \in Threads, NEW l, Become(t, l),
         ~ Reserved(t), ~ Claimed(t),
         l.pc \notin {"header", "body", "publish", "metadata", "view"},
         t \in Producers /\ l.pc = "idle" => l.msg = NoBody,
         UNCHANGED <<producerPosition, consumerPosition, sequence, header, body>>
  PROVE  Queue' = Queue /\ Views' = Views /\ FillersInv'
<1>1. local' = [local EXCEPT ![t] = l] /\ local \in [Threads -> Locals]
  BY DEF Become, RingInv, TypeOK
<1>2. local'[t] = l /\ \A u \in Threads : u # t => local'[u] = local[u]
  BY <1>1
<1>3. ~ Reserved(t)' /\ ~ Claimed(t)'
  BY <1>2 DEF Reserved, Claimed, pc
<1>4. OwnersKept
  BY <1>2, <1>3, SameLocals DEF OwnersKept
<1>5. ContentsKept
  BY DEF ContentsKept
<1>6. ASSUME NEW q \in Nat, consumerPosition <= q, q < producerPosition,
             sequence[SlotAt(q)] # EncodeSequence(q, Published)
      PROVE  \E p \in Producers : (Reserved(p) /\ position(p) = q)'
  BY <1>4, <1>6 DEF FillersInv, OwnersKept, Threads
<1>7. \A p \in Producers : (pc(p) = "idle" => local[p].msg = NoBody)'
  BY <1>2 DEF FillersInv, pc, Threads
<1>8. FillersInv'
  BY <1>6, <1>7 DEF FillersInv
<1> QED BY <1>4, <1>5, <1>8, QuietStep

\* A producer that reserved nothing is not waited for.
LEMMA NotWaiting ==
  ASSUME RingInv, FillersInv, NEW p \in Producers, ~ Reserved(p)
  PROVE  ~ Channel!Waiting(p)
<1> SUFFICES ASSUME NEW i \in 1 .. Len(Queue), Queue[i] = <<p, NoBody>>
             PROVE  FALSE
  BY DEF Channel!Waiting
<1>1. /\ consumerPosition \in Nat /\ producerPosition \in Nat
      /\ consumerPosition <= producerPosition
  BY DEF RingInv, TypeOK, Window
<1>2. Len(Queue) = producerPosition - consumerPosition
  BY QueueIs
<1>3. PICK q \in Nat : q = consumerPosition + i - 1
  BY <1>1
<1>4. consumerPosition <= q /\ q < producerPosition
  BY <1>1, <1>2, <1>3
<1>5. Place(q) = <<p, NoBody>>
  BY Zenon, <1>3, QueueIs
<1>6. Place(q) \notin Producers \X Messages
  BY <1>5, ShmRingAssumption
<1>7. \E r \in Producers : Reserved(r) /\ Place(q) = <<r, NoBody>>
  BY <1>4, <1>6, PlaceIs
<1> QED BY <1>5, <1>7

ChannelStep == [Channel!Next]_(Channel!vars)

LEMMA ChannelStutter ==
  ASSUME Sending' = Sending, Queue' = Queue, Views' = Views
  PROVE  ChannelStep
BY DEF ChannelStep, Channel!vars

\* A producer that owns no slot keeps its message or gives up.
LEMMA ProducerMove ==
  ASSUME RingInv, FillersInv, NEW p \in Producers, NEW l, Become(p, l),
         pc(p) # "idle", ~ Reserved(p),
         l.pc \notin {"header", "body", "publish", "metadata", "view"},
         l = Idle \/ (l.pc # "idle" /\ l.msg = local[p].msg),
         UNCHANGED <<producerPosition, consumerPosition, sequence, header, body>>
  PROVE  FillersInv' /\ ChannelStep
<1>1. p \in Threads /\ ~ Claimed(p)
  BY ShmRingAssumption DEF Threads, Claimed
<1>2. Queue' = Queue /\ Views' = Views /\ FillersInv'
  BY <1>1, MoveStep DEF Idle
<1>3. local' = [local EXCEPT ![p] = l] /\ local \in [Threads -> Locals]
  BY DEF Become, RingInv, TypeOK
<1>4. Sending' = [Sending EXCEPT ![p] = l.msg]
  BY Zenon, <1>3 DEF Sending, Threads
<1>5. CASE l.msg = local[p].msg
  <2>1. Sending' = Sending
    BY Zenon, <1>4, <1>5 DEF Sending
  <2> QED BY <1>2, <2>1, ChannelStutter
<1>6. CASE l = Idle
  <2>1. Sending[p] # NoBody
    BY ShmRingAssumption, <1>1 DEF Sending, RingInv, ProducerInv, NoFalseCorruption
  <2>2. Channel!Refuse(p)
    BY <1>2, <1>4, <1>6, <2>1, NotWaiting DEF Channel!Refuse, Idle
  <2> QED BY <1>2, <2>2 DEF ChannelStep, Channel!Next
<1> QED BY <1>5, <1>6

\* A consumer that owns no slot is invisible.
LEMMA ConsumerMove ==
  ASSUME RingInv, FillersInv, NEW c \in Consumers, NEW l, Become(c, l),
         ~ Claimed(c),
         l.pc \notin {"header", "body", "publish", "metadata", "view"},
         UNCHANGED <<producerPosition, consumerPosition, sequence, header, body>>
  PROVE  FillersInv' /\ ChannelStep
<1>1. c \in Threads /\ ~ Reserved(c) /\ c \notin Producers
  BY ShmRingAssumption DEF Threads, Reserved
<1>2. Queue' = Queue /\ Views' = Views /\ FillersInv'
  BY <1>1, MoveStep
<1>3. Sending' = Sending
  BY <1>1 DEF Sending, Become, RingInv, TypeOK, Threads
<1> QED BY <1>2, <1>3, ChannelStutter

-----------------------------------------------------------------------------
(* The accesses of a producer. *)

\* A call of post_send.
LEMMA PostSendRefines ==
  ASSUME RingInv, FillersInv, NEW p \in Producers, NEW m \in Messages,
         NEW r \in BOOLEAN, PostSend(p, m, r)
  PROVE  FillersInv' /\ ChannelStep
<1> DEFINE l == [Idle EXCEPT !.pc = "load", !.msg = m, !.allowRetry = r]
<1>1. l.pc = "load" /\ l.msg = m
  BY DEF Idle
<1>2. Become(p, l) /\ pc(p) = "idle"
  BY DEF PostSend
<1> HIDE DEF l
<1>3. p \in Threads /\ ~ Claimed(p) /\ ~ Reserved(p)
  BY <1>2, ShmRingAssumption DEF Threads, Claimed, Reserved
<1>4. Queue' = Queue /\ Views' = Views /\ FillersInv'
  BY <1>1, <1>2, <1>3, MoveStep DEF PostSend
<1>5. Sending' = [Sending EXCEPT ![p] = m]
  BY Zenon, <1>1, <1>2 DEF Become, RingInv, TypeOK, Sending, Threads
<1>6. Sending[p] = NoBody
  BY <1>2 DEF FillersInv, Sending
<1>7. Channel!Call(p, m)
  BY <1>4, <1>5, <1>6 DEF Channel!Call
<1> QED BY <1>4, <1>7 DEF ChannelStep, Channel!Next

\* A failed attempt of reserve_impl is tried again, or the call is refused.
LEMMA ReserveAgainRefines ==
  ASSUME RingInv, FillersInv, NEW p \in Producers, ReserveAgain(p),
         pc(p) \in {"recheck", "cas"},
         UNCHANGED <<producerPosition, consumerPosition, sequence, header, body>>
  PROVE  FillersInv' /\ ChannelStep
<1> DEFINE more == [Reload(p) EXCEPT !.attempt = @ + 1]
           anew == [Reload(p) EXCEPT !.attempt = 0]
<1>1. local[p] \in Locals
  BY DEF RingInv, TypeOK, Threads
<1>2. /\ more.pc = "load" /\ more.msg = local[p].msg
      /\ anew.pc = "load" /\ anew.msg = local[p].msg
  BY <1>1 DEF Reload, Locals
<1>3. Become(p, more) \/ Become(p, anew) \/ Become(p, Idle)
  BY DEF ReserveAgain, Return
<1> HIDE DEF more, anew
<1>4. pc(p) # "idle" /\ ~ Reserved(p) /\ Idle.pc = "idle"
  BY DEF Reserved, Idle
<1> QED BY <1>2, <1>3, <1>4, ProducerMove

\* The loads of reserve_impl, and its answers retry_nomem and fatal.
LEMMA ReserveLoadRefines ==
  ASSUME RingInv, FillersInv, NEW p \in Producers, ReserveLoad(p)
  PROVE  FillersInv' /\ ChannelStep
<1> DEFINE l == [local[p] EXCEPT !.pc = "sequence", !.position = producerPosition]
<1>1. local[p] \in Locals
  BY DEF RingInv, TypeOK, Threads
<1>2. l.pc = "sequence" /\ l.msg = local[p].msg
  BY <1>1 DEF Locals
<1>3. Become(p, l) \/ Become(p, Idle)
  BY DEF ReserveLoad, Return
<1> HIDE DEF l
<1>4. pc(p) # "idle" /\ ~ Reserved(p) /\ Idle.pc = "idle"
  BY DEF Reserved, Idle, ReserveLoad
<1> QED BY <1>2, <1>3, <1>4, ProducerMove DEF ReserveLoad

LEMMA ReserveSequenceRefines ==
  ASSUME RingInv, FillersInv, NEW p \in Producers, ReserveSequence(p)
  PROVE  FillersInv' /\ ChannelStep
<1> DEFINE free == [local[p] EXCEPT !.pc = "cas"]
           busy(s) == [local[p] EXCEPT !.pc = "recheck", !.seen = s]
<1>1. local[p] \in Locals
  BY DEF RingInv, TypeOK, Threads
<1>2. /\ free.pc = "cas" /\ free.msg = local[p].msg
      /\ \A s : busy(s).pc = "recheck" /\ busy(s).msg = local[p].msg
  BY <1>1 DEF Locals
<1>3. Become(p, free) \/ Become(p, busy(sequence[SlotAt(position(p))]))
  BY DEF ReserveSequence, Goto
<1> HIDE DEF free, busy
<1>4. pc(p) # "idle" /\ ~ Reserved(p)
  BY DEF Reserved, ReserveSequence
<1> QED BY <1>2, <1>3, <1>4, ProducerMove DEF ReserveSequence

LEMMA ReserveRecheckRefines ==
  ASSUME RingInv, RingInv', FillersInv, NEW p \in Producers, ReserveRecheck(p)
  PROVE  FillersInv' /\ ChannelStep
<1>1. pc(p) = "recheck" /\ pc(p) # "idle" /\ ~ Reserved(p)
  BY DEF Reserved, ReserveRecheck
<1>2. CASE ReserveAgain(p)
  BY <1>1, <1>2, ReserveAgainRefines DEF ReserveRecheck
<1>3. CASE Return(p)
  BY <1>1, <1>3, ProducerMove DEF ReserveRecheck, Return, Idle
<1>4. ~ Fault(p)
  BY DEF Fault, Goto, Become, RingInv, TypeOK, NoFalseCorruption, pc, Threads, Locals
<1> QED BY <1>2, <1>3, <1>4 DEF ReserveRecheck

\* The channel counts with the same Cardinality.
LEMMA SameCardinality == \A S : Channel!Cardinality(S) = Cardinality(S)
BY DEF Channel!Cardinality, Cardinality

\* A free slot at the head means that fewer than slot_count places are in
\* use.
HeadHasRoom ==
  sequence[SlotAt(producerPosition)] = EncodeSequence(producerPosition, Reusable) =>
    Len(Queue) + Cardinality(Channel!Held) < SlotCount

\* The winner of the CAS takes the next place in line.
LEMMA ReserveCasRefines ==
  ASSUME RingInv, RingInv', FillersInv, HeadHasRoom, NEW p \in Producers, ReserveCas(p)
  PROVE  FillersInv' /\ ChannelStep
<1>1. CASE ReserveAgain(p) /\ UNCHANGED producerPosition
  BY <1>1, ReserveAgainRefines DEF ReserveCas
<1>2. CASE /\ producerPosition = position(p)
           /\ producerPosition' = position(p) + 1
           /\ Goto(p, "header")
  <2>1. /\ pc(p) = "cas" /\ ~ Reserved(p) /\ p \in Threads /\ ~ Claimed(p)
        /\ UNCHANGED <<consumerPosition, sequence, header, body>>
    BY ShmRingAssumption DEF ReserveCas, Reserved, Threads, Claimed
  <2>2. /\ producerPosition \in Nat /\ consumerPosition \in Nat
        /\ producerPosition' = producerPosition + 1
        /\ consumerPosition <= producerPosition
    BY <1>2 DEF RingInv, TypeOK, Window
  <2>3. /\ local \in [Threads -> Locals]
        /\ local' = [local EXCEPT ![p] = [local[p] EXCEPT !.pc = "header"]]
    BY <1>2 DEF Goto, Become, RingInv, TypeOK
  <2>4. /\ local'[p].pc = "header" /\ local'[p].position = producerPosition
        /\ local'[p].msg = local[p].msg
        /\ \A u \in Threads : u # p => local'[u] = local[u]
    BY <1>2, <2>1, <2>3 DEF Locals, position
  <2>5. /\ Reserved(p)' /\ position(p)' = producerPosition /\ ~ Claimed(p)'
    BY <2>1, <2>4 DEF Reserved, Claimed, pc, position
  <2>6. ASSUME NEW u \in Threads, u # p
        PROVE  /\ pc(u)' = pc(u) /\ position(u)' = position(u)
               /\ Reserved(u)' = Reserved(u) /\ Claimed(u)' = Claimed(u)
    BY Zenon, <2>4, <2>6, SameLocals
  <2>7. ASSUME NEW q \in Nat, q # producerPosition PROVE Place(q)' = Place(q)
    <3>1. \A u \in Producers :
            (Reserved(u) /\ position(u) = q)' <=> (Reserved(u) /\ position(u) = q)
      BY <2>1, <2>5, <2>6, <2>7 DEF Threads
    <3>2. Filler(q)' = Filler(q)
      BY <3>1 DEF Filler
    <3> QED BY Zenon, <2>1, <3>2 DEF Place
  <2>8. /\ sequence[SlotAt(producerPosition)] =
             EncodeSequence(producerPosition, Reusable)
        /\ local[p].msg \in Messages
    BY Zenon, <1>2, <2>1 DEF RingInv, ProducerInv
  <2>9. PICK x \in Nat : x = producerPosition
    BY <2>2
  <2>10. Place(x)' = <<p, NoBody>>
    <3>1. \A u \in Producers : (Reserved(u) /\ position(u) = x)' <=> u = p
      <4>1. \A u \in Producers : u # p => ~ (Reserved(u)' /\ position(u)' = x)
        BY <2>2, <2>6, <2>9, ReservedIs DEF Threads
      <4> QED BY <2>5, <2>9, <4>1
    <3>2. Filler(x)' = p
      BY <3>1 DEF Filler
    <3>3. sequence'[SlotAt(x)] # EncodeSequence(x, Published)
      BY <2>1, <2>8, <2>9, EncodeInjective
    <3> QED BY <3>2, <3>3 DEF Place
  <2>11. Queue' = Append(Queue, <<p, NoBody>>)
    <3>1. PICK n \in Nat : /\ n = producerPosition - consumerPosition
                           /\ producerPosition' - consumerPosition' = n + 1
      BY <2>1, <2>2
    <3>2. PICK k \in Nat : k = consumerPosition
      BY <2>2
    <3>3. Queue' = [i \in 1 .. n + 1 |-> Place(k + i - 1)']
      BY <2>1, <3>1, <3>2, QueueNext
    <3>4. /\ Queue \in Seq({Place(q) : q \in Nat}) /\ Len(Queue) = n
          /\ \A i \in 1 .. n : Queue[i] = Place(k + i - 1)
      BY <3>1, <3>2, QueueIs
    <3>5. \A i \in 1 .. n : k + i - 1 \in Nat /\ k + i - 1 # producerPosition
      BY <2>2, <3>1, <3>2
    <3>6. \A i \in 1 .. n : Place(k + i - 1)' = Queue[i]
      BY Zenon, <2>7, <3>4, <3>5
    <3>7. Place(k + (n + 1) - 1)' = <<p, NoBody>>
      <4>1. k + (n + 1) - 1 = x
        BY <2>2, <2>9, <3>1, <3>2
      <4> QED BY <2>10, <4>1
    <3>8. Append(Queue, <<p, NoBody>>) =
            [i \in 1 .. n + 1 |-> IF i = n + 1 THEN <<p, NoBody>> ELSE Queue[i]]
      BY <3>1, <3>4
    <3>9. \A i \in 1 .. n + 1 :
            Place(k + i - 1)' = IF i = n + 1 THEN <<p, NoBody>> ELSE Queue[i]
      BY <3>1, <3>6, <3>7
    <3> QED BY Zenon, <3>3, <3>8, <3>9
  <2>12. Views' = Views
    <3>1. ASSUME NEW c \in Consumers, Claimed(c)
          PROVE  Claimed(c)' /\ Place(position(c))' = Place(position(c))
      <4>1. c \in Threads /\ c # p
        BY <2>1, <3>1 DEF Threads
      <4>2. /\ position(c)' = position(c) /\ Claimed(c)'
            /\ position(c) \in Nat /\ position(c) # producerPosition
        <5>1. position(c) \in Nat /\ position(c) < consumerPosition BY Zenon, <3>1, ViewIs
        <5>2. position(c) # producerPosition BY <2>2, <5>1
        <5> QED BY Zenon, <2>6, <3>1, <4>1, <5>1, <5>2
      <4> QED BY <2>7, <4>2, PlaceNext
    <3>2. \A c \in Consumers : Claimed(c)' <=> Claimed(c)
      BY <2>1, <2>5, <2>6 DEF Threads
    <3> QED BY <3>1, <3>2 DEF Views
  <2>13. Sending' = Sending
    BY <2>3, <2>4 DEF Sending, Threads
  <2>14. Sending[p] # NoBody
    BY <2>8, ShmRingAssumption DEF Sending
  <2>15. Channel!Reserve(p)
    <3>1. Len(Queue) + Channel!Cardinality(Channel!Held) < SlotCount
      BY Zenon, <2>8, SameCardinality DEF HeadHasRoom
    <3> QED BY <2>1, <2>8, <2>11, <2>12, <2>13, <2>14, <3>1, NotWaiting
            DEF Channel!Reserve
  <2>16. FillersInv'
    <3>1. ASSUME NEW q \in Nat, consumerPosition <= q, q < producerPosition + 1
          PROVE  \/ sequence[SlotAt(q)] = EncodeSequence(q, Published)
                 \/ \E u \in Producers : (Reserved(u) /\ position(u) = q)'
      <4>1. CASE q = producerPosition
        BY <2>5, <4>1
      <4>2. CASE q < producerPosition
        <5>1. ASSUME NEW u \in Producers, Reserved(u)
              PROVE  Reserved(u)' /\ position(u)' = position(u)
          BY <2>1, <2>6, <5>1 DEF Threads
        <5> QED BY <3>1, <4>2, <5>1 DEF FillersInv
      <4> QED BY <2>2, <3>1, <4>1, <4>2
    <3>2. \A u \in Producers : (pc(u) = "idle" => local[u].msg = NoBody)'
      BY <2>4 DEF FillersInv, pc, Threads
    <3> QED BY Zenon, <2>1, <2>2, <3>1, <3>2 DEF FillersInv
  <2> QED BY <2>15, <2>16 DEF ChannelStep, Channel!Next
<1> QED BY <1>1, <1>2 DEF ReserveCas

\* An owner that moves on to its next label and stays an owner is invisible;
\* what it may write is a slot that nobody reads.
LEMMA OwnerStep ==
  ASSUME RingInv, FillersInv, NEW t \in Threads, NEW label, Goto(t, label),
         \/ Reserved(t) /\ label \in {"body", "publish"}
         \/ Claimed(t) /\ label = "view",
         UNCHANGED <<producerPosition, consumerPosition, sequence>>,
         ContentsKept
  PROVE  FillersInv' /\ ChannelStep
<1>1. /\ local \in [Threads -> Locals]
      /\ local' = [local EXCEPT ![t] = [local[t] EXCEPT !.pc = label]]
  BY DEF Goto, Become, RingInv, TypeOK
<1>2. /\ local'[t].pc = label /\ local'[t].position = local[t].position
      /\ local'[t].msg = local[t].msg
      /\ \A u \in Threads : u # t => local'[u] = local[u]
  BY <1>1 DEF Locals
<1>3. OwnersKept
  <2>1. /\ Reserved(t)' <=> Reserved(t)
        /\ Claimed(t)' <=> Claimed(t)
        /\ position(t)' = position(t)
    BY <1>2, ShmRingAssumption DEF Reserved, Claimed, pc, position
  <2> QED BY <1>2, <2>1, SameLocals DEF OwnersKept
<1>4. Queue' = Queue /\ Views' = Views
  BY <1>3, QuietStep
<1>5. Sending' = Sending
  BY <1>1, <1>2 DEF Sending, Threads
<1>6. ASSUME NEW q \in Nat, consumerPosition <= q, q < producerPosition,
             sequence[SlotAt(q)] # EncodeSequence(q, Published)
      PROVE  \E p \in Producers : (Reserved(p) /\ position(p) = q)'
  BY <1>3, <1>6 DEF FillersInv, OwnersKept, Threads
<1>7. \A p \in Producers : (pc(p) = "idle" => local[p].msg = NoBody)'
  BY Zenon, <1>2 DEF FillersInv, pc, Threads
<1>8. FillersInv'
  BY <1>6, <1>7 DEF FillersInv
<1> QED BY <1>4, <1>5, <1>8, ChannelStutter

\* The slot of a producer is not published, for any position.
LEMMA ReservedUnread ==
  ASSUME RingInv, NEW p \in Producers, Reserved(p), NEW q \in Nat,
         sequence[SlotAt(q)] = EncodeSequence(q, Published)
  PROVE  SlotAt(q) # SlotAt(position(p)) /\ SlotAt(q) \in Slots
BY ReservedIs, EncodeInjective, SlotAtType

LEMMA PublishHeaderRefines ==
  ASSUME RingInv, RingInv', FillersInv, NEW p \in Producers, PublishHeader(p)
  PROVE  FillersInv' /\ ChannelStep
<1>1. Reserved(p) /\ p \in Threads
  BY DEF PublishHeader, Reserved, Threads
<1>2. ~ Fault(p)
  BY DEF Fault, Goto, Become, RingInv, TypeOK, NoFalseCorruption, pc, Threads, Locals
<1>3. /\ header' = [header EXCEPT ![SlotAt(position(p))] = <<p, local[p].msg>>]
      /\ Goto(p, "body")
      /\ UNCHANGED <<producerPosition, consumerPosition, sequence, body>>
  BY <1>2 DEF PublishHeader
<1>4. ContentsKept
  BY <1>1, <1>3, ReservedUnread DEF ContentsKept, RingInv, TypeOK
<1> QED BY <1>1, <1>3, <1>4, OwnerStep

LEMMA PublishBodyRefines ==
  ASSUME RingInv, FillersInv, NEW p \in Producers, PublishBody(p)
  PROVE  FillersInv' /\ ChannelStep
<1>1. Reserved(p) /\ p \in Threads
  BY DEF PublishBody, Reserved, Threads
<1>2. /\ body' = [body EXCEPT ![SlotAt(position(p))] = local[p].msg]
      /\ Goto(p, "publish")
      /\ UNCHANGED <<producerPosition, consumerPosition, sequence, header>>
  BY DEF PublishBody
<1>3. ContentsKept
  BY Zenon, <1>1, <1>2, ReservedUnread DEF ContentsKept, RingInv, TypeOK
<1> QED BY <1>1, <1>2, <1>3, OwnerStep

\* The release store of publish fills the place of its producer.
LEMMA PublishSequenceRefines ==
  ASSUME RingInv, RingInv', FillersInv, NEW p \in Producers, PublishSequence(p)
  PROVE  FillersInv' /\ ChannelStep
<1>1. /\ Reserved(p) /\ p \in Threads /\ pc(p) = "publish" /\ p \notin Consumers
      /\ UNCHANGED <<producerPosition, consumerPosition, header, body>>
  BY ShmRingAssumption DEF PublishSequence, Reserved, Threads
<1>2. PICK x \in Nat : x = position(p)
  BY <1>1, ReservedIs
<1>3. /\ SlotAt(x) \in Slots /\ consumerPosition <= x /\ x < producerPosition
      /\ Place(x) = <<p, NoBody>> /\ local[p].msg \in Messages
  BY <1>1, <1>2, ReservedIs
<1>4. /\ sequence' = [sequence EXCEPT ![SlotAt(x)] = EncodeSequence(x, Published)]
      /\ sequence \in [Slots -> Nat]
      /\ local \in [Threads -> Locals] /\ local' = [local EXCEPT ![p] = Idle]
  BY <1>2 DEF PublishSequence, Return, Become, RingInv, TypeOK
<1>5. local'[p] = Idle /\ \A u \in Threads : u # p => local'[u] = local[u]
  BY <1>1, <1>4
<1>6. ~ Reserved(p)' /\ ~ Claimed(p)'
  BY <1>5 DEF Reserved, Claimed, pc, Idle
<1>7. ASSUME NEW u \in Threads, u # p
      PROVE  /\ pc(u)' = pc(u) /\ position(u)' = position(u)
             /\ Reserved(u)' = Reserved(u) /\ Claimed(u)' = Claimed(u)
  BY <1>5, <1>7, SameLocals
<1>8. ASSUME NEW q \in Nat, q # x,
             \/ consumerPosition <= q /\ q < producerPosition
             \/ sequence[SlotAt(q)] = EncodeSequence(q, Published)
      PROVE  sequence'[SlotAt(q)] = sequence[SlotAt(q)] /\ Place(q)' = Place(q)
  <2>1. SlotAt(q) # SlotAt(x) /\ SlotAt(q) \in Slots
    BY <1>3, <1>8, PlacesApart, SlotAtType
  <2>2. sequence'[SlotAt(q)] = sequence[SlotAt(q)]
    BY <1>4, <2>1
  <2>3. \A u \in Producers :
          (Reserved(u) /\ position(u) = q)' <=> (Reserved(u) /\ position(u) = q)
    BY <1>2, <1>6, <1>7, <1>8 DEF Threads
  <2>4. Filler(q)' = Filler(q)
    BY <2>3 DEF Filler
  <2> QED BY Zenon, <1>1, <2>2, <2>4 DEF Place
<1>9. Place(x)' = <<p, local[p].msg>>
  <2>1. header[SlotAt(x)] = <<p, local[p].msg>> /\ body[SlotAt(x)] = local[p].msg
    BY Zenon, <1>1, <1>2 DEF RingInv, ProducerInv
  <2>2. sequence'[SlotAt(x)] = EncodeSequence(x, Published)
    BY <1>3, <1>4
  <2> QED BY <1>1, <2>1, <2>2 DEF Place
<1>10. PICK k \in Nat, n \in Nat :
         k = consumerPosition /\ n = producerPosition - consumerPosition
  BY DEF RingInv, TypeOK, Window
<1>11. PICK j \in 1 .. n : x = k + j - 1
  <2>1. \A a, b, m \in Nat : b <= a /\ a < b + m =>
          a - b + 1 \in 1 .. m /\ a = b + (a - b + 1) - 1
    OBVIOUS
  <2>2. producerPosition \in Nat /\ consumerPosition \in Nat
    BY PositionsNat
  <2>3. k <= x /\ x < k + n
    BY <1>3, <1>10, <2>2
  <2>4. x - k + 1 \in 1 .. n /\ x = k + (x - k + 1) - 1
    BY <2>1, <2>3, Zenon
  <2> QED BY <2>4
<1>12. /\ Queue \in Seq({Place(q) : q \in Nat}) /\ Len(Queue) = n
       /\ \A i \in 1 .. n : Queue[i] = Place(k + i - 1)
  BY <1>10, QueueIs
<1>13. Queue' = [i \in 1 .. n |-> Place(k + i - 1)']
  BY <1>1, <1>10, QueueNext
<1>14. ASSUME NEW i \in 1 .. n
       PROVE  Place(k + i - 1)' = IF i = j THEN <<p, local[p].msg>> ELSE Queue[i]
  <2>1. CASE i = j
    BY <1>9, <1>11, <2>1
  <2>2. CASE i # j
    <3>1. /\ k + i - 1 \in Nat /\ k + i - 1 # x
          /\ consumerPosition <= k + i - 1 /\ k + i - 1 < producerPosition
      BY <1>10, <1>11, <2>2, PositionsNat
    <3> QED BY <1>8, <1>12, <2>2, <3>1
  <2> QED BY <2>1, <2>2
<1>15. Queue' = [Queue EXCEPT ![j] = <<p, Sending[p]>>]
  <2>1. Sending[p] = local[p].msg /\ DOMAIN Queue = 1 .. n
    BY <1>12 DEF Sending
  <2> QED BY Zenon, <1>11, <1>13, <1>14, <2>1
<1>16. Views' = Views
  <2>1. ASSUME NEW c \in Consumers, Claimed(c)
        PROVE  Claimed(c)' /\ Place(position(c))' = Place(position(c))
    <3>1. c \in Threads /\ c # p
      BY <1>1, <2>1 DEF Threads
    <3>2. /\ position(c)' = position(c) /\ Claimed(c)' /\ position(c) \in Nat
          /\ sequence[SlotAt(position(c))] = EncodeSequence(position(c), Published)
      BY Zenon, <1>7, <2>1, <3>1, ViewIs
    <3>3. position(c) # x
      BY <1>1, <1>2, <3>2, ReservedUnread
    <3> QED BY Zenon, <1>8, <3>2, <3>3, PlaceNext
  <2>2. \A c \in Consumers : Claimed(c)' <=> Claimed(c)
    BY <1>1, <1>6, <1>7 DEF Threads
  <2> QED BY <2>1, <2>2 DEF Views
<1>17. Sending' = [Sending EXCEPT ![p] = NoBody]
  BY Zenon, <1>4, <1>5 DEF Sending, Threads, Idle
<1>18. Channel!Fill(p)
  <2>1. j \in 1 .. Len(Queue) /\ Queue[j] = <<p, NoBody>>
    BY <1>3, <1>11, <1>12
  <2> QED BY Zenon, <1>15, <1>16, <1>17, <2>1 DEF Channel!Fill
<1>19. FillersInv'
  <2>1. ASSUME NEW q \in Nat, consumerPosition <= q, q < producerPosition
        PROVE  \/ sequence'[SlotAt(q)] = EncodeSequence(q, Published)
               \/ \E u \in Producers : (Reserved(u) /\ position(u) = q)'
    <3>1. CASE q = x
      BY <1>3, <1>4, <3>1
    <3>2. CASE q # x
      <4>1. sequence'[SlotAt(q)] = sequence[SlotAt(q)]
        BY Zenon, <1>8, <2>1, <3>2
      <4>2. ASSUME NEW u \in Producers, Reserved(u), position(u) = q
            PROVE  (Reserved(u) /\ position(u) = q)'
        BY Zenon, <1>2, <1>7, <3>2, <4>2 DEF Threads
      <4> QED BY Zenon, <2>1, <4>1, <4>2 DEF FillersInv
    <3> QED BY <3>1, <3>2
  <2>2. \A u \in Producers : (pc(u) = "idle" => local[u].msg = NoBody)'
    <3>1. Idle.msg = NoBody BY DEF Idle
    <3>2. \A u \in Producers : pc(u) = "idle" => local[u].msg = NoBody BY Zenon DEF FillersInv
    <3>3. \A u \in Producers : u \in Threads BY DEF Threads
    <3> QED BY Zenon, <1>5, <3>1, <3>2, <3>3 DEF pc
  <2> QED BY <1>1, <2>1, <2>2 DEF FillersInv
<1> QED BY <1>18, <1>19 DEF ChannelStep, Channel!Next

-----------------------------------------------------------------------------
(* The accesses of a consumer. *)

\* The loads of progress_shm and poll, and a poll that finds nothing.
LEMMA ConsumerLoadsRefine ==
  ASSUME RingInv, RingInv', FillersInv, NEW c \in Consumers,
         \/ ProgressShm(c) \/ \E n \in 0 .. MaxPolls : RecvAvailable(c, n)
         \/ PollLoad(c) \/ PollSequence(c) \/ PollRecheck(c)
         \/ PollCas(c) /\ PollAgain(c) /\ UNCHANGED consumerPosition
  PROVE  FillersInv' /\ ChannelStep
<1>1. /\ ~ Claimed(c)
      /\ UNCHANGED <<producerPosition, consumerPosition, sequence, header, body>>
  BY DEF ProgressShm, RecvAvailable, PollLoad, PollSequence, PollRecheck, PollCas,
         Claimed
<1>2. c \in Threads /\ local[c] \in Locals /\ local \in [Threads -> Locals]
  BY DEF Threads, RingInv, TypeOK
<1>3. ~ Fault(c)
  BY <1>2 DEF Fault, Goto, Become, RingInv, NoFalseCorruption, pc, Locals
<1>4. \E l : /\ Become(c, l)
             /\ l.pc \in {"idle", "load", "available", "sequence", "recheck", "cas"}
  <2>1. CASE ProgressShm(c)
    <3> DEFINE l == [Idle EXCEPT !.pc = "available", !.position = consumerPosition]
    <3>1. Become(c, l) /\ l.pc = "available"
      BY <2>1 DEF ProgressShm, Idle
    <3> QED BY Zenon, <3>1
  <2>2. ASSUME NEW n \in 0 .. MaxPolls, RecvAvailable(c, n)
        PROVE  \E l : Become(c, l) /\ l.pc \in {"idle", "load"}
    <3> DEFINE l == [Idle EXCEPT !.pc = "load", !.polls = n]
    <3>1. l.pc = "load" /\ Idle.pc = "idle"
      BY DEF Idle
    <3>2. Become(c, Idle) \/ Become(c, l)
      BY Zenon, <2>2 DEF RecvAvailable, Return, Poll
    <3> QED BY Zenon, <3>1, <3>2
  <2>3. CASE PollLoad(c)
    <3> DEFINE l == [local[c] EXCEPT !.pc = "sequence", !.position = consumerPosition]
    <3>1. Become(c, l) /\ l.pc = "sequence"
      BY <1>2, <2>3 DEF PollLoad, Locals
    <3> QED BY Zenon, <3>1
  <2>4. CASE PollSequence(c)
    <3> DEFINE ready == [local[c] EXCEPT !.pc = "cas"]
               busy(s) == [local[c] EXCEPT !.pc = "recheck", !.seen = s]
    <3>1. ready.pc = "cas" /\ \A s : busy(s).pc = "recheck"
      BY <1>2 DEF Locals
    <3>2. Become(c, ready) \/ Become(c, busy(sequence[SlotAt(position(c))]))
      BY <2>4 DEF PollSequence, Goto
    <3> HIDE DEF ready, busy
    <3> QED BY <3>1, <3>2
  <2>5. CASE PollAgain(c) \/ Return(c)
    <3> DEFINE more == [Reload(c) EXCEPT !.attempt = @ + 1]
    <3>1. more.pc = "load" /\ Idle.pc = "idle"
      BY <1>2 DEF Reload, Locals, Idle
    <3>2. Become(c, more) \/ Become(c, Idle)
      BY <2>5 DEF PollAgain, Return
    <3> HIDE DEF more
    <3> QED BY <3>1, <3>2
  <2>6. CASE PollRecheck(c)
    BY Zenon, <1>3, <2>5, <2>6 DEF PollRecheck
  <2> QED BY <2>1, <2>2, <2>3, <2>4, <2>5, <2>6
<1> QED BY <1>1, <1>4, ConsumerMove

\* The winner of the CAS takes the message at the head of the queue.
LEMMA PollCasRefines ==
  ASSUME RingInv, RingInv', FillersInv, NEW c \in Consumers, PollCas(c)
  PROVE  FillersInv' /\ ChannelStep
<1>1. CASE PollAgain(c) /\ UNCHANGED consumerPosition
  BY <1>1, ConsumerLoadsRefine
<1>2. CASE /\ consumerPosition = position(c)
           /\ consumerPosition' = position(c) + 1
           /\ Goto(c, "metadata")
  <2>1. /\ pc(c) = "cas" /\ ~ Claimed(c) /\ c \in Threads /\ ~ Reserved(c)
        /\ c \notin Producers
        /\ UNCHANGED <<producerPosition, sequence, header, body>>
    BY Zenon, ShmRingAssumption DEF PollCas, Reserved, Threads, Claimed
  <2>2. PICK k \in Nat : k = consumerPosition /\ consumerPosition' = k + 1
    BY <1>2, PositionsNat
  <2>3. /\ local \in [Threads -> Locals]
        /\ local' = [local EXCEPT ![c] = [local[c] EXCEPT !.pc = "metadata"]]
    BY <1>2 DEF Goto, Become, RingInv, TypeOK
  <2>4. /\ local'[c].pc = "metadata" /\ local'[c].position = k
        /\ \A u \in Threads : u # c => local'[u] = local[u]
    BY <1>2, <2>1, <2>2, <2>3 DEF Locals, position
  <2>5. ~ Reserved(c)' /\ position(c)' = k /\ Claimed(c)'
    BY Zenon, <2>1, <2>4 DEF Reserved, Claimed, pc, position
  <2>6. ASSUME NEW u \in Threads, u # c
        PROVE  /\ pc(u)' = pc(u) /\ position(u)' = position(u)
               /\ Reserved(u)' = Reserved(u) /\ Claimed(u)' = Claimed(u)
    BY Zenon, <2>4, <2>6, SameLocals
  <2>7. ASSUME NEW q \in Nat PROVE Place(q)' = Place(q)
    <3>1. \A u \in Producers :
            (Reserved(u) /\ position(u) = q)' <=> (Reserved(u) /\ position(u) = q)
      BY <2>1, <2>6 DEF Threads
    <3>2. Filler(q)' = Filler(q)
      BY <3>1 DEF Filler
    <3> QED BY <2>1, <3>2 DEF Place
  <2>8. sequence[SlotAt(k)] = EncodeSequence(k, Published)
    BY Zenon, <1>2, <2>1, <2>2 DEF RingInv, ConsumerInv
  <2>9. k < producerPosition /\ Place(k) \in Producers \X Messages
    BY Zenon, <2>8, GenerationIs DEF Place
  <2>10. PICK n \in Nat : n + 1 = producerPosition - consumerPosition
    <3>1. producerPosition - consumerPosition - 1 \in Nat
      BY <2>2, <2>9, PositionsNat
    <3> QED BY <3>1, PositionsNat
  <2>11. /\ Queue \in Seq({Place(q) : q \in Nat}) /\ Len(Queue) = n + 1
         /\ \A i \in 1 .. n + 1 : Queue[i] = Place(k + i - 1)
    BY <2>2, <2>10, QueueIs
  <2>12. Queue # <<>> /\ Head(Queue) = Place(k)
    <3>1. Queue # <<>>
      BY <2>11
    <3>2. Queue[1] = Place(k)
      BY <2>11
    <3> QED BY <2>11, <3>1, <3>2
  <2>13. Queue' = Tail(Queue)
    <3>1. Queue' = [i \in 1 .. n |-> Place(k + 1 + i - 1)']
      <4>1. producerPosition' - consumerPosition' = n
        BY <2>1, <2>2, <2>10, PositionsNat
      <4> QED BY Zenon, <2>2, <4>1, QueueNext
    <3>2. \A i \in 1 .. n : Place(k + 1 + i - 1)' = Queue[i + 1]
      <4>1. \A i \in 1 .. n : /\ k + 1 + i - 1 \in Nat
                              /\ k + 1 + i - 1 = k + (i + 1) - 1
                              /\ i + 1 \in 1 .. n + 1
        OBVIOUS
      <4> QED BY <2>7, <2>11, <4>1
    <3>3. Tail(Queue) = [i \in 1 .. n |-> Queue[i + 1]]
      BY <2>11, TailIs
    <3> QED BY <3>1, <3>2, <3>3
  <2>14. Views' = [Views EXCEPT ![c] = Place(k)]
    <3>1. ASSUME NEW d \in Consumers, d # c
          PROVE  Views'[d] = Views[d]
      <4>1. d \in Threads /\ Claimed(d)' = Claimed(d) /\ position(d)' = position(d)
        BY <2>6, <3>1 DEF Threads
      <4>2. CASE ~ Claimed(d)
        BY <4>1, <4>2 DEF Views
      <4>3. CASE Claimed(d)
        <5>1. Place(position(d))' = Place(position(d))
          BY Zenon, <2>7, <4>1, <4>3, ViewIs, PlaceNext
        <5> QED BY Zenon, <4>1, <4>3, <5>1 DEF Views
      <4> QED BY Zenon, <4>2, <4>3
    <3>2. Views'[c] = Place(k)
      <4>1. Place(position(c))' = Place(k)'
        BY SMTT(20), <2>5, SMTT(30) DEF Place, Filler
      <4> QED BY Zenon, <2>5, <2>7, <4>1 DEF Views
    <3>3. /\ DOMAIN Views' = Consumers /\ DOMAIN Views = Consumers
          /\ Views' = [d \in Consumers |-> Views'[d]]
      BY DEF Views
    <3> QED BY <3>1, <3>2, <3>3
  <2>15. Sending' = Sending
    BY Zenon, <2>1, <2>4 DEF Sending, Threads
  <2>16. Channel!Claim(c)
    <3>1. Views[c] = NoBody
      BY <2>1 DEF Views
    <3>2. Place(k)[2] # NoBody
      BY Zenon, <2>9, ShmRingAssumption
    <3>3. Head(Queue)[2] # NoBody
      BY <2>12, <3>2, Zenon
    <3>4. Views' = [Views EXCEPT ![c] = Head(Queue)]
      BY <2>12, <2>14, Zenon
    <3> QED BY <2>12, <2>13, <2>15, <3>1, <3>3, <3>4, Zenon DEF Channel!Claim
  <2>17. FillersInv'
    <3>1. ASSUME NEW q \in Nat, k + 1 <= q, q < producerPosition
          PROVE  \/ sequence[SlotAt(q)] = EncodeSequence(q, Published)
                 \/ \E u \in Producers : (Reserved(u) /\ position(u) = q)'
      <4>1. ASSUME NEW u \in Producers, Reserved(u)
            PROVE  Reserved(u)' /\ position(u)' = position(u)
        BY <2>1, <2>6, <4>1 DEF Threads
      <4>2. consumerPosition <= q
        BY <2>2, <3>1
      <4> QED BY Zenon, <3>1, <4>1, <4>2 DEF FillersInv
    <3>2. \A u \in Producers : (pc(u) = "idle" => local[u].msg = NoBody)'
      BY Zenon, <2>1, <2>4 DEF FillersInv, pc, Threads
    <3> QED BY Zenon, <2>1, <2>2, <3>1, <3>2 DEF FillersInv
  <2> QED BY <2>16, <2>17 DEF ChannelStep, Channel!Next
<1> QED BY <1>1, <1>2 DEF PollCas

\* The metadata of a claimed slot is there, so poll returns the view.
LEMMA PollMetadataRefines ==
  ASSUME RingInv, RingInv', FillersInv, NEW c \in Consumers, PollMetadata(c)
  PROVE  FillersInv' /\ ChannelStep
<1>1. Claimed(c) /\ c \in Threads
  BY DEF PollMetadata, Claimed, Threads
<1>2. ~ Fault(c)
  BY DEF Fault, Goto, Become, RingInv, TypeOK, NoFalseCorruption, pc, Threads, Locals
<1>3. /\ Goto(c, "view")
      /\ UNCHANGED <<producerPosition, consumerPosition, sequence, header, body>>
  BY <1>2 DEF PollMetadata
<1>4. ContentsKept
  BY <1>3 DEF ContentsKept
<1> QED BY <1>1, <1>3, <1>4, OwnerStep

\* release() gives the place up; the slot it recycles is in no place of the
\* queue and in no other view.
LEMMA ReleaseRefines ==
  ASSUME RingInv, RingInv', FillersInv, NEW c \in Consumers, Release(c)
  PROVE  FillersInv' /\ ChannelStep
<1>1. /\ Claimed(c) /\ c \in Threads /\ c \notin Producers
      /\ UNCHANGED <<producerPosition, consumerPosition, header, body>>
  BY Zenon, ShmRingAssumption DEF Release, Claimed, Threads
<1>2. PICK x \in Nat : x = position(c)
  BY Zenon, <1>1, ViewIs
<1>3. /\ x < consumerPosition /\ SlotAt(x) \in Slots
      /\ sequence[SlotAt(x)] = EncodeSequence(x, Published)
      /\ Views[c] # NoBody
  BY Zenon, <1>1, <1>2, ViewIs, SlotAtType
<1>4. ~ Fault(c)
  BY DEF Fault, Goto, Become, RingInv, TypeOK, NoFalseCorruption, pc, Threads, Locals
<1>5. /\ Recycle(x)
      /\ \E l : Become(c, l) /\ l.pc \in {"idle", "load"}
  <2> DEFINE l == [Idle EXCEPT !.pc = "load", !.polls = local[c].polls - 1]
  <2>1. l.pc = "load" /\ Idle.pc = "idle"
    BY DEF Idle
  <2>2. Become(c, l) \/ Become(c, Idle)
    BY <1>4 DEF Release, Poll, Return
  <2>3. Recycle(x)
    BY Zenon, <1>2, <1>4 DEF Release
  <2> QED BY Zenon, <2>1, <2>2, <2>3
<1>6. \A s \in Slots : s # SlotAt(x) => sequence'[s] = sequence[s]
  BY Zenon, <1>5 DEF Recycle, RingInv, TypeOK
<1>7. /\ local'[c].pc \in {"idle", "load"}
      /\ \A u \in Threads : u # c => local'[u] = local[u]
  BY Zenon, <1>1, <1>5 DEF Become, RingInv, TypeOK
<1>8. ~ Reserved(c)' /\ ~ Claimed(c)'
  BY <1>1, <1>7 DEF Reserved, Claimed, pc
<1>9. ASSUME NEW u \in Threads, u # c
      PROVE  /\ pc(u)' = pc(u) /\ position(u)' = position(u)
             /\ Reserved(u)' = Reserved(u) /\ Claimed(u)' = Claimed(u)
  BY Zenon, <1>7, <1>9, SameLocals
<1>10. ASSUME NEW q \in Nat, SlotAt(q) # SlotAt(x)
       PROVE  sequence'[SlotAt(q)] = sequence[SlotAt(q)] /\ Place(q)' = Place(q)
  <2>1. sequence'[SlotAt(q)] = sequence[SlotAt(q)]
    BY <1>6, <1>10, SlotAtType
  <2>2. \A u \in Producers :
          (Reserved(u) /\ position(u) = q)' <=> (Reserved(u) /\ position(u) = q)
    BY Zenon, <1>1, <1>9 DEF Threads
  <2>3. Filler(q)' = Filler(q)
    BY <2>2 DEF Filler
  <2> QED BY Zenon, <1>1, <2>1, <2>3 DEF Place
<1>11. ASSUME NEW q \in Nat, consumerPosition <= q, q < producerPosition
       PROVE  SlotAt(q) # SlotAt(x)
  <2>1. q # x
    BY <1>3, <1>11, PositionsNat
  <2> QED BY Zenon, <1>3, <1>11, <2>1, PlacesApart
<1>12. Queue' = Queue
  <2>1. PICK k \in Nat, n \in Nat :
          k = consumerPosition /\ n = producerPosition - consumerPosition
    BY DEF RingInv, TypeOK, Window
  <2>2. Queue' = [i \in 1 .. n |-> Place(k + i - 1)']
    BY <1>1, <2>1, QueueNext
  <2>3. Queue = [i \in 1 .. n |-> Place(k + i - 1)]
    BY <2>1 DEF Queue
  <2>4. ASSUME NEW i \in 1 .. n PROVE Place(k + i - 1)' = Place(k + i - 1)
    <3>1. /\ k + i - 1 \in Nat /\ consumerPosition <= k + i - 1
          /\ k + i - 1 < producerPosition
      BY <2>1, PositionsNat
    <3> QED BY <1>10, <1>11, <3>1
  <2> QED BY Zenon, <2>2, <2>3, <2>4
<1>13. Views' = [Views EXCEPT ![c] = NoBody]
  <2>1. ASSUME NEW d \in Consumers, d # c
        PROVE  Views'[d] = Views[d]
    <3>1. d \in Threads /\ Claimed(d)' = Claimed(d) /\ position(d)' = position(d)
      BY <1>9, <2>1 DEF Threads
    <3>2. CASE ~ Claimed(d)
      BY <3>1, <3>2 DEF Views
    <3>3. CASE Claimed(d)
      <4>1. position(d) \in Nat /\ SlotAt(position(d)) # SlotAt(x)
        BY Zenon, <1>1, <1>2, <2>1, <3>1, <3>3, ViewIs, OwnersInv DEF ExclusiveOwnership
      <4>2. Place(position(d))' = Place(position(d))
        BY Zenon, <1>10, <3>1, <4>1, PlaceNext
      <4> QED BY <3>1, <3>3, <4>2 DEF Views
    <3> QED BY <3>2, <3>3
  <2>2. Views'[c] = NoBody
    BY <1>8 DEF Views
  <2>3. /\ DOMAIN Views' = Consumers /\ DOMAIN Views = Consumers
        /\ Views' = [d \in Consumers |-> Views'[d]]
    BY DEF Views
  <2> QED BY <2>1, <2>2, <2>3
<1>14. Sending' = Sending
  BY Zenon, <1>1, <1>7 DEF Sending, Threads
<1>15. Channel!Release(c)
  BY <1>3, <1>12, <1>13, <1>14 DEF Channel!Release
<1>16. FillersInv'
  <2>1. ASSUME NEW q \in Nat, consumerPosition <= q, q < producerPosition
        PROVE  \/ sequence'[SlotAt(q)] = EncodeSequence(q, Published)
               \/ \E u \in Producers : (Reserved(u) /\ position(u) = q)'
    <3>1. sequence'[SlotAt(q)] = sequence[SlotAt(q)]
      BY Zenon, <1>10, <1>11, <2>1
    <3>2. ASSUME NEW u \in Producers, Reserved(u)
          PROVE  Reserved(u)' /\ position(u)' = position(u)
      BY <1>1, <1>9, <3>2 DEF Threads
    <3> QED BY Zenon, <2>1, <3>1, <3>2 DEF FillersInv
  <2>2. \A u \in Producers : (pc(u) = "idle" => local[u].msg = NoBody)'
    BY <1>1, <1>7 DEF FillersInv, pc, Threads
  <2> QED BY Zenon, <1>1, <2>1, <2>2 DEF FillersInv
<1> QED BY <1>15, <1>16 DEF ChannelStep, Channel!Next

-----------------------------------------------------------------------------
LEMMA RefinesInit == Init => FillersInv /\ Channel!Init
<1> SUFFICES ASSUME Init PROVE FillersInv /\ Channel!Init
  OBVIOUS
<1>1. \A t \in Threads : local[t] = Idle /\ pc(t) = "idle"
  BY Zenon DEF Init, pc, Idle
<1>5. Idle.msg = NoBody BY Zenon DEF Idle
<1>2. FillersInv
  <2>1. \A p \in Producers : local[p].msg = NoBody
    BY Zenon, <1>1, <1>5 DEF Threads
  <2>2. \A q \in Nat : ~ (consumerPosition <= q /\ q < producerPosition)
    BY DEF Init
  <2> QED BY <2>1, <2>2 DEF FillersInv
<1>3. Queue = <<>>
  BY DEF Init, Queue
<1>4. /\ Sending = [p \in Producers |-> NoBody]
      /\ Views = [c \in Consumers |-> NoBody]
  <2>1. \A p \in Producers : local[p].msg = NoBody
    BY Zenon, <1>1, <1>5 DEF Threads
  <2>2. \A c \in Consumers : ~Claimed(c)
    BY <1>1 DEF Threads, Claimed
  <2> QED BY <2>1, <2>2 DEF Sending, Views
<1> QED BY <1>2, <1>3, <1>4 DEF Channel!Init

LEMMA RefinesStep ==
  RingInv /\ RingInv' /\ FillersInv /\ HeadHasRoom /\ [Next]_vars =>
    FillersInv' /\ ChannelStep
<1> SUFFICES ASSUME RingInv, RingInv', FillersInv, HeadHasRoom, [Next]_vars
             PROVE  FillersInv' /\ ChannelStep
  OBVIOUS
<1>1. CASE UNCHANGED vars
  <2>1. OwnersKept /\ ContentsKept
    BY Zenon, <1>1, SameLocals DEF OwnersKept, ContentsKept, vars
  <2>2. Sending' = Sending /\ Queue' = Queue /\ Views' = Views
    BY <1>1, <2>1, QuietStep DEF vars, Sending
  <2>3. FillersInv'
    BY Zenon, <1>1 DEF vars, FillersInv, Reserved, pc, position
  <2> QED BY <2>2, <2>3, ChannelStutter
<1>2. ASSUME NEW p \in Producers, NEW m \in Messages, NEW retry \in BOOLEAN,
             PostSend(p, m, retry)
      PROVE  FillersInv' /\ ChannelStep
  BY <1>2, PostSendRefines
<1>3. ASSUME NEW p \in Producers, ProducerStep(p)
      PROVE  FillersInv' /\ ChannelStep
  BY Zenon, <1>3, ReserveLoadRefines, ReserveSequenceRefines, ReserveRecheckRefines,
     ReserveCasRefines, PublishHeaderRefines, PublishBodyRefines,
     PublishSequenceRefines DEF ProducerStep
<1>4. ASSUME NEW c \in Consumers, ConsumerStep(c)
      PROVE  FillersInv' /\ ChannelStep
  BY Zenon, <1>4, ConsumerLoadsRefine, PollCasRefines, PollMetadataRefines,
     ReleaseRefines DEF ConsumerStep
<1> QED BY <1>1, <1>2, <1>3, <1>4 DEF Next

-----------------------------------------------------------------------------
(* Counting the slots in use. *)

INSTANCE FiniteSetTheorems

\* A free slot at the head means that fewer than slot_count places are in
\* use: the places of the queue and the head have different slots, and so
\* have the views, which are in none of them.
LEMMA RoomAtHead ==
  RingInv => HeadHasRoom
<1> SUFFICES ASSUME RingInv,
                    sequence[SlotAt(producerPosition)] =
                      EncodeSequence(producerPosition, Reusable)
             PROVE  Len(Queue) + Cardinality(Channel!Held) < SlotCount
  BY DEF HeadHasRoom
<1> DEFINE H == {c \in Consumers : Claimed(c)}
           I == consumerPosition .. producerPosition
           A == {SlotAt(q) : q \in I}
           T == Slots \ A
           f == [c \in H |-> SlotAt(position(c))]
           g == [q \in I |-> SlotAt(q)]
<1>1. /\ producerPosition \in Nat /\ consumerPosition \in Nat
      /\ consumerPosition <= producerPosition
      /\ SlotCount \in Nat \ {0}
  BY ShmRingAssumption DEF RingInv, TypeOK, Window
<1>2. producerPosition < consumerPosition + SlotCount
  BY <1>1, GenerationIs
<1>3. Channel!Held = H
  BY ViewIs DEF Channel!Held, Views
<1>4. A \in SUBSET Slots
  BY <1>1, SlotAtType
<1>5. ASSUME NEW q \in I, NEW r \in I, SlotAt(q) = SlotAt(r)
      PROVE  q = r
  <2>1. q \in Nat /\ r \in Nat
    BY <1>1
  <2>2. ~ (q < r) /\ ~ (r < q)
    BY <1>1, <1>2, <1>5, <2>1, SlotLaps
  <2> QED BY <2>1, <2>2
<1>6. IsFiniteSet(I) /\ Cardinality(I) = producerPosition - consumerPosition + 1
  BY <1>1, FS_Interval
<1>7. g \in Bijection(I, A)
  <2>1. g \in [I -> A]
    OBVIOUS
  <2>2. \A q, r \in I : g[q] = g[r] => q = r
    BY <1>5
  <2>3. \A s \in A : \E q \in I : g[q] = s
    OBVIOUS
  <2> QED BY <2>1, <2>2, <2>3 DEF Bijection, Injection, Surjection, IsInjective
<1>8. IsFiniteSet(A) /\ Cardinality(A) = producerPosition - consumerPosition + 1
  BY <1>6, <1>7, FS_Bijection DEF ExistsBijection
<1>9. IsFiniteSet(Slots) /\ Cardinality(Slots) = SlotCount
  BY <1>1, FS_Interval DEF Slots
<1>10. IsFiniteSet(T) /\ Cardinality(T) = Cardinality(Slots) - Cardinality(A)
  <2>1. Slots \cap A = A
    BY <1>4
  <2> QED BY <1>9, <2>1, FS_Difference
<1>11. ASSUME NEW c \in H PROVE SlotAt(position(c)) \in T
  <2>1. /\ position(c) \in Nat /\ position(c) < consumerPosition
        /\ sequence[SlotAt(position(c))] = EncodeSequence(position(c), Published)
    BY ViewIs
  <2>2. ASSUME NEW q \in I PROVE SlotAt(q) # SlotAt(position(c))
    <3>1. CASE q = producerPosition
      BY <1>1, <2>1, <3>1, EncodeInjective
    <3>2. CASE q < producerPosition
      BY <1>1, <2>1, <3>2, PlacesApart
    <3> QED BY <1>1, <3>1, <3>2
  <2> QED BY <2>1, <2>2, SlotAtType
<1>12. f \in Injection(H, T)
  <2>1. f \in [H -> T]
    BY <1>11
  <2>2. \A c, d \in H : f[c] = f[d] => c = d
    BY OwnersInv DEF ExclusiveOwnership, Threads
  <2> QED BY <2>1, <2>2 DEF Injection, IsInjective
<1>13. Cardinality(H) <= Cardinality(T) /\ IsFiniteSet(H)
  BY <1>10, <1>12, FS_Injection
<1>14. Cardinality(H) \in Nat
  BY <1>13, FS_CardinalityType
<1>15. Len(Queue) = producerPosition - consumerPosition
  BY QueueIs
<1> HIDE DEF H, A, T
<1> QED BY <1>1, <1>3, <1>8, <1>9, <1>10, <1>13, <1>14, <1>15

\* The ring is the bounded channel, whatever the number of threads, slots and
\* messages: post_send takes one of slot_count places or leaves no trace, and
\* progress_shm hands each message whole, in the order of the places, to one
\* receiver.
THEOREM RingImplementsChannel == Spec => ImplementsChannel
<1>1. Init => FillersInv /\ Channel!Init
  BY RefinesInit
<1>2. RingInv /\ RingInv' /\ FillersInv /\ [Next]_vars =>
        FillersInv' /\ [Channel!Next]_(Channel!vars)
  BY RefinesStep, RoomAtHead DEF ChannelStep
<1> QED BY <1>1, <1>2, RingInvariant, PTL DEF Spec, ImplementsChannel, Channel!Spec
=============================================================================
