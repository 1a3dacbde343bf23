------------------------------ MODULE ShmRing ------------------------------
(***************************************************************************)
(* The receiver-owned multi-producer multi-consumer ring of the shared     *)
(* memory transport (shm/ring.cpp), driven the way the library drives it:  *)
(* producers call shm::post_send (shm/transport.cpp), consumers call       *)
(* progress_shm (core/progress.cpp).  One action is one atomic access of   *)
(* the code; the accesses are taken in a sequentially consistent order.    *)
(***************************************************************************)
EXTENDS Integers, FiniteSets, TLC

CONSTANTS
  Producers,        \* threads that post to this ring (of any peer process)
  Consumers,        \* threads of the owner that run progress_shm
  Messages,         \* what a message carries: size, immediate data, payload
  SlotCount,        \* number of slots of the ring
  MaximumPosition,  \* ring_t::maximum_position, 2^63 - 1 in the code
  ProducerAttempts, \* producer_cas_attempts
  ConsumerAttempts, \* consumer_cas_attempts
  MaxPolls,         \* shm_max_polls
  NoHeader,         \* a slot header with source_global_rank = -1
  NoBody            \* payload bytes nobody wrote

ASSUME ShmRingAssumption ==
  /\ SlotCount \in Nat \ {0}
  /\ MaximumPosition \in Nat
  /\ SlotCount <= MaximumPosition
  /\ ProducerAttempts \in Nat \ {0}
  /\ ConsumerAttempts \in Nat \ {0}
  /\ MaxPolls \in Nat \ {0}
  /\ Producers \cap Consumers = {}
  /\ NoHeader \notin Producers \X Messages
  /\ NoBody \notin Messages \cup (Producers \X Messages)

VARIABLES
  producerPosition, consumerPosition, \* the two control words
  sequence,   \* slot -> generation and reusable/published bit, encoded
  header,     \* slot -> source rank, size and immediate data
  body,       \* slot -> payload bytes
  local       \* thread -> the locals of its current call

vars == <<producerPosition, consumerPosition, sequence, header, body, local>>

Threads == Producers \cup Consumers
Slots == 0 .. SlotCount - 1
Reusable == 0
Published == 1

\* (position << 1) | state
EncodeSequence(p, state) == 2 * p + state

\* position & (slot_count - 1): slot_count is a power of two
SlotAt(p) == p % SlotCount

PreviousGeneration(p) == p - SlotCount

IsPreviousGeneration(s, p) ==
  /\ p >= SlotCount
  /\ s \in {EncodeSequence(PreviousGeneration(p), Reusable),
            EncodeSequence(PreviousGeneration(p), Published)}

-----------------------------------------------------------------------------
(* The locals of a call of post_send (msg and allow_retry are its          *)
(* arguments) or of progress_shm (polls: packets it still has to fill).    *)
(* pc names the next access of shared memory.                              *)

Labels == {"idle", "load", "sequence", "recheck", "cas", "header", "body",
           "publish", "available", "metadata", "view", "fault"}

Locals == [pc : Labels, attempt : Nat, position : Nat, seen : Nat,
           msg : Messages \cup {NoBody}, allowRetry : BOOLEAN, polls : Nat]

Idle == [pc |-> "idle", attempt |-> 0, position |-> 0, seen |-> 0,
         msg |-> NoBody, allowRetry |-> TRUE, polls |-> 0]

pc(t) == local[t].pc
position(t) == local[t].position

Become(t, state) == local' = [local EXCEPT ![t] = state]
Goto(t, label) == Become(t, [local[t] EXCEPT !.pc = label])
Return(t) == Become(t, Idle)
Reload(t) == [local[t] EXCEPT !.pc = "load", !.position = 0, !.seen = 0]
Fault(t) == Goto(t, "fault")

\* The threads that own a slot: a producer between its CAS and its release
\* store, a consumer between its CAS and release().
Reserved(t) == t \in Producers /\ pc(t) \in {"header", "body", "publish"}
Claimed(t) == t \in Consumers /\ pc(t) \in {"metadata", "view"}

Init ==
  /\ producerPosition = 0
  /\ consumerPosition = 0
  /\ sequence = [s \in Slots |-> EncodeSequence(s, Reusable)]
  /\ header = [s \in Slots |-> NoHeader]
  /\ body = [s \in Slots |-> NoBody]
  /\ local = [t \in Threads |-> Idle]

-----------------------------------------------------------------------------
(* Producers: post_send, reserve_impl and publish. *)

PostSend(p, m, retry) ==
  /\ pc(p) = "idle"
  /\ Become(p, [Idle EXCEPT !.pc = "load", !.msg = m, !.allowRetry = retry])
  /\ UNCHANGED <<producerPosition, consumerPosition, sequence, header, body>>

\* The for loop of reserve_impl; once the attempts are used up post_send
\* answers retry_lock, and the transport calls it again unless the caller
\* allowed a retry.
ReserveAgain(p) ==
  IF local[p].attempt + 1 < ProducerAttempts
    THEN Become(p, [Reload(p) EXCEPT !.attempt = @ + 1])
    ELSE IF local[p].allowRetry
           THEN Return(p)
           ELSE Become(p, [Reload(p) EXCEPT !.attempt = 0])

\* Load the producer position; at the last one the call returns fatal.
ReserveLoad(p) ==
  /\ pc(p) = "load"
  /\ IF producerPosition >= MaximumPosition
       THEN Return(p)
       ELSE Become(p, [local[p] EXCEPT !.pc = "sequence",
                                       !.position = producerPosition])
  /\ UNCHANGED <<producerPosition, consumerPosition, sequence, header, body>>

ReserveSequence(p) ==
  /\ pc(p) = "sequence"
  /\ LET s == sequence[SlotAt(position(p))]
     IN  IF s = EncodeSequence(position(p), Reusable)
           THEN Goto(p, "cas")
           ELSE Become(p, [local[p] EXCEPT !.pc = "recheck", !.seen = s])
  /\ UNCHANGED <<producerPosition, consumerPosition, sequence, header, body>>

\* Deliberately wrong variant: judges the slot without reloading the head.
ReserveRecheckStale(p) ==
  /\ pc(p) = "recheck"
  /\ IF IsPreviousGeneration(local[p].seen, position(p)) THEN Return(p)
                                                         ELSE Fault(p)
  /\ UNCHANGED <<producerPosition, consumerPosition, sequence, header, body>>

\* The slot is not free: a head that moved is contention, a stable head with
\* the previous generation is a full ring (retry_nomem), anything else fatal.
ReserveRecheck(p) ==
  /\ pc(p) = "recheck"
  /\ IF producerPosition # position(p)
       THEN ReserveAgain(p)
       ELSE IF IsPreviousGeneration(local[p].seen, position(p))
              THEN Return(p)
              ELSE Fault(p)
  /\ UNCHANGED <<producerPosition, consumerPosition, sequence, header, body>>

\* Deliberately wrong variant: a plain store instead of the CAS.
ReserveStore(p) ==
  /\ pc(p) = "cas"
  /\ producerPosition' = position(p) + 1
  /\ Goto(p, "header")
  /\ UNCHANGED <<consumerPosition, sequence, header, body>>

\* compare_exchange_weak: it may also fail without a competitor.
ReserveCas(p) ==
  /\ pc(p) = "cas"
  /\ \/ /\ producerPosition = position(p)
        /\ producerPosition' = position(p) + 1
        /\ Goto(p, "header")
     \/ /\ ReserveAgain(p)
        /\ UNCHANGED producerPosition
  /\ UNCHANGED <<consumerPosition, sequence, header, body>>

\* Deliberately wrong variant: publishes before the payload is copied.
PublishHeaderEarly(p) ==
  /\ pc(p) = "header"
  /\ header' = [header EXCEPT ![SlotAt(position(p))] = <<p, local[p].msg>>]
  /\ sequence' = [sequence EXCEPT ![SlotAt(position(p))] =
                                     EncodeSequence(position(p), Published)]
  /\ Goto(p, "body")
  /\ UNCHANGED <<producerPosition, consumerPosition, body>>

PublishHeader(p) ==
  /\ pc(p) = "header"
  /\ IF sequence[SlotAt(position(p))] = EncodeSequence(position(p), Reusable)
       THEN /\ header' = [header EXCEPT ![SlotAt(position(p))] =
                                           <<p, local[p].msg>>]
            /\ Goto(p, "body")
       ELSE Fault(p) /\ UNCHANGED header
  /\ UNCHANGED <<producerPosition, consumerPosition, sequence, body>>

PublishBody(p) ==
  /\ pc(p) = "body"
  /\ body' = [body EXCEPT ![SlotAt(position(p))] = local[p].msg]
  /\ Goto(p, "publish")
  /\ UNCHANGED <<producerPosition, consumerPosition, sequence, header>>

PublishSequence(p) ==
  /\ pc(p) = "publish"
  /\ sequence' = [sequence EXCEPT ![SlotAt(position(p))] =
                                     EncodeSequence(position(p), Published)]
  /\ Return(p)
  /\ UNCHANGED <<producerPosition, consumerPosition, header, body>>

-----------------------------------------------------------------------------
(* Consumers: progress_shm, recv_available_approx, poll and release. *)

\* recv_available_approx loads the consumer position first ...
ProgressShm(c) ==
  /\ pc(c) = "idle"
  /\ Become(c, [Idle EXCEPT !.pc = "available", !.position = consumerPosition])
  /\ UNCHANGED <<producerPosition, consumerPosition, sequence, header, body>>

Lesser(a, b) == IF a < b THEN a ELSE b

\* The start of one poll, for one of n packets.
Poll(c, n) == Become(c, [Idle EXCEPT !.pc = "load", !.polls = n])

\* Deliberately wrong variant: one message too few is offered to the pass.
RecvAvailableShort(c, n) ==
  /\ pc(c) = "available"
  /\ n <= Lesser(MaxPolls, producerPosition - position(c) - 1) \/ n = 0
  /\ IF n = 0 THEN Return(c) ELSE Poll(c, n)
  /\ UNCHANGED <<producerPosition, consumerPosition, sequence, header, body>>

\* ... then the producer position.  The pass polls for at most shm_max_polls
\* messages and for no more than the n packets the pool hands out.
RecvAvailable(c, n) ==
  /\ pc(c) = "available"
  /\ n <= Lesser(MaxPolls, Lesser(producerPosition - position(c), SlotCount))
  /\ IF n = 0 THEN Return(c) ELSE Poll(c, n)
  /\ UNCHANGED <<producerPosition, consumerPosition, sequence, header, body>>

\* The for loop of poll; without a claim it returns false and the pass ends.
PollAgain(c) ==
  IF local[c].attempt + 1 < ConsumerAttempts
    THEN Become(c, [Reload(c) EXCEPT !.attempt = @ + 1])
    ELSE Return(c)

PollLoad(c) ==
  /\ pc(c) = "load"
  /\ Become(c, [local[c] EXCEPT !.pc = "sequence",
                                !.position = consumerPosition])
  /\ UNCHANGED <<producerPosition, consumerPosition, sequence, header, body>>

PollSequence(c) ==
  /\ pc(c) = "sequence"
  /\ LET s == sequence[SlotAt(position(c))]
     IN  IF s = EncodeSequence(position(c), Published)
           THEN Goto(c, "cas")
           ELSE Become(c, [local[c] EXCEPT !.pc = "recheck", !.seen = s])
  /\ UNCHANGED <<producerPosition, consumerPosition, sequence, header, body>>

\* The slot at the head is not published yet, or not even reusable yet.
NotReady(s, p) ==
  \/ s = EncodeSequence(p, Reusable)
  \/ p >= SlotCount /\ s = EncodeSequence(PreviousGeneration(p), Published)

PollRecheck(c) ==
  /\ pc(c) = "recheck"
  /\ IF consumerPosition # position(c)
       THEN PollAgain(c)
       ELSE IF NotReady(local[c].seen, position(c))
              THEN Return(c)
              ELSE Fault(c)
  /\ UNCHANGED <<producerPosition, consumerPosition, sequence, header, body>>

\* Deliberately wrong variant: a plain store instead of the CAS.
PollStore(c) ==
  /\ pc(c) = "cas"
  /\ consumerPosition' = position(c) + 1
  /\ Goto(c, "metadata")
  /\ UNCHANGED <<producerPosition, sequence, header, body>>

PollCas(c) ==
  /\ pc(c) = "cas"
  /\ \/ /\ consumerPosition = position(c)
        /\ consumerPosition' = position(c) + 1
        /\ Goto(c, "metadata")
     \/ /\ PollAgain(c)
        /\ UNCHANGED consumerPosition
  /\ UNCHANGED <<producerPosition, sequence, header, body>>

\* The slot becomes reusable for the position one lap later, unless that
\* position is unencodable.
Recycle(p) ==
  sequence' =
    IF p <= MaximumPosition - SlotCount
      THEN [sequence EXCEPT ![SlotAt(p)] =
              EncodeSequence(p + SlotCount, Reusable)]
      ELSE sequence

\* The metadata check of poll: a slot without a source is given back and the
\* call throws.
PollMetadata(c) ==
  /\ pc(c) = "metadata"
  /\ IF header[SlotAt(position(c))] = NoHeader
       THEN Fault(c) /\ Recycle(position(c))
       ELSE Goto(c, "view") /\ UNCHANGED sequence
  /\ UNCHANGED <<producerPosition, consumerPosition, header, body>>

\* progress_shm has copied the payload into a packet; release() the slot and
\* poll for the next packet.
Release(c) ==
  /\ pc(c) = "view"
  /\ IF sequence[SlotAt(position(c))] = EncodeSequence(position(c), Published)
       THEN /\ Recycle(position(c))
            /\ IF local[c].polls > 1 THEN Poll(c, local[c].polls - 1)
                                     ELSE Return(c)
       ELSE Fault(c) /\ UNCHANGED sequence
  /\ UNCHANGED <<producerPosition, consumerPosition, header, body>>

-----------------------------------------------------------------------------
ProducerStep(p) ==
  \/ ReserveLoad(p)
  \/ ReserveSequence(p)
  \/ ReserveRecheck(p)
  \/ ReserveCas(p)
  \/ PublishHeader(p)
  \/ PublishBody(p)
  \/ PublishSequence(p)

ConsumerStep(c) ==
  \/ ProgressShm(c)
  \/ \E n \in 0 .. MaxPolls : RecvAvailable(c, n)
  \/ PollLoad(c)
  \/ PollSequence(c)
  \/ PollRecheck(c)
  \/ PollCas(c)
  \/ PollMetadata(c)
  \/ Release(c)

Next ==
  \/ \E p \in Producers :
       \/ \E m \in Messages, retry \in BOOLEAN : PostSend(p, m, retry)
       \/ ProducerStep(p)
  \/ \E c \in Consumers : ConsumerStep(c)

Spec == Init /\ [][Next]_vars

\* The fairness of the threads: every thread runs, and a weak CAS that could
\* succeed again and again does so in the end.  A progress thread gets a
\* packet from the pool again and again.
Fairness ==
  /\ \A p \in Producers :
       /\ WF_vars(ProducerStep(p))
       /\ SF_vars(ReserveCas(p) /\ producerPosition' # producerPosition)
  /\ \A c \in Consumers :
       /\ WF_vars(ConsumerStep(c))
       /\ SF_vars(\E n \in 1 .. MaxPolls : RecvAvailable(c, n))
       /\ SF_vars(PollCas(c) /\ consumerPosition' # consumerPosition)

FairSpec == Spec /\ Fairness

-----------------------------------------------------------------------------
(* Properties. *)

TypeOK ==
  /\ producerPosition \in Nat
  /\ consumerPosition \in Nat
  /\ sequence \in [Slots -> Nat]
  /\ header \in [Slots -> (Producers \X Messages) \cup {NoHeader}]
  /\ body \in [Slots -> Messages \cup {NoBody}]
  /\ local \in [Threads -> Locals]

\* The CAS on a position owns the slot (comments at ring.cpp:232 and 297): no
\* two threads are ever filling or reading the same slot, although neither
\* reserve nor poll stores anything in it.
ExclusiveOwnership ==
  \A t, u \in Threads :
    /\ Reserved(t) \/ Claimed(t)
    /\ Reserved(u) \/ Claimed(u)
    /\ t # u
    => SlotAt(position(t)) # SlotAt(position(u))

\* None of the consistency checks of reserve_impl, publish, poll and release
\* can fail while the ring is only used through its operations, up to and
\* including the last encodable position: "a malformed shared state" is never
\* produced by contention.
NoFalseCorruption == \A t \in Threads : pc(t) # "fault"

\* A consumer that holds a view sees one whole message: the header and the
\* payload come from the same post_send (ring.cpp:234 "consumers ... cannot
\* observe partial data"), and both stay in place until release().
WholeMessage ==
  \A c \in Consumers :
    pc(c) = "view" =>
      \E p \in Producers, m \in Messages :
        /\ header[SlotAt(position(c))] = <<p, m>>
        /\ body[SlotAt(position(c))] = m

-----------------------------------------------------------------------------
(* The inductive invariant behind the properties above. *)

\* The generation g of slot s, and what its reusable/published bit says.
SlotGeneration(s, g) ==
  /\ SlotAt(g) = s
  /\ producerPosition <= g + SlotCount
  /\ \/ /\ sequence[s] = EncodeSequence(g, Reusable)
        /\ consumerPosition <= g
        /\ g < consumerPosition + SlotCount
     \/ /\ sequence[s] = EncodeSequence(g, Published)
        /\ g < producerPosition
        /\ \E p \in Producers, m \in Messages :
             header[s] = <<p, m>> /\ body[s] = m

ProducerInv(p) ==
  /\ pc(p) \notin {"idle", "fault"} => local[p].msg \in Messages
  /\ pc(p) \in {"sequence", "recheck", "cas"} =>
       position(p) <= producerPosition /\ position(p) < MaximumPosition
  /\ pc(p) = "recheck" /\ position(p) = producerPosition =>
       IsPreviousGeneration(local[p].seen, position(p))
  /\ pc(p) = "cas" /\ position(p) = producerPosition =>
       sequence[SlotAt(position(p))] = EncodeSequence(position(p), Reusable)
  /\ Reserved(p) =>
       /\ position(p) < producerPosition
       /\ sequence[SlotAt(position(p))] = EncodeSequence(position(p), Reusable)
  /\ pc(p) \in {"body", "publish"} =>
       header[SlotAt(position(p))] = <<p, local[p].msg>>
  /\ pc(p) = "publish" => body[SlotAt(position(p))] = local[p].msg

ConsumerInv(c) ==
  /\ pc(c) \in {"available", "sequence", "recheck", "cas"} =>
       position(c) <= consumerPosition
  /\ pc(c) = "recheck" /\ position(c) = consumerPosition =>
       NotReady(local[c].seen, position(c))
  /\ pc(c) = "cas" /\ position(c) = consumerPosition =>
       sequence[SlotAt(position(c))] = EncodeSequence(position(c), Published)
  /\ Claimed(c) =>
       /\ position(c) < consumerPosition
       /\ sequence[SlotAt(position(c))] = EncodeSequence(position(c), Published)

DistinctPositions ==
  \A t, u \in Threads :
    /\ t # u
    /\ (Reserved(t) /\ Reserved(u)) \/ (Claimed(t) /\ Claimed(u))
    => position(t) # position(u)

Window ==
  /\ consumerPosition <= producerPosition
  /\ producerPosition <= consumerPosition + SlotCount
  /\ producerPosition <= MaximumPosition

\* Each slot carries the generation that the control words and the owners
\* agree on; every other property of this module follows from it.
RingInv ==
  /\ TypeOK
  /\ Window
  /\ \A s \in Slots : \E g \in 0 .. MaximumPosition : SlotGeneration(s, g)
  /\ \A p \in Producers : ProducerInv(p)
  /\ \A c \in Consumers : ConsumerInv(c)
  /\ DistinctPositions
  /\ NoFalseCorruption

-----------------------------------------------------------------------------
(* Refinement: the ring implements the bounded channel of ShmChannel. *)

\* What the shared memory says about position q, or who is filling it.
Filler(q) == CHOOSE p \in Producers : Reserved(p) /\ position(p) = q

Place(q) ==
  IF sequence[SlotAt(q)] = EncodeSequence(q, Published)
    THEN <<header[SlotAt(q)][1], body[SlotAt(q)]>>
    ELSE <<Filler(q), NoBody>>

Sending == [p \in Producers |-> local[p].msg]

Queue == [i \in 1 .. producerPosition - consumerPosition |->
            Place(consumerPosition + i - 1)]

Views == [c \in Consumers |-> IF Claimed(c) THEN Place(position(c)) ELSE NoBody]

Channel == INSTANCE ShmChannel WITH
  Capacity <- SlotCount,
  NoMessage <- NoBody,
  sending <- Sending,
  queue <- Queue,
  views <- Views

\* The ring is a channel: every reserved message is delivered whole, in
\* reservation order, to one receiver, a refused post_send leaves no trace,
\* and at most slot_count places are in use.
ImplementsChannel == Channel!Spec

\* Threads on one side of the ring are not told apart.
Interchangeable == Permutations(Producers) \cup Permutations(Consumers)
=============================================================================
