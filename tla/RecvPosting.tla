---------------------------- MODULE RecvPosting -----------------------------
(***************************************************************************)
(* Keeping a device's receive queue filled: post_recv_packets and          *)
(* refill_recvs (src/network/device_inline.hpp), which every thread runs   *)
(* at the end of progress (src/core/progress.cpp), and the receives that   *)
(* completions use up.                                                     *)
(*                                                                         *)
(* nrecvs_posted is the only thing threads share.  A thread first adds a   *)
(* whole batch to it, posts what the value before the addition leaves room *)
(* for, and then takes back what it did not use.  Packets are counted: the *)
(* ones in the pool, in the hardware queue, and with the rest of the       *)
(* library (unexpected messages, rendezvous), which returns them some day. *)
(***************************************************************************)
EXTENDS Integers, FiniteSets

CONSTANTS
    Progressors,    \* the threads that progress the device
    Binder,         \* the thread that allocates the device
    NPackets,       \* packets of the pool
    NetMaxRecvs,    \* net_max_recvs, also the capacity of the hardware queue
    MaxPolls        \* LCI_BACKEND_MAX_POLLS

RecvPostingAssumption ==
    /\ Binder \in Progressors /\ IsFiniteSet(Progressors)
    /\ NPackets \in Nat /\ NetMaxRecvs \in Nat \ {0} /\ MaxPolls \in Nat \ {0}

ASSUME RecvPostingConstants == RecvPostingAssumption

BatchSize == 2 * MaxPolls

VARIABLES
    nrecvs_posted,
    srq,            \* receives in the hardware queue
    pool, out,      \* packets in the pool, packets in use elsewhere
    local           \* local[t]: step and local variables of thread t

recvVars == <<nrecvs_posted, srq, pool, out, local>>

\* batch: polled receive completions not yet processed; reserved: what the
\* thread added to nrecvs_posted beyond receives it posted; slots: what it may
\* post; n: packets it took from the pool; posted: whether it posted any.
IdleThread == [pc |-> "idle", blocking |-> FALSE, batch |-> 0, reserved |-> 0,
         slots |-> 0, n |-> 0, posted |-> FALSE]

\* nrecvs_posted < net_max_recvs * refill_threshold
BelowThreshold(n) == 10 * n < 8 * NetMaxRecvs

\* alloc_device: bind_packet_pool calls refill_recvs(true) before any other
\* thread has the device.
RecvInit ==
    /\ nrecvs_posted = 0 /\ srq = 0
    /\ pool = NPackets /\ out = 0
    /\ local = [t \in Progressors |->
                IF t = Binder THEN [IdleThread EXCEPT !.pc = "refill", !.blocking = TRUE] ELSE IdleThread]

SetLocal(t, r) == local' = [local EXCEPT ![t] = r]

-----------------------------------------------------------------------------
\* progress: k receives complete; each one is taken off the counter and its
\* packet handed on.
PollComp(t, k) ==
    /\ local[t].pc = "idle" /\ ~local[Binder].blocking
    /\ k <= srq
    /\ srq' = srq - k
    /\ SetLocal(t, [IdleThread EXCEPT !.pc = "consume", !.batch = k])
    /\ UNCHANGED <<nrecvs_posted, pool, out>>

ConsumeRecv(t) ==
    /\ local[t].pc = "consume" /\ local[t].batch > 0
    /\ nrecvs_posted' = nrecvs_posted - 1
    /\ out' = out + 1
    /\ SetLocal(t, [local[t] EXCEPT !.batch = @ - 1])
    /\ UNCHANGED <<srq, pool>>

BatchProcessed(t) ==
    /\ local[t].pc = "consume" /\ local[t].batch = 0
    /\ SetLocal(t, [IdleThread EXCEPT !.pc = "refill"])
    /\ UNCHANGED <<nrecvs_posted, srq, pool, out>>

-----------------------------------------------------------------------------
\* Wrong: refills while there are enough receives.
RefillRecvsSwapped(t) ==
    /\ local[t].pc = "refill"
    /\ SetLocal(t, IF BelowThreshold(nrecvs_posted) THEN IdleThread ELSE [local[t] EXCEPT !.pc = "check"])
    /\ UNCHANGED <<nrecvs_posted, srq, pool, out>>

\* refill_recvs: the loop around post_recv_packets.
RefillRecvs(t) ==
    /\ local[t].pc = "refill"
    /\ SetLocal(t, IF BelowThreshold(nrecvs_posted) THEN [local[t] EXCEPT !.pc = "check"] ELSE IdleThread)
    /\ UNCHANGED <<nrecvs_posted, srq, pool, out>>

\* What the loop does with the result of post_recv_packets.  A blocking call
\* that fails tries again, unless it used up max_retries.
AfterPost(t, succeed) ==
    LET again == [IdleThread EXCEPT !.pc = "refill", !.blocking = local[t].blocking] IN
    \/ (succeed \/ local[t].blocking) /\ SetLocal(t, again)
    \/ ~succeed /\ SetLocal(t, IdleThread)

\* Wrong: forgets that the position counts receives that are posted already.
ReserveSlotsWhole(my_position) ==
    IF NetMaxRecvs < BatchSize THEN NetMaxRecvs ELSE BatchSize

ReserveSlots(my_position) ==
    IF NetMaxRecvs - my_position < BatchSize THEN NetMaxRecvs - my_position ELSE BatchSize

CheckRoom(t) ==
    /\ local[t].pc = "check"
    /\ IF nrecvs_posted >= NetMaxRecvs
       THEN AfterPost(t, FALSE)
       ELSE SetLocal(t, [local[t] EXCEPT !.pc = "reserve"])
    /\ UNCHANGED <<nrecvs_posted, srq, pool, out>>

Reserve(t) ==
    /\ local[t].pc = "reserve"
    /\ nrecvs_posted' = nrecvs_posted + BatchSize
    /\ SetLocal(t, IF nrecvs_posted >= NetMaxRecvs
                   THEN [local[t] EXCEPT !.pc = "settle", !.reserved = BatchSize]
                   ELSE [local[t] EXCEPT !.pc = "get_n", !.reserved = BatchSize,
                                         !.slots = ReserveSlots(nrecvs_posted)])
    /\ UNCHANGED <<srq, pool, out>>

\* get_n: as many packets as the pool's locks let the thread have.
GetPackets(t, n) ==
    /\ local[t].pc = "get_n"
    /\ n <= local[t].slots /\ n <= pool
    /\ pool' = pool - n
    /\ SetLocal(t, [local[t] EXCEPT !.pc = IF n = 0 THEN "settle" ELSE "post", !.n = n, !.slots = 0])
    /\ UNCHANGED <<nrecvs_posted, srq, out>>

\* post_recvs: the device takes the first m packets; put_back for the others.
PostRecvs(t, m) ==
    /\ local[t].pc = "post"
    /\ m <= local[t].n
    /\ srq' = srq + m
    /\ pool' = pool + (local[t].n - m)
    /\ SetLocal(t, [local[t] EXCEPT !.pc = "settle", !.n = 0, !.reserved = @ - m, !.posted = (m > 0)])
    /\ UNCHANGED <<nrecvs_posted, out>>

Settle(t) ==
    /\ local[t].pc = "settle"
    /\ nrecvs_posted' = nrecvs_posted - local[t].reserved
    /\ AfterPost(t, local[t].posted)
    /\ UNCHANGED <<srq, pool, out>>

-----------------------------------------------------------------------------
\* put_back by the rest of the library.
PutBack ==
    /\ out > 0
    /\ out' = out - 1 /\ pool' = pool + 1
    /\ UNCHANGED <<nrecvs_posted, srq, local>>

Refill(t) ==
    \/ ConsumeRecv(t) \/ BatchProcessed(t)
    \/ RefillRecvs(t) \/ CheckRoom(t) \/ Reserve(t)
    \/ \E n \in 0 .. BatchSize : GetPackets(t, n) \/ PostRecvs(t, n)
    \/ Settle(t)

RecvNext ==
    \/ \E t \in Progressors : Refill(t) \/ \E k \in 0 .. MaxPolls : PollComp(t, k)
    \/ PutBack

RecvSpec == RecvInit /\ [][RecvNext]_recvVars

\* Every thread keeps calling progress and finishes its calls.  An attempt to
\* take packets from a pool that has some, or to post them, that is repeated
\* forever succeeds some time: what makes one fail is a lock another thread
\* holds at that moment.
RecvFairness ==
    \A t \in Progressors :
        /\ WF_recvVars(Refill(t) \/ PollComp(t, 0))
        /\ SF_recvVars(\E n \in 1 .. BatchSize : GetPackets(t, n))
        /\ SF_recvVars(\E m \in 1 .. BatchSize : PostRecvs(t, m))

RecvFairSpec == RecvSpec /\ RecvFairness

-----------------------------------------------------------------------------
\* As many elements as the numbers f[t] of all threads together.
Places(f) == UNION {{t} \X (1 .. f[t]) : t \in Progressors}

RecvTypeOK ==
    /\ {nrecvs_posted, srq, pool, out} \subseteq Nat
    /\ \A t \in Progressors : {local[t].batch, local[t].reserved, local[t].slots, local[t].n} \subseteq Nat

\* The hardware queue was created for NetMaxRecvs receives, and threads that
\* refill it at the same time never post more than that.
SrqBounded == srq <= NetMaxRecvs

\* The counter always covers the receives the hardware has and the completions
\* nobody counted yet: it is exact but for the batches that threads reserved.
\* So it never falls below zero, and a device is never believed to have fewer
\* receives than it has.
CounterExact ==
    nrecvs_posted = srq +
        Cardinality(Places([t \in Progressors |-> local[t].batch + local[t].reserved]))

\* The state of the receive side is well typed, nrecvs_posted counts the
\* receives in the queue and the reservations, and no more are posted than
\* the hardware queue holds (device_inline.hpp, post_recv_packets).
RecvInv == RecvTypeOK /\ CounterExact /\ SrqBounded

ShortOfRecvs == BelowThreshold(srq) /\ pool > 0

Quiet == \A t \in Progressors : local[t].batch = 0

\* Once no more messages arrive, a device that is short of receives is refilled
\* or the pool runs out of packets, although threads that reserve at the same
\* time turn each other away.
RecvsRefilled == <>[]Quiet => []<>~ShortOfRecvs

=============================================================================
