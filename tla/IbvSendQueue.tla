---------------------------- MODULE IbvSendQueue ----------------------------
(***************************************************************************)
(* The send queue of one queue pair of the verbs backend                   *)
(* (src/network/ibv/backend_ibv_inline.hpp).  Threads that post a send, a  *)
(* put or a get take one of net_max_sends slots from a shared counter      *)
(* before they try the queue pair's lock, and a polled completion gives a  *)
(* slot back.  The seven post functions differ in the work request only.   *)
(*                                                                         *)
(* A low-priority operation is turned away when the counter is at most     *)
(* Threshold; it reads the counter in one step and decrements it in        *)
(* another.  Posts and polls that change nothing are left out.             *)
(***************************************************************************)
EXTENDS Integers, FiniteSets

CONSTANTS
    Threads,
    None,         \* no thread
    NetMaxSends,  \* net_max_sends, also the capacity of the send queue
    Threshold     \* the slots net_send_reserved_pct sets aside

ASSUME IbvSendQueueAssumption ==
    /\ IsFiniteSet(Threads) /\ None \notin Threads
    /\ NetMaxSends \in Nat \ {0}
    /\ Threshold \in 0 .. NetMaxSends - 1

Priorities == {"high", "low"}

VARIABLES
    slots,    \* qp_remaining_slots[rank]
    lock,     \* the thread that holds the queue pair's lock
    sq,       \* sq[p]: work requests of priority p in the send queue
    polled,   \* completions polled whose slot is not given back yet
    pc,       \* pc[t]: the step thread t is at
    prio      \* prio[t]: high_priority of the operation thread t posts

sendVars == <<slots, lock, sq, polled, pc, prio>>

Labels == {"idle", "sub", "lock", "post", "posted", "refused", "release"}

SendInit ==
    /\ slots = NetMaxSends
    /\ lock = None
    /\ sq = [p \in Priorities |-> 0]
    /\ polled = 0
    /\ pc = [t \in Threads |-> "idle"]
    /\ prio = [t \in Threads |-> "low"]

Goto(t, label) == pc' = [pc EXCEPT ![t] = label]

-----------------------------------------------------------------------------
\* Wrong: compares with zero instead of the reserve.
TryAcquireNoReserve(t, p) ==
    /\ pc[t] = "idle"
    /\ p = "low" => slots > 0
    /\ prio' = [prio EXCEPT ![t] = p]
    /\ Goto(t, "sub")
    /\ UNCHANGED <<slots, lock, sq, polled>>

\* try_acquire_slot: the load, which a high-priority operation skips.
TryAcquireSlot(t, p) ==
    /\ pc[t] = "idle"
    /\ p = "low" => slots > Threshold
    /\ prio' = [prio EXCEPT ![t] = p]
    /\ Goto(t, "sub")
    /\ UNCHANGED <<slots, lock, sq, polled>>

\* Wrong: takes a slot when none is left.
SubSlotFromZero(t) ==
    /\ pc[t] = "sub"
    /\ slots' = slots - 1
    /\ Goto(t, IF slots < 0 THEN "release" ELSE "lock")
    /\ UNCHANGED <<lock, sq, polled, prio>>

\* The fetch_sub; without a slot it is undone.
SubSlot(t) ==
    /\ pc[t] = "sub"
    /\ slots' = slots - 1
    /\ Goto(t, IF slots <= 0 THEN "release" ELSE "lock")
    /\ UNCHANGED <<lock, sq, polled, prio>>

\* release_slot, also the fetch_add of a failed try_acquire_slot.
ReleaseSlot(t) ==
    /\ pc[t] = "release"
    /\ slots' = slots + 1
    /\ Goto(t, "idle")
    /\ UNCHANGED <<lock, sq, polled, prio>>

\* try_lock_qp
TryLockQp(t) ==
    /\ pc[t] = "lock"
    /\ IF lock = None
       THEN lock' = t /\ Goto(t, "post")
       ELSE UNCHANGED lock /\ Goto(t, "release")
    /\ UNCHANGED <<slots, sq, polled, prio>>

\* ibv_post_send: the provider takes the work request, or it answers ENOMEM.
PostSend(t) ==
    /\ pc[t] = "post"
    /\ \/ sq' = [sq EXCEPT ![prio[t]] = @ + 1] /\ Goto(t, "posted")
       \/ UNCHANGED sq /\ Goto(t, "refused")
    /\ UNCHANGED <<slots, lock, polled, prio>>

\* unlock_qp; a work request that was refused gives its slot back.
UnlockQp(t) ==
    /\ pc[t] \in {"posted", "refused"}
    /\ lock' = None
    /\ Goto(t, IF pc[t] = "posted" THEN "idle" ELSE "release")
    /\ UNCHANGED <<slots, sq, polled, prio>>

\* poll_comp_impl: ibv_poll_cq frees the work request's place in the send queue,
\* a failed one's as well; the counter follows later.
PollSendComp(p) ==
    /\ sq[p] > 0
    /\ sq' = [sq EXCEPT ![p] = @ - 1]
    /\ polled' = polled + 1
    /\ UNCHANGED <<slots, lock, pc, prio>>

ReturnSlot ==
    /\ polled > 0
    /\ slots' = slots + 1
    /\ polled' = polled - 1
    /\ UNCHANGED <<lock, sq, pc, prio>>

SendNext ==
    \/ \E t \in Threads :
        \/ \E p \in Priorities : TryAcquireSlot(t, p)
        \/ SubSlot(t) \/ ReleaseSlot(t)
        \/ TryLockQp(t) \/ PostSend(t) \/ UnlockQp(t)
    \/ \E p \in Priorities : PollSendComp(p)
    \/ ReturnSlot

SendSpec == SendInit /\ [][SendNext]_sendVars

-----------------------------------------------------------------------------
\* Threads that have decremented the counter and neither posted nor undone it,
\* those of them that will post, and those that passed the load.
Claimers == {t \in Threads : pc[t] \in {"lock", "post", "refused", "release"}}
Winners == {t \in Threads : pc[t] \in {"lock", "post"}}
LowClaimers == {t \in Winners : prio[t] = "low"}
LowPassed == {t \in Threads : pc[t] = "sub" /\ prio[t] = "low"}

SendTypeOK ==
    /\ slots \in Int /\ polled \in Nat
    /\ lock \in Threads \cup {None}
    /\ sq \in [Priorities -> Nat]
    /\ pc \in [Threads -> Labels]
    /\ prio \in [Threads -> Priorities]

\* No slot is lost and none appears: on every path of a post function, the
\* counter and the slots that are in use add up to net_max_sends.
SlotsConserved ==
    slots + sq["high"] + sq["low"] + polled + Cardinality(Claimers) = NetMaxSends

\* The threads that may post and the work requests in the send queue never need
\* more than its capacity, although the counter is decremented past zero and
\* restored; the assertion "Too many slots on QP" holds as well.
QueueNeverOverflows ==
    /\ sq["high"] + sq["low"] + Cardinality(Winners) <= NetMaxSends
    /\ slots <= NetMaxSends

\* What the reserve really guarantees: low-priority operations exceed their share
\* by less than the number of threads, however long they run.
LowPriorityBounded ==
    sq["low"] + Cardinality(LowClaimers)
        < NetMaxSends - Threshold + Cardinality(Threads)

\* Inductive: low-priority operations that passed the load count as well.
SendQueueInv ==
    /\ SendTypeOK
    /\ SlotsConserved
    /\ QueueNeverOverflows
    /\ sq["low"] + Cardinality(LowClaimers) + Cardinality(LowPassed)
        < NetMaxSends - Threshold + Cardinality(Threads)

=============================================================================
