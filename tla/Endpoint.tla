------------------------------ MODULE Endpoint ------------------------------
(***************************************************************************)
(* A network endpoint: the seven endpoint_impl_t::post_* operations        *)
(* (network/endpoint_inline.hpp), the backlog queue that keeps what the    *)
(* device would not take (backlog_queue/), the part of progress() that     *)
(* drains the queue and handles local completions (core/progress.cpp), and *)
(* test_drained.                                                           *)
(*                                                                         *)
(* Threads call into the endpoint concurrently.  A step is one access to   *)
(* shared memory: the atomic counter nentries_per_rank, the atomic flag    *)
(* empty, the spinlock, the std::queue the spinlock guards, the counter    *)
(* pending_ops, or one call of the device, which takes an operation or     *)
(* asks for a retry as it pleases.                                         *)
(***************************************************************************)
EXTENDS Naturals, FiniteSets, Sequences, Functions

CONSTANTS
    Posters,        \* threads that post operations
    Progressers,    \* threads that call progress()
    Drainers,       \* threads that call test_drained()
    Ranks,          \* the ranks of the job
    Targets,        \* the ranks operations are posted to
    Kinds,          \* the kinds of operation that are posted
    SupportPutimm,  \* net_context_attr.support_putimm
    MaxPosts,       \* bound: operations posted per thread
    NoThread        \* the spinlock is free

Threads == Posters \cup Progressers \cup Drainers

InjectKinds == {"sends", "puts", "putImms"}

AllKinds == InjectKinds \cup {"send", "put", "putImm", "get"}

EndpointAssumption ==
    /\ IsFiniteSet(Threads)
    /\ NoThread \notin Threads
    /\ Targets \subseteq Ranks
    /\ Kinds \subseteq AllKinds
    /\ SupportPutimm \in BOOLEAN
    /\ MaxPosts \in Nat

ASSUME EndpointConstants == EndpointAssumption

VARIABLES
    nentries,       \* nentries_per_rank
    empty,          \* the flag progress() reads without the lock
    lock,           \* the thread that holds the spinlock, or NoThread
    backlog_queue,  \* the entries, oldest first
    pending_ops,    \* live internal contexts of user operations
    wire,           \* history: what the device took, per rank, in order
    inflight,       \* taken by the device, local completion not yet polled
    posts,          \* history: operations each thread has posted
    local           \* the locals of each thread

vars == <<nentries, empty, lock, backlog_queue, pending_ops, wire, inflight,
          posts, local>>

(***************************************************************************)
(* What is posted.  number counts the operations of a thread.  A put with  *)
(* immediate data on a network without it is split into a put (the data)   *)
(* and an empty send that carries the immediate data (the imm).            *)
(***************************************************************************)
Items ==
    [thread : Posters, number : 1 .. MaxPosts, kind : Kinds, rank : Ranks,
     part : {"data", "imm"}]

Fallback(item) ==
    ~SupportPutimm /\ item.kind \in {"putImms", "putImm"} /\ item.part = "data"

Imm(item) == [item EXCEPT !.part = "imm"]

Labels ==
    {"idle", "check", "impl", "push_count", "push_lock", "push", "discard",
     "backlog", "try_lock", "front", "pop", "give_up", "uncount", "poll",
     "free", "drain_pending", "drained"}

NoItem == [part |-> "none"]

Idle == [pc |-> "idle", item |-> NoItem, allow_retry |-> TRUE,
         force_post |-> FALSE, then |-> "idle", seen |-> <<>>]

pc(t) == local[t].pc

item(t) == local[t].item

Goto(t, label) == local' = [local EXCEPT ![t].pc = label]

Return(t) == local' = [local EXCEPT ![t] = Idle]

\* The call in progress has ended: go on in its caller.
Finish(t) == IF local[t].then = "idle" THEN Return(t) ELSE Goto(t, local[t].then)

(***************************************************************************)
(* Call endpoint.post_*(it, allow_retry, force_post) and, when it is done, *)
(* go on at `then'.                                                        *)
(***************************************************************************)
Post(t, it, allow_retry, force_post, then) ==
    local' = [local EXCEPT ![t] =
        [Idle EXCEPT !.pc = IF force_post THEN "impl" ELSE "check",
                     !.item = it, !.allow_retry = allow_retry,
                     !.force_post = force_post, !.then = then]]

Init ==
    /\ nentries = [r \in Ranks |-> 0]
    /\ empty = TRUE
    /\ lock = NoThread
    /\ backlog_queue = <<>>
    /\ pending_ops = 0
    /\ wire = [r \in Ranks |-> <<>>]
    /\ inflight = {}
    /\ posts = [t \in Threads |-> 0]
    /\ local = [t \in Threads |-> Idle]

-----------------------------------------------------------------------------
(***************************************************************************)
(* post_comm: a retryable operation is turned away at once when the rank   *)
(* has a backlog; otherwise the internal context is made, which counts a   *)
(* pending operation, and the operation goes to the endpoint.              *)
(***************************************************************************)
CheckBacklog(r, allow_retry) == allow_retry => nentries[r] = 0

PostComm(t, kind, r, allow_retry) ==
    /\ pc(t) = "idle" /\ t \in Posters
    /\ posts[t] < MaxPosts
    /\ CheckBacklog(r, allow_retry)
    /\ posts' = [posts EXCEPT ![t] = @ + 1]
    /\ pending_ops' = pending_ops + 1
    /\ Post(t, [thread |-> t, number |-> posts[t] + 1, kind |-> kind,
                rank |-> r, part |-> "data"], allow_retry, FALSE, "idle")
    /\ UNCHANGED <<nentries, empty, lock, backlog_queue, wire, inflight>>

\* The endpoint asks for a retry: hand it to a caller that allows it, or push.
\* exit_handler deletes the context of a refused operation; the backlog's own
\* progress keeps the entry at the front.
Retry(t) ==
    Goto(t, IF ~local[t].allow_retry THEN "push_count"
            ELSE IF local[t].force_post THEN "give_up" ELSE "discard")

Discard(t) ==
    /\ pc(t) = "discard"
    /\ pending_ops' = pending_ops - 1
    /\ Return(t)
    /\ UNCHANGED <<nentries, empty, lock, backlog_queue, wire, inflight, posts>>

\* Deliberately wrong variant: an operation that may not be retried is posted
\* past the backlog.
CheckRetryable(t) ==
    /\ pc(t) = "check"
    /\ IF local[t].allow_retry /\ nentries[item(t).rank] # 0
       THEN Retry(t) ELSE Goto(t, "impl")
    /\ UNCHANGED <<nentries, empty, lock, backlog_queue, pending_ops, wire,
                   inflight, posts>>

\* Nothing may overtake what is already waiting for the same rank.
Check(t) ==
    /\ pc(t) = "check"
    /\ IF nentries[item(t).rank] # 0 THEN Retry(t) ELSE Goto(t, "impl")
    /\ UNCHANGED <<nentries, empty, lock, backlog_queue, pending_ops, wire,
                   inflight, posts>>

\* The device takes the operation.  post_putImms_fallback then posts the
\* immediate data as a send that may not be retried; post_putImm_fallback
\* leaves that to the completion of the put.
ImplTake(t) ==
    /\ pc(t) = "impl"
    /\ wire' = [wire EXCEPT ![item(t).rank] = Append(@, item(t))]
    /\ inflight' = inflight \cup {item(t)}
    /\ IF Fallback(item(t)) /\ item(t).kind = "putImms"
       THEN Post(t, Imm(item(t)), FALSE, FALSE, local[t].then)
       ELSE Finish(t)
    /\ UNCHANGED <<nentries, empty, lock, backlog_queue, pending_ops, posts>>

ImplRetry(t) ==
    /\ pc(t) = "impl"
    /\ Retry(t)
    /\ UNCHANGED <<nentries, empty, lock, backlog_queue, pending_ops, wire,
                   inflight, posts>>

(***************************************************************************)
(* backlog_queue_t::push_*: count the entry, then append it under the lock.*)
(***************************************************************************)
PushCount(t) ==
    /\ pc(t) = "push_count"
    /\ nentries' = [nentries EXCEPT ![item(t).rank] = @ + 1]
    /\ Goto(t, "push_lock")
    /\ UNCHANGED <<empty, lock, backlog_queue, pending_ops, wire, inflight,
                   posts>>

PushLock(t) ==
    /\ pc(t) = "push_lock"
    /\ lock = NoThread
    /\ lock' = t
    /\ Goto(t, "push")
    /\ UNCHANGED <<nentries, empty, backlog_queue, pending_ops, wire, inflight,
                   posts>>

\* Deliberately wrong variant: the flag is not lowered.
PushSilently(t) ==
    /\ pc(t) = "push"
    /\ backlog_queue' = Append(backlog_queue, item(t))
    /\ lock' = NoThread
    /\ Finish(t)
    /\ UNCHANGED <<nentries, empty, pending_ops, wire, inflight, posts>>

Push(t) ==
    /\ pc(t) = "push"
    /\ backlog_queue' = Append(backlog_queue, item(t))
    /\ empty' = FALSE
    /\ lock' = NoThread
    /\ Finish(t)
    /\ UNCHANGED <<nentries, pending_ops, wire, inflight, posts>>

(***************************************************************************)
(* progress(): drain the backlog queue until it is empty, busy or refused  *)
(* (backlog_queue_t::progress in a loop), then poll for completions.       *)
(***************************************************************************)
Progress(t) ==
    /\ pc(t) = "idle" /\ t \in Progressers
    /\ Goto(t, "backlog")
    /\ UNCHANGED <<nentries, empty, lock, backlog_queue, pending_ops, wire,
                   inflight, posts>>

BacklogEmpty(t) ==
    /\ pc(t) = "backlog"
    /\ Goto(t, IF empty THEN "poll" ELSE "try_lock")
    /\ UNCHANGED <<nentries, empty, lock, backlog_queue, pending_ops, wire,
                   inflight, posts>>

TryLock(t) ==
    /\ pc(t) = "try_lock"
    /\ IF lock = NoThread
       THEN lock' = t /\ Goto(t, "front")
       ELSE UNCHANGED lock /\ Goto(t, "poll")
    /\ UNCHANGED <<nentries, empty, backlog_queue, pending_ops, wire, inflight,
                   posts>>

\* The entry is posted with the lock held, past the check of the backlog.
PostFront(t) ==
    /\ pc(t) = "front"
    /\ \/ /\ backlog_queue = <<>>
          /\ empty' = TRUE
          /\ lock' = NoThread
          /\ Goto(t, "poll")
       \/ /\ backlog_queue # <<>>
          /\ Post(t, Head(backlog_queue), TRUE, TRUE, "pop")
          /\ UNCHANGED <<empty, lock>>
    /\ UNCHANGED <<nentries, backlog_queue, pending_ops, wire, inflight, posts>>

GiveUp(t) ==
    /\ pc(t) = "give_up"
    /\ lock' = NoThread
    /\ local' = [local EXCEPT ![t] = [Idle EXCEPT !.pc = "poll"]]
    /\ UNCHANGED <<nentries, empty, backlog_queue, pending_ops, wire, inflight,
                   posts>>

\* Deliberately wrong variant: the flag is raised with entries left behind.
PopClears(t) ==
    /\ pc(t) = "pop"
    /\ backlog_queue' = Tail(backlog_queue)
    /\ empty' = TRUE
    /\ lock' = NoThread
    /\ Goto(t, "uncount")
    /\ UNCHANGED <<nentries, pending_ops, wire, inflight, posts>>

Pop(t) ==
    /\ pc(t) = "pop"
    /\ backlog_queue' = Tail(backlog_queue)
    /\ empty' = (empty \/ Tail(backlog_queue) = <<>>)
    /\ lock' = NoThread
    /\ Goto(t, "uncount")
    /\ UNCHANGED <<nentries, pending_ops, wire, inflight, posts>>

\* The counter is lowered only after the entry was posted and popped.
Uncount(t) ==
    /\ pc(t) = "uncount"
    /\ nentries' = [nentries EXCEPT ![item(t).rank] = @ - 1]
    /\ local' = [local EXCEPT ![t] = [Idle EXCEPT !.pc = "backlog"]]
    /\ UNCHANGED <<empty, lock, backlog_queue, pending_ops, wire, inflight,
                   posts>>

(***************************************************************************)
(* The completion of a send, write or read frees the internal context,     *)
(* except that the put of a split putImm first sends its immediate data.   *)
(* A send of immediate data has no context.                                *)
(***************************************************************************)
PollComp(t) ==
    /\ pc(t) = "poll"
    /\ \E it \in inflight :
         /\ inflight' = inflight \ {it}
         /\ CASE it.part = "imm" -> UNCHANGED local
              [] Fallback(it) /\ it.kind = "putImm" ->
                   Post(t, Imm(it), FALSE, FALSE, "free")
              [] OTHER -> Goto(t, "free")
    /\ UNCHANGED <<nentries, empty, lock, backlog_queue, pending_ops, wire,
                   posts>>

FreeCtx(t) ==
    /\ pc(t) = "free"
    /\ pending_ops' = pending_ops - 1
    /\ local' = [local EXCEPT ![t] = [Idle EXCEPT !.pc = "poll"]]
    /\ UNCHANGED <<nentries, empty, lock, backlog_queue, wire, inflight, posts>>

ProgressReturn(t) ==
    /\ pc(t) = "poll"
    /\ Return(t)
    /\ UNCHANGED <<nentries, empty, lock, backlog_queue, pending_ops, wire,
                   inflight, posts>>

(***************************************************************************)
(* test_drained: the flag of the backlog queue, then the counter.  seen    *)
(* remembers which operations had been posted when the call began.         *)
(***************************************************************************)
TestDrained(t) ==
    /\ pc(t) = "idle" /\ t \in Drainers
    /\ empty
    /\ local' = [local EXCEPT ![t].pc = "drain_pending", ![t].seen = posts]
    /\ UNCHANGED <<nentries, empty, lock, backlog_queue, pending_ops, wire,
                   inflight, posts>>

TestPending(t) ==
    /\ pc(t) = "drain_pending"
    /\ IF pending_ops = 0 THEN Goto(t, "drained") ELSE Return(t)
    /\ UNCHANGED <<nentries, empty, lock, backlog_queue, pending_ops, wire,
                   inflight, posts>>

DrainedReturn(t) ==
    /\ pc(t) = "drained"
    /\ Return(t)
    /\ UNCHANGED <<nentries, empty, lock, backlog_queue, pending_ops, wire,
                   inflight, posts>>

-----------------------------------------------------------------------------
\* Steps a thread takes on its own once it is inside a call, the device aside.
Continue(t) ==
    \/ Discard(t) \/ Check(t) \/ PushCount(t) \/ PushLock(t) \/ Push(t)
    \/ BacklogEmpty(t) \/ TryLock(t) \/ PostFront(t) \/ GiveUp(t) \/ Pop(t)
    \/ Uncount(t) \/ PollComp(t) \/ FreeCtx(t) \/ TestPending(t)
    \/ DrainedReturn(t)

Next ==
    \E t \in Threads :
        \/ \E kind \in Kinds, r \in Targets, allow_retry \in BOOLEAN :
              PostComm(t, kind, r, allow_retry)
        \/ Progress(t) \/ ProgressReturn(t) \/ TestDrained(t)
        \/ ImplTake(t) \/ ImplRetry(t) \/ Continue(t)

Spec == Init /\ [][Next]_vars

(***************************************************************************)
(* A thread inside a call runs on.  Progressers keep calling progress().   *)
(* A device that is asked again and again takes the operation some time:   *)
(* its queues empty as the operations in them complete.                    *)
(***************************************************************************)
Fairness ==
    \A t \in Threads :
        /\ WF_vars(Continue(t))
        /\ WF_vars(ImplTake(t) \/ ImplRetry(t))
        /\ SF_vars(ImplTake(t))
        /\ WF_vars(Progress(t))
        /\ WF_vars(ProgressReturn(t))

FairSpec == Spec /\ Fairness

-----------------------------------------------------------------------------
Waiting == Range(backlog_queue)

Taken(r) == Range(wire[r])

EntriesOf(r) == {i \in DOMAIN backlog_queue : backlog_queue[i].rank = r}

PushersOf(r) ==
    {t \in Threads : pc(t) \in {"push_lock", "push"} /\ item(t).rank = r}

PoppersOf(r) == {t \in Threads : pc(t) = "uncount" /\ item(t).rank = r}

\* The imm of a split putImm is posted by whoever polls the put's completion.
Deferred(it) == it.kind = "putImm" /\ it.part = "imm"

Before(a, b) ==
    \/ a.number < b.number
    \/ a.number = b.number /\ a.part = "data" /\ b.part = "imm"

(***************************************************************************)
(* Types of the endpoint's fields and of the threads' locals.              *)
(***************************************************************************)
TypeOK ==
    /\ nentries \in [Ranks -> Nat]
    /\ empty \in BOOLEAN
    /\ lock \in Threads \cup {NoThread}
    /\ backlog_queue \in Seq(Items)
    /\ pending_ops \in Nat
    /\ wire \in [Ranks -> Seq(Items)]
    /\ inflight \subseteq Items
    /\ posts \in [Threads -> 0 .. MaxPosts]
    /\ \A t \in Threads :
         /\ pc(t) \in Labels
         /\ item(t) \in Items \cup {NoItem}
         /\ local[t].then \in {"idle", "pop", "free"}

(***************************************************************************)
(* nentries_per_rank counts the queued entries of the rank, those about to *)
(* be queued and those popped a moment ago.  So it never wraps below zero, *)
(* and it is zero, as ~backlog_queue_t asserts, whenever the queue is      *)
(* empty and no thread is inside push_* or progress.                       *)
(***************************************************************************)
BacklogCounted ==
    \A r \in Ranks :
        nentries[r] = Cardinality(EntriesOf(r)) + Cardinality(PushersOf(r))
                      + Cardinality(PoppersOf(r))

(***************************************************************************)
(* The unlocked flag loses no entry: while nobody holds the lock, empty is *)
(* false exactly when something is queued, so that progress() will look    *)
(* (push_sends: "we need to be careful not to lose the signal").           *)
(***************************************************************************)
NoLostSignal == lock = NoThread => (empty <=> backlog_queue = <<>>)

(***************************************************************************)
(* The fields are well typed, the counter of every rank is right and the   *)
(* flag that progress() reads without the lock misses no entry.            *)
(***************************************************************************)
EndpointInv == TypeOK /\ BacklogCounted /\ NoLostSignal

(***************************************************************************)
(* The device gets the operations one thread posts to one rank in the      *)
(* order they were posted, each once, whether they went straight to the    *)
(* device or through the backlog queue, and whichever thread drained it.   *)
(* (backlog_queue.hpp: operations are executed in the order pushed.)       *)
(***************************************************************************)
InOrder ==
    \A r \in Ranks : \A i, j \in 1 .. Len(wire[r]) :
        LET a == wire[r][i]
            b == wire[r][j]
        IN  i < j /\ a.thread = b.thread /\ ~Deferred(a) /\ ~Deferred(b)
                => Before(a, b)

(***************************************************************************)
(* When test_drained returns done, every operation posted before it was    *)
(* called has gone to the device: what is in the backlog queue or on its   *)
(* way there was posted later, or is the entry that a thread has just      *)
(* posted and is about to pop.  The immediate data of a split put is no    *)
(* operation of its own and is not waited for.                             *)
(* (comm.py: done means all previously posted operations are completed.)   *)
(***************************************************************************)
DrainedMeansPosted ==
    \A t \in Threads : pc(t) = "drained" =>
        /\ \A it \in Waiting : it.part = "data" =>
               it.number > local[t].seen[it.thread] \/ it \in Taken(it.rank)
        /\ \A u \in Threads :
             pc(u) \in {"check", "impl", "push_count", "push_lock", "push"}
                 /\ item(u).part = "data" =>
             item(u).number > local[t].seen[item(u).thread]

(***************************************************************************)
(* What is posted in order reaches the device in order, and is there when  *)
(* test_drained says so (endpoint_inline.hpp, backlog_queue.hpp).          *)
(***************************************************************************)
PostOrder == InOrder /\ DrainedMeansPosted

(***************************************************************************)
(* The same with the immediate data of split puts.  It holds where puts    *)
(* carry their immediate data; without, the completion of a put may queue  *)
(* it between the two reads of test_drained.                               *)
(***************************************************************************)
DrainedMeansImmPosted ==
    \A t \in Threads : pc(t) = "drained" => \A it \in Waiting :
        it.number > local[t].seen[it.thread] \/ it \in Taken(it.rank)

=============================================================================
