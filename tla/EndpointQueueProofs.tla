------------------------ MODULE EndpointQueueProofs ------------------------
(***************************************************************************)
(* The inductive invariant of Endpoint, and the steps that put an          *)
(* operation on the wire, into the backlog queue and out of it: the ones   *)
(* on which the order of operations depends.  EndpointProofs has the other *)
(* steps and the theorems.                                                 *)
(*                                                                         *)
(* The invariant follows an operation from the call that posts it to the   *)
(* device: it is with the thread that posts it, in the backlog queue, or   *)
(* taken; the entry at the front is in the queue and taken for a moment,   *)
(* while the thread that drains the queue holds the lock.                  *)
(***************************************************************************)
EXTENDS Endpoint, Integers, FiniteSetTheorems, TLAPS

-----------------------------------------------------------------------------
(* Where a thread is, from its locals. *)

PostSteps == {"check", "impl", "push_count", "push_lock", "push"}

\* In post_* with an operation that neither device nor queue has.
Posting(l) == l.pc \in PostSteps /\ ~l.force_post

\* In backlog_queue_t::progress, with the entry at the front.
Draining(l) == l.then = "pop" /\ l.pc # "uncount"

\* The device has the entry at the front, which is not popped yet.
TookFront(l) == Draining(l) /\ (l.pc = "pop" \/ Posting(l))

HoldsLock(l) == l.pc \in {"push", "front"} \/ Draining(l)

\* Posts an operation the thread was called with, or its immediate data.
PostsOwn(l) == Posting(l) /\ l.then = "idle"

\* About to free an internal context.
Freeing(l) == l.pc = "free" \/ l.then = "free"

\* Posts a user's operation, whose context it made.
PostsData(l) == (Posting(l) \/ l.pc = "discard") /\ l.item.part = "data"

Seen == {<<>>} \cup [Threads -> Nat]

Locals ==
    [pc : Labels, item : Items \cup {NoItem}, allow_retry : BOOLEAN,
     force_post : BOOLEAN, then : {"idle", "pop", "free"}, seen : Seen]

Quiet == {"idle", "backlog", "try_lock", "front", "poll", "drain_pending", "drained"}

-----------------------------------------------------------------------------
(* The inductive invariant. *)

TypeInv ==
    /\ nentries \in [Ranks -> Nat]
    /\ empty \in BOOLEAN
    /\ lock \in Threads \cup {NoThread}
    /\ backlog_queue \in Seq(Items)
    /\ pending_ops \in Nat
    /\ wire \in [Ranks -> Seq(Items)]
    /\ inflight \subseteq Items /\ IsFiniteSet(inflight)
    /\ posts \in [Threads -> 0 .. MaxPosts]
    /\ local \in [Threads -> Locals]

\* What the locals of a thread say of each other and of the queue.
LocalInv(t, l) ==
    /\ l.pc \in Quiet => l.then = "idle" /\ ~l.force_post
    /\ l.force_post => l.allow_retry /\ l.then = "pop" /\ l.pc \in {"impl", "give_up", "pop", "uncount"}
    /\ l.pc \in PostSteps \cup {"discard", "give_up", "pop", "uncount"} => l.item \in Items
    /\ l.pc = "discard" => l.then = "idle" /\ l.item.part = "data"
    /\ l.pc \in {"give_up", "pop", "uncount"} => l.then = "pop"
    /\ l.pc = "give_up" => l.force_post
    /\ l.pc = "free" => l.then # "pop"
    /\ Posting(l) /\ l.allow_retry => l.item.part = "data" /\ l.then = "idle"
    /\ PostsOwn(l) =>
         /\ t \in Posters /\ l.item.thread = t /\ l.item.number = posts[t]
         /\ ~Deferred(l.item)
    /\ Posting(l) /\ l.then = "free" =>
         Deferred(l.item) /\ l.item.number <= posts[l.item.thread]
    /\ Posting(l) /\ l.then = "pop" =>
         l.pc \in {"check", "push_count", "push_lock"} /\ l.item.part = "imm"
    /\ Draining(l) => backlog_queue # <<>> /\ l.item.rank = Head(backlog_queue).rank
    /\ Draining(l) /\ ~Posting(l) => l.item = Head(backlog_queue)
    /\ l.pc \in {"drain_pending", "drained"} =>
         l.seen \in [Threads -> Nat] /\ \A u \in Threads : l.seen[u] <= posts[u]

LockInv == \A t \in Threads : HoldsLock(local[t]) <=> lock = t

FlagInv == empty <=> backlog_queue = <<>>

FrontTaken == \E t \in Threads : TookFront(local[t])

\* Two operations of one thread whose order counts.
Related(a, b) == a.thread = b.thread /\ ~Deferred(a) /\ ~Deferred(b)

\* The order of an operation and the ones before it, wherever they are.
QueueOrder ==
    \A i, j \in 1 .. Len(backlog_queue) :
        i < j /\ Related(backlog_queue[i], backlog_queue[j])
            => Before(backlog_queue[i], backlog_queue[j])

WireFirst ==
    \A r \in Ranks : \A i \in 1 .. Len(wire[r]), j \in 1 .. Len(backlog_queue) :
        backlog_queue[j].rank = r /\ Related(wire[r][i], backlog_queue[j]) =>
            Before(wire[r][i], backlog_queue[j]) \/ (j = 1 /\ FrontTaken)

Older(a) ==
    /\ a.number <= posts[a.thread]
    /\ ~Deferred(a) /\ PostsOwn(local[a.thread]) => Before(a, local[a.thread].item)

OwnLast ==
    /\ \A r \in Ranks : \A i \in 1 .. Len(wire[r]) : Older(wire[r][i])
    /\ \A j \in 1 .. Len(backlog_queue) : Older(backlog_queue[j])

NoneWaitsFor(l) ==
    PostsOwn(l) /\ l.pc = "impl" =>
        \A j \in 1 .. Len(backlog_queue) :
            ~(backlog_queue[j].rank = l.item.rank /\ Related(backlog_queue[j], l.item))

OrderInv ==
    /\ InOrder /\ QueueOrder /\ WireFirst /\ OwnLast
    /\ \A t \in Threads : NoneWaitsFor(local[t])
    /\ \A it \in inflight : it \in Taken(it.rank)
    /\ FrontTaken => Head(backlog_queue) \in Taken(Head(backlog_queue).rank)

\* Operations in the queue that the device does not have, and contexts.
Unposted ==
    {i \in 1 .. Len(backlog_queue) :
        backlog_queue[i].part = "data" /\ ~(i = 1 /\ FrontTaken)}

PostingData == {t \in Threads : PostsData(local[t])}

InflightData == {it \in inflight : it.part = "data"}

FreeingThreads == {t \in Threads : Freeing(local[t])}

PendingCounted ==
    pending_ops = Cardinality(PostingData) + Cardinality(Unposted)
                  + Cardinality(InflightData) + Cardinality(FreeingThreads)

DrainInv ==
    \A t \in Threads : pc(t) = "drained" =>
        /\ \A i \in Unposted :
               backlog_queue[i].number > local[t].seen[backlog_queue[i].thread]
        /\ \A u \in Threads : Posting(local[u]) /\ item(u).part = "data" =>
               item(u).number > local[t].seen[item(u).thread]

EndpointIInv ==
    /\ TypeInv
    /\ \A t \in Threads : LocalInv(t, local[t])
    /\ LockInv /\ FlagInv /\ BacklogCounted /\ OrderInv /\ PendingCounted /\ DrainInv

-----------------------------------------------------------------------------
(* Counting. *)

LEMMA AddOne ==
  ASSUME NEW S, IsFiniteSet(S), NEW x, x \notin S
  PROVE  IsFiniteSet(S \cup {x}) /\ Cardinality(S \cup {x}) = Cardinality(S) + 1
BY FS_AddElement

LEMMA RemoveOne ==
  ASSUME NEW S, IsFiniteSet(S), NEW x \in S
  PROVE  IsFiniteSet(S \ {x}) /\ Cardinality(S \ {x}) = Cardinality(S) - 1
BY FS_RemoveElement

\* Sets of threads and of places in the queue are finite.
LEMMA FiniteThreads ==
  ASSUME NEW S \in SUBSET Threads
  PROVE  IsFiniteSet(S) /\ Cardinality(S) \in Nat
BY EndpointConstants, FS_Subset, FS_CardinalityType DEF EndpointAssumption

LEMMA FinitePlaces ==
  ASSUME NEW n \in Nat, NEW S \in SUBSET (1 .. n)
  PROVE  IsFiniteSet(S) /\ Cardinality(S) \in Nat
<1>1. IsFiniteSet(1 .. n)
  BY FS_Interval
<1> QED BY Zenon, <1>1, FS_Subset, FS_CardinalityType

LEMMA PendingFinite ==
  ASSUME TypeInv
  PROVE  /\ IsFiniteSet(PostingData) /\ Cardinality(PostingData) \in Nat
         /\ IsFiniteSet(Unposted) /\ Cardinality(Unposted) \in Nat
         /\ IsFiniteSet(InflightData) /\ Cardinality(InflightData) \in Nat
         /\ IsFiniteSet(FreeingThreads) /\ Cardinality(FreeingThreads) \in Nat
<1>1. PostingData \subseteq Threads /\ FreeingThreads \subseteq Threads
  BY DEF PostingData, FreeingThreads
<1>2. Len(backlog_queue) \in Nat /\ Unposted \subseteq 1 .. Len(backlog_queue)
  BY DEF TypeInv, Unposted
<1>3. IsFiniteSet(InflightData) /\ Cardinality(InflightData) \in Nat
  BY FS_Subset, FS_CardinalityType DEF TypeInv, InflightData
<1> QED BY Zenon, <1>1, <1>2, <1>3, FiniteThreads, FinitePlaces

LEMMA BacklogFinite ==
  ASSUME TypeInv, NEW r
  PROVE  /\ IsFiniteSet(EntriesOf(r)) /\ Cardinality(EntriesOf(r)) \in Nat
         /\ IsFiniteSet(PushersOf(r)) /\ Cardinality(PushersOf(r)) \in Nat
         /\ IsFiniteSet(PoppersOf(r)) /\ Cardinality(PoppersOf(r)) \in Nat
<1>1. PushersOf(r) \subseteq Threads /\ PoppersOf(r) \subseteq Threads
  BY DEF PushersOf, PoppersOf
<1>2. Len(backlog_queue) \in Nat /\ EntriesOf(r) \subseteq 1 .. Len(backlog_queue)
  BY DEF TypeInv, EntriesOf
<1> QED BY Zenon, <1>1, <1>2, FiniteThreads, FinitePlaces

-----------------------------------------------------------------------------
(* What a step of one thread leaves as it is. *)

Become(t, l) == local' = [local EXCEPT ![t] = l]

LEMMA LocalStep ==
  ASSUME local \in [Threads -> Locals], NEW t \in Threads, NEW l \in Locals, Become(t, l)
  PROVE  /\ local' \in [Threads -> Locals] /\ local'[t] = l
         /\ \A u \in Threads : u # t => local'[u] = local[u]
BY DEF Become

\* The locks and the locals of the other threads.
LEMMA LockStep ==
  ASSUME TypeInv, LockInv, NEW t \in Threads, NEW l \in Locals, Become(t, l),
         UNCHANGED lock, HoldsLock(l) <=> HoldsLock(local[t])
  PROVE  LockInv'
BY LocalStep DEF TypeInv, LockInv

LEMMA LocalInvKept ==
  ASSUME UNCHANGED <<backlog_queue, posts>>, NEW u, LocalInv(u, local'[u])
  PROVE  LocalInv(u, local[u])'
BY Zenon DEF LocalInv

LEMMA OthersStep ==
  ASSUME TypeInv, \A u \in Threads : LocalInv(u, local[u]),
         NEW t \in Threads, NEW l \in Locals, Become(t, l),
         UNCHANGED <<backlog_queue, posts>>, LocalInv(t, l)
  PROVE  \A u \in Threads : LocalInv(u, local[u])'
<1>1. /\ local'[t] = l
      /\ \A u \in Threads : u # t => local'[u] = local[u]
  BY LocalStep DEF TypeInv
<1>2. \A u \in Threads : LocalInv(u, local'[u])
  BY <1>1
<1> QED BY Zenon, <1>2, LocalInvKept

\* The counter of the backlog is as before.
LEMMA CountStep ==
  ASSUME TypeInv, BacklogCounted, NEW t \in Threads, NEW l \in Locals, Become(t, l),
         UNCHANGED <<nentries, backlog_queue>>,
         l.pc \in {"push_lock", "push"} <=> pc(t) \in {"push_lock", "push"},
         l.pc = "uncount" <=> pc(t) = "uncount",
         l.pc \in {"push_lock", "push", "uncount"} => l.item = item(t)
  PROVE  BacklogCounted'
<1>1. /\ local'[t] = l
      /\ \A u \in Threads : u # t => local'[u] = local[u]
  BY LocalStep DEF TypeInv
<1>2. \A r \in Ranks : PushersOf(r)' = PushersOf(r) /\ PoppersOf(r)' = PoppersOf(r)
  BY <1>1 DEF PushersOf, PoppersOf, pc, item
<1>3. \A r \in Ranks : EntriesOf(r)' = EntriesOf(r)
  BY DEF EntriesOf
<1> QED BY <1>2, <1>3 DEF BacklogCounted

\* A step that only moves the thread on inside its call.
SameStanding(k, l) ==
    /\ TookFront(l) <=> TookFront(k)
    /\ PostsOwn(l) => PostsOwn(k) /\ l.item = k.item
    /\ PostsData(l) <=> PostsData(k)
    /\ Freeing(l) <=> Freeing(k)
    /\ Posting(l) /\ l.item.part = "data" => Posting(k) /\ l.item = k.item
    /\ l.pc = "drained" => k.pc = "drained" /\ l.seen = k.seen

-----------------------------------------------------------------------------
(* The locals after a step. *)

At(k, label) == [k EXCEPT !.pc = label]

Call(it, allow_retry, force_post, then) ==
    [Idle EXCEPT !.pc = IF force_post THEN "impl" ELSE "check",
                 !.item = it, !.allow_retry = allow_retry,
                 !.force_post = force_post, !.then = then]

LEMMA IdleFields ==
  /\ Idle \in Locals
  /\ Idle.pc = "idle" /\ Idle.item = NoItem /\ Idle.allow_retry = TRUE
  /\ Idle.force_post = FALSE /\ Idle.then = "idle" /\ Idle.seen = <<>>
BY DEF Idle, Locals, Labels, Seen

LEMMA AtFields ==
  ASSUME NEW k \in Locals, NEW label \in Labels
  PROVE  LET l == At(k, label)
         IN  /\ l \in Locals /\ l.pc = label
             /\ l.item = k.item /\ l.allow_retry = k.allow_retry
             /\ l.force_post = k.force_post /\ l.then = k.then /\ l.seen = k.seen
BY DEF At, Locals

LEMMA GotoBecomes ==
  ASSUME local \in [Threads -> Locals], NEW t \in Threads, NEW label \in Labels,
         Goto(t, label)
  PROVE  Become(t, At(local[t], label))
BY DEF Goto, Become, At, Locals

LEMMA ReturnBecomes ==
  ASSUME NEW t, Return(t)
  PROVE  Become(t, Idle)
BY DEF Return, Become

LEMMA PostBecomes ==
  ASSUME NEW t, NEW it, NEW allow_retry, NEW force_post, NEW then,
         Post(t, it, allow_retry, force_post, then)
  PROVE  Become(t, Call(it, allow_retry, force_post, then))
BY DEF Post, Become, Call

\* A field of an item.
LEMMA ItemFields ==
  ASSUME NEW it \in Items
  PROVE  /\ it.thread \in Posters /\ it.thread \in Threads
         /\ it.number \in 1 .. MaxPosts /\ it.number \in Nat
         /\ it.kind \in Kinds /\ it.rank \in Ranks /\ it.part \in {"data", "imm"}
BY EndpointConstants DEF Items, Threads, EndpointAssumption

\* What is on a wire is an item whose operation is not ahead of its thread.
LEMMA OnWire ==
  ASSUME TypeInv, OrderInv, NEW r \in Ranks, NEW i \in 1 .. Len(wire[r])
  PROVE  wire[r][i] \in Items /\ Older(wire[r][i])
<1>1. wire[r] \in Seq(Items) BY DEF TypeInv
<1>2. wire[r][i] \in Items BY <1>1
<1> QED BY Zenon, <1>2 DEF OrderInv, OwnLast

LEMMA LockFreed ==
  ASSUME TypeInv, LockInv, NEW t \in Threads, NEW l \in Locals, Become(t, l),
         HoldsLock(local[t]), lock' = NoThread, ~HoldsLock(l)
  PROVE  LockInv'
<1>1. NoThread \notin Threads
  BY EndpointConstants DEF EndpointAssumption
<1> QED BY Zenon, <1>1, LocalStep DEF TypeInv, LockInv

-----------------------------------------------------------------------------
(* The count of pending operations. *)

LEMMA PendingMove ==
  ASSUME TypeInv, PendingCounted, NEW a \in Int, NEW b \in Int, NEW c \in Int, NEW d \in Int,
         Cardinality(PostingData)' = Cardinality(PostingData) + a,
         Cardinality(Unposted)' = Cardinality(Unposted) + b,
         Cardinality(InflightData)' = Cardinality(InflightData) + c,
         Cardinality(FreeingThreads)' = Cardinality(FreeingThreads) + d,
         pending_ops' = pending_ops + a + b + c + d
  PROVE  PendingCounted'
<1>1. /\ Cardinality(PostingData) \in Nat /\ Cardinality(Unposted) \in Nat
      /\ Cardinality(InflightData) \in Nat /\ Cardinality(FreeingThreads) \in Nat
  BY PendingFinite
<1>2. pending_ops = Cardinality(PostingData) + Cardinality(Unposted)
                    + Cardinality(InflightData) + Cardinality(FreeingThreads)
  BY DEF PendingCounted
<1>3. pending_ops' = Cardinality(PostingData)' + Cardinality(Unposted)'
                     + Cardinality(InflightData)' + Cardinality(FreeingThreads)'
  BY <1>1, <1>2
<1> QED BY <1>3, Zenon DEF PendingCounted

-----------------------------------------------------------------------------
(* The device takes an operation. *)

\* Where the thread goes: to the immediate data of a split put, or on.
LEMMA ImplTakeLocal ==
  ASSUME TypeInv, NEW t \in Threads, LocalInv(t, local[t]), ImplTake(t)
  PROVE  LET k == local[t]
         IN  \E l \in Locals :
               /\ Become(t, l) /\ LocalInv(t, l) /\ l.pc \in {"idle", "free", "pop", "check"}
               /\ HoldsLock(l) <=> HoldsLock(k)
               /\ TookFront(l) <=> k.force_post
               /\ ~PostsData(l) /\ (Freeing(l) <=> Freeing(k))
               /\ Posting(l) => l.item.part = "imm"
               /\ PostsOwn(l) => PostsOwn(k) /\ l.item = Imm(k.item) /\ k.item.part = "data"
<1> DEFINE k == local[t]
<1> USE DEF pc, item
<1>1. /\ LocalInv(t, k) /\ k \in Locals /\ local \in [Threads -> Locals] /\ k.pc = "impl"
  BY Zenon DEF TypeInv, ImplTake
<1>2. k.item \in Items /\ (Posting(k) <=> ~k.force_post) /\ k.then \in {"idle", "pop", "free"}
  BY Zenon, <1>1 DEF LocalInv, Posting, PostSteps, Locals
<1>3. k.then = "pop" <=> k.force_post
  BY Zenon, <1>1, <1>2 DEF LocalInv
<1>4. CASE Fallback(k.item) /\ k.item.kind = "putImms"
  <2> DEFINE im == Imm(k.item)
             l == Call(im, FALSE, FALSE, k.then)
  <2>1. /\ im \in Items /\ im.part = "imm" /\ im.kind = "putImms" /\ im.rank = k.item.rank
        /\ im.number = k.item.number /\ im.thread = k.item.thread /\ k.item.part = "data"
    BY <1>2, <1>4 DEF Imm, Items, Fallback
  <2>2. Become(t, l)
    BY Zenon, <1>4, PostBecomes DEF ImplTake
  <2>3. k.then # "free"
    BY Zenon, <1>1, <1>2, <1>4 DEF LocalInv, Deferred
  <2> HIDE DEF im
  <2>4. /\ l \in Locals /\ l.pc = "check" /\ l.item = im /\ ~l.allow_retry
        /\ ~l.force_post /\ l.then = k.then
    BY Zenon, <1>2, <2>1 DEF Call, Idle, Locals, Labels, Seen
  <2> HIDE DEF l
  <2>5. LocalInv(t, l)
    BY Zenon, <1>1, <1>2, <1>3, <2>1, <2>3, <2>4
    DEF LocalInv, Posting, PostsOwn, Draining, PostSteps, Quiet, Deferred
  <2>6. /\ HoldsLock(l) <=> HoldsLock(k)
        /\ TookFront(l) <=> k.force_post
        /\ ~PostsData(l) /\ (Freeing(l) <=> Freeing(k))
    BY <1>1, <1>2, <1>3, <2>1, <2>4
    DEF HoldsLock, TookFront, Draining, Posting, PostsData, Freeing, PostSteps
  <2>7. PostsOwn(l) => PostsOwn(k)
    BY <1>1, <1>2, <1>3, <2>4 DEF PostsOwn, Posting
  <2> QED BY Zenon, <2>1, <2>2, <2>4, <2>5, <2>6, <2>7 DEF im
<1>5. CASE ~(Fallback(k.item) /\ k.item.kind = "putImms") /\ k.then = "idle"
  <2>1. Become(t, Idle)
    BY Zenon, <1>5, ReturnBecomes DEF ImplTake, Finish
  <2>2. LocalInv(t, Idle)
    BY Zenon, IdleFields DEF LocalInv, Posting, PostsOwn, Draining, PostSteps
  <2>3. /\ HoldsLock(Idle) <=> HoldsLock(k)
        /\ TookFront(Idle) <=> k.force_post
        /\ ~PostsData(Idle) /\ (Freeing(Idle) <=> Freeing(k)) /\ ~Posting(Idle) /\ ~PostsOwn(Idle)
    BY Zenon, <1>1, <1>2, <1>3, <1>5, IdleFields
    DEF HoldsLock, TookFront, Draining, Posting, PostsData, Freeing, PostSteps, PostsOwn
  <2> QED BY <2>1, <2>2, <2>3, IdleFields
<1>6. CASE ~(Fallback(k.item) /\ k.item.kind = "putImms") /\ k.then # "idle"
  <2> DEFINE l == At(k, k.then)
  <2>1. k.then \in {"pop", "free"} /\ k.then \in Labels
    BY <1>2, <1>6 DEF Labels
  <2>2. Become(t, l)
    BY Zenon, <1>1, <1>6, <2>1, GotoBecomes DEF ImplTake, Finish
  <2>3. /\ l \in Locals /\ l.pc = k.then
        /\ l.item = k.item /\ l.allow_retry = k.allow_retry
        /\ l.force_post = k.force_post /\ l.then = k.then
    BY <1>1, <2>1, AtFields
  <2> HIDE DEF l
  <2>4. LocalInv(t, l)
    BY Zenon, <1>1, <1>2, <1>3, <2>1, <2>3
    DEF LocalInv, Posting, PostsOwn, Draining, PostSteps, Quiet
  <2>5. /\ HoldsLock(l) <=> HoldsLock(k)
        /\ TookFront(l) <=> k.force_post
        /\ ~PostsData(l) /\ (Freeing(l) <=> Freeing(k)) /\ ~Posting(l) /\ ~PostsOwn(l)
    BY <1>1, <1>2, <1>3, <2>1, <2>3
    DEF HoldsLock, TookFront, Draining, Posting, PostsData, Freeing, PostSteps, PostsOwn
  <2> QED BY <2>1, <2>2, <2>3, <2>4, <2>5
<1> QED BY Zenon, <1>4, <1>5, <1>6

\* The set of what a sequence holds, with one more.
LEMMA AppendSet ==
  ASSUME NEW S, NEW s \in Seq(S), NEW x \in S
  PROVE  Range(Append(s, x)) = Range(s) \cup {x}
<1> DEFINE a == Append(s, x)
<1>1. /\ Len(s) \in Nat /\ DOMAIN s = 1 .. Len(s) /\ DOMAIN a = 1 .. (Len(s) + 1)
      /\ \A i \in 1 .. Len(s) : a[i] = s[i]
      /\ a[Len(s) + 1] = x
  OBVIOUS
<1> HIDE DEF a
<1>2. ASSUME NEW y \in Range(a)
      PROVE  y \in Range(s) \cup {x}
  <2>1. PICK i \in 1 .. (Len(s) + 1) : y = a[i]
    BY <1>1, <1>2 DEF Range
  <2>2. CASE i = Len(s) + 1
    BY <1>1, <2>1, <2>2
  <2>3. CASE i \in 1 .. Len(s)
    BY <1>1, <2>1, <2>3 DEF Range
  <2> QED BY <1>1, <2>2, <2>3
<1>3. ASSUME NEW y \in Range(s)
      PROVE  y \in Range(a)
  <2>1. PICK i \in 1 .. Len(s) : y = s[i]
    BY <1>1, <1>3 DEF Range
  <2>2. i \in DOMAIN a /\ y = a[i]
    BY <1>1, <2>1
  <2> QED BY <2>2 DEF Range
<1>4. x \in Range(a)
  <2>1. Len(s) + 1 \in DOMAIN a
    BY <1>1
  <2> QED BY <1>1, <2>1 DEF Range
<1>5. Range(a) = Range(s) \cup {x}
  BY <1>2, <1>3, <1>4
<1> QED BY <1>5 DEF a

\* Only the thread with the lock has posted the entry at the front.
LEMMA FrontLocked ==
  ASSUME LockInv, NEW t \in Threads, HoldsLock(local[t]), ~TookFront(local[t])
  PROVE  ~FrontTaken
BY DEF FrontTaken, LockInv, HoldsLock, TookFront

\* The operation comes after what the device has, and before what waits.
LEMMA TakeInOrder ==
  ASSUME EndpointIInv, NEW t \in Threads, pc(t) = "impl"
  PROVE  LET it == item(t)
         IN  /\ it \in Items /\ it.rank \in Ranks
             /\ ~TookFront(local[t])
             /\ local[t].force_post =>
                  /\ ~FrontTaken /\ HoldsLock(local[t])
                  /\ backlog_queue # <<>> /\ it = backlog_queue[1] /\ it = Head(backlog_queue)
                  /\ 1 \in 1 .. Len(backlog_queue)
             /\ \A i \in 1 .. Len(wire[it.rank]) :
                  Related(wire[it.rank][i], it) => Before(wire[it.rank][i], it)
             /\ \A j \in 1 .. Len(backlog_queue) :
                  backlog_queue[j].rank = it.rank /\ Related(it, backlog_queue[j]) =>
                     Before(it, backlog_queue[j]) \/ (j = 1 /\ local[t].force_post)
<1> DEFINE k == local[t]
           it == k.item
<1> USE DEF pc, item
<1>1. /\ TypeInv /\ LocalInv(t, k) /\ k \in Locals /\ k.pc = "impl" /\ OrderInv /\ LockInv
  BY DEF EndpointIInv, TypeInv
<1>2. /\ it \in Items /\ (Posting(k) <=> ~k.force_post) /\ k.then \in {"idle", "pop", "free"}
      /\ it.rank \in Ranks
  BY Zenon, <1>1, ItemFields DEF LocalInv, Posting, PostSteps, Locals
<1>3. k.then = "pop" <=> k.force_post
  BY Zenon, <1>1, <1>2 DEF LocalInv
<1>4. ~TookFront(k)
  BY <1>1, <1>2, <1>3 DEF TookFront, Draining
<1>5. CASE k.force_post
  <2>1. HoldsLock(k)
    BY <1>1, <1>3, <1>5 DEF HoldsLock, Draining
  <2>2. ~FrontTaken
    BY <1>1, <1>4, <2>1, FrontLocked
  <2>3. backlog_queue # <<>> /\ it = Head(backlog_queue)
    BY Zenon, <1>1, <1>2, <1>3, <1>5 DEF LocalInv, Draining
  <2>4. it = backlog_queue[1] /\ 1 \in 1 .. Len(backlog_queue) /\ Len(backlog_queue) \in Nat
    BY <1>1, <2>3 DEF TypeInv
  <2>5. \A i \in 1 .. Len(wire[it.rank]) :
           Related(wire[it.rank][i], it) => Before(wire[it.rank][i], it)
    BY Zenon, <1>1, <1>2, <2>2, <2>4 DEF OrderInv, WireFirst
  <2>6. \A j \in 1 .. Len(backlog_queue) :
           Related(it, backlog_queue[j]) => Before(it, backlog_queue[j]) \/ j = 1
    <3> SUFFICES ASSUME NEW j \in 1 .. Len(backlog_queue), j # 1, Related(it, backlog_queue[j])
                 PROVE  Before(it, backlog_queue[j])
      OBVIOUS
    <3>1. 1 < j
      BY <2>4
    <3> QED BY <1>1, <2>4, <3>1 DEF OrderInv, QueueOrder
  <2> QED BY Zenon, <1>2, <1>4, <1>5, <2>1, <2>2, <2>3, <2>4, <2>5, <2>6
<1>6. CASE ~k.force_post /\ k.then = "idle"
  <2>1. PostsOwn(k) /\ it.thread = t /\ ~Deferred(it)
    BY Zenon, <1>1, <1>2, <1>6 DEF PostsOwn, LocalInv
  <2>2. \A i \in 1 .. Len(wire[it.rank]) :
           Related(wire[it.rank][i], it) => Before(wire[it.rank][i], it)
    BY Zenon, <1>1, <1>2, <2>1 DEF OrderInv, OwnLast, Older, Related
  <2>3. \A j \in 1 .. Len(backlog_queue) :
           ~(backlog_queue[j].rank = it.rank /\ Related(it, backlog_queue[j]))
    BY <1>1, <2>1 DEF OrderInv, NoneWaitsFor, Related
  <2> QED BY Zenon, <1>2, <1>4, <1>6, <2>2, <2>3
<1>7. CASE ~k.force_post /\ k.then = "free"
  <2>1. Deferred(it)
    BY Zenon, <1>1, <1>2, <1>7 DEF LocalInv
  <2> QED BY Zenon, <1>2, <1>4, <1>7, <2>1 DEF Related
<1> QED BY Zenon, <1>2, <1>3, <1>5, <1>6, <1>7

LEMMA ImplTakeInv ==
  ASSUME EndpointIInv, NEW t \in Threads, ImplTake(t)
  PROVE  EndpointIInv'
<1> USE DEF pc, item
<1>0. PICK k \in Locals : k = local[t]
  BY DEF EndpointIInv, TypeInv
<1>1. PICK it : k = local[t] /\ it = k.item
  BY <1>0
<1>2. /\ TypeInv /\ LocalInv(t, k) /\ local \in [Threads -> Locals]
      /\ k.pc = "impl" /\ pending_ops \in Nat /\ OrderInv /\ LockInv
      /\ wire \in [Ranks -> Seq(Items)] /\ inflight \subseteq Items /\ IsFiniteSet(inflight)
      /\ UNCHANGED <<nentries, empty, lock, backlog_queue, pending_ops, posts>>
      /\ wire' = [wire EXCEPT ![it.rank] = Append(@, it)]
      /\ inflight' = inflight \cup {it}
  BY Zenon, <1>1 DEF EndpointIInv, TypeInv, ImplTake
<1>3. PICK l \in Locals :
        /\ Become(t, l) /\ LocalInv(t, l) /\ l.pc \in {"idle", "free", "pop", "check"}
        /\ HoldsLock(l) <=> HoldsLock(k)
        /\ TookFront(l) <=> k.force_post
        /\ ~PostsData(l) /\ (Freeing(l) <=> Freeing(k))
        /\ Posting(l) => l.item.part = "imm"
        /\ PostsOwn(l) => PostsOwn(k) /\ l.item = Imm(it) /\ it.part = "data"
  BY Zenon, <1>1, <1>2, ImplTakeLocal
<1>4. /\ it \in Items /\ it.rank \in Ranks /\ ~TookFront(k)
      /\ k.force_post =>
           /\ ~FrontTaken /\ HoldsLock(k)
           /\ backlog_queue # <<>> /\ it = backlog_queue[1] /\ it = Head(backlog_queue)
           /\ 1 \in 1 .. Len(backlog_queue)
      /\ \A i \in 1 .. Len(wire[it.rank]) :
           Related(wire[it.rank][i], it) => Before(wire[it.rank][i], it)
      /\ \A j \in 1 .. Len(backlog_queue) :
           backlog_queue[j].rank = it.rank /\ Related(it, backlog_queue[j]) =>
              Before(it, backlog_queue[j]) \/ (j = 1 /\ k.force_post)
  BY Zenon, <1>1, <1>2, TakeInOrder
<1>5. /\ local' \in [Threads -> Locals] /\ local'[t] = l
      /\ \A u \in Threads : u # t => local'[u] = local[u]
  BY Zenon, <1>2, <1>3, LocalStep
<1>6. FrontTaken' <=> FrontTaken \/ k.force_post
  BY Zenon, <1>1, <1>3, <1>4, <1>5 DEF FrontTaken
<1>7. /\ \A r \in Ranks : r # it.rank => wire'[r] = wire[r]
      /\ wire'[it.rank] = Append(wire[it.rank], it)
      /\ \A r \in Ranks : wire[r] \in Seq(Items) /\ Len(wire[r]) \in Nat
  BY <1>2, <1>4
<1>8. TypeInv'
  <2>1. wire' \in [Ranks -> Seq(Items)]
    BY <1>2, <1>4
  <2>2. inflight' \subseteq Items /\ IsFiniteSet(inflight')
    BY Zenon, <1>2, <1>4, FS_AddElement
  <2> QED BY Zenon, <1>2, <1>5, <2>1, <2>2 DEF TypeInv
<1>9. \A u \in Threads : LocalInv(u, local[u])'
  BY Zenon, <1>2, <1>3, OthersStep DEF EndpointIInv
<1>10. LockInv' /\ FlagInv'
  BY Zenon, <1>1, <1>2, <1>3, LockStep DEF EndpointIInv, FlagInv
<1>11. BacklogCounted'
  BY Zenon, <1>1, <1>2, <1>3, CountStep DEF EndpointIInv

\* What is on the wire after the step.
<1>12. ASSUME NEW r \in Ranks, NEW i \in 1 .. Len(wire'[r])
       PROVE  \/ i \in 1 .. Len(wire[r]) /\ wire'[r][i] = wire[r][i]
              \/ r = it.rank /\ i = Len(wire[r]) + 1 /\ wire'[r][i] = it
  <2>1. CASE r # it.rank
    BY <1>7, <2>1
  <2>2. CASE r = it.rank
    BY <1>4, <1>7, <2>2
  <2> QED BY <2>1, <2>2
<1>13. InOrder'
  <2> SUFFICES ASSUME NEW r \in Ranks, NEW i \in 1 .. Len(wire'[r]), NEW j \in 1 .. Len(wire'[r]),
                      i < j, Related(wire'[r][i], wire'[r][j])
               PROVE  Before(wire'[r][i], wire'[r][j])
    BY DEF InOrder, Related
  <2>1. Len(wire[r]) \in Nat
    BY <1>7
  <2>2. CASE j \in 1 .. Len(wire[r])
    <3>1. i \in 1 .. Len(wire[r])
      BY <2>1, <2>2
    <3>2. wire'[r][i] = wire[r][i] /\ wire'[r][j] = wire[r][j]
      BY <2>1, <2>2, <3>1, <1>12
    <3> QED BY Zenon, <1>2, <2>2, <3>1, <3>2 DEF OrderInv, InOrder, Related
  <2>3. CASE j \notin 1 .. Len(wire[r])
    <3>1. r = it.rank /\ j = Len(wire[r]) + 1 /\ wire'[r][j] = it
      BY <1>12, <2>3
    <3>2. i \in 1 .. Len(wire[r])
      BY <2>1, <3>1
    <3>3. wire'[r][i] = wire[r][i]
      BY <2>1, <3>2, <1>12
    <3> QED BY Zenon, <1>4, <3>1, <3>2, <3>3
  <2> QED BY <2>2, <2>3
<1>14. WireFirst'
  <2> SUFFICES ASSUME NEW r \in Ranks, NEW i \in 1 .. Len(wire'[r]),
                      NEW j \in 1 .. Len(backlog_queue),
                      backlog_queue[j].rank = r, Related(wire'[r][i], backlog_queue[j])
               PROVE  Before(wire'[r][i], backlog_queue[j]) \/ (j = 1 /\ FrontTaken')
    BY Zenon, <1>2 DEF WireFirst
  <2>1. CASE i \in 1 .. Len(wire[r]) /\ wire'[r][i] = wire[r][i]
    BY Zenon, <1>2, <1>6, <2>1 DEF OrderInv, WireFirst
  <2>2. CASE r = it.rank /\ wire'[r][i] = it
    BY <1>4, <1>6, <2>2
  <2> QED BY <1>12, <2>1, <2>2
<1>15. ASSUME NEW a \in Items, Older(a)
       PROVE  Older(a)'
  <2>1. a.thread \in Threads /\ a.number \in Nat /\ it.number \in Nat
    BY <1>4, ItemFields
  <2>2. CASE a.thread = t /\ PostsOwn(l) /\ ~Deferred(a)
    <3>1. Before(a, it)
      BY Zenon, <1>1, <1>3, <1>15, <2>2 DEF Older
    <3>2. a.number < it.number
      BY Zenon, <1>3, <2>2, <3>1 DEF Before
    <3>3. l.item.number = it.number
      BY <1>3, <1>4, <2>2 DEF Imm, Items
    <3> QED BY Zenon, <1>2, <1>5, <1>15, <2>2, <3>2, <3>3 DEF Older, Before
  <2>3. CASE a.thread = t /\ (~PostsOwn(l) \/ Deferred(a))
    BY Zenon, <1>2, <1>5, <1>15, <2>3 DEF Older
  <2>4. CASE a.thread # t
    BY Zenon, <1>2, <1>5, <1>15, <2>1, <2>4 DEF Older
  <2> QED BY <2>2, <2>3, <2>4
<1>16. Older(it)'
  <2>1. CASE k.force_post
    <3>1. Older(it)
      BY Zenon, <1>2, <1>4, <2>1 DEF OrderInv, OwnLast
    <3> QED BY <1>4, <1>15, <3>1
  <2>2. CASE ~k.force_post /\ k.then = "idle"
    <3>1. it.thread = t /\ it.number = posts[t]
      BY Zenon, <1>1, <1>2, <2>2 DEF LocalInv, PostsOwn, Posting, PostSteps
    <3>2. it.number <= posts'[it.thread]
      <4>1. it.number \in Nat /\ posts'[it.thread] = it.number
        BY Zenon, <1>2, <1>4, <3>1, ItemFields
      <4> QED BY <4>1
    <3>3. PostsOwn(l) => Before(it, l.item)
      BY <1>3, <1>4 DEF Imm, Items, Before
    <3> QED BY Zenon, <1>5, <3>1, <3>2, <3>3 DEF Older
  <2>3. CASE ~k.force_post /\ k.then = "free"
    <3>1. Deferred(it) /\ it.number <= posts'[it.thread]
      BY Zenon, <1>1, <1>2, <2>3 DEF LocalInv, Posting, PostSteps
    <3> QED BY <3>1 DEF Older
  <2>4. k.then \in {"idle", "free"} \/ k.force_post
    BY Zenon, <1>1, <1>2 DEF LocalInv, Posting, PostSteps, Locals
  <2> QED BY <2>1, <2>2, <2>3, <2>4
<1>17. OwnLast'
  <2>1. \A r \in Ranks : \A i \in 1 .. Len(wire'[r]) : Older(wire[r][i])'
    <3> SUFFICES ASSUME NEW r \in Ranks, NEW i \in 1 .. Len(wire'[r])
                 PROVE  Older(wire[r][i])'
      OBVIOUS
    <3>1. CASE i \in 1 .. Len(wire[r]) /\ wire'[r][i] = wire[r][i]
      <4>1. PICK a \in Items : a = wire[r][i]
        BY <1>7, <3>1
      <4>2. Older(a)'
        BY Zenon, <1>2, <1>15, <3>1, <4>1 DEF OrderInv, OwnLast
      <4> QED BY Zenon, <3>1, <4>1, <4>2 DEF Older
    <3>2. CASE wire'[r][i] = it
      BY Zenon, <1>16, <3>2 DEF Older
    <3> QED BY <1>12, <3>1, <3>2
  <2>2. \A j \in 1 .. Len(backlog_queue) : Older(backlog_queue[j])'
    <3> SUFFICES ASSUME NEW j \in 1 .. Len(backlog_queue)
                 PROVE  Older(backlog_queue[j])'
      OBVIOUS
    <3>1. PICK a \in Items : a = backlog_queue[j]
      BY <1>2 DEF TypeInv
    <3>2. Older(a)'
      BY Zenon, <1>2, <1>15, <3>1 DEF OrderInv, OwnLast
    <3> QED BY Zenon, <1>2, <3>1, <3>2 DEF Older
  <2> QED BY Zenon, <1>2, <2>1, <2>2 DEF OwnLast
<1>18. \A r \in Ranks : Taken(r)' = IF r = it.rank THEN Taken(r) \cup {it} ELSE Taken(r)
  <2>1. \A r \in Ranks : r # it.rank => Taken(r)' = Taken(r)
    BY <1>7 DEF Taken
  <2>2. Taken(it.rank)' = Taken(it.rank) \cup {it}
    BY <1>4, <1>7, AppendSet DEF Taken
  <2> QED BY <2>1, <2>2
<1>19. OrderInv'
  <2>1. QueueOrder'
    BY Zenon, <1>2 DEF OrderInv, QueueOrder
  <2>2. \A u \in Threads : NoneWaitsFor(local[u])'
    <3>1. NoneWaitsFor(l)'
      BY Zenon, <1>3 DEF NoneWaitsFor
    <3>2. \A u \in Threads : u # t => NoneWaitsFor(local[u])'
      BY Zenon, <1>2, <1>5 DEF OrderInv, NoneWaitsFor
    <3> QED BY <1>5, <3>1, <3>2
  <2>3. \A i \in inflight' : i \in Taken(i.rank)'
    <3>1. \A i \in inflight : i.rank \in Ranks /\ i \in Taken(i.rank)
      BY Zenon, <1>2, ItemFields DEF OrderInv
    <3> QED BY <1>2, <1>4, <1>18, <3>1
  <2>4. FrontTaken' => (Head(backlog_queue) \in Taken(Head(backlog_queue).rank))'
    <3>1. CASE k.force_post
      BY <1>2, <1>4, <1>18, <3>1
    <3>2. CASE ~k.force_post /\ FrontTaken
      <4>1. PICK h : h = Head(backlog_queue) /\ h \in Taken(h.rank)
        BY Zenon, <1>2, <3>2 DEF OrderInv
      <4>2. PICK u \in Threads : TookFront(local[u])
        BY <3>2 DEF FrontTaken
      <4>3. backlog_queue # <<>>
        BY Zenon, <4>2 DEF EndpointIInv, LocalInv, TookFront
      <4>4. h \in Items
        BY <1>2, <4>1, <4>3 DEF TypeInv
      <4>5. h.rank \in Ranks
        BY <4>4, ItemFields
      <4>6. h \in Taken(h.rank)'
        BY <1>18, <4>1, <4>5
      <4> QED BY Zenon, <1>2, <4>1, <4>6 DEF Taken
    <3> QED BY <1>6, <3>1, <3>2
  <2> QED BY Zenon, <1>13, <1>14, <1>17, <2>1, <2>2, <2>3, <2>4 DEF OrderInv
\* Each operation counts once, with the device as before.
<1>20. it.part = "data" => it \notin inflight
  <2> SUFFICES ASSUME it.part = "data", it \in inflight
               PROVE  FALSE
    OBVIOUS
  <2>1. it \in Taken(it.rank)
    BY Zenon, <1>2 DEF OrderInv
  <2>2. PICK i \in 1 .. Len(wire[it.rank]) : it = wire[it.rank][i]
    BY <1>4, <1>7, <2>1 DEF Taken, Range
  <2>3. Related(it, it)
    BY DEF Related, Deferred
  <2>4. Before(it, it)
    BY <1>4, <2>2, <2>3
  <2>5. it.number \in Nat
    BY <1>4, ItemFields
  <2> QED BY <2>4, <2>5 DEF Before
<1>21. FreeingThreads' = FreeingThreads
  BY Zenon, <1>1, <1>3, <1>5 DEF FreeingThreads
<1>22. it.part = "data" =>
         Cardinality(InflightData)' = Cardinality(InflightData) + 1
  <2> SUFFICES ASSUME it.part = "data"
               PROVE  Cardinality(InflightData)' = Cardinality(InflightData) + 1
    OBVIOUS
  <2>1. InflightData' = InflightData \cup {it} /\ it \notin InflightData
    BY <1>2, <1>20 DEF InflightData
  <2>2. Cardinality(InflightData \cup {it}) = Cardinality(InflightData) + 1
    BY Zenon, <1>2, <2>1, AddOne, PendingFinite
  <2> QED BY Zenon, <2>1, <2>2
<1>23. it.part # "data" => InflightData' = InflightData
  BY <1>2 DEF InflightData
<1>24. /\ PostsData(k) <=> it.part = "data" /\ ~k.force_post
       /\ PostingData' = PostingData \ {t} /\ (t \in PostingData <=> PostsData(k))
  BY <1>1, <1>2, <1>3, <1>5 DEF PostingData, PostsData, Posting, PostSteps
<1>25. /\ ~k.force_post => Unposted' = Unposted
       /\ k.force_post => /\ Unposted' = Unposted \ {1}
                          /\ 1 \in Unposted <=> it.part = "data"
  BY Zenon, <1>2, <1>4, <1>6 DEF Unposted
<1>26. PendingCounted'
  <2>1. CASE it.part = "data" /\ ~k.force_post
    <3>1. Cardinality(PostingData)' = Cardinality(PostingData) + -1
      BY Zenon, <1>2, <1>24, <2>1, RemoveOne, PendingFinite
    <3>2. /\ Cardinality(Unposted)' = Cardinality(Unposted) + 0
          /\ Cardinality(FreeingThreads)' = Cardinality(FreeingThreads) + 0
      <4>1. /\ Unposted' = Unposted /\ FreeingThreads' = FreeingThreads
            /\ Cardinality(Unposted) \in Nat /\ Cardinality(FreeingThreads) \in Nat
        BY Zenon, <1>2, <1>21, <1>25, <2>1, PendingFinite
      <4> QED BY <4>1
    <3>3. pending_ops' = pending_ops + -1 + 0 + 1 + 0
      BY <1>2
    <3> QED BY <1>2, <1>22, <2>1, <3>1, <3>2, <3>3, PendingMove DEF EndpointIInv
  <2>2. CASE it.part = "data" /\ k.force_post
    <3>1. PostingData' = PostingData
      BY <1>24, <2>2
    <3>2. Cardinality(Unposted)' = Cardinality(Unposted) + -1
      BY Zenon, <1>2, <1>25, <2>2, RemoveOne, PendingFinite
    <3>3. /\ Cardinality(PostingData)' = Cardinality(PostingData) + 0
          /\ Cardinality(FreeingThreads)' = Cardinality(FreeingThreads) + 0
      BY <1>2, <1>21, <3>1, PendingFinite
    <3>4. pending_ops' = pending_ops + 0 + -1 + 1 + 0
      BY <1>2
    <3> QED BY <1>2, <1>22, <2>2, <3>2, <3>3, <3>4, PendingMove DEF EndpointIInv
  <2>3. CASE it.part # "data"
    <3>1. PostingData' = PostingData /\ Unposted' = Unposted
      BY <1>24, <1>25, <2>3
    <3>2. InflightData' = InflightData
      BY <1>23, <2>3
    <3> QED BY <1>2, <1>21, <3>1, <3>2, Zenon DEF EndpointIInv, PendingCounted
  <2> QED BY <2>1, <2>2, <2>3
<1>27. DrainInv'
  <2>1. Unposted' \subseteq Unposted
    BY <1>25
  <2>2. DrainInv /\ backlog_queue' = backlog_queue
    BY Zenon, <1>2 DEF EndpointIInv
  <2>3. l.pc # "drained" /\ (Posting(l) => l.item.part # "data")
    BY <1>3
  <2> QED BY Zenon, <1>5, <2>1, <2>2, <2>3 DEF DrainInv
<1> QED BY Zenon, <1>8, <1>9, <1>10, <1>11, <1>19, <1>26, <1>27 DEF EndpointIInv

-----------------------------------------------------------------------------
(* The queue grows at its end. *)

LEMMA PushInv ==
  ASSUME EndpointIInv, NEW t \in Threads, Push(t)
  PROVE  EndpointIInv'
<1> USE DEF pc, item
<1>1. PICK k \in Locals : k = local[t]
  BY DEF EndpointIInv, TypeInv
<1>2. PICK it : it = k.item
  OBVIOUS
<1>3. PICK n \in Nat : n = Len(backlog_queue)
  BY DEF EndpointIInv, TypeInv
<1>4. /\ TypeInv /\ LocalInv(t, k) /\ local \in [Threads -> Locals]
      /\ k.pc = "push" /\ pending_ops \in Nat /\ OrderInv /\ LockInv
      /\ backlog_queue \in Seq(Items) /\ nentries \in [Ranks -> Nat]
      /\ backlog_queue' = Append(backlog_queue, it) /\ empty' = FALSE /\ lock' = NoThread
      /\ UNCHANGED <<nentries, pending_ops, wire, inflight, posts>>
  BY Zenon, <1>1, <1>2 DEF EndpointIInv, TypeInv, Push
<1>5. /\ it \in Items /\ it.rank \in Ranks /\ ~k.force_post /\ Posting(k)
      /\ k.then \in {"idle", "free"} /\ HoldsLock(k) /\ ~TookFront(k)
  BY Zenon, <1>2, <1>4, ItemFields
  DEF LocalInv, Posting, PostSteps, HoldsLock, TookFront, Draining, Locals
<1>6. /\ k.then = "idle" => PostsOwn(k) /\ it.thread = t /\ it.number = posts[t] /\ ~Deferred(it)
      /\ k.then = "free" => Deferred(it) /\ it.number <= posts[it.thread]
      /\ it.number \in Nat /\ it.part \in {"data", "imm"}
  BY Zenon, <1>2, <1>4, <1>5, ItemFields DEF LocalInv, PostsOwn

\* Where the thread goes.
<1>7. PICK l \in Locals : /\ Become(t, l) /\ l.pc \in {"idle", "free"} /\ l.then = k.then
                          /\ ~l.force_post /\ (l.pc = "free" <=> k.then = "free")
  <2>1. CASE k.then = "idle"
    <3>1. Become(t, Idle)
      BY Zenon, <1>1, <2>1, ReturnBecomes DEF Push, Finish
    <3> QED BY <2>1, <3>1, IdleFields
  <2>2. CASE k.then = "free"
    <3>1. Become(t, At(k, "free"))
      BY Zenon, <1>1, <1>4, <2>2, GotoBecomes DEF Push, Finish, Labels
    <3>2. /\ At(k, "free") \in Locals /\ At(k, "free").pc = "free" /\ At(k, "free").then = k.then
          /\ At(k, "free").force_post = k.force_post
      BY AtFields DEF Labels
    <3> QED BY <1>5, <2>2, <3>1, <3>2
  <2> QED BY <1>5, <2>1, <2>2
<1>8. /\ local' \in [Threads -> Locals] /\ local'[t] = l
      /\ \A u \in Threads : u # t => local'[u] = local[u]
  BY <1>4, <1>7, LocalStep
<1>9. /\ ~HoldsLock(l) /\ ~TookFront(l) /\ ~Posting(l) /\ ~PostsOwn(l) /\ ~PostsData(l)
      /\ ~Draining(l) /\ (Freeing(l) <=> Freeing(k))
  BY Zenon, <1>4, <1>5, <1>7
  DEF HoldsLock, TookFront, Draining, Posting, PostsOwn, PostsData, Freeing, PostSteps
<1>10. \A u \in Threads : u # t => ~HoldsLock(local[u])
  BY Zenon, <1>1, <1>4, <1>5 DEF LockInv
<1>11. ~FrontTaken /\ ~FrontTaken'
  BY Zenon, <1>1, <1>5, <1>8, <1>9, <1>10 DEF FrontTaken, TookFront, HoldsLock
<1>12. /\ Len(backlog_queue') = n + 1 /\ backlog_queue'[n + 1] = it
       /\ \A i \in 1 .. n : backlog_queue'[i] = backlog_queue[i]
       /\ DOMAIN backlog_queue = 1 .. n /\ DOMAIN backlog_queue' = 1 .. (n + 1)
       /\ \A i \in 1 .. n : backlog_queue[i] \in Items
       /\ backlog_queue' \in Seq(Items)
  <2>1. /\ n = Len(backlog_queue) /\ backlog_queue \in Seq(Items) /\ it \in Items
        /\ backlog_queue' = Append(backlog_queue, it)
    BY Zenon, <1>3, <1>4, <1>5
  <2> QED BY <2>1
<1>13. \A i \in 1 .. (n + 1) : i \in 1 .. n \/ i = n + 1
  OBVIOUS
<1>14. TypeInv'
  BY Zenon, <1>4, <1>8, <1>12 DEF TypeInv
<1>15. \A u \in Threads : LocalInv(u, local[u])'
  <2>1. LocalInv(t, l)'
    BY Zenon, <1>5, <1>7, <1>9 DEF LocalInv, PostsOwn, Quiet, PostSteps
  <2>2. ASSUME NEW u \in Threads, u # t
        PROVE  LocalInv(u, local[u])'
    <3>1. PICK m \in Locals : m = local[u] /\ local'[u] = m /\ LocalInv(u, m)
      BY <1>4, <1>8, <2>2 DEF EndpointIInv
    <3>2. ~Draining(m)
      BY <1>10, <2>2, <3>1 DEF HoldsLock
    <3>3. LocalInv(u, m)'
      BY Zenon, <1>4, <3>1, <3>2 DEF LocalInv
    <3> QED BY <3>1, <3>3
  <2> QED BY <1>8, <2>1, <2>2
<1>16. LockInv' /\ FlagInv'
  <2>1. LockInv'
    BY Zenon, <1>1, <1>4, <1>5, <1>7, <1>9, LockFreed
  <2>2. backlog_queue' # <<>>
    BY <1>12
  <2> QED BY <1>4, <2>1, <2>2 DEF FlagInv
<1>17. BacklogCounted'
  <2> SUFFICES ASSUME NEW r \in Ranks
               PROVE  nentries'[r] = Cardinality(EntriesOf(r))' + Cardinality(PushersOf(r))'
                                     + Cardinality(PoppersOf(r))'
    BY DEF BacklogCounted
  <2>1. nentries[r] = Cardinality(EntriesOf(r)) + Cardinality(PushersOf(r))
                      + Cardinality(PoppersOf(r))
    BY DEF EndpointIInv, BacklogCounted
  <2>2. PoppersOf(r)' = PoppersOf(r)
    BY Zenon, <1>1, <1>4, <1>7, <1>8 DEF PoppersOf
  <2>3. CASE r = it.rank
    <3>1. PushersOf(r)' = PushersOf(r) \ {t} /\ t \in PushersOf(r)
      BY Zenon, <1>1, <1>2, <1>4, <1>7, <1>8, <2>3 DEF PushersOf
    <3>2. EntriesOf(r)' = EntriesOf(r) \cup {n + 1} /\ n + 1 \notin EntriesOf(r)
      BY <1>3, <1>12, <1>13, <2>3 DEF EntriesOf
    <3>3. Cardinality(PushersOf(r))' = Cardinality(PushersOf(r)) - 1
      BY Zenon, <1>4, <3>1, RemoveOne, BacklogFinite
    <3>4. Cardinality(EntriesOf(r))' = Cardinality(EntriesOf(r)) + 1
      BY Zenon, <1>4, <3>2, AddOne, BacklogFinite
    <3> QED BY <1>4, <2>1, <2>2, <3>3, <3>4, BacklogFinite
  <2>4. CASE r # it.rank
    <3>1. PushersOf(r)' = PushersOf(r)
      BY Zenon, <1>1, <1>2, <1>4, <1>7, <1>8, <2>4 DEF PushersOf
    <3>2. EntriesOf(r)' = EntriesOf(r)
      BY <1>3, <1>12, <1>13, <2>4 DEF EntriesOf
    <3> QED BY Zenon, <1>4, <2>1, <2>2, <3>1, <3>2
  <2> QED BY Zenon, <2>3, <2>4
<1>18. OrderInv'
  <2>1. ASSUME NEW a \in Items, Older(a)
        PROVE  Older(a)' /\ (Related(a, it) => Before(a, it))
    <3>1. Older(a)'
      BY Zenon, <1>4, <1>8, <1>9, <2>1, ItemFields DEF Older
    <3>2. Related(a, it) => Before(a, it)
      BY Zenon, <1>1, <1>2, <1>5, <1>6, <2>1 DEF Older, Related
    <3> QED BY <3>1, <3>2
  <2>2. Older(it)'
    <3>1. it.number <= posts'[it.thread]
      <4>1. posts'[it.thread] = posts[it.thread]
        BY <1>4
      <4>2. it.number \in Nat /\ (k.then = "idle" \/ k.then = "free")
        BY Zenon, <1>5, <1>6
      <4>3. k.then = "idle" => it.number = posts[it.thread]
        BY <1>6
      <4>4. k.then = "free" => it.number <= posts[it.thread]
        BY <1>6
      <4> QED BY <4>1, <4>2, <4>3, <4>4
    <3>2. ~Deferred(it) => ~PostsOwn(local'[it.thread])
      BY Zenon, <1>5, <1>6, <1>8, <1>9
    <3> QED BY <3>1, <3>2 DEF Older
  <2>3. \A j \in 1 .. n : Older(backlog_queue[j])
    BY Zenon, <1>3, <1>4 DEF OrderInv, OwnLast
  <2>4. InOrder'
    BY Zenon, <1>4 DEF OrderInv, InOrder
  <2>5. QueueOrder'
    <3> SUFFICES ASSUME NEW i \in 1 .. (n + 1), NEW j \in 1 .. (n + 1), i < j,
                        Related(backlog_queue'[i], backlog_queue'[j])
                 PROVE  Before(backlog_queue'[i], backlog_queue'[j])
      BY Zenon, <1>12 DEF QueueOrder
    <3>1. i \in 1 .. n
      OBVIOUS
    <3>2. CASE j \in 1 .. n
      BY Zenon, <1>3, <1>4, <1>12, <3>1, <3>2 DEF OrderInv, QueueOrder
    <3>3. CASE j = n + 1
      BY Zenon, <1>12, <2>1, <2>3, <3>1, <3>3
    <3> QED BY <1>13, <3>2, <3>3
  <2>6. WireFirst'
    <3> SUFFICES ASSUME NEW r \in Ranks, NEW i \in 1 .. Len(wire[r]), NEW j \in 1 .. (n + 1),
                        backlog_queue'[j].rank = r, Related(wire[r][i], backlog_queue'[j])
                 PROVE  Before(wire[r][i], backlog_queue'[j])
      BY Zenon, <1>4, <1>12 DEF WireFirst
    <3>1. CASE j \in 1 .. n
      BY Zenon, <1>3, <1>4, <1>11, <1>12, <3>1 DEF OrderInv, WireFirst
    <3>2. CASE j = n + 1
      <4>1. wire[r][i] \in Items /\ Older(wire[r][i])
        BY Zenon, <1>4, OnWire
      <4> QED BY Zenon, <1>12, <2>1, <3>2, <4>1
    <3> QED BY Zenon, <1>13, <3>1, <3>2
  <2>7. OwnLast'
    <3>1. ASSUME NEW r \in Ranks, NEW i \in 1 .. Len(wire[r])
          PROVE  Older(wire[r][i])'
      <4>1. PICK a \in Items : a = wire[r][i] /\ Older(a)
        BY Zenon, <1>4, OnWire
      <4>2. Older(a)'
        BY Zenon, <2>1, <4>1
      <4> QED BY Zenon, <1>4, <4>1, <4>2 DEF Older
    <3>2. ASSUME NEW j \in 1 .. (n + 1)
          PROVE  Older(backlog_queue[j])'
      <4>1. CASE j \in 1 .. n
        <5>1. PICK a \in Items : a = backlog_queue[j] /\ Older(a)
          BY Zenon, <1>12, <2>3, <4>1
        <5>2. Older(a)'
          BY <2>1, <5>1
        <5> QED BY Zenon, <1>12, <4>1, <5>1, <5>2 DEF Older
      <4>2. CASE j = n + 1
        BY Zenon, <1>12, <2>2, <4>2 DEF Older
      <4> QED BY <1>13, <4>1, <4>2
    <3> QED BY Zenon, <1>4, <1>12, <3>1, <3>2 DEF OwnLast
  <2>8. \A u \in Threads : NoneWaitsFor(local[u])'
    <3>1. NoneWaitsFor(l)'
      BY Zenon, <1>7 DEF NoneWaitsFor
    <3>2. ASSUME NEW u \in Threads, u # t
          PROVE  NoneWaitsFor(local[u])'
      <4>1. PICK m \in Locals : m = local[u] /\ local'[u] = m /\ LocalInv(u, m) /\ NoneWaitsFor(m)
        BY Zenon, <1>4, <1>8, <3>2 DEF EndpointIInv, OrderInv
      <4>2. PostsOwn(m) => ~Related(it, m.item)
        BY Zenon, <1>5, <1>6, <3>2, <4>1 DEF LocalInv, Related
      <4>3. NoneWaitsFor(m)'
        BY Zenon, <1>3, <1>12, <1>13, <4>1, <4>2 DEF NoneWaitsFor
      <4> QED BY Zenon, <4>1, <4>3
    <3> QED BY <1>8, <3>1, <3>2
  <2>9. \A i \in inflight' : i \in Taken(i.rank)'
    BY Zenon, <1>4 DEF OrderInv, Taken
  <2> QED BY Zenon, <1>11, <2>4, <2>5, <2>6, <2>7, <2>8, <2>9 DEF OrderInv
<1>19. Unposted' = IF it.part = "data" THEN Unposted \cup {n + 1} ELSE Unposted
  BY <1>3, <1>11, <1>12, <1>13 DEF Unposted
<1>20. PendingCounted'
  <2>1. FreeingThreads' = FreeingThreads /\ InflightData' = InflightData
    BY Zenon, <1>1, <1>4, <1>8, <1>9 DEF FreeingThreads, InflightData
  <2>2. PostingData' = PostingData \ {t} /\ (t \in PostingData <=> it.part = "data")
    BY Zenon, <1>1, <1>2, <1>4, <1>5, <1>8, <1>9 DEF PostingData, PostsData
  <2>3. CASE it.part = "data"
    <3>1. n + 1 \notin Unposted
      BY <1>3 DEF Unposted
    <3>2. /\ Cardinality(PostingData)' = Cardinality(PostingData) + -1
          /\ Cardinality(Unposted)' = Cardinality(Unposted) + 1
      BY Zenon, <1>4, <1>19, <2>2, <2>3, <3>1, AddOne, RemoveOne, PendingFinite
    <3>3. /\ Cardinality(InflightData)' = Cardinality(InflightData) + 0
          /\ Cardinality(FreeingThreads)' = Cardinality(FreeingThreads) + 0
      BY <1>4, <2>1, PendingFinite
    <3>4. pending_ops' = pending_ops + -1 + 1 + 0 + 0
      BY <1>4
    <3> QED BY <1>4, <3>2, <3>3, <3>4, PendingMove DEF EndpointIInv
  <2>4. CASE it.part # "data"
    <3>1. PostingData' = PostingData /\ Unposted' = Unposted
      BY <1>19, <2>2, <2>4
    <3> QED BY <1>4, <2>1, <3>1, Zenon DEF EndpointIInv, PendingCounted
  <2> QED BY <2>3, <2>4
<1>21. DrainInv'
  <2> SUFFICES ASSUME NEW u \in Threads, local'[u].pc = "drained"
               PROVE  /\ \A i \in Unposted' :
                            backlog_queue'[i].number > local'[u].seen[backlog_queue'[i].thread]
                      /\ \A w \in Threads : Posting(local'[w]) /\ local'[w].item.part = "data" =>
                            local'[w].item.number > local'[u].seen[local'[w].item.thread]
    BY Zenon DEF DrainInv
  <2>1. u # t /\ local'[u] = local[u]
    BY Zenon, <1>7, <1>8
  <2>2. it.part = "data" => it.number > local[u].seen[it.thread]
    BY Zenon, <1>1, <1>2, <1>5, <2>1 DEF EndpointIInv, DrainInv
  <2>3. \A i \in Unposted : backlog_queue[i].number > local[u].seen[backlog_queue[i].thread]
    BY Zenon, <2>1 DEF EndpointIInv, DrainInv
  <2>4. Unposted \subseteq 1 .. n
    BY <1>3 DEF Unposted
  <2>5. \A i \in Unposted' :
           backlog_queue'[i].number > local'[u].seen[backlog_queue'[i].thread]
    BY Zenon, <1>12, <1>19, <2>1, <2>2, <2>3, <2>4
  <2> QED BY Zenon, <1>8, <1>9, <2>1, <2>5 DEF EndpointIInv, DrainInv
<1> QED BY Zenon, <1>14, <1>15, <1>16, <1>17, <1>18, <1>20, <1>21 DEF EndpointIInv

-----------------------------------------------------------------------------
(* The queue loses its front. *)

\* The places of a set without the first, one further to the front.
LEMMA ShiftCount ==
  ASSUME NEW n \in Nat, NEW S \in SUBSET (2 .. (n + 1))
  PROVE  Cardinality({i \in 1 .. n : i + 1 \in S}) = Cardinality(S)
<1> DEFINE T == {i \in 1 .. n : i + 1 \in S}
           f == [i \in T |-> i + 1]
<1>1. IsFiniteSet(T)
  BY Zenon, FinitePlaces
<1>2. f \in [T -> S]
  OBVIOUS
<1>3. \A i, j \in T : f[i] = f[j] => i = j
  OBVIOUS
<1>4. \A x \in S : \E i \in T : f[i] = x
  <2> SUFFICES ASSUME NEW x \in S
               PROVE  \E i \in T : f[i] = x
    OBVIOUS
  <2>1. x - 1 \in 1 .. n /\ (x - 1) + 1 = x
    OBVIOUS
  <2>2. x - 1 \in T
    BY <2>1
  <2> QED BY <2>1, <2>2
<1>5. f \in Bijection(T, S)
  BY Zenon, <1>2, <1>3, <1>4 DEF Bijection, Injection, Surjection, IsInjective
<1>6. ExistsBijection(T, S)
  BY <1>5 DEF ExistsBijection
<1> QED BY <1>1, <1>6, FS_Bijection

LEMMA PopInv ==
  ASSUME EndpointIInv, NEW t \in Threads, Pop(t)
  PROVE  EndpointIInv'
<1> USE DEF pc, item
<1>1. PICK k \in Locals : k = local[t]
  BY DEF EndpointIInv, TypeInv
<1>2. PICK it : it = k.item
  OBVIOUS
<1>3. /\ TypeInv /\ LocalInv(t, k) /\ local \in [Threads -> Locals]
      /\ k.pc = "pop" /\ pending_ops \in Nat /\ OrderInv /\ LockInv
      /\ backlog_queue \in Seq(Items) /\ nentries \in [Ranks -> Nat]
      /\ backlog_queue' = Tail(backlog_queue) /\ lock' = NoThread
      /\ empty' = (empty \/ Tail(backlog_queue) = <<>>)
      /\ UNCHANGED <<nentries, pending_ops, wire, inflight, posts>>
  BY Zenon, <1>1, <1>2 DEF EndpointIInv, TypeInv, Pop
<1>4. /\ k.then = "pop" /\ HoldsLock(k) /\ TookFront(k) /\ it \in Items /\ it.rank \in Ranks
      /\ ~Posting(k) /\ backlog_queue # <<>> /\ it = Head(backlog_queue)
  BY Zenon, <1>2, <1>3, ItemFields
  DEF LocalInv, HoldsLock, TookFront, Draining, Posting, PostSteps
<1>5. PICK l \in Locals :
        /\ Become(t, l) /\ l.pc = "uncount" /\ l.item = it /\ l.then = "pop"
        /\ l.force_post = k.force_post /\ l.allow_retry = k.allow_retry
  <2> DEFINE m == At(k, "uncount")
  <2>1. Become(t, m)
    BY Zenon, <1>1, <1>3, GotoBecomes DEF Pop, Labels
  <2>2. /\ m \in Locals /\ m.pc = "uncount" /\ m.item = k.item /\ m.then = k.then
        /\ m.force_post = k.force_post /\ m.allow_retry = k.allow_retry
    BY AtFields DEF Labels
  <2> HIDE DEF m
  <2> QED BY <1>2, <1>4, <2>1, <2>2
<1>6. /\ local' \in [Threads -> Locals] /\ local'[t] = l
      /\ \A u \in Threads : u # t => local'[u] = local[u]
  BY Zenon, <1>3, <1>5, LocalStep
<1>7. /\ ~HoldsLock(l) /\ ~TookFront(l) /\ ~Posting(l) /\ ~PostsOwn(l) /\ ~PostsData(l)
      /\ ~Draining(l) /\ ~Freeing(l) /\ ~PostsData(k) /\ ~Freeing(k)
  BY Zenon, <1>3, <1>4, <1>5
  DEF HoldsLock, TookFront, Draining, Posting, PostsOwn, PostsData, Freeing, PostSteps
<1>8. \A u \in Threads : u # t => ~HoldsLock(local[u])
  BY Zenon, <1>1, <1>3, <1>4 DEF LockInv
<1>9. FrontTaken /\ ~FrontTaken'
  BY Zenon, <1>1, <1>4, <1>6, <1>7, <1>8 DEF FrontTaken, TookFront, HoldsLock
<1>10. PICK n \in Nat : Len(backlog_queue) = n + 1
  <2>1. Len(backlog_queue) \in Nat \ {0}
    BY <1>3, <1>4
  <2>2. Len(backlog_queue) - 1 \in Nat /\ Len(backlog_queue) = (Len(backlog_queue) - 1) + 1
    BY <2>1
  <2> QED BY Zenon, <2>2
<1>11. /\ Len(backlog_queue') = n /\ it = backlog_queue[1]
       /\ \A i \in 1 .. n : backlog_queue'[i] = backlog_queue[i + 1]
       /\ DOMAIN backlog_queue = 1 .. (n + 1) /\ DOMAIN backlog_queue' = 1 .. n
       /\ backlog_queue' \in Seq(Items)
  BY <1>3, <1>4, <1>10
<1>12. \A i \in 1 .. n : i + 1 \in 1 .. (n + 1) /\ i + 1 # 1
  OBVIOUS
<1>13. FlagInv'
  <2>1. ~empty /\ empty \in BOOLEAN
    BY Zenon, <1>3, <1>4 DEF EndpointIInv, FlagInv, TypeInv
  <2> QED BY Zenon, <1>3, <2>1 DEF FlagInv
<1>14. TypeInv'
  <2>1. empty' \in BOOLEAN
    BY Zenon, <1>3 DEF TypeInv
  <2> QED BY Zenon, <1>3, <1>6, <1>11, <2>1 DEF TypeInv
<1>15. \A u \in Threads : LocalInv(u, local[u])'
  <2>1. LocalInv(t, l)'
    <3>1. l.force_post => l.allow_retry
      BY Zenon, <1>3, <1>5 DEF LocalInv
    <3> QED BY Zenon, <1>4, <1>5, <1>7, <3>1 DEF LocalInv, PostsOwn, Quiet, PostSteps
  <2>2. ASSUME NEW u \in Threads, u # t
        PROVE  LocalInv(u, local[u])'
    <3>1. PICK m \in Locals : m = local[u] /\ local'[u] = m /\ LocalInv(u, m)
      BY Zenon, <1>3, <1>6, <2>2 DEF EndpointIInv
    <3>2. ~Draining(m)
      BY Zenon, <1>8, <2>2, <3>1 DEF HoldsLock
    <3>3. LocalInv(u, m)'
      BY Zenon, <1>3, <3>1, <3>2 DEF LocalInv
    <3> QED BY Zenon, <3>1, <3>3
  <2> QED BY <1>6, <2>1, <2>2
<1>16. LockInv'
  BY Zenon, <1>1, <1>3, <1>4, <1>5, <1>7, LockFreed
<1>17. BacklogCounted'
  <2> SUFFICES ASSUME NEW r \in Ranks
               PROVE  nentries'[r] = Cardinality(EntriesOf(r))' + Cardinality(PushersOf(r))'
                                     + Cardinality(PoppersOf(r))'
    BY DEF BacklogCounted
  <2> DEFINE S == EntriesOf(r) \ {1}
  <2>1. nentries[r] = Cardinality(EntriesOf(r)) + Cardinality(PushersOf(r))
                      + Cardinality(PoppersOf(r))
    BY DEF EndpointIInv, BacklogCounted
  <2>2. PushersOf(r)' = PushersOf(r)
    BY Zenon, <1>1, <1>3, <1>5, <1>6 DEF PushersOf
  <2>3. S \subseteq 2 .. (n + 1)
    <3>1. EntriesOf(r) \subseteq 1 .. (n + 1)
      BY Zenon, <1>11 DEF EntriesOf
    <3> HIDE DEF S
    <3>2. \A i \in 1 .. (n + 1) : i # 1 => i \in 2 .. (n + 1)
      OBVIOUS
    <3> QED BY <3>1, <3>2 DEF S
  <2>4. EntriesOf(r)' = {i \in 1 .. n : i + 1 \in S}
    BY Zenon, <1>11, <1>12 DEF EntriesOf
  <2>5. Cardinality(EntriesOf(r)') = Cardinality(S)
    BY <2>3, <2>4, ShiftCount
  <2>6. CASE r = it.rank
    <3>1. PoppersOf(r)' = PoppersOf(r) \cup {t} /\ t \notin PoppersOf(r)
      BY Zenon, <1>1, <1>3, <1>5, <1>6, <2>6 DEF PoppersOf
    <3>2. 1 \in EntriesOf(r)
      BY <1>11, <2>6 DEF EntriesOf
    <3>3. Cardinality(PoppersOf(r))' = Cardinality(PoppersOf(r)) + 1
      BY Zenon, <1>3, <3>1, AddOne, BacklogFinite
    <3>4. Cardinality(EntriesOf(r))' = Cardinality(EntriesOf(r)) - 1
      BY Zenon, <1>3, <2>5, <3>2, RemoveOne, BacklogFinite
    <3> QED BY <1>3, <2>1, <2>2, <3>3, <3>4, BacklogFinite
  <2>7. CASE r # it.rank
    <3>1. PoppersOf(r)' = PoppersOf(r)
      BY Zenon, <1>1, <1>3, <1>5, <1>6, <2>7 DEF PoppersOf
    <3>2. S = EntriesOf(r)
      BY Zenon, <1>11, <2>7 DEF EntriesOf
    <3> QED BY Zenon, <1>3, <2>1, <2>2, <2>5, <3>1, <3>2
  <2> QED BY Zenon, <2>6, <2>7
<1>18. OrderInv'
  <2>1. ASSUME NEW a \in Items, Older(a)
        PROVE  Older(a)'
    BY Zenon, <1>3, <1>6, <1>7, <2>1, ItemFields DEF Older
  <2>2. InOrder'
    BY Zenon, <1>3 DEF OrderInv, InOrder
  <2>3. QueueOrder'
    <3> SUFFICES ASSUME NEW i \in 1 .. n, NEW j \in 1 .. n, i < j,
                        Related(backlog_queue'[i], backlog_queue'[j])
                 PROVE  Before(backlog_queue'[i], backlog_queue'[j])
      BY Zenon, <1>11 DEF QueueOrder
    <3>1. i + 1 < j + 1
      OBVIOUS
    <3> QED BY Zenon, <1>3, <1>10, <1>11, <1>12, <3>1 DEF OrderInv, QueueOrder
  <2>4. WireFirst'
    <3> SUFFICES ASSUME NEW r \in Ranks, NEW i \in 1 .. Len(wire[r]), NEW j \in 1 .. n,
                        backlog_queue'[j].rank = r, Related(wire[r][i], backlog_queue'[j])
                 PROVE  Before(wire[r][i], backlog_queue'[j])
      BY Zenon, <1>3, <1>11 DEF WireFirst
    <3> QED BY Zenon, <1>3, <1>10, <1>11, <1>12 DEF OrderInv, WireFirst
  <2>5. OwnLast'
    <3>1. ASSUME NEW r \in Ranks, NEW i \in 1 .. Len(wire[r])
          PROVE  Older(wire[r][i])'
      <4>1. PICK a \in Items : a = wire[r][i] /\ Older(a)
        BY Zenon, <1>3, OnWire
      <4>2. Older(a)'
        BY Zenon, <2>1, <4>1
      <4> QED BY Zenon, <1>3, <4>1, <4>2 DEF Older
    <3>2. ASSUME NEW j \in 1 .. n
          PROVE  Older(backlog_queue[j])'
      <4>1. PICK a \in Items : a = backlog_queue[j + 1] /\ Older(a)
        <5>1. j + 1 \in 1 .. Len(backlog_queue) BY Zenon, <1>10, <1>12
        <5>2. backlog_queue[j + 1] \in Items
          <6>1. backlog_queue \in Seq(Items) BY Zenon, <1>3
          <6> QED BY <5>1, <6>1
        <5> QED BY Zenon, <1>3, <5>1, <5>2 DEF OrderInv, OwnLast
      <4>2. Older(a)'
        BY <2>1, <4>1
      <4> QED BY Zenon, <1>11, <4>1, <4>2 DEF Older
    <3> QED BY Zenon, <1>3, <1>11, <3>1, <3>2 DEF OwnLast
  <2>6. \A u \in Threads : NoneWaitsFor(local[u])'
    <3>1. NoneWaitsFor(l)'
      BY Zenon, <1>5 DEF NoneWaitsFor
    <3>2. ASSUME NEW u \in Threads, u # t
          PROVE  NoneWaitsFor(local[u])'
      <4>1. PICK m \in Locals : m = local[u] /\ local'[u] = m /\ NoneWaitsFor(m)
        BY Zenon, <1>3, <1>6, <3>2 DEF OrderInv
      <4>2. NoneWaitsFor(m)'
        BY Zenon, <1>10, <1>11, <1>12, <4>1 DEF NoneWaitsFor
      <4> QED BY Zenon, <4>1, <4>2
    <3> QED BY <1>6, <3>1, <3>2
  <2>7. \A i \in inflight' : i \in Taken(i.rank)'
    BY Zenon, <1>3 DEF OrderInv, Taken
  <2> QED BY Zenon, <1>9, <2>2, <2>3, <2>4, <2>5, <2>6, <2>7 DEF OrderInv
<1>19. Unposted \subseteq 2 .. (n + 1) /\ Unposted' = {i \in 1 .. n : i + 1 \in Unposted}
  <2>1. Unposted \subseteq 2 .. (n + 1)
    BY <1>9, <1>10 DEF Unposted
  <2> QED BY <1>9, <1>10, <1>11, <1>12, <2>1 DEF Unposted
<1>20. PendingCounted'
  <2>1. FreeingThreads' = FreeingThreads /\ InflightData' = InflightData
    BY Zenon, <1>1, <1>3, <1>6, <1>7 DEF FreeingThreads, InflightData
  <2>2. PostingData' = PostingData
    BY <1>1, <1>6, <1>7 DEF PostingData
  <2>3. Cardinality(Unposted') = Cardinality(Unposted)
    BY <1>19, ShiftCount
  <2> QED BY <1>3, <2>1, <2>2, <2>3, Zenon DEF EndpointIInv, PendingCounted
<1>21. DrainInv'
  <2> SUFFICES ASSUME NEW u \in Threads, local'[u].pc = "drained"
               PROVE  /\ \A i \in Unposted' :
                            backlog_queue'[i].number > local'[u].seen[backlog_queue'[i].thread]
                      /\ \A w \in Threads : Posting(local'[w]) /\ local'[w].item.part = "data" =>
                            local'[w].item.number > local'[u].seen[local'[w].item.thread]
    BY Zenon DEF DrainInv
  <2>1. u # t /\ local'[u] = local[u]
    BY Zenon, <1>5, <1>6
  <2>2. \A i \in Unposted : backlog_queue[i].number > local[u].seen[backlog_queue[i].thread]
    BY Zenon, <2>1 DEF EndpointIInv, DrainInv
  <2>3. \A i \in Unposted' :
           backlog_queue'[i].number > local'[u].seen[backlog_queue'[i].thread]
    BY Zenon, <1>11, <1>19, <2>1, <2>2
  <2> QED BY Zenon, <1>6, <1>7, <2>1, <2>3 DEF EndpointIInv, DrainInv
<1> QED BY Zenon, <1>13, <1>14, <1>15, <1>16, <1>17, <1>18, <1>20, <1>21 DEF EndpointIInv

=============================================================================
