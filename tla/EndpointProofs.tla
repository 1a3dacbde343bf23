--------------------------- MODULE EndpointProofs ---------------------------
(***************************************************************************)
(* Theorems about Endpoint, for every number of threads and ranks, every   *)
(* mix of operations, and networks with and without immediate data.  The   *)
(* inductive invariant is in EndpointQueueProofs.                          *)
(***************************************************************************)
EXTENDS EndpointQueueProofs

-----------------------------------------------------------------------------
(* What a step of one thread leaves as it is. *)

\* The threads with some standing, before and after a step that keeps that of
\* the thread that takes it.
LEMMA FrontStep ==
  ASSUME local \in [Threads -> Locals], NEW t \in Threads, NEW l \in Locals, Become(t, l),
         TookFront(l) <=> TookFront(local[t])
  PROVE  FrontTaken' <=> FrontTaken
BY LocalStep DEF FrontTaken

\* The order of operations is as before when the thread posts nothing new.
LEMMA OrderStep ==
  ASSUME TypeInv, OrderInv, NEW t \in Threads, NEW l \in Locals, Become(t, l),
         UNCHANGED <<backlog_queue, wire, posts>>, inflight' \subseteq inflight,
         TookFront(l) <=> TookFront(local[t]),
         PostsOwn(l) => PostsOwn(local[t]) /\ l.item = local[t].item,
         NoneWaitsFor(l)
  PROVE  OrderInv'
<1>1. FrontTaken' <=> FrontTaken
  BY FrontStep DEF TypeInv
<1>2. /\ local'[t] = l
      /\ \A u \in Threads : u # t => local'[u] = local[u]
  BY LocalStep DEF TypeInv
<1>3. InOrder' /\ QueueOrder' /\ WireFirst'
  BY <1>1 DEF OrderInv, InOrder, QueueOrder, WireFirst
<1>4. \A a \in Items : Older(a) => Older(a)'
  BY <1>2 DEF Older, Items, Threads
<1>5. OwnLast'
  BY <1>4 DEF OrderInv, OwnLast, TypeInv
<1>6. \A u \in Threads : NoneWaitsFor(local[u])'
  BY <1>2 DEF OrderInv, NoneWaitsFor
<1>7. /\ \A it \in inflight' : it \in Taken(it.rank)'
      /\ FrontTaken' => (Head(backlog_queue) \in Taken(Head(backlog_queue).rank))'
  BY <1>1 DEF OrderInv, Taken
<1> QED BY <1>3, <1>5, <1>6, <1>7 DEF OrderInv

\* The count of pending operations is as before.
LEMMA PendingStep ==
  ASSUME TypeInv, PendingCounted, NEW t \in Threads, NEW l \in Locals, Become(t, l),
         UNCHANGED <<backlog_queue, inflight, pending_ops>>,
         TookFront(l) <=> TookFront(local[t]),
         PostsData(l) <=> PostsData(local[t]), Freeing(l) <=> Freeing(local[t])
  PROVE  PendingCounted'
<1>1. FrontTaken' <=> FrontTaken
  BY FrontStep DEF TypeInv
<1>2. /\ local'[t] = l
      /\ \A u \in Threads : u # t => local'[u] = local[u]
  BY LocalStep DEF TypeInv
<1>3. PostingData' = PostingData
  BY <1>2 DEF PostingData
<1>4. FreeingThreads' = FreeingThreads
  BY <1>2 DEF FreeingThreads
<1>5. Unposted' = Unposted /\ InflightData' = InflightData
  BY <1>1 DEF Unposted, InflightData
<1> QED BY <1>3, <1>4, <1>5 DEF PendingCounted

\* Nothing old is posted again after test_drained has returned done.
LEMMA DrainStep ==
  ASSUME TypeInv, DrainInv, NEW t \in Threads, NEW l \in Locals, Become(t, l),
         UNCHANGED backlog_queue, TookFront(l) <=> TookFront(local[t]),
         Posting(l) /\ l.item.part = "data" => Posting(local[t]) /\ l.item = local[t].item,
         l.pc = "drained" => pc(t) = "drained" /\ l.seen = local[t].seen
  PROVE  DrainInv'
<1>1. FrontTaken' <=> FrontTaken
  BY FrontStep DEF TypeInv
<1>2. /\ local'[t] = l
      /\ \A u \in Threads : u # t => local'[u] = local[u]
  BY LocalStep DEF TypeInv
<1>3. Unposted' = Unposted
  BY <1>1 DEF Unposted
<1> QED BY <1>2, <1>3 DEF DrainInv, pc, item

LEMMA QuietStep ==
  ASSUME EndpointIInv, NEW t \in Threads, NEW l \in Locals, Become(t, l),
         UNCHANGED <<empty, backlog_queue, pending_ops, wire, inflight, posts>>,
         nentries' \in [Ranks -> Nat], lock' \in Threads \cup {NoThread},
         BacklogCounted', LockInv',
         LocalInv(t, l), SameStanding(local[t], l), NoneWaitsFor(l)
  PROVE  EndpointIInv'
<1> USE DEF EndpointIInv
<1>1. TypeInv'
  BY LocalStep DEF TypeInv
<1>2. \A u \in Threads : LocalInv(u, local[u])'
  BY OthersStep
<1>3. FlagInv'
  BY DEF FlagInv
<1>4. OrderInv'
  BY OrderStep DEF SameStanding
<1>5. PendingCounted'
  BY PendingStep DEF SameStanding
<1>6. DrainInv'
  BY DrainStep DEF SameStanding, pc
<1> QED BY <1>1, <1>2, <1>3, <1>4, <1>5, <1>6

LEMMA CallFields ==
  ASSUME NEW it \in Items, NEW allow_retry \in BOOLEAN, NEW force_post \in BOOLEAN,
         NEW then \in {"idle", "pop", "free"}
  PROVE  LET l == Call(it, allow_retry, force_post, then)
         IN  /\ l \in Locals /\ l.pc = (IF force_post THEN "impl" ELSE "check")
             /\ l.item = it /\ l.allow_retry = allow_retry
             /\ l.force_post = force_post /\ l.then = then /\ l.seen = <<>>
BY Zenon DEF Call, Idle, Locals, Labels, Seen

-----------------------------------------------------------------------------
(* The initial states. *)

LEMMA InitInv ==
  ASSUME Init
  PROVE  EndpointIInv
<1> USE DEF Init
<1>1. \A t \in Threads : local[t] = Idle
  OBVIOUS
<1>2. TypeInv
  BY IdleFields, EndpointConstants, FS_EmptySet DEF TypeInv, EndpointAssumption
<1>3. \A t \in Threads : LocalInv(t, local[t])
  BY <1>1, IdleFields DEF LocalInv, Posting, PostsOwn, Draining, PostSteps
<1>4. LockInv
  BY <1>1, IdleFields, EndpointConstants
  DEF LockInv, HoldsLock, Draining, EndpointAssumption
<1>5. ~FrontTaken
  BY <1>1, IdleFields DEF FrontTaken, TookFront, Draining
<1>6. OrderInv
  <2>1. InOrder /\ QueueOrder /\ WireFirst /\ OwnLast
    BY DEF InOrder, QueueOrder, WireFirst, OwnLast
  <2>2. \A t \in Threads : NoneWaitsFor(local[t])
    BY <1>1, IdleFields DEF NoneWaitsFor, PostsOwn
  <2> QED BY <2>1, <2>2, <1>5 DEF OrderInv
<1>7. BacklogCounted
  <2>1. \A r \in Ranks : PushersOf(r) = {} /\ PoppersOf(r) = {}
    BY <1>1, IdleFields DEF PushersOf, PoppersOf, pc
  <2>2. \A r \in Ranks : EntriesOf(r) = {}
    BY DEF EntriesOf
  <2>3. \A r \in Ranks : /\ Cardinality(EntriesOf(r)) = 0
                         /\ Cardinality(PushersOf(r)) = 0
                         /\ Cardinality(PoppersOf(r)) = 0
    BY Zenon, <2>1, <2>2, FS_EmptySet
  <2> QED BY <2>3 DEF BacklogCounted
<1>8. PendingCounted
  <2>1. PostingData = {}
    BY <1>1, IdleFields DEF PostingData, PostsData, Posting, PostSteps
  <2>2. FreeingThreads = {}
    BY <1>1, IdleFields DEF FreeingThreads, Freeing
  <2>3. Unposted = {} /\ InflightData = {}
    BY DEF Unposted, InflightData
  <2> QED BY <2>1, <2>2, <2>3, FS_EmptySet DEF PendingCounted
<1>9. DrainInv
  BY <1>1, IdleFields DEF DrainInv, pc
<1>10. FlagInv
  BY DEF FlagInv
<1> QED BY <1>2, <1>3, <1>4, <1>6, <1>7, <1>8, <1>9, <1>10 DEF EndpointIInv

-----------------------------------------------------------------------------
(* Steps that touch nothing but the thread's own place in the code. *)

LEMMA SilentStep ==
  ASSUME EndpointIInv, NEW t \in Threads, NEW l \in Locals, Become(t, l),
         UNCHANGED <<nentries, empty, lock, backlog_queue, pending_ops, wire,
                     inflight, posts>>,
         LocalInv(t, l), SameStanding(local[t], l), NoneWaitsFor(l),
         HoldsLock(l) <=> HoldsLock(local[t]),
         l.pc \notin {"push_lock", "push", "uncount"},
         pc(t) \notin {"push_lock", "push", "uncount"}
  PROVE  EndpointIInv'
<1>1. BacklogCounted'
  BY Zenon, CountStep DEF EndpointIInv
<1>2. LockInv'
  BY LockStep DEF EndpointIInv
<1>3. nentries' \in [Ranks -> Nat] /\ lock' \in Threads \cup {NoThread}
  BY DEF EndpointIInv, TypeInv
<1> QED BY <1>1, <1>2, <1>3, QuietStep

\* The counter of a rank with an entry in the queue is not zero.
LEMMA CountedEntry ==
  ASSUME TypeInv, BacklogCounted, NEW i \in 1 .. Len(backlog_queue)
  PROVE  nentries[backlog_queue[i].rank] # 0
<1> DEFINE r == backlog_queue[i].rank
<1>1. backlog_queue[i] \in Items /\ Len(backlog_queue) \in Nat
      /\ DOMAIN backlog_queue = 1 .. Len(backlog_queue)
  BY DEF TypeInv
<1>2. r \in Ranks
  BY <1>1, ItemFields
<1>3. EntriesOf(r) \subseteq 1 .. Len(backlog_queue) /\ i \in EntriesOf(r)
  BY <1>1 DEF EntriesOf
<1>4. IsFiniteSet(EntriesOf(r)) /\ Cardinality(EntriesOf(r)) \in Nat
  BY Zenon, <1>1, <1>3, FinitePlaces
<1>5. Cardinality(EntriesOf(r)) # 0
  BY <1>3, <1>4, FS_EmptySet
<1>6. Cardinality(PushersOf(r)) \in Nat /\ Cardinality(PoppersOf(r)) \in Nat
  BY FiniteThreads DEF PushersOf, PoppersOf
<1>7. nentries[r] = Cardinality(EntriesOf(r)) + Cardinality(PushersOf(r))
                    + Cardinality(PoppersOf(r))
  BY <1>2 DEF BacklogCounted
<1> HIDE DEF r
<1>8. nentries[r] # 0
  BY <1>4, <1>5, <1>6, <1>7
<1> QED BY <1>8 DEF r

LEMMA CheckInv ==
  ASSUME EndpointIInv, NEW t \in Threads, Check(t)
  PROVE  EndpointIInv'
<1> DEFINE k == local[t]
<1> USE DEF pc, item
<1>1. TypeInv /\ LocalInv(t, k) /\ k \in Locals /\ k.pc = "check" /\ local \in [Threads -> Locals]
  BY DEF EndpointIInv, TypeInv, Check
<1>2. UNCHANGED <<nentries, empty, lock, backlog_queue, pending_ops, wire, inflight, posts>>
  BY DEF Check
<1>3. Posting(k) /\ k.item \in Items
  BY Zenon, <1>1 DEF LocalInv, Posting, PostSteps
<1>4. CASE nentries[k.item.rank] # 0 /\ ~k.allow_retry
  <2> DEFINE l == At(k, "push_count")
  <2>1. Become(t, l)
    BY Zenon, <1>1, <1>4, GotoBecomes DEF Check, Retry, Labels
  <2>2. /\ l \in Locals /\ l.pc = "push_count"
        /\ l.item = k.item /\ l.allow_retry = k.allow_retry
        /\ l.force_post = k.force_post /\ l.then = k.then /\ l.seen = k.seen
    BY <1>1, AtFields DEF Labels
  <2> HIDE DEF l
  <2>3. LocalInv(t, l)
    BY Zenon, <1>1, <1>3, <2>2, <1>4 DEF LocalInv, Posting, PostsOwn, Draining, PostSteps, Quiet
  <2>4. SameStanding(k, l) /\ (HoldsLock(l) <=> HoldsLock(k)) /\ NoneWaitsFor(l)
    BY <1>1, <1>3, <2>2
    DEF SameStanding, HoldsLock, NoneWaitsFor, TookFront, Draining, Posting, PostsOwn,
        PostsData, Freeing, PostSteps
  <2> QED BY <1>1, <1>2, <2>1, <2>2, <2>3, <2>4, SilentStep
<1>5. CASE nentries[k.item.rank] # 0 /\ k.allow_retry
  <2> DEFINE l == At(k, "discard")
  <2>1. ~k.force_post /\ k.item.part = "data" /\ k.then = "idle"
    BY Zenon, <1>1, <1>3, <1>5 DEF LocalInv, Posting
  <2>2. Become(t, l)
    BY Zenon, <1>1, <1>5, <2>1, GotoBecomes DEF Check, Retry, Labels
  <2>3. /\ l \in Locals /\ l.pc = "discard"
        /\ l.item = k.item /\ l.allow_retry = k.allow_retry
        /\ l.force_post = k.force_post /\ l.then = k.then /\ l.seen = k.seen
    BY <1>1, AtFields DEF Labels
  <2> HIDE DEF l
  <2>4. LocalInv(t, l)
    BY Zenon, <1>1, <1>3, <2>3, <2>1 DEF LocalInv, Posting, PostsOwn, Draining, PostSteps, Quiet
  <2>5. SameStanding(k, l) /\ (HoldsLock(l) <=> HoldsLock(k)) /\ NoneWaitsFor(l)
    BY <1>1, <1>3, <2>1, <2>3
    DEF SameStanding, HoldsLock, NoneWaitsFor, TookFront, Draining, Posting, PostsOwn,
        PostsData, Freeing, PostSteps
  <2> QED BY <1>1, <1>2, <2>2, <2>3, <2>4, <2>5, SilentStep
<1>6. CASE nentries[k.item.rank] = 0
  <2> DEFINE l == At(k, "impl")
  <2>1. Become(t, l)
    BY <1>1, <1>6, GotoBecomes DEF Check, Labels
  <2>2. /\ l \in Locals /\ l.pc = "impl"
        /\ l.item = k.item /\ l.allow_retry = k.allow_retry
        /\ l.force_post = k.force_post /\ l.then = k.then /\ l.seen = k.seen
    BY <1>1, AtFields DEF Labels
  <2>3. \A i \in 1 .. Len(backlog_queue) : backlog_queue[i].rank # k.item.rank
    BY <1>6, CountedEntry DEF EndpointIInv
  <2>4. k.then # "pop"
    <3> SUFFICES ASSUME k.then = "pop" PROVE FALSE
      OBVIOUS
    <3>1. backlog_queue # <<>> /\ k.item.rank = Head(backlog_queue).rank
      BY Zenon, <1>1 DEF LocalInv, Draining
    <3>2. backlog_queue[1].rank = k.item.rank /\ 1 \in 1 .. Len(backlog_queue)
      BY <1>1, <3>1 DEF TypeInv
    <3> QED BY <2>3, <3>2
  <2> HIDE DEF l
  <2>5. LocalInv(t, l)
    BY Zenon, <1>1, <1>3, <2>2, <2>4 DEF LocalInv, Posting, PostsOwn, Draining, PostSteps, Quiet
  <2>6. NoneWaitsFor(l)
    BY Zenon, <2>2, <2>3 DEF NoneWaitsFor
  <2>7. SameStanding(k, l) /\ (HoldsLock(l) <=> HoldsLock(k))
    BY Zenon, <1>1, <1>3, <2>2
    DEF SameStanding, HoldsLock, TookFront, Draining, Posting, PostsOwn,
        PostsData, Freeing, PostSteps
  <2> QED BY Zenon, <1>1, <1>2, <2>1, <2>2, <2>5, <2>6, <2>7, SilentStep
<1> QED BY <1>4, <1>5, <1>6

LEMMA ImplRetryInv ==
  ASSUME EndpointIInv, NEW t \in Threads, ImplRetry(t)
  PROVE  EndpointIInv'
<1> DEFINE k == local[t]
           label == IF ~k.allow_retry THEN "push_count"
                    ELSE IF k.force_post THEN "give_up" ELSE "discard"
           l == At(k, label)
<1> USE DEF pc, item
<1>1. TypeInv /\ LocalInv(t, k) /\ k \in Locals /\ k.pc = "impl" /\ local \in [Threads -> Locals]
  BY DEF EndpointIInv, TypeInv, ImplRetry
<1>2. UNCHANGED <<nentries, empty, lock, backlog_queue, pending_ops, wire, inflight, posts>>
  BY Zenon DEF ImplRetry
<1>3. k.item \in Items
  BY Zenon, <1>1 DEF LocalInv, PostSteps
<1>4. Become(t, l)
  BY <1>1, GotoBecomes DEF ImplRetry, Retry, Labels
<1>5. label \in Labels
  BY DEF Labels
<1>6. /\ l \in Locals /\ l.pc = label
      /\ l.item = k.item /\ l.allow_retry = k.allow_retry
      /\ l.force_post = k.force_post /\ l.then = k.then /\ l.seen = k.seen
  BY <1>1, <1>5, AtFields
<1> HIDE DEF l
<1>7. LocalInv(t, l)
  BY Zenon, <1>1, <1>3, <1>6 DEF LocalInv, Posting, PostsOwn, Draining, PostSteps, Quiet
<1>8. SameStanding(k, l) /\ (HoldsLock(l) <=> HoldsLock(k)) /\ NoneWaitsFor(l)
  BY Zenon, <1>1, <1>3, <1>6
  DEF SameStanding, HoldsLock, NoneWaitsFor, TookFront, Draining, Posting, PostsOwn,
      PostsData, Freeing, PostSteps, LocalInv
<1>9. l.pc \notin {"push_lock", "push", "uncount"}
  BY <1>6
<1> QED BY <1>1, <1>2, <1>4, <1>6, <1>7, <1>8, <1>9, SilentStep

\* Between two places outside the operations.
LEMMA QuietMove ==
  ASSUME EndpointIInv, NEW t \in Threads, NEW l \in Locals, Become(t, l),
         UNCHANGED <<nentries, empty, lock, backlog_queue, pending_ops, wire,
                     inflight, posts>>,
         pc(t) \in Quiet \ {"front"}, l.pc \in Quiet \ {"front", "drained"},
         l.then = "idle", ~l.force_post, l.pc = "drain_pending" => l.seen = posts
  PROVE  EndpointIInv'
<1> DEFINE k == local[t]
<1> USE DEF pc
<1>1. k \in Locals /\ LocalInv(t, k) /\ posts \in [Threads -> 0 .. MaxPosts]
  BY DEF EndpointIInv, TypeInv
<1>2. k.then = "idle" /\ ~k.force_post
  BY Zenon, <1>1 DEF LocalInv
<1>3. MaxPosts \in Nat
  BY Zenon, EndpointConstants DEF EndpointAssumption
<1>4. l.pc = "drain_pending" =>
        l.seen \in [Threads -> Nat] /\ \A u \in Threads : l.seen[u] <= posts[u]
  BY <1>1, <1>3
<1>5. LocalInv(t, l)
  BY Zenon, <1>4 DEF LocalInv, Posting, PostsOwn, Draining, PostSteps, Quiet
<1>6. SameStanding(k, l) /\ (HoldsLock(l) <=> HoldsLock(k)) /\ NoneWaitsFor(l)
  BY Zenon, <1>2
  DEF SameStanding, HoldsLock, NoneWaitsFor, TookFront, Draining, Posting, PostsOwn,
      PostsData, Freeing, PostSteps, Quiet
<1>7. {l.pc, k.pc} \cap {"push_lock", "push", "uncount"} = {}
  BY DEF Quiet
<1> QED BY Zenon, <1>5, <1>6, <1>7, SilentStep

LEMMA GotoQuiet ==
  ASSUME EndpointIInv, NEW t \in Threads, NEW label \in {"poll", "backlog", "try_lock"},
         Goto(t, label), pc(t) \in Quiet \ {"front"},
         UNCHANGED <<nentries, empty, lock, backlog_queue, pending_ops, wire,
                     inflight, posts>>
  PROVE  EndpointIInv'
<1> DEFINE l == At(local[t], label)
<1>1. local \in [Threads -> Locals] /\ LocalInv(t, local[t]) /\ label \in Labels
  BY DEF EndpointIInv, TypeInv, Labels
<1>2. Become(t, l)
  BY <1>1, GotoBecomes
<1>3. l \in Locals /\ l.pc = label /\ l.then = "idle" /\ ~l.force_post
  BY SMTT(20), <1>1, AtFields, SMTT(30) DEF LocalInv, pc
<1> HIDE DEF l
<1>4. l.pc \in Quiet \ {"front", "drained"} /\ l.pc # "drain_pending"
  BY <1>3 DEF Quiet
<1> QED BY <1>2, <1>3, <1>4, QuietMove

LEMMA ReturnQuiet ==
  ASSUME EndpointIInv, NEW t \in Threads, Return(t), pc(t) \in Quiet \ {"front"},
         UNCHANGED <<nentries, empty, lock, backlog_queue, pending_ops, wire,
                     inflight, posts>>
  PROVE  EndpointIInv'
<1>1. Idle.pc \in Quiet \ {"front", "drained"}
  BY IdleFields DEF Quiet
<1> QED BY <1>1, IdleFields, ReturnBecomes, QuietMove

LEMMA TestDrainedInv ==
  ASSUME EndpointIInv, NEW t \in Threads, TestDrained(t)
  PROVE  EndpointIInv'
<1> DEFINE l == [local[t] EXCEPT !.pc = "drain_pending", !.seen = posts]
<1>1. /\ local \in [Threads -> Locals] /\ LocalInv(t, local[t])
      /\ posts \in [Threads -> 0 .. MaxPosts] /\ local[t].pc = "idle"
  BY DEF EndpointIInv, TypeInv, TestDrained, pc
<1>2. posts \in [Threads -> Nat]
  BY <1>1, EndpointConstants DEF EndpointAssumption
<1>3. Become(t, l)
  BY Zenon, <1>1 DEF TestDrained, Become, Locals
<1>4. l \in Locals /\ l.pc = "drain_pending" /\ l.then = local[t].then
      /\ l.force_post = local[t].force_post /\ l.seen = posts
  BY Zenon, <1>1, <1>2 DEF Locals, Labels, Seen
<1> HIDE DEF l
<1>5. l.then = "idle" /\ ~l.force_post
      /\ pc(t) \in Quiet \ {"front"} /\ l.pc \in Quiet \ {"front", "drained"}
  BY Zenon, <1>1, <1>4 DEF LocalInv, Quiet, pc
<1>6. UNCHANGED <<nentries, empty, lock, backlog_queue, pending_ops, wire, inflight, posts>>
  BY DEF TestDrained
<1> QED BY <1>3, <1>4, <1>5, <1>6, QuietMove

\* test_drained finds no pending operation: nothing posted before is on its way.
LEMMA TestPendingInv ==
  ASSUME EndpointIInv, NEW t \in Threads, TestPending(t)
  PROVE  EndpointIInv'
<1> DEFINE k == local[t]
           l == At(k, "drained")
<1> USE DEF pc
<1>1. /\ TypeInv /\ LocalInv(t, k) /\ k \in Locals /\ local \in [Threads -> Locals]
      /\ k.pc = "drain_pending"
  BY DEF EndpointIInv, TypeInv, TestPending
<1>2. UNCHANGED <<nentries, empty, lock, backlog_queue, pending_ops, wire, inflight, posts>>
  BY DEF TestPending
<1>3. CASE pending_ops # 0
  BY <1>1, <1>2, <1>3, ReturnQuiet DEF TestPending, Quiet
<1>4. CASE pending_ops = 0
  <2>1. Become(t, l)
    BY <1>1, <1>4, GotoBecomes DEF TestPending, Labels
  <2>2. /\ l \in Locals /\ l.pc = "drained" /\ l.item = k.item
        /\ l.force_post = k.force_post /\ l.then = k.then /\ l.seen = k.seen
    BY <1>1, AtFields DEF Labels
  <2> HIDE DEF l
  <2>3. k.then = "idle" /\ ~k.force_post
    BY Zenon, <1>1 DEF LocalInv, Quiet
  <2>4. LocalInv(t, l)
    BY Zenon, <1>1, <2>2, <2>3 DEF LocalInv, Posting, PostsOwn, Draining, PostSteps, Quiet
  <2>5. /\ ~TookFront(l) /\ ~TookFront(k) /\ ~PostsOwn(l) /\ ~PostsData(l) /\ ~PostsData(k)
        /\ ~Freeing(l) /\ ~Freeing(k) /\ ~Posting(l) /\ ~HoldsLock(l) /\ ~HoldsLock(k)
        /\ NoneWaitsFor(l)
    BY <1>1, <2>2, <2>3
    DEF HoldsLock, NoneWaitsFor, TookFront, Draining, Posting, PostsOwn, PostsData,
        Freeing, PostSteps
  <2>6. Unposted = {} /\ PostingData = {}
    <3>1. /\ Cardinality(PostingData) \in Nat /\ Cardinality(Unposted) \in Nat
          /\ Cardinality(InflightData) \in Nat /\ Cardinality(FreeingThreads) \in Nat
      BY <1>1, PendingFinite
    <3>2. 0 = Cardinality(PostingData) + Cardinality(Unposted)
              + Cardinality(InflightData) + Cardinality(FreeingThreads)
      BY <1>4 DEF EndpointIInv, PendingCounted
    <3>3. Cardinality(Unposted) = 0 /\ Cardinality(PostingData) = 0
      BY <3>1, <3>2
    <3> QED BY <1>1, <3>3, PendingFinite, FS_EmptySet
  <2>7. /\ local'[t] = l
        /\ \A u \in Threads : u # t => local'[u] = local[u]
    BY <1>1, <2>1, <2>2, LocalStep
  <2>8. Unposted' = {}
    BY Zenon, <1>1, <1>2, <2>1, <2>2, <2>5, <2>6, FrontStep DEF Unposted
  <2>9. \A u \in Threads : ~(Posting(local[u]) /\ item(u).part = "data")'
    BY <2>5, <2>6, <2>7 DEF PostingData, PostsData, item
  <2>10. DrainInv'
    BY <2>8, <2>9 DEF DrainInv
  <2>11. OrderInv' /\ PendingCounted' /\ LockInv' /\ BacklogCounted'
    BY <1>1, <1>2, <2>1, <2>2, <2>5, OrderStep, PendingStep, LockStep, CountStep
    DEF EndpointIInv
  <2>12. TypeInv' /\ FlagInv' /\ \A u \in Threads : LocalInv(u, local[u])'
    BY <1>1, <1>2, <2>1, <2>2, <2>4, LocalStep, OthersStep DEF EndpointIInv, TypeInv, FlagInv
  <2> QED BY <2>10, <2>11, <2>12 DEF EndpointIInv
<1> QED BY <1>3, <1>4

\* progress() and test_drained() begin and end.
LEMMA CallsInv ==
  ASSUME EndpointIInv, NEW t \in Threads,
         Progress(t) \/ BacklogEmpty(t) \/ ProgressReturn(t) \/ DrainedReturn(t)
  PROVE  EndpointIInv'
<1> USE DEF Quiet
<1>1. CASE Progress(t)
  BY <1>1, GotoQuiet DEF Progress
<1>2. CASE BacklogEmpty(t)
  BY <1>2, GotoQuiet DEF BacklogEmpty
<1>3. CASE ProgressReturn(t)
  BY <1>3, ReturnQuiet DEF ProgressReturn
<1>4. CASE DrainedReturn(t)
  BY <1>4, ReturnQuiet DEF DrainedReturn
<1> QED BY <1>1, <1>2, <1>3, <1>4

-----------------------------------------------------------------------------
(* The spinlock and the counter of the backlog. *)

LEMMA LockTaken ==
  ASSUME TypeInv, LockInv, NEW t \in Threads, NEW l \in Locals, Become(t, l),
         lock = NoThread, lock' = t, HoldsLock(l)
  PROVE  LockInv'
<1>1. NoThread \notin Threads
  BY EndpointConstants DEF EndpointAssumption
<1> QED BY <1>1, LocalStep DEF TypeInv, LockInv

LEMMA PushCountInv ==
  ASSUME EndpointIInv, NEW t \in Threads, PushCount(t)
  PROVE  EndpointIInv'
<1> DEFINE k == local[t]
           l == At(k, "push_lock")
           q == k.item.rank
<1> USE DEF pc, item
<1>1. /\ TypeInv /\ LocalInv(t, k) /\ k \in Locals /\ local \in [Threads -> Locals]
      /\ k.pc = "push_count" /\ nentries \in [Ranks -> Nat]
  BY DEF EndpointIInv, TypeInv, PushCount
<1>2. /\ UNCHANGED <<empty, lock, backlog_queue, pending_ops, wire, inflight, posts>>
      /\ nentries' = [nentries EXCEPT ![q] = @ + 1]
  BY DEF PushCount
<1>3. Posting(k) /\ k.item \in Items /\ q \in Ranks
  BY Zenon, <1>1, ItemFields DEF LocalInv, Posting, PostSteps
<1>4. Become(t, l)
  BY <1>1, GotoBecomes DEF PushCount, Labels
<1>5. /\ l \in Locals /\ l.pc = "push_lock"
      /\ l.item = k.item /\ l.allow_retry = k.allow_retry
      /\ l.force_post = k.force_post /\ l.then = k.then /\ l.seen = k.seen
  BY <1>1, AtFields DEF Labels
<1> HIDE DEF l
<1>6. LocalInv(t, l)
  BY Zenon, <1>1, <1>3, <1>5 DEF LocalInv, Posting, PostsOwn, Draining, PostSteps, Quiet
<1>7. SameStanding(k, l) /\ (HoldsLock(l) <=> HoldsLock(k)) /\ NoneWaitsFor(l)
  BY Zenon, <1>1, <1>3, <1>5
  DEF SameStanding, HoldsLock, NoneWaitsFor, TookFront, Draining, Posting, PostsOwn,
      PostsData, Freeing, PostSteps
<1>8. BacklogCounted'
  <2>1. /\ local'[t] = l
        /\ \A u \in Threads : u # t => local'[u] = local[u]
    BY <1>1, <1>4, <1>5, LocalStep
  <2>2. ASSUME NEW r \in Ranks
        PROVE  /\ EntriesOf(r)' = EntriesOf(r) /\ PoppersOf(r)' = PoppersOf(r)
               /\ PushersOf(r)' = IF r = q THEN PushersOf(r) \cup {t} ELSE PushersOf(r)
               /\ t \notin PushersOf(r)
    BY <1>1, <1>2, <1>5, <2>1 DEF EntriesOf, PoppersOf, PushersOf
  <2>3. ASSUME NEW r \in Ranks
        PROVE  Cardinality(PushersOf(r))' = Cardinality(PushersOf(r)) + IF r = q THEN 1 ELSE 0
    BY <1>1, <2>2, AddOne, BacklogFinite
  <2>4. ASSUME NEW r \in Ranks
        PROVE  nentries'[r] = nentries[r] + IF r = q THEN 1 ELSE 0
    BY <1>1, <1>2
  <2>5. ASSUME NEW r \in Ranks
        PROVE  nentries'[r] = Cardinality(EntriesOf(r))' + Cardinality(PushersOf(r))'
                              + Cardinality(PoppersOf(r))'
    <3>1. nentries[r] = Cardinality(EntriesOf(r)) + Cardinality(PushersOf(r))
                        + Cardinality(PoppersOf(r))
      BY DEF EndpointIInv, BacklogCounted
    <3> QED BY SMTT(20), <1>1, <2>2, <2>3, <2>4, <3>1, BacklogFinite
  <2> QED BY <2>5 DEF BacklogCounted
<1>9. LockInv'
  BY <1>1, <1>2, <1>4, <1>5, <1>7, LockStep DEF EndpointIInv
<1>10. nentries' \in [Ranks -> Nat]
  BY <1>1, <1>2, <1>3
<1>11. lock' \in Threads \cup {NoThread}
  BY <1>1, <1>2 DEF TypeInv
<1> QED BY Zenon, <1>2, <1>4, <1>5, <1>6, <1>7, <1>8, <1>9, <1>10, <1>11, QuietStep

LEMMA UncountInv ==
  ASSUME EndpointIInv, NEW t \in Threads, Uncount(t)
  PROVE  EndpointIInv'
<1> DEFINE k == local[t]
           l == At(Idle, "backlog")
           q == k.item.rank
<1> USE DEF pc, item
<1>1. /\ TypeInv /\ LocalInv(t, k) /\ k \in Locals /\ local \in [Threads -> Locals]
      /\ k.pc = "uncount" /\ nentries \in [Ranks -> Nat]
  BY DEF EndpointIInv, TypeInv, Uncount
<1>2. /\ UNCHANGED <<empty, lock, backlog_queue, pending_ops, wire, inflight, posts>>
      /\ nentries' = [nentries EXCEPT ![q] = @ - 1]
  BY DEF Uncount
<1>3. k.item \in Items /\ q \in Ranks /\ k.then = "pop"
  BY Zenon, <1>1, ItemFields DEF LocalInv
<1>4. Become(t, l)
  BY DEF Uncount, Become, At
<1>5. /\ l \in Locals /\ l.pc = "backlog"
      /\ ~l.force_post /\ l.then = "idle"
  BY SMTT(20), IdleFields, AtFields, SMTT(30) DEF Labels
<1> HIDE DEF l
<1>6. LocalInv(t, l)
  BY <1>5 DEF LocalInv, Posting, PostsOwn, Draining, PostSteps
<1>7. SameStanding(k, l) /\ (HoldsLock(l) <=> HoldsLock(k)) /\ NoneWaitsFor(l)
  BY Zenon, <1>1, <1>3, <1>5
  DEF SameStanding, HoldsLock, NoneWaitsFor, TookFront, Draining, Posting, PostsOwn,
      PostsData, Freeing, PostSteps
<1>8. /\ local'[t] = l
      /\ \A u \in Threads : u # t => local'[u] = local[u]
  BY <1>1, <1>4, <1>5, LocalStep
<1>9. ASSUME NEW r \in Ranks
      PROVE  /\ EntriesOf(r)' = EntriesOf(r) /\ PushersOf(r)' = PushersOf(r)
             /\ PoppersOf(r)' = IF r = q THEN PoppersOf(r) \ {t} ELSE PoppersOf(r)
             /\ r = q => t \in PoppersOf(r)
  BY Zenon, <1>1, <1>2, <1>5, <1>8 DEF EntriesOf, PoppersOf, PushersOf
<1>10. ASSUME NEW r \in Ranks
       PROVE  Cardinality(PoppersOf(r))' = Cardinality(PoppersOf(r)) - IF r = q THEN 1 ELSE 0
  BY <1>1, <1>9, RemoveOne, BacklogFinite
<1>11. ASSUME NEW r \in Ranks
       PROVE  nentries[r] = Cardinality(EntriesOf(r)) + Cardinality(PushersOf(r))
                            + Cardinality(PoppersOf(r))
  BY DEF EndpointIInv, BacklogCounted
<1>12. Cardinality(PoppersOf(q)) \in Nat \ {0}
  BY Zenon, <1>1, <1>3, <1>9, BacklogFinite, FS_EmptySet
<1>13. nentries[q] \in Nat \ {0}
  BY <1>1, <1>3, <1>11, <1>12, BacklogFinite
<1>14. nentries' \in [Ranks -> Nat]
  BY <1>1, <1>2, <1>3, <1>13
<1>15. BacklogCounted'
  <2>1. ASSUME NEW r \in Ranks
        PROVE  nentries'[r] = nentries[r] - IF r = q THEN 1 ELSE 0
    BY <1>1, <1>2
  <2>2. ASSUME NEW r \in Ranks
        PROVE  nentries'[r] = Cardinality(EntriesOf(r))' + Cardinality(PushersOf(r))'
                              + Cardinality(PoppersOf(r))'
    BY SMTT(20), <1>1, <1>9, <1>10, <1>11, <2>1, BacklogFinite, SMTT(30)
  <2> QED BY <2>2 DEF BacklogCounted
<1>16. LockInv'
  BY <1>1, <1>2, <1>4, <1>5, <1>7, LockStep DEF EndpointIInv
<1>17. lock' \in Threads \cup {NoThread}
  BY <1>1, <1>2 DEF TypeInv
<1> QED BY Zenon, <1>2, <1>4, <1>5, <1>6, <1>7, <1>14, <1>15, <1>16, <1>17, QuietStep

\* push_* takes the lock: the thread is not the one that drains the queue.
LEMMA PushLockInv ==
  ASSUME EndpointIInv, NEW t \in Threads, PushLock(t)
  PROVE  EndpointIInv'
<1> DEFINE k == local[t]
           l == At(k, "push")
<1> USE DEF pc, item
<1>1. /\ TypeInv /\ LocalInv(t, k) /\ k \in Locals /\ local \in [Threads -> Locals]
      /\ k.pc = "push_lock" /\ nentries \in [Ranks -> Nat]
  BY DEF EndpointIInv, TypeInv, PushLock
<1>2. /\ UNCHANGED <<nentries, empty, backlog_queue, pending_ops, wire, inflight, posts>>
      /\ lock = NoThread /\ lock' = t
  BY Zenon DEF PushLock
<1>3. Posting(k) /\ k.item \in Items
  BY Zenon, <1>1 DEF LocalInv, Posting, PostSteps
<1>4. Become(t, l)
  BY <1>1, GotoBecomes DEF PushLock, Labels
<1>5. /\ l \in Locals /\ l.pc = "push"
      /\ l.item = k.item /\ l.allow_retry = k.allow_retry
      /\ l.force_post = k.force_post /\ l.then = k.then /\ l.seen = k.seen
  BY <1>1, AtFields DEF Labels
<1> HIDE DEF l
<1>6. k.then # "pop"
  <2>1. lock # t
    BY <1>2, EndpointConstants DEF EndpointAssumption
  <2> QED BY <1>1, <2>1 DEF EndpointIInv, LockInv, HoldsLock, Draining
<1>7. LocalInv(t, l)
  BY Zenon, <1>1, <1>3, <1>5, <1>6 DEF LocalInv, Posting, PostsOwn, Draining, PostSteps, Quiet
<1>8. SameStanding(k, l) /\ HoldsLock(l) /\ NoneWaitsFor(l)
  BY Zenon, <1>1, <1>3, <1>5
  DEF SameStanding, HoldsLock, NoneWaitsFor, TookFront, Draining, Posting, PostsOwn,
      PostsData, Freeing, PostSteps
<1>9. BacklogCounted'
  BY <1>1, <1>2, <1>4, <1>5, CountStep DEF EndpointIInv
<1>10. LockInv'
  BY <1>1, <1>2, <1>4, <1>5, <1>8, LockTaken DEF EndpointIInv
<1> QED BY <1>1, <1>2, <1>4, <1>5, <1>7, <1>8, <1>9, <1>10, QuietStep

LEMMA TryLockInv ==
  ASSUME EndpointIInv, NEW t \in Threads, TryLock(t)
  PROVE  EndpointIInv'
<1> DEFINE k == local[t]
           l == At(k, "front")
<1> USE DEF pc, item
<1>1. /\ TypeInv /\ LocalInv(t, k) /\ k \in Locals /\ local \in [Threads -> Locals]
      /\ k.pc = "try_lock" /\ nentries \in [Ranks -> Nat]
      /\ UNCHANGED <<nentries, empty, backlog_queue, pending_ops, wire, inflight, posts>>
  BY DEF EndpointIInv, TypeInv, TryLock
<1>2. CASE lock # NoThread
  BY <1>1, <1>2, GotoQuiet DEF TryLock, Quiet
<1>3. CASE lock = NoThread
  <2>1. lock' = t /\ Become(t, l)
    BY <1>1, <1>3, GotoBecomes DEF TryLock, Labels
  <2>2. /\ l \in Locals /\ l.pc = "front"
        /\ l.item = k.item /\ l.force_post = k.force_post /\ l.then = k.then
    BY <1>1, AtFields DEF Labels
  <2> HIDE DEF l
  <2>3. k.then = "idle" /\ ~k.force_post
    BY Zenon, <1>1 DEF LocalInv, Quiet
  <2>4. LocalInv(t, l)
    BY <2>2, <2>3 DEF LocalInv, Posting, PostsOwn, Draining, PostSteps
  <2>5. SameStanding(k, l) /\ HoldsLock(l) /\ NoneWaitsFor(l)
    BY Zenon, <1>1, <2>2, <2>3
    DEF SameStanding, HoldsLock, NoneWaitsFor, TookFront, Draining, Posting, PostsOwn,
        PostsData, Freeing, PostSteps
  <2>6. BacklogCounted'
    BY <1>1, <2>1, <2>2, CountStep DEF EndpointIInv
  <2>7. LockInv'
    BY <1>1, <1>3, <2>1, <2>2, <2>5, LockTaken DEF EndpointIInv
  <2> QED BY <1>1, <2>1, <2>2, <2>4, <2>5, <2>6, <2>7, QuietStep
<1> QED BY <1>2, <1>3

LEMMA PostFrontInv ==
  ASSUME EndpointIInv, NEW t \in Threads, PostFront(t)
  PROVE  EndpointIInv'
<1> DEFINE k == local[t]
<1> USE DEF pc, item
<1>1. /\ TypeInv /\ LocalInv(t, k) /\ k \in Locals /\ local \in [Threads -> Locals]
      /\ k.pc = "front" /\ nentries \in [Ranks -> Nat]
      /\ UNCHANGED <<nentries, backlog_queue, pending_ops, wire, inflight, posts>>
  BY DEF EndpointIInv, TypeInv, PostFront
<1>2. k.then = "idle" /\ ~k.force_post
  BY Zenon, <1>1 DEF LocalInv, Quiet
<1>3. CASE backlog_queue = <<>>
  <2> DEFINE l == At(k, "poll")
  <2>1. Become(t, l) /\ lock' = NoThread
    BY <1>1, <1>3, GotoBecomes DEF PostFront, Labels
  <2>2. empty' = empty
    BY <1>1, <1>3 DEF PostFront, EndpointIInv, FlagInv, TypeInv
  <2>3. /\ l \in Locals /\ l.pc = "poll"
        /\ l.item = k.item /\ l.force_post = k.force_post /\ l.then = k.then
    BY <1>1, AtFields DEF Labels
  <2> HIDE DEF l
  <2>4. LocalInv(t, l)
    BY Zenon, <1>2, <2>3 DEF LocalInv, Posting, PostsOwn, Draining, PostSteps
  <2>5. SameStanding(k, l) /\ HoldsLock(k) /\ ~HoldsLock(l) /\ NoneWaitsFor(l)
    BY Zenon, <1>1, <1>2, <2>3
    DEF SameStanding, HoldsLock, NoneWaitsFor, TookFront, Draining, Posting, PostsOwn,
        PostsData, Freeing, PostSteps
  <2>6. BacklogCounted'
    BY <1>1, <2>1, <2>3, CountStep DEF EndpointIInv
  <2>7. LockInv'
    BY <1>1, <2>1, <2>3, <2>5, LockFreed DEF EndpointIInv
  <2> QED BY <1>1, <2>1, <2>2, <2>3, <2>4, <2>5, <2>6, <2>7, QuietStep
<1>4. CASE backlog_queue # <<>>
  <2> DEFINE it == Head(backlog_queue)
             l == Call(it, TRUE, TRUE, "pop")
  <2>1. Become(t, l) /\ UNCHANGED <<empty, lock>>
    BY Zenon, <1>4, PostBecomes DEF PostFront
  <2>2. it \in Items
    BY <1>1, <1>4 DEF TypeInv
  <2>3. /\ l \in Locals /\ l.pc = "impl"
        /\ l.item = it /\ l.allow_retry /\ l.force_post /\ l.then = "pop"
    BY Zenon, <2>2 DEF Call, Idle, Locals, Labels, Seen
  <2> HIDE DEF l
  <2>4. LocalInv(t, l)
    BY Zenon, <1>4, <2>2, <2>3 DEF LocalInv, Posting, PostsOwn, Draining, PostSteps, Quiet
  <2>5. SameStanding(k, l) /\ HoldsLock(k) /\ HoldsLock(l) /\ NoneWaitsFor(l)
    BY Zenon, <1>1, <1>2, <2>3
    DEF SameStanding, HoldsLock, NoneWaitsFor, TookFront, Draining, Posting, PostsOwn,
        PostsData, Freeing, PostSteps
  <2>6. l.pc \notin {"push_lock", "push", "uncount"}
        /\ k.pc \notin {"push_lock", "push", "uncount"}
    BY <1>1, <2>3
  <2> QED BY <1>1, <2>1, <2>3, <2>4, <2>5, <2>6, SilentStep
<1> QED BY <1>3, <1>4

LEMMA GiveUpInv ==
  ASSUME EndpointIInv, NEW t \in Threads, GiveUp(t)
  PROVE  EndpointIInv'
<1> DEFINE k == local[t]
           l == At(Idle, "poll")
<1> USE DEF pc, item
<1>1. /\ TypeInv /\ LocalInv(t, k) /\ k \in Locals /\ local \in [Threads -> Locals]
      /\ k.pc = "give_up" /\ nentries \in [Ranks -> Nat] /\ lock' = NoThread
      /\ UNCHANGED <<nentries, empty, backlog_queue, pending_ops, wire, inflight, posts>>
  BY DEF EndpointIInv, TypeInv, GiveUp
<1>2. k.then = "pop" /\ k.force_post
  BY Zenon, <1>1 DEF LocalInv
<1>3. Become(t, l)
  BY DEF GiveUp, Become, At
<1>4. l \in Locals /\ l.pc = "poll" /\ ~l.force_post /\ l.then = "idle"
  BY IdleFields, AtFields DEF Labels
<1> HIDE DEF l
<1>5. LocalInv(t, l)
  BY Zenon, <1>4 DEF LocalInv, Posting, PostsOwn, Draining, PostSteps
<1>6. SameStanding(k, l) /\ HoldsLock(k) /\ ~HoldsLock(l) /\ NoneWaitsFor(l)
  BY Zenon, <1>1, <1>2, <1>4
  DEF SameStanding, HoldsLock, NoneWaitsFor, TookFront, Draining, Posting, PostsOwn,
      PostsData, Freeing, PostSteps
<1>7. BacklogCounted'
  BY <1>1, <1>3, <1>4, CountStep DEF EndpointIInv
<1>8. LockInv'
  BY <1>1, <1>3, <1>4, <1>6, LockFreed DEF EndpointIInv
<1> QED BY <1>1, <1>3, <1>4, <1>5, <1>6, <1>7, <1>8, QuietStep

\* Something is pending when one of the counts is not zero.
LEMMA SomePending ==
  ASSUME TypeInv, PendingCounted, PostingData # {} \/ FreeingThreads # {}
  PROVE  pending_ops - 1 \in Nat
<1>1. /\ Cardinality(PostingData) \in Nat /\ Cardinality(Unposted) \in Nat
      /\ Cardinality(InflightData) \in Nat /\ Cardinality(FreeingThreads) \in Nat
  BY PendingFinite
<1>2. pending_ops = Cardinality(PostingData) + Cardinality(Unposted)
                    + Cardinality(InflightData) + Cardinality(FreeingThreads)
  BY DEF PendingCounted
<1>3. Cardinality(PostingData) # 0 \/ Cardinality(FreeingThreads) # 0
  BY PendingFinite, FS_EmptySet
<1> QED BY <1>1, <1>2, <1>3

\* A step that touches no queue and keeps all but the counts of pending ones.
LEMMA ContextStep ==
  ASSUME EndpointIInv, NEW t \in Threads, NEW l \in Locals, Become(t, l),
         UNCHANGED <<nentries, empty, lock, backlog_queue, wire, posts>>,
         inflight' \subseteq inflight, pending_ops' \in Nat, PendingCounted',
         LocalInv(t, l), NoneWaitsFor(l),
         ~TookFront(l) /\ ~TookFront(local[t]), ~HoldsLock(l) /\ ~HoldsLock(local[t]),
         ~PostsOwn(l), Posting(l) => l.item.part = "imm",
         {l.pc, pc(t)} \cap {"push_lock", "push", "uncount", "drained"} = {}
  PROVE  EndpointIInv'
<1> USE DEF EndpointIInv
<1>1. TypeInv'
  BY Zenon, LocalStep, FS_Subset DEF TypeInv
<1>2. \A u \in Threads : LocalInv(u, local[u])'
  BY Zenon, OthersStep
<1>3. FlagInv'
  BY DEF FlagInv
<1>4. OrderInv'
  BY Zenon, OrderStep
<1>5. BacklogCounted'
  BY Zenon, CountStep DEF pc
<1>6. LockInv'
  BY Zenon, LockStep
<1>7. DrainInv'
  BY Zenon, DrainStep DEF pc
<1> QED BY Zenon, <1>1, <1>2, <1>3, <1>4, <1>5, <1>6, <1>7

LEMMA DiscardInv ==
  ASSUME EndpointIInv, NEW t \in Threads, Discard(t)
  PROVE  EndpointIInv'
<1> DEFINE k == local[t]
<1> USE DEF pc
<1>1. /\ TypeInv /\ LocalInv(t, k) /\ k \in Locals /\ local \in [Threads -> Locals]
      /\ k.pc = "discard" /\ pending_ops \in Nat /\ pending_ops' = pending_ops - 1
      /\ UNCHANGED <<nentries, empty, lock, backlog_queue, wire, inflight, posts>>
  BY DEF EndpointIInv, TypeInv, Discard
<1>2. k.then = "idle" /\ k.item.part = "data"
  BY Zenon, <1>1 DEF LocalInv
<1>3. Become(t, Idle)
  BY Zenon, ReturnBecomes DEF Discard
<1>4. LocalInv(t, Idle)
  BY Zenon, IdleFields DEF LocalInv, Posting, PostsOwn, Draining, PostSteps
<1>5. /\ ~TookFront(Idle) /\ ~TookFront(k) /\ ~HoldsLock(Idle) /\ ~HoldsLock(k)
      /\ ~PostsOwn(Idle) /\ NoneWaitsFor(Idle) /\ ~Posting(Idle)
      /\ ~PostsData(Idle) /\ PostsData(k) /\ ~Freeing(Idle) /\ ~Freeing(k)
  BY Zenon, <1>1, <1>2, IdleFields
  DEF HoldsLock, NoneWaitsFor, TookFront, Draining, Posting, PostsOwn, PostsData,
      Freeing, PostSteps
<1>6. /\ local'[t] = Idle
      /\ \A u \in Threads : u # t => local'[u] = local[u]
  BY Zenon, <1>1, <1>3, IdleFields, LocalStep
<1>7. PostingData' = PostingData \ {t} /\ t \in PostingData
  BY Zenon, <1>5, <1>6 DEF PostingData
<1>8. FreeingThreads' = FreeingThreads
  BY Zenon, <1>5, <1>6 DEF FreeingThreads
<1>9. FrontTaken' <=> FrontTaken
  BY Zenon, <1>1, <1>3, <1>5, IdleFields, FrontStep
<1>10. Unposted' = Unposted /\ InflightData' = InflightData
  BY <1>1, <1>9 DEF Unposted, InflightData
<1>11. Cardinality(PostingData)' = Cardinality(PostingData) + -1
  BY <1>1, <1>7, RemoveOne, PendingFinite
<1>12. PendingCounted' /\ pending_ops' \in Nat
  <2>1. /\ Cardinality(Unposted)' = Cardinality(Unposted) + 0
        /\ Cardinality(InflightData)' = Cardinality(InflightData) + 0
        /\ Cardinality(FreeingThreads)' = Cardinality(FreeingThreads) + 0
    BY <1>1, <1>8, <1>10, PendingFinite
  <2>2. pending_ops' = pending_ops + -1 + 0 + 0 + 0
    BY <1>1
  <2>3. PendingCounted'
    BY <1>1, <1>11, <2>1, <2>2, PendingMove DEF EndpointIInv
  <2>4. pending_ops' \in Nat
    BY <1>1, <1>7, SomePending DEF EndpointIInv
  <2> QED BY <2>3, <2>4
<1>13. {Idle.pc, k.pc} \cap {"push_lock", "push", "uncount", "drained"} = {}
  BY <1>1, IdleFields
<1> QED BY Zenon, <1>1, <1>3, <1>4, <1>5, <1>12, <1>13, IdleFields, ContextStep

LEMMA FreeCtxInv ==
  ASSUME EndpointIInv, NEW t \in Threads, FreeCtx(t)
  PROVE  EndpointIInv'
<1> DEFINE k == local[t]
           l == At(Idle, "poll")
<1> USE DEF pc
<1>1. /\ TypeInv /\ LocalInv(t, k) /\ k \in Locals /\ local \in [Threads -> Locals]
      /\ k.pc = "free" /\ pending_ops \in Nat /\ pending_ops' = pending_ops - 1
      /\ UNCHANGED <<nentries, empty, lock, backlog_queue, wire, inflight, posts>>
  BY DEF EndpointIInv, TypeInv, FreeCtx
<1>2. k.then # "pop"
  BY Zenon, <1>1 DEF LocalInv
<1>3. Become(t, l)
  BY DEF FreeCtx, Become, At
<1>4. l \in Locals /\ l.pc = "poll" /\ ~l.force_post /\ l.then = "idle"
  BY IdleFields, AtFields DEF Labels
<1> HIDE DEF l
<1>5. LocalInv(t, l)
  BY Zenon, <1>4 DEF LocalInv, Posting, PostsOwn, Draining, PostSteps
<1>6. /\ ~TookFront(l) /\ ~TookFront(k) /\ ~HoldsLock(l) /\ ~HoldsLock(k)
      /\ ~PostsOwn(l) /\ NoneWaitsFor(l) /\ ~Posting(l)
      /\ ~PostsData(l) /\ ~PostsData(k) /\ ~Freeing(l) /\ Freeing(k)
  BY Zenon, <1>1, <1>2, <1>4
  DEF HoldsLock, NoneWaitsFor, TookFront, Draining, Posting, PostsOwn, PostsData,
      Freeing, PostSteps
<1>7. /\ local'[t] = l
      /\ \A u \in Threads : u # t => local'[u] = local[u]
  BY <1>1, <1>3, <1>4, LocalStep
<1>8. FreeingThreads' = FreeingThreads \ {t} /\ t \in FreeingThreads
  BY Zenon, <1>6, <1>7 DEF FreeingThreads
<1>9. PostingData' = PostingData
  BY Zenon, <1>6, <1>7 DEF PostingData
<1>10. FrontTaken' <=> FrontTaken
  BY <1>1, <1>3, <1>4, <1>6, FrontStep
<1>11. Unposted' = Unposted /\ InflightData' = InflightData
  BY Zenon, <1>1, <1>10 DEF Unposted, InflightData
<1>12. Cardinality(FreeingThreads)' = Cardinality(FreeingThreads) + -1
  BY <1>1, <1>8, RemoveOne, PendingFinite
<1>13. PendingCounted' /\ pending_ops' \in Nat
  <2>1. /\ Cardinality(Unposted)' = Cardinality(Unposted) + 0
        /\ Cardinality(InflightData)' = Cardinality(InflightData) + 0
        /\ Cardinality(PostingData)' = Cardinality(PostingData) + 0
    BY <1>1, <1>9, <1>11, PendingFinite
  <2>2. pending_ops' = pending_ops + 0 + 0 + 0 + -1
    BY <1>1
  <2>3. PendingCounted'
    BY <1>1, <1>12, <2>1, <2>2, PendingMove DEF EndpointIInv
  <2>4. pending_ops' \in Nat
    BY <1>1, <1>8, SomePending DEF EndpointIInv
  <2> QED BY <2>3, <2>4
<1>14. {l.pc, k.pc} \cap {"push_lock", "push", "uncount", "drained"} = {}
  BY <1>1, <1>4
<1> QED BY Zenon, <1>1, <1>3, <1>4, <1>5, <1>6, <1>13, <1>14, ContextStep

\* What the device has or had is no newer than what was posted.
LEMMA TakenOlder ==
  ASSUME TypeInv, OrderInv, NEW r \in Ranks, NEW a \in Taken(r)
  PROVE  a \in Items /\ Older(a)
<1>1. wire[r] \in Seq(Items)
  BY DEF TypeInv
<1>2. PICK i \in 1 .. Len(wire[r]) : a = wire[r][i]
  BY <1>1 DEF Taken, Range
<1> QED BY <1>1, <1>2 DEF OrderInv, OwnLast

LEMMA PollCompInv ==
  ASSUME EndpointIInv, NEW t \in Threads, PollComp(t)
  PROVE  EndpointIInv'
<1> DEFINE k == local[t]
<1> USE DEF pc
<1>1. /\ TypeInv /\ LocalInv(t, k) /\ k \in Locals /\ local \in [Threads -> Locals]
      /\ k.pc = "poll" /\ pending_ops \in Nat
      /\ UNCHANGED <<nentries, empty, lock, backlog_queue, pending_ops, wire, posts>>
  BY DEF EndpointIInv, TypeInv, PollComp
<1>2. PICK it \in inflight :
         /\ inflight' = inflight \ {it}
         /\ CASE it.part = "imm" -> UNCHANGED local
              [] Fallback(it) /\ it.kind = "putImm" ->
                   Post(t, Imm(it), FALSE, FALSE, "free")
              [] OTHER -> Goto(t, "free")
  BY Zenon DEF PollComp
<1>3. it \in Items /\ it \in Taken(it.rank) /\ it.rank \in Ranks /\ it.part \in {"data", "imm"}
  BY Zenon, <1>1, ItemFields DEF TypeInv, EndpointIInv, OrderInv
<1>4. Older(it)
  BY <1>1, <1>3, TakenOlder DEF EndpointIInv
<1>5. k.then = "idle" /\ ~k.force_post
  BY Zenon, <1>1 DEF LocalInv, Quiet
<1>6. /\ ~TookFront(k) /\ ~HoldsLock(k) /\ ~PostsOwn(k) /\ ~PostsData(k) /\ ~Freeing(k)
      /\ NoneWaitsFor(k) /\ ~Posting(k)
  BY Zenon, <1>1, <1>5
  DEF HoldsLock, NoneWaitsFor, TookFront, Draining, Posting, PostsOwn, PostsData,
      Freeing, PostSteps
<1>7. ASSUME it.part = "imm"
      PROVE  EndpointIInv'
  <2>1. local' = local
    BY <1>2, <1>7 DEF Fallback
  <2>2. Become(t, k)
    BY <1>1, <2>1 DEF Become
  <2>3. InflightData' = InflightData
    BY <1>2, <1>7 DEF InflightData
  <2>4. PendingCounted'
    BY <1>1, <2>1, <2>3
    DEF EndpointIInv, PendingCounted, PostingData, FreeingThreads, Unposted, FrontTaken
  <2>5. {k.pc} \cap {"push_lock", "push", "uncount", "drained"} = {}
    BY <1>1
  <2> QED BY <1>1, <1>2, <1>6, <2>2, <2>4, <2>5, ContextStep
<1>8. ASSUME it.part = "data", NEW l \in Locals, Become(t, l), LocalInv(t, l),
             ~TookFront(l), ~HoldsLock(l), ~PostsOwn(l), Posting(l) => l.item.part = "imm",
             NoneWaitsFor(l), ~PostsData(l), Freeing(l), l.pc \in {"check", "free"}
      PROVE  EndpointIInv'
  <2>1. /\ local'[t] = l
        /\ \A u \in Threads : u # t => local'[u] = local[u]
    BY Zenon, <1>1, <1>8, LocalStep
  <2>2. FreeingThreads' = FreeingThreads \cup {t} /\ t \notin FreeingThreads
    BY Zenon, <1>6, <1>8, <2>1 DEF FreeingThreads
  <2>3. PostingData' = PostingData
    BY Zenon, <1>6, <1>8, <2>1 DEF PostingData
  <2>4. FrontTaken' <=> FrontTaken
    BY Zenon, <1>1, <1>6, <1>8, FrontStep
  <2>5. Unposted' = Unposted
    BY Zenon, <1>1, <2>4 DEF Unposted
  <2>6. InflightData' = InflightData \ {it} /\ it \in InflightData
    BY <1>2, <1>8 DEF InflightData
  <2>7. /\ Cardinality(InflightData)' = Cardinality(InflightData) + -1
        /\ Cardinality(FreeingThreads)' = Cardinality(FreeingThreads) + 1
    BY <1>1, <2>2, <2>6, AddOne, RemoveOne, PendingFinite
  <2>8. /\ Cardinality(Unposted)' = Cardinality(Unposted) + 0
        /\ Cardinality(PostingData)' = Cardinality(PostingData) + 0
    BY <1>1, <2>3, <2>5, PendingFinite
  <2>9. pending_ops' = pending_ops + 0 + 0 + -1 + 1
    BY <1>1
  <2>10. PendingCounted'
    BY <1>1, <2>7, <2>8, <2>9, PendingMove DEF EndpointIInv
  <2>11. {l.pc, k.pc} \cap {"push_lock", "push", "uncount", "drained"} = {}
    BY Zenon, <1>1, <1>8
  <2> QED BY <1>1, <1>2, <1>6, <1>8, <2>10, <2>11, ContextStep
<1>9. CASE it.part = "data" /\ Fallback(it) /\ it.kind = "putImm"
  <2> DEFINE im == Imm(it)
             l == Call(im, FALSE, FALSE, "free")
  <2>1. /\ im \in Items /\ im.part = "imm" /\ im.kind = "putImm"
        /\ im.number = it.number /\ im.thread = it.thread
    BY <1>3, <1>9 DEF Imm, Items
  <2>2. Become(t, l)
    BY Zenon, <1>2, <1>9, PostBecomes
  <2> HIDE DEF im
  <2>3. /\ l \in Locals /\ l.pc = "check" /\ l.item = im /\ ~l.allow_retry
        /\ ~l.force_post /\ l.then = "free"
    BY Zenon, <2>1 DEF Call, Idle, Locals, Labels, Seen
  <2> HIDE DEF l
  <2>4. Deferred(l.item) /\ l.item.number <= posts[l.item.thread]
    BY Zenon, <1>4, <2>1, <2>3 DEF Deferred, Older
  <2>5. LocalInv(t, l)
    BY Zenon, <2>1, <2>3, <2>4 DEF LocalInv, Posting, PostsOwn, Draining, PostSteps, Quiet
  <2>6. /\ ~TookFront(l) /\ ~HoldsLock(l) /\ ~PostsOwn(l) /\ l.item.part = "imm"
        /\ NoneWaitsFor(l) /\ ~PostsData(l) /\ Freeing(l)
    BY Zenon, <2>1, <2>3
    DEF HoldsLock, NoneWaitsFor, TookFront, Draining, Posting, PostsOwn, PostsData,
        Freeing, PostSteps
  <2> QED BY Zenon, <1>8, <1>9, <2>2, <2>3, <2>5, <2>6
<1>10. CASE it.part = "data" /\ ~(Fallback(it) /\ it.kind = "putImm")
  <2> DEFINE l == At(k, "free")
  <2>1. Become(t, l)
    BY Zenon, <1>1, <1>2, <1>10, GotoBecomes DEF Labels
  <2>2. /\ l \in Locals /\ l.pc = "free" /\ l.force_post = k.force_post /\ l.then = k.then
    BY <1>1, AtFields DEF Labels
  <2> HIDE DEF l
  <2>3. LocalInv(t, l)
    BY Zenon, <1>5, <2>2 DEF LocalInv, Posting, PostsOwn, Draining, PostSteps, Quiet
  <2>4. /\ ~TookFront(l) /\ ~HoldsLock(l) /\ ~PostsOwn(l) /\ ~Posting(l)
        /\ NoneWaitsFor(l) /\ ~PostsData(l) /\ Freeing(l)
    BY Zenon, <1>5, <2>2
    DEF HoldsLock, NoneWaitsFor, TookFront, Draining, Posting, PostsOwn, PostsData,
        Freeing, PostSteps
  <2> QED BY Zenon, <1>8, <1>10, <2>1, <2>2, <2>3, <2>4
<1> QED BY <1>3, <1>7, <1>9, <1>10

-----------------------------------------------------------------------------
(* post_comm: a new operation, newer than all of its thread. *)

LEMMA PostCommInv ==
  ASSUME EndpointIInv, NEW t \in Threads, NEW kind \in Kinds, NEW r \in Targets,
         NEW allow_retry \in BOOLEAN, PostComm(t, kind, r, allow_retry)
  PROVE  EndpointIInv'
<1> DEFINE k == local[t]
           it == [thread |-> t, number |-> posts[t] + 1, kind |-> kind,
                  rank |-> r, part |-> "data"]
           call == Call(it, allow_retry, FALSE, "idle")
<1> USE DEF pc
<1>1. /\ TypeInv /\ LocalInv(t, k) /\ k \in Locals /\ local \in [Threads -> Locals]
      /\ k.pc = "idle" /\ pending_ops \in Nat /\ t \in Posters
      /\ posts \in [Threads -> 0 .. MaxPosts] /\ posts[t] < MaxPosts
      /\ posts' = [posts EXCEPT ![t] = @ + 1] /\ pending_ops' = pending_ops + 1
      /\ UNCHANGED <<nentries, empty, lock, backlog_queue, wire, inflight>>
  BY Zenon DEF EndpointIInv, TypeInv, PostComm
<1>2. MaxPosts \in Nat /\ r \in Ranks
  BY EndpointConstants DEF EndpointAssumption
<1>3. posts[t] \in Nat /\ posts[t] + 1 \in 1 .. MaxPosts
  BY <1>1, <1>2
<1>4. it \in Items
  BY Zenon, <1>1, <1>2, <1>3 DEF Items
<1>5. it.thread = t /\ it.number = posts[t] + 1 /\ it.part = "data"
  BY Zenon
<1>6. Become(t, call)
  BY Zenon, PostBecomes DEF PostComm
<1> HIDE DEF it
<1>7. PICK l \in Locals :
        /\ Become(t, l) /\ l.pc = "check" /\ l.item = it /\ l.allow_retry = allow_retry
        /\ ~l.force_post /\ l.then = "idle"
  <2>1. /\ call \in Locals /\ call.pc = "check" /\ call.item = it
        /\ call.allow_retry = allow_retry /\ ~call.force_post /\ call.then = "idle"
    BY Zenon, <1>4 DEF Call, Idle, Locals, Labels, Seen
  <2> HIDE DEF call
  <2> QED BY <1>6, <2>1
<1>8. k.then = "idle" /\ ~k.force_post
  BY Zenon, <1>1 DEF LocalInv, Quiet
<1>9. /\ ~TookFront(k) /\ ~TookFront(l) /\ ~HoldsLock(k) /\ ~HoldsLock(l)
      /\ ~PostsData(k) /\ PostsData(l) /\ ~Freeing(k) /\ ~Freeing(l)
      /\ PostsOwn(l) /\ Posting(l)
  BY Zenon, <1>1, <1>5, <1>7, <1>8
  DEF HoldsLock, TookFront, Draining, Posting, PostsOwn, PostsData, Freeing, PostSteps
<1>10. /\ local'[t] = l
       /\ \A u \in Threads : u # t => local'[u] = local[u]
  BY Zenon, <1>1, <1>7, LocalStep
<1>11. /\ posts'[t] = posts[t] + 1
       /\ \A u \in Threads : posts'[u] \in Nat /\ posts[u] \in Nat /\ posts[u] <= posts'[u]
       /\ \A u \in Threads : u # t => posts'[u] = posts[u]
  BY <1>1, <1>2
<1>12. TypeInv'
  <2>1. posts' \in [Threads -> 0 .. MaxPosts]
    BY <1>1, <1>2, <1>3
  <2>2. local' \in [Threads -> Locals]
    BY Zenon, <1>1, <1>7, LocalStep
  <2>3. pending_ops' \in Nat
    BY <1>1
  <2> QED BY Zenon, <1>1, <2>1, <2>2, <2>3 DEF TypeInv
<1>13. LocalInv(t, l)'
  BY Zenon, <1>1, <1>4, <1>5, <1>7, <1>11
  DEF LocalInv, Posting, PostsOwn, Draining, PostSteps, Quiet, Deferred
<1>14. ASSUME NEW u \in Threads, u # t
       PROVE  LocalInv(u, local[u])'
  <2>1. PICK m \in Locals : LocalInv(u, m) /\ local'[u] = m
    BY Zenon, <1>1, <1>10, <1>14 DEF EndpointIInv
  <2>2. Posting(m) /\ m.then = "free" => m.item.number <= posts'[m.item.thread]
    <3> SUFFICES ASSUME Posting(m), m.then = "free"
                 PROVE  m.item.number <= posts'[m.item.thread]
      BY Zenon
    <3>1. m.item \in Items /\ m.item.number <= posts[m.item.thread]
      BY Zenon, <2>1 DEF LocalInv, Posting
    <3>2. m.item.thread \in Threads /\ m.item.number \in Nat
      BY Zenon, <3>1, ItemFields
    <3> QED BY <3>1, <3>2, <1>11
  <2>3. m.pc \in {"drain_pending", "drained"} =>
          m.seen \in [Threads -> Nat] /\ \A w \in Threads : m.seen[w] <= posts'[w]
    <3> SUFFICES ASSUME m.pc \in {"drain_pending", "drained"}
                 PROVE  m.seen \in [Threads -> Nat] /\ \A w \in Threads : m.seen[w] <= posts'[w]
      BY Zenon
    <3>1. m.seen \in [Threads -> Nat] /\ \A w \in Threads : m.seen[w] <= posts[w]
      BY Zenon, <2>1 DEF LocalInv
    <3>2. ASSUME NEW w \in Threads
          PROVE  m.seen[w] <= posts'[w]
      <4>1. m.seen[w] \in Nat /\ m.seen[w] <= posts[w]
        BY Zenon, <3>1
      <4>2. posts'[w] \in Nat /\ posts[w] \in Nat /\ posts[w] <= posts'[w]
        BY <1>11
      <4> HIDE DEF k, call
      <4> QED BY SMTT(20), <4>1, <4>2
    <3> QED BY Zenon, <3>1, <3>2
  <2>4. PostsOwn(m) => m.item.number = posts'[u]
    BY Zenon, <2>1, <1>11, <1>14 DEF LocalInv
  <2>5. LocalInv(u, m)'
    BY Zenon, <1>1, <2>1, <2>2, <2>3, <2>4 DEF LocalInv
  <2> QED BY <2>1, <2>5
<1>15. FrontTaken' <=> FrontTaken
  BY Zenon, <1>1, <1>7, <1>9, FrontStep
<1>16. OrderInv'
  <2> HIDE DEF k, call
  <2>a. wire' = wire /\ backlog_queue' = backlog_queue /\ OrderInv
    BY <1>1 DEF EndpointIInv
  <2>b. InOrder'
    BY Zenon, <2>a DEF OrderInv, InOrder
  <2>c. QueueOrder'
    BY Zenon, <2>a DEF OrderInv, QueueOrder
  <2>d. WireFirst'
    BY <2>a, <1>15 DEF OrderInv, WireFirst
  <2>1. InOrder' /\ QueueOrder' /\ WireFirst'
    BY <2>b, <2>c, <2>d
  <2>2. ASSUME NEW a \in Items, Older(a)
        PROVE  Older(a)'
    <3>1. a.thread \in Threads /\ a.number \in Nat
      BY ItemFields
    <3>a. a.number <= posts[a.thread]
      BY Zenon, <2>2 DEF Older
    <3>b. /\ posts'[a.thread] \in Nat /\ posts[a.thread] \in Nat
          /\ posts[a.thread] <= posts'[a.thread]
      BY Zenon, <1>11, <3>1
    <3>2. a.number <= posts'[a.thread]
      BY <3>1, <3>a, <3>b
    <3>3. CASE a.thread = t
      <4>1. a.number < posts[t] + 1
        BY <1>3, <3>a, <3>1, <3>3
      <4> QED BY Zenon, <1>5, <1>7, <1>10, <3>2, <3>3, <4>1 DEF Older, Before
    <3>4. CASE a.thread # t
      BY Zenon, <1>10, <2>2, <3>1, <3>2, <3>4 DEF Older
    <3> QED BY <3>3, <3>4
  <2>3. OwnLast'
    <3>1. OwnLast
      BY Zenon, <2>a DEF OrderInv
    <3>2. wire \in [Ranks -> Seq(Items)] /\ backlog_queue \in Seq(Items)
      BY <1>1 DEF TypeInv
    <3>3. ASSUME NEW x \in Ranks, NEW i \in 1 .. Len(wire[x])
          PROVE  Older(wire[x][i])'
      <4>1. wire[x] \in Seq(Items)
        BY <3>2
      <4>2. wire[x][i] \in Items
        BY <4>1
      <4>3. Older(wire[x][i])
        BY Zenon, <3>1 DEF OwnLast
      <4> QED BY Zenon, <2>a, <2>2, <4>2, <4>3
    <3>4. ASSUME NEW j \in 1 .. Len(backlog_queue)
          PROVE  Older(backlog_queue[j])'
      <4>1. backlog_queue[j] \in Items
        BY <3>2
      <4>2. Older(backlog_queue[j])
        BY Zenon, <3>1 DEF OwnLast
      <4> QED BY <2>a, <2>2, <4>1, <4>2
    <3> QED BY Zenon, <2>a, <3>3, <3>4 DEF OwnLast
  <2>4. \A u \in Threads : NoneWaitsFor(local[u])'
    <3>1. NoneWaitsFor(l)'
      BY Zenon, <1>7 DEF NoneWaitsFor
    <3>2. \A u \in Threads : u # t => NoneWaitsFor(local[u])'
      BY Zenon, <1>1, <1>10 DEF EndpointIInv, OrderInv, NoneWaitsFor
    <3> QED BY Zenon, <1>10, <3>1, <3>2
  <2>5. /\ \A i \in inflight' : i \in Taken(i.rank)'
        /\ FrontTaken' => (Head(backlog_queue) \in Taken(Head(backlog_queue).rank))'
    BY Zenon, <1>1, <1>15 DEF EndpointIInv, OrderInv, Taken
  <2> QED BY Zenon, <2>1, <2>3, <2>4, <2>5 DEF OrderInv
<1>17. PendingCounted'
  <2>1. PostingData' = PostingData \cup {t} /\ t \notin PostingData
    BY Zenon, <1>9, <1>10 DEF PostingData
  <2>2. FreeingThreads' = FreeingThreads
    BY Zenon, <1>9, <1>10 DEF FreeingThreads
  <2>3. Unposted' = Unposted /\ InflightData' = InflightData
    BY <1>1, <1>15 DEF Unposted, InflightData
  <2>4. Cardinality(PostingData)' = Cardinality(PostingData) + 1
    BY Zenon, <1>1, <2>1, AddOne, PendingFinite
  <2>5. /\ Cardinality(Unposted)' = Cardinality(Unposted) + 0
        /\ Cardinality(InflightData)' = Cardinality(InflightData) + 0
        /\ Cardinality(FreeingThreads)' = Cardinality(FreeingThreads) + 0
    BY <1>1, <2>2, <2>3, PendingFinite
  <2>6. pending_ops' = pending_ops + 1 + 0 + 0 + 0
    BY <1>1
  <2> QED BY <1>1, <2>4, <2>5, <2>6, PendingMove DEF EndpointIInv
<1>18. DrainInv'
  <2> SUFFICES ASSUME NEW u \in Threads, local'[u].pc = "drained"
               PROVE  /\ \A i \in Unposted' :
                            backlog_queue'[i].number > local'[u].seen[backlog_queue'[i].thread]
                      /\ \A w \in Threads : Posting(local'[w]) /\ local'[w].item.part = "data" =>
                            local'[w].item.number > local'[u].seen[local'[w].item.thread]
    BY Zenon DEF DrainInv, item
  <2>1. u # t /\ local'[u] = local[u]
    BY Zenon, <1>7, <1>10
  <2>2. Unposted' = Unposted
    BY Zenon, <1>1, <1>15 DEF Unposted
  <2>3. local[u].seen \in [Threads -> Nat] /\ local[u].seen[t] <= posts[t]
    <3>1. LocalInv(u, local[u]) /\ local[u].pc = "drained"
      BY Zenon, <2>1 DEF EndpointIInv
    <3> QED BY Zenon, <3>1 DEF LocalInv
  <2>4. l.item.number > local[u].seen[l.item.thread]
    <3>1. local[u].seen[t] \in Nat
      BY Zenon, <2>3
    <3>2. posts[t] + 1 > local[u].seen[t]
      BY <1>3, <2>3, <3>1
    <3> QED BY Zenon, <1>5, <1>7, <3>2
  <2> QED BY Zenon, <1>1, <1>10, <2>1, <2>2, <2>4 DEF EndpointIInv, DrainInv, item
<1>19. BacklogCounted' /\ LockInv'
  BY Zenon, <1>1, <1>7, <1>9, CountStep, LockStep DEF EndpointIInv
<1>20. FlagInv'
  BY <1>1 DEF EndpointIInv, FlagInv
<1> QED BY Zenon, <1>10, <1>12, <1>13, <1>14, <1>16, <1>17, <1>18, <1>19, <1>20 DEF EndpointIInv

-----------------------------------------------------------------------------
(* Every step keeps the invariant. *)

LEMMA StutterInv ==
  ASSUME EndpointIInv, UNCHANGED vars
  PROVE  EndpointIInv'
<1> USE DEF vars
<1>0. TypeInv'
  BY DEF EndpointIInv, TypeInv
<1>1. \A t \in Threads : LocalInv(t, local[t])'
  <2> SUFFICES ASSUME NEW t \in Threads
               PROVE  LocalInv(t, local[t])'
    OBVIOUS
  <2>1. PICK m : m = local[t] /\ local'[t] = m /\ LocalInv(t, m)
    BY DEF EndpointIInv
  <2>2. LocalInv(t, m)'
    BY Zenon, <2>1 DEF LocalInv
  <2> QED BY <2>1, <2>2
<1>2. LockInv' /\ FlagInv'
  BY DEF EndpointIInv, LockInv, FlagInv
<1>3. BacklogCounted'
  BY Zenon DEF EndpointIInv, BacklogCounted, EntriesOf, PushersOf, PoppersOf, pc, item
<1>4. FrontTaken' <=> FrontTaken
  BY DEF FrontTaken
<1>5. OrderInv'
  <2>1. OrderInv
    BY DEF EndpointIInv
  <2>2. InOrder' /\ QueueOrder'
    BY Zenon, <2>1 DEF OrderInv, InOrder, QueueOrder
  <2>3. WireFirst'
    BY SMTT(20), <2>1, <1>4 DEF OrderInv, WireFirst
  <2>4. \A a : Older(a) => Older(a)'
    BY Zenon DEF Older
  <2>5. OwnLast'
    BY Zenon, <2>1, <2>4 DEF OrderInv, OwnLast
  <2>6. \A t \in Threads : NoneWaitsFor(local[t])'
    BY Zenon, <2>1 DEF OrderInv, NoneWaitsFor
  <2>7. /\ \A i \in inflight' : i \in Taken(i.rank)'
        /\ FrontTaken' => (Head(backlog_queue) \in Taken(Head(backlog_queue).rank))'
    BY Zenon, <2>1, <1>4 DEF OrderInv, Taken
  <2> QED BY Zenon, <2>2, <2>3, <2>5, <2>6, <2>7 DEF OrderInv
<1>6. Unposted' = Unposted
  BY <1>4 DEF Unposted
<1>7. PendingCounted'
  BY Zenon, <1>6 DEF EndpointIInv, PendingCounted, PostingData, InflightData, FreeingThreads
<1>8. DrainInv'
  BY Zenon, <1>6 DEF EndpointIInv, DrainInv, pc, item
<1> QED BY <1>0, <1>1, <1>2, <1>3, <1>5, <1>7, <1>8 DEF EndpointIInv

LEMMA NextInv ==
  ASSUME EndpointIInv, [Next]_vars
  PROVE  EndpointIInv'
<1>1. CASE UNCHANGED vars
  BY <1>1, StutterInv
<1>2. CASE Next
  <2>1. PICK t \in Threads :
          \/ \E kind \in Kinds, r \in Targets, allow_retry \in BOOLEAN :
                PostComm(t, kind, r, allow_retry)
          \/ Progress(t) \/ ProgressReturn(t) \/ TestDrained(t)
          \/ ImplTake(t) \/ ImplRetry(t) \/ Continue(t)
    BY Zenon, <1>2 DEF Next
  <2>2. CASE \E kind \in Kinds, r \in Targets, allow_retry \in BOOLEAN :
                PostComm(t, kind, r, allow_retry)
    BY <2>2, PostCommInv
  <2>3. CASE Progress(t) \/ ProgressReturn(t) \/ TestDrained(t)
    BY <2>3, CallsInv, TestDrainedInv
  <2>4. CASE ImplTake(t) \/ ImplRetry(t)
    BY <2>4, ImplTakeInv, ImplRetryInv
  <2>5. CASE Continue(t)
    <3>1. CASE Discard(t) \/ Check(t) \/ PushCount(t) \/ PushLock(t) \/ Push(t)
      BY <3>1, DiscardInv, CheckInv, PushCountInv, PushLockInv, PushInv
    <3>2. CASE BacklogEmpty(t) \/ TryLock(t) \/ PostFront(t) \/ GiveUp(t) \/ Pop(t)
      BY <3>2, CallsInv, TryLockInv, PostFrontInv, GiveUpInv, PopInv
    <3>3. CASE Uncount(t) \/ PollComp(t) \/ FreeCtx(t) \/ TestPending(t) \/ DrainedReturn(t)
      BY <3>3, UncountInv, PollCompInv, FreeCtxInv, TestPendingInv, CallsInv
    <3> QED BY Zenon, <2>5, <3>1, <3>2, <3>3 DEF Continue
  <2> QED BY Zenon, <2>1, <2>2, <2>3, <2>4, <2>5
<1> QED BY <1>1, <1>2

LEMMA IInvAlways == Spec => []EndpointIInv
<1>1. Init => EndpointIInv
  BY InitInv
<1>2. EndpointIInv /\ [Next]_vars => EndpointIInv'
  BY NextInv
<1> QED BY <1>1, <1>2, PTL DEF Spec

-----------------------------------------------------------------------------
(* What the invariant says of the properties. *)

LEMMA IInvEndpoint ==
  ASSUME EndpointIInv
  PROVE  EndpointInv
<1>1. TypeOK
  <2>1. \A t \in Threads : local[t] \in Locals
    BY DEF EndpointIInv, TypeInv
  <2>2. \A t \in Threads : /\ pc(t) \in Labels
                           /\ item(t) \in Items \cup {NoItem}
                           /\ local[t].then \in {"idle", "pop", "free"}
    BY Zenon, <2>1 DEF Locals, pc, item
  <2> QED BY Zenon, <2>2 DEF TypeOK, EndpointIInv, TypeInv
<1> QED BY <1>1 DEF EndpointInv, EndpointIInv, NoLostSignal, FlagInv

LEMMA IInvDrained ==
  ASSUME EndpointIInv
  PROVE  DrainedMeansPosted
<1> USE DEF pc, item
<1>1. backlog_queue \in Seq(Items) /\ local \in [Threads -> Locals]
  BY DEF EndpointIInv, TypeInv
<1>2. SUFFICES ASSUME NEW t \in Threads, pc(t) = "drained"
      PROVE  /\ \A it \in Waiting : it.part = "data" =>
                    it.number > local[t].seen[it.thread] \/ it \in Taken(it.rank)
             /\ \A u \in Threads :
                  pc(u) \in PostSteps /\ item(u).part = "data" =>
                  item(u).number > local[t].seen[item(u).thread]
  BY Zenon DEF DrainedMeansPosted, PostSteps
<1>3. /\ \A i \in Unposted :
             backlog_queue[i].number > local[t].seen[backlog_queue[i].thread]
      /\ \A u \in Threads : Posting(local[u]) /\ item(u).part = "data" =>
             item(u).number > local[t].seen[item(u).thread]
  BY Zenon, <1>2 DEF EndpointIInv, DrainInv
<1>4. ASSUME NEW it \in Waiting, it.part = "data"
      PROVE  it.number > local[t].seen[it.thread] \/ it \in Taken(it.rank)
  <2>1. PICK i \in 1 .. Len(backlog_queue) : it = backlog_queue[i]
    BY <1>1 DEF Waiting, Range
  <2>2. CASE i \in Unposted
    BY Zenon, <1>3, <2>1, <2>2
  <2>3. CASE i \notin Unposted
    <3>1. i = 1 /\ FrontTaken
      BY <1>4, <2>1, <2>3 DEF Unposted
    <3>2. it = Head(backlog_queue)
      BY <1>1, <2>1, <3>1
    <3> QED BY Zenon, <3>1, <3>2 DEF EndpointIInv, OrderInv
  <2> QED BY <2>2, <2>3
<1>5. ASSUME NEW u \in Threads, pc(u) \in PostSteps, item(u).part = "data"
      PROVE  item(u).number > local[t].seen[item(u).thread]
  <2>1. CASE Posting(local[u])
    BY Zenon, <1>3, <1>5, <2>1
  <2>2. CASE ~Posting(local[u])
    <3>1. local[u].force_post /\ LocalInv(u, local[u])
      BY Zenon, <1>5, <2>2 DEF Posting, EndpointIInv
    <3>2. pc(u) = "impl"
      BY Zenon, <1>5, <3>1 DEF LocalInv, PostSteps
    <3>3. /\ ~FrontTaken /\ item(u) = backlog_queue[1] /\ 1 \in 1 .. Len(backlog_queue)
      BY Zenon, <3>1, <3>2, TakeInOrder
    <3>4. 1 \in Unposted
      BY <1>5, <3>3 DEF Unposted
    <3> QED BY Zenon, <1>3, <3>3, <3>4
  <2> QED BY Zenon, <2>1, <2>2
<1> QED BY Zenon, <1>4, <1>5

-----------------------------------------------------------------------------
(***************************************************************************)
(* Whatever threads do with the endpoint at once, its fields are well      *)
(* typed, nentries_per_rank counts the backlog of every rank exactly, and  *)
(* the flag that progress() reads without the lock misses no entry.        *)
(***************************************************************************)
THEOREM EndpointInvariant == Spec => []EndpointInv
<1>1. EndpointIInv => EndpointInv
  BY IInvEndpoint
<1> QED BY <1>1, IInvAlways, PTL

(***************************************************************************)
(* The device gets what one thread posts to one rank in the order it was   *)
(* posted and each operation once, through the backlog queue or past it;   *)
(* and when test_drained says done, all that was posted before it was      *)
(* called has reached the device.                                          *)
(***************************************************************************)
THEOREM EndpointPostOrder == Spec => []PostOrder
<1>1. EndpointIInv => InOrder
  BY DEF EndpointIInv, OrderInv
<1>2. EndpointIInv => DrainedMeansPosted
  BY IInvDrained
<1>3. EndpointIInv => PostOrder
  BY <1>1, <1>2 DEF PostOrder
<1> QED BY <1>3, IInvAlways, PTL

(***************************************************************************)
(* pending_ops counts the internal contexts that are alive: one for every  *)
(* operation that a thread is posting, that waits in the queue, that the   *)
(* device has, or whose completion is being handled.  So no context is     *)
(* freed twice and none is forgotten.                                      *)
(***************************************************************************)
THEOREM PendingOperations == Spec => []PendingCounted
<1>1. EndpointIInv => PendingCounted
  BY DEF EndpointIInv
<1> QED BY <1>1, IInvAlways, PTL

=============================================================================
