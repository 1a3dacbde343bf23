----------------------------- MODULE PacketPool -----------------------------
(***************************************************************************)
(* The packet pool: src/data_structure/mpmc_set.hpp under                  *)
(* src/packet_pool/packet_pool.hpp.  Every thread has a deque of packets   *)
(* in a circular array with a spinlock.  A thread takes from the bottom of *)
(* its own deque, and when that is empty steals half of another thread's   *)
(* from the top.                                                           *)
(*                                                                         *)
(* Each step is what a thread does between two accesses to a lock.  The    *)
(* unlocked test of the victim's size before try_lock is a hint that may   *)
(* be stale, so it decides nothing here: any victim may be tried.          *)
(***************************************************************************)
EXTENDS Integers, FiniteSets

CONSTANTS
    Threads,
    Creator,      \* the thread that allocated the pool
    Packets,
    DefaultSize,  \* default_lpool_size
    MaxBatch,     \* the largest n of get_n
    MaxGets,      \* bound: calls of get_n
    None          \* null pointer, no thread, LOCAL_SET_ID_NULL

PacketPoolAssumption ==
    /\ Creator \in Threads /\ None \notin Threads \cup Packets
    /\ IsFiniteSet(Packets)
    /\ {DefaultSize, MaxBatch} \subseteq Nat \ {0} /\ MaxGets \in Nat

ASSUME PacketPoolConstants == PacketPoolAssumption

VARIABLES
    heap,    \* packets the constructor has yet to put into the pool
    pool,    \* pool[t]: queue (cells 0 .. size - 1), head and tail
    lock,    \* lock[t]: the thread that holds the spinlock of t's deque
    held,    \* held[t]: packets thread t works with
    home,    \* home[p]: local_id of a packet
    local,   \* local[t]: step, victim, number of stolen packets, packet to put
    gets     \* calls of get_n so far

vars == <<heap, pool, lock, held, home, local, gets>>

Idle == [pc |-> "idle", victim |-> None, n |-> 0, packet |-> None]

QueueSize(s) == Cardinality(DOMAIN s.queue)
Size(s) == s.tail - s.head
Cells(n) == [i \in 0 .. n - 1 |-> None]

\* get_position: a position in the array for any index, also a negative one.
\* % of TLA+ is never negative, so adding the size again changes nothing.
GetPosition(s, idx) == idx % QueueSize(s)

-----------------------------------------------------------------------------
\* local_set_t

\* Wrong: copies as if the deque never wrapped around.
CopyToNewStraight(s, new, n) ==
    [i \in DOMAIN new |->
        IF i < n /\ GetPosition(s, s.head) + i \in DOMAIN s.queue
        THEN s.queue[GetPosition(s, s.head) + i] ELSE new[i]]

\* copy_to_new: the n topmost packets, in at most two segments.
CopyToNew(s, new, n) ==
    [i \in DOMAIN new |-> IF i < n THEN s.queue[GetPosition(s, s.head + i)] ELSE new[i]]

Expand(s) ==
    [queue |-> CopyToNew(s, Cells(2 * QueueSize(s)), Size(s)), head |-> 0, tail |-> Size(s)]

Room(s) == IF Size(s) = QueueSize(s) - 1 THEN Expand(s) ELSE s

PushToBot(s0, p) ==
    LET s == Room(s0)
    IN  [s EXCEPT !.queue[GetPosition(s, s.tail)] = p, !.tail = @ + 1]

PushToTop(s0, p) ==
    LET s == Room(s0)
    IN  [s EXCEPT !.queue[GetPosition(s, s.head - 1)] = p, !.head = @ - 1]

\* The packets that n calls of pop_from_bot take.
Bottom(s, n) == {s.queue[GetPosition(s, s.tail - i)] : i \in 1 .. n}

-----------------------------------------------------------------------------
EmptySet == [queue |-> Cells(DefaultSize + 1), head |-> 0, tail |-> 0]

Init ==
    /\ heap = Packets
    /\ pool = [t \in Threads |-> EmptySet]
    /\ lock = [t \in Threads |-> None]
    /\ held = [t \in Threads |-> {}]
    /\ home = [p \in Packets |-> None]
    /\ local = [t \in Threads |-> Idle]
    /\ gets = 0

\* The constructor's put of one packet of the heap.  Nobody else has the pool
\* yet, so the lock is free.
Create(p) ==
    /\ p \in heap
    /\ heap' = heap \ {p}
    /\ pool' = [pool EXCEPT ![Creator] = PushToBot(@, p)]
    /\ UNCHANGED <<lock, held, home, local, gets>>

-----------------------------------------------------------------------------
\* get_n

Step(t, pc) == local' = [local EXCEPT ![t].pc = pc]

\* try_lock of the own deque; when a thief holds it, get_n returns nothing.
Get(t) ==
    /\ heap = {} /\ local[t] = Idle /\ gets < MaxGets
    /\ gets' = gets + 1
    /\ IF lock[t] = None
       THEN lock' = [lock EXCEPT ![t] = t] /\ Step(t, "got_lock")
       ELSE UNCHANGED <<lock, local>>
    /\ UNCHANGED <<heap, pool, held, home>>

\* One attempt of steal_packets that gets the lock of the victim's deque; an
\* attempt that does not changes nothing.
StealTry(t, v) ==
    /\ local[t].pc = "got_lock" /\ Size(pool[t]) = 0
    /\ v # t /\ lock[v] = None
    /\ lock' = [lock EXCEPT ![v] = t]
    /\ local' = [local EXCEPT ![t].pc = "steal", ![t].victim = v]
    /\ UNCHANGED <<heap, pool, held, home, gets>>

\* The attempts are used up.
StealNothing(t) ==
    /\ local[t].pc = "got_lock" /\ Size(pool[t]) = 0
    /\ Step(t, "pop")
    /\ UNCHANGED <<heap, pool, lock, held, home, gets>>

\* With both locks: half of the victim's packets move to the thief's array,
\* then the victim's lock is released.
StealCopy(t) ==
    LET v == local[t].victim
        n == (Size(pool[v]) + 1) \div 2
        size == (IF DefaultSize > 2 * n THEN DefaultSize ELSE 2 * n) + 1 IN
    /\ local[t].pc = "steal"
    /\ local' = [local EXCEPT ![t] =
            [@ EXCEPT !.pc = IF n = 0 THEN "got_lock" ELSE "stolen", !.n = n, !.victim = None]]
    /\ pool' = IF n = 0 THEN pool
               ELSE [pool EXCEPT ![t].queue = CopyToNew(pool[v], Cells(size), n),
                                 ![v].head = @ + n]
    /\ lock' = [lock EXCEPT ![v] = None]
    /\ UNCHANGED <<heap, held, home, gets>>

StealSet(t) ==
    /\ local[t].pc = "stolen"
    /\ pool' = [pool EXCEPT ![t].head = 0, ![t].tail = local[t].n]
    /\ local' = [local EXCEPT ![t].pc = "pop", ![t].n = 0]
    /\ UNCHANGED <<heap, lock, held, home, gets>>

\* The n packets that were asked for, or as many as there are.
Pop(t, n) ==
    LET popped == Bottom(pool[t], n) IN
    /\ local[t].pc = "pop" \/ (local[t].pc = "got_lock" /\ Size(pool[t]) > 0)
    /\ n <= Size(pool[t]) /\ (n = 0 => Size(pool[t]) = 0)
    /\ pool' = [pool EXCEPT ![t].tail = @ - n]
    /\ held' = [held EXCEPT ![t] = @ \cup popped]
    /\ home' = [p \in Packets |-> IF p \in popped THEN None ELSE home[p]]
    /\ lock' = [lock EXCEPT ![t] = None]
    /\ local' = [local EXCEPT ![t] = Idle]
    /\ UNCHANGED <<heap, gets>>

-----------------------------------------------------------------------------
\* put

Put(t, p) ==
    /\ local[t] = Idle /\ p \in held[t] /\ lock[t] = None
    /\ lock' = [lock EXCEPT ![t] = t]
    /\ local' = [local EXCEPT ![t].pc = "put", ![t].packet = p]
    /\ UNCHANGED <<heap, pool, held, home, gets>>

\* With a local_id the packet goes to the top of the deque, of the calling
\* thread in either case.
Push(t) ==
    LET p == local[t].packet IN
    /\ local[t].pc = "put"
    /\ pool' = [pool EXCEPT ![t] = IF home[p] = None THEN PushToBot(@, p) ELSE PushToTop(@, p)]
    /\ held' = [held EXCEPT ![t] = @ \ {p}]
    /\ lock' = [lock EXCEPT ![t] = None]
    /\ local' = [local EXCEPT ![t] = Idle]
    /\ UNCHANGED <<heap, home, gets>>

-----------------------------------------------------------------------------
\* The rest of the library: set_packet_if_needed notes its thread in a packet
\* it filled, and a packet sent by one thread is completed by another.
SetHome(t, p) ==
    /\ local[t] = Idle /\ p \in held[t] /\ home[p] = None
    /\ home' = [home EXCEPT ![p] = t]
    /\ UNCHANGED <<heap, pool, lock, held, local, gets>>

HandOver(t, u, p) ==
    /\ local[t] = Idle /\ p \in held[t] /\ t # u
    /\ held' = [held EXCEPT ![t] = @ \ {p}, ![u] = @ \cup {p}]
    /\ UNCHANGED <<heap, pool, lock, home, local, gets>>

Finished ==
    /\ gets = MaxGets
    /\ \A t \in Threads : local[t] = Idle
    /\ UNCHANGED vars

Next ==
    \/ \E p \in Packets : Create(p)
    \/ \E t \in Threads :
        \/ Get(t)
        \/ \E v \in Threads : StealTry(t, v)
        \/ StealNothing(t)
        \/ StealCopy(t)
        \/ StealSet(t)
        \/ \E n \in 0 .. MaxBatch : Pop(t, n)
        \/ Push(t)
        \/ \E p \in Packets : Put(t, p) \/ SetHome(t, p) \/ \E u \in Threads : HandOver(t, u, p)
    \/ Finished

Spec == Init /\ [][Next]_vars

-----------------------------------------------------------------------------
\* Where a packet is: the cells of the deques, the prefix of a thief's array
\* before it set head and tail, and the threads' hands.
Positions(t) == {<<t, GetPosition(pool[t], i)>> : i \in pool[t].head .. pool[t].tail - 1}
InTransit(t) == {<<t, i>> : i \in 0 .. local[t].n - 1}
AllCells == UNION {Positions(t) \cup InTransit(t) : t \in Threads}
CellsWith(p) == {c \in AllCells : pool[c[1]].queue[c[2]] = p}
InPool(t) == {pool[t].queue[c[2]] : c \in Positions(t)}

\* The assertions of mpmc_set.hpp: head never passes tail, a deque never fills
\* its array, and no cell between them is null.
TypeOK ==
    \A t \in Threads :
        /\ pool[t].head <= pool[t].tail
        /\ Size(pool[t]) < QueueSize(pool[t])
        /\ InPool(t) \subseteq Packets
        /\ lock[t] \in Threads \cup {None}
        /\ held[t] \subseteq Packets

\* A packet that was put into the pool is in exactly one place: one cell of one
\* deque or one thread's hands.  Steals, expansions and pushes at both ends,
\* interleaved, neither lose nor duplicate one.
PacketsOnce ==
    \A p \in Packets :
        Cardinality(CellsWith(p)) + Cardinality({t \in Threads : p \in held[t]})
            = IF p \in heap THEN 0 ELSE 1

=============================================================================
