---------------------------- MODULE MatchingMap -----------------------------
(***************************************************************************)
(* The hash-table matching engine (src/matching_engine/                    *)
(* matching_engine_map.hpp): the chain of linked buckets of one table      *)
(* entry, each with a fixed number of queues.  A queue holds the waiting   *)
(* entries of one key and one type, in two slots while there are few and   *)
(* in a list of nodes otherwise.  insert runs under the master bucket's    *)
(* spinlock, so a call is one step; keys of other table entries never meet *)
(* this chain.                                                             *)
(***************************************************************************)
EXTENDS Integers, FiniteSets, FiniteSetsExt, SequencesExt

CONSTANTS
    Keys, None,                \* as in module Matching
    MaxSends, MaxRecvs,        \* bound: entries of each type that are inserted
    BucketQueues,              \* BUCKET_NUM_QUEUES_DEFAULT
    SlotValues,                \* SLOT_NUM_VALUES
    NodeValues                 \* NODE_NUM_VALUES

MatchingMapAssumption ==
    /\ MaxSends \in Nat /\ MaxRecvs \in Nat
    /\ {BucketQueues, SlotValues} \subseteq Nat \ {0}
    /\ NodeValues \in Nat /\ NodeValues > SlotValues

VARIABLES
    chain,     \* the linked buckets, master first, each a sequence of queues
    inserted,  \* inserted[t]: how many entries of type t were inserted
    last       \* the latest call, as in module Matching

vars == <<chain, inserted, last>>

\* The values are pointers, all different: an entry's type and its number.
Types == {"send", "recv"}
Limit == [t \in Types |-> IF t = "send" THEN MaxSends ELSE MaxRecvs]
Sends == {"send"} \X (1 .. MaxSends)
Recvs == {"recv"} \X (1 .. MaxRecvs)
Values == Sends \cup Recvs
TypeOf(v) == v[1]

\* A queue is one of slots or nodes (a union in the code); the other is <<>>.
EmptyQueue == [is_empty |-> TRUE, is_queue |-> FALSE, key |-> None,
               type |-> "send", slots |-> <<>>, nodes |-> <<>>]
NewBucket(nqueues) == [i \in 1 .. nqueues |-> EmptyQueue]

Init ==
    /\ chain = <<NewBucket(BucketQueues)>>
    /\ inserted = [t \in Types |-> 0]
    /\ last = [key |-> None, value |-> None, ret |-> None]

-----------------------------------------------------------------------------
\* Cells of a slot array or of a node; VALUE_EMPTY is None.
Filled(cells) == {i \in DOMAIN cells : cells[i] # None}
Present(cells) == SelectSeq(cells, LAMBDA v : v # None)
Pad(values, n) == [i \in 1 .. n |-> IF i <= Len(values) THEN values[i] ELSE None]

\* queue_t::setup
Setup(k, v) ==
    [EmptyQueue EXCEPT !.is_empty = FALSE, !.key = k, !.type = TypeOf(v),
                       !.slots = Pad(<<v>>, SlotValues)]

\* queue_t::push
PushSlots(q, v) ==
    IF q.slots[SlotValues] # None
    THEN [q EXCEPT !.is_queue = TRUE, !.slots = <<>>,
                   !.nodes = <<Pad(Append(q.slots, v), NodeValues)>>]
    ELSE [q EXCEPT !.slots[Min(DOMAIN q.slots \ Filled(q.slots))] = v]

\* The first of the empty cells at the end of a node that is not full.
EndOf(node) == 1 + Max(Filled(node) \cup {0})

PushNodes(q, v) ==
    LET tail == Len(q.nodes) IN
    IF q.nodes[tail][NodeValues] # None
    THEN [q EXCEPT !.nodes = Append(@, Pad(<<v>>, NodeValues))]
    ELSE [q EXCEPT !.nodes[tail][EndOf(q.nodes[tail])] = v]

Push(q, v) == IF q.is_queue THEN PushNodes(q, v) ELSE PushSlots(q, v)

\* queue_t::pop: the value it returns and the queue it leaves.
Oldest(q) == LET cells == IF q.is_queue THEN q.nodes[1] ELSE q.slots
             IN  cells[Min(Filled(cells))]

PopSlots(q) ==
    LET left == [q.slots EXCEPT ![Min(Filled(q.slots))] = None]
    IN  [q EXCEPT !.slots = left, !.is_empty = (Filled(left) = {})]

\* Wrong: turns the first node into slots although more nodes follow.
PopNodesDropsRest(q) ==
    LET left == [q.nodes[1] EXCEPT ![Min(Filled(q.nodes[1]))] = None]
        nlefts == Cardinality(Filled(left)) IN
    IF nlefts = 0
    THEN [q EXCEPT !.nodes = Tail(@), !.is_empty = (Len(q.nodes) = 1)]
    ELSE IF nlefts <= SlotValues
    THEN [q EXCEPT !.is_queue = FALSE, !.nodes = <<>>,
                   !.slots = Pad(Present(left), SlotValues)]
    ELSE [q EXCEPT !.nodes[1] = left]

PopNodes(q) ==
    LET left == [q.nodes[1] EXCEPT ![Min(Filled(q.nodes[1]))] = None]
        nlefts == Cardinality(Filled(left)) IN
    IF nlefts = 0
    THEN [q EXCEPT !.nodes = Tail(@), !.is_empty = (Len(q.nodes) = 1)]
    ELSE IF nlefts <= SlotValues /\ Len(q.nodes) = 1
    THEN [q EXCEPT !.is_queue = FALSE, !.nodes = <<>>,
                   !.slots = Pad(Present(left), SlotValues)]
    ELSE [q EXCEPT !.nodes[1] = left]

Pop(q) == IF q.is_queue THEN PopNodes(q) ELSE PopSlots(q)

-----------------------------------------------------------------------------
\* insert: the walk along the chain.

Places == UNION {{<<b, i>> : i \in 1 .. Len(chain[b])} : b \in 1 .. Len(chain)}
QueueAt(p) == chain[p[1]][p[2]]
\* Wrong: looks for the key in the master bucket only.
FoundInMaster(k) ==
    {p \in Places : p[1] = 1 /\ ~QueueAt(p).is_empty /\ QueueAt(p).key = k}

EmptyPlaces == {p \in Places : QueueAt(p).is_empty}
Found(k) == {p \in Places \ EmptyPlaces : QueueAt(p).key = k}

Earliest(places) ==
    CHOOSE p \in places : \A o \in places :
        p[1] < o[1] \/ (p[1] = o[1] /\ p[2] <= o[2])

\* Linked buckets the walk frees: those it passes that have no entry, unless
\* their first queue is the first empty one of the chain.
FreedBuckets(end) ==
    {b \in 2 .. end : /\ \A i \in 1 .. Len(chain[b]) : <<b, i>> \in EmptyPlaces
                      /\ \E p \in EmptyPlaces : p[1] < b}

Without(buckets, freed) ==
    LET kept == SetToSortSeq(DOMAIN buckets \ freed, <)
    IN  [n \in 1 .. Len(kept) |-> buckets[kept[n]]]

WithQueue(p, q) == [chain EXCEPT ![p[1]][p[2]] = q]

InsertMatch(k, v, p) ==
    /\ QueueAt(p).type # TypeOf(v)
    /\ chain' = Without(WithQueue(p, Pop(QueueAt(p))), FreedBuckets(p[1] - 1))
    /\ last' = [key |-> k, value |-> v, ret |-> Oldest(QueueAt(p))]

InsertPush(k, v, p) ==
    /\ QueueAt(p).type = TypeOf(v)
    /\ chain' = Without(WithQueue(p, Push(QueueAt(p), v)), FreedBuckets(p[1] - 1))
    /\ last' = [key |-> k, value |-> v, ret |-> None]

InsertNew(k, v) ==
    /\ Found(k) = {}
    /\ chain' =
        IF EmptyPlaces # {}
        THEN Without(WithQueue(Earliest(EmptyPlaces), Setup(k, v)),
                     FreedBuckets(Len(chain)))
        ELSE Append(chain, [NewBucket(2 * Len(Last(chain)) + 1)
                            EXCEPT ![1] = Setup(k, v)])
    /\ last' = [key |-> k, value |-> v, ret |-> None]

Insert(k, t) ==
    LET v == <<t, inserted[t] + 1>> IN
    /\ inserted[t] < Limit[t]
    /\ inserted' = [inserted EXCEPT ![t] = @ + 1]
    /\ \/ /\ Found(k) # {}
          /\ LET p == Earliest(Found(k)) IN InsertMatch(k, v, p) \/ InsertPush(k, v, p)
       \/ InsertNew(k, v)

Next == \E k \in Keys, t \in Types : Insert(k, t)

Spec == Init /\ [][Next]_vars

-----------------------------------------------------------------------------
Contents(q) ==
    IF q.is_empty THEN <<>>
    ELSE IF q.is_queue THEN Present(FlattenSeq(q.nodes)) ELSE Present(q.slots)

WaitingFor(k) == IF Found(k) = {} THEN <<>> ELSE Contents(QueueAt(Earliest(Found(k))))

\* The engine implements Matching: whatever buckets, slots and nodes the entries
\* went through, a send meets the oldest receive with its key and vice versa,
\* and nothing is lost when an array turns into a list or back or when a bucket
\* is freed.
Engine == INSTANCE Matching WITH waiting <- [k \in Keys |-> WaitingFor(k)]
Matches == Engine!Spec

\* The representation: a queue in use holds at least one entry, values of its
\* own type only, no node is empty, and a list's tail has its free cells at its
\* end (push takes the first of them); an empty cell in front is a popped one.
TypeOK ==
    \A p \in Places \ EmptyPlaces :
        LET q == QueueAt(p) IN
        /\ q.key \in Keys /\ Contents(q) # <<>>
        /\ ToSet(Contents(q)) \subseteq {v \in Values : TypeOf(v) = q.type}
        /\ IF q.is_queue
           THEN /\ q.slots = <<>> /\ q.nodes # <<>>
                /\ \A n \in DOMAIN q.nodes :
                    Len(q.nodes[n]) = NodeValues /\ Filled(q.nodes[n]) # {}
           ELSE q.nodes = <<>> /\ Len(q.slots) = SlotValues

\* insert stops at the first queue with its key, so a key must never occupy two
\* queues of the chain: entries in the second one would be unreachable, or a
\* send and a receive with one key would both wait.
OneQueuePerKey ==
    \A p, o \in Places \ EmptyPlaces : QueueAt(p).key = QueueAt(o).key => p = o

\* Growth is bounded by need: a chain has a linked bucket only when all queues
\* of the buckets before it were in use at once, so the chain is never longer
\* than the number of keys requires.
ChainBounded ==
    FoldLeft(LAMBDA n, b : n + Len(b), 0, SubSeq(chain, 1, Len(chain) - 1))
        < Cardinality(Keys)

=============================================================================
