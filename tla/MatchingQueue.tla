--------------------------- MODULE MatchingQueue ----------------------------
(***************************************************************************)
(* The list matching engine (src/matching_engine/                          *)
(* matching_engine_queue.hpp): one list of unexpected sends and one of     *)
(* posted receives, searched from the front under a spinlock, so a call is *)
(* one step.                                                               *)
(*                                                                         *)
(* search erases the list node of the entry it found and then reads the    *)
(* entry's value through the iterator of that node.  What a freed node     *)
(* reads as depends on the allocator: FreedReads are the values other than *)
(* the entry's own that it may show.                                       *)
(***************************************************************************)
EXTENDS Integers, FiniteSetsExt, SequencesExt

CONSTANTS
    Keys, None,          \* as in module Matching
    MaxSends, MaxRecvs,  \* bound: entries of each type that are inserted
    FreedReads           \* {} where freed memory keeps its contents

MatchingQueueAssumption == MaxSends \in Nat /\ MaxRecvs \in Nat

VARIABLES
    send_queue, recv_queue,  \* entries: records of key and value, oldest first
    inserted,                \* inserted[t]: how many entries of type t were inserted
    last                     \* the latest call, as in module Matching

vars == <<send_queue, recv_queue, inserted, last>>

Types == {"send", "recv"}
Limit == [t \in Types |-> IF t = "send" THEN MaxSends ELSE MaxRecvs]
Sends == {"send"} \X (1 .. MaxSends)
Recvs == {"recv"} \X (1 .. MaxRecvs)

Init ==
    /\ send_queue = <<>> /\ recv_queue = <<>>
    /\ inserted = [t \in Types |-> 0]
    /\ last = [key |-> None, value |-> None, ret |-> None]

\* search: the place of the entry it finds, 0 if there is none.
Search(queue, k) ==
    LET places == {i \in DOMAIN queue : queue[i].key = k}
    IN  IF places = {} THEN 0 ELSE Min(places)

Take(queue, i) == RemoveAt(queue, i)

InsertSend(k, v) ==
    LET i == Search(recv_queue, k) IN
    IF i = 0
    THEN /\ send_queue' = Append(send_queue, [key |-> k, value |-> v])
         /\ last' = [key |-> k, value |-> v, ret |-> None]
         /\ UNCHANGED recv_queue
    ELSE /\ recv_queue' = Take(recv_queue, i)
         /\ \E ret \in {recv_queue[i].value} \cup FreedReads :
                last' = [key |-> k, value |-> v, ret |-> ret]
         /\ UNCHANGED send_queue

InsertRecv(k, v) ==
    LET i == Search(send_queue, k) IN
    IF i = 0
    THEN /\ recv_queue' = Append(recv_queue, [key |-> k, value |-> v])
         /\ last' = [key |-> k, value |-> v, ret |-> None]
         /\ UNCHANGED send_queue
    ELSE /\ send_queue' = Take(send_queue, i)
         /\ \E ret \in {send_queue[i].value} \cup FreedReads :
                last' = [key |-> k, value |-> v, ret |-> ret]
         /\ UNCHANGED recv_queue

Insert(k, t) ==
    LET v == <<t, inserted[t] + 1>> IN
    /\ inserted[t] < Limit[t]
    /\ inserted' = [inserted EXCEPT ![t] = @ + 1]
    /\ IF t = "send" THEN InsertSend(k, v) ELSE InsertRecv(k, v)

Next == \E k \in Keys, t \in Types : Insert(k, t)

Spec == Init /\ [][Next]_vars

-----------------------------------------------------------------------------
ValuesFor(queue, k) ==
    LET own == SelectSeq(queue, LAMBDA e : e.key = k)
    IN  [i \in DOMAIN own |-> own[i].value]

\* The two lists implement Matching: a send meets the oldest receive with its
\* key and vice versa, although entries of all keys share the lists.
Engine == INSTANCE Matching WITH
    waiting <- [k \in Keys |-> ValuesFor(send_queue, k) \o ValuesFor(recv_queue, k)]
Matches == Engine!Spec

\* A send and a receive with one key never both wait.
NeverBothWait ==
    \A i \in DOMAIN send_queue, j \in DOMAIN recv_queue :
        send_queue[i].key # recv_queue[j].key

=============================================================================
