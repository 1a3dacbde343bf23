------------------------------ MODULE Matching ------------------------------
(***************************************************************************)
(* What a matching engine promises: a send and a receive with one key meet *)
(* exactly once, in the order in which each side was inserted.  insert     *)
(* returns the entry it matched, or nothing and keeps the new one.         *)
(***************************************************************************)
EXTENDS Sequences

CONSTANTS
    Keys,
    Sends, Recvs,   \* the values that are inserted, of the two types
    None            \* the null pointer insert returns when it keeps the entry

VARIABLES
    waiting,  \* waiting[k]: entries with key k that were kept, oldest first
    last      \* the latest call: key, value and what it returned

vars == <<waiting, last>>

Values == Sends \cup Recvs
Opposite(v, w) == (v \in Sends) # (w \in Sends)

Init ==
    /\ waiting = [k \in Keys |-> <<>>]
    /\ last = [key |-> None, value |-> None, ret |-> None]

Match(k, v) ==
    /\ waiting[k] # <<>> /\ Opposite(v, Head(waiting[k]))
    /\ last' = [key |-> k, value |-> v, ret |-> Head(waiting[k])]
    /\ waiting' = [waiting EXCEPT ![k] = Tail(@)]

Keep(k, v) ==
    /\ waiting[k] = <<>> \/ ~Opposite(v, Head(waiting[k]))
    /\ last' = [key |-> k, value |-> v, ret |-> None]
    /\ waiting' = [waiting EXCEPT ![k] = Append(@, v)]

Next == \E k \in Keys, v \in Values : Match(k, v) \/ Keep(k, v)

Spec == Init /\ [][Next]_vars

=============================================================================
