--------------------------- MODULE ImmTagArchive ---------------------------
(***************************************************************************)
(* The archive of immediate-data tags (data_structure/imm_tag_archive.hpp):*)
(* the receiver of a rendezvous whose data arrives by put-with-immediate   *)
(* stores its context under a 16-bit tag, sends the tag to its peer, and   *)
(* takes the context out again when the tag comes back.  insert looks for  *)
(* an empty slot with one compare-and-swap per slot, starting at a shared  *)
(* counter; remove exchanges the slot with the empty value.  Each of these *)
(* atomic operations is a step.                                            *)
(***************************************************************************)
EXTENDS Integers, FiniteSets

CONSTANTS TagBits,     \* the number of bits of a tag
          Inserters,   \* threads that insert
          Values       \* the contexts, each inserted at most once

empty == "empty"

ImmTagArchiveAssumption ==
    /\ TagBits \in 1..16 /\ 2^TagBits \in Nat \ {0}
    /\ empty \notin Values

VARIABLES slots,       \* slots_
          next_slot,   \* next_slot_, modulo the size
          local,       \* the insert call of each thread
          tag_of       \* history: the tag insert returned for each value

vars == <<slots, next_slot, local, tag_of>>

-----------------------------------------------------------------------------
Size == 2^TagBits

Unused == -1    \* not inserted yet
Gone == -2      \* removed

Idle == [pc |-> "idle", value |-> empty, start |-> 0, i |-> 0]

Live == {v \in Values : tag_of[v] >= 0}

Inserting == {local[t].value : t \in Inserters} \ {empty}

Init ==
    /\ slots = [s \in 0..(Size - 1) |-> empty]
    /\ next_slot = 0
    /\ local = [t \in Inserters |-> Idle]
    /\ tag_of = [v \in Values |-> Unused]

\* insert takes its starting point.  The callers keep no more than Size
\* values in the archive, the ones being inserted counted.
InsertStart(t, v) ==
    /\ local[t].pc = "idle"
    /\ tag_of[v] = Unused /\ v \notin Inserting
    /\ Cardinality(Live) + Cardinality(Inserting) < Size
    /\ local' = [local EXCEPT ![t] = [pc |-> "scan", value |-> v,
                                      start |-> next_slot, i |-> 0]]
    /\ next_slot' = (next_slot + 1) % Size
    /\ UNCHANGED <<slots, tag_of>>

Slot(t) == (local[t].start + local[t].i) % Size

Take(t) ==
    /\ slots' = [slots EXCEPT ![Slot(t)] = local[t].value]
    /\ tag_of' = [tag_of EXCEPT ![local[t].value] = Slot(t)]
    /\ local' = [local EXCEPT ![t] = Idle]
    /\ UNCHANGED next_slot

\* The loop variable moves on; after the last slot the assertion fails.
Passed(t) ==
    [local[t] EXCEPT !.i = local[t].i + 1,
                     !.pc = IF local[t].i + 1 = Size THEN "exhausted" ELSE "scan"]

\* One compare-and-swap: the slot is taken and its number is the tag, or the
\* scan moves on.
InsertCas(t) ==
    /\ local[t].pc = "scan"
    /\ \/ slots[Slot(t)] = empty /\ Take(t)
       \/ /\ slots[Slot(t)] # empty
          /\ local' = [local EXCEPT ![t] = Passed(t)]
          /\ UNCHANGED <<slots, next_slot, tag_of>>

\* Mutant: a slot next to the one of the tag is emptied.
RemoveNext(v) ==
    /\ v \in Live
    /\ slots' = [slots EXCEPT ![(tag_of[v] + 1) % Size] = empty]
    /\ tag_of' = [tag_of EXCEPT ![v] = Gone]
    /\ UNCHANGED <<next_slot, local>>

\* remove, called with the tag insert returned.
Remove(v) ==
    /\ v \in Live
    /\ slots' = [slots EXCEPT ![tag_of[v]] = empty]
    /\ tag_of' = [tag_of EXCEPT ![v] = Gone]
    /\ UNCHANGED <<next_slot, local>>

Next ==
    \/ \E t \in Inserters, v \in Values : InsertStart(t, v)
    \/ \E t \in Inserters : InsertCas(t)
    \/ \E v \in Values : Remove(v)

Spec == Init /\ [][Next]_vars

-----------------------------------------------------------------------------
TypeOK ==
    /\ slots \in [0..(Size - 1) -> Values \cup {empty}]
    /\ next_slot \in 0..(Size - 1)
    /\ \A t \in Inserters : local[t].i \in 0..Size
    /\ tag_of \in [Values -> {Unused, Gone} \cup 0..(Size - 1)]

\* A tag stands for one context from the insert that returns it to its
\* remove: the slot holds that context, and no other live one has the tag.
\* So remove returns what was inserted and finds no empty slot.
TagKeepsValue ==
    /\ \A v \in Live : slots[tag_of[v]] = v
    /\ \A s \in 0..(Size - 1) : slots[s] # empty =>
           slots[s] \in Live /\ tag_of[slots[s]] = s

\* While there are never more than Size values in the archive, insert finds a
\* slot: the assertion "Immediate data archive exhausted" does not fail.
FindsSlot == \A t \in Inserters : local[t].pc # "exhausted"
=============================================================================
