------------------------------ MODULE LctQueue ------------------------------
(***************************************************************************)
(* The three lock-free array queues of lct/data_structure/queue: the one   *)
(* built on fetch-and-add (which backs the completion queue, comp/cq.hpp), *)
(* the one built on compare-and-swap, and the basic one.  Every atomic     *)
(* access is a step of its own, sequentially consistent.                   *)
(*                                                                         *)
(* The queues never look at a value, so the value pushed at position p of  *)
(* the unbounded order of pushes is p itself.  A pop that returns null     *)
(* goes back to "idle"; one that returns a value records it in returned.   *)
(*                                                                         *)
(* push has no error return: that the queue has room is the caller's       *)
(* business, and RoomByCount says which rule the caller follows.           *)
(***************************************************************************)
EXTENDS Integers, FiniteSets

CONSTANTS
    Producers, Consumers,
    Kind,          \* "faa", "cas" or "basic"
    Capacity,      \* the argument of the constructor
    Debug,         \* built with LCT_DEBUG
    RoomByCount,   \* the caller only counts values pushed and returned
    MaxPush        \* bound: the number of pushes

LctQueueAssumption ==
    /\ Producers \cap Consumers = {}
    /\ Kind \in {"faa", "cas", "basic"}
    /\ Capacity \in Nat \ {0} /\ MaxPush \in Nat
    /\ Debug \in BOOLEAN /\ RoomByCount \in BOOLEAN

VARIABLES
    top,       \* positions handed out to push
    bot,       \* positions handed out to pop
    top2,      \* basic: positions that may be read
    bot2,      \* basic, debug: positions that have been read
    data,      \* data[i]: the value in cell i
    tag,       \* faa and cas: tag[i]: the position cell i holds
    local,     \* local[t]: where thread t is and the position it works on
    returned   \* returned[p]: the value pop returned for position p

vars == <<top, bot, top2, bot2, data, tag, local, returned>>
counters == <<top, bot, top2, bot2>>

length == Capacity + 1
Cell(p) == p % length
Cells == 0 .. Capacity
Callers == Producers \cup Consumers
NoValue == -1
Frame(label, p, v) == [pc |-> label, pos |-> p, result |-> v]
Idle == Frame("idle", 0, NoValue)

\* The tags a queue starts with, none of which marks its cell as full.
EmptyTag(i) == IF Kind = "faa" THEN i - length + 1 ELSE -1

Init ==
    /\ top = 0 /\ bot = 0 /\ top2 = 0 /\ bot2 = 0
    /\ data = [i \in Cells |-> NoValue]
    /\ tag = [i \in Cells |-> EmptyTag(i)]
    /\ local = [t \in Callers |-> Idle]
    /\ returned = << >>

At(t, label) == local[t].pc = label
Goto(t, label, p) == local' = [local EXCEPT ![t] = Frame(label, p, NoValue)]
Return(t) == local' = [local EXCEPT ![t] = Idle]

\* The caller pushes only when it takes the queue not to be full: fewer than
\* Capacity values are outstanding and, unless it goes by the count alone, the
\* pop of the value last in the cell has returned.
Room ==
    /\ top - Cardinality(DOMAIN returned) < Capacity
    /\ RoomByCount \/ top < length \/ top - length \in DOMAIN returned

-----------------------------------------------------------------------------
\* push: the position, from the fetch_add.
PushTop(t) ==
    /\ At(t, "idle") /\ Room /\ top < MaxPush
    /\ top' = top + 1
    /\ Goto(t, "write", top)
    /\ UNCHANGED <<bot, top2, bot2, data, tag, returned>>

\* The debug assertion under the comment "make sure the queue is not full",
\* evaluated between the fetch_add and the write.
PushAssert(p) ==
    CASE Kind = "faa" -> tag[Cell(p)] = p - length + 1
      [] Kind = "cas" -> tag[Cell(p)] # p - length
      [] Kind = "basic" -> p - bot2 > length - 2

PushWrite(t) ==
    /\ At(t, "write")
    /\ data' = [data EXCEPT ![Cell(local[t].pos)] = local[t].pos]
    /\ Goto(t, "publish", local[t].pos)
    /\ UNCHANGED <<counters, tag, returned>>

\* faa and cas: the tag tells the consumers that the cell can be read.
PushTag(t) ==
    /\ At(t, "publish") /\ Kind # "basic"
    /\ tag' = [tag EXCEPT ![Cell(local[t].pos)] = local[t].pos]
    /\ Return(t)
    /\ UNCHANGED <<counters, data, returned>>

\* basic: the loop ends when the pushes before this one are published.
PushTop2(t) ==
    /\ At(t, "publish") /\ Kind = "basic"
    /\ top2 = local[t].pos
    /\ top2' = top2 + 1
    /\ Return(t)
    /\ UNCHANGED <<top, bot, bot2, data, tag, returned>>

-----------------------------------------------------------------------------
\* pop: the load of bot.
PopLoad(t) ==
    /\ At(t, "idle")
    /\ Goto(t, "check", bot)
    /\ UNCHANGED <<counters, data, tag, returned>>

Readable(p) == IF Kind = "basic" THEN top2 > p ELSE tag[Cell(p)] = p

\* The queue is empty, or a position is claimed next.
PopCheck(t) ==
    /\ At(t, "check")
    /\ IF Readable(local[t].pos) THEN Goto(t, "claim", local[t].pos) ELSE Return(t)
    /\ UNCHANGED <<counters, data, tag, returned>>

\* Wrong: keeps the position loaded before the fetch_add.
PopAddStale(t) ==
    /\ At(t, "claim") /\ Kind = "faa"
    /\ bot' = bot + 1
    /\ Goto(t, "verify", local[t].pos)
    /\ UNCHANGED <<top, top2, bot2, data, tag, returned>>

\* faa: the fetch_add, which may claim a position nobody has pushed to.
PopAdd(t) ==
    /\ At(t, "claim") /\ Kind = "faa"
    /\ bot' = bot + 1
    /\ Goto(t, "verify", bot)
    /\ UNCHANGED <<top, top2, bot2, data, tag, returned>>

\* cas and basic: the position is claimed unless another thread is ahead.
PopCas(t) ==
    /\ At(t, "claim") /\ Kind # "faa"
    /\ IF bot = local[t].pos
       THEN bot' = bot + 1 /\ Goto(t, "read", local[t].pos)
       ELSE UNCHANGED bot /\ Return(t)
    /\ UNCHANGED <<top, top2, bot2, data, tag, returned>>

\* faa: the head of the loop.
PopVerify(t) ==
    /\ At(t, "verify")
    /\ Goto(t, IF Readable(local[t].pos) THEN "read" ELSE "rollback", local[t].pos)
    /\ UNCHANGED <<counters, data, tag, returned>>

\* faa: the position is given back, unless a later one has been claimed.
PopRollback(t) ==
    /\ At(t, "rollback")
    /\ IF bot = local[t].pos + 1
       THEN bot' = local[t].pos /\ Return(t)
       ELSE UNCHANGED bot /\ Goto(t, "verify", local[t].pos)
    /\ UNCHANGED <<top, top2, bot2, data, tag, returned>>

\* pop returns value v for position p.  Should a second pop return the entry
\* of a position, NoValue stands for that.
ReturnValue(t, p, v) ==
    /\ returned' = [q \in DOMAIN returned \cup {p} |->
                       IF q # p THEN returned[q]
                       ELSE IF p \in DOMAIN returned THEN NoValue ELSE v]
    /\ Return(t)

\* The data is read, and a release build returns it.
PopRead(t) ==
    /\ At(t, "read")
    /\ LET p == local[t].pos
       IN  IF Debug
           THEN /\ local' = [local EXCEPT ![t] = Frame("reset", p, data[Cell(p)])]
                /\ UNCHANGED returned
           ELSE ReturnValue(t, p, data[Cell(p)])
    /\ UNCHANGED <<counters, data, tag>>

\* A debug build also marks the cell as empty.
PopReset(t) ==
    /\ At(t, "reset")
    /\ IF Kind = "basic"
       THEN bot2 = local[t].pos /\ bot2' = bot2 + 1 /\ UNCHANGED tag
       ELSE tag' = [tag EXCEPT ![Cell(local[t].pos)] = local[t].pos + 1] /\ UNCHANGED bot2
    /\ ReturnValue(t, local[t].pos, local[t].result)
    /\ UNCHANGED <<top, bot, top2, data>>

-----------------------------------------------------------------------------
Push(t) == PushTop(t) \/ PushWrite(t) \/ PushTag(t) \/ PushTop2(t)

Pop(t) ==
    \/ PopLoad(t) \/ PopCheck(t) \/ PopAdd(t) \/ PopCas(t)
    \/ PopVerify(t) \/ PopRollback(t) \/ PopRead(t) \/ PopReset(t)

Next == (\E t \in Producers : Push(t)) \/ (\E t \in Consumers : Pop(t))

Spec == Init /\ [][Next]_vars

\* A thread inside push runs on, and the consumers keep polling.
FairSpec ==
    /\ Spec
    /\ \A t \in Producers : WF_vars(PushWrite(t) \/ PushTag(t) \/ PushTop2(t))
    /\ \A t \in Consumers : WF_vars(Pop(t))

-----------------------------------------------------------------------------
Positions == 0 .. MaxPush - 1
Claimed(t) == local[t].pc \in {"verify", "rollback", "read", "reset"}
Held(p) == \E t \in Consumers : Claimed(t) /\ local[t].pos = p

TypeOK ==
    /\ top \in 0 .. MaxPush /\ top2 \in 0 .. MaxPush /\ bot2 \in 0 .. MaxPush
    /\ bot \in 0 .. MaxPush + Cardinality(Consumers)
    /\ data \in [Cells -> Positions \cup {NoValue}]
    /\ tag \in [Cells -> (-length) .. MaxPush]
    /\ local \in [Callers ->
          [pc : {"idle", "write", "publish", "check", "claim",
                 "verify", "rollback", "read", "reset"},
           pos : 0 .. MaxPush + Cardinality(Consumers),
           result : Positions \cup {NoValue}]]
    /\ DOMAIN returned \subseteq Positions

(***************************************************************************)
(* Every pop that returns a value returns the one that was pushed at the   *)
(* position it claimed, and no value is returned twice, although a         *)
(* position can be claimed, given back and claimed again, and the tag of a *)
(* cell that was read is left standing in a release build                  *)
(* (queue_array_atomic_*.hpp, pop).                                        *)
(***************************************************************************)
ReturnsWhatWasPushed == \A p \in DOMAIN returned : returned[p] = p

(***************************************************************************)
(* First in, first out: a returned position is below bot for good, so that *)
(* no pop that starts later gets an older value, and every older position  *)
(* has been returned or is held by a pop still on its way; no value is     *)
(* skipped when a position is given back.                                  *)
(***************************************************************************)
Fifo ==
    /\ \A p \in DOMAIN returned : p < bot
    /\ \A p \in 0 .. bot - 1 : p \in DOMAIN returned \/ Held(p)

(***************************************************************************)
(* The debug assertion of push ("wrote to a nonempty value!") holds        *)
(* whenever it is evaluated, given a caller that leaves room.              *)
(***************************************************************************)
PushAssertHolds ==
    Debug => \A t \in Producers : At(t, "write") => PushAssert(local[t].pos)

\* Every value pushed is returned in the end, as long as the consumers keep
\* polling: a pop that claimed a cell with nothing in it neither blocks the others
\* nor strands a value (the loop of pop, faa).
Pushed(p) == top > p
Returned(p) == p \in DOMAIN returned
=============================================================================
