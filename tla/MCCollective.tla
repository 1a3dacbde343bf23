---------------------------- MODULE MCCollective ----------------------------
(***************************************************************************)
(* Collective calls over two and three ranks, every one of them with every *)
(* root, in place and not; over six ranks, those whose programs depend on  *)
(* the number of ranks in a way that only more ranks show; and over eight  *)
(* ranks the ring broadcast.  The first state chooses the number of ranks  *)
(* from Worlds and the call.                                               *)
(***************************************************************************)
EXTENDS Integers, FiniteSets, TLC

CONSTANT Worlds

VARIABLES world, call, entered, left, graph, sent, done, net, buf

Call(kinds, roots, places, steps) ==
    [kind : kinds, root : roots, inplace : places, nsteps : steps, size : {8}]

EveryCall(n) ==
    Call({"barrier", "allgather", "alltoall"}, {0}, {FALSE}, {1})
    \cup Call({"direct", "tree"}, 0 .. n - 1, {FALSE}, {1})
    \cup Call({"ring"}, {0, n - 1}, {FALSE}, {n - 1})
    \cup Call({"allreduce", "reduce_scatter"}, {0}, BOOLEAN, {1})
    \cup Call({"reduce"}, 0 .. n - 1, BOOLEAN, {1})

DeepCalls(n) ==
    Call({"barrier"}, {0}, {FALSE}, {1})
    \cup Call({"tree", "reduce"}, {0, 1}, {TRUE}, {1})
    \cup Call({"ring"}, {1}, {FALSE}, {2, n - 1})

RingCall(n) == Call({"ring"}, {0}, {FALSE}, {n - 1})

C(n) == INSTANCE Collective WITH
    N <- n,
    Calls <- CASE n < 6 -> EveryCall(n) [] n = 6 -> DeepCalls(n)
               [] OTHER -> RingCall(n),
    Modes <- IF n = 6 THEN {"rdv"} ELSE {"eager", "rdv"},
    Ordered <- TRUE

ASSUME CollectiveConstants ==
    \A n \in Worlds : C(n)!CollProgramsAssumption /\ C(n)!CollectiveAssumption

\* The vector in which reduce keeps the rounds of its tree is long enough.
ASSUME RoundsFit ==
    \A n \in 2 .. 30 : C(2)!TreeRoundsOf(n) <= C(2)!CeilLog2(n)

vars == <<world, call, entered, left, graph, sent, done, net, buf>>

Init == \E n \in Worlds : world = n /\ C(n)!Init

Next == UNCHANGED world /\ \E n \in Worlds : world = n /\ C(n)!Next

Spec == Init /\ [][Next]_vars

-----------------------------------------------------------------------------
\* A rank leaves a collective with what it promises: from a barrier when all
\* have entered, from a broadcast with all chunks, from a reduction with every
\* contribution combined once, in the order of the ranks backwards, and from
\* an exchange with every block; and no message is left over for the next
\* collective when all have left (src/collective).
ResultsRight ==
    \A n \in Worlds : world = n =>
        /\ C(n)!TypeOK /\ C(n)!NothingLeftOver
        /\ C(n)!BarrierHolds /\ C(n)!BroadcastDelivers
        /\ C(n)!ReduceCombines /\ C(n)!DirectReductionsComplete
        /\ C(n)!ExchangeComplete

\* Ranks never wait on each other in a cycle, even if every send waits for
\* its receive.
NeverStuck == \A n \in Worlds : world = n => C(n)!NeverStuck

\* The chunks of a ring broadcast lie within the buffer (broadcast.cpp).
ChunksWithinBuffer == \A n \in Worlds : world = n => C(n)!ChunksWithinBuffer
=============================================================================
