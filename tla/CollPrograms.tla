---------------------------- MODULE CollPrograms ----------------------------
(***************************************************************************)
(* What every rank does in the collective operations of src/collective:    *)
(* the completion graph it builds, or the blocking calls it makes in       *)
(* order, as operations op and edges between them.  A call c says which    *)
(* collective, its root, whether it is in place, and the steps of a ring.  *)
(*                                                                         *)
(* A buffer is cut into the blocks the algorithm tells apart, and a value  *)
(* is the sequence of the contributions <<rank, block>> combined in it, in *)
(* the order of the user's reduction operator.                             *)
(***************************************************************************)
EXTENDS Integers, Sequences, FiniteSets, Functions, FiniteSetsExt, TLC

CONSTANT N    \* get_rank_n()

CollProgramsAssumption == N \in Nat \ {0, 1}

Ranks == 0 .. N - 1
Start == <<"start", 0>>
End == <<"end", 0>>

Send(peer, at) == [op |-> "send", peer |-> peer, at |-> at]
Recv(peer, at) == [op |-> "recv", peer |-> peer, at |-> at]
Reduce(left, right, dst) == [op |-> "reduce", left |-> left, right |-> right, dst |-> dst]
Dummy == [op |-> "dummy"]
Free == [op |-> "free"]

Right(r, jump) == (r + jump) % N
Left(r, jump) == (r - jump + N) % N
Others(r) == Ranks \ {r}
CeilHalf(n) == (n + 1) \div 2

\* Nodes without an edge between them: all between the start and the end.
Unordered(ids) == {Start} \X ids \cup ids \X {End}

-----------------------------------------------------------------------------
(* barrier.cpp *)

BarrierRounds == {k \in 0 .. N : 2 ^ k < N}

Barrier(r) ==
    LET prev(k) == IF k = 0 THEN Start ELSE <<"round", k - 1>>
        next(k) == IF 2 * 2 ^ k >= N THEN End ELSE <<"round", k>>
        ids == {"recv", "send"} \X BarrierRounds
        mids == {next(k) : k \in BarrierRounds} \ {End}
    IN  [op |-> [id \in ids \cup mids |->
                    CASE id[1] = "recv" -> Recv(Left(r, 2 ^ id[2]), <<"none", 0>>)
                      [] id[1] = "send" -> Send(Right(r, 2 ^ id[2]), <<"none", 0>>)
                      [] id[1] = "round" -> Dummy],
         edges |-> {<<prev(id[2]), id>> : id \in ids} \cup {<<id, next(id[2])>> : id \in ids}]

-----------------------------------------------------------------------------
(* broadcast.cpp *)

BroadcastDirect(r, c) ==
    LET ids == IF r = c.root THEN {<<"send", p>> : p \in Others(r)} ELSE {<<"recv", c.root>>}
    IN  [op |-> [id \in ids |-> IF id[1] = "send" THEN Send(id[2], <<"buf", 0>>)
                                                  ELSE Recv(id[2], <<"buf", 0>>)],
         edges |-> Unordered(ids)]

\* The rounds of the binomial tree as rank r sees them, which broadcast and
\* reduce compute alike.  peer is -1 in a round without a message.
TreeRound(r, jump, has, left, right) ==
    LET sends == has /\ jump <= right
        receives == ~sends /\ left = jump
    IN  [jump |-> jump,
         kind |-> IF sends THEN "send" ELSE IF receives THEN "recv" ELSE "none",
         peer |-> IF sends THEN Right(r, jump) ELSE IF receives THEN Left(r, jump) ELSE -1,
         has |-> has \/ receives,
         left |-> IF left >= jump THEN left - jump ELSE left,
         right |-> IF left >= jump THEN right ELSE Min({jump - left - 1, right})]

\* The number of rounds of the loop: jump is halved, rounding up, to one.
TreeRoundsOf(n) ==
    LET jumps[k \in 1 .. n] == IF k = 1 THEN CeilHalf(n) ELSE CeilHalf(jumps[k - 1])
    IN  Min({k \in 1 .. n : jumps[k] = 1})

TreeRounds == TreeRoundsOf(N)

\* reduce.cpp keeps the rounds in a vector of this length.
CeilLog2(n) == Min({k \in 0 .. n : 2 ^ k >= n})

\* Wrong: the number of empty ranks on the right is not cut.
TreeWide(r, root) ==
    LET state[k \in 1 .. TreeRounds] ==
          IF k = 1
          THEN TreeRound(r, CeilHalf(N), r = root, (r + N - root) % N, (root - 1 - r + N) % N)
          ELSE LET s == state[k - 1]
               IN  TreeRound(r, CeilHalf(s.jump), s.has, s.left, (root - 1 - r + N) % N)
    IN  state

Tree(r, root) ==
    LET state[k \in 1 .. TreeRounds] ==
          IF k = 1
          THEN TreeRound(r, CeilHalf(N), r = root, (r + N - root) % N, (root - 1 - r + N) % N)
          ELSE LET s == state[k - 1] IN TreeRound(r, CeilHalf(s.jump), s.has, s.left, s.right)
    IN  state

\* A chain of the nodes seq[1], seq[2], ...
Chain(seq) ==
    {<<seq[i], seq[i + 1]>> : i \in 1 .. Len(seq) - 1}
    \cup (IF seq = << >> THEN {<<Start, End>>}
                         ELSE {<<Start, seq[1]>>, <<seq[Len(seq)], End>>})

BroadcastTree(r, c) ==
    LET tree == Tree(r, c.root)
        active == {k \in 1 .. TreeRounds : tree[k].kind # "none"}
        id(k) == <<tree[k].kind, k>>
        order == [i \in 1 .. Cardinality(active) |->
                     id(CHOOSE k \in active : Cardinality({j \in active : j <= k}) = i)]
    IN  [op |-> [n \in Range(order) |->
                    IF n[1] = "send" THEN Send(tree[n[2]].peer, <<"buf", 0>>)
                                     ELSE Recv(tree[n[2]].peer, <<"buf", 0>>)],
         edges |-> Chain(order)]

\* Wrong: a rank sends a chunk in the step in which it receives it.
BroadcastRingEager(r, c) ==
    LET right == Right(r, 1)
        recvs == IF r = c.root THEN {} ELSE {"recv"} \X (0 .. c.nsteps - 1)
        sends == IF right = c.root THEN {} ELSE {"send"} \X (0 .. c.nsteps - 1)
        ids == recvs \cup sends
    IN  [op |-> [id \in ids |-> IF id[1] = "recv" THEN Recv(Left(r, 1), <<"buf", id[2]>>)
                                                  ELSE Send(right, <<"buf", id[2]>>)],
         edges |-> Unordered(ids)]

\* Chunk k starts at k * StepSize.  What is left of the buffer there is
\* computed in a size_t: a negative number becomes a huge one, so that the
\* minimum is StepSize again.
StepSize(c) == (c.size + c.nsteps - 1) \div c.nsteps
ActualSize(c, k) ==
    LET rest == c.size - k * StepSize(c)
    IN  IF rest < 0 THEN StepSize(c) ELSE Min({StepSize(c), rest})

\* In step s a rank receives chunk s and sends chunk s - 1.  The root has
\* nothing to do in the first step, its left neighbour in the last.
BroadcastRing(r, c) ==
    LET right == Right(r, 1)
        recvs == IF r = c.root THEN {} ELSE {"recv"} \X (0 .. c.nsteps - 1)
        sends == IF right = c.root THEN {} ELSE {"send"} \X (1 .. c.nsteps)
        idle(s) == (s = 0 /\ r = c.root) \/ (s = c.nsteps /\ right = c.root)
        mids == {<<"step", s>> : s \in {s \in 0 .. c.nsteps - 1 : ~idle(s)}}
        next(s) == IF s = c.nsteps THEN End ELSE <<"step", s>>
        prev(s) == IF s = 0 \/ idle(s - 1) THEN Start ELSE <<"step", s - 1>>
        ids == recvs \cup sends
    IN  [op |-> [id \in ids \cup mids |->
                    CASE id[1] = "recv" -> Recv(Left(r, 1), <<"buf", id[2]>>)
                      [] id[1] = "send" -> Send(right, <<"buf", id[2] - 1>>)
                      [] id[1] = "step" -> Dummy],
         edges |-> {<<prev(id[2]), id>> : id \in ids} \cup {<<id, next(id[2])>> : id \in ids}
                   \cup (IF idle(c.nsteps) THEN {<<prev(c.nsteps), End>>} ELSE {})]

-----------------------------------------------------------------------------
(* reduce.cpp: the tree from the leaves to the root, the messages reversed. *)

\* Where rank r receives and where it combines: recvbuf at the root, memory of
\* its own elsewhere, and one buffer for both when one child is all there is.
ReduceBuffers(r, c, children) ==
    LET data == IF r = c.root THEN (IF c.inplace THEN <<"send", 0>> ELSE <<"recv", 0>>)
                              ELSE <<"data", 0>>
        shared == children = 1 /\ (r = c.root => ~c.inplace)
    IN  [data |-> data, tmp |-> IF shared THEN data ELSE <<"tmp", 0>>]

ReduceTree(r, c) ==
    LET tree == Tree(r, c.root)
        children == {k \in 1 .. TreeRounds : tree[k].kind = "send"}
        b == ReduceBuffers(r, c, Cardinality(children))
        parent == {k \in 1 .. TreeRounds : tree[k].kind = "recv"}
        ordered == [i \in 1 .. Cardinality(children) |->
                       CHOOSE k \in children : Cardinality({j \in children : j >= k}) = i]
        first == IF children = {} THEN 0 ELSE ordered[1]
        steps == [i \in 1 .. 2 * Len(ordered) |->
                     <<IF i % 2 = 1 THEN "recv" ELSE "reduce", ordered[CeilHalf(i)]>>]
        seq == steps \o [i \in 1 .. Cardinality(parent) |-> <<"send", Max(parent)>>]
    IN  [op |-> [id \in Range(seq) |->
                    CASE id[1] = "recv" -> Recv(tree[id[2]].peer, b.tmp)
                      [] id[1] = "reduce" ->
                            Reduce(b.tmp, IF id[2] = first THEN <<"send", 0>> ELSE b.data, b.data)
                      [] id[1] = "send" ->
                            Send(tree[id[2]].peer, IF children = {} THEN <<"send", 0>> ELSE b.data)],
         edges |-> Chain(seq)]

-----------------------------------------------------------------------------
(* reduce_scatter.cpp, allreduce.cpp *)

\* The receives of the direct algorithm, the chain of reductions into dst, and
\* the release of the temporary buffer after the last of them.
DirectReductions(r, dst) ==
    [op |-> [id \in ({"recv", "reduce"} \X (1 .. N - 1)) \cup {<<"free", 0>>} |->
                CASE id[1] = "recv" -> Recv(Right(r, id[2]), <<"tmp", id[2]>>)
                  [] id[1] = "reduce" -> Reduce(<<"tmp", id[2]>>, dst, dst)
                  [] id[1] = "free" -> Free],
     edges |-> {<<Start, <<"recv", i>> >> : i \in 1 .. N - 1}
               \cup {<< <<"recv", i>>, <<"reduce", i>> >> : i \in 1 .. N - 1}
               \cup {<< <<"reduce", i - 1>>, <<"reduce", i>> >> : i \in 2 .. N - 1}
               \cup {<< <<"reduce", N - 1>>, <<"free", 0>> >>, << <<"free", 0>>, End>>}]

ReduceScatterDst(r, c) == IF c.inplace THEN <<"send", r>> ELSE <<"recv", 0>>

ReduceScatter(r, c) ==
    LET d == DirectReductions(r, ReduceScatterDst(r, c))
        sends == {<<"send", i>> : i \in 1 .. N - 1}
    IN  [op |-> d.op @@ [id \in sends |-> Send(Right(r, id[2]), <<"send", Right(r, id[2])>>)],
         edges |-> d.edges \cup Unordered(sends)]

AllreduceDst(c) == IF c.inplace THEN <<"send", 0>> ELSE <<"recv", 0>>

\* In place, the data sent is a copy at the head of the temporary buffer.
Allreduce(r, c) ==
    LET d == DirectReductions(r, AllreduceDst(c))
        sends == {<<"send", i>> : i \in 1 .. N - 1}
        from == IF c.inplace THEN <<"tmp", 0>> ELSE <<"send", 0>>
    IN  [op |-> d.op @@ [id \in sends |-> Send(Right(r, id[2]), from)],
         edges |-> d.edges \cup {Start} \X sends \cup sends \X {<<"free", 0>>}]

-----------------------------------------------------------------------------
(* gather.cpp, alltoall.cpp *)

\* fromBlock[p] is the block of the send buffer that goes to p.
Exchange(r, fromBlock) ==
    LET ids == {"recv", "send"} \X Others(r)
    IN  [op |-> [id \in ids |-> IF id[1] = "recv" THEN Recv(id[2], <<"recv", id[2]>>)
                                                  ELSE Send(id[2], <<"send", fromBlock[id[2]]>>)],
         edges |-> Unordered(ids)]

Allgather(r) == Exchange(r, [p \in Others(r) |-> 0])

Alltoall(r) == Exchange(r, [p \in Others(r) |-> p])
=============================================================================
