----------------------------- MODULE Collective -----------------------------
(***************************************************************************)
(* One collective operation carried out by N ranks that enter it at        *)
(* different times.  Each rank runs the program CollPrograms gives it: a   *)
(* node starts when the nodes before it are done, as in Graph.tla.  A      *)
(* send may be done at once (its data has been copied) or only when its    *)
(* receive is matched, and is then read as late as that.  All messages of  *)
(* a collective carry its sequence number as tag and are matched by rank   *)
(* and tag, so that what is between two ranks is matched first come, first *)
(* served; Ordered says whether it also arrives in the order of the sends. *)
(***************************************************************************)
EXTENDS CollPrograms

CONSTANTS
    Calls,     \* the calls considered: [kind, root, inplace, nsteps, size]
    Modes,     \* subset of {"eager", "rdv"}
    Ordered

CollectiveAssumption == Modes \subseteq {"eager", "rdv"} /\ Ordered \in BOOLEAN

VARIABLES
    call,      \* the call all ranks make
    entered,   \* ranks that have made it
    left,      \* ranks that have returned from it, or seen its completion
    graph,     \* graph[r]: what rank r runs
    sent,      \* sent[r]: sends that are posted and not matched (rdv)
    done,      \* done[r]: nodes of rank r that are done
    net,       \* net[r][p]: messages from r to p that are not matched
    buf        \* buf[r]: the blocks of the buffers of rank r

vars == <<call, entered, left, graph, sent, done, net, buf>>

NoGraph == [op |-> << >>, before |-> << >>]
Freed == << <<-1, -1>> >>
Blocks == ({"buf", "send", "recv", "tmp"} \X (0 .. N - 1)) \cup {<<"data", 0>>, <<"none", 0>>}

\* What the user has in the buffers.
Input(r, b) ==
    CASE b[1] = "buf" /\ r = call.root -> << b >>
      [] b[1] = "send" -> << <<r, b[2]>> >>
      [] OTHER -> << >>

Init ==
    /\ call \in Calls
    /\ entered = {} /\ left = {}
    /\ graph = [r \in Ranks |-> NoGraph]
    /\ sent = [r \in Ranks |-> {}]
    /\ done = [r \in Ranks |-> {}]
    /\ net = [r \in Ranks |-> [p \in Ranks |-> << >>]]
    /\ buf = [r \in Ranks |-> [b \in Blocks |-> Input(r, b)]]

ProgramOf(c, r) ==
    CASE c.kind = "barrier" -> Barrier(r)
      [] c.kind = "direct" -> BroadcastDirect(r, c)
      [] c.kind = "tree" -> BroadcastTree(r, c)
      [] c.kind = "ring" -> BroadcastRing(r, c)
      [] c.kind = "reduce" -> ReduceTree(r, c)
      [] c.kind = "reduce_scatter" -> ReduceScatter(r, c)
      [] c.kind = "allreduce" -> Allreduce(r, c)
      [] c.kind = "allgather" -> Allgather(r)
      [] c.kind = "alltoall" -> Alltoall(r)

\* A graph as it is run: its operations and the nodes before each node.
GraphOf(p) ==
    [op |-> p.op,
     before |-> [id \in DOMAIN p.op \cup {End} |->
                    {e[1] : e \in {e \in p.edges : e[2] = id}} \ {Start}]]

OpsOf(r) == graph[r].op
Before(r, id) == graph[r].before[id]

\* Node id of rank r has started and is not done.
Running(r, id) ==
    /\ r \in entered
    /\ id \notin done[r] \cup sent[r]
    /\ Before(r, id) \subseteq done[r]

-----------------------------------------------------------------------------
\* The memcpy a call makes of the rank's own contribution.
CopyOwn(r) ==
    CASE call.kind = "reduce_scatter" /\ ~call.inplace ->
            [buf[r] EXCEPT ![<<"recv", 0>>] = buf[r][<<"send", r>>]]
      [] call.kind = "allreduce" ->
            [buf[r] EXCEPT ![IF call.inplace THEN <<"tmp", 0>> ELSE <<"recv", 0>>] = buf[r][<<"send", 0>>]]
      [] call.kind = "allgather" -> [buf[r] EXCEPT ![<<"recv", r>>] = buf[r][<<"send", 0>>]]
      [] call.kind = "alltoall" -> [buf[r] EXCEPT ![<<"recv", r>>] = buf[r][<<"send", r>>]]
      [] OTHER -> buf[r]

\* A rank makes the call, builds its graph and starts it.
Enter(r) ==
    /\ r \notin entered
    /\ entered' = entered \cup {r}
    /\ graph' = [graph EXCEPT ![r] = GraphOf(ProgramOf(call, r))]
    /\ buf' = [buf EXCEPT ![r] = CopyOwn(r)]
    /\ UNCHANGED <<call, left, sent, done, net>>

PostSend(r, id, mode) ==
    LET op == OpsOf(r)[id]
    IN  /\ op.op = "send" /\ Running(r, id)
        /\ net' = [net EXCEPT ![r][op.peer] =
                      Append(@, [mode |-> mode, id |-> id, at |-> op.at,
                                 payload |-> IF mode = "eager" THEN buf[r][op.at] ELSE << >>])]
        /\ IF mode = "eager"
           THEN done' = [done EXCEPT ![r] = @ \cup {id}] /\ UNCHANGED sent
           ELSE sent' = [sent EXCEPT ![r] = @ \cup {id}] /\ UNCHANGED done
        /\ UNCHANGED <<call, entered, left, graph, buf>>

Removed(s, i) == SubSeq(s, 1, i - 1) \o SubSeq(s, i + 1, Len(s))

\* A posted receive meets the i-th message of its peer.
Match(r, id, i) ==
    LET op == OpsOf(r)[id]
        m == net[op.peer][r][i]
    IN  /\ op.op = "recv" /\ Running(r, id)
        /\ i \in 1 .. Len(net[op.peer][r]) /\ (Ordered => i = 1)
        /\ net' = [net EXCEPT ![op.peer][r] = Removed(@, i)]
        /\ buf' = [buf EXCEPT ![r][op.at] = IF m.mode = "eager" THEN m.payload ELSE buf[op.peer][m.at]]
        /\ done' = [done EXCEPT ![r] = @ \cup {id},
                                ![op.peer] = IF m.mode = "rdv" THEN @ \cup {m.id} ELSE @]
        /\ sent' = [sent EXCEPT ![op.peer] = @ \ {m.id}]
        /\ UNCHANGED <<call, entered, left, graph>>

\* The user's operator, or the release of the temporary buffer.
Local(r, id) ==
    LET op == OpsOf(r)[id]
    IN  /\ op.op \in {"reduce", "dummy", "free"} /\ Running(r, id)
        /\ buf' = [buf EXCEPT ![r] =
                      CASE op.op = "reduce" -> [@ EXCEPT ![op.dst] = buf[r][op.left] \o buf[r][op.right]]
                        [] op.op = "free" -> [b \in Blocks |-> IF b[1] = "tmp" THEN Freed ELSE @[b]]
                        [] op.op = "dummy" -> @]
        /\ done' = [done EXCEPT ![r] = @ \cup {id}]
        /\ UNCHANGED <<call, entered, left, graph, sent, net>>

\* The end of the graph is reached and the call completes.
Leave(r) ==
    /\ r \in entered \ left
    /\ Before(r, End) \subseteq done[r]
    /\ left' = left \cup {r}
    /\ UNCHANGED <<call, entered, graph, sent, done, net, buf>>

AllLeft == left = Ranks

Step(r) ==
    \/ Enter(r)
    \/ Leave(r)
    \/ \E id \in DOMAIN OpsOf(r) :
          \/ \E mode \in Modes : PostSend(r, id, mode)
          \/ \E i \in 1 .. N : Match(r, id, i)
          \/ Local(r, id)

Next == \E r \in Ranks : Step(r)

Spec == Init /\ [][Next]_vars

-----------------------------------------------------------------------------
TypeOK ==
    /\ left \subseteq entered /\ entered \subseteq Ranks
    /\ \A r \in Ranks : /\ done[r] \cup sent[r] \subseteq DOMAIN OpsOf(r)
                        /\ DOMAIN buf[r] = Blocks

Reversed(r) == [i \in 1 .. N |-> (r + N - i) % N]
Combined(r, block) == [i \in 1 .. N |-> <<Reversed(r)[i], block>>]

(***************************************************************************)
(* No rank leaves a barrier before every rank has entered it: the rounds   *)
(* of the dissemination algorithm reach every rank from every rank, for    *)
(* numbers of ranks that are no power of two too (barrier.cpp).            *)
(***************************************************************************)
BarrierHolds == call.kind = "barrier" /\ left # {} => entered = Ranks

(***************************************************************************)
(* A rank that completes a broadcast has every chunk of the root's buffer  *)
(* in its place, whichever algorithm is used (broadcast.cpp).              *)
(***************************************************************************)
BroadcastDelivers ==
    call.kind \in {"direct", "tree", "ring"} =>
        \A r \in left : \A k \in 0 .. (IF call.kind = "ring" THEN call.nsteps - 1 ELSE 0) :
            buf[r][<<"buf", k>>] = << <<"buf", k>> >>

(***************************************************************************)
(* The chunks a ring broadcast sends and receives lie within the buffer    *)
(* (broadcast.cpp, build_graph_ring).                                      *)
(***************************************************************************)
ChunksWithinBuffer ==
    call.kind = "ring" /\ entered # {} =>
        \A k \in 0 .. call.nsteps - 1 : k * StepSize(call) + ActualSize(call, k) <= call.size

(***************************************************************************)
(* The root of a reduce has every rank's contribution once, combined in    *)
(* the order of the ranks from the root, backwards, so that an associative *)
(* operator is enough; the send buffers of the others are as they were     *)
(* (reduce.cpp).                                                           *)
(***************************************************************************)
ReduceCombines ==
    call.kind = "reduce" =>
        \A r \in left :
            IF r = call.root
            THEN buf[r][IF call.inplace THEN <<"send", 0>> ELSE <<"recv", 0>>] = Combined(r, 0)
            ELSE buf[r][<<"send", 0>>] = Input(r, <<"send", 0>>)

(***************************************************************************)
(* A rank that completes an allreduce, or a reduce-scatter for its block,  *)
(* has every contribution once, although in place the result overwrites    *)
(* data that is also sent, and the temporary buffer is freed by a node of  *)
(* the graph (allreduce.cpp, reduce_scatter.cpp).                          *)
(***************************************************************************)
DirectReductionsComplete ==
    \A r \in left :
        /\ call.kind = "allreduce" => buf[r][AllreduceDst(call)] = Combined(r, 0)
        /\ call.kind = "reduce_scatter" => buf[r][ReduceScatterDst(r, call)] = Combined(r, r)

(***************************************************************************)
(* After an allgather a rank has the block of every rank, after an         *)
(* alltoall the block every rank has for it (gather.cpp, alltoall.cpp).    *)
(***************************************************************************)
ExchangeComplete ==
    \A r \in left : \A p \in Ranks :
        /\ call.kind = "allgather" => buf[r][<<"recv", p>>] = << <<p, 0>> >>
        /\ call.kind = "alltoall" => buf[r][<<"recv", p>>] = << <<p, r>> >>

(***************************************************************************)
(* No message is left over when all ranks have left: a later collective    *)
(* that uses the sequence number again would receive it.                   *)
(***************************************************************************)
NothingLeftOver == AllLeft => \A r, p \in Ranks : net[r][p] = << >>

CanStep(r) ==
    \/ r \notin entered
    \/ r \notin left /\ Before(r, End) \subseteq done[r]
    \/ \E id \in DOMAIN OpsOf(r) :
          /\ Running(r, id)
          /\ OpsOf(r)[id].op = "recv" => net[OpsOf(r)[id].peer][r] # << >>

(***************************************************************************)
(* As long as a rank has not left, some rank can take a step: in the trees *)
(* sender and receiver agree on who talks to whom in which round, for any  *)
(* number of ranks and any root (broadcast.cpp, reduce.cpp).               *)
(***************************************************************************)
NeverStuck == AllLeft \/ \E r \in Ranks : CanStep(r)
=============================================================================
