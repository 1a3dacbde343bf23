---------------------------- MODULE MCCompletion ----------------------------
(***************************************************************************)
(* The completion objects that keep state over several operations, a graph *)
(* that is started again, a graph that deletes itself and signals another  *)
(* completion object, a synchronizer of threshold three, and one of        *)
(* threshold one, where signal takes another path; and the lock-free       *)
(* objects of LCT: the array queues of the three kinds (LctQueue) in a     *)
(* release build, the fetch-and-add kind with four and with five threads   *)
(* and in a debug build, and the thread barrier (ThreadBarrier).  One      *)
(* object shares nothing with another, so a behaviour is about a single    *)
(* one, which its first state chooses; the others stay as they are.        *)
(*                                                                         *)
(* The graph has a fork, a join, a node with three successors and an end   *)
(* with three predecessors:                                                *)
(*                                                                         *)
(*        start -> a, b      a -> c      b -> c, d, end                    *)
(*                           c -> end    d -> end                          *)
(***************************************************************************)
EXTENDS ThreadBarrier, TLC

CONSTANTS a, b, c, d, start, end, main, t1, t2, \* the graphs
          s1, s2, s3, w1, w2,                   \* the synchronizers
          p1, p2, c1, c2, c3                    \* the queues

VARIABLES object,
          signals_received, posted, stack, freed, comp_signals, starts,
          triggered, completed,
          m_top, m_top2, m_tail, statuses, sync_posted, out, local,
          top, bot, top2, bot2, data, tag, queue_local, returned

Graphs == {"graph", "graph with comp"}

Synchronizers == {"sync", "sync of one"}

MCOutEdges ==
    start :> <<a, b>> @@ a :> <<c>> @@ b :> <<c, end, d>> @@ c :> <<end>>
    @@ d :> <<end>>

G(o) == INSTANCE Graph WITH
    Nodes <- {a, b, c, d}, Start <- start, End <- end, OutEdges <- MCOutEdges,
    Main <- main,
    Threads <- IF o = "graph" THEN {t1, t2} ELSE {t1},
    Outcomes <- IF o = "graph" THEN {"done", "posted"} ELSE {"posted"},
    AutoFree <- o = "graph with comp",
    MaxStarts <- IF o = "graph" THEN 2 ELSE 1

S(o) == INSTANCE Sync WITH
    Testers <- {w1, w2},
    Signallers <- IF o = "sync" THEN {s1, s2, s3} ELSE {s1, s2},
    Threshold <- IF o = "sync" THEN 3 ELSE 1,
    MaxRounds <- IF o = "sync" THEN 2 ELSE 4,
    posted <- sync_posted

Queues == {"faa", "faa of five", "cas", "basic", "faa, debug"}

Q(q) == INSTANCE LctQueue WITH
    Producers <- {p1, p2},
    Consumers <- IF q \in {"faa", "faa, debug"} THEN {c1, c2} ELSE {c1, c2, c3},
    Kind <- IF q \in {"cas", "basic"} THEN q ELSE "faa",
    Capacity <- 2,
    Debug <- q = "faa, debug",
    RoomByCount <- FALSE,
    MaxPush <- 5,
    local <- queue_local

ASSUME QueueConstants == \A q \in Queues : Q(q)!LctQueueAssumption

ASSUME GraphConstants == \A o \in Graphs : G(o)!GraphAssumption

ASSUME SyncConstants == \A o \in Synchronizers : S(o)!SyncAssumption

graphVars ==
    <<signals_received, posted, stack, freed, comp_signals, starts, triggered,
      completed>>

syncVars == <<m_top, m_top2, m_tail, statuses, sync_posted, out, local>>

queueVars == <<top, bot, top2, bot2, data, tag, queue_local, returned>>

mcVars == <<object, graphVars, syncVars, queueVars, vars>>

MCInit ==
    /\ object \in Graphs \cup Synchronizers \cup Queues \cup {"barrier"}
    /\ \E o \in Graphs :
          (IF object \in Graphs THEN o = object ELSE o = "graph") /\ G(o)!Init
    /\ \E o \in Synchronizers :
          (IF object \in Synchronizers THEN o = object ELSE o = "sync") /\ S(o)!Init
    /\ \E q \in Queues :
          (IF object \in Queues THEN q = object ELSE q = "faa") /\ Q(q)!Init
    /\ Init

\* The users of a queue and of the barrier stop at their bounds.
AtBound == object \in Queues \cup {"barrier"} /\ UNCHANGED mcVars

MCNext ==
    \/ /\ UNCHANGED object
       /\ \/ \E o \in Graphs :
                object = o /\ G(o)!Next /\ UNCHANGED <<syncVars, queueVars, vars>>
          \/ \E o \in Synchronizers :
                object = o /\ S(o)!Next /\ UNCHANGED <<graphVars, queueVars, vars>>
          \/ \E q \in Queues :
                object = q /\ Q(q)!Next /\ UNCHANGED <<graphVars, syncVars, vars>>
          \/ object = "barrier" /\ Next /\ UNCHANGED <<graphVars, syncVars, queueVars>>
    \/ AtBound

\* The network completes what was posted, and threads that progress or test
\* keep doing so; compare_exchange_weak does not fail spuriously for ever.
\* Threads run on inside the barrier and inside push, and consumers keep
\* polling; nobody has to push.
MCFairSpec ==
    /\ MCInit /\ [][MCNext]_mcVars
    /\ \A t \in {main, t1, t2} :
          WF_graphVars(object = "graph" /\ G("graph")!Run(t))
    /\ WF_graphVars(object = "graph" /\ \E t \in {t1, t2} : G("graph")!Signal(t))
    /\ \A t \in {s1, s2, s3} : WF_syncVars(
          object = "sync" /\ (S("sync")!SignalTop(t) \/ S("sync")!Signal(t)))
    /\ \A t \in {w1, w2} :
          /\ WF_syncVars(object = "sync" /\ S("sync")!Test(t))
          /\ SF_syncVars(object = "sync" /\ S("sync")!TestCas(t))
    /\ \A t \in Threads : WF_vars(object = "barrier" /\ Step(t))
    /\ \A t \in {p1, p2} : WF_queueVars(object = "faa" /\
          (Q("faa")!PushWrite(t) \/ Q("faa")!PushTag(t) \/ Q("faa")!PushTop2(t)))
    /\ \A t \in {c1, c2} : WF_queueVars(object = "faa" /\ Q("faa")!Pop(t))

-----------------------------------------------------------------------------
\* The state is well typed, and the assertions of graph_t::mark_complete and
\* sync_t::signal on the number of signals hold ("Receive more signals than
\* expected"); with one progress thread and nodes that are posted, nothing
\* touches a graph that has deleted itself.
CompletionInv ==
    /\ \A o \in Graphs : object = o => G(o)!TypeOK /\ G(o)!SignalsWithinExpected
    /\ \A o \in Synchronizers : object = o => S(o)!TypeOK
    /\ object = "sync" => S("sync")!SignalExpected
    /\ object = "graph with comp" => G("graph with comp")!NoUseAfterDelete

\* A node runs once in each execution, after all its predecessors, and a
\* completion object of the graph is signalled once, after every node
\* (graph_t::mark_complete); when graph_t::test returns done the graph can be
\* started again.
TriggeredInOrder ==
    /\ \A o \in Graphs : object = o => G(o)!TriggeredInOrder
    /\ object = "graph" => G("graph")!DoneMeansReady
    /\ object = "graph with comp" => G("graph with comp")!CompletionSignalledOnce

\* One test takes each round, with the statuses of its operations
\* (sync_t::signal, test).
RoundDelivered == \A o \in Synchronizers : object = o => S(o)!RoundDelivered

\* A pop returns the value pushed at the position it claimed, once; values
\* are returned first in, first out, and none is skipped; and the debug
\* assertion of push holds for the fetch-and-add queue
\* (queue_array_atomic_*.hpp).
QueueReturns ==
    /\ \A q \in Queues : object = q =>
          Q(q)!TypeOK /\ Q(q)!ReturnsWhatWasPushed /\ Q(q)!Fifo
    /\ object = "faa, debug" => Q("faa, debug")!PushAssertHolds

\* A graph that was started completes, and a round whose operations were
\* posted is taken by some test; in the end every thread got through all its
\* rounds of the barrier, and every value pushed has been returned while
\* consumers polled.
EveryStartCompletes ==
    /\ object = "graph" => G("graph")!EveryStartCompletes
    /\ object = "sync" => S("sync")!EveryRoundEnds
    /\ <>[](/\ object = "barrier" => \A t \in Threads : round[t] = MaxRounds
            /\ object = "faa" => \A p \in 0 .. 4 : Q("faa")!Pushed(p) => Q("faa")!Returned(p))
=============================================================================
