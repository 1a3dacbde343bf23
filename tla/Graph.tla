------------------------------- MODULE Graph --------------------------------
(***************************************************************************)
(* The completion graph (comp/graph.hpp): a directed acyclic graph of      *)
(* operations.  A node is triggered by the thread that delivers its last   *)
(* signal; the operation of a node either is done at once, and the same    *)
(* thread goes on to its successors, or is posted, and a progress thread   *)
(* goes on when it completes.  Threads walk the graph concurrently and     *)
(* recursively, with nothing but one atomic counter per node.              *)
(***************************************************************************)
EXTENDS Naturals, FiniteSets, Sequences, SequencesExt

CONSTANTS
    Nodes,      \* the nodes added by add_node
    Start, End, \* GRAPH_START and GRAPH_END
    OutEdges,   \* node -> the sequence of its successors, as add_edge built it
    Threads,    \* threads that call progress() and so signal posted nodes
    Main,       \* the thread that starts and tests the graph
    Outcomes,   \* what node functions return: "done", "posted" or either
    AutoFree,   \* the graph was allocated with a completion object (m_comp)
    MaxStarts   \* bound: executions of the graph

Sources == Nodes \cup {Start}

InEdges(n) ==
    {e \in Sources \X (1 .. Cardinality(Nodes) + 1) :
        e[2] <= Len(OutEdges[e[1]]) /\ OutEdges[e[1]][e[2]] = n}

\* Deliberately wrong variant: add_edge counts the signal at the source.
SignalsExpectedAtSource(n) ==
    IF n = End THEN Cardinality(InEdges(n)) ELSE Len(OutEdges[n])

\* signals_expected of a node, m_end_signals_expected for End.
SignalsExpected(n) == Cardinality(InEdges(n))

GraphAssumption ==
    /\ Start # End /\ {Start, End} \cap Nodes = {}
    /\ OutEdges \in [Sources -> Seq(Nodes \cup {End})]
    /\ Main \notin Threads
    /\ Outcomes \subseteq {"done", "posted"}
    /\ AutoFree \in BOOLEAN
    /\ MaxStarts \in Nat
    \* Every node has a predecessor and a successor.
    /\ \A n \in Nodes : InEdges(n) # {} /\ OutEdges[n] # <<>>
    /\ OutEdges[Start] # <<>>

VARIABLES
    signals_received,   \* of every node; End's entry is m_end_signals_received
    posted,             \* nodes whose operation is posted and not yet complete
    stack,              \* the calls of mark_complete each thread is in
    freed,              \* the graph object has been deleted
    comp_signals,       \* history: how often m_comp has been signalled
    starts,             \* history: executions started
    triggered,          \* history: how often each node was triggered
    completed           \* history: how often each node was marked complete

vars == <<signals_received, posted, stack, freed, comp_signals, starts,
          triggered, completed>>

AllThreads == Threads \cup {Main}

(***************************************************************************)
(* A call of mark_complete(node).  at says what the call does next: reset  *)
(* the node's counter, signal the edge-th successor, or compare the number *)
(* of signals it saw with the number expected.                             *)
(***************************************************************************)
Call(n) ==
    [node |-> n, at |-> "reset", edge |-> 1, signals |-> 0, last |-> FALSE]

Calls ==
    [node : Sources, at : {"reset", "signal", "compare"},
     edge : 1 .. Cardinality(Nodes) + 2, signals : Nat, last : BOOLEAN]

Busy(t) == stack[t] # <<>>

Top(t) == Last(stack[t])

SetTop(t, call) == stack' = [stack EXCEPT ![t] = Front(@) \o <<call>>]

Target(call) == OutEdges[call.node][call.edge]

Init ==
    /\ signals_received = [n \in Nodes \cup {Start, End} |-> 0]
    /\ posted = {}
    /\ stack = [t \in AllThreads |-> <<>>]
    /\ freed = FALSE
    /\ comp_signals = 0
    /\ starts = 0
    /\ triggered = [n \in Nodes |-> 0]
    /\ completed = [n \in Sources |-> 0]

-----------------------------------------------------------------------------
\* test(): all signals expected at the end have been received.
TestDone == starts > 0 /\ signals_received[End] = SignalsExpected(End)

\* start(), by a user who waits for one execution before the next.
GraphStart ==
    /\ ~Busy(Main) /\ ~freed
    /\ starts < MaxStarts
    /\ starts = 0 \/ (TestDone /\ ~AutoFree)
    /\ starts' = starts + 1
    /\ signals_received' = [signals_received EXCEPT ![End] = 0]
    /\ stack' = [stack EXCEPT ![Main] = <<Call(Start)>>]
    /\ UNCHANGED <<posted, freed, comp_signals, triggered, completed>>

\* signal(): a progress thread completes a posted operation.
Signal(t) ==
    /\ t \in Threads /\ ~Busy(t)
    /\ \E n \in posted :
         /\ posted' = posted \ {n}
         /\ stack' = [stack EXCEPT ![t] = <<Call(n)>>]
    /\ UNCHANGED <<signals_received, freed, comp_signals, starts, triggered,
                   completed>>

Reset(t) ==
    /\ Busy(t) /\ Top(t).at = "reset"
    /\ signals_received' = [signals_received EXCEPT ![Top(t).node] = 0]
    /\ completed' = [completed EXCEPT ![Top(t).node] = @ + 1]
    /\ SetTop(t, [Top(t) EXCEPT !.at = "signal"])
    /\ UNCHANGED <<posted, freed, comp_signals, starts, triggered>>

\* Deliberately wrong variant: an increment may be lost, as with a load and a
\* store in place of fetch_add.
SignalEdgeStale(t) ==
    /\ Busy(t) /\ Top(t).at = "signal"
    /\ Top(t).edge <= Len(OutEdges[Top(t).node])
    /\ LET n == Target(Top(t))
       IN  /\ \E lost \in {0, 1} :
                 signals_received' = [signals_received EXCEPT ![n] = @ + 1 - lost]
           /\ SetTop(t, [Top(t) EXCEPT !.at = "compare",
                                     !.signals = signals_received[n] + 1])
    /\ UNCHANGED <<posted, freed, comp_signals, starts, triggered, completed>>

SignalEdge(t) ==
    /\ Busy(t) /\ Top(t).at = "signal"
    /\ Top(t).edge <= Len(OutEdges[Top(t).node])
    /\ LET n == Target(Top(t))
       IN  /\ signals_received' = [signals_received EXCEPT ![n] = @ + 1]
           /\ SetTop(t, [Top(t) EXCEPT !.at = "compare",
                                     !.signals = signals_received[n] + 1])
    /\ UNCHANGED <<posted, freed, comp_signals, starts, triggered, completed>>

Past(call) == [call EXCEPT !.at = "signal", !.edge = @ + 1, !.signals = 0]

\* The expected number of signals, as read from the node or the graph.  What
\* is read from a deleted graph is anything.
ExpectedRead(n) ==
    IF freed THEN 0 .. Cardinality(Nodes) + 1 ELSE {SignalsExpected(n)}

\* The last signal of the end completes the graph.
CompareEdge(t) ==
    /\ Busy(t) /\ Top(t).at = "compare"
    /\ \E expected \in ExpectedRead(Target(Top(t))) :
         LET last == Top(t).signals = expected
         IN  /\ last => Target(Top(t)) = End
             /\ SetTop(t, [Past(Top(t)) EXCEPT !.last = @ \/ last])
    /\ UNCHANGED <<signals_received, posted, freed, comp_signals, starts,
                   triggered, completed>>

\* The last signal of a node triggers it: trigger_node calls the node's
\* function, which returns done, or posted.
TriggerNode(t) ==
    /\ Busy(t) /\ Top(t).at = "compare"
    /\ LET n == Target(Top(t))
       IN  /\ n # End /\ Top(t).signals \in ExpectedRead(n)
           /\ triggered' = [triggered EXCEPT ![n] = @ + 1]
           /\ \/ /\ "done" \in Outcomes
                 /\ stack' = [stack EXCEPT ![t] =
                                 Front(@) \o <<Past(Last(@)), Call(n)>>]
                 /\ UNCHANGED posted
              \/ /\ "posted" \in Outcomes
                 /\ posted' = posted \cup {n}
                 /\ SetTop(t, Past(Top(t)))
    /\ UNCHANGED <<signals_received, freed, comp_signals, starts, completed>>

\* Leave mark_complete.  The call that completed the graph deletes it and
\* signals the completion object, if it has one.
LeaveCall(t) ==
    /\ Busy(t) /\ Top(t).at = "signal"
    /\ Top(t).edge > Len(OutEdges[Top(t).node])
    /\ stack' = [stack EXCEPT ![t] = Front(@)]
    /\ IF Top(t).last /\ AutoFree
       THEN freed' = TRUE /\ comp_signals' = comp_signals + 1
       ELSE UNCHANGED <<freed, comp_signals>>
    /\ UNCHANGED <<signals_received, posted, starts, triggered, completed>>

Run(t) ==
    \/ Reset(t) \/ SignalEdge(t) \/ CompareEdge(t) \/ TriggerNode(t)
    \/ LeaveCall(t)

\* The user tests the graph, or the completion object it was given.
GraphTest ==
    /\ ~Busy(Main) /\ starts > 0
    /\ UNCHANGED vars

Next == GraphStart \/ GraphTest \/ \E t \in AllThreads : Signal(t) \/ Run(t)

Spec == Init /\ [][Next]_vars

\* The network completes what was posted, and progress threads run.
Fairness ==
    /\ \A t \in AllThreads : WF_vars(Run(t))
    /\ WF_vars(\E t \in Threads : Signal(t))

FairSpec == Spec /\ Fairness

-----------------------------------------------------------------------------
Predecessors(n) == {m \in Sources : n \in ToSet(OutEdges[m])}

(***************************************************************************)
(* Types of the graph's counters and of the calls in progress.             *)
(***************************************************************************)
TypeOK ==
    /\ DOMAIN signals_received = Nodes \cup {Start, End}
    /\ \A n \in DOMAIN signals_received :
         signals_received[n] \in 0 .. SignalsExpected(n)
    /\ posted \subseteq Nodes
    /\ stack \in [AllThreads -> Seq(Calls)]
    /\ freed \in BOOLEAN
    /\ starts \in 0 .. MaxStarts

(***************************************************************************)
(* A node runs once in each execution, and only when every predecessor has *)
(* been marked complete in this execution, whichever threads delivered the *)
(* signals.                                                                *)
(***************************************************************************)
TriggeredInOrder ==
    \A n \in Nodes :
        /\ completed[n] <= triggered[n] /\ triggered[n] <= starts
        /\ \A m \in Predecessors(n) : triggered[n] <= completed[m]

(***************************************************************************)
(* No thread ever counts more signals than the node or the end expects:    *)
(* the assertions in mark_complete never fail, also when the graph is      *)
(* started again.                                                          *)
(***************************************************************************)
SignalsWithinExpected ==
    \A t \in AllThreads : \A i \in 1 .. Len(stack[t]) :
        LET call == stack[t][i]
        IN  call.at = "compare" =>
                call.signals \in 1 .. SignalsExpected(Target(call))

(***************************************************************************)
(* When test() returns done, every node of this execution has completed,   *)
(* nothing is posted, and the counters are ready for the next start (every *)
(* node's signals were reset before its successors were signalled).        *)
(***************************************************************************)
DoneMeansReady ==
    TestDone /\ ~freed =>
        /\ \A n \in Nodes : completed[n] = starts
        /\ posted = {}
        /\ \A n \in Nodes : signals_received[n] = 0

(***************************************************************************)
(* The completion object is signalled once, by whichever call of           *)
(* mark_complete delivered the last signal, and after every node has       *)
(* completed.                                                              *)
(***************************************************************************)
CompletionSignalledOnce ==
    /\ comp_signals <= starts
    /\ comp_signals > 0 => \A n \in Nodes : completed[n] = 1

(***************************************************************************)
(* No call touches a member of the graph or of a node after the graph has  *)
(* been deleted.  (graph.hpp: "we should not access any graph members      *)
(* after this point".)                                                     *)
(***************************************************************************)
NoUseAfterDelete ==
    freed => \A t \in AllThreads : \A i \in 1 .. Len(stack[t]) :
        /\ stack[t][i].at = "signal"
        /\ stack[t][i].edge > Len(OutEdges[stack[t][i].node])

(***************************************************************************)
(* An execution that was started completes: test() returns done.           *)
(***************************************************************************)
EveryStartCompletes ==
    \A k \in 1 .. MaxStarts : starts = k ~> starts > k \/ TestDone

=============================================================================
