--------------------------- MODULE ThreadBarrier ---------------------------
(***************************************************************************)
(* The thread barrier of lct (lct/tbarrier/tbarrier.cpp).  arrive loads    *)
(* step as the ticket, counts itself in waiting, and the last of           *)
(* thread_num_ threads sets waiting back to 0 and then raises step; test   *)
(* says whether step has moved on from the ticket.  Every atomic access is *)
(* a step.  Between arrive and a test that succeeds a thread may do other  *)
(* things, but it does not arrive again.                                   *)
(***************************************************************************)
EXTENDS Integers, FiniteSets

CONSTANTS Threads,    \* the thread_num_ threads that use the barrier
          MaxRounds   \* bound: rounds a thread goes through

ASSUME ThreadBarrierAssumption ==
    /\ IsFiniteSet(Threads) /\ Threads # {}
    /\ MaxRounds \in Nat

VARIABLES waiting,   \* the atomic counter of arrivals
          step,      \* the atomic round number
          pc,        \* where each thread is
          ticket,    \* the ticket each thread holds
          round      \* history: how often each thread has come through

vars == <<waiting, step, pc, ticket, round>>

thread_num_ == Cardinality(Threads)

Init ==
    /\ waiting = 0
    /\ step = 0
    /\ pc = [t \in Threads |-> "idle"]
    /\ ticket = [t \in Threads |-> 0]
    /\ round = [t \in Threads |-> 0]

\* int64_t mstep = step.load()
ArriveLoad(t) ==
    /\ pc[t] = "idle"
    /\ round[t] < MaxRounds
    /\ ticket' = [ticket EXCEPT ![t] = step]
    /\ pc' = [pc EXCEPT ![t] = "loaded"]
    /\ UNCHANGED <<waiting, step, round>>

\* Mutant: the last but one takes itself for the last.
ArriveCountEarly(t) ==
    /\ pc[t] = "loaded"
    /\ waiting' = waiting + 1
    /\ pc' = [pc EXCEPT ![t] = IF waiting + 2 = thread_num_ THEN "last" ELSE "wait"]
    /\ UNCHANGED <<step, ticket, round>>

\* if (++waiting == thread_num_)
ArriveCount(t) ==
    /\ pc[t] = "loaded"
    /\ waiting' = waiting + 1
    /\ pc' = [pc EXCEPT ![t] = IF waiting + 1 = thread_num_ THEN "last" ELSE "wait"]
    /\ UNCHANGED <<step, ticket, round>>

\* Mutant: waiting is not set back.
ResetNothing(t) ==
    /\ pc[t] = "last"
    /\ pc' = [pc EXCEPT ![t] = "reset"]
    /\ UNCHANGED <<waiting, step, ticket, round>>

\* waiting = 0
ArriveReset(t) ==
    /\ pc[t] = "last"
    /\ waiting' = 0
    /\ pc' = [pc EXCEPT ![t] = "reset"]
    /\ UNCHANGED <<step, ticket, round>>

\* step++
ArriveStep(t) ==
    /\ pc[t] = "reset"
    /\ step' = step + 1
    /\ pc' = [pc EXCEPT ![t] = "wait"]
    /\ UNCHANGED <<waiting, ticket, round>>

\* test: ticket != step.  A test that fails changes nothing.
Test(t) ==
    /\ pc[t] = "wait"
    /\ ticket[t] # step
    /\ pc' = [pc EXCEPT ![t] = "idle"]
    /\ round' = [round EXCEPT ![t] = @ + 1]
    /\ UNCHANGED <<waiting, step, ticket>>

Step(t) ==
    \/ ArriveLoad(t) \/ ArriveCount(t) \/ ArriveReset(t) \/ ArriveStep(t)
    \/ Test(t)

Next == \E t \in Threads : Step(t)

Spec == Init /\ [][Next]_vars

\* Every thread keeps running and testing.
FairSpec == Spec /\ \A t \in Threads : WF_vars(Step(t))

-----------------------------------------------------------------------------
TypeOK ==
    /\ waiting \in 0..thread_num_
    /\ step \in Nat
    /\ pc \in [Threads -> {"idle", "loaded", "last", "reset", "wait"}]
    /\ ticket \in [Threads -> Nat]
    /\ round \in [Threads -> Nat]

\* Thread t has counted itself in for its current round.
Counted(t) == pc[t] \in {"last", "reset", "wait"}

\* The barrier holds: when a thread has come through r rounds, every other
\* thread has come through r, or has come through r - 1 and has arrived at
\* the next; nobody is a round ahead of a thread that has not arrived.
BarrierHolds ==
    \A t, u \in Threads :
        \/ round[t] <= round[u]
        \/ round[t] = round[u] + 1 /\ Counted(u)

-----------------------------------------------------------------------------
(* The inductive invariant.  Nobody can fall behind: a thread that has not *)
(* arrived has come through as many rounds as step says.  The threads that *)
(* arrived in the current round are those that hold step as their ticket,  *)
(* waiting counts them, and there is a last one exactly when they are all. *)

Here == {t \in Threads : Counted(t) /\ ticket[t] = step}

Closing == {t \in Threads : pc[t] \in {"last", "reset"}}

Resetting == {t \in Threads : pc[t] = "reset"}

Tickets ==
    \A t \in Threads :
        /\ pc[t] = "idle" => round[t] = step
        /\ pc[t] # "idle" => ticket[t] = round[t]
        /\ pc[t] \in {"loaded", "last", "reset"} => ticket[t] = step
        /\ pc[t] = "wait" => ticket[t] = step \/ ticket[t] + 1 = step

IInv ==
    /\ TypeOK
    /\ Tickets
    /\ \A t \in Closing : Here = Threads /\ Closing = {t}
    /\ Closing = {} => Here # Threads
    /\ IF Resetting = {} THEN waiting = Cardinality(Here) ELSE waiting = 0
=============================================================================
