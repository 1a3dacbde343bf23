-------------------------------- MODULE Sync --------------------------------
(***************************************************************************)
(* The synchronizer (src/comp/sync.hpp): a completion object that becomes  *)
(* ready after threshold signals and is used again, round after round.     *)
(* Signals come from threads that progress the network, tests from any     *)
(* number of threads; every atomic access is a step.                       *)
(*                                                                         *)
(* The user hands a synchronizer to threshold operations, and to the       *)
(* operations of the next round after a test of this round has returned    *)
(* true (tests/unit/loopback/test_sync.hpp, barrier).  The status of the   *)
(* n-th operation is the number n.                                         *)
(***************************************************************************)
EXTENDS Integers, Sequences, FiniteSets

CONSTANTS
    Signallers, Testers,
    Threshold,
    MaxRounds    \* bound: the number of rounds

SyncAssumption ==
    /\ Signallers \cap Testers = {} /\ IsFiniteSet(Signallers)
    /\ Threshold \in Nat \ {0} /\ MaxRounds \in Nat

VARIABLES
    m_top,      \* positions handed out to signals
    m_top2,     \* signals whose status is stored
    m_tail,     \* signals consumed by tests
    statuses,
    posted,     \* operations that have completed and signal, all rounds
    out,        \* out[r]: what the test that ended round r returned
    local       \* local[t]: where thread t is, and its local variables

vars == <<m_top, m_top2, m_tail, statuses, posted, out, local>>

Slots == 0 .. Threshold - 1
Callers == Signallers \cup Testers
Round(r) == (r - 1) * Threshold .. r * Threshold - 1
NoStatus == -1

Idle == [pc |-> "idle", status |-> NoStatus, pos |-> 0, tail |-> 0, top2 |-> 0, p_out |-> << >>]

Init ==
    /\ m_top = 0 /\ m_top2 = 0 /\ m_tail = 0
    /\ statuses = [i \in Slots |-> NoStatus]
    /\ posted = 0
    /\ out = << >>
    /\ local = [t \in Callers |-> Idle]

At(t, label) == local[t].pc = label
Return(t) == local' = [local EXCEPT ![t] = Idle]

-----------------------------------------------------------------------------
\* signal, entered by the completion of an operation of the current round; it
\* takes a position unless the threshold is one.
SignalTop(t) ==
    /\ At(t, "idle")
    /\ posted < Threshold * (Len(out) + 1) /\ Len(out) < MaxRounds
    /\ posted' = posted + 1
    /\ m_top' = IF Threshold > 1 THEN m_top + 1 ELSE m_top
    /\ local' = [local EXCEPT ![t] =
          [@ EXCEPT !.pc = IF Threshold > 1 THEN "tail" ELSE "store",
                    !.status = posted, !.pos = IF Threshold > 1 THEN m_top ELSE 0]]
    /\ UNCHANGED <<m_top2, m_tail, statuses, out>>

\* Wrong: forgets the signals that earlier rounds consumed.
SignalTailUnread(t) ==
    /\ At(t, "tail")
    /\ local' = [local EXCEPT ![t].pc = "store"]
    /\ UNCHANGED <<m_top, m_top2, m_tail, statuses, posted, out>>

SignalTail(t) ==
    /\ At(t, "tail")
    /\ local' = [local EXCEPT ![t] = [@ EXCEPT !.pc = "store", !.tail = m_tail]]
    /\ UNCHANGED <<m_top, m_top2, m_tail, statuses, posted, out>>

\* The assertion "Receive more signals than expected".
Expected(t) == local[t].pos < local[t].tail + Threshold

SignalStore(t) ==
    /\ At(t, "store") /\ Expected(t)
    /\ statuses' = [statuses EXCEPT ![local[t].pos - local[t].tail] = local[t].status]
    /\ local' = [local EXCEPT ![t].pc = "count"]
    /\ UNCHANGED <<m_top, m_top2, m_tail, posted, out>>

SignalCount(t) ==
    /\ At(t, "count")
    /\ m_top2' = m_top2 + 1
    /\ Return(t)
    /\ UNCHANGED <<m_top, m_tail, statuses, posted, out>>

-----------------------------------------------------------------------------
\* Wrong: looks at the positions handed out, not at the statuses stored.
TestTopEarly(t) ==
    /\ At(t, "idle")
    /\ local' = [local EXCEPT ![t].pc = "testtail", ![t].top2 = posted]
    /\ UNCHANGED <<m_top, m_top2, m_tail, statuses, posted, out>>

TestTop2(t) ==
    /\ At(t, "idle")
    /\ local' = [local EXCEPT ![t] = [@ EXCEPT !.pc = "testtail", !.top2 = m_top2]]
    /\ UNCHANGED <<m_top, m_top2, m_tail, statuses, posted, out>>

\* test returns false unless the round is complete.
TestTail(t) ==
    /\ At(t, "testtail")
    /\ IF local[t].top2 # m_tail + Threshold
       THEN Return(t)
       ELSE local' = [local EXCEPT ![t] = [@ EXCEPT !.pc = "cas", !.tail = m_tail]]
    /\ UNCHANGED <<m_top, m_top2, m_tail, statuses, posted, out>>

\* The round is this test's when the tail has not moved.
TestCas(t) ==
    /\ At(t, "cas") /\ m_tail = local[t].tail
    /\ m_tail' = local[t].top2
    /\ local' = [local EXCEPT ![t].pc = "move"]
    /\ UNCHANGED <<m_top, m_top2, statuses, posted, out>>

\* Another test was first, or compare_exchange_weak failed spuriously.
TestCasFails(t) ==
    /\ At(t, "cas")
    /\ Return(t)
    /\ UNCHANGED <<m_top, m_top2, m_tail, statuses, posted, out>>

\* The statuses are moved out one by one, after the tail has moved.
TestMove(t) ==
    /\ At(t, "move") /\ Len(local[t].p_out) < Threshold
    /\ local' = [local EXCEPT ![t].p_out = Append(@, statuses[Len(@)])]
    /\ UNCHANGED <<m_top, m_top2, m_tail, statuses, posted, out>>

\* test returns true.
TestReturn(t) ==
    /\ At(t, "move") /\ Len(local[t].p_out) = Threshold
    /\ out' = Append(out, local[t].p_out)
    /\ Return(t)
    /\ UNCHANGED <<m_top, m_top2, m_tail, statuses, posted>>

-----------------------------------------------------------------------------
Signal(t) == SignalTail(t) \/ SignalStore(t) \/ SignalCount(t)

Test(t) ==
    \/ TestTop2(t) \/ TestTail(t) \/ TestCas(t) \/ TestCasFails(t)
    \/ TestMove(t) \/ TestReturn(t)

Next ==
    \/ \E t \in Signallers : SignalTop(t) \/ Signal(t)
    \/ \E t \in Testers : Test(t)

Spec == Init /\ [][Next]_vars

\* Operations complete and signal, waiting threads test again and again, and
\* compare_exchange_weak does not fail spuriously for ever.
FairSpec ==
    /\ Spec
    /\ \A t \in Signallers : WF_vars(SignalTop(t) \/ Signal(t))
    /\ \A t \in Testers : WF_vars(Test(t)) /\ SF_vars(TestCas(t))

-----------------------------------------------------------------------------
Operations == 0 .. MaxRounds * Threshold - 1

TypeOK ==
    /\ {m_top, m_top2, m_tail, posted} \subseteq 0 .. MaxRounds * Threshold
    /\ statuses \in [Slots -> Operations \cup {NoStatus}]
    /\ Len(out) <= MaxRounds
    /\ \A t \in Callers : local[t].pc \in
          {"idle", "tail", "store", "count", "testtail", "cas", "move"}

(***************************************************************************)
(* A test that returns true hands out the statuses of the operations of    *)
(* its round, each once, and only one test does so in each round, although *)
(* test gives up the slots (m_tail) before it moves the statuses out of    *)
(* them and signals of a round store in any order (sync_t::signal, test).  *)
(***************************************************************************)
RoundDelivered ==
    \A r \in 1 .. Len(out) : {out[r][i] : i \in 1 .. Threshold} = Round(r)

(***************************************************************************)
(* The assertion "Receive more signals than expected" of sync_t::signal    *)
(* never fails when no more than threshold operations are posted between   *)
(* successful tests: the tail that signal loads is never a round behind.   *)
(***************************************************************************)
SignalExpected == \A t \in Signallers : At(t, "store") => Expected(t)

Rounds(n) == Len(out) >= n

(***************************************************************************)
(* A thread that waits on the synchronizer gets through round after round: *)
(* no interleaving of tests and signals leaves a complete round that no    *)
(* test can take (sync_t::wait).                                           *)
(***************************************************************************)
EveryRoundEnds == <>Rounds(MaxRounds)
=============================================================================
