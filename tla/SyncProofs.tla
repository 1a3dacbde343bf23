----------------------------- MODULE SyncProofs -----------------------------
(***************************************************************************)
(* Proofs about the thread barrier, for any finite number of threads and   *)
(* any number of rounds, and about the synchronizer, for every threshold,  *)
(* every number of rounds and any number of threads that signal and that   *)
(* test: each round is handed out once and whole, and the assertion of     *)
(* signal holds.                                                           *)
(***************************************************************************)
EXTENDS ThreadBarrier, Sequences, FiniteSetTheorems, TLAPS

CONSTANTS Signallers, Testers, Threshold, SyncRounds

VARIABLES m_top, m_top2, m_tail, statuses, posted, out, sync_local

S == INSTANCE Sync WITH MaxRounds <- SyncRounds, local <- sync_local

-----------------------------------------------------------------------------
(* The thread barrier.                                                     *)

\* The number of threads is a natural number other than zero, as the
\* assertion in the constructor of ThreadBarrier demands.
LEMMA ThreadNum == thread_num_ \in Nat \ {0} /\ IsFiniteSet(Threads)
  <1>1. IsFiniteSet(Threads) /\ Threads # {}  BY ThreadBarrierAssumption
  <1>2. Cardinality(Threads) \in Nat  BY <1>1, FS_CardinalityType
  <1>3. Cardinality(Threads) # 0  BY <1>1, FS_EmptySet
  <1> QED  BY <1>1, <1>2, <1>3 DEF thread_num_

\* Some of the threads are all of them exactly when there are thread_num_.
LEMMA AllCounted ==
  ASSUME NEW A, A \subseteq Threads
  PROVE  /\ IsFiniteSet(A)
         /\ Cardinality(A) \in 0..thread_num_
         /\ (Cardinality(A) = thread_num_) <=> (A = Threads)
  <1>1. IsFiniteSet(A) /\ Cardinality(A) <= Cardinality(Threads)
    BY ThreadNum, FS_Subset
  <1>2. Cardinality(A) \in Nat  BY <1>1, FS_CardinalityType
  <1>3. (Cardinality(A) = Cardinality(Threads)) => A = Threads
    BY ThreadNum, FS_Subset
  <1> QED  BY <1>1, <1>2, <1>3, ThreadNum DEF thread_num_

\* The inductive invariant holds at the start.
LEMMA InitIInv == Init => IInv
  <1> SUFFICES ASSUME Init PROVE IInv  OBVIOUS
  <1> USE DEF Init
  <1>1. TypeOK  BY ThreadNum DEF TypeOK
  <1>2. Here = {}  BY DEF Here, Counted
  <1>3. Closing = {} /\ Resetting = {}  BY DEF Closing, Resetting
  <1>4. Cardinality(Here) = 0 /\ Here # Threads
    BY <1>2, FS_EmptySet, ThreadBarrierAssumption
  <1>5. Tickets  BY DEF Tickets
  <1> QED  BY <1>1, <1>3, <1>4, <1>5 DEF IInv

\* Loading the ticket disturbs no count.
LEMMA ArriveLoadIInv ==
  ASSUME IInv, NEW t \in Threads, ArriveLoad(t)
  PROVE  IInv'
  <1> USE DEF ArriveLoad
  <1>1. TypeOK'  BY DEF IInv, TypeOK
  <1>2. Here' = Here  BY DEF IInv, TypeOK, Here, Counted
  <1>3. Closing' = Closing /\ Resetting' = Resetting
    BY DEF IInv, TypeOK, Closing, Resetting
  <1>4. Tickets'  BY DEF IInv, TypeOK, Tickets
  <1> QED  BY <1>1, <1>2, <1>3, <1>4 DEF IInv

\* Counting in adds the thread to those that are here; it is the last one
\* exactly when all are.
LEMMA ArriveCountIInv ==
  ASSUME IInv, NEW t \in Threads, ArriveCount(t)
  PROVE  IInv'
  <1> USE DEF ArriveCount
  <1>a. TypeOK  BY DEF IInv
  <1>b. pc[t] = "loaded" /\ ticket[t] = step  BY DEF IInv, Tickets
  <1>c. t \notin Here /\ Here \subseteq Threads  BY <1>b DEF Here, Counted
  <1>d. Closing = {} /\ Resetting = {}
    BY <1>c DEF IInv, Closing, Resetting
  <1>e. waiting = Cardinality(Here)  BY <1>d DEF IInv
  <1>1. Here' = Here \cup {t}  BY <1>a, <1>b DEF TypeOK, Here, Counted
  <1>2. Cardinality(Here') = waiting + 1
    BY <1>1, <1>c, <1>e, AllCounted, FS_AddElement
  <1>3. /\ Cardinality(Here') \in 0..thread_num_
        /\ (waiting + 1 = thread_num_) <=> (Here' = Threads)
    <2>1. Here \cup {t} \subseteq Threads  BY <1>c
    <2> QED  BY Zenon, <2>1, <1>1, <1>2, AllCounted
  <1>4. TypeOK'  BY <1>a, <1>2, <1>3, ThreadNum DEF TypeOK
  <1>5. Resetting' = {}  BY <1>a, <1>d DEF TypeOK, Resetting
  <1>6. Closing' = IF Here' = Threads THEN {t} ELSE {}
    <2>1. \A u \in Threads : u # t => pc'[u] = pc[u] /\ pc[u] \notin {"last", "reset"}
      BY <1>a, <1>d DEF TypeOK, Closing
    <2>2. pc'[t] = IF Here' = Threads THEN "last" ELSE "wait"
      BY <1>a, <1>3 DEF TypeOK
    <2> QED  BY <2>1, <2>2 DEF Closing
  <1>7. Tickets'  BY <1>b DEF IInv, TypeOK, Tickets
  <1>8. \A u \in Closing' : Here' = Threads /\ Closing' = {u}  BY <1>6
  <1>9. Closing' = {} => Here' # Threads  BY <1>6
  <1> QED  BY <1>2, <1>4, <1>5, <1>7, <1>8, <1>9 DEF IInv

\* The last thread sets waiting back while everybody else is waiting.
LEMMA ArriveResetIInv ==
  ASSUME IInv, NEW t \in Threads, ArriveReset(t)
  PROVE  IInv'
  <1> USE DEF ArriveReset
  <1>a. TypeOK  BY DEF IInv
  <1>b. t \in Closing  BY DEF Closing
  <1>1. TypeOK'  BY <1>a, ThreadNum DEF TypeOK
  <1>2. Here' = Here  BY <1>a DEF TypeOK, Here, Counted
  <1>3. Closing' = Closing  BY <1>a DEF TypeOK, Closing
  <1>4. t \in Resetting'  BY <1>a DEF TypeOK, Resetting
  <1>5. Tickets'  BY DEF IInv, TypeOK, Tickets
  <1>6. \A u \in Closing' : Here' = Threads /\ Closing' = {u}
    BY <1>2, <1>3 DEF IInv
  <1> QED  BY <1>b, <1>1, <1>3, <1>4, <1>5, <1>6 DEF IInv

\* Raising step opens the next round: nobody is here yet.
LEMMA ArriveStepIInv ==
  ASSUME IInv, NEW t \in Threads, ArriveStep(t)
  PROVE  IInv'
  <1> USE DEF ArriveStep
  <1>a. TypeOK  BY DEF IInv
  <1>b. t \in Closing /\ t \in Resetting  BY DEF Closing, Resetting
  <1>c. Here = Threads /\ Closing = {t} /\ waiting = 0  BY <1>b DEF IInv
  <1>d. \A u \in Threads : ticket[u] = step /\ ticket[u] = round[u]
    BY <1>c DEF IInv, Tickets, Here, Counted
  <1>e. \A u \in Threads : pc'[u] = "wait"
    <2>1. \A u \in Threads : u # t => pc[u] = "wait"
      BY <1>c DEF Here, Counted, Closing
    <2> QED  BY <2>1, <1>a DEF TypeOK
  <1>1. TypeOK'  BY <1>a DEF TypeOK
  <1>2. Here' = {}  BY <1>a, <1>d DEF TypeOK, Here
  <1>3. Closing' = {} /\ Resetting' = {}  BY <1>e DEF Closing, Resetting
  <1>4. Cardinality(Here') = 0 /\ Here' # Threads
    BY <1>2, FS_EmptySet, ThreadBarrierAssumption
  <1>5. Tickets'  BY <1>a, <1>d, <1>e DEF TypeOK, Tickets
  <1> QED  BY <1>c, <1>1, <1>3, <1>4, <1>5 DEF IInv

\* A thread whose test succeeds held the ticket of the round before, so it
\* was not counted among those that are here.
LEMMA TestIInv ==
  ASSUME IInv, NEW t \in Threads, Test(t)
  PROVE  IInv'
  <1> USE DEF Test
  <1>a. TypeOK  BY DEF IInv
  <1>b. ticket[t] + 1 = step /\ ticket[t] = round[t]  BY DEF IInv, Tickets
  <1>1. TypeOK'  BY <1>a DEF TypeOK
  <1>2. Here' = Here  BY <1>a, <1>b DEF TypeOK, Here, Counted
  <1>3. Closing' = Closing /\ Resetting' = Resetting
    BY <1>a DEF TypeOK, Closing, Resetting
  <1>4. Tickets'  BY <1>b DEF IInv, TypeOK, Tickets
  <1> QED  BY <1>1, <1>2, <1>3, <1>4 DEF IInv

\* What the invariant says about the rounds.
LEMMA IInvBarrier == IInv => BarrierHolds
  <1> SUFFICES ASSUME IInv, NEW t \in Threads, NEW u \in Threads,
                      ~(round[t] <= round[u])
               PROVE  round[t] = round[u] + 1 /\ Counted(u)
    BY DEF BarrierHolds
  <1>1. round[t] \in Nat /\ round[u] \in Nat /\ step \in Nat
    BY DEF IInv, TypeOK
  <1>2. round[t] = step \/ round[t] + 1 = step  BY <1>1 DEF IInv, Tickets, TypeOK
  <1>3. \/ round[u] = step
        \/ round[u] + 1 = step /\ pc[u] = "wait"
    BY <1>1 DEF IInv, Tickets, TypeOK
  <1> QED  BY <1>1, <1>2, <1>3 DEF Counted

\* The inductive invariant holds in every reachable state.
THEOREM TicketInvariant == Spec => []IInv
  <1>1. IInv /\ [Next]_vars => IInv'
    <2> SUFFICES ASSUME IInv, [Next]_vars PROVE IInv'  OBVIOUS
    <2>1. CASE UNCHANGED vars
      BY <2>1 DEF vars, IInv, Tickets, TypeOK, Here, Counted, Closing, Resetting
    <2>2. CASE Next
      <3> PICK t \in Threads : Step(t)  BY <2>2 DEF Next
      <3> QED  BY ArriveLoadIInv, ArriveCountIInv, ArriveResetIInv,
                  ArriveStepIInv, TestIInv DEF Step
    <2> QED  BY <2>1, <2>2
  <1> QED  BY <1>1, InitIInv, PTL DEF Spec

\* ThreadBarrier is a barrier, for every number of threads: nobody is a round
\* ahead of a thread that has not arrived.
THEOREM ThreadBarrierHolds == Spec => []BarrierHolds
  BY TicketInvariant, IInvBarrier, PTL

-----------------------------------------------------------------------------
(* The synchronizer.                                                       *)

Base == Len(out) * Threshold    \* the first operation of the current round

Signalling == {t \in Signallers : sync_local[t].pc # "idle"}

LocalType ==
    [pc : {"idle", "tail", "store", "count", "testtail", "cas", "move"},
     status : Int, pos : Int, tail : Int, top2 : Int, p_out : Seq(Int)]

TypeInv ==
    /\ m_top \in Nat /\ m_top2 \in Nat /\ m_tail \in Nat /\ posted \in Nat
    /\ statuses \in [S!Slots -> Int]
    /\ out \in Seq(Seq(Int))
    /\ sync_local \in [S!Callers -> LocalType]

\* Positions, counts and rounds agree; the tail is a round ahead only while
\* the test that took the round moves its statuses, and then nobody signals.
CountInv ==
    /\ Base <= posted /\ posted <= Base + Threshold
    /\ m_top2 + Cardinality(Signalling) = posted
    /\ Threshold > 1 => m_top = posted
    /\ \/ m_tail = Base /\ \A t \in Testers : sync_local[t].pc # "move"
       \/ m_tail = Base + Threshold /\ posted = m_tail /\ Signalling = {}

\* A signal knows the slot of its operation.
SignalInv(t) ==
    /\ sync_local[t].pc \in {"idle", "tail", "store", "count"}
    /\ sync_local[t].pc # "idle" => Base <= sync_local[t].status /\ sync_local[t].status < posted
    /\ sync_local[t].pc = "idle" => sync_local[t] = S!Idle
    /\ sync_local[t].pc = "tail" => sync_local[t].pos = sync_local[t].status
    /\ sync_local[t].pc \in {"store", "count"} =>
          sync_local[t].pos - sync_local[t].tail = sync_local[t].status - Base

Unstored(n) == \E t \in Signallers :
    sync_local[t].pc \in {"tail", "store"} /\ sync_local[t].status = n

\* A test that sees a complete round sees the current one.
TestInv(t) ==
    /\ sync_local[t].pc \in {"idle", "testtail", "cas", "move"}
    /\ sync_local[t].pc # "move" => sync_local[t].p_out = << >>
    /\ sync_local[t].pc = "testtail" => sync_local[t].top2 <= m_top2
    /\ sync_local[t].pc = "cas" => /\ sync_local[t].top2 <= m_top2
                                   /\ sync_local[t].top2 = sync_local[t].tail + Threshold
    /\ sync_local[t].pc = "move" =>
          /\ m_tail = Base + Threshold
          /\ Len(sync_local[t].p_out) <= Threshold
          /\ \A i \in 1 .. Len(sync_local[t].p_out) : sync_local[t].p_out[i] = Base + i - 1

OutInv ==
    \A r \in 1 .. Len(out) : \A i \in 1 .. Threshold :
        out[r][i] = (r - 1) * Threshold + i - 1

SyncInv ==
    /\ TypeInv /\ CountInv /\ OutInv
    /\ \A t \in Signallers : SignalInv(t)
    /\ \A n \in Int : Base <= n /\ n < posted =>
          statuses[n - Base] = n \/ Unstored(n)
    /\ \A t \in Testers : TestInv(t)
    /\ \A t, u \in Testers : sync_local[t].pc = "move" /\ sync_local[u].pc = "move" => t = u

-----------------------------------------------------------------------------
LEMMA Counts ==
  ASSUME S!SyncAssumption, NEW A \in SUBSET Signallers
  PROVE  /\ Cardinality(A) \in Nat
         /\ Cardinality(A) = 0 <=> A = {}
         /\ \A t \in Signallers :
              /\ t \notin A => Cardinality(A \cup {t}) = Cardinality(A) + 1
              /\ t \in A => Cardinality(A \ {t}) = Cardinality(A) - 1
<1>1. S!IsFiniteSet(Signallers) = IsFiniteSet(Signallers)
  BY DEF S!IsFiniteSet, IsFiniteSet
<1>2. IsFiniteSet(A)
  BY <1>1, FS_Subset DEF S!SyncAssumption
<1> QED BY Zenon, <1>2, FS_CardinalityType, FS_EmptySet, FS_AddElement, FS_RemoveElement

LEMMA BaseNat ==
  ASSUME S!SyncAssumption, TypeInv
  PROVE  Base \in Nat /\ Threshold \in Nat \ {0} /\ Len(out) \in Nat
<1>1. Len(out) \in Nat /\ Threshold \in Nat \ {0}
  BY DEF S!SyncAssumption, TypeInv
<1> QED BY <1>1 DEF Base

LEMMA IdleType == S!Idle \in LocalType
BY DEF S!Idle, LocalType, S!NoStatus

LEMMA SyncInvInit == ASSUME S!SyncAssumption, S!Init PROVE SyncInv
<1>1. TypeInv
  BY IdleType DEF S!Init, TypeInv, S!NoStatus
<1>2. Base = 0 /\ Threshold \in Nat \ {0}
  BY DEF S!Init, Base, S!SyncAssumption
<1>3. \A t \in S!Callers : sync_local[t] = S!Idle /\ sync_local[t].pc = "idle"
  BY DEF S!Init, S!Idle
<1>4. Signalling = {}
  BY <1>3 DEF Signalling, S!Callers
<1>5. Cardinality(Signalling) = 0
  BY <1>4, FS_EmptySet
<1>6. CountInv
  BY <1>2, <1>3, <1>5 DEF S!Init, CountInv, S!Callers
<1>7. \A t \in Signallers : SignalInv(t)
  BY <1>3 DEF SignalInv, S!Callers
<1>8. \A t \in Testers : TestInv(t)
  BY <1>3 DEF TestInv, S!Callers, S!Idle
<1>9. OutInv
  BY DEF OutInv, S!Init
<1>10. \A t \in Testers : sync_local[t].pc # "move"
  BY <1>3 DEF S!Callers
<1> QED BY <1>1, <1>2, <1>6, <1>7, <1>8, <1>9, <1>10 DEF SyncInv, S!Init

-----------------------------------------------------------------------------
(* The steps of signal. *)

LEMMA SignalTopInv ==
  ASSUME S!SyncAssumption, SyncInv, NEW t \in Signallers, S!SignalTop(t)
  PROVE  SyncInv'
<1>1. /\ TypeInv /\ CountInv /\ t \in S!Callers /\ t \notin Testers
      /\ SignalInv(t) /\ sync_local[t] \in LocalType
  BY DEF SyncInv, S!SyncAssumption, S!Callers, TypeInv
<1>2. Base \in Nat /\ Threshold \in Nat \ {0} /\ Len(out) \in Nat
  BY <1>1, BaseNat
<1>3. /\ UNCHANGED <<m_top2, m_tail, statuses, out>> /\ Base' = Base
      /\ posted' = posted + 1 /\ sync_local[t].pc = "idle" /\ sync_local[t] = S!Idle
      /\ m_top' = IF Threshold > 1 THEN m_top + 1 ELSE m_top
  BY <1>1 DEF S!SignalTop, S!At, Base, SignalInv
<1>4. posted < Base + Threshold
  <2>1. Threshold * (Len(out) + 1) = Len(out) * Threshold + Threshold
    BY <1>2
  <2> QED BY <1>1, <2>1 DEF S!SignalTop, Base, TypeInv
<1> DEFINE l == [sync_local[t] EXCEPT !.pc = IF Threshold > 1 THEN "tail" ELSE "store",
                                      !.status = posted,
                                      !.pos = IF Threshold > 1 THEN m_top ELSE 0]
<1>4a. sync_local[t].tail = 0 /\ posted \in Int /\ m_top \in Int
  BY <1>1, <1>3 DEF S!Idle, TypeInv
<1>4b. /\ l \in LocalType /\ l.pc = (IF Threshold > 1 THEN "tail" ELSE "store")
       /\ l.status = posted /\ l.tail = 0
       /\ l.pos = (IF Threshold > 1 THEN m_top ELSE 0)
  <2>1. CASE Threshold > 1
    BY Zenon, <1>1, <1>4a, <2>1 DEF LocalType
  <2>2. CASE ~ (Threshold > 1)
    BY Zenon, <1>1, <1>4a, <2>2 DEF LocalType
  <2> QED BY <2>1, <2>2
<1>4c. sync_local' = [sync_local EXCEPT ![t] = l]
  BY DEF S!SignalTop
<1> HIDE DEF l
<1>5. /\ sync_local' \in [S!Callers -> LocalType]
      /\ sync_local'[t].pc = (IF Threshold > 1 THEN "tail" ELSE "store")
      /\ sync_local'[t].status = posted /\ sync_local'[t].tail = 0
      /\ sync_local'[t].pos = (IF Threshold > 1 THEN m_top ELSE 0)
      /\ \A u \in S!Callers : u # t => sync_local'[u] = sync_local[u]
  BY <1>1, <1>4b, <1>4c DEF TypeInv
<1>6. TypeInv'
  BY <1>1, <1>3, <1>5 DEF TypeInv
<1>7. m_tail = Base /\ \A u \in Testers : sync_local[u].pc # "move"
  BY <1>1, <1>2, <1>4 DEF CountInv
<1>8. t \notin Signalling /\ Signalling' = Signalling \cup {t}
  BY <1>3, <1>5 DEF Signalling, S!Callers
<1>9. Cardinality(Signalling') = Cardinality(Signalling) + 1
      /\ Cardinality(Signalling) \in Nat
  BY <1>8, Counts DEF Signalling
<1>10. CountInv'
  <2>1. \A u \in Testers : sync_local'[u].pc # "move"
    BY <1>1, <1>5, <1>7 DEF S!Callers
  <2> QED BY <1>1, <1>2, <1>3, <1>4, <1>7, <1>9, <2>1 DEF CountInv, TypeInv
<1>11. ASSUME NEW u \in Signallers PROVE SignalInv(u)'
  <2>1. CASE u = t
    <3>1. Threshold > 1 => m_top = posted
      BY <1>1 DEF CountInv
    <3>2. Threshold = 1 => posted = Base
      BY <1>1, <1>2, <1>4 DEF CountInv, TypeInv
    <3> QED BY <1>1, <1>2, <1>3, <1>5, <2>1, <3>1, <3>2
            DEF SignalInv, CountInv, TypeInv
  <2>2. CASE u # t
    <3>1. SignalInv(u) /\ sync_local'[u] = sync_local[u] /\ sync_local[u] \in LocalType
      BY <1>1, <1>5, <2>2 DEF SyncInv, S!Callers, TypeInv
    <3> QED BY <1>1, <1>3, <3>1 DEF SignalInv, TypeInv, LocalType
  <2> QED BY <2>1, <2>2
<1>12. ASSUME NEW n \in Int, Base <= n, n < posted + 1
       PROVE  statuses[n - Base] = n \/ Unstored(n)'
  <2>1. CASE n = posted
    BY <1>5, <2>1 DEF Unstored
  <2>2. CASE n < posted
    <3>1. Unstored(n) => Unstored(n)'
      BY <1>3, <1>5 DEF Unstored, S!Callers
    <3> QED BY <1>12, <2>2, <3>1 DEF SyncInv
  <2> QED BY <1>1, <1>12, <2>1, <2>2 DEF TypeInv
<1>13. ASSUME NEW u \in Testers PROVE TestInv(u)' /\ sync_local'[u] = sync_local[u]
  <2>1. TestInv(u) /\ sync_local'[u] = sync_local[u]
    BY <1>1, <1>5 DEF SyncInv, S!Callers
  <2> QED BY <1>3, <2>1 DEF TestInv
<1>14. OutInv'
  BY <1>3 DEF SyncInv, OutInv
<1> QED BY <1>3, <1>6, <1>10, <1>11, <1>12, <1>13, <1>14 DEF SyncInv

\* A signal that is under way goes on to its next access, and may store.
LEMMA SignalGoesOn ==
  ASSUME S!SyncAssumption, SyncInv, NEW t \in Signallers, NEW l \in LocalType,
         sync_local[t].pc # "idle", l.pc \in {"store", "count"},
         l.status = sync_local[t].status,
         l.pos - l.tail = l.status - Base,
         sync_local' = [sync_local EXCEPT ![t] = l],
         UNCHANGED <<m_top, m_top2, m_tail, posted, out>>,
         statuses' \in [S!Slots -> Int],
         \A n \in Int : /\ Base <= n /\ n < posted
                        /\ statuses[n - Base] = n
                        => statuses'[n - Base] = n,
         sync_local[t].pc \in {"tail", "store"} /\ l.pc = "count" =>
            statuses'[l.status - Base] = l.status
  PROVE  SyncInv'
<1>1. /\ TypeInv /\ CountInv /\ t \in S!Callers /\ t \notin Testers
      /\ SignalInv(t) /\ sync_local \in [S!Callers -> LocalType]
  BY DEF SyncInv, S!SyncAssumption, S!Callers, TypeInv
<1>2. Base' = Base /\ Base \in Nat
  BY <1>1, BaseNat DEF Base
<1>3. /\ sync_local' \in [S!Callers -> LocalType] /\ sync_local'[t] = l
      /\ \A u \in S!Callers : u # t => sync_local'[u] = sync_local[u]
  BY <1>1
<1>4. TypeInv'
  BY <1>1, <1>3 DEF TypeInv
<1>5. Signalling' = Signalling
  BY <1>3 DEF Signalling, S!Callers
<1>6. \A u \in Testers : sync_local'[u] = sync_local[u]
  BY <1>1, <1>3 DEF S!Callers
<1>7. CountInv'
  BY <1>1, <1>2, <1>5, <1>6 DEF CountInv
<1>8. ASSUME NEW u \in Signallers PROVE SignalInv(u)'
  <2>1. CASE u = t
    BY <1>1, <1>2, <1>3, <2>1 DEF SignalInv
  <2>2. CASE u # t
    <3>1. SignalInv(u) /\ sync_local'[u] = sync_local[u]
      BY <1>3, <2>2 DEF SyncInv, S!Callers
    <3> QED BY <1>2, <3>1 DEF SignalInv
  <2> QED BY <2>1, <2>2
<1>9. ASSUME NEW n \in Int, Base <= n, n < posted
      PROVE  statuses'[n - Base] = n \/ Unstored(n)'
  <2>1. CASE statuses[n - Base] = n
    BY <1>9, <2>1
  <2>2. CASE Unstored(n)
    <3>1. PICK u \in Signallers :
            sync_local[u].pc \in {"tail", "store"} /\ sync_local[u].status = n
      BY <2>2 DEF Unstored
    <3>2. CASE u # t
      BY <1>3, <3>1, <3>2 DEF Unstored, S!Callers
    <3>3. CASE u = t /\ l.pc = "store"
      BY <1>3, <3>1, <3>3 DEF Unstored
    <3>4. CASE u = t /\ l.pc = "count"
      BY <3>1, <3>4
    <3> QED BY <3>2, <3>3, <3>4
  <2> QED BY <1>9, <2>1, <2>2 DEF SyncInv
<1>10. ASSUME NEW u \in Testers PROVE TestInv(u)'
  <2>1. TestInv(u) /\ sync_local'[u] = sync_local[u]
    BY <1>6 DEF SyncInv
  <2> QED BY Zenon, <1>2, <2>1 DEF TestInv
<1>11. OutInv'
  BY Zenon DEF SyncInv, OutInv
<1> QED BY <1>2, <1>4, <1>6, <1>7, <1>8, <1>9, <1>10, <1>11 DEF SyncInv

LEMMA SignalTailInv ==
  ASSUME S!SyncAssumption, SyncInv, NEW t \in Signallers, S!SignalTail(t)
  PROVE  SyncInv'
<1> DEFINE l == [sync_local[t] EXCEPT !.pc = "store", !.tail = m_tail]
<1>1. /\ TypeInv /\ CountInv /\ SignalInv(t) /\ sync_local[t] \in LocalType
      /\ sync_local[t].pc = "tail" /\ m_tail \in Int
  BY DEF SyncInv, S!Callers, TypeInv, S!SignalTail, S!At
<1>2. /\ l \in LocalType /\ l.pc = "store" /\ l.status = sync_local[t].status
      /\ l.pos = sync_local[t].pos /\ l.tail = m_tail
  BY Zenon, <1>1 DEF LocalType
<1>3. sync_local' = [sync_local EXCEPT ![t] = l]
  BY DEF S!SignalTail
<1> HIDE DEF l
<1>4. t \in Signalling
  BY <1>1 DEF Signalling
<1>5. m_tail = Base
  BY <1>1, <1>4 DEF CountInv
<1>6. l.pos - l.tail = l.status - Base
  BY <1>1, <1>2, <1>5 DEF SignalInv
<1>7. /\ UNCHANGED <<m_top, m_top2, m_tail, posted, out>> /\ statuses' = statuses
      /\ statuses \in [S!Slots -> Int]
  BY <1>1 DEF S!SignalTail, TypeInv
<1> QED BY Zenon, <1>1, <1>2, <1>3, <1>6, <1>7, SignalGoesOn

LEMMA SignalStoreInv ==
  ASSUME S!SyncAssumption, SyncInv, NEW t \in Signallers, S!SignalStore(t)
  PROVE  SyncInv'
<1> DEFINE l == [sync_local[t] EXCEPT !.pc = "count"]
           i == sync_local[t].pos - sync_local[t].tail
<1>1. /\ TypeInv /\ CountInv /\ SignalInv(t) /\ sync_local[t] \in LocalType
      /\ sync_local[t].pc = "store" /\ statuses \in [S!Slots -> Int]
      /\ Base \in Nat /\ Threshold \in Nat \ {0}
  BY BaseNat DEF SyncInv, S!Callers, TypeInv, S!SignalStore, S!At
<1>2. /\ l \in LocalType /\ l.pc = "count" /\ l.status = sync_local[t].status
      /\ l.pos = sync_local[t].pos /\ l.tail = sync_local[t].tail /\ l.status \in Int
  BY Zenon, <1>1 DEF LocalType
<1>3. /\ sync_local' = [sync_local EXCEPT ![t] = l]
      /\ statuses' = [statuses EXCEPT ![i] = l.status]
      /\ UNCHANGED <<m_top, m_top2, m_tail, posted, out>>
  BY <1>2 DEF S!SignalStore
<1>4. i = l.status - Base /\ i \in S!Slots
  BY <1>1, <1>2 DEF SignalInv, CountInv, S!Slots, TypeInv
<1> HIDE DEF l, i
<1>5. /\ statuses' \in [S!Slots -> Int] /\ statuses'[i] = l.status
      /\ \A s \in S!Slots : s # i => statuses'[s] = statuses[s]
  BY <1>1, <1>2, <1>3, <1>4
<1>6. ASSUME NEW n \in Int, Base <= n, n < posted, statuses[n - Base] = n
      PROVE  statuses'[n - Base] = n
  <2>1. n - Base \in S!Slots
    BY <1>1, <1>6 DEF CountInv, S!Slots, TypeInv
  <2>2. n - Base = i => l.status = n
    BY <1>1, <1>2, <1>4
  <2> QED BY <1>5, <1>6, <2>1, <2>2
<1>7. l.pos - l.tail = l.status - Base
  BY <1>2, <1>4 DEF i
<1>8. statuses'[l.status - Base] = l.status
  BY <1>4, <1>5
<1> QED BY Zenon, <1>1, <1>2, <1>3, <1>5, <1>6, <1>7, <1>8, SignalGoesOn

LEMMA SignalCountInv ==
  ASSUME S!SyncAssumption, SyncInv, NEW t \in Signallers, S!SignalCount(t)
  PROVE  SyncInv'
<1>1. /\ TypeInv /\ CountInv /\ t \in S!Callers /\ t \notin Testers
      /\ sync_local \in [S!Callers -> LocalType] /\ sync_local[t].pc = "count"
      /\ m_top2 \in Nat
  BY DEF SyncInv, S!SyncAssumption, S!Callers, TypeInv, S!SignalCount, S!At
<1>2. /\ UNCHANGED <<m_top, m_tail, statuses, posted, out>>
      /\ m_top2' = m_top2 + 1 /\ Base' = Base
      /\ sync_local' = [sync_local EXCEPT ![t] = S!Idle]
  BY DEF S!SignalCount, S!Return, Base
<1>3. /\ sync_local' \in [S!Callers -> LocalType] /\ sync_local'[t] = S!Idle
      /\ \A u \in S!Callers : u # t => sync_local'[u] = sync_local[u]
  BY <1>1, <1>2, IdleType
<1>4. TypeInv'
  BY <1>1, <1>2, <1>3 DEF TypeInv
<1>5. t \in Signalling /\ Signalling' = Signalling \ {t} /\ S!Idle.pc = "idle"
  BY <1>1, <1>3 DEF Signalling, S!Callers, S!Idle
<1>6. /\ Cardinality(Signalling') = Cardinality(Signalling) - 1
      /\ Cardinality(Signalling) \in Nat
  BY <1>5, Counts DEF Signalling
<1>7. \A u \in Testers : sync_local'[u] = sync_local[u]
  BY <1>1, <1>3 DEF S!Callers
<1>8. CountInv'
  BY <1>1, <1>2, <1>5, <1>6, <1>7 DEF CountInv
<1>9. ASSUME NEW u \in Signallers PROVE SignalInv(u)'
  <2>1. CASE u = t
    BY <1>3, <1>5, <2>1 DEF SignalInv
  <2>2. CASE u # t
    <3>1. SignalInv(u) /\ sync_local'[u] = sync_local[u]
      BY <1>3, <2>2 DEF SyncInv, S!Callers
    <3> QED BY <1>2, <3>1 DEF SignalInv
  <2> QED BY <2>1, <2>2
<1>10. ASSUME NEW n \in Int, Base <= n, n < posted
       PROVE  statuses[n - Base] = n \/ Unstored(n)'
  <2>1. Unstored(n) => Unstored(n)'
    BY <1>1, <1>3 DEF Unstored, S!Callers
  <2> QED BY Zenon, <1>10, <2>1 DEF SyncInv
<1>11. ASSUME NEW u \in Testers PROVE TestInv(u)'
  <2>1. TestInv(u) /\ sync_local'[u] = sync_local[u] /\ sync_local[u] \in LocalType
    BY <1>1, <1>7 DEF SyncInv, S!Callers
  <2> QED BY <1>1, <1>2, <2>1 DEF TestInv, LocalType
<1>12. OutInv'
  BY <1>2 DEF SyncInv, OutInv
<1> QED BY <1>2, <1>4, <1>7, <1>8, <1>9, <1>10, <1>11, <1>12 DEF SyncInv

-----------------------------------------------------------------------------
(* The steps of test. *)

\* A test that does not take the round.
LEMMA TesterStep ==
  ASSUME S!SyncAssumption, SyncInv, NEW t \in Testers, NEW l \in LocalType,
         sync_local' = [sync_local EXCEPT ![t] = l],
         UNCHANGED <<m_top, m_top2, m_tail, statuses, posted, out>>,
         TestInv(t)', l.pc = "move" => sync_local[t].pc = "move"
  PROVE  SyncInv'
<1>1. /\ TypeInv /\ CountInv /\ t \in S!Callers /\ t \notin Signallers
      /\ sync_local \in [S!Callers -> LocalType]
  BY DEF SyncInv, S!SyncAssumption, S!Callers, TypeInv
<1>2. Base' = Base
  BY DEF Base
<1>3. /\ sync_local' \in [S!Callers -> LocalType] /\ sync_local'[t] = l
      /\ \A u \in S!Callers : u # t => sync_local'[u] = sync_local[u]
  BY <1>1
<1>4. TypeInv'
  BY <1>1, <1>3 DEF TypeInv
<1>5. \A u \in Signallers : sync_local'[u] = sync_local[u]
  BY <1>1, <1>3 DEF S!Callers
<1>6. Signalling' = Signalling
  BY <1>5 DEF Signalling
<1>7. \A u \in Testers : sync_local'[u].pc = "move" => sync_local[u].pc = "move"
  BY <1>3 DEF S!Callers
<1>8. CountInv'
  BY <1>1, <1>2, <1>6, <1>7 DEF CountInv
<1>9. \A u \in Signallers : SignalInv(u)'
  BY <1>2, <1>5 DEF SyncInv, SignalInv
<1>10. \A n \in Int : Unstored(n)' <=> Unstored(n)
  BY <1>5 DEF Unstored
<1>11. ASSUME NEW u \in Testers PROVE TestInv(u)'
  <2>1. CASE u # t
    <3>1. TestInv(u) /\ sync_local'[u] = sync_local[u]
      BY <1>3, <2>1 DEF SyncInv, S!Callers
    <3> QED BY <1>2, <3>1 DEF TestInv
  <2> QED BY <2>1
<1>12. OutInv'
  BY DEF SyncInv, OutInv
<1> QED BY <1>2, <1>4, <1>7, <1>8, <1>9, <1>10, <1>11, <1>12 DEF SyncInv

LEMMA TestReturnsFalse ==
  ASSUME S!SyncAssumption, SyncInv, NEW t \in Testers, S!Return(t),
         UNCHANGED <<m_top, m_top2, m_tail, statuses, posted, out>>
  PROVE  SyncInv'
<1>1. sync_local' = [sync_local EXCEPT ![t] = S!Idle] /\ sync_local'[t] = S!Idle
  BY DEF S!Return, SyncInv, TypeInv, S!Callers
<1>2. TestInv(t)' /\ S!Idle.pc = "idle"
  BY <1>1 DEF TestInv, S!Idle
<1> QED BY Zenon, <1>1, <1>2, IdleType, TesterStep

LEMMA TestTop2Inv ==
  ASSUME S!SyncAssumption, SyncInv, NEW t \in Testers, S!TestTop2(t)
  PROVE  SyncInv'
<1> DEFINE l == [sync_local[t] EXCEPT !.pc = "testtail", !.top2 = m_top2]
<1>1. /\ sync_local[t] \in LocalType /\ sync_local \in [S!Callers -> LocalType] /\ t \in S!Callers
      /\ sync_local[t].pc = "idle" /\ m_top2 \in Int /\ TestInv(t)
  BY DEF SyncInv, S!Callers, TypeInv, S!TestTop2, S!At
<1>2. /\ l \in LocalType /\ l.pc = "testtail" /\ l.top2 = m_top2
      /\ l.p_out = sync_local[t].p_out
  BY Zenon, <1>1 DEF LocalType
<1>3. /\ sync_local' = [sync_local EXCEPT ![t] = l]
      /\ UNCHANGED <<m_top, m_top2, m_tail, statuses, posted, out>>
  BY DEF S!TestTop2
<1> HIDE DEF l
<1>4. sync_local'[t] = l
  BY <1>1, <1>3
<1>5. TestInv(t)'
  BY <1>1, <1>2, <1>3, <1>4 DEF TestInv
<1> QED BY Zenon, <1>2, <1>3, <1>5, TesterStep

LEMMA TestTailInv ==
  ASSUME S!SyncAssumption, SyncInv, NEW t \in Testers, S!TestTail(t)
  PROVE  SyncInv'
<1>1. CASE S!Return(t)
  BY <1>1, TestReturnsFalse DEF S!TestTail
<1>2. CASE /\ sync_local[t].top2 = m_tail + Threshold
           /\ sync_local' = [sync_local EXCEPT ![t] = [@ EXCEPT !.pc = "cas", !.tail = m_tail]]
  <2> DEFINE l == [sync_local[t] EXCEPT !.pc = "cas", !.tail = m_tail]
  <2>1. /\ sync_local[t] \in LocalType /\ sync_local \in [S!Callers -> LocalType] /\ t \in S!Callers
        /\ sync_local[t].pc = "testtail" /\ m_tail \in Int /\ TestInv(t)
    BY DEF SyncInv, S!Callers, TypeInv, S!TestTail, S!At
  <2>2. /\ l \in LocalType /\ l.pc = "cas" /\ l.top2 = sync_local[t].top2
        /\ l.p_out = sync_local[t].p_out /\ l.tail = m_tail
    BY Zenon, <2>1 DEF LocalType
  <2>3. /\ sync_local' = [sync_local EXCEPT ![t] = l]
        /\ UNCHANGED <<m_top, m_top2, m_tail, statuses, posted, out>>
    BY <1>2 DEF S!TestTail
  <2> HIDE DEF l
  <2>4. sync_local'[t] = l
    BY <2>1, <2>3
  <2>5. TestInv(t)'
    BY <1>2, <2>1, <2>2, <2>3, <2>4 DEF TestInv
  <2> QED BY Zenon, <2>2, <2>3, <2>5, TesterStep
<1> QED BY <1>1, <1>2 DEF S!TestTail

\* The statuses of the round are all stored while a test moves them out.
LEMMA TestMoveInv ==
  ASSUME S!SyncAssumption, SyncInv, NEW t \in Testers, S!TestMove(t)
  PROVE  SyncInv'
<1> DEFINE n == Len(sync_local[t].p_out)
           p == Append(sync_local[t].p_out, statuses[n])
           l == [sync_local[t] EXCEPT !.p_out = p]
<1>1. /\ sync_local[t] \in LocalType /\ sync_local \in [S!Callers -> LocalType] /\ t \in S!Callers
      /\ sync_local[t].pc = "move" /\ TestInv(t) /\ TypeInv /\ CountInv
      /\ sync_local[t].p_out \in Seq(Int) /\ n \in Nat /\ n < Threshold
      /\ Base \in Nat /\ Threshold \in Nat \ {0}
  <2>1. /\ TypeInv /\ CountInv /\ TestInv(t) /\ t \in S!Callers
        /\ Base \in Nat /\ Threshold \in Nat \ {0}
    BY BaseNat DEF SyncInv, S!Callers, S!SyncAssumption
  <2>2. sync_local \in [S!Callers -> LocalType] /\ sync_local[t] \in LocalType
    BY <2>1 DEF TypeInv
  <2>3. sync_local[t].pc = "move" /\ n < Threshold
    BY DEF S!TestMove, S!At
  <2>4. sync_local[t].p_out \in Seq(Int)
    BY <2>2 DEF LocalType
  <2>5. n \in Nat
    BY <2>4
  <2> QED BY <2>1, <2>2, <2>3, <2>4, <2>5, Zenon
<1>2. m_tail = Base + Threshold /\ posted = m_tail /\ Signalling = {}
  BY Zenon, <1>1 DEF TestInv, CountInv
<1>3. statuses[n] = Base + n
  <2>1. ~ Unstored(Base + n)
    BY <1>2 DEF Unstored, Signalling
  <2>2. Base + n \in Int /\ Base <= Base + n /\ Base + n < posted
        /\ (Base + n) - Base = n
    BY <1>1, <1>2
  <2> QED BY Zenon, <2>1, <2>2 DEF SyncInv
<1>4. statuses[n] \in Int
  BY <1>1, <1>3
<1>5. /\ p \in Seq(Int) /\ Len(p) = n + 1
      /\ \A i \in 1 .. n + 1 : p[i] = Base + i - 1
  <2>1. p \in Seq(Int) /\ Len(p) = n + 1
    BY <1>1, <1>4
  <2>2. p[n + 1] = Base + (n + 1) - 1
    BY <1>1, <1>3, <1>4
  <2>3. \A i \in 1 .. n : p[i] = Base + i - 1
    BY <1>1, <1>4 DEF TestInv
  <2> HIDE DEF p, n
  <2>4. ASSUME NEW i \in 1 .. n + 1 PROVE p[i] = Base + i - 1
    <3>1. n \in Nat /\ (i = n + 1 \/ i \in 1 .. n)
      BY <1>1
    <3>2. CASE i = n + 1
      BY <2>2, <3>2
    <3> QED BY <2>3, <3>1, <3>2
  <2> QED BY <2>1, <2>4
<1> HIDE DEF p
<1>6. l \in LocalType /\ l.pc = "move" /\ l.p_out = p
  BY Zenon, <1>1, <1>5 DEF LocalType
<1>7. /\ sync_local' = [sync_local EXCEPT ![t] = l]
      /\ UNCHANGED <<m_top, m_top2, m_tail, statuses, posted, out>>
  BY DEF S!TestMove, p
<1> HIDE DEF l
<1>8. sync_local'[t] = l /\ Base' = Base
  BY <1>1, <1>7 DEF Base
<1>9. TestInv(t)'
  <2>1. Len(p) <= Threshold BY <1>1, <1>5
  <2>2. m_tail' = Base' + Threshold BY Zenon, <1>2, <1>7, <1>8
  <2>3. \A i \in 1 .. Len(p) : p[i] = Base' + i - 1 BY Zenon, <1>5, <1>8
  <2> QED BY Zenon, <1>6, <1>8, <2>1, <2>2, <2>3 DEF TestInv
<1> QED BY Zenon, <1>1, <1>6, <1>7, <1>9, TesterStep

\* The test that moves the tail finds the round complete and nobody signalling.
LEMMA TestCasInv ==
  ASSUME S!SyncAssumption, SyncInv, NEW t \in Testers, S!TestCas(t)
  PROVE  SyncInv'
<1> DEFINE l == [sync_local[t] EXCEPT !.pc = "move"]
<1>1. /\ sync_local[t] \in LocalType /\ sync_local \in [S!Callers -> LocalType]
      /\ t \in S!Callers /\ t \notin Signallers
      /\ sync_local[t].pc = "cas" /\ TestInv(t) /\ TypeInv /\ CountInv
      /\ Base \in Nat /\ Threshold \in Nat \ {0}
  BY BaseNat DEF SyncInv, S!SyncAssumption, S!Callers, TypeInv, S!TestCas, S!At
<1>2. /\ l \in LocalType /\ l.pc = "move" /\ l.p_out = sync_local[t].p_out
  BY Zenon, <1>1 DEF LocalType
<1>3. /\ sync_local' = [sync_local EXCEPT ![t] = l] /\ m_tail' = sync_local[t].top2
      /\ m_tail = sync_local[t].tail
      /\ UNCHANGED <<m_top, m_top2, statuses, posted, out>> /\ Base' = Base
  BY DEF S!TestCas, Base
<1> HIDE DEF l
<1>4. /\ sync_local' \in [S!Callers -> LocalType] /\ sync_local'[t] = l
      /\ \A u \in S!Callers : u # t => sync_local'[u] = sync_local[u]
  BY <1>1, <1>2, <1>3
<1>5. Cardinality(Signalling) \in Nat
  BY Counts DEF Signalling
<1>6. /\ m_tail = Base /\ m_top2 = Base + Threshold /\ posted = Base + Threshold
      /\ m_tail' = Base + Threshold /\ Cardinality(Signalling) = 0
      /\ \A u \in Testers : sync_local[u].pc # "move"
  <2>1. /\ sync_local[t].top2 <= m_top2 /\ sync_local[t].top2 = sync_local[t].tail + Threshold
        /\ m_tail' = sync_local[t].top2 /\ m_tail = sync_local[t].tail
    BY Zenon, <1>1, <1>3 DEF TestInv
  <2>2. /\ m_tail \in Nat /\ m_top2 \in Nat /\ posted \in Nat /\ posted <= Base + Threshold
        /\ m_top2 + Cardinality(Signalling) = posted /\ Base \in Nat /\ Threshold \in Nat \ {0}
    BY Zenon, <1>1 DEF CountInv, TypeInv
  <2>3. m_tail + Threshold <= m_top2 /\ m_tail' = m_tail + Threshold BY Zenon, <2>1
  <2>4. m_tail # Base + Threshold BY <1>5, <2>2, <2>3
  <2>5. m_tail = Base /\ \A u \in Testers : sync_local[u].pc # "move"
    BY Zenon, <1>1, <2>4 DEF CountInv
  <2>6. /\ m_top2 = Base + Threshold /\ posted = Base + Threshold
        /\ Cardinality(Signalling) = 0
    BY <1>5, <2>2, <2>3, <2>5
  <2> QED BY Zenon, <2>3, <2>5, <2>6
<1>7. Signalling = {}
  BY <1>6, Counts DEF Signalling
<1>8. \A u \in Signallers : sync_local'[u] = sync_local[u]
  BY <1>1, <1>4 DEF S!Callers
<1>9. Signalling' = Signalling
  BY <1>8 DEF Signalling
<1>10. TypeInv'
  BY <1>1, <1>3, <1>4, <1>6 DEF TypeInv
<1>11. CountInv'
  BY <1>1, <1>3, <1>6, <1>7, <1>9 DEF CountInv
<1>12. \A u \in Signallers : SignalInv(u)'
  BY <1>3, <1>8 DEF SyncInv, SignalInv
<1>13. \A n \in Int : Unstored(n)' <=> Unstored(n)
  BY <1>8 DEF Unstored
<1>14. ASSUME NEW u \in Testers PROVE TestInv(u)'
  <2>1. CASE u = t
    <3>1. l.p_out = << >> BY Zenon, <1>1, <1>2 DEF TestInv
    <3>2. Len(<< >>) <= Threshold /\ \A i \in 1 .. Len(<< >>) : FALSE BY <1>1
    <3>3. m_tail' = Base' + Threshold BY Zenon, <1>3, <1>6
    <3> QED BY Zenon, <1>2, <1>4, <2>1, <3>1, <3>2, <3>3 DEF TestInv
  <2>2. CASE u # t
    <3>1. TestInv(u) /\ sync_local'[u] = sync_local[u] /\ sync_local[u].pc # "move"
      BY Zenon, <1>4, <1>6, <2>2 DEF SyncInv, S!Callers
    <3> QED BY Zenon, <1>3, <3>1 DEF TestInv
  <2> QED BY <2>1, <2>2
<1>15. \A u \in Testers : sync_local'[u].pc = "move" => u = t
  BY <1>4, <1>6 DEF S!Callers
<1>16. OutInv'
  BY Zenon, <1>3 DEF SyncInv, OutInv
<1> QED BY <1>3, <1>10, <1>11, <1>12, <1>13, <1>14, <1>15, <1>16 DEF SyncInv

\* The test that took the round returns it, and the next round begins.
LEMMA TestReturnInv ==
  ASSUME S!SyncAssumption, SyncInv, NEW t \in Testers, S!TestReturn(t)
  PROVE  SyncInv'
<1> DEFINE p == sync_local[t].p_out
<1>1. /\ sync_local[t] \in LocalType /\ sync_local \in [S!Callers -> LocalType]
      /\ t \in S!Callers /\ t \notin Signallers
      /\ sync_local[t].pc = "move" /\ TestInv(t) /\ TypeInv /\ CountInv
      /\ p \in Seq(Int) /\ Len(p) = Threshold
      /\ Base \in Nat /\ Threshold \in Nat \ {0} /\ Len(out) \in Nat
  BY Zenon, BaseNat DEF SyncInv, S!SyncAssumption, S!Callers, TypeInv, S!TestReturn, S!At, LocalType
<1>2. /\ sync_local' = [sync_local EXCEPT ![t] = S!Idle] /\ out' = Append(out, p)
      /\ UNCHANGED <<m_top, m_top2, m_tail, statuses, posted>>
  BY DEF S!TestReturn, S!Return
<1>3. /\ sync_local' \in [S!Callers -> LocalType] /\ sync_local'[t] = S!Idle
      /\ \A u \in S!Callers : u # t => sync_local'[u] = sync_local[u]
  BY <1>1, <1>2, IdleType
<1>4. /\ out' \in Seq(Seq(Int)) /\ Len(out') = Len(out) + 1
      /\ out'[Len(out) + 1] = p
      /\ \A r \in 1 .. Len(out) : out'[r] = out[r]
  BY <1>1, <1>2 DEF TypeInv
<1>5. Base' = Base + Threshold
  BY <1>1, <1>4 DEF Base
<1>6. m_tail = Base + Threshold /\ posted = m_tail /\ Signalling = {}
  BY Zenon, <1>1 DEF TestInv, CountInv
<1>7. \A u \in Testers : sync_local'[u].pc # "move"
  BY <1>1, <1>3 DEF SyncInv, S!Callers, S!Idle
<1>8. \A u \in Signallers : sync_local'[u] = sync_local[u] /\ sync_local[u].pc = "idle"
  BY <1>1, <1>3, <1>6 DEF S!Callers, Signalling
<1>9. Signalling' = Signalling
  BY <1>8 DEF Signalling
<1>10. TypeInv'
  BY Zenon, <1>1, <1>2, <1>3, <1>4 DEF TypeInv
<1>11. CountInv'
  BY <1>1, <1>2, <1>5, <1>6, <1>7, <1>9 DEF CountInv
<1>12. \A u \in Signallers : SignalInv(u)'
  BY Zenon, <1>8 DEF SyncInv, SignalInv
<1>13. ASSUME NEW u \in Testers PROVE TestInv(u)'
  <2>1. CASE u = t
    <3>1. S!Idle.pc = "idle" /\ S!Idle.p_out = << >> BY DEF S!Idle
    <3> QED BY Zenon, <1>3, <2>1, <3>1 DEF TestInv
  <2>2. CASE u # t
    <3>1. TestInv(u) /\ sync_local'[u] = sync_local[u] /\ sync_local'[u].pc # "move"
      BY Zenon, <1>3, <1>7, <2>2 DEF SyncInv, S!Callers
    <3> QED BY Zenon, <1>2, <3>1 DEF TestInv
  <2> QED BY <2>1, <2>2
<1>14. ASSUME NEW r \in 1 .. Len(out) + 1, NEW i \in 1 .. Threshold
       PROVE  out'[r][i] = (r - 1) * Threshold + i - 1
  <2>1. CASE r \in 1 .. Len(out)
    BY Zenon, <1>4, <2>1 DEF SyncInv, OutInv
  <2>2. CASE r = Len(out) + 1
    <3>1. p[i] = Base + i - 1
      BY Zenon, <1>1 DEF TestInv
    <3>2. (r - 1) * Threshold = Base
      BY <1>1, <2>2 DEF Base
    <3> QED BY Zenon, <1>4, <2>2, <3>1, <3>2
  <2> QED BY <1>1, <2>1, <2>2
<1>15. OutInv'
  BY <1>4, <1>14 DEF OutInv
<1>16. \A n \in Int : ~ (Base' <= n /\ n < posted')
  BY <1>1, <1>2, <1>5, <1>6
<1> QED BY Zenon, <1>7, <1>10, <1>11, <1>12, <1>13, <1>15, <1>16 DEF SyncInv

-----------------------------------------------------------------------------
LEMMA SyncInvNext == ASSUME S!SyncAssumption, SyncInv, [S!Next]_S!vars PROVE SyncInv'
<1>1. CASE UNCHANGED S!vars
  <2>1. TypeInv' /\ CountInv' /\ OutInv'
    BY Zenon, <1>1 DEF SyncInv, S!vars, TypeInv, CountInv, OutInv, Base, Signalling
  <2>2. \A t \in Signallers : SignalInv(t)'
    BY Zenon, <1>1 DEF SyncInv, S!vars, SignalInv, Base
  <2>3. \A t \in Testers : TestInv(t)'
    BY Zenon, <1>1 DEF SyncInv, S!vars, TestInv, Base
  <2> QED BY <1>1, <2>1, <2>2, <2>3 DEF SyncInv, S!vars, Base, Unstored
<1>2. ASSUME NEW t \in Signallers, S!SignalTop(t) \/ S!Signal(t) PROVE SyncInv'
  BY <1>2, SignalTopInv, SignalTailInv, SignalStoreInv, SignalCountInv DEF S!Signal
<1>3. ASSUME NEW t \in Testers, S!Test(t) PROVE SyncInv'
  <2>1. CASE S!TestCasFails(t)
    BY <2>1, TestReturnsFalse DEF S!TestCasFails
  <2> QED BY <1>3, <2>1, TestTop2Inv, TestTailInv, TestCasInv, TestMoveInv,
             TestReturnInv DEF S!Test
<1> QED BY <1>1, <1>2, <1>3 DEF S!Next

LEMMA SyncInvariant == ASSUME S!SyncAssumption PROVE S!Spec => []SyncInv
<1>1. S!Init => SyncInv
  BY SyncInvInit
<1>2. SyncInv /\ [S!Next]_S!vars => SyncInv'
  BY SyncInvNext
<1> QED BY <1>1, <1>2, PTL DEF S!Spec

\* For every threshold and any number of threads, the test that returns true
\* in a round hands out the statuses of exactly that round's operations, and
\* it is the only one: the statuses are moved out of the slots after the tail
\* has been given up, and no signal of the next round gets there first.
THEOREM SyncRoundDelivered == ASSUME S!SyncAssumption PROVE S!Spec => []S!RoundDelivered
<1>1. SyncInv => S!RoundDelivered
  <2> SUFFICES ASSUME SyncInv, NEW r \in 1 .. Len(out)
               PROVE  {out[r][i] : i \in 1 .. Threshold} = S!Round(r)
    BY DEF S!RoundDelivered
  <2>1. Len(out) \in Nat /\ Threshold \in Nat \ {0} /\ r \in Nat \ {0}
    BY BaseNat DEF SyncInv
  <2>2. PICK b \in Nat : b = (r - 1) * Threshold
    BY <2>1
  <2>3. PICK e \in Nat : e = r * Threshold
    BY <2>1
  <2>4. e = b + Threshold
    BY <2>1, <2>2, <2>3
  <2>5. S!Round(r) = b .. e - 1
    BY <2>2, <2>3 DEF S!Round
  <2>6. \A i \in 1 .. Threshold : out[r][i] = b + i - 1
    BY Zenon, <2>2 DEF SyncInv, OutInv
  <2>7. \A n \in b .. e - 1 : n - b + 1 \in 1 .. Threshold /\ n = b + (n - b + 1) - 1
    BY <2>1, <2>4
  <2>8. \A i \in 1 .. Threshold : b + i - 1 \in b .. e - 1
    BY <2>1, <2>4
  <2>9. \A n \in S!Round(r) : \E i \in 1 .. Threshold : out[r][i] = n
    BY Zenon, <2>5, <2>6, <2>7
  <2>10. \A i \in 1 .. Threshold : out[r][i] \in S!Round(r)
    BY <2>5, <2>6, <2>8
  <2> QED BY <2>9, <2>10, Zenon
<1> QED BY <1>1, SyncInvariant, PTL

\* The assertion "Receive more signals than expected" of sync_t::signal holds
\* for every threshold: the tail that a signal loads is that of its own round.
THEOREM SyncSignalExpected == ASSUME S!SyncAssumption PROVE S!Spec => []S!SignalExpected
<1>1. SyncInv => S!SignalExpected
  <2> SUFFICES ASSUME SyncInv, NEW t \in Signallers, sync_local[t].pc = "store"
               PROVE  sync_local[t].pos < sync_local[t].tail + Threshold
    BY DEF S!SignalExpected, S!At, S!Expected
  <2>1. /\ sync_local[t] \in LocalType /\ SignalInv(t) /\ CountInv /\ TypeInv
        /\ Base \in Nat /\ Threshold \in Nat \ {0}
    BY BaseNat DEF SyncInv, TypeInv, S!Callers
  <2>2. /\ sync_local[t].pos \in Int /\ sync_local[t].tail \in Int /\ sync_local[t].status \in Int
        /\ posted \in Nat
    BY Zenon, <2>1 DEF LocalType, TypeInv
  <2>3. /\ sync_local[t].pos - sync_local[t].tail = sync_local[t].status - Base
        /\ sync_local[t].status < posted
    BY Zenon, <2>1 DEF SignalInv
  <2>4. posted <= Base + Threshold
    BY Zenon, <2>1 DEF CountInv
  <2> QED BY <2>1, <2>2, <2>3, <2>4
<1> QED BY <1>1, SyncInvariant, PTL
=============================================================================
