------------------------------ MODULE PmiFile -------------------------------
(***************************************************************************)
(* The shared-file backend of the LCT process manager interface            *)
(* (lct/pmi/pmi_wrapper_file.cpp), which lcrun uses.  Three files in one    *)
(* directory take the place of a server: "nranks" hands out the ranks and  *)
(* says when every process has one, "barrier" holds a tag and a count,     *)
(* "data" holds the published pairs.  flock protects the reads and writes  *)
(* that the code brackets with lock_file and unlock_file, and only those.  *)
(*                                                                         *)
(* reset_file truncates a file and then writes it: a reader without the    *)
(* lock can find the file empty.  A write of a few bytes, or an append, is *)
(* one step.  An epoch is one initialize ... finalize; the directory stays *)
(* from one epoch to the next.                                             *)
(***************************************************************************)
EXTENDS Integers, Sequences, FiniteSets

CONSTANTS Procs,    \* the processes of the job
          Fences,   \* barriers every process calls in an epoch
          Epochs,   \* bound: initialize ... finalize rounds
          MaxFds    \* bound: descriptors a process may have open

PmiFileAssumption ==
    /\ IsFiniteSet(Procs) /\ Cardinality(Procs) > 1
    /\ Fences \in Nat /\ Epochs \in Nat \ {0} /\ MaxFds \in Nat

VARIABLES local,     \* g_rank and the call each process is in
          nranks,    \* contents of the file nranks
          barrier,   \* contents of the file barrier
          data,      \* the lines of the file data
          holder     \* who holds the flock of nranks and of barrier

vars == <<local, nranks, barrier, data, holder>>

-----------------------------------------------------------------------------
NProcs == Cardinality(Procs)

Empty == -1     \* nranks without contents, or just created by open

Free == "free"

FreshLocal(e) == [pc |-> "idle", epoch |-> e, rank |-> -1, seen |-> Empty,
                  tag |-> 0, count |-> 0, fence |-> 0, published |-> FALSE,
                  fds |-> 0]

Goto(p, l) == local' = [local EXCEPT ![p].pc = l]

\* open(): there has to be a descriptor left.
CanOpen(p) == local[p].fds < MaxFds

\* An LCT_Assert fails: the process is gone.
AssertFails(p) ==
    /\ Goto(p, "assert")
    /\ UNCHANGED <<nranks, barrier, data, holder>>

-----------------------------------------------------------------------------
(* initialize *)

ReadNranks(p) ==
    /\ holder' = [holder EXCEPT !.nranks = p]
    /\ local' = [local EXCEPT ![p].pc = "assign", ![p].seen = nranks,
                              ![p].fds = @ + 1]
    /\ UNCHANGED <<nranks, barrier, data>>

\* Mutant: nranks is read without the lock.
LockNranksFree(p) ==
    /\ local[p].pc = "idle"
    /\ local[p].epoch <= Epochs
    /\ ReadNranks(p)

\* nranks is opened, locked and read.
LockNranks(p) ==
    /\ local[p].pc = "idle"
    /\ local[p].epoch <= Epochs
    /\ IF ~CanOpen(p)
       THEN AssertFails(p)
       ELSE /\ holder.nranks = Free
            /\ ReadNranks(p)

\* The rank is the number read, 0 for an empty or new file; the file is
\* truncated ...
AssignRank(p) ==
    /\ local[p].pc = "assign"
    /\ local' = [local EXCEPT ![p].pc = "assigned",
                     ![p].rank = IF local[p].seen < 0 THEN 0 ELSE local[p].seen]
    /\ nranks' = Empty
    /\ UNCHANGED <<barrier, data, holder>>

\* ... and then written, and the lock released.  A rank that is too large
\* fails an assertion; the last rank goes on to create the other files.
CountRank(p) ==
    /\ local[p].pc = "assigned"
    /\ nranks' = local[p].rank + 1
    /\ holder' = [holder EXCEPT !.nranks = Free]
    /\ Goto(p, IF local[p].rank >= NProcs THEN "assert"
               ELSE IF local[p].rank = NProcs - 1 THEN "createBarrier" ELSE "wait")
    /\ UNCHANGED <<barrier, data>>

CreateBarrier(p) ==
    /\ local[p].pc = "createBarrier"
    /\ barrier' = [exists |-> TRUE, tag |-> 0, count |-> 0]
    /\ Goto(p, "createData")
    /\ UNCHANGED <<nranks, data, holder>>

CreateData(p) ==
    /\ local[p].pc = "createData"
    /\ data' = [exists |-> TRUE, lines |-> <<>>]
    /\ Goto(p, "truncate")
    /\ UNCHANGED <<nranks, barrier, holder>>

\* reset_file(fd_nranks, "0") without the lock, in its two steps.
TruncateNranks(p) ==
    /\ local[p].pc = "truncate"
    /\ nranks' = Empty
    /\ Goto(p, "reset")
    /\ UNCHANGED <<barrier, data, holder>>

ResetNranks(p) ==
    /\ local[p].pc = "reset"
    /\ nranks' = 0
    /\ local' = [local EXCEPT ![p].pc = "work", ![p].fds = @ - 1]
    /\ UNCHANGED <<barrier, data, holder>>

\* The others read nranks, without the lock, until it says 0.
WaitNranks(p) ==
    /\ local[p].pc = "wait"
    /\ nranks = 0
    /\ local' = [local EXCEPT ![p].pc = "work", ![p].fds = @ - 1]
    /\ UNCHANGED <<nranks, barrier, data, holder>>

-----------------------------------------------------------------------------
(* publish, barrier, getname *)

\* One pair for each fence, under a key no other call uses; the value tells
\* the epochs apart.
Line(p) == [rank |-> local[p].rank, fence |-> local[p].fence + 1,
            value |-> local[p].epoch]

Publish(p) ==
    /\ local[p].pc = "work"
    /\ local[p].fence < Fences
    /\ ~local[p].published
    /\ IF ~data.exists \/ ~CanOpen(p)
       THEN AssertFails(p)
       ELSE /\ data' = [data EXCEPT !.lines = Append(@, Line(p))]
            /\ local' = [local EXCEPT ![p].published = TRUE]
            /\ UNCHANGED <<nranks, barrier, holder>>

\* barrier is opened, locked and read.
LockBarrier(p) ==
    /\ local[p].pc = "work"
    /\ local[p].fence < Fences
    /\ local[p].published
    /\ IF ~barrier.exists \/ ~CanOpen(p)
       THEN AssertFails(p)
       ELSE /\ holder.barrier = Free
            /\ holder' = [holder EXCEPT !.barrier = p]
            /\ local' = [local EXCEPT ![p].pc = "arrive", ![p].fds = @ + 1,
                             ![p].tag = barrier.tag, ![p].count = barrier.count]
            /\ UNCHANGED <<nranks, barrier, data>>

\* The next contents: the last to arrive starts a new tag.
Arrived(t, n) ==
    [exists |-> TRUE, tag |-> IF n = NProcs - 1 THEN t + 1 ELSE t,
                      count |-> IF n = NProcs - 1 THEN 0 ELSE n + 1]

\* What barrier() leaves behind: the descriptor is not closed.
Returned(p) == [local[p] EXCEPT !.pc = "work", !.fence = @ + 1,
                                !.published = FALSE]

\* The lock is held from the read to the write, so the truncation between
\* them is seen by nobody.
ArriveBarrier(p) ==
    /\ local[p].pc = "arrive"
    /\ barrier' = Arrived(local[p].tag, local[p].count)
    /\ holder' = [holder EXCEPT !.barrier = Free]
    /\ local' = [local EXCEPT ![p] =
                     IF local[p].count = NProcs - 1 THEN Returned(p)
                     ELSE [@ EXCEPT !.pc = "waitTag"]]
    /\ UNCHANGED <<nranks, data>>

\* The others lock, read and unlock until the tag is another one.
WaitTag(p) ==
    /\ local[p].pc = "waitTag"
    /\ holder.barrier = Free
    /\ barrier.tag # local[p].tag
    /\ local' = [local EXCEPT ![p] = Returned(p)]
    /\ UNCHANGED <<nranks, barrier, data, holder>>

\* The lines of data that getname stops at: the first with the key.
Matches(r, f) ==
    {i \in 1..Len(data.lines) : data.lines[i].rank = r /\ data.lines[i].fence = f}

Found(r, f) == data.lines[CHOOSE i \in Matches(r, f) :
                              \A j \in Matches(r, f) : i <= j].value

-----------------------------------------------------------------------------
(* finalize forgets the rank; the files stay.                              *)
Finalize(p) ==
    /\ local[p].pc = "work"
    /\ local[p].fence = Fences
    /\ local' = [local EXCEPT ![p] =
                     [FreshLocal(local[p].epoch + 1) EXCEPT !.fds = local[p].fds]]
    /\ UNCHANGED <<nranks, barrier, data, holder>>

Step(p) ==
    \/ LockNranks(p) \/ AssignRank(p) \/ CountRank(p) \/ CreateBarrier(p)
    \/ CreateData(p) \/ TruncateNranks(p) \/ ResetNranks(p) \/ WaitNranks(p)
    \/ Publish(p) \/ LockBarrier(p) \/ ArriveBarrier(p) \/ WaitTag(p)
    \/ Finalize(p)

\* The directory is new, or left by a job that ended well.
Init ==
    /\ local = [p \in Procs |-> FreshLocal(1)]
    /\ holder = [nranks |-> Free, barrier |-> Free]
    /\ \/ /\ nranks = Empty
          /\ barrier = [exists |-> FALSE, tag |-> 0, count |-> 0]
          /\ data = [exists |-> FALSE, lines |-> <<>>]
       \/ /\ nranks = 0
          /\ barrier = [exists |-> TRUE, tag |-> 1, count |-> 0]
          /\ data = [exists |-> TRUE,
                     lines |-> <<[rank |-> 0, fence |-> 1, value |-> 0]>>]

Next == \E p \in Procs : Step(p)

Spec == Init /\ [][Next]_vars

\* The steps that need a lock.
Lock(p) == LockNranks(p) \/ LockBarrier(p) \/ WaitTag(p)

\* Every process runs and gets the locks it asks for.
FairSpec == Spec /\ \A p \in Procs : WF_vars(Step(p)) /\ SF_vars(Lock(p))

-----------------------------------------------------------------------------
TypeOK ==
    /\ \A p \in Procs : /\ local[p].rank \in -1..NProcs
                        /\ local[p].epoch \in 1..(Epochs + 1)
                        /\ local[p].fence \in 0..Fences
                        /\ local[p].fds \in 0..MaxFds
    /\ nranks \in {Empty} \cup 0..(NProcs + 1)
    /\ holder \in [{"nranks", "barrier"} -> Procs \cup {Free}]

InCalls(p) == local[p].pc \in {"work", "arrive", "waitTag"}

\* initialize gives out different ranks: no two processes of one epoch ever
\* hold the same g_rank, whoever else is reading or writing nranks then.
RanksDistinct ==
    \A p, q \in Procs :
        p # q /\ local[p].epoch = local[q].epoch /\ local[p].rank # -1
            => local[p].rank # local[q].rank

\* barrier() is a barrier over the shared file: a process that came back from
\* fence f finds every other process at its own fence f or beyond, or in a
\* later epoch.
FenceWaits ==
    \A p, q \in Procs :
        InCalls(p) /\ local[p].fence > 0 =>
            \/ local[q].epoch > local[p].epoch
            \/ /\ local[q].epoch = local[p].epoch
               /\ \/ local[q].fence >= local[p].fence
                  \/ local[q].fence = local[p].fence - 1
                     /\ local[q].pc \in {"arrive", "waitTag"}

\* After fence f, getname finds the pair every rank published before its own
\* fence f, with the value of this epoch: nothing is missing and nothing of
\* an earlier job or epoch is found instead.
PublishedIsFound ==
    \A p \in Procs : local[p].pc = "work" =>
        \A r \in 0..(NProcs - 1), f \in 1..local[p].fence :
            Matches(r, f) # {} /\ Found(r, f) = local[p].epoch

\* None of the assertions fails: no rank is too large, and the files that
\* publish and barrier open exist and can be opened.
AssertsHold == \A p \in Procs : local[p].pc # "assert"

AllFinished == \A p \in Procs : local[p].pc = "idle" /\ local[p].epoch > Epochs

=============================================================================
