----------------------------- MODULE PmiWrapper -----------------------------
(***************************************************************************)
(* The front end of LCT's process management (pmi_wrapper.cpp), which      *)
(* counts its initialisations and picks the first available back end of a  *)
(* list, over the back ends that keep archives of their own: local, for    *)
(* one process, and mpi, whose barrier() gathers everyone's local archive  *)
(* into everyone's global one.  In each process an application and LCI use *)
(* the front end from one thread and hold it for overlapping times; a key  *)
(* names its publisher and a round, as LCI's bootstrap forms it.  MPI is   *)
(* external.                                                               *)
(***************************************************************************)
EXTENDS Integers, SequencesExt, FiniteSetsExt

CONSTANTS
    Ranks,                \* 0..(n - 1)
    Users,                \* Users[r]: who initialises the front end in process r
    Backends,             \* the words of LCT_PMI_BACKEND
    Compiled, Available,  \* what the build and the environment allow
    MaxInits, MaxRounds   \* bounds on initialisations and barriers

VARIABLES
    holds,     \* holds[r]: the users that have initialised and not finalised
    count,     \* count[r]: lcti_pmi_init_count
    inited,    \* inited[r]: is_initialized of the back end
    l_archive, g_archive,   \* archives: sequences of [key, value]
    mpi,       \* mpi[r]: the state of MPI, to_finalize_mpi, and whether the back
               \* end was initialised on an MPI that was finalised already
    at,        \* at[r]: "out" of a barrier, "in" one, "gathered", or "aborted"
    box,       \* box[r]: dst_buf
    round,     \* round[r]: barriers that r has left, and so the round of its keys
    since,     \* since[r]: the round in which the back end was initialised
    inits      \* inits[r]: initialisations so far

vars == <<holds, count, inited, l_archive, g_archive, mpi, at, box, round, since, inits>>

\* The first word that is compiled in and available; LCT_Assert: there is one.
Select == Backends[Min({i \in DOMAIN Backends : Backends[i] \in Compiled \cap Available})]

PmiWrapperAssumption ==
    /\ Range(Backends) \cap Compiled \cap Available # {}
    /\ Select = "mpi" \/ (Select = "local" /\ Ranks = {0})

push(archive, k, v) == Append(archive, [key |-> k, value |-> v])

\* The value of the first entry of the key, if there is one.
search(archive, k) ==
    LET found == {i \in DOMAIN archive : archive[i].key = k} IN
    IF found = {} THEN {} ELSE {archive[Min(found)].value}

Init ==
    /\ holds = [r \in Ranks |-> {}] /\ count = [r \in Ranks |-> 0]
    /\ inited = [r \in Ranks |-> FALSE]
    /\ l_archive = [r \in Ranks |-> <<>>] /\ g_archive = [r \in Ranks |-> <<>>]
    /\ \E i \in BOOLEAN :    \* the application may have called MPI_Init
           mpi = [r \in Ranks |-> [initialized |-> i, to_finalize |-> FALSE,
                                 finalized |-> FALSE, late |-> FALSE]]
    /\ at = [r \in Ranks |-> "out"] /\ box = [r \in Ranks |-> <<>>]
    /\ round = [r \in Ranks |-> 0] /\ since = [r \in Ranks |-> 0]
    /\ inits = [r \in Ranks |-> 0]

-----------------------------------------------------------------------------
\* initialize() of the local and of the mpi back end.
local_initialize(r) ==
    /\ inited' = [inited EXCEPT ![r] = TRUE]
    /\ l_archive' = [l_archive EXCEPT ![r] = <<>>]
    /\ since' = [since EXCEPT ![r] = round[r]]

\* MPI_Initialized says yes also of an MPI that was finalised.
mpi_initialize(r) ==
    /\ local_initialize(r)
    /\ g_archive' = [g_archive EXCEPT ![r] = <<>>]
    /\ mpi' = [mpi EXCEPT ![r] = IF @.initialized THEN [@ EXCEPT !.late = @ \/ mpi[r].finalized]
                                 ELSE [@ EXCEPT !.initialized = TRUE, !.to_finalize = TRUE]]

\* finalize() of the local and of the mpi back end.
local_finalize(r) ==
    /\ inited' = [inited EXCEPT ![r] = FALSE]
    /\ l_archive' = [l_archive EXCEPT ![r] = <<>>]

mpi_finalize(r) ==
    /\ local_finalize(r)
    /\ g_archive' = [g_archive EXCEPT ![r] = <<>>]
    /\ mpi' = [mpi EXCEPT ![r].finalized = @ \/ mpi[r].to_finalize]

\* A user initialises the front end.
LCT_pmi_initialize(r, u) ==
    /\ at[r] = "out" /\ u \notin holds[r] /\ inits[r] < MaxInits
    /\ holds' = [holds EXCEPT ![r] = @ \cup {u}]
    /\ inits' = [inits EXCEPT ![r] = @ + 1]
    /\ count' = [count EXCEPT ![r] = @ + 1]
    /\ CASE count[r] > 0 -> UNCHANGED <<inited, l_archive, g_archive, mpi, since>>
         [] count[r] = 0 /\ Select = "mpi" -> mpi_initialize(r)
         [] OTHER -> local_initialize(r) /\ UNCHANGED <<g_archive, mpi>>
    /\ UNCHANGED <<at, box, round>>

\* A user finalises the front end; one finalisation too many is only reported.
LCT_pmi_finalize(r, u) ==
    /\ at[r] = "out" /\ (u \in holds[r] \/ holds[r] = {})
    /\ holds' = [holds EXCEPT ![r] = @ \ {u}]
    /\ count' = [count EXCEPT ![r] = IF @ <= 0 THEN @ ELSE @ - 1]
    /\ CASE count[r] # 1 -> UNCHANGED <<inited, l_archive, g_archive, mpi>>
         [] count[r] = 1 /\ Select = "mpi" -> mpi_finalize(r)
         [] OTHER -> local_finalize(r) /\ UNCHANGED <<g_archive, mpi>>
    /\ UNCHANGED <<at, box, round, since, inits>>

Key(r, n) == <<r, n>>

LCT_pmi_publish(r) ==
    /\ holds[r] # {} /\ at[r] = "out" /\ round[r] < MaxRounds
    /\ search(l_archive[r], Key(r, round[r])) = {}
    /\ l_archive' = [l_archive EXCEPT ![r] = push(@, Key(r, round[r]), inits[r])]
    /\ UNCHANGED <<holds, count, inited, g_archive, mpi, at, box, round, since, inits>>

\* getname: the archive the back end looks in.
LCT_pmi_getname(r, k) == search(IF Select = "mpi" THEN g_archive[r] ELSE l_archive[r], k)

\* barrier() of the mpi back end: what goes in, the two gathers (external), and what is
\* done with the result.  MPI aborts a process that calls it after MPI_Finalize.  That
\* of the local back end does nothing.
EnterBarrier(r) ==
    /\ at[r] = "out" /\ search(l_archive[r], Key(r, round[r])) # {}
    /\ IF Select = "mpi"
       THEN at' = [at EXCEPT ![r] = IF mpi[r].finalized THEN "aborted" ELSE "in"] /\ UNCHANGED round
       ELSE round' = [round EXCEPT ![r] = @ + 1] /\ UNCHANGED at
    /\ UNCHANGED <<holds, count, inited, l_archive, g_archive, mpi, box, since, inits>>

MPI_Allgatherv ==
    /\ \A r \in Ranks : at[r] = "in"
    /\ at' = [r \in Ranks |-> "gathered"]
    /\ box' = [r \in Ranks |-> FlattenSeq([i \in 1..Cardinality(Ranks) |-> l_archive[i - 1]])]
    /\ UNCHANGED <<holds, count, inited, l_archive, g_archive, mpi, round, since, inits>>

LeaveBarrier(r) ==
    /\ at[r] = "gathered"
    /\ g_archive' = [g_archive EXCEPT ![r] = @ \o box[r]]
    /\ l_archive' = [l_archive EXCEPT ![r] = <<>>]
    /\ box' = [box EXCEPT ![r] = <<>>]
    /\ at' = [at EXCEPT ![r] = "out"]
    /\ round' = [round EXCEPT ![r] = @ + 1]
    /\ UNCHANGED <<holds, count, inited, mpi, since, inits>>

Next ==
    \/ \E r \in Ranks : \/ \E u \in Users[r] : LCT_pmi_initialize(r, u) \/ LCT_pmi_finalize(r, u)
                        \/ LCT_pmi_publish(r) \/ EnterBarrier(r) \/ LeaveBarrier(r)
    \/ MPI_Allgatherv

Spec == Init /\ [][Next]_vars

-----------------------------------------------------------------------------
\* The back end is initialised exactly while somebody holds the front end, in
\* whatever order the application and LCI come and go, and MPI is not finalised
\* under either of them: who holds a finalised MPI came after its end.  No process
\* whose MPI was live when it initialised is aborted by MPI.
HeldMeansUsable ==
    \A r \in Ranks :
        /\ count[r] = Cardinality(holds[r])
        /\ inited[r] = (holds[r] # {})
        /\ holds[r] # {} /\ Select = "mpi" =>
               mpi[r].initialized /\ (mpi[r].finalized => mpi[r].late)
        /\ at[r] = "aborted" => mpi[r].late

\* MPI that the application initialised stays the application's to finalise.
MpiLeftAlone == \A r \in Ranks : mpi[r].finalized => mpi[r].to_finalize

\* After a barrier getname finds what each rank published before it, also when the
\* front end was finalised and initialised again.
PublishedFound ==
    \A r \in Ranks :
        inited[r] /\ at[r] = "out" /\ round[r] > since[r] =>
            \A q \in Ranks : LCT_pmi_getname(r, Key(q, round[r] - 1)) # {}

WrapperInv == HeldMeansUsable /\ MpiLeftAlone /\ PublishedFound
=============================================================================
