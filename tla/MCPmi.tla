------------------------------- MODULE MCPmi --------------------------------
(***************************************************************************)
(* Jobs whose processes find each other through LCT's process management.  *)
(* pmi_wrapper.cpp picks one back end for the whole job, so a behaviour is *)
(* about one of them, which its first state chooses:                       *)
(*   "tcp"         two epochs, nobody crashes;                             *)
(*   "tcp crash"   any one process may die at any moment;                  *)
(*   "tcp dup"     two processes were started with the same RANK;          *)
(*   "tcp fair"    one fence, and a crash, under fair scheduling;          *)
(*   "file"        two epochs, also after an earlier job left its files;   *)
(*   "pmi1", "pmi1 port", "pmi2", "pmi2 crash"                             *)
(*                 the bundled clients under a process manager;            *)
(*   "pmi1 api", "pmi2 api"     their functions that LCT does not call;    *)
(*   "pmi1 alone", "pmi2 alone" a process that no manager started;         *)
(*   "mpi", "local"             the front end and its archives;            *)
(*   "wire"        the text of a PMI message, no steps;                    *)
(*   "ibv", "ibv bare", "ofi"   the runtime's life, twice, over each       *)
(*                 network ("bare": no packet pool, bootstrap only by PMI).*)
(***************************************************************************)
EXTENDS Integers, Sequences, FiniteSets, TLC

CONSTANTS p0, p1, p2, k1

VARIABLES job, tcp_local, server, sock, fenced, crashes,
          file_local, nranks, barrier, file_data, holder,
          client, mutex, thread, req, stream, readbuf, manager,
          holds, count, inited, l_archive, g_archive, mpi, at, box, pmi_round, since, inits,
          wire,
          rank, kvs, fences, net, inbox

TcpJobs == {"tcp", "tcp crash", "tcp dup", "tcp fair"}

T(j) == INSTANCE PmiTcp WITH
    Procs <- {p0, p1, p2}, WorldSize <- 3, Keys <- {k1},
    RankOf <- p0 :> 0 @@ p1 :> 1 @@ p2 :> (IF j = "tcp dup" THEN 1 ELSE 2),
    Fences <- IF j = "tcp crash" THEN 2 ELSE 1,
    Epochs <- IF j = "tcp" THEN 2 ELSE 1,
    SockCap <- IF j = "tcp crash" THEN 2 ELSE 1,
    MaxCrashes <- IF j = "tcp" THEN 0 ELSE 1,
    local <- tcp_local

F == INSTANCE PmiFile WITH
    Procs <- {p0, p1, p2}, Fences <- 1, Epochs <- 2, MaxFds <- 3,
    local <- file_local, data <- file_data

ClientJobs == {"pmi1", "pmi1 port", "pmi1 api", "pmi1 alone",
               "pmi2", "pmi2 crash", "pmi2 api", "pmi2 alone"}
Pairs == {"pmi1", "pmi2", "pmi2 crash"}    \* jobs of two processes

\* Thread a of p0 and thread b of p1 run the wrapper's operations; thread c of p0
\* uses the connection at the same time.
Plain(fns) == [i \in DOMAIN fns |-> [fn |-> fns[i], key |-> ""]]
Keyed(fn, k) == <<[fn |-> fn, key |-> k]>>
Enter == Plain(<<"initialize">>)
Leave == Plain(<<"finalize">>)
Use(own, other) == Keyed("publish", own) \o Plain(<<"barrier">>) \o Keyed("getname", other)

ScriptOf(j) ==
    [t \in {"a", "b", "c"} |->
        CASE t = "c" -> Keyed("publish", "kc") \o Keyed("getname", "ka")
          [] t # "c" /\ j \in Pairs ->
                Enter \o Use("k" \o t, IF t = "a" THEN "kb" ELSE "ka") \o Leave
          [] t # "c" /\ j = "pmi1 port" -> Enter \o Use("ka", "ka") \o Leave
          [] t # "c" /\ j = "pmi1 api" -> Enter \o
                Plain(<<"universe", "appnum", "publishName", "lookup", "unpublish", "spawn">>) \o Leave
          [] t # "c" /\ j = "pmi2 api" -> Enter \o
                Plain(<<"spawn", "getId", "connect", "disconnect", "ring", "nodeAttr", "nodeArray",
                        "putNode", "jobAttr", "jobArray", "publishName", "lookup", "unpublish">>) \o Leave
          [] t # "c" /\ j = "pmi1 alone" -> Enter \o Keyed("publish", "ka") \o Plain(<<"universe">>) \o
                Keyed("getname", "ka") \o Plain(<<"spawn", "appnum", "lookup", "barrier">>) \o Leave
          [] OTHER -> Enter \o Keyed("publish", "ka") \o Plain(<<"ring">>) \o
                Keyed("getname", "ka") \o Plain(<<"lookup">>) \o Leave]

C(j) == INSTANCE PmiClient WITH
    Procs <- IF j \in Pairs THEN {p0, p1} ELSE {p0},
    Threads <- CASE j = "pmi2" -> {"a", "b", "c"} [] j \in Pairs \ {"pmi2"} -> {"a", "b"} [] OTHER -> {"a"},
    ProcOf <- [t \in {"a", "b", "c"} |-> IF t = "b" THEN p1 ELSE p0],
    Script <- ScriptOf(j),
    Version <- IF j \in {"pmi1", "pmi1 port", "pmi1 api", "pmi1 alone"} THEN 1 ELSE 2,
    Env <- CASE j = "pmi1 port" -> "PMI_PORT" [] j \in {"pmi1 alone", "pmi2 alone"} -> "none" [] OTHER -> "PMI_FD",
    MaxFaults <- IF j \in {"pmi1", "pmi2 crash"} THEN 0 ELSE 1,
    MayDie <- j \notin {"pmi2", "pmi2 api"}

W(j) == INSTANCE PmiWrapper WITH
    Ranks <- IF j = "mpi" THEN {0, 1} ELSE {0},
    Users <- [r \in {0, 1} |-> IF r = 0 THEN {"application", "lci"} ELSE {"lci"}],
    Backends <- <<"pmi1", "pmi2", "mpi", "file", "local">>,
    Compiled <- IF j = "mpi" THEN {"pmi1", "mpi", "local"} ELSE {"pmi1", "pmi2", "local"},
    Available <- {"mpi", "local"},
    MaxInits <- 3, MaxRounds <- 2,
    round <- pmi_round

M == INSTANCE PmiWire WITH Chars <- {";", "=", "a"}, MaxLen <- 3, MaxPairs <- 2

LifeJobs == {"ibv", "ibv bare", "ofi"}

Twice(calls) == <<"g_runtime_init">> \o calls \o <<"g_runtime_fina", "g_runtime_init", "g_runtime_fina">>

L(j) == INSTANCE Lifecycle WITH
    Ranks <- IF j = "ibv" THEN {0, 1} ELSE {0, 1, 2},
    Backend <- IF j = "ofi" THEN "ofi" ELSE "ibv",
    BootstrapLci <- j # "ibv bare", WithPool <- j # "ibv bare", ProgressEndpoint <- j = "ibv",
    Calls <- IF j = "ibv bare"
             THEN <<"global_initialize">> \o Twice(<<"alloc_endpoint", "free_endpoint">>)
                  \o <<"global_finalize">>
             ELSE Twice(<<"alloc_device", "free_device">>),
    MaxObjects <- 6

Jobs == TcpJobs \cup {"file"} \cup ClientJobs \cup {"mpi", "local", "wire"} \cup LifeJobs

ASSUME PmiConstants ==
    /\ F!PmiFileAssumption
    /\ \A j \in TcpJobs : T(j)!PmiTcpAssumption
    /\ \A j \in {"mpi", "local"} : W(j)!PmiWrapperAssumption

tcpVars == <<tcp_local, server, sock, fenced, crashes>>
fileVars == <<file_local, nranks, barrier, file_data, holder>>
clientVars == <<client, mutex, thread, req, stream, readbuf, manager>>
wrapperVars == <<holds, count, inited, l_archive, g_archive, mpi, at, box, pmi_round, since, inits>>
lifeVars == <<rank, kvs, fences, net, inbox>>
vars == <<job, wire, tcpVars, fileVars, clientVars, wrapperVars, lifeVars>>

\* The parts that the job does not use have one initial state.
Init ==
    /\ job \in Jobs
    /\ \E j \in TcpJobs : (IF job \in TcpJobs THEN j = job ELSE j = "tcp dup") /\ T(j)!Init
    /\ F!Init /\ (job # "file" => nranks = F!Empty)
    /\ \E j \in ClientJobs : (IF job \in ClientJobs THEN j = job ELSE j = "pmi2 alone") /\ C(j)!Init
    /\ \E j \in {"mpi", "local"} : (IF job \in {"mpi", "local"} THEN j = job ELSE j = "local") /\ W(j)!Init
    /\ job # "mpi" => \A r \in DOMAIN mpi : mpi[r].initialized = FALSE
    /\ \E j \in LifeJobs : (IF job \in LifeJobs THEN j = job ELSE j = "ibv bare") /\ L(j)!Init
    /\ IF job = "wire" THEN wire \in M!Messages ELSE wire = <<>>

Next ==
    /\ UNCHANGED <<job, wire>>
    /\ \/ /\ \E j \in TcpJobs : job = j /\ T(j)!Next
          /\ UNCHANGED <<fileVars, clientVars, wrapperVars, lifeVars>>
       \/ job = "file" /\ F!Next /\ UNCHANGED <<tcpVars, clientVars, wrapperVars, lifeVars>>
       \/ /\ \E j \in ClientJobs : job = j /\ C(j)!Next
          /\ UNCHANGED <<tcpVars, fileVars, wrapperVars, lifeVars>>
       \/ /\ \E j \in {"mpi", "local"} : job = j /\ W(j)!Next
          /\ UNCHANGED <<tcpVars, fileVars, clientVars, lifeVars>>
       \/ /\ \E j \in LifeJobs : job = j /\ L(j)!Next
          /\ UNCHANGED <<tcpVars, fileVars, clientVars, wrapperVars>>

\* Every process runs, gets the file locks it asks for again and again, and is
\* answered by a process manager that lives; the network delivers.
FairSpec ==
    /\ Init /\ [][Next]_vars
    /\ WF_tcpVars(job = "tcp fair" /\ T("tcp fair")!ServerStep)
    /\ \A p \in {p1, p2} :
          WF_tcpVars(job = "tcp fair" /\ T("tcp fair")!ClientStep(p))
    /\ \A p \in {p0, p1, p2} :
          /\ WF_fileVars(job = "file" /\ F!Step(p))
          /\ SF_fileVars(job = "file" /\ F!Lock(p))
    /\ \A t \in {"a", "b", "c"} : WF_clientVars(
          \E j \in ClientJobs : job = j /\ t \in DOMAIN thread /\ C(j)!ThreadStep(t))
    /\ WF_clientVars(\E j \in ClientJobs : job = j /\ C(j)!Manager)
    /\ WF_lifeVars(\E j \in LifeJobs : job = j /\ L(j)!Next)

-----------------------------------------------------------------------------
\* The state is well typed, ranks are different in the file manager, in the TCP
\* manager nobody works unless all ranks, all different, have joined, and without
\* a crash and with different ranks no process fails and no assertion does.  The
\* front end is initialised while anybody holds it, leaves the application's MPI
\* alone, and finds after a barrier what was published before (pmi_wrapper.cpp,
\* pmi_wrapper_mpi.cpp, pmi_wrapper_local.cpp).
PmiInv ==
    /\ \A j \in TcpJobs : job = j =>
          T(j)!TypeOK /\ T(j)!JoinedExactly /\ (j # "tcp dup" => T(j)!NobodyFails)
    /\ job = "file" => F!TypeOK /\ F!RanksDistinct /\ F!AssertsHold
    /\ \A j \in {"mpi", "local"} : job = j => W(j)!WrapperInv

\* A process leaves a fence only when all others called it, and after it finds what
\* every rank had published when it called that fence, of this epoch
\* (pmi_wrapper_tcp.cpp, pmi_wrapper_file.cpp).
FenceShows ==
    /\ \A j \in TcpJobs : job = j => T(j)!FenceWaits /\ T(j)!FenceSnapshot
    /\ job = "file" => F!FenceWaits /\ F!PublishedIsFound

\* What is read from the connection is what was written to it, in a table with room
\* for it, and an address survives the bootstrap (pmi2_api.c, bootstrap.cpp).
WireRight ==
    job = "wire" =>
        /\ M!RoundTrip(wire) /\ M!TableFits(wire)
        /\ \A i \in DOMAIN wire : M!AddressSurvives(
              [n \in DOMAIN wire[i].val |->
                  CASE wire[i].val[n] = ";" -> 16 [] wire[i].val[n] = "a" -> 255 [] OTHER -> 0])

\* Each call of the PMI-1 and PMI-2 clients gets the reply to its own request, leaves
\* nothing of it behind and no mutex held, and a value it returns is the one that
\* was put (simple_pmi.c, pmi2_api.c), whatever characters it has.
ClientsRight == WireRight /\ \A j \in ClientJobs : job = j => C(j)!ClientInv

\* The ranks connect the endpoints that belong together, in rounds of the bootstrap
\* that all take the same way, nothing is sent to what is not there, and everything
\* is freed before what contains it (bootstrap.cpp, network.cpp, runtime.cpp).
LifecycleRight == \A j \in LifeJobs : job = j => L(j)!LifecycleInv

\* In the end every process of a TCP job has finished or failed, every process of
\* a file job got through its epochs, every call of a PMI client has returned, and
\* every rank has finished its second runtime.
EveryProcessEnds ==
    <>[](/\ job = "tcp fair" => T("tcp fair")!AllEnded
         /\ job = "file" => F!AllFinished
         /\ \A j \in ClientJobs : job = j => C(j)!CallsEnd
         /\ \A j \in LifeJobs : job = j => L(j)!Finished)
=============================================================================
