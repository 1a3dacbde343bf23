----------------------------- MODULE MCSendRecv -----------------------------
(***************************************************************************)
(* Jobs, one of which the first state chooses.  Three of two ranks:        *)
(*   "write"     rendezvous by write and a FIN message, next to inject and *)
(*               buffer-copy sends, all with one matching key;             *)
(*   "writeimm"  rendezvous by write with immediate data, of a send and of *)
(*               an active message;                                        *)
(*   "eager"     the eager protocols, shared memory included, with two     *)
(*               keys, and an active message in the other direction.       *)
(* Three of one rank that posts two operations:                            *)
(*   "posts"     two threads post with every kind of argument;             *)
(*   "failing"   one thread posts, progresses and frees the endpoint, and  *)
(*               completions may fail, on a backend like libfabric;        *)
(*   "shared"    one thread posts, another progresses too, and completions *)
(*               may fail, on a backend like verbs.                        *)
(***************************************************************************)
EXTENDS Naturals, FiniteSets, TLC

CONSTANTS s1, s2, s3, r1, r2, null

VARIABLES job, shape, returned, signals, live, pool, nrecvs, unexpected,
          expected, net, cq, archive, posting, ext, buffer,
          call, upacket, contexts, syncs, signalled, puts, requests, completions,
          worker, packets, posted, arrived, handled, landed, filled, faults, failed,
          thrown, teardown

Jobs == {"write", "writeimm", "eager"}

Shape(protocol, network, size, shm) ==
    [protocol |-> protocol, network |-> network, size |-> size, shm |-> shm]

\* One or two pieces, or every eager path of post_send.
ShapesOf(j) ==
    CASE j = "write" ->
            {Shape("rdv_zcopy", FALSE, 2, FALSE), Shape("inject", FALSE, 1, TRUE),
             Shape("eager_bcopy", TRUE, 1, FALSE)}
      [] j = "writeimm" -> {Shape("rdv_zcopy", FALSE, n, FALSE) : n \in 1 .. 2}
      [] j = "eager" ->
            {Shape("inject", FALSE, 1, FALSE), Shape("inject", FALSE, 1, TRUE),
             Shape("eager_bcopy", TRUE, 1, FALSE), Shape("eager_bcopy", TRUE, 1, TRUE),
             Shape("eager_bcopy", FALSE, 1, FALSE), Shape("eager_zcopy", FALSE, 1, FALSE)}

SendsOf(j) == IF j = "eager" THEN {s1, s2, s3} ELSE {s1, s2}

RecvsOf(j) == IF j = "writeimm" THEN {r1} ELSE {r1, r2}

OpsOf(j) == SendsOf(j) \cup RecvsOf(j)

P(j) == INSTANCE SendRecv WITH
    Null <- null, Ranks <- {0, 1}, Tags <- {0, 1}, MaxRecvs <- 2,
    ImmTakesRecv <- TRUE,
    Sends <- SendsOf(j), Recvs <- RecvsOf(j), Shapes <- ShapesOf(j),
    Ams <- IF j = "eager" THEN {s3} ELSE IF j = "writeimm" THEN {s2} ELSE {},
    Source <- [s \in SendsOf(j) |-> IF s = s3 THEN 1 ELSE 0],
    Dest <- [o \in OpsOf(j) |-> IF o = s3 THEN 0 ELSE 1],
    Key <- [o \in OpsOf(j) |-> IF j = "eager" /\ o \in {s2, r2} THEN 1 ELSE 0],
    RdvProtocol <- IF j = "writeimm" THEN "writeimm" ELSE "write",
    Packets <- IF j = "eager" THEN 3 ELSE 4

ASSUME SendRecvConstants == \A j \in Jobs : P(j)!SendRecvAssumption

PostJobs == {"posts", "failing", "shared"}

\* The default arguments of a call; the calls of a job differ from them.
Default == [kind |-> "send", size |-> 2, comp_semantic |-> "memory",
            local_comp |-> "user", allow_done |-> TRUE, allow_posted |-> TRUE,
            allow_retry |-> TRUE, mr |-> FALSE, packet |-> FALSE, metadata |-> FALSE]
BlockingGet == [Default EXCEPT !.kind = "get", !.local_comp = "COMP_NULL"]

CallsOf(j) ==
    CASE j = "posts" ->
            {[Default EXCEPT !.size = 1, !.allow_done = FALSE],
             [Default EXCEPT !.packet = TRUE],
             [Default EXCEPT !.metadata = TRUE, !.size = 1],
             [Default EXCEPT !.kind = "put", !.packet = TRUE,
                    !.comp_semantic = "network", !.local_comp = "COMP_NULL_RETRY"],
             BlockingGet,
             [Default EXCEPT !.size = 5, !.local_comp = "COMP_NULL_RETRY"]}
      [] j = "failing" ->
            {BlockingGet,
             [Default EXCEPT !.kind = "put", !.mr = TRUE, !.allow_retry = FALSE],
             [Default EXCEPT !.size = 5, !.allow_retry = FALSE]}
      [] j = "shared" ->
            {BlockingGet, [Default EXCEPT !.comp_semantic = "network"]}

C(j) == INSTANCE PostComm WITH
    live <- contexts, signals <- signalled, net <- requests, cq <- completions,
    pool <- packets, nrecvs <- posted,
    Ops <- {1, 2}, Threads <- IF j = "failing" THEN {1} ELSE {1, 2}, Main <- 1,
    ThreadOf <- [o \in {1, 2} |-> IF j = "posts" THEN o ELSE 1],
    Peer <- [o \in {1, 2} |-> o],
    Calls <- CallsOf(j), HasShm <- (j = "posts"), KnowsRank <- (j = "shared"),
    MaxInject <- 1, MaxBcopy <- 3, MetaSize <- 2, MaxMsg <- 3, MaxPolls <- 2,
    Packets <- IF j = "posts" THEN 2 ELSE 3,
    MaxRecvs <- IF j = "shared" THEN 1 ELSE 0,
    Arrivals <- IF j = "shared" THEN {3} ELSE {},
    MaxFaults <- IF j = "posts" THEN 0 ELSE IF j = "failing" THEN 2 ELSE 1

ASSUME PostCommConstants == \A j \in PostJobs : C(j)!PostCommAssumption

vars == <<shape, returned, signals, live, pool, nrecvs, unexpected, expected,
          net, cq, archive, posting, ext, buffer>>

postVars == <<call, upacket, contexts, syncs, signalled, puts, requests, completions,
              worker, packets, posted, arrived, handled, landed, filled, faults, failed,
              thrown, teardown>>

Init ==
    \/ \E j \in Jobs : job = j /\ P(j)!Init /\ C("posts")!Init
    \/ \E j \in PostJobs : job = j /\ C(j)!Init /\ P("write")!Init

Next ==
    /\ UNCHANGED job
    /\ \/ \E j \in Jobs : job = j /\ P(j)!Next /\ UNCHANGED postVars
       \/ \E j \in PostJobs : job = j /\ C(j)!Next /\ UNCHANGED vars

\* Every operation is posted and every rank keeps calling progress; the network
\* completes or fails what it has.
FairSpec ==
    /\ Init /\ [][Next]_<<job, vars, postVars>>
    /\ \A s \in {s1, s2} : WF_vars(job = "write" /\
          \E sh \in ShapesOf("write") : P("write")!PostSend(s, sh))
    /\ \A r \in {r1, r2} : WF_vars(job = "write" /\ P("write")!PostRecv(r))
    /\ WF_vars(job = "write" /\ P("write")!Progress)
    /\ \A o \in {1, 2} : WF_postVars(job = "failing" /\ C("failing")!Post(o))
    /\ WF_postVars(job = "failing" /\ C("failing")!Network)
    /\ WF_postVars(job = "failing" /\ C("failing")!Progress(1))
    /\ WF_postVars(job = "failing" /\ C("failing")!FreeEndpoint)
    /\ WF_postVars(job = "failing" /\ C("failing")!Drained)

-----------------------------------------------------------------------------
\* The state is well typed and nothing is lost: every context is reachable by
\* what will delete it, and every packet of a rank is in its pool, posted, or
\* in one other place.  Retries and failures give back what the post took.  No
\* message or completion under way names a context that was deleted
\* (rendezvous.hpp passes raw pointers through the other rank), or signals a
\* synchronizer that a blocking post has freed.
NothingLost ==
    /\ \A j \in Jobs : job = j =>
        P(j)!TypeOK /\ P(j)!NoLeak /\ P(j)!PacketsConserved /\ P(j)!NoDangling
    /\ \A j \in PostJobs : job = j =>
        C(j)!TypeOK /\ C(j)!PacketsOnce /\ C(j)!ContextsFreed /\ C(j)!NoUseAfterFree

\* A receive completes with all the data of one send, which no other receive
\* gets; a completion object is signalled once, for a posted operation, and
\* for a rendezvous send when its data has arrived.
CompletesOnce ==
    /\ \A j \in Jobs : job = j => P(j)!CompleteMeansAllData /\ P(j)!SignalledOnce
    /\ job = "write" => P("write")!ReceivedOnce

\* A post returns what its arguments allow, and done or a signal only when the
\* operation is complete (exit_handler); "progress() processes a full batch of
\* completed operations before throwing", and each failure is raised (docs/faq.md,
\* process_completion_batch).
ReturnsRight == \A j \in PostJobs : job = j => C(j)!ReturnsRight /\ C(j)!FailuresReported

\* Everything that can match completes; and with one thread free_endpoint ends,
\* whatever fails.
EverythingCompletes ==
    <>[](/\ job = "write" => P("write")!AllComplete
         /\ job = "failing" => C("failing")!Ended)
=============================================================================
