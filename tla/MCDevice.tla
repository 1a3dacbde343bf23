------------------------------ MODULE MCDevice ------------------------------
(***************************************************************************)
(* A device for TLC: its send queues, its receives and its completions on  *)
(* verbs, the registration cache, and the libfabric device in four         *)
(* configurations (OfiDevice).  A behaviour is about one of them, which    *)
(* its first state chooses.                                                *)
(***************************************************************************)
EXTENDS IbvSendQueue, RecvPosting, IbvCompletions, RegCache

CONSTANTS t1, t2, t3

VARIABLES queue
VARIABLES ofi_lock, thread, state, tx, due, rx, ofi_cq, statuses, landed, errors, nextKey, mrs

OfiDevices == {"cxi", "no lock", "poll lock", "memory"}

\* Queue pairs have numbers that collide for small lengths of the map.
MCQpNums == {3, 5, 6, 9}
MCCalls == {[fn |-> "send", id |-> 1], [fn |-> "puts", id |-> 2]}

\* A buffer inside another, one that overlaps it by the alignment of the cache only,
\* and an empty one.
MCBuffers ==
    {[address |-> 0, size |-> 4], [address |-> 1, size |-> 2],
     [address |-> 3, size |-> 3], [address |-> 6, size |-> 0]}

Op(fn, imm, base) ==
    [fn |-> fn, imm |-> imm, base |-> base, mr_base |-> 4, disp |-> 1]

\* The workaround for the CXI provider with every lock, no lock with offsets for
\* addresses, the default lock mode, and registrations.
O(q) == INSTANCE OfiDevice WITH
    Threads <- {t1, t2},
    Calls <- CASE q = "cxi" -> {Op("sends", 1, 4), Op("putImms", 2, 4), Op("putImm", 3, 6)}
               [] q = "no lock" -> {Op("send", 3, 4), Op("putImms", 1, 6)}
               [] q = "poll lock" -> {Op("put", 0, 4), Op("putImm", 2, 4)}
               [] q = "memory" -> {Op("puts", 0, 4), Op("get", 0, 5)},
    LockMode <- CASE q = "cxi" -> {"send", "recv", "poll", "mr"}
                  [] q = "no lock" -> {}
                  [] OTHER -> {"poll", "mr"},
    UseCxi <- q = "cxi", VirtAddr <- q # "no lock", ProvKey <- q = "cxi",
    MyRank <- 2, ImmBits <- 2, MaxPolls <- 2, MaxTx <- 2,
    MaxRecvs <- IF q = "memory" THEN 0 ELSE 1,
    MaxErrors <- IF q = "cxi" THEN 1 ELSE 2,
    MaxMrs <- IF q = "memory" THEN 2 ELSE 0, MaxKeys <- 3,
    lock <- ofi_lock, cq <- ofi_cq

ASSUME OfiConstants == \A q \in OfiDevices : O(q)!OfiAssumption

ofiVars == <<ofi_lock, thread, state, tx, due, rx, ofi_cq, statuses, landed, errors,
             nextKey, mrs>>

MCInit ==
    /\ Init /\ SendInit /\ RecvInit /\ CqInit
    /\ queue \in OfiDevices \cup {"sq", "srq", "cq", "cache"}
    /\ \E q \in OfiDevices :
          (IF queue \in OfiDevices THEN q = queue ELSE q = "memory") /\ O(q)!Init

MCNext ==
    /\ UNCHANGED queue
    /\ \/ queue = "sq" /\ SendNext /\ UNCHANGED <<recvVars, cqVars, ofiVars, vars>>
       \/ queue = "srq" /\ RecvNext /\ UNCHANGED <<sendVars, cqVars, ofiVars, vars>>
       \/ queue = "cq" /\ CqNext /\ UNCHANGED <<sendVars, recvVars, ofiVars, vars>>
       \/ \E q \in OfiDevices :
             queue = q /\ O(q)!Next /\ UNCHANGED <<sendVars, recvVars, cqVars, vars>>
       \/ queue = "cache" /\ Next /\ UNCHANGED <<sendVars, recvVars, cqVars, ofiVars>>

\* The threads keep calling progress, and a thread that tries for a packet or
\* for the lock of the queue again and again gets it some time.  A libfabric
\* provider finishes what it took, and a thread that called a function of the
\* device returns from it.
MCFairSpec ==
    /\ MCInit /\ [][MCNext]_<<queue, sendVars, recvVars, cqVars, ofiVars, vars>>
    /\ \A t \in Progressors :
          /\ WF_recvVars(queue = "srq" /\ (Refill(t) \/ PollComp(t, 0)))
          /\ SF_recvVars(queue = "srq" /\ \E n \in 1 .. BatchSize : GetPackets(t, n))
          /\ SF_recvVars(queue = "srq" /\ \E n \in 1 .. BatchSize : PostRecvs(t, n))
    /\ \A t \in {t1, t2} : WF_ofiVars(queue = "poll lock" /\ O("poll lock")!Poll(t))
    /\ WF_ofiVars(queue = "poll lock" /\ O("poll lock")!Provider)

-----------------------------------------------------------------------------
\* The libfabric backend frees the context of an operation once, reports what it
\* returned posted for, and translates entries, errors and addresses right.
OfiInv == \A q \in OfiDevices : queue = q => O(q)!OfiInv

\* A receive queue that is not full is filled again; an operation that the
\* libfabric provider took is reported, and the lock of the device is given back.
Refilled ==
    /\ queue = "srq" => RecvsRefilled
    /\ <>[](queue = "poll lock" => O("poll lock")!Retired)
=============================================================================
