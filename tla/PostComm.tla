------------------------------ MODULE PostComm ------------------------------
(***************************************************************************)
(* The life of a posted operation on the rank that posts it, and what a    *)
(* failed completion does to it: post_comm_x (src/core/communicate.cpp)    *)
(* with its arguments, its protocols, its retries and its blocking form,   *)
(* and process_completion_batch (src/core/progress.cpp), which completes   *)
(* operations in batches, goes on after a failure and raises an exception  *)
(* at the end.  free_endpoint (src/network/network.cpp) then waits for the *)
(* operations, or abandons them when the device has failed.                *)
(*                                                                         *)
(* Module SendRecv says what the two ranks exchange; here the other side   *)
(* is only what makes an operation complete.  The posts of one thread      *)
(* follow each other; a post takes three steps (up to the network, the     *)
(* call of the network, exit_handler), because completions may be handled  *)
(* by another thread in between.                                           *)
(***************************************************************************)
EXTENDS Integers, FiniteSets, FiniteSetsExt

CONSTANTS
    Ops,         \* operations the program posts
    Threads,     \* threads that post and progress
    Main,        \* the thread that frees the endpoint at the end
    ThreadOf,    \* ThreadOf[o]: the thread that posts o
    Peer,        \* Peer[o]: the rank o is addressed to
    Calls,       \* the arguments (see IsCall) that a post may have
    HasShm,      \* the peer can be reached through shared memory
    MaxInject,   \* max_inject_size
    MaxBcopy,    \* max_bcopy_size
    MetaSize,    \* size of a tag and an rcomp, piggybacked in the payload
    MaxMsg,      \* max_msg_size, one put of a rendezvous
    Packets,     \* packets in the pool
    MaxRecvs,    \* net_max_recvs
    Arrivals,    \* messages that other ranks send
    MaxPolls,    \* LCI_BACKEND_MAX_POLLS, size of a batch
    KnowsRank,   \* the backend names the rank of a failed operation (ibv)
    MaxFaults    \* failed completions

NoRank == -1
NoExtended == -1

\* The size of the message if it is sent eagerly.
EagerSize(a) == a.size + IF a.metadata THEN MetaSize ELSE 0

\* The calls the documentation allows.  A packet of the user has room for the
\* message as it is sent.
IsCall(a) ==
    /\ a \in [kind : {"send", "put", "get"}, size : Nat \ {0},
              comp_semantic : {"memory", "network"},
              local_comp : {"user", "COMP_NULL", "COMP_NULL_RETRY"},
              allow_done : BOOLEAN, allow_posted : BOOLEAN, allow_retry : BOOLEAN,
              mr : BOOLEAN,        \* a registered buffer
              packet : BOOLEAN,    \* the buffer is a packet of get_upacket
              metadata : BOOLEAN]  \* tag or rcomp do not fit the immediate data
    /\ a.metadata => a.kind = "send"  \* max_imm_tag limits a put with signal
    /\ a.packet => a.kind # "get" /\ EagerSize(a) <= MaxBcopy
    /\ a.local_comp # "user" => a.allow_done
    /\ a.allow_posted \/ a.allow_done

PostCommAssumption ==
    /\ ThreadOf \in [Ops -> Threads] /\ Main \in Threads /\ Peer \in [Ops -> Nat]
    /\ \A a \in Calls : IsCall(a)
    /\ {MaxInject, MaxBcopy, MetaSize, Packets, MaxRecvs, MaxFaults} \subseteq Nat
    /\ MaxMsg \in Nat \ {0} /\ MaxPolls \in Nat \ {0}
    /\ HasShm \in BOOLEAN /\ KnowsRank \in BOOLEAN

VARIABLES
    call,      \* call[o]: the post_comm_x call of o
    upacket,   \* upacket[o]: "none", "user" (the program has a packet) or "given"
    live,      \* operations whose internal context is allocated
    syncs,     \* operations whose alloc_sync object is allocated
    signals,   \* signals[o]: how often the completion object of o was signalled
    puts,      \* puts[o]: signal_count of the extended context of o
    net,       \* requests the network works on
    cq,        \* completions that were not polled yet
    worker,    \* worker[t]: the batch that thread t processes
    pool,      \* packets in the pool
    nrecvs,    \* nrecvs_posted
    arrived,   \* messages that reached a posted receive
    handled,   \* messages whose handler was signalled
    landed,    \* operations whose data is where the network puts it
    filled,    \* gets whose data is in the user's buffer
    faults,    \* the operations (or messages) whose completion failed
    failed,    \* network_failed
    thrown,    \* ranks named by the exceptions that progress raised
    teardown   \* free_endpoint: "no", "draining", "freed", "threw"

vars == <<call, upacket, live, syncs, signals, puts, net, cq, worker, pool, nrecvs,
          arrived, handled, landed, filled, faults, failed, thrown, teardown>>

callVars == <<call, upacket, live, syncs>>
netVars == <<net, cq, arrived, landed, faults>>
endVars == <<failed, thrown, teardown>>

-----------------------------------------------------------------------------
\* The decisions of a call.

\* preprocess_args
Effective(a) ==
    [a EXCEPT !.allow_retry = a.allow_retry /\ a.local_comp # "COMP_NULL",
              !.allow_posted = a.allow_posted /\ a.local_comp = "user"]

Injectable(a) ==
    /\ a.kind # "get" /\ a.comp_semantic = "memory"
    /\ ~a.metadata /\ a.size <= MaxInject

\* set_protocol
Protocol(a) ==
    IF a.kind = "send" /\ EagerSize(a) > MaxBcopy THEN "rdv_zcopy"
    ELSE IF Injectable(a) THEN "inject"
    ELSE IF (~a.mr \/ a.metadata) /\ EagerSize(a) <= MaxBcopy THEN "eager_bcopy"
    ELSE "eager_zcopy"

\* set_packet_if_needed: the packet comes from the pool unless the user gave one.
TakesPacket(a) ==
    \/ Protocol(a) = "rdv_zcopy"
    \/ Protocol(a) = "eager_bcopy" /\ ~a.packet

\* set_internal_ctx: the completion object goes with the context.
PassesComp(a) ==
    \/ Protocol(a) \in {"eager_zcopy", "rdv_zcopy"}
    \/ a.comp_semantic = "network" \/ a.kind = "get"

Pieces(a) == (a.size + MaxMsg - 1) \div MaxMsg

-----------------------------------------------------------------------------
NoCall == [pc |-> "idle", args |-> CHOOSE a \in Calls : TRUE, error |-> "none",
           passed |-> FALSE, returned |-> "none"]
Idle == [busy |-> FALSE, batch |-> {}, failure |-> FALSE, rank |-> NoRank]

Init ==
    /\ call = [o \in Ops |-> NoCall] /\ upacket = [o \in Ops |-> "none"]
    /\ live = {} /\ syncs = {} /\ signals = [o \in Ops |-> 0]
    /\ puts = [o \in Ops |-> NoExtended]
    /\ net = {} /\ cq = {} /\ arrived = {} /\ handled = {}
    /\ worker = [t \in Threads |-> Idle]
    /\ nrecvs = Min({MaxRecvs, Packets}) /\ pool = Packets - nrecvs
    /\ landed = {} /\ filled = {} /\ faults = {}
    /\ failed = FALSE /\ thrown = {} /\ teardown = "no"

Args(o) == call[o].args

\* The packet of the context of o: packet_to_free.
HasPacket(o) ==
    o \in live /\ (TakesPacket(Args(o)) \/ (Args(o).packet /\ upacket[o] = "given"))

\* Thread t is between two calls of the library.
Free(t) ==
    /\ worker[t] = Idle
    /\ \A o \in Ops : ThreadOf[o] = t => call[o].pc \in {"idle", "over"}

-----------------------------------------------------------------------------
\* get_upacket, in a program that posts packets of its own
GetUpacket(o) ==
    /\ Free(ThreadOf[o]) /\ teardown = "no"
    /\ call[o].pc = "idle" /\ upacket[o] = "none" /\ pool > 0
    /\ \E a \in Calls : a.packet
    /\ upacket' = [upacket EXCEPT ![o] = "user"]
    /\ pool' = pool - 1
    /\ UNCHANGED <<call, live, syncs, signals, puts, netVars, worker, nrecvs, handled,
                   filled, endVars>>

\* post_comm_x up to check_backlog and set_packet_if_needed, both of which may
\* end it with a retry.  Whether the backlog queue is empty is the business of
\* module Endpoint.
PostRetries(o, arg) ==
    LET a == Effective(arg) IN
    /\ Free(ThreadOf[o]) /\ teardown = "no"
    /\ call[o].pc = "idle" /\ a.packet = (upacket[o] = "user")
    /\ a.allow_retry
    /\ \E e \in {"retry_backlog", "retry_nopacket"} :
        /\ e = "retry_nopacket" => TakesPacket(a) /\ pool = 0
        /\ call' = [call EXCEPT ![o] = [pc |-> "exit", args |-> a, error |-> e,
                                        passed |-> FALSE, returned |-> "none"]]
    /\ UNCHANGED <<upacket, live, syncs, signals, puts, netVars, worker, pool, nrecvs,
                   handled, filled, endVars>>

\* post_comm_x up to post_network_op.  Without allow_retry it waits for a packet.
Prepare(o, arg) ==
    LET a == Effective(arg) IN
    /\ Free(ThreadOf[o]) /\ teardown = "no"
    /\ call[o].pc = "idle" /\ a.packet = (upacket[o] = "user")
    /\ TakesPacket(a) => pool > 0
    /\ call' = [call EXCEPT ![o] = [pc |-> "post", args |-> a, error |-> "none",
                                    passed |-> PassesComp(a), returned |-> "none"]]
    /\ upacket' = [upacket EXCEPT ![o] = IF a.packet THEN "given" ELSE @]
    /\ pool' = pool - IF TakesPacket(a) THEN 1 ELSE 0
    /\ syncs' = IF a.allow_posted THEN syncs ELSE syncs \cup {o}
    /\ live' = live \cup {o}
    /\ UNCHANGED <<signals, puts, netVars, worker, nrecvs, handled, filled, endVars>>

\* post_network_op through shared memory: the message is copied and the context
\* is deleted.
PostShm(o) ==
    LET a == Args(o) IN
    /\ call[o].pc = "post"
    /\ HasShm /\ a.kind = "send" /\ Protocol(a) \in {"inject", "eager_bcopy"}
    /\ call' = [call EXCEPT ![o].pc = "exit", ![o].error = "done", ![o].passed = FALSE]
    /\ live' = live \ {o}
    /\ pool' = pool + IF HasPacket(o) THEN 1 ELSE 0
    /\ landed' = landed \cup {o}
    /\ UNCHANGED <<upacket, syncs, signals, puts, net, cq, arrived, faults, worker,
                   nrecvs, handled, filled, endVars>>

\* post_network_op when the network, or the ring with its lock taken, says retry.
PostNetworkRetry(o) ==
    /\ call[o].pc = "post" /\ Args(o).allow_retry
    /\ call' = [call EXCEPT ![o].pc = "exit", ![o].error = "retry"]
    /\ UNCHANGED <<upacket, live, syncs, signals, puts, netVars, worker, pool, nrecvs,
                   handled, filled, endVars>>

Opcode(a) == IF a.kind = "send" THEN "SEND" ELSE IF a.kind = "put" THEN "WRITE" ELSE "READ"

\* What an accepted operation returns: the backend says done for inject and
\* posted for the others; a buffer copy with memory semantics is done.
Accepted(a) ==
    IF Protocol(a) = "inject" \/ (Protocol(a) = "eager_bcopy" /\ a.kind # "get"
                                    /\ a.comp_semantic = "memory")
    THEN "done" ELSE "posted"

\* post_network_op when the network (or the backlog queue) accepts the operation.
\* The request of an RTS has no context.
PostNetwork(o) ==
    LET a == Args(o) IN
    /\ call[o].pc = "post"
    /\ call' = [call EXCEPT ![o].pc = "exit", ![o].error = Accepted(a)]
    /\ net' = net \cup
        {IF Protocol(a) = "rdv_zcopy" THEN [op |-> "RTS", id |-> o, n |-> 0]
         ELSE [op |-> Opcode(a), id |-> o, n |-> 0]}
    /\ UNCHANGED <<upacket, live, syncs, signals, puts, cq, arrived, landed, faults,
                   worker, pool, nrecvs, handled, filled, endVars>>

-----------------------------------------------------------------------------
\* exit_handler

IsRetry(e) == e \in {"retry", "retry_backlog", "retry_nopacket"}

\* A retry undoes the post: the context goes, a packet of the pool goes back, a
\* packet of the user stays the user's.  The program may post again.
ExitRetry(o) ==
    /\ call[o].pc = "exit" /\ IsRetry(call[o].error)
    /\ call' = [call EXCEPT ![o].pc = "idle", ![o].returned = "retry"]
    /\ upacket' = [upacket EXCEPT ![o] = IF @ = "given" THEN "user" ELSE @]
    /\ pool' = pool + IF HasPacket(o) /\ ~Args(o).packet THEN 1 ELSE 0
    /\ live' = live \ {o}
    /\ syncs' = syncs \ {o}
    /\ UNCHANGED <<signals, puts, netVars, worker, nrecvs, handled, filled, endVars>>

\* done, and the caller takes done.
ExitDone(o) ==
    /\ call[o].pc = "exit" /\ call[o].error = "done" /\ Args(o).allow_done
    /\ call' = [call EXCEPT ![o].pc = "over", ![o].returned = "done"]
    /\ syncs' = syncs \ {o}
    /\ UNCHANGED <<upacket, live, signals, puts, netVars, worker, pool, nrecvs, handled,
                   filled, endVars>>

\* done, but the caller wants a signal: comp_signal.
ExitSignal(o) ==
    /\ call[o].pc = "exit" /\ call[o].error = "done" /\ ~Args(o).allow_done
    /\ call' = [call EXCEPT ![o].pc = "over", ![o].returned = "posted"]
    /\ signals' = [signals EXCEPT ![o] = @ + 1]
    /\ UNCHANGED <<upacket, live, syncs, puts, netVars, worker, pool, nrecvs, handled,
                   filled, endVars>>

ExitPosted(o) ==
    /\ call[o].pc = "exit" /\ call[o].error = "posted"
    /\ call' = [call EXCEPT
            ![o].pc = IF Args(o).allow_posted THEN "over" ELSE "wait",
            ![o].returned = IF Args(o).allow_posted THEN "posted" ELSE @]
    /\ UNCHANGED <<upacket, live, syncs, signals, puts, netVars, worker, pool, nrecvs,
                   handled, filled, endVars>>

\* Wrong: returns without waiting for the completion.
SyncDoneEarly(o) ==
    /\ call[o].pc = "wait" /\ worker[ThreadOf[o]] = Idle
    /\ call' = [call EXCEPT ![o].pc = "over", ![o].returned = "done"]
    /\ syncs' = syncs \ {o}
    /\ UNCHANGED <<upacket, live, signals, puts, netVars, worker, pool, nrecvs, handled,
                   filled, endVars>>

\* The blocking form: sync_test succeeds and the synchronizer is freed.
SyncDone(o) ==
    /\ call[o].pc = "wait" /\ worker[ThreadOf[o]] = Idle /\ signals[o] > 0
    /\ call' = [call EXCEPT ![o].pc = "over", ![o].returned = "done"]
    /\ syncs' = syncs \ {o}
    /\ UNCHANGED <<upacket, live, signals, puts, netVars, worker, pool, nrecvs, handled,
                   filled, endVars>>

-----------------------------------------------------------------------------
\* The network and the other ranks (external).

\* A request completes, or fails.
NetComplete(r) ==
    /\ net' = net \ {r}
    /\ \E ok \in BOOLEAN :
        /\ ~ok => Cardinality(faults) < MaxFaults
        /\ faults' = IF ok THEN faults ELSE faults \cup {r}
        /\ landed' = IF r.op # "RTS" /\ \A q \in net' \cup faults' : q.id # r.id
                     THEN landed \cup {r.id} ELSE landed
        /\ cq' = cq \cup {[op |-> r.op, id |-> r.id, n |-> r.n, ok |-> ok]}
    /\ UNCHANGED <<callVars, signals, puts, worker, pool, nrecvs, arrived, handled,
                   filled, endVars>>

\* The receiver's RTR comes and handle_rdv_rtr posts the puts of the rendezvous,
\* each with the extended context.
Answer(o) ==
    /\ o \in live /\ call[o].error = "posted" /\ Protocol(Args(o)) = "rdv_zcopy"
    /\ puts[o] = NoExtended
    /\ ~\E r \in net \cup faults : r.op = "RTS" /\ r.id = o
    /\ puts' = [puts EXCEPT ![o] = Pieces(Args(o))]
    /\ net' = net \cup {[op |-> "WRITE", id |-> o, n |-> i] : i \in 1 .. Pieces(Args(o))}
    /\ UNCHANGED <<callVars, signals, cq, arrived, landed, faults, worker, pool, nrecvs,
                   handled, filled, endVars>>

\* A message, or the notice of a put with signal, takes a posted receive; or that
\* receive fails.
Arrive(m) ==
    /\ m \notin arrived /\ Cardinality(arrived) < MaxRecvs
    /\ arrived' = arrived \cup {m}
    /\ \E ok \in BOOLEAN :
        /\ ~ok => Cardinality(faults) < MaxFaults
        /\ cq' = cq \cup {[op |-> "RECV", id |-> m, n |-> 0, ok |-> ok]}
        /\ faults' = IF ok THEN faults ELSE faults \cup {[op |-> "RECV", id |-> m, n |-> 0]}
    /\ UNCHANGED <<callVars, signals, puts, net, landed, worker, pool, nrecvs, handled,
                   filled, endVars>>

-----------------------------------------------------------------------------
\* progress_x

\* A thread polls when it is free, or when it waits in exit_handler or in
\* wait_drained.
MayPoll(t) ==
    /\ worker[t] = Idle
    /\ teardown # "no" => t = Main /\ teardown = "draining"
    /\ \A o \in Ops : ThreadOf[o] = t => call[o].pc \in {"idle", "over", "wait"}

\* refill_recvs, at the end of progress_x: receives are posted again.
RefillCount == IF 10 * nrecvs < 8 * MaxRecvs THEN Min({pool, MaxRecvs - nrecvs}) ELSE 0

Poll(t) ==
    /\ MayPoll(t) /\ (cq # {} \/ RefillCount > 0)
    /\ \E b \in SUBSET cq :
        /\ Cardinality(b) = Min({MaxPolls, Cardinality(cq)})
        /\ worker' = [worker EXCEPT ![t].busy = TRUE, ![t].batch = b]
        /\ cq' = cq \ b
    /\ UNCHANGED <<callVars, signals, puts, net, arrived, landed, faults, pool, nrecvs,
                   handled, filled, endVars>>

\* There is nothing to do: the thread only spins.
PollNothing(t) == MayPoll(t) /\ cq = {} /\ RefillCount = 0 /\ UNCHANGED vars

\* free_ctx_and_signal_comp of operation o.
FreeAndSignal(o) ==
    /\ live' = live \ {o}
    /\ pool' = pool + IF HasPacket(o) THEN 1 ELSE 0
    /\ signals' = [signals EXCEPT ![o] = @ + IF PassesComp(Args(o)) THEN 1 ELSE 0]

Done(t, e) == worker' = [worker EXCEPT ![t].batch = @ \ {e}]

\* progress_send, progress_write or progress_read without an extended context;
\* the completion of an RTS has no context.  A buffer-copy get copies the packet
\* to the buffer first.
CompleteSimple(t, e) ==
    /\ e \in worker[t].batch /\ e.ok /\ e.n = 0 /\ e.op # "RECV"
    /\ Done(t, e)
    /\ IF e.op = "RTS" THEN UNCHANGED <<live, pool, signals>> ELSE FreeAndSignal(e.id)
    /\ filled' = IF e.op = "READ" /\ e.id \in landed THEN filled \cup {e.id} ELSE filled
    /\ UNCHANGED <<call, upacket, syncs, puts, netVars, nrecvs, handled, endVars>>

\* progress_write of a piece of a rendezvous.
CompletePiece(t, e) ==
    /\ e \in worker[t].batch /\ e.ok /\ e.n > 0
    /\ Done(t, e)
    /\ puts' = [puts EXCEPT ![e.id] = @ - 1]
    /\ IF puts[e.id] > 1 THEN UNCHANGED <<live, pool, signals>> ELSE FreeAndSignal(e.id)
    /\ UNCHANGED <<call, upacket, syncs, netVars, nrecvs, handled, filled, endVars>>

\* consume_recvs and progress_recv of an active message, or progress_remote_write
\* of a user's notice: the handler is signalled and the packet goes back.
CompleteRecv(t, e) ==
    /\ e \in worker[t].batch /\ e.ok /\ e.op = "RECV"
    /\ Done(t, e)
    /\ nrecvs' = nrecvs - 1 /\ pool' = pool + 1
    /\ handled' = handled \cup {e.id}
    /\ UNCHANGED <<callVars, signals, puts, netVars, filled, endVars>>

\* get_failed_peer_rank: the backend's rank, or that of a simple context.  An RTS
\* and a receive have no context, an extended context has no rank.
FailedRank(e) ==
    IF e.op = "RECV" \/ (~KnowsRank /\ (e.op = "RTS" \/ e.n > 0))
    THEN NoRank ELSE Peer[e.id]

\* cleanup_failed_simple_operation deletes the contexts of operations with one
\* completion; nothing is signalled.
Cleanup(e) == e.op \notin {"RECV", "RTS"} /\ e.n = 0

\* A failed completion is noted; the batch goes on.
CompleteFailed(t, e) ==
    /\ e \in worker[t].batch /\ ~e.ok
    /\ worker' = [worker EXCEPT ![t] = [busy |-> TRUE, batch |-> @.batch \ {e}, failure |-> TRUE,
                        rank |-> IF @.failure THEN @.rank ELSE FailedRank(e)]]
    /\ failed' = TRUE
    /\ IF Cleanup(e)
       THEN /\ live' = live \ {e.id}
            /\ pool' = pool + IF HasPacket(e.id) THEN 1 ELSE 0
       ELSE UNCHANGED <<live, pool>>
    /\ UNCHANGED <<call, upacket, syncs, signals, puts, netVars, nrecvs, handled, filled,
                   thrown, teardown>>

\* The batch was processed without a failure.
EndProgress(t) ==
    /\ worker[t].busy /\ worker[t].batch = {} /\ ~worker[t].failure
    /\ worker' = [worker EXCEPT ![t] = Idle]
    /\ nrecvs' = nrecvs + RefillCount /\ pool' = pool - RefillCount
    /\ UNCHANGED <<callVars, signals, puts, netVars, handled, filled, endVars>>

\* Wrong: a blocking post that meets the exception goes on waiting.
ThrowInside(t) ==
    /\ worker[t].batch = {} /\ worker[t].failure
    /\ worker' = [worker EXCEPT ![t] = Idle]
    /\ thrown' = thrown \cup {worker[t].rank}
    /\ teardown' = IF teardown = "draining" THEN "threw" ELSE teardown
    /\ UNCHANGED <<callVars, signals, puts, netVars, pool, nrecvs, handled, filled, failed>>

\* The exception leaves progress_x, and with it a blocking post (whose
\* synchronizer stays allocated) or free_endpoint.
Throw(t) ==
    /\ worker[t].batch = {} /\ worker[t].failure
    /\ worker' = [worker EXCEPT ![t] = Idle]
    /\ thrown' = thrown \cup {worker[t].rank}
    /\ call' = [o \in Ops |->
            IF ThreadOf[o] = t /\ call[o].pc = "wait"
            THEN [call[o] EXCEPT !.pc = "over", !.returned = "threw"] ELSE call[o]]
    /\ teardown' = IF teardown = "draining" THEN "threw" ELSE teardown
    /\ UNCHANGED <<upacket, live, syncs, signals, puts, netVars, pool, nrecvs, handled,
                   filled, failed>>

-----------------------------------------------------------------------------
\* free_endpoint, once every operation was posted and the other threads stopped:
\* a failed device is not drained.
Stopped == \A t \in Threads : Free(t)

FreeEndpoint ==
    /\ teardown = "no" /\ Stopped /\ \A o \in Ops : call[o].pc = "over"
    /\ teardown' = IF failed THEN "freed" ELSE "draining"
    /\ UNCHANGED <<callVars, signals, puts, netVars, worker, pool, nrecvs, handled, filled,
                   failed, thrown>>

\* wait_drained returns: get_pending_ops() is 0.
Drained ==
    /\ teardown = "draining" /\ worker[Main] = Idle /\ live = {}
    /\ teardown' = "freed"
    /\ UNCHANGED <<callVars, signals, puts, netVars, worker, pool, nrecvs, handled, filled,
                   failed, thrown>>

-----------------------------------------------------------------------------
Post(o) ==
    \/ GetUpacket(o)
    \/ \E a \in Calls : PostRetries(o, a) \/ Prepare(o, a)
    \/ PostShm(o) \/ PostNetworkRetry(o) \/ PostNetwork(o)
    \/ ExitRetry(o) \/ ExitDone(o) \/ ExitSignal(o) \/ ExitPosted(o) \/ SyncDone(o)

Network ==
    \/ \E r \in net : NetComplete(r)
    \/ \E o \in Ops : Answer(o)

Progress(t) ==
    \/ Poll(t)
    \/ \E e \in worker[t].batch :
        CompleteSimple(t, e) \/ CompletePiece(t, e) \/ CompleteRecv(t, e)
        \/ CompleteFailed(t, e)
    \/ EndProgress(t) \/ Throw(t)

Next ==
    \/ \E o \in Ops : Post(o)
    \/ Network
    \/ \E m \in Arrivals : Arrive(m)
    \/ \E t \in Threads : Progress(t) \/ PollNothing(t)
    \/ FreeEndpoint \/ Drained
    \/ teardown \in {"freed", "threw"} /\ UNCHANGED vars

Spec == Init /\ [][Next]_vars

-----------------------------------------------------------------------------
Requests == [op : {"SEND", "WRITE", "READ", "RTS", "RECV"}, id : Ops \cup Arrivals,
             n : Nat]

TypeOK ==
    /\ \A o \in Ops :
        /\ call[o].pc \in {"idle", "post", "exit", "wait", "over"} /\ IsCall(Args(o))
        /\ call[o].returned \in {"none", "done", "posted", "retry", "threw"}
    /\ upacket \in [Ops -> {"none", "user", "given"}]
    /\ live \subseteq Ops /\ syncs \subseteq Ops /\ filled \subseteq Ops
    /\ signals \in [Ops -> Nat] /\ net \subseteq Requests /\ faults \subseteq Requests
    /\ pool \in 0 .. Packets /\ nrecvs \in 0 .. MaxRecvs
    /\ handled \subseteq arrived /\ arrived \subseteq Arrivals

\* Completions that were reported and not processed.
Reported == cq \cup UNION {worker[t].batch : t \in Threads}

\* Every packet is in one place: the pool, a posted receive, a context, or the
\* program's hands.  A retry gives back what the post took and leaves the user's
\* packet with the user, a failed operation gives its packet back; a failed
\* receive is the only way to lose one, and it stays counted in nrecvs_posted.
PacketsOnce ==
    pool + nrecvs + Cardinality({o \in Ops : HasPacket(o)})
         + Cardinality({o \in Ops : upacket[o] = "user"}) = Packets

\* An operation whose completion failed and whose context is not reclaimed.
Abandoned(o) ==
    \E f \in faults : f.id = o /\ (f.op = "RTS" \/ f.n > 0)

\* Every context will be freed: its operation is being posted, is with the
\* network, or has a completion to be processed; only a failure of a split
\* operation leaves one behind, so that wait_drained ends unless there was one.
ContextsFreed ==
    \A o \in live :
        \/ call[o].pc \in {"post", "exit"} /\ call[o].error # "posted"
        \/ \E r \in net \cup Reported : r.id = o
        \/ Protocol(Args(o)) = "rdv_zcopy" /\ puts[o] = NoExtended
        \/ Abandoned(o)

\* Whoever waits for the operation is there when it completes: a context that is
\* to be completed is allocated, and so is the synchronizer of a blocking post,
\* also when an exception of another operation ended that post.
NoUseAfterFree ==
    /\ \A r \in net \cup Reported : r.op \notin {"RECV", "RTS"} => r.id \in live
    /\ \A o \in live : call[o].passed /\ ~Args(o).allow_posted => o \in syncs

Finished(o) == o \in landed /\ (Args(o).kind = "get" => o \in filled)

\* The contract of a post.  exit_handler's assertions hold: done means that the
\* network does not have the completion object, posted that it has.  What the
\* caller excluded is not returned.  A completion object is signalled at most
\* once, only for a post that returned posted (or blocks), and then the
\* operation succeeded as a whole and a get has its data in the buffer; done
\* from a blocking post says the same.  A failed operation signals nobody.
ReturnsRight ==
    \A o \in Ops :
        LET c == call[o] IN
        /\ c.pc = "exit" => (c.error = "done" => ~c.passed) /\ (c.error = "posted" => c.passed)
        /\ c.returned = "retry" => c.args.allow_retry
        /\ c.returned = "posted" => c.args.allow_posted
        /\ c.returned = "done" => c.args.allow_done
        /\ signals[o] <= 1
        /\ signals[o] = 1 => c.pc # "idle" /\ (c.passed => Finished(o))
        /\ c.returned = "done" /\ c.passed => Finished(o)
        /\ c.pc = "over" /\ c.returned = "done" /\ c.args.allow_posted => signals[o] = 0

\* What progress() promises of failures: once all is quiet, every success was
\* delivered, also from batches with a failure; a failed device and an exception
\* go together, and an exception names a rank only if an operation to that rank
\* failed.
FailuresReported ==
    /\ (\A t \in Threads : worker[t] = Idle) =>
        (failed <=> thrown # {})
    /\ thrown \ {NoRank} \subseteq {Peer[f.id] : f \in {g \in faults : g.op # "RECV"}}
    /\ Reported = {} /\ net = {} =>
        \A o \in Ops : call[o].passed /\ Finished(o) /\ call[o].pc \in {"over", "wait"} =>
            signals[o] = 1
    /\ Reported = {} => arrived \ handled = {f.id : f \in faults} \cap Arrivals

\* free_endpoint returns or raises the exception of a failure it met.
Ended == teardown \in {"freed", "threw"}

=============================================================================
