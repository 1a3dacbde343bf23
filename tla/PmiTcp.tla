------------------------------- MODULE PmiTcp -------------------------------
(***************************************************************************)
(* The TCP rendezvous backend of the LCT process manager interface         *)
(* (lct/pmi/pmi_wrapper_tcp.cpp): rank 0 runs a server inside its own      *)
(* calls of initialize, barrier and finalize; every other rank keeps one   *)
(* connection to it.  publish records a pending pair, barrier is the fence *)
(* that sends the pending pairs to rank 0 and brings back a snapshot of    *)
(* the whole store, getname looks in that snapshot.                        *)
(*                                                                         *)
(* A connection is the pair of byte streams between one process and the    *)
(* server in one epoch (an epoch is one initialize ... finalize).  A       *)
(* stream is a FIFO of whole messages holding at most SockCap of them.  A  *)
(* process that fails calls abort(): its sockets are closed.  A crash is   *)
(* the same thing happening at a moment the code did not choose.           *)
(***************************************************************************)
EXTENDS Integers, Sequences, FiniteSets

CONSTANTS Procs,        \* the processes of the job
          RankOf,       \* the RANK variable of each process
          WorldSize,    \* the WORLD_SIZE variable, the same everywhere
          Keys,         \* the keys a process may publish
          Fences,       \* barriers every process calls in an epoch
          Epochs,       \* bound: initialize ... finalize rounds
          SockCap,      \* bound: messages a socket buffer holds
          MaxCrashes    \* bound: processes that die at an arbitrary moment

PmiTcpAssumption ==
    /\ RankOf \in [Procs -> 0..(WorldSize - 1)]
    /\ Cardinality(Procs) = WorldSize
    /\ \E p \in Procs : RankOf[p] = 0 /\ \A q \in Procs \ {p} : RankOf[q] # 0
    /\ Fences \in Nat /\ Epochs \in Nat \ {0} /\ SockCap \in Nat \ {0}
    /\ MaxCrashes \in Nat

VARIABLES local,    \* the globals of each process and where it is
          server,   \* the rank 0 side: listener, g_clients and loop state
          sock,     \* the connections
          fenced,   \* history: what each process had published at each fence
          crashes

vars == <<local, server, sock, fenced, crashes>>

-----------------------------------------------------------------------------
Ranks == 0..(WorldSize - 1)

Server == CHOOSE p \in Procs : RankOf[p] = 0

Clients == Procs \ {Server}

Conns == Clients \X (1..Epochs)

\* A value is the number of the fence before which it was published, so two
\* publications of one key differ; 0 stands for a key that is absent.
Values == 0..Fences

NoPending == [k \in Keys |-> 0]

EmptyStore == [rk \in Ranks \X Keys |-> 0]

NoConn == [client |-> FALSE, served |-> FALSE, accepted |-> FALSE,
           up |-> <<>>, down |-> <<>>]

\* reset_runtime_state: what initialize starts from and finalize leaves.
FreshLocal(e) == [pc |-> "idle", epoch |-> e, fence |-> 0,
                  pending |-> NoPending, kvs |-> EmptyStore, toSend |-> {}]

NoServer == [listening |-> FALSE, clients |-> <<>>, greeting |-> <<>>,
             arrived |-> {}, next |-> 1]

Own(p) == <<p, local[p].epoch>>

Aborted(p) == local[p].pc = "aborted"

Goto(p, l) == local' = [local EXCEPT ![p].pc = l]

Accepted == {server.clients[i] : i \in 1..Len(server.clients)}

Hello(p) == [type |-> "HELLO", rank |-> RankOf[p]]
Publishing(k, v) == [type |-> "PUBLISH", key |-> k, value |-> v]
Barrier == [type |-> "BARRIER"]
Finalizing == [type |-> "FINALIZE"]
Ok == [type |-> "OK"]
Error == [type |-> "ERROR"]
Snapshot(store) == [type |-> "SNAPSHOT", kvs |-> store]

-----------------------------------------------------------------------------
(* Sockets.  A message can be read when it has arrived, even if the peer   *)
(* has closed its end since; a peer that aborted may also have reset the   *)
(* connection, and then what it had sent is lost.                          *)

ServerCanRead(c) == sock[c].up # <<>>

ServerSeesEof(c) == ~sock[c].client /\ (sock[c].up = <<>> \/ Aborted(c[1]))

\* poll() reports the reset (POLLERR) of a connection its client aborted.
ServerSeesReset(c) == ~sock[c].client /\ Aborted(c[1]) /\ c = Own(c[1])

ClientCanRead(c) == sock[c].down # <<>>

\* Mutant: read_all tries again when read() returns 0.
ClientReadsOnAtEof(c) == c \notin Conns

ClientSeesEof(c) == ~sock[c].served /\ (sock[c].down = <<>> \/ Aborted(Server))

\* The server's writes: nothing is lost to a client that is there; a client
\* that is gone may or may not be noticed.
Push(s, c, m) == [s EXCEPT ![c].down = Append(@, m)]

ClosedByServer(s, C) == [c \in Conns |->
    IF c \in C THEN [s[c] EXCEPT !.served = FALSE] ELSE s[c]]

ClosedByClient(s, p) == [c \in Conns |->
    IF c[1] = p THEN [s[c] EXCEPT !.client = FALSE] ELSE s[c]]

\* fail(): the process aborts and the kernel closes what it had open.
Abort(p) ==
    /\ Goto(p, "aborted")
    /\ IF p = Server
       THEN /\ sock' = ClosedByServer(sock, Conns)
            /\ server' = NoServer
       ELSE /\ sock' = ClosedByClient(sock, p)
            /\ UNCHANGED server
    /\ UNCHANGED <<fenced, crashes>>

-----------------------------------------------------------------------------
(* initialize *)

\* Rank 0 binds and listens.
CreateListener ==
    /\ local[Server].pc = "idle"
    /\ local[Server].epoch <= Epochs
    /\ Goto(Server, "accept")
    /\ server' = [NoServer EXCEPT !.listening = TRUE]
    /\ UNCHANGED <<sock, fenced, crashes>>

\* accept_with_timeout takes any connection the kernel completed.
AcceptRankClient ==
    /\ local[Server].pc = "accept"
    /\ Len(server.clients) < WorldSize - 1
    /\ \E c \in Conns :
          /\ sock[c].served /\ ~sock[c].accepted
          /\ sock' = [sock EXCEPT ![c].accepted = TRUE]
          /\ server' = [server EXCEPT !.greeting = c]
    /\ Goto(Server, "hello")
    /\ UNCHANGED <<fenced, crashes>>

\* The error path of initialize: the clients accepted so far, and the one
\* being greeted, are told, everything is closed and the process aborts.
RefuseJob ==
    /\ Goto(Server, "aborted")
    /\ sock' = ClosedByServer([c \in Conns |->
                   IF c \in Accepted \/ c = server.greeting
                   THEN [sock[c] EXCEPT !.down = Append(@, Error)]
                   ELSE sock[c]], Conns)
    /\ server' = NoServer
    /\ UNCHANGED <<fenced, crashes>>

SeenRank(r) == \E c \in Accepted : RankOf[c[1]] = r

ReceiveHello ==
    /\ local[Server].pc = "hello"
    /\ LET c == server.greeting
           hello == Head(sock[c].up)
       IN  \/ /\ ServerCanRead(c)
              /\ hello.type # "HELLO" \/ hello.rank <= 0 \/ SeenRank(hello.rank)
              /\ RefuseJob
           \/ /\ ServerCanRead(c)
              /\ hello.type = "HELLO" /\ hello.rank > 0 /\ ~SeenRank(hello.rank)
              /\ sock' = [sock EXCEPT ![c].up = Tail(@)]
              /\ server' = [server EXCEPT !.clients = Append(@, c),
                                          !.greeting = <<>>]
              /\ Goto(Server, "accept")
              /\ UNCHANGED <<fenced, crashes>>
           \/ /\ ServerSeesEof(c)
              /\ RefuseJob

\* Every rank has joined: the welcome goes out, one client at a time.
SendWelcome ==
    /\ local[Server].pc = "accept"
    /\ Len(server.clients) = WorldSize - 1
    /\ server.next <= Len(server.clients)
    /\ LET c == server.clients[server.next]
       IN  \/ /\ sock' = Push(sock, c, Ok)
              /\ server' = [server EXCEPT !.next = @ + 1]
              /\ UNCHANGED <<local, fenced, crashes>>
           \/ ~sock[c].client /\ RefuseJob

\* The listener goes away, and with it connections nobody accepted.
CloseListener ==
    /\ local[Server].pc = "accept"
    /\ Len(server.clients) = WorldSize - 1
    /\ server.next > Len(server.clients)
    /\ server' = [server EXCEPT !.listening = FALSE]
    /\ sock' = ClosedByServer(sock, {c \in Conns : ~sock[c].accepted})
    /\ Goto(Server, "work")
    /\ UNCHANGED <<fenced, crashes>>

\* connect_to_server retries until there is a listener; hello follows.
ConnectToServer(p) ==
    /\ local[p].pc = "idle"
    /\ local[p].epoch <= Epochs
    /\ server.listening
    /\ sock' = [sock EXCEPT ![Own(p)].client = TRUE, ![Own(p)].served = TRUE]
    /\ Goto(p, "sendHello")
    /\ UNCHANGED <<server, fenced, crashes>>

SendHello(p) ==
    /\ local[p].pc = "sendHello"
    /\ sock' = [sock EXCEPT ![Own(p)].up = Append(@, Hello(p))]
    /\ Goto(p, "welcome")
    /\ UNCHANGED <<server, fenced, crashes>>

ReceiveWelcome(p) ==
    /\ local[p].pc = "welcome"
    /\ LET c == Own(p)
       IN  \/ /\ ClientCanRead(c)
              /\ Head(sock[c].down) = Ok
              /\ sock' = [sock EXCEPT ![c].down = Tail(@)]
              /\ Goto(p, "work")
              /\ UNCHANGED <<server, fenced, crashes>>
           \/ /\ ClientCanRead(c) /\ Head(sock[c].down) # Ok
              /\ Abort(p)
           \/ ClientSeesEof(c) /\ Abort(p)

-----------------------------------------------------------------------------
(* publish and barrier *)

\* publish only records the pair.  One publication of a key per fence.
Publish(p, k) ==
    /\ local[p].pc = "work"
    /\ local[p].fence < Fences
    /\ local[p].pending[k] # local[p].fence + 1
    /\ local' = [local EXCEPT ![p].pending[k] = local[p].fence + 1]
    /\ UNCHANGED <<server, sock, fenced, crashes>>

Pending(p) == {k \in Keys : local[p].pending[k] # 0}

\* History: what p has published when it calls its barrier number f is what
\* it had published at the fence before, overridden by what is pending.
Publications(p) ==
    LET f == local[p].fence + 1
        before == IF f = 1 THEN NoPending ELSE fenced[local[p].epoch, f - 1][p]
    IN  [k \in Keys |-> IF local[p].pending[k] # 0 THEN local[p].pending[k]
                                                   ELSE before[k]]

RecordFence(p) ==
    fenced' = [fenced EXCEPT ![local[p].epoch, local[p].fence + 1][p] =
                                 Publications(p)]

\* Mutant: rank 0 clears its pending pairs without storing them.
AppliedDropped(p) == local[p].kvs

\* apply_pending_publishes
Applied(p) == [rk \in Ranks \X Keys |->
    IF rk[1] = RankOf[p] /\ rk[2] \in Pending(p) THEN local[p].pending[rk[2]]
                                                ELSE local[p].kvs[rk]]

Rank0EnterBarrier ==
    /\ local[Server].pc = "work"
    /\ local[Server].fence < Fences
    /\ local' = [local EXCEPT ![Server].pc = "fence",
                              ![Server].kvs = Applied(Server),
                              ![Server].pending = NoPending]
    /\ server' = [server EXCEPT !.arrived = {}, !.next = 1]
    /\ RecordFence(Server)
    /\ UNCHANGED <<sock, crashes>>

\* A message of a client in the barrier: a publication, stored under the
\* client's rank (store_remote_publish), its arrival, or a reason to fail.
ServeRequest(c, msg) ==
    IF msg.type \in {"PUBLISH", "BARRIER"}
    THEN /\ local' = IF msg.type = "BARRIER" THEN local
                     ELSE [local EXCEPT ![Server].kvs[RankOf[c[1]], msg.key] = msg.value]
         /\ server' = IF msg.type = "PUBLISH" THEN server
                      ELSE [server EXCEPT !.arrived = @ \cup {c}]
         /\ sock' = [sock EXCEPT ![c].up = Tail(@)]
         /\ UNCHANGED <<fenced, crashes>>
    ELSE Abort(Server)

\* poll() reports any of the clients that have not arrived yet.
Rank0Poll ==
    /\ local[Server].pc = "fence"
    /\ \E c \in Accepted \ server.arrived :
          \/ /\ ServerCanRead(c)
             /\ ServeRequest(c, Head(sock[c].up))
          \/ ServerSeesEof(c) /\ Abort(Server)

AllArrived == server.arrived = Accepted

\* send_snapshot, one client after the other, then the barrier returns.
SendSnapshot ==
    /\ local[Server].pc = "fence"
    /\ AllArrived
    /\ server.next <= Len(server.clients)
    /\ LET c == server.clients[server.next]
       IN  \/ /\ sock' = Push(sock, c, Snapshot(local[Server].kvs))
              /\ server' = [server EXCEPT !.next = @ + 1]
              /\ UNCHANGED <<local, fenced, crashes>>
           \/ ~sock[c].client /\ Abort(Server)

Rank0LeaveBarrier ==
    /\ local[Server].pc = "fence"
    /\ AllArrived
    /\ server.next > Len(server.clients)
    /\ local' = [local EXCEPT ![Server].pc = "work", ![Server].fence = @ + 1]
    /\ UNCHANGED <<server, sock, fenced, crashes>>

NonzeroEnterBarrier(p) ==
    /\ local[p].pc = "work"
    /\ local[p].fence < Fences
    /\ local' = [local EXCEPT ![p].pc = "put", ![p].toSend = Pending(p)]
    /\ RecordFence(p)
    /\ UNCHANGED <<server, sock, crashes>>

\* A write waits for room; to a server that is gone it fails, or is lost.
Write(p, m) ==
    /\ Len(sock[Own(p)].up) < SockCap
    /\ sock' = [sock EXCEPT ![Own(p)].up = Append(@, m)]

SendPut(p) ==
    /\ local[p].pc = "put"
    /\ \/ \E k \in local[p].toSend :
             /\ Write(p, Publishing(k, local[p].pending[k]))
             /\ local' = [local EXCEPT ![p].toSend = @ \ {k}]
             /\ UNCHANGED <<server, fenced, crashes>>
       \/ /\ local[p].toSend = {}
          /\ Write(p, Barrier)
          /\ Goto(p, "snapshot")
          /\ UNCHANGED <<server, fenced, crashes>>
       \/ ~sock[Own(p)].served /\ Abort(p)

\* recv_snapshot replaces the store, then the pending pairs are dropped.
ReceiveSnapshot(p) ==
    /\ local[p].pc = "snapshot"
    /\ LET c == Own(p)
           response == Head(sock[c].down)
       IN  \/ /\ ClientCanRead(c)
              /\ IF response.type = "SNAPSHOT"
                 THEN /\ local' = [local EXCEPT ![p].pc = "work", ![p].fence = @ + 1,
                                                ![p].kvs = response.kvs,
                                                ![p].pending = NoPending]
                      /\ sock' = [sock EXCEPT ![c].down = Tail(@)]
                      /\ UNCHANGED <<server, fenced, crashes>>
                 ELSE Abort(p)
           \/ ClientSeesEof(c) /\ Abort(p)

\* getname looks in the local snapshot; 0 is the key that is not found.
Getname(p, r, k) == local[p].kvs[r, k]

-----------------------------------------------------------------------------
(* finalize *)

\* A client says goodbye (whether that works is ignored), closes, resets.
NonzeroFinalize(p) ==
    /\ local[p].pc = "work"
    /\ local[p].fence = Fences
    /\ LET c == Own(p)
       IN  \/ /\ Len(sock[c].up) < SockCap
              /\ sock' = [sock EXCEPT ![c].up = Append(@, Finalizing),
                                      ![c].client = FALSE]
           \/ /\ ~sock[c].served
              /\ sock' = [sock EXCEPT ![c].client = FALSE]
    /\ local' = [local EXCEPT ![p] = FreshLocal(local[p].epoch + 1)]
    /\ UNCHANGED <<server, fenced, crashes>>

Rank0EnterFinalize ==
    /\ local[Server].pc = "work"
    /\ local[Server].fence = Fences
    /\ Goto(Server, "finalize")
    /\ server' = [server EXCEPT !.arrived = {}]
    /\ UNCHANGED <<sock, fenced, crashes>>

\* A client that closed without a goodbye counts as done; a socket error is a
\* reason to fail.
Rank0PollFinalize ==
    /\ local[Server].pc = "finalize"
    /\ \E c \in Accepted \ server.arrived :
          \/ /\ ServerCanRead(c)
             /\ IF Head(sock[c].up) = Finalizing
                THEN /\ server' = [server EXCEPT !.arrived = @ \cup {c}]
                     /\ sock' = [sock EXCEPT ![c].up = Tail(@)]
                     /\ UNCHANGED <<local, fenced, crashes>>
                ELSE Abort(Server)
          \/ /\ ServerSeesEof(c)
             /\ server' = [server EXCEPT !.arrived = @ \cup {c}]
             /\ UNCHANGED <<local, sock, fenced, crashes>>
          \/ ServerSeesReset(c) /\ Abort(Server)

Rank0LeaveFinalize ==
    /\ local[Server].pc = "finalize"
    /\ AllArrived
    /\ sock' = ClosedByServer(sock, Accepted)
    /\ server' = NoServer
    /\ local' = [local EXCEPT ![Server] = FreshLocal(local[Server].epoch + 1)]
    /\ UNCHANGED <<fenced, crashes>>

-----------------------------------------------------------------------------
Finished(p) == local[p].pc = "idle" /\ local[p].epoch > Epochs

\* The job stops with the processes that are left: nobody calls anything.
Crash(p) ==
    /\ crashes < MaxCrashes
    /\ ~Finished(p) /\ ~Aborted(p)
    /\ Goto(p, "aborted")
    /\ crashes' = crashes + 1
    /\ IF p = Server
       THEN sock' = ClosedByServer(sock, Conns) /\ server' = NoServer
       ELSE sock' = ClosedByClient(sock, p) /\ UNCHANGED server
    /\ UNCHANGED fenced

\* The deadline of initialize, in the two waits that nothing else ends when a
\* peer is gone: connecting to a listener, and accepting.  A deadline is far
\* longer than what a live job needs, so it passes only when a process died.
JoinTimeout(p) ==
    /\ \E q \in Procs : Aborted(q)
    /\ \/ p # Server /\ local[p].pc = "idle" /\ ~Finished(p)
          /\ ~server.listening /\ Abort(p)
       \/ p = Server /\ local[p].pc = "accept"
          /\ Len(server.clients) < WorldSize - 1 /\ RefuseJob

ServerStep ==
    \/ CreateListener \/ AcceptRankClient \/ ReceiveHello \/ SendWelcome
    \/ CloseListener \/ Rank0EnterBarrier \/ Rank0Poll \/ SendSnapshot
    \/ Rank0LeaveBarrier \/ Rank0EnterFinalize \/ Rank0PollFinalize
    \/ Rank0LeaveFinalize \/ JoinTimeout(Server)

ClientStep(p) ==
    \/ ConnectToServer(p) \/ SendHello(p) \/ ReceiveWelcome(p)
    \/ NonzeroEnterBarrier(p) \/ SendPut(p) \/ ReceiveSnapshot(p)
    \/ NonzeroFinalize(p) \/ JoinTimeout(p)

Init ==
    /\ local = [p \in Procs |-> FreshLocal(1)]
    /\ server = NoServer
    /\ sock = [c \in Conns |-> NoConn]
    /\ fenced = [ef \in (1..Epochs) \X (1..Fences) |->
                    [p \in Procs |-> NoPending]]
    /\ crashes = 0

Next ==
    \/ ServerStep
    \/ \E p \in Clients : ClientStep(p)
    \/ \E p \in Procs, k \in Keys : Publish(p, k)
    \/ \E p \in Procs : Crash(p)

Spec == Init /\ [][Next]_vars

\* Every process runs; nothing obliges one to publish or to crash.
FairSpec ==
    Spec /\ WF_vars(ServerStep) /\ \A p \in Clients : WF_vars(ClientStep(p))

-----------------------------------------------------------------------------
TypeOK ==
    /\ \A p \in Procs :
          /\ local[p].epoch \in 1..(Epochs + 1)
          /\ local[p].fence \in 0..Fences
          /\ local[p].pending \in [Keys -> Values]
          /\ local[p].kvs \in [Ranks \X Keys -> Values]
          /\ local[p].toSend \subseteq Keys
    /\ server.arrived \subseteq Accepted
    /\ Accepted \subseteq Conns
    /\ \A c \in Conns : Len(sock[c].up) <= SockCap

\* After its fence f (nonzero_barrier or rank0_barrier has returned and the
\* next one is not called), what getname finds at any process for any rank
\* and key is exactly what that rank had published when it called its own
\* fence f: nothing older, nothing of a later fence, nothing missing.
FenceSnapshot ==
    \A p \in Procs : local[p].pc = "work" /\ local[p].fence > 0 =>
        \A q \in Procs, k \in Keys :
            Getname(p, RankOf[q], k) =
                fenced[local[p].epoch, local[p].fence][q][k]

\* How many fences of epoch e process p has called.
Called(p, e) ==
    IF local[p].epoch > e THEN Fences
    ELSE IF local[p].epoch < e THEN 0
    ELSE local[p].fence + (IF local[p].pc \in {"fence", "put", "snapshot"} THEN 1 ELSE 0)

\* barrier() is a barrier: a process comes back from its fence f only when
\* every other process has called its own fence f of that epoch, or has died
\* after calling it.
FenceWaits ==
    \A p, q \in Procs :
        ~Aborted(p) => Called(q, local[p].epoch) >= local[p].fence \/ Aborted(q)

\* No process is past initialize unless WORLD_SIZE processes with WORLD_SIZE
\* different ranks have said hello in this epoch: two processes started with
\* one RANK never run.
JoinedExactly ==
    \A p \in Procs : local[p].pc \in {"work", "fence", "put", "snapshot", "finalize"} =>
        /\ \A q, r \in Procs : RankOf[q] = RankOf[r] => q = r
        /\ \A q \in Procs : \/ Aborted(q)
                            \/ local[q].epoch > local[p].epoch
                            \/ /\ local[q].epoch = local[p].epoch
                               /\ local[q].pc \notin {"idle", "sendHello"}

\* In a job whose processes have different ranks and do not crash, none of
\* the fail() calls is reached: no unexpected message type, no closed
\* connection, no duplicate rank.
NobodyFails == crashes = 0 => \A p \in Procs : ~Aborted(p)

AllEnded == \A p \in Procs : Finished(p) \/ Aborted(p)

\* Every process ends: it finishes its epochs, or it fails.  After a crash
\* this rests on end-of-file and the deadlines of initialize alone; the
\* deadlines of barrier and finalize are never needed.
EveryProcessEnds == <>[]AllEnded
=============================================================================
