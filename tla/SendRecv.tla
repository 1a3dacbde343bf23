------------------------------ MODULE SendRecv ------------------------------
(***************************************************************************)
(* Two-sided communication and active messages between ranks, as           *)
(* src/core/communicate.cpp posts them and src/core/progress.cpp and       *)
(* src/core/rendezvous.hpp complete them: the eager protocols (inject,     *)
(* buffer copy, zero copy), the rendezvous protocol with its RTS, RTR, put *)
(* and FIN messages, and its variant that replaces FIN by the immediate    *)
(* data of the last put.                                                   *)
(*                                                                         *)
(* Every operation is posted once, so an internal context is identified by *)
(* the operation it was allocated for.  live is the set of contexts that   *)
(* are allocated: a pointer to a context outside it is dangling.  A        *)
(* handler takes one step, except handle_rdv_rtr, whose loop posts one put *)
(* per step while other threads may already complete the earlier ones: all *)
(* that another handler touches is owned by the handler's thread or goes   *)
(* through one call of a thread-safe object.  That the endpoint never      *)
(* loses or reorders a post is the subject of module Endpoint; matching is *)
(* one step of the matching engine.                                        *)
(***************************************************************************)
EXTENDS Integers, FiniteSets, FiniteSetsExt, Functions

CONSTANTS
    Ranks,         \* the processes
    Sends,         \* operations posted with post_send or post_am
    Ams,           \* those posted with post_am
    Recvs,         \* operations posted with post_recv
    Source,        \* Source[s]: the rank that posts s
    Dest,          \* Dest[o]: the rank s is sent to; the rank that posts recv r
    Key,           \* Key[o]: the matching key of a send or receive
    Shapes,        \* the shapes (see IsShape) that a send may have
    RdvProtocol,   \* attr rdv_protocol: "write" or "writeimm"
    ImmTakesRecv,  \* the network takes a posted receive for a put with immediate
    Packets,       \* packets of each rank's pool
    MaxRecvs,      \* net_max_recvs, receives a device keeps posted
    Tags,          \* tags of rdv_imm_archive
    Null           \* no tag, no context

Protocols == {"inject", "eager_bcopy", "eager_zcopy", "rdv_zcopy"}

\* What set_protocol decides on: the protocol, whether local completion waits
\* for the network, the number of pieces of max_msg_size, and the path.  Only
\* rendezvous data exceeds a packet; inject has memory semantics; only inject
\* and buffer copy use shared memory.
IsShape(sh) ==
    /\ sh \in [protocol : Protocols, network : BOOLEAN, size : Nat \ {0}, shm : BOOLEAN]
    /\ sh.size > 1 => sh.protocol = "rdv_zcopy"
    /\ sh.network => sh.protocol # "inject"
    /\ sh.shm => sh.protocol \in {"inject", "eager_bcopy"}

SendRecvAssumption ==
    /\ Ams \subseteq Sends /\ Sends \cap Recvs = {}
    /\ IsFiniteSet(Sends) /\ IsFiniteSet(Recvs)
    /\ Source \in [Sends -> Ranks] /\ Dest \in [Sends \cup Recvs -> Ranks]
    /\ \A sh \in Shapes : IsShape(sh)
    /\ RdvProtocol \in {"write", "writeimm"} /\ ImmTakesRecv \in BOOLEAN
    /\ Packets \in Nat /\ MaxRecvs \in Nat /\ Null \notin Tags

VARIABLES
    shape,     \* shape[s] of each posted send
    returned,  \* returned[o]: "none", or what the post returned: "done", "posted"
    signals,   \* signals[o]: how often the completion object of o was signalled
    live,      \* allocated contexts
    pool,      \* pool[k]: packets in the pool of rank k
    nrecvs,    \* nrecvs[k]: packets posted as receives at rank k
    unexpected,\* sends whose first message waits in the matching engine
    expected,  \* receives that wait in the matching engine
    net,       \* messages and puts under way
    cq,        \* completions the network has reported
    archive,   \* archive[k]: rdv_imm_archive of rank k, pairs of a tag and a context
    posting,   \* loops of handle_rdv_rtr that are under way
    ext,       \* ext[s]: signal_count and recv_ctx of the extended context of s
    buffer     \* buffer[c]: the pieces that were written to the buffer of c

vars == <<shape, returned, signals, live, pool, nrecvs, unexpected, expected,
          net, cq, archive, posting, ext, buffer>>

Ctx(kind, o) == <<kind, o>>
Receivers == {Ctx("recv", r) : r \in Recvs} \cup {Ctx("am", s) : s \in Ams}
Contexts == Receivers \cup ({"send", "rtr", "ext"} \X Sends)

Posted(o) == returned[o] # "none"
Uses(s, protocols) == Posted(s) /\ shape[s].protocol \in protocols
Pieces(s) == {<<s, i>> : i \in 1 .. shape[s].size}
RankOf(c) == IF c[1] \in {"send", "ext"} THEN Source[c[2]] ELSE Dest[c[2]]

\* The packet that the destructor of context c gives back.
OwnsPacket(c) ==
    \/ c[1] = "rtr"
    \/ c[1] = "send" /\ Uses(c[2], {"eager_bcopy", "rdv_zcopy"})

-----------------------------------------------------------------------------
NoShape == [protocol |-> "inject", network |-> FALSE, size |-> 1, shm |-> FALSE]

Init ==
    /\ shape = [s \in Sends |-> NoShape]
    /\ returned = [o \in Sends \cup Recvs |-> "none"]
    /\ signals = [c \in Contexts |-> 0]
    /\ live = {}
    /\ nrecvs = [k \in Ranks |-> Min({Packets, MaxRecvs})]
    /\ pool = [k \in Ranks |-> Packets - nrecvs[k]]
    /\ unexpected = {} /\ expected = {}
    /\ net = {} /\ cq = {} /\ posting = {}
    /\ archive = [k \in Ranks |-> {}]
    /\ ext = [s \in Sends |-> [count |-> 0, ctx |-> Null]]
    /\ buffer = [c \in Receivers |-> {}]

-----------------------------------------------------------------------------
\* Posting a send or an active message (communicate.cpp).  A post that returns
\* retry undoes all it did, so only posts that succeed are steps; that there is
\* no packet to be had is such a retry.

NeedsPacket(sh) == sh.protocol \in {"eager_bcopy", "rdv_zcopy"}

\* The context is passed the completion object when the post cannot be done.
PassesComp(sh) == sh.protocol \in {"eager_zcopy", "rdv_zcopy"} \/ sh.network

FirstMessage(s, sh) ==
    [type |-> IF sh.protocol = "rdv_zcopy" THEN "rts" ELSE "eager",
     send |-> s, ctx |-> Null, tag |-> Null, shm |-> sh.shm]

PostSend(s, sh) ==
    LET k == Source[s] IN
    /\ ~Posted(s)
    /\ NeedsPacket(sh) => pool[k] > 0
    /\ shape' = [shape EXCEPT ![s] = sh]
    /\ returned' = [returned EXCEPT ![s] =
            IF PassesComp(sh) /\ ~sh.shm THEN "posted" ELSE "done"]
    /\ net' = net \cup {FirstMessage(s, sh)}
    /\ IF sh.shm
       THEN UNCHANGED <<live, cq, pool>>  \* shm::post_send copied the message
       ELSE /\ live' = live \cup {Ctx("send", s)}
            /\ cq' = IF sh.protocol = "rdv_zcopy" THEN cq
                     ELSE cq \cup {[type |-> "SEND", ctx |-> Ctx("send", s)]}
            /\ pool' = [pool EXCEPT ![k] = @ - IF NeedsPacket(sh) THEN 1 ELSE 0]
    /\ UNCHANGED <<signals, nrecvs, unexpected, expected, archive, posting, ext,
                   buffer>>

-----------------------------------------------------------------------------
\* Packets and contexts.

\* The network puts an incoming message into a posted receive, progress_shm
\* into a packet of the pool; back packets are returned to the pool.
TakePacket(m, k, back) ==
    IF m.shm
    THEN /\ pool[k] > 0
         /\ pool' = [pool EXCEPT ![k] = @ - 1 + back]
         /\ UNCHANGED nrecvs
    ELSE /\ nrecvs[k] > 0
         /\ nrecvs' = [nrecvs EXCEPT ![k] = @ - 1]
         /\ pool' = [pool EXCEPT ![k] = @ + back]

HasComp(c) == c[1] \in {"recv", "am"} \/ (c[1] = "send" /\ PassesComp(shape[c[2]]))

\* free_ctx_and_signal_comp of context c.
Signalled(c) == [signals EXCEPT ![c] = @ + IF HasComp(c) THEN 1 ELSE 0]
PoolAfterFree(c) == [pool EXCEPT ![RankOf(c)] = @ + IF OwnsPacket(c) THEN 1 ELSE 0]

Refill(k) ==
    /\ 10 * nrecvs[k] < 8 * MaxRecvs
    /\ pool[k] > 0
    /\ LET n == Min({pool[k], MaxRecvs - nrecvs[k]}) IN
        /\ nrecvs' = [nrecvs EXCEPT ![k] = @ + n]
        /\ pool' = [pool EXCEPT ![k] = @ - n]
    /\ UNCHANGED <<shape, returned, signals, live, unexpected, expected, net, cq,
                   archive, posting, ext, buffer>>

-----------------------------------------------------------------------------
\* Matching and the receiving side of the rendezvous (rendezvous.hpp).

MatchingRecvs(s) == {r \in expected : Dest[r] = Dest[s] /\ Key[r] = Key[s]}
MatchingSends(r) == {s \in unexpected : Dest[s] = Dest[r] /\ Key[s] = Key[r]}

\* handle_rdv_rts_common for send s and receiving context c: the context goes
\* into the archive if the answer is to be a tag, and the RTS packet is sent
\* back as RTR.  rest is what is left of net without the RTS message.
RtsCommon(s, c, rest) ==
    \E tag \in IF RdvProtocol = "writeimm"
               THEN Tags \ {e[1] : e \in archive[Dest[s]]} ELSE {Null} :
        /\ archive' = [archive EXCEPT ![Dest[s]] =
                @ \cup IF tag = Null THEN {} ELSE {<<tag, c>>}]
        /\ net' = rest \cup
                {[type |-> "rtr", send |-> s, ctx |-> c, tag |-> tag, shm |-> FALSE]}
        /\ cq' = cq \cup {[type |-> "SEND", ctx |-> Ctx("rtr", s)]}
        /\ live' = live \cup {c, Ctx("rtr", s)}

\* Wrong: leaves the matched send in the matching engine.
PostRecvKeeps(r) ==
    LET c == Ctx("recv", r) IN
    /\ ~Posted(r)
    /\ \/ /\ MatchingSends(r) = {}
          /\ returned' = [returned EXCEPT ![r] = "posted"]
          /\ expected' = expected \cup {r}
          /\ live' = live \cup {c}
          /\ UNCHANGED <<unexpected, buffer, pool, net, cq, archive>>
       \/ \E s \in MatchingSends(r) :
          /\ unexpected' = unexpected
          /\ UNCHANGED expected
          /\ IF shape[s].protocol = "rdv_zcopy"
             THEN /\ returned' = [returned EXCEPT ![r] = "posted"]
                  /\ RtsCommon(s, c, net)
                  /\ UNCHANGED <<buffer, pool>>
             ELSE /\ returned' = [returned EXCEPT ![r] = "done"]
                  /\ buffer' = [buffer EXCEPT ![c] = @ \cup Pieces(s)]
                  /\ pool' = [pool EXCEPT ![Dest[r]] = @ + 1]
                  /\ UNCHANGED <<live, net, cq, archive>>
    /\ UNCHANGED <<shape, signals, nrecvs, posting, ext>>

PostRecv(r) ==
    LET c == Ctx("recv", r) IN
    /\ ~Posted(r)
    /\ \/ /\ MatchingSends(r) = {}
          /\ returned' = [returned EXCEPT ![r] = "posted"]
          /\ expected' = expected \cup {r}
          /\ live' = live \cup {c}
          /\ UNCHANGED <<unexpected, buffer, pool, net, cq, archive>>
       \/ \E s \in MatchingSends(r) :
          /\ unexpected' = unexpected \ {s}
          /\ UNCHANGED expected
          /\ IF shape[s].protocol = "rdv_zcopy"
             THEN /\ returned' = [returned EXCEPT ![r] = "posted"]
                  /\ RtsCommon(s, c, net)
                  /\ UNCHANGED <<buffer, pool>>
             ELSE /\ returned' = [returned EXCEPT ![r] = "done"]
                  /\ buffer' = [buffer EXCEPT ![c] = @ \cup Pieces(s)]
                  /\ pool' = [pool EXCEPT ![Dest[r]] = @ + 1]
                  /\ UNCHANGED <<live, net, cq, archive>>
    /\ UNCHANGED <<shape, signals, nrecvs, posting, ext>>

-----------------------------------------------------------------------------
\* progress_recv, one action per type of message.

\* An active message is copied out of its packet and signalled at once.
RecvEagerAm(m) ==
    LET c == Ctx("am", m.send) IN
    /\ m.type = "eager" /\ m.send \in Ams
    /\ TakePacket(m, Dest[m.send], 1)
    /\ buffer' = [buffer EXCEPT ![c] = @ \cup Pieces(m.send)]
    /\ signals' = [signals EXCEPT ![c] = @ + 1]
    /\ net' = net \ {m}
    /\ UNCHANGED <<shape, returned, live, unexpected, expected, cq, archive,
                   posting, ext>>

RecvEager(m) ==
    /\ m.type = "eager" /\ m.send \notin Ams
    /\ net' = net \ {m}
    /\ \/ /\ MatchingRecvs(m.send) = {}
          /\ TakePacket(m, Dest[m.send], 0)
          /\ unexpected' = unexpected \cup {m.send}
          /\ UNCHANGED <<expected, buffer, live, signals>>
       \/ \E r \in MatchingRecvs(m.send) :
          LET c == Ctx("recv", r) IN
          /\ TakePacket(m, Dest[m.send], 1)
          /\ expected' = expected \ {r}
          /\ buffer' = [buffer EXCEPT ![c] = @ \cup Pieces(m.send)]
          /\ live' = live \ {c}
          /\ signals' = Signalled(c)
          /\ UNCHANGED unexpected
    /\ UNCHANGED <<shape, returned, cq, archive, posting, ext>>

RecvRts(m) ==
    /\ m.type = "rts"
    /\ TakePacket(m, Dest[m.send], 0)
    /\ \/ /\ m.send \in Ams
          /\ RtsCommon(m.send, Ctx("am", m.send), net \ {m})
          /\ UNCHANGED <<unexpected, expected>>
       \/ /\ m.send \notin Ams /\ MatchingRecvs(m.send) = {}
          /\ unexpected' = unexpected \cup {m.send}
          /\ net' = net \ {m}
          /\ UNCHANGED <<expected, archive, cq, live>>
       \/ /\ m.send \notin Ams
          /\ \E r \in MatchingRecvs(m.send) :
                /\ expected' = expected \ {r}
                /\ RtsCommon(m.send, Ctx("recv", r), net \ {m})
          /\ UNCHANGED unexpected
    /\ UNCHANGED <<shape, returned, signals, posting, ext, buffer>>

\* handle_rdv_rtr up to its loop: the extended context counts one completion
\* per put and remembers the receiver's context for the FIN message.
SignalCount(s) == shape[s].size

RecvRtr(m) ==
    /\ m.type = "rtr"
    /\ TakePacket(m, Source[m.send], 0)
    /\ net' = net \ {m}
    /\ live' = live \cup {Ctx("ext", m.send)}
    /\ ext' = [ext EXCEPT ![m.send] =
            [count |-> SignalCount(m.send),
             ctx |-> IF RdvProtocol = "writeimm" THEN Null ELSE m.ctx]]
    /\ posting' = posting \cup
            {[send |-> m.send, piece |-> 1, ctx |-> m.ctx, tag |-> m.tag]}
    /\ UNCHANGED <<shape, returned, signals, unexpected, expected, cq, archive,
                   buffer>>

\* One turn of the loop.  The last put carries the tag, if there is one, and
\* after it the RTR packet goes back to the pool.
IsLastPiece(p) == p.piece = shape[p.send].size

PostPut(p) ==
    /\ net' = net \cup {[type |-> "put", send |-> p.send, piece |-> p.piece,
            ctx |-> p.ctx, tag |-> IF IsLastPiece(p) THEN p.tag ELSE Null]}
    /\ posting' = (posting \ {p}) \cup
            IF p.piece < shape[p.send].size
            THEN {[p EXCEPT !.piece = @ + 1]} ELSE {}
    /\ pool' = [pool EXCEPT ![Source[p.send]] =
            @ + IF p.piece < shape[p.send].size THEN 0 ELSE 1]
    /\ UNCHANGED <<shape, returned, signals, live, nrecvs, unexpected, expected,
                   cq, archive, ext, buffer>>

\* Wrong: does not put the packet back.
RecvFinKeeps(m) ==
    /\ m.type = "fin"
    /\ TakePacket(m, RankOf(m.ctx), 0)
    /\ net' = net \ {m}
    /\ live' = live \ {m.ctx}
    /\ signals' = Signalled(m.ctx)
    /\ UNCHANGED <<shape, returned, unexpected, expected, cq, archive, posting,
                   ext, buffer>>

RecvFin(m) ==
    /\ m.type = "fin"
    /\ TakePacket(m, RankOf(m.ctx), 1)
    /\ net' = net \ {m}
    /\ live' = live \ {m.ctx}
    /\ signals' = Signalled(m.ctx)
    /\ UNCHANGED <<shape, returned, unexpected, expected, cq, archive, posting,
                   ext, buffer>>
-----------------------------------------------------------------------------
\* The network's side of a put (external).  A put reports its local completion
\* once its data is in the remote buffer.  Puts with immediate data are only
\* relied on where puts of one connection land in order; with RdvProtocol
\* "write" they may land in any order.
Land(m) ==
    /\ m.type = "put"
    /\ RdvProtocol = "writeimm" =>
        \A o \in net : o.type = "put" /\ o.send = m.send => o.piece >= m.piece
    /\ LET k == RankOf(m.ctx)
           takes == m.tag # Null /\ ImmTakesRecv IN
        /\ takes => nrecvs[k] > 0
        /\ nrecvs' = [nrecvs EXCEPT ![k] = @ - IF takes THEN 1 ELSE 0]
        /\ cq' = cq \cup {[type |-> "WRITE", send |-> m.send, piece |-> m.piece]}
                    \cup IF m.tag = Null THEN {}
                         ELSE {[type |-> "REMOTE_WRITE", rank |-> k, tag |-> m.tag]}
    /\ buffer' = [buffer EXCEPT ![m.ctx] = @ \cup {<<m.send, m.piece>>}]
    /\ net' = net \ {m}
    /\ UNCHANGED <<shape, returned, signals, live, pool, unexpected, expected,
                   archive, posting, ext>>

-----------------------------------------------------------------------------
\* progress_send, progress_write and progress_remote_write.

ProgressSend(e) ==
    /\ e.type = "SEND"
    /\ cq' = cq \ {e}
    /\ live' = live \ {e.ctx}
    /\ signals' = Signalled(e.ctx)
    /\ pool' = PoolAfterFree(e.ctx)
    /\ UNCHANGED <<shape, returned, nrecvs, unexpected, expected, net, archive,
                   posting, ext, buffer>>

\* The completion of a put of send s counts down; the last one sends FIN if the
\* receiver waits for it and frees both contexts.
Fin(s) ==
    IF ext[s].ctx = Null THEN {}
    ELSE {[type |-> "fin", send |-> s, ctx |-> ext[s].ctx, tag |-> Null, shm |-> FALSE]}

ProgressWrite(e) ==
    LET c == Ctx("send", e.send) IN
    /\ e.type = "WRITE"
    /\ cq' = cq \ {e}
    /\ ext' = [ext EXCEPT ![e.send].count = @ - 1]
    /\ IF ext[e.send].count > 1
       THEN UNCHANGED <<net, live, signals, pool>>
       ELSE /\ net' = net \cup Fin(e.send)
            /\ live' = live \ {Ctx("ext", e.send), c}
            /\ signals' = Signalled(c)
            /\ pool' = PoolAfterFree(c)
    /\ UNCHANGED <<shape, returned, nrecvs, unexpected, expected, archive, posting,
                   buffer>>

ProgressRemoteWrite(e) ==
    /\ e.type = "REMOTE_WRITE"
    /\ \E a \in archive[e.rank] :
        /\ a[1] = e.tag
        /\ archive' = [archive EXCEPT ![e.rank] = @ \ {a}]
        /\ live' = live \ {a[2]}
        /\ signals' = Signalled(a[2])
    /\ pool' = [pool EXCEPT ![e.rank] = @ + IF ImmTakesRecv THEN 1 ELSE 0]
    /\ cq' = cq \ {e}
    /\ UNCHANGED <<shape, returned, nrecvs, unexpected, expected, net, posting,
                   ext, buffer>>

-----------------------------------------------------------------------------
Receive == \E m \in net : RecvEagerAm(m) \/ RecvEager(m) \/ RecvRts(m) \/ RecvRtr(m) \/ RecvFin(m)
Complete == \E e \in cq : ProgressSend(e) \/ ProgressWrite(e) \/ ProgressRemoteWrite(e)

Progress ==
    \/ Receive
    \/ Complete
    \/ \E m \in net : Land(m)
    \/ \E p \in posting : PostPut(p)
    \/ \E k \in Ranks : Refill(k)

\* Everything was posted and nothing is under way.
Quiet == net = {} /\ cq = {} /\ posting = {}
Finished ==
    /\ Quiet /\ \A o \in Sends \cup Recvs : Posted(o)
    /\ UNCHANGED vars

Next ==
    \/ \E s \in Sends, sh \in Shapes : PostSend(s, sh)
    \/ \E r \in Recvs : PostRecv(r)
    \/ Progress
    \/ Finished

Spec == Init /\ [][Next]_vars

\* The program posts all its operations and keeps calling progress() on every
\* rank, and the network delivers what it was given.
FairSpec ==
    /\ Spec
    /\ \A s \in Sends : WF_vars(\E sh \in Shapes : PostSend(s, sh))
    /\ \A r \in Recvs : WF_vars(PostRecv(r))
    /\ WF_vars(Progress)

-----------------------------------------------------------------------------
Messages ==
    [type : {"eager", "rts", "rtr", "fin"}, send : Sends,
     ctx : Receivers \cup {Null}, tag : Tags \cup {Null}, shm : BOOLEAN]
Puts == [type : {"put"}, send : Sends, piece : Nat, ctx : Receivers, tag : Tags \cup {Null}]

\* The shape of the state: counters of packets never go below zero, and a
\* message, completion or loop refers to operations and contexts of the right
\* kind.
TypeOK ==
    /\ \A s \in Sends : IsShape(shape[s])
    /\ returned \in [Sends \cup Recvs -> {"none", "done", "posted"}]
    /\ signals \in [Contexts -> Nat]
    /\ live \subseteq Contexts
    /\ pool \in [Ranks -> 0 .. Packets] /\ nrecvs \in [Ranks -> 0 .. MaxRecvs]
    /\ unexpected \subseteq Sends /\ expected \subseteq Recvs
    /\ \A m \in net : m \in Messages \/ m \in Puts
    /\ \A p \in posting : p \in [send : Sends, piece : Nat, ctx : Receivers, tag : Tags \cup {Null}]
    /\ archive \in [Ranks -> SUBSET (Tags \X Receivers)]
    /\ \A s \in Sends : ext[s].count \in Nat /\ ext[s].ctx \in Receivers \cup {Null}
    /\ buffer \in [Receivers -> SUBSET (Sends \X Nat)]

\* The contexts that messages, completions, tables and loops point to.
References ==
    {Ctx("send", m.send) : m \in {x \in net : x.type \in {"rts", "rtr"}}}
    \cup {Ctx("send", s) : s \in {x \in unexpected : Uses(x, {"rdv_zcopy"})}}
    \cup {Ctx("send", p.send) : p \in posting}
    \cup {Ctx("send", s) : s \in {x \in Sends : Ctx("ext", x) \in live}}
    \cup {Ctx("ext", p.send) : p \in posting}
    \cup {Ctx("ext", m.send) : m \in {x \in net : x.type = "put"}}
    \cup {Ctx("ext", e.send) : e \in {x \in cq : x.type = "WRITE"}}
    \cup {m.ctx : m \in {x \in net : x.type \in {"rtr", "put", "fin"}}}
    \cup {p.ctx : p \in posting}
    \cup {e.ctx : e \in {x \in cq : x.type = "SEND"}}
    \cup {a[2] : a \in UNION {archive[k] : k \in Ranks}}
    \cup {Ctx("recv", r) : r \in expected}

\* No pointer to a context is followed after the context was freed: RTS, RTR and
\* FIN carry raw pointers through the other rank and back, an extended context
\* points to the send's, a loop of handle_rdv_rtr uses both while their puts
\* complete, and puts write into the receive buffer until the context's
\* completion hands the buffer back.
NoDangling == References \subseteq live

\* Once nothing is under way the only contexts left are those of receives that
\* were not matched and of rendezvous sends whose receive was not posted:
\* nothing leaks, whichever handlers ran in whichever order.
NoLeak ==
    Quiet => live = {Ctx("recv", r) : r \in expected} \cup
                    {Ctx("send", s) : s \in {x \in unexpected : Uses(x, {"rdv_zcopy"})}}

\* Packets of rank k outside its pool and its posted receives.
PacketsHeld(k) ==
    Cardinality({c \in live : OwnsPacket(c) /\ RankOf(c) = k})
    + Cardinality({s \in unexpected : Dest[s] = k})
    + Cardinality({p \in posting : Source[p.send] = k})
    + (IF ImmTakesRecv
       THEN Cardinality({e \in cq : e.type = "REMOTE_WRITE" /\ e.rank = k}) ELSE 0)

\* Every packet has exactly one owner: the pool, the device as a posted receive,
\* a context, the matching engine or a handler.  None is lost when an RTS packet
\* turns into an RTR packet or a handler returns early.
PacketsConserved ==
    \A k \in Ranks : pool[k] + nrecvs[k] + PacketsHeld(k) = Packets

IsComplete(c) == signals[c] > 0 \/ (c[1] = "recv" /\ returned[c[2]] = "done")

\* When a receive or an active message completes, its buffer holds all pieces of
\* one send with its key to its rank, and nothing else, from then on: neither
\* FIN nor the tag of the last put overtakes the data.
CompleteMeansAllData ==
    \A c \in Receivers : IsComplete(c) =>
        \E s \in Sends :
            /\ Posted(s) /\ buffer[c] = Pieces(s)
            /\ IF c[1] = "am" THEN s = c[2]
               ELSE s \notin Ams /\ Dest[s] = Dest[c[2]] /\ Key[s] = Key[c[2]]

\* A send is received at most once.
ReceivedOnce ==
    \A c, d \in Receivers : c # d => buffer[c] \cap buffer[d] = {}

\* A post that returned done is never signalled, one that returned posted at
\* most once; and a rendezvous send is signalled only when all its data is in
\* a receive buffer, so that the program may reuse its own.
SignalledOnce ==
    /\ \A o \in Sends \cup Recvs :
        LET c == Ctx(IF o \in Sends THEN "send" ELSE "recv", o) IN
        signals[c] <= IF returned[o] = "posted" THEN 1 ELSE 0
    /\ \A s \in Ams : signals[Ctx("am", s)] <= 1
    /\ \A s \in Sends : signals[Ctx("send", s)] > 0 /\ Uses(s, {"rdv_zcopy"}) =>
        \E c \in Receivers : Pieces(s) \subseteq buffer[c]

AllComplete ==
    /\ \A o \in Sends \cup Recvs : Posted(o)
    /\ \A c \in Receivers : IsComplete(c)
    /\ \A s \in Sends : returned[s] = "posted" => signals[Ctx("send", s)] = 1
    /\ live = {}

\* With a receive for every send and enough packets, every operation completes.
EverythingCompletes == <>[]AllComplete

=============================================================================
