--------------------------- MODULE IbvCompletions ---------------------------
(***************************************************************************)
(* The completions of the verbs backend (src/network/ibv).  The endpoints  *)
(* of a device have one queue pair per rank and share its completion       *)
(* queue; a completion names the number of its queue pair, and             *)
(* qp2rank_map_t turns the number into a rank and into the counter of send *)
(* slots that it gives back.  The map is an array indexed by the number    *)
(* modulo a length without collisions, built anew when an endpoint comes   *)
(* or goes, while operations of the others are under way.                  *)
(*                                                                         *)
(* Endpoints are allocated and freed while no thread polls the device:     *)
(* rebuild_locked deletes the array that a poller may be reading.  The     *)
(* verbs library is external.                                              *)
(***************************************************************************)
EXTENDS Integers, FiniteSets

CONSTANTS
    Endpoints, NRanks,
    Pollers,      \* threads that poll the completion queue
    QpNums,       \* numbers the hardware gives to queue pairs
    MaxQpNum,     \* the largest number the hardware could give
    QpSends,      \* net_max_sends
    Calls,        \* operations: [fn, id]
    CqPolls,      \* LCI_BACKEND_MAX_POLLS
    MaxCqes       \* completions that are not translated yet

Ranks == 0 .. NRanks - 1

IbvCompletionsAssumption ==
    /\ NRanks \in Nat \ {0} /\ QpSends \in Nat \ {0}
    /\ MaxQpNum \in Nat /\ QpNums \subseteq 0 .. MaxQpNum
    /\ Cardinality(QpNums) >= NRanks * Cardinality(Endpoints)
    /\ IsFiniteSet(Calls)
    /\ \A c \in Calls :
          c.fn \in {"sends", "send", "puts", "put", "putImms", "putImm", "get"}

ASSUME IbvCompletionsConstants == IbvCompletionsAssumption

VARIABLES
    qps,       \* qps[e]: the queue pair numbers of endpoint e by rank, or <<>>
    qp_remaining_slots,  \* free slots of the send queues: [e][r]
    entries,   \* qp_entries: [num, ep, rank]
    snapshot,  \* current_snapshot: [mod, table]
    posted,    \* posted[c]: the endpoint and rank of a call, or {}
    cq,        \* work completions
    batch      \* batch[t]: the completions thread t has polled and not translated

cqVars == <<qps, qp_remaining_slots, entries, snapshot, posted, cq, batch>>

NoEntry == [num |-> -1, ep |-> "none", rank |-> -1]   \* entry_t{}

CqInit ==
    /\ qps = [e \in Endpoints |-> <<>>]
    /\ qp_remaining_slots = [e \in Endpoints |-> [r \in Ranks |-> QpSends]]
    /\ entries = {} /\ snapshot = [mod |-> 1, table |-> <<>>]
    /\ posted = [c \in Calls |-> {}]
    /\ cq = {} /\ batch = [t \in Pollers |-> {}]

-----------------------------------------------------------------------------
Collides(es, mod) == \E x, y \in es : x # y /\ x.num % mod = y.num % mod

\* rebuild_locked: the first length from the number of ranks without a collision.
\* There is none among lengths above MaxQpNum.
FirstLength(es) ==
    CHOOSE m \in NRanks .. NRanks + MaxQpNum :
        ~Collides(es, m) /\ \A k \in NRanks .. m - 1 : Collides(es, k)

Rebuild(es) ==
    LET mod == FirstLength(es)
    IN IF es = {} THEN [mod |-> 1, table |-> [k \in {0} |-> NoEntry]]
       ELSE [mod |-> mod,
             table |-> [k \in 0 .. mod - 1 |->
                 IF \E x \in es : x.num % mod = k THEN CHOOSE x \in es : x.num % mod = k
                 ELSE NoEntry]]

\* get_entry does not look at the number of the entry it finds.
GetEntry(num) == snapshot.table[num % snapshot.mod]

InUse == {n \in QpNums : \E e \in Endpoints : \E r \in DOMAIN qps[e] : qps[e][r] = n}
NobodyPolls == \A t \in Pollers : batch[t] = {}

\* The constructor of an endpoint: new queue pairs, whose numbers the hardware
\* (external) counts up, and add_qps.
AllocEndpoint(e, nums) ==
    /\ qps[e] = <<>> /\ NobodyPolls
    /\ \A r \in Ranks : nums[r] \notin InUse
    /\ \A r, s \in Ranks : r < s => nums[r] < nums[s]
    /\ qps' = [qps EXCEPT ![e] = nums]
    /\ qp_remaining_slots' = [qp_remaining_slots EXCEPT ![e] = [r \in Ranks |-> QpSends]]
    /\ entries' = entries \cup {[num |-> nums[r], ep |-> e, rank |-> r] : r \in Ranks}
    /\ snapshot' = Rebuild(entries')
    /\ UNCHANGED <<posted, cq, batch>>

Outstanding(e) == {c \in Calls : \E p \in posted[c] : p.ep = e}

\* free_endpoint waits until its operations are done; its destructor takes the
\* queue pairs out of the map and destroys them, with their completions.
FreeEndpoint(e) ==
    /\ qps[e] # <<>> /\ NobodyPolls /\ Outstanding(e) = {}
    /\ entries' = {x \in entries : \A r \in Ranks : x.num # qps[e][r]}
    /\ snapshot' = Rebuild(entries')
    /\ cq' = {w \in cq : \A r \in Ranks : w.num # qps[e][r]}
    /\ qps' = [qps EXCEPT ![e] = <<>>]
    /\ UNCHANGED <<qp_remaining_slots, posted, batch>>

-----------------------------------------------------------------------------
\* What the seven post functions put into the work request, as the opcode of its
\* completion, and what they return once the request is in the send queue.
WorkRequest(opcode, result) == [opcode |-> opcode, result |-> result]

post_sends_impl == WorkRequest("SEND", "done")
post_send_impl == WorkRequest("SEND", "posted")
post_puts_impl == WorkRequest("WRITE", "done")
post_put_impl == WorkRequest("WRITE", "posted")
post_putImms_impl == WorkRequest("WRITE", "done")
post_putImm_impl == WorkRequest("WRITE", "posted")
post_get_impl == WorkRequest("READ", "posted")

RequestOf(c) ==
    [sends |-> post_sends_impl, send |-> post_send_impl, puts |-> post_puts_impl,
     put |-> post_put_impl, putImms |-> post_putImms_impl,
     putImm |-> post_putImm_impl, get |-> post_get_impl][c.fn]

\* A post function that finds a slot and the lock of the queue pair.
Post(c, e, r) ==
    /\ posted[c] = {} /\ qps[e] # <<>> /\ qp_remaining_slots[e][r] > 0
    /\ qp_remaining_slots' = [qp_remaining_slots EXCEPT ![e][r] = @ - 1]
    /\ posted' = [posted EXCEPT ![c] = {[ep |-> e, rank |-> r]}]
    /\ UNCHANGED <<qps, entries, snapshot, cq, batch>>

-----------------------------------------------------------------------------
\* The hardware (external) completes a work request, or a receive: a message has
\* arrived, or receiving it failed.
Completion(num, opcode, ok, context, from) ==
    [num |-> num, opcode |-> opcode, ok |-> ok, context |-> context, from |-> from]

Polled == UNION {batch[t] : t \in Pollers}

HwComplete(c, ok) ==
    /\ posted[c] # {} /\ Cardinality(cq \cup Polled) < MaxCqes
    /\ \A w \in cq \cup Polled : w.context # {c}
    /\ \E p \in posted[c] :
          cq' = cq \cup {Completion(qps[p.ep][p.rank], RequestOf(c).opcode, ok, {c}, p)}
    /\ UNCHANGED <<qps, qp_remaining_slots, entries, snapshot, posted, batch>>

HwArrive(e, r, opcode, ok) ==
    /\ qps[e] # <<>> /\ Cardinality(cq \cup Polled) < MaxCqes
    /\ LET w == Completion(qps[e][r], opcode, ok, {}, [ep |-> e, rank |-> r])
       IN w \notin cq \cup Polled /\ cq' = cq \cup {w}
    /\ UNCHANGED <<qps, qp_remaining_slots, entries, snapshot, posted, batch>>

-----------------------------------------------------------------------------
\* poll_comp_impl: the completion queue is read under a lock that the thread
\* tries for, and the completions are translated one by one after it.
PollCq(t) ==
    /\ batch[t] = {}
    /\ \E W \in SUBSET cq :
          /\ Cardinality(W) <= CqPolls /\ (W = {} => cq = {})
          /\ batch' = [batch EXCEPT ![t] = W]
          /\ cq' = cq \ W
    /\ UNCHANGED <<qps, qp_remaining_slots, entries, snapshot, posted>>

IsReceive(w) == w.opcode \in {"RECV", "RECV_RDMA_WITH_IMM"}

Status(w, entry) ==
    [opcode |-> IF ~w.ok THEN "ERROR"
                ELSE IF w.opcode = "RECV_RDMA_WITH_IMM" THEN "REMOTE_WRITE" ELSE w.opcode,
     rank |-> IF ~w.ok THEN IF IsReceive(w) THEN -1 ELSE entry.rank
              ELSE IF w.opcode = "RECV" THEN entry.rank ELSE 0,
     context |-> w.context]

\* Wrong: only a completion without an error gives its slot back.
ReleaseOnSuccess(w, entry) ==
    IF w.ok /\ ~IsReceive(w) /\ entry.rank \in Ranks
    THEN [qp_remaining_slots EXCEPT ![entry.ep][entry.rank] = @ + 1] ELSE qp_remaining_slots

\* A completion of the send side, failed or not, gives its slot back.
Release(w, entry) ==
    IF ~IsReceive(w) /\ entry.rank \in Ranks
    THEN [qp_remaining_slots EXCEPT ![entry.ep][entry.rank] = @ + 1] ELSE qp_remaining_slots

Translate(t) ==
    /\ \E w \in batch[t] :
          LET entry == GetEntry(w.num)
          IN /\ qp_remaining_slots' = Release(w, entry)
             /\ posted' = [c \in Calls |-> IF w.context = {c} THEN {} ELSE posted[c]]
             /\ batch' = [batch EXCEPT ![t] = @ \ {w}]
    /\ UNCHANGED <<qps, entries, snapshot, cq>>

Poll(t) == PollCq(t) \/ Translate(t)

\* The two kinds of receives fail alike.
Hardware ==
    \/ \E c \in Calls, ok \in BOOLEAN : HwComplete(c, ok)
    \/ \E e \in Endpoints, r \in Ranks, op \in {"RECV", "RECV_RDMA_WITH_IMM"} :
          HwArrive(e, r, op, TRUE)
    \/ \E e \in Endpoints, r \in Ranks : HwArrive(e, r, "RECV", FALSE)

CqNext ==
    \/ \E e \in Endpoints : FreeEndpoint(e)
    \/ \E e \in Endpoints, nums \in [Ranks -> QpNums] : AllocEndpoint(e, nums)
    \/ \E c \in Calls, e \in Endpoints, r \in Ranks : Post(c, e, r)
    \/ \E t \in Pollers : Poll(t)
    \/ Hardware

CqSpec == CqInit /\ [][CqNext]_cqVars

-----------------------------------------------------------------------------
\* The state is well typed.
CqTypeOK ==
    /\ \A e \in Endpoints : qps[e] = <<>> \/ qps[e] \in [Ranks -> QpNums]
    /\ \A e \in Endpoints : qp_remaining_slots[e] \in [Ranks -> Int]
    /\ \A c \in Calls : posted[c] \subseteq [ep : Endpoints, rank : Ranks]

\* Whatever endpoints came and went, the map sends the number of every queue
\* pair to its own rank and its own counter.
MapRight == \A e \in Endpoints : \A r \in DOMAIN qps[e] :
    GetEntry(qps[e][r]) = [num |-> qps[e][r], ep |-> e, rank |-> r]

\* The free slots of a queue pair and the operations under way on it are
\* together the size of the send queue: no completion raises the counter of
\* another queue pair, and a failed operation gives its slot back.
SlotsKept == \A e \in Endpoints : \A r \in DOMAIN qps[e] :
    qp_remaining_slots[e][r] + Cardinality({c \in Calls : [ep |-> e, rank |-> r] \in posted[c]})
        = QpSends

\* The status of a completion has the context and the opcode of its operation, and where
\* poll_comp_impl sets a rank, the one that the queue pair connects to; that of a failed
\* receive names neither an operation nor a rank.
StatusesRight == \A t \in Pollers : \A w \in batch[t] : LET s == Status(w, GetEntry(w.num)) IN
    /\ \A c \in s.context : s.opcode \in {RequestOf(c).opcode, "ERROR"}
    /\ s.opcode = "RECV" \/ (s.opcode = "ERROR" /\ s.context # {}) => s.rank = w.from.rank
    /\ s.context = {} => \/ s.opcode \in {"RECV", "REMOTE_WRITE"}
                         \/ s.opcode = "ERROR" /\ s.rank = -1

\* A completion of the verbs backend is attributed to the rank and the send
\* queue it belongs to, whatever endpoints were allocated and freed before
\* (backend_ibv_inline.hpp, poll_comp_impl and the map it looks in).
CompletionsInv == CqTypeOK /\ MapRight /\ SlotsKept /\ StatusesRight
=============================================================================
