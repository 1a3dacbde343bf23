----------------------------- MODULE OfiDevice -----------------------------
(***************************************************************************)
(* The libfabric backend (src/network/ofi): the threads of one device post *)
(* operations to its endpoint, post receives, poll its completion queue    *)
(* and register memory.  One spinlock per device guards those of the four  *)
(* kinds of calls that ofi_lock_mode names.  The device talks to itself:   *)
(* what it sends is received by its own endpoint.                          *)
(*                                                                         *)
(* The provider behind the fi_ calls is external.  It takes an operation   *)
(* or answers -FI_EAGAIN, delivers it, and puts at most one entry for it   *)
(* and one for its target into the completion queue, good or bad.          *)
(***************************************************************************)
EXTENDS Integers, SequencesExt

CONSTANTS
    Threads, None,
    Calls,       \* the operations: [fn, imm, and for a put or a get base, mr_base, disp]
    LockMode,    \* ofi_lock_mode, a subset of {"send", "recv", "poll", "mr"}
    UseCxi,      \* use_cxi_writedata
    VirtAddr,    \* FI_MR_VIRT_ADDR is in mr_mode
    ProvKey,     \* FI_MR_PROV_KEY is in mr_mode
    MyRank, ImmBits,
    MaxPolls,    \* LCI_BACKEND_MAX_POLLS
    MaxTx,       \* tx_attr->size, of which net_max_sends is the same or less
    MaxRecvs,    \* receives that are posted
    MaxErrors,   \* entries the provider reports as failed
    MaxMrs,      \* registrations at a time
    MaxKeys      \* keys that are taken from g_next_rdma_key

Functions7 == {"sends", "send", "puts", "put", "putImms", "putImm", "get"}

OfiAssumption ==
    /\ Calls # {} /\ IsFiniteSet(Threads) /\ None \notin Threads
    /\ \A c \in Calls : c.fn \in Functions7 /\ c.imm \in 0 .. 2^ImmBits - 1
    /\ LockMode \subseteq {"send", "recv", "poll", "mr"}
    /\ MyRank \in Nat /\ {MaxPolls, MaxTx} \subseteq Nat \ {0}

VARIABLES
    lock,      \* the spinlock of the device
    thread,    \* thread[t]: what thread t is doing
    state,     \* state[c]: none, accepted (its internal context is live) or freed
    tx,        \* operations the provider has taken and not finished with
    due,       \* those that are not delivered to their target yet
    rx,        \* receives posted to the endpoint
    cq,        \* the completion queue
    statuses,  \* what poll_comp has returned, with the operation it is about
    landed,    \* landed[c]: the address that a put or a get reached
    errors,    \* entries that failed so far
    nextKey,   \* g_next_rdma_key
    mrs        \* the keys of the registrations, one entry each

vars == <<lock, thread, state, tx, due, rx, cq, statuses, landed, errors,
          nextKey, mrs>>
provider == <<tx, due, rx, cq, landed, errors>>

Idle == [pc |-> "idle"]

Init ==
    /\ lock = None /\ thread = [t \in Threads |-> Idle]
    /\ state = [c \in Calls |-> "none"]
    /\ landed = [c \in Calls |-> None]
    /\ tx = {} /\ due = {} /\ rx = 0 /\ cq = <<>> /\ statuses = {}
    /\ errors = 0 /\ nextKey = 0 /\ mrs = <<>>

-----------------------------------------------------------------------------
\* What the seven post functions hand to libfabric and return when it takes it:
\* the opcode of the completion, whether there is one, whether the target sees
\* data in its completion queue, and whether the completion waits for delivery.
Request(op, completion, data, delivery, result) ==
    [op |-> op, completion |-> completion, data |-> data, delivery |-> delivery,
     result |-> result]

post_sends_impl == Request("SEND", TRUE, TRUE, FALSE, "done")
post_send_impl == Request("SEND", TRUE, TRUE, FALSE, "posted")
post_puts_impl == Request("WRITE", TRUE, FALSE, TRUE, "done")
post_put_impl == Request("WRITE", TRUE, FALSE, TRUE, "posted")
cxi_inject_writedata_workaround == Request("WRITE", FALSE, TRUE, FALSE, "done")
post_putImms_impl ==
    IF UseCxi THEN cxi_inject_writedata_workaround
    ELSE Request("WRITE", TRUE, TRUE, TRUE, "done")
cxi_writedata_workaround == Request("WRITE", TRUE, TRUE, FALSE, "posted")
post_putImm_impl ==
    IF UseCxi THEN cxi_writedata_workaround
    ELSE Request("WRITE", TRUE, TRUE, TRUE, "posted")
post_get_impl == Request("READ", TRUE, FALSE, TRUE, "posted")

RequestOf(c) ==
    [sends |-> post_sends_impl, send |-> post_send_impl, puts |-> post_puts_impl,
     put |-> post_put_impl, putImms |-> post_putImms_impl,
     putImm |-> post_putImm_impl, get |-> post_get_impl][c.fn]

\* The immediate data that travels: a send carries the rank above it.
RemoteData(c) == IF RequestOf(c).op = "SEND" THEN MyRank * 2^ImmBits + c.imm ELSE c.imm

\* get_remote_addr: the address, or the offset in the provider's registration.
RemoteAddr(c) == IF VirtAddr THEN c.base + c.disp ELSE (c.base - c.mr_base) + c.disp

-----------------------------------------------------------------------------
\* LCI_OFI_CS_TRY_ENTER and ofi_lock_guard_t: a call whose flag is in the lock mode
\* needs the lock.  A try that fails returns retry_lock with nothing changed.
MayEnter(flag) == flag \in LockMode => lock = None

Goto(t, step) == thread' = [thread EXCEPT ![t] = step]

\* One of the seven functions.  The provider takes the operation, or it answers
\* -FI_EAGAIN, which is returned as retry_nomem with nothing changed.
Post(t, c) ==
    /\ thread[t] = Idle /\ state[c] = "none"
    /\ MayEnter("send") /\ Cardinality(tx) < MaxTx
    /\ tx' = tx \cup {c} /\ due' = due \cup {c}
    /\ state' = [state EXCEPT ![c] = "accepted"]
    /\ Goto(t, IF RequestOf(c).completion THEN Idle ELSE [pc |-> "retire", call |-> c])
    /\ UNCHANGED <<lock, rx, cq, statuses, landed, errors, nextKey, mrs>>

\* No completion will come for fi_inject_writedata: the post retires the context.
Retire(t) ==
    /\ thread[t].pc = "retire" /\ Goto(t, Idle)
    /\ state' = [state EXCEPT ![thread[t].call] =
          IF @ = "accepted" THEN "freed" ELSE "freed twice"]
    /\ UNCHANGED <<lock, statuses, nextKey, mrs, provider>>

\* post_recvs_impl: as many receives as the provider takes.
PostRecvs(t, n) ==
    /\ thread[t] = Idle /\ n \in 1 .. MaxRecvs - rx
    /\ MayEnter("recv")
    /\ rx' = rx + n
    /\ UNCHANGED <<lock, thread, state, tx, due, cq, landed, errors, statuses,
                   nextKey, mrs>>

-----------------------------------------------------------------------------
\* fi_cq_read takes entries up to the first that failed (external).
Readable ==
    LET failed == {i \in DOMAIN cq : cq[i].failed}
    IN Min({MaxPolls} \cup IF failed = {} THEN {Len(cq)} ELSE {Min(failed) - 1})

\* A completion as poll_comp_impl reports it, with the context of a call if it has
\* one (a receive has a packet); of is the operation it stems from.
Status(e) ==
    [opcode |-> e.op, context |-> e.context,
     imm |-> IF e.op = "RECV" THEN e.data % 2^ImmBits ELSE e.data,
     rank |-> IF e.op = "RECV" THEN e.data \div 2^ImmBits ELSE 0, of |-> e.of]

\* An error names the context of an outgoing operation, and no rank.
ErrorStatus(e) ==
    [opcode |-> "ERROR",
     context |-> IF e.op \in {"SEND", "WRITE", "READ"} THEN e.context ELSE {},
     imm |-> 0, rank |-> -1, of |-> e.of]

\* poll_comp returns these statuses, and its caller frees the contexts they name.
Return(new) ==
    /\ statuses' = statuses \cup new
    /\ state' = [c \in Calls |->
          IF \A s \in new : c \notin s.context THEN state[c]
          ELSE IF state[c] = "accepted" /\ Cardinality({s \in new : c \in s.context}) = 1
               THEN "freed" ELSE "freed twice"]

\* fi_cq_read has entries, which are translated one by one, or it has none.
PollRead(t) ==
    /\ thread[t] = Idle /\ MayEnter("poll") /\ (Readable > 0 \/ cq = <<>>)
    /\ cq' = SubSeq(cq, Readable + 1, Len(cq))
    /\ Return({Status(cq[i]) : i \in 1 .. Readable})
    /\ UNCHANGED <<lock, thread, tx, due, rx, landed, errors, nextKey, mrs>>

\* Wrong: reads the queue under the lock and the error after it.
PollFailedUnlocked(t) ==
    /\ thread[t] = Idle /\ MayEnter("poll") /\ cq # <<>> /\ Readable = 0
    /\ Goto(t, [pc |-> "readerr"])
    /\ UNCHANGED <<lock, state, statuses, nextKey, mrs, provider>>

\* fi_cq_read answers -FI_EAVAIL; the lock stays with the thread.
PollFailed(t) ==
    /\ thread[t] = Idle /\ MayEnter("poll") /\ cq # <<>> /\ Readable = 0
    /\ lock' = IF "poll" \in LockMode THEN t ELSE lock
    /\ Goto(t, [pc |-> "readerr"])
    /\ UNCHANGED <<state, statuses, nextKey, mrs, provider>>

\* fi_cq_readerr: the error, or -FI_EAGAIN when another poller had it.
PollReadErr(t) ==
    /\ thread[t].pc = "readerr" /\ Goto(t, Idle)
    /\ lock' = IF lock = t THEN None ELSE lock
    /\ IF cq # <<>> /\ Head(cq).failed
       THEN cq' = Tail(cq) /\ Return({ErrorStatus(Head(cq))})
       ELSE UNCHANGED <<cq, state, statuses>>
    /\ UNCHANGED <<tx, due, rx, landed, errors, nextKey, mrs>>

-----------------------------------------------------------------------------
\* register_memory_impl takes a key of its own when the provider has none to give,
RegisterKey(t) ==
    /\ thread[t] = Idle /\ Len(mrs) < MaxMrs /\ nextKey < MaxKeys
    /\ Goto(t, [pc |-> "mr", key |-> IF ProvKey THEN 0 ELSE nextKey])
    /\ nextKey' = IF ProvKey THEN nextKey ELSE nextKey + 1
    /\ UNCHANGED <<lock, state, statuses, mrs, provider>>

\* and waits for the lock; a provider that chooses the keys chooses a new one.
RegisterMemory(t) ==
    /\ thread[t].pc = "mr" /\ MayEnter("mr") /\ Goto(t, Idle)
    /\ mrs' = Append(mrs, IF ProvKey THEN Min(0 .. MaxMrs \ Range(mrs)) ELSE thread[t].key)
    /\ UNCHANGED <<lock, state, statuses, nextKey, provider>>

\* deregister_memory_impl
DeregisterMemory(t, i) ==
    /\ thread[t] = Idle /\ MayEnter("mr")
    /\ mrs' = RemoveAt(mrs, i)
    /\ UNCHANGED <<lock, thread, state, statuses, nextKey, provider>>

-----------------------------------------------------------------------------
\* The provider (external).
Entry(c, op, data, context, failed) ==
    [op |-> op, data |-> data, context |-> context, failed |-> failed, of |-> c]

MayFail(failed) == failed => errors < MaxErrors

\* An operation reaches its target, which gets an entry if it carries data.
Deliver(c, failed) ==
    /\ c \in due /\ due' = due \ {c}
    /\ MayFail(failed) /\ errors' = errors + IF failed THEN 1 ELSE 0
    /\ failed => RequestOf(c).data
    /\ IF RequestOf(c).op = "SEND"
       THEN /\ rx > 0 /\ rx' = rx - 1
            /\ cq' = Append(cq, Entry(c, "RECV", RemoteData(c), {}, failed))
            /\ UNCHANGED landed
       ELSE /\ landed' = [landed EXCEPT ![c] =
                  RemoteAddr(c) + IF VirtAddr THEN 0 ELSE c.mr_base]
            /\ cq' = IF RequestOf(c).data
                     THEN Append(cq, Entry(c, "REMOTE_WRITE", RemoteData(c), {}, failed))
                     ELSE cq
            /\ UNCHANGED rx
    /\ tx' = IF RequestOf(c).completion THEN tx ELSE tx \ {c}
    /\ UNCHANGED <<lock, thread, state, statuses, nextKey, mrs>>

\* An operation completes at its origin; one that failed may never have arrived.
Complete(c, failed) ==
    /\ c \in tx /\ RequestOf(c).completion
    /\ MayFail(failed) /\ errors' = errors + IF failed THEN 1 ELSE 0
    /\ RequestOf(c).delivery /\ ~failed => c \notin due
    /\ tx' = tx \ {c} /\ due' = IF failed THEN due \ {c} ELSE due
    /\ cq' = Append(cq, Entry(c, RequestOf(c).op, 0, {c}, failed))
    /\ UNCHANGED <<lock, thread, state, rx, statuses, landed, nextKey, mrs>>

Poll(t) == PollRead(t) \/ PollFailed(t) \/ PollReadErr(t)

Provider == \E c \in Calls, failed \in BOOLEAN : Deliver(c, failed) \/ Complete(c, failed)

Next ==
    \/ \E t \in Threads :
        \/ \E c \in Calls : Post(t, c)
        \/ Retire(t)
        \/ \E n \in 1 .. MaxRecvs : PostRecvs(t, n)
        \/ Poll(t)
        \/ RegisterKey(t) \/ RegisterMemory(t)
        \/ \E i \in DOMAIN mrs : DeregisterMemory(t, i)
    \/ Provider

Spec == Init /\ [][Next]_vars

-----------------------------------------------------------------------------
States == {"none", "accepted", "freed", "freed twice"}

TypeOK ==
    /\ lock \in Threads \cup {None}
    /\ \A t \in Threads : thread[t].pc \in {"idle", "retire", "readerr", "mr"}
    /\ state \in [Calls -> States]
    /\ tx \subseteq Calls /\ due \subseteq Calls /\ rx \in 0 .. MaxRecvs

\* The context of an operation is freed once, by the completion that names it
\* or by the post that expects none, and never before the provider is done with
\* the operation as far as its completion goes.
ContextsOnce == \A c \in Calls :
    LET queued == {i \in DOMAIN cq : c \in cq[i].context}
        retiring == {t \in Threads : thread[t].pc = "retire" /\ thread[t].call = c}
    IN CASE state[c] = "none" -> c \notin tx /\ queued = {}
         [] state[c] = "accepted" ->
              Cardinality(queued) + Cardinality(retiring)
                + (IF c \in tx /\ RequestOf(c).completion THEN 1 ELSE 0) = 1
         [] state[c] = "freed" ->
              /\ queued = {} /\ retiring = {}
              /\ c \in tx => ~RequestOf(c).completion
         [] OTHER -> FALSE

\* An operation whose post returned posted is reported to the caller of poll_comp;
\* only one that returned done may end without a status of its own.
PostedReported == \A c \in Calls : state[c] = "freed" /\ RequestOf(c).result = "posted" =>
    \E s \in statuses : c \in s.context

\* With the polling lock configured, the error that fi_cq_read announced is still
\* there for the same thread's fi_cq_readerr: "Keep the configured polling lock
\* across both reads so another poller cannot consume the error entry".
ErrorKept == "poll" \in LockMode =>
    \A t \in Threads : thread[t].pc = "readerr" => cq # <<>> /\ Head(cq).failed

\* What poll_comp reports of a message is what was sent: the rank and the
\* immediate data come apart again, and a put or a get reaches the address it names
\* in either addressing mode.
StatusesRight ==
    /\ \A s \in statuses :
          /\ s.opcode = "RECV" => s.rank = MyRank /\ s.imm = s.of.imm
          /\ s.opcode = "REMOTE_WRITE" => s.imm = s.of.imm
          /\ s.opcode \in {"SEND", "WRITE", "READ"} => s.opcode = RequestOf(s.of).op
          /\ s.context \subseteq {s.of}
    /\ \A c \in Calls : landed[c] # None => landed[c] = c.base + c.disp

\* Two registrations never have one key.
KeysDiffer == \A i, j \in DOMAIN mrs : mrs[i] = mrs[j] => i = j

\* No thread holds the lock but one that is between the two reads.
LockHeld == lock # None => thread[lock].pc = "readerr"

OfiInv ==
    /\ TypeOK /\ ContextsOnce /\ PostedReported /\ ErrorKept
    /\ StatusesRight /\ KeysDiffer /\ LockHeld

\* Everything that was accepted is retired, and the lock is free again.
Retired == lock = None /\ cq = <<>> /\ \A c \in Calls : state[c] # "accepted"
=============================================================================
