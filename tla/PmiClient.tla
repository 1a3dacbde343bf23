----------------------------- MODULE PmiClient ------------------------------
(***************************************************************************)
(* The PMI-1 and PMI-2 clients that LCT bundles (lct/pmi/pmi1/simple and   *)
(* lct/pmi/pmi2/client), under the wrappers pmi_wrapper_pmi1.cpp and       *)
(* pmi_wrapper_pmi2.cpp.  A call is one or more exchanges with the process *)
(* manager over the one connection of the process: a request is written,   *)
(* and the reply is read in as many pieces as read() happens to return.    *)
(* PMI-1 reads lines through a buffer that may hold the start of the next  *)
(* line; PMI-2 reads a length and then exactly that much, after a first    *)
(* line that it reads like PMI-1.  Threads may call PMI-2 at once.         *)
(*                                                                         *)
(* The process manager and the sockets are external.                       *)
(***************************************************************************)
EXTENDS Integers, SequencesExt, FiniteSetsExt

CONSTANTS
    Procs, Threads,
    ProcOf,      \* ProcOf[t]: the process of thread t
    Script,      \* Script[t]: the calls thread t makes, [fn, key]
    Version,     \* 1 or 2
    Env,         \* the variable that is set: "PMI_FD", "PMI_PORT" or "none"
    MaxFaults,   \* replies with rc # 0
    MayDie       \* the process manager may die

VARIABLES
    client,   \* client[p]: PMI_initialized, PMI_fd and firstcall
    mutex,    \* mutex[p]: the threads that hold pmi2_mutex
    thread,   \* thread[t]: call, exchanges that are left, what was read, results
    req,      \* req[p]: requests on their way to the process manager
    stream,   \* stream[p]: pieces of replies on their way to the process
    readbuf,  \* readbuf[p]: pieces that PMIU_readline has read ahead
    manager   \* the process manager

vars == <<client, mutex, thread, req, stream, readbuf, manager>>

-----------------------------------------------------------------------------
\* A function of the interface: its command, whether it fails when rc # 0, whether
\* it fails when the key was not found, whether it holds the mutex, and what it
\* does without a process manager: it is "ok" before PMI_Init too, or "ok if
\* singleton", it is to "fail", to "write" to the descriptor all the same, or to
\* "connect": a singleton starts a process manager the first time, and later
\* writes or is "or ok".
Api(cmd, checks, found, locks, alone) ==
    [cmd |-> cmd, checks |-> checks, found |-> found, locks |-> locks, alone |-> alone]

PMI_Get_universe_size == Api("get_universe_size", FALSE, FALSE, FALSE, "connect or ok")
PMI_Get_appnum == Api("get_appnum", FALSE, FALSE, FALSE, "ok")
PMI_Barrier == Api("barrier_in", FALSE, FALSE, FALSE, "ok")
PMI_Finalize == Api("finalize", FALSE, FALSE, FALSE, "ok")
PMI_KVS_Get_my_name == Api("get_my_kvsname", FALSE, FALSE, FALSE, "ok if singleton")
PMI_KVS_Put == Api("put", TRUE, FALSE, FALSE, "ok if singleton")
PMI_KVS_Get == Api("get", TRUE, FALSE, FALSE, "connect")
PMI_Publish_name == Api("publish_name", TRUE, FALSE, FALSE, "fail")
PMI_Unpublish_name == Api("unpublish_name", TRUE, FALSE, FALSE, "fail")
PMI_Lookup_name == Api("lookup_name", TRUE, FALSE, FALSE, "fail")
PMI_Spawn_multiple == Api("spawn", TRUE, FALSE, FALSE, "connect")

PMI2_Finalize == Api("finalize", TRUE, FALSE, FALSE, "ok")
PMI2_Job_Spawn == Api("spawn", FALSE, TRUE, FALSE, "write")
PMI2_Job_GetId == Api("job-getid", TRUE, TRUE, FALSE, "write")
PMI2_Job_Connect == Api("job-connect", TRUE, TRUE, FALSE, "write")
PMI2_Job_Disconnect == Api("job-disconnect", TRUE, FALSE, FALSE, "write")
PMIX_Ring == Api("ring", TRUE, TRUE, FALSE, "ok if singleton")
PMI2_KVS_Put == Api("put", TRUE, FALSE, TRUE, "write")
PMI2_KVS_Fence == Api("barrier_in", TRUE, FALSE, TRUE, "write")
\* Wrong: a get that leaves the connection to the other threads.
PMI2_KVS_Get_unlocked == Api("get", TRUE, TRUE, FALSE, "write")
PMI2_KVS_Get == Api("get", TRUE, TRUE, TRUE, "write")
PMI2_Info_GetNodeAttr == Api("info-getnodeattr", TRUE, FALSE, TRUE, "write")
PMI2_Info_GetNodeAttrIntArray == Api("info-getnodeattr", TRUE, FALSE, TRUE, "write")
PMI2_Info_PutNodeAttr == Api("info-putnodeattr", TRUE, FALSE, TRUE, "write")
PMI2_Info_GetJobAttr == Api("info-getjobattr", TRUE, FALSE, TRUE, "write")
PMI2_Info_GetJobAttrIntArray == Api("info-getjobattr", TRUE, FALSE, TRUE, "write")
PMI2_Nameserv_publish == Api("name-publish", TRUE, FALSE, TRUE, "write")
PMI2_Nameserv_lookup == Api("name-lookup", TRUE, TRUE, TRUE, "write")
PMI2_Nameserv_unpublish == Api("name-unpublish", TRUE, FALSE, TRUE, "write")

Functions ==
    IF Version = 1
    THEN [universe |-> PMI_Get_universe_size, appnum |-> PMI_Get_appnum,
          publishName |-> PMI_Publish_name, unpublish |-> PMI_Unpublish_name,
          lookup |-> PMI_Lookup_name, spawn |-> PMI_Spawn_multiple]
    ELSE [spawn |-> PMI2_Job_Spawn, getId |-> PMI2_Job_GetId,
          connect |-> PMI2_Job_Connect, disconnect |-> PMI2_Job_Disconnect,
          ring |-> PMIX_Ring, nodeAttr |-> PMI2_Info_GetNodeAttr,
          nodeArray |-> PMI2_Info_GetNodeAttrIntArray,
          putNode |-> PMI2_Info_PutNodeAttr, jobAttr |-> PMI2_Info_GetJobAttr,
          jobArray |-> PMI2_Info_GetJobAttrIntArray,
          publishName |-> PMI2_Nameserv_publish, lookup |-> PMI2_Nameserv_lookup,
          unpublish |-> PMI2_Nameserv_unpublish]

\* An exchange of a call: what it sends, how many lines answer it, and what the
\* call does when it fails: "stop" and return the error, "go" on as if nothing had
\* happened, or "abort" the job and then go on.
Exchange(f, lines, onFail) == [f |-> f, lines |-> lines, onFail |-> onFail]

Step(cmd, onFail) == Exchange(Api(cmd, TRUE, FALSE, FALSE, "write"), 1, onFail)

PMI_Abort == Step("abort", "go")
PMII_getmaxes == <<Step("init", "abort"), Step("get_maxes", "go")>>
PMII_Set_from_port ==
    <<Exchange(Api("initack", FALSE, FALSE, FALSE, "write"), 4, "go")>>
PMI_Init == IF Env = "PMI_PORT" THEN PMII_Set_from_port \o PMII_getmaxes
                                ELSE PMII_getmaxes
PMI2_Init == <<Step("init", "stop"), Step("fullinit", "stop")>>
\* The promotion of a singleton: the handshake, then what it had put.
PMIi_InitIfSingleton ==
    <<Step("singinit", "stop")>> \o PMII_getmaxes \o <<Exchange(PMI_KVS_Put, 1, "go")>>

\* The operations of the wrappers, as exchanges.
Program(fn) ==
    LET call(f) == <<Exchange(f, 1, "stop")>>
        named(f) == <<Exchange(PMI_KVS_Get_my_name, 1, "go")>> \o call(f) IN
    CASE fn = "initialize" -> IF Version = 1 THEN PMI_Init ELSE PMI2_Init
      [] fn = "publish" -> IF Version = 1 THEN named(PMI_KVS_Put) ELSE call(PMI2_KVS_Put)
      [] fn = "getname" -> IF Version = 1 THEN named(PMI_KVS_Get) ELSE call(PMI2_KVS_Get)
      [] fn = "barrier" -> call(IF Version = 1 THEN PMI_Barrier ELSE PMI2_KVS_Fence)
      [] fn = "finalize" -> call(IF Version = 1 THEN PMI_Finalize ELSE PMI2_Finalize)
      [] OTHER -> call(Functions[fn])

-----------------------------------------------------------------------------
Idle == [pc |-> 1, at |-> "idle", prog |-> <<>>, left |-> 0, line |-> <<>>, got |-> <<>>]

Init ==
    /\ client = [p \in Procs |-> [state |-> "uninit", open |-> FALSE, first |-> TRUE]]
    /\ mutex = [p \in Procs |-> {}]
    /\ thread = [t \in Threads |-> Idle]
    /\ req = [p \in Procs |-> <<>>]
    /\ stream = [p \in Procs |-> <<>>]
    /\ readbuf = [p \in Procs |-> <<>>]
    /\ manager = [alive |-> TRUE, kvs |-> {}, pending |-> {}, faults |-> 0]

CallOf(t) == Script[t][thread[t].pc]
Body(t) == LET prog == Program(CallOf(t).fn) IN prog[Len(prog)].f
Others(t) == {u \in Threads \ {t} : ProcOf[u] = ProcOf[t]}
Done(t) == thread[t].pc > Len(Script[t])

\* PMI-1 ("only one thread at a time") and some functions of PMI-2 are not for
\* several threads at once.
Exclusive(fn) ==
    \/ Version = 1
    \/ fn \in {"initialize", "finalize", "spawn", "getId", "connect", "disconnect", "ring"}

\* The caller initialises before its threads use the library and joins them
\* before it finalises.
MayCall(t) ==
    /\ thread[t].at = "idle" /\ ~Done(t)
    /\ CallOf(t).fn # "initialize" =>
           \E u \in Others(t) \cup {t} :
               thread[u].got # <<>> /\ thread[u].got[1].fn = "initialize"
    /\ CallOf(t).fn = "finalize" => \A u \in Others(t) : Done(u)
    /\ \A u \in Others(t) :
           thread[u].at # "idle" => ~Exclusive(CallOf(t).fn) /\ ~Exclusive(CallOf(u).fn)

\* The thread returns to its caller with result r and value v.
Returned(t, r, v) == [thread EXCEPT ![t] =
    [Idle EXCEPT !.pc = @ + thread[t].pc,
                 !.got = Append(thread[t].got,
                           [fn |-> CallOf(t).fn, key |-> CallOf(t).key, res |-> r, value |-> v])]]

Return(t, r, v) ==
    /\ thread' = Returned(t, r, v)
    /\ mutex' = [mutex EXCEPT ![ProcOf[t]] = @ \ {t}]
    /\ client' = [client EXCEPT ![ProcOf[t]] =
           CASE CallOf(t).fn = "initialize" /\ r = "ok" -> [@ EXCEPT !.state = "pm"]
             [] /\ CallOf(t).fn = "finalize" /\ client[ProcOf[t]].state = "pm"
                /\ Version = 1 \/ r = "ok" -> [@ EXCEPT !.open = FALSE]
             [] OTHER -> @]

\* The next exchange of the call, or its return.
GoOn(t, prog, r, v) ==
    IF prog = <<>> THEN Return(t, r, v)
    ELSE /\ thread' = [thread EXCEPT ![t].at = "write", ![t].prog = prog, ![t].line = <<>>]
         /\ UNCHANGED <<client, mutex>>

\* The result of a function that looks at PMI_initialized (s) and does without the
\* process manager; none when it talks to it.
Quiet(f, s) ==
    CASE s # "pm" /\ f.alone \in {"ok", "connect or ok"} -> {"ok"}
      [] s # "pm" /\ f.alone = "fail" -> {"fail"}
      [] s = "alone" /\ f.alone = "ok if singleton" -> {"ok"}
      [] OTHER -> {}

\* "We only try to init as a singleton the first time."
Connects(t) ==
    /\ Body(t).alone \in {"connect", "connect or ok"}
    /\ client[ProcOf[t]].state = "alone" /\ client[ProcOf[t]].first

\* PMI_Publish_name, PMI_Unpublish_name and PMI_Lookup_name return PMI_SUCCESS when
\* GetResponse fails.
Swallows(f) == f.cmd \in {"publish_name", "unpublish_name", "lookup_name"}

\* An exchange failed: its request could not be written, it got no proper reply
\* (both lost), or one that says so.  PMII_getmaxes aborts the job and goes on,
\* unless it could not write: then it returns and leaves out get_maxes.
Fail(t, lost, written) ==
    LET x == Head(thread[t].prog)
        rest == Tail(thread[t].prog)
    IN
    CASE x.onFail = "stop" -> Return(t, IF lost /\ Swallows(x.f) THEN "ok" ELSE "fail", {})
      [] x.onFail = "go" -> GoOn(t, rest, "ok", {})
      [] x.onFail = "abort" -> GoOn(t, IF written THEN <<PMI_Abort>> \o rest ELSE Tail(rest), "ok", {})

\* initialize: getPMIFD, and the singleton when no variable is set.
CallInitialize(t) ==
    /\ CallOf(t).fn = "initialize"
    /\ LET p == ProcOf[t]
           enter(state, open) ==
               client' = [client EXCEPT ![p].state = state, ![p].open = open] IN
       \/ /\ Env = "none"
          /\ enter("alone", FALSE)
          /\ thread' = Returned(t, "ok", {})
          /\ UNCHANGED mutex
       \/ /\ Env = "PMI_PORT" /\ ~manager.alive     \* PMII_Connect_to_pm fails
          /\ Return(t, "fail", {})
       \/ /\ Env # "none" /\ (Env = "PMI_PORT" => manager.alive)
          /\ enter("uninit", TRUE)
          /\ thread' = [thread EXCEPT ![t].at = "write", ![t].prog = Program("initialize")]
          /\ UNCHANGED mutex

\* PMIi_InitIfSingleton: the first call that needs a process manager starts one.
\* PMII_singinit fails before its handshake, with the descriptor open or not, or
\* gets to it; the process counts as connected only when it is answered.
CallAlone(t) ==
    LET p == ProcOf[t] IN
    /\ CallOf(t).fn # "initialize" /\ Connects(t)
    /\ \E open \in BOOLEAN :
           /\ client' = [client EXCEPT ![p].first = FALSE, ![p].open = open]
           /\ \/ thread' = Returned(t, "fail", {})
              \/ open /\ thread' = [thread EXCEPT ![t].at = "write",
                     ![t].prog = PMIi_InitIfSingleton \o <<Last(Program(CallOf(t).fn))>>]
    /\ UNCHANGED mutex

\* Any other call: the functions of it that do not answer by themselves talk to
\* the process manager; pmi2_mutex is held from here to the return.
CallManager(t) ==
    LET p == ProcOf[t]
        state == client[p].state
        prog == SelectSeq(Program(CallOf(t).fn), LAMBDA x : Quiet(x.f, state) = {})
    IN
    /\ CallOf(t).fn # "initialize" /\ ~Connects(t)
    /\ Body(t).locks => mutex[p] = {}
    /\ IF prog = <<>>
       THEN \E r \in Quiet(Body(t), state) : Return(t, r, {})
       ELSE /\ mutex' = [mutex EXCEPT ![p] = IF Body(t).locks THEN @ \cup {t} ELSE @]
            /\ thread' = [thread EXCEPT ![t].at = "write", ![t].prog = prog]
            /\ UNCHANGED client

Call(t) ==
    /\ MayCall(t)
    /\ CallInitialize(t) \/ CallAlone(t) \/ CallManager(t)
    /\ UNCHANGED <<req, stream, readbuf, manager>>

\* PMIU_writeline, PMIi_WriteSimpleCommand: writing to a connection whose other end
\* is gone fails or is noticed by the read that follows.
Write(t) ==
    LET p == ProcOf[t]
        f == Head(thread[t].prog).f
    IN
    /\ thread[t].at = "write"
    /\ \/ /\ client[p].open
          /\ req' = [req EXCEPT ![p] = IF manager.alive
                 THEN Append(@, [cmd |-> f.cmd, key |-> CallOf(t).key, of |-> t]) ELSE @]
          /\ thread' = [thread EXCEPT ![t].at = "read", ![t].line = <<>>,
                                      ![t].left = Head(thread[t].prog).lines]
          /\ UNCHANGED <<client, mutex>>
       \/ /\ ~client[p].open \/ ~manager.alive
          /\ Fail(t, TRUE, FALSE)
          /\ UNCHANGED req
    /\ UNCHANGED <<stream, readbuf, manager>>

\* Does the exchange read lines through the buffer?
Buffered(t) == Version = 1 \/ Head(thread[t].prog).f.cmd = "init"

\* The handshake of a singleton is over: from here on it has a process manager.
Promote(t) ==
    /\ client' = [client EXCEPT ![ProcOf[t]].state = "pm"]
    /\ thread' = [thread EXCEPT ![t].at = "write", ![t].prog = Tail(@), ![t].line = <<>>]
    /\ UNCHANGED mutex

\* A whole reply: its command, rc and found are looked at.
Check(t, m) ==
    LET x == Head(thread[t].prog) IN
    CASE m.cmd # x.f.cmd -> Fail(t, TRUE, TRUE)
      [] m.cmd = x.f.cmd /\ ((x.f.checks /\ ~m.rc0) \/ (x.f.found /\ ~m.found)) -> Fail(t, FALSE, TRUE)
      [] m.cmd = "singinit" /\ x.f.cmd = "singinit" /\ m.rc0 -> Promote(t)
      [] OTHER -> GoOn(t, Tail(thread[t].prog), "ok", m.value)

\* One read() of n pieces, of which the line takes those up to its end.
Read(t, n) ==
    LET p == ProcOf[t]
        fresh == readbuf[p] = <<>> \/ ~Buffered(t)
        got == IF fresh THEN SubSeq(stream[p], 1, n) ELSE readbuf[p]
        ends == {i \in DOMAIN got : got[i].last}
        k == IF ends = {} THEN Len(got) ELSE Min(ends)
        line == thread[t].line \o SubSeq(got, 1, k)
    IN
    /\ thread[t].at = "read"
    /\ IF fresh THEN n \in 1..Len(stream[p]) ELSE n = 1
    /\ ~Buffered(t) => k = Len(got)            \* the length bounds what is asked for
    /\ readbuf' = [readbuf EXCEPT ![p] = IF Buffered(t) THEN SubSeq(got, k + 1, Len(got)) ELSE @]
    /\ stream' = [stream EXCEPT ![p] = IF fresh THEN SubSeq(@, n + 1, Len(@)) ELSE @]
    /\ IF ends = {} \/ thread[t].left > 1
       THEN /\ thread' = [thread EXCEPT ![t].line = IF ends = {} THEN line ELSE <<>>,
                                        ![t].left = IF ends = {} THEN @ ELSE @ - 1]
            /\ UNCHANGED <<client, mutex>>
       ELSE Check(t, line[Len(line)].msg)
    /\ UNCHANGED <<req, manager>>

\* The end of the connection.  PMIi_ReadCommand fails; PMIU_readline returns what
\* it has, and a line that lacks only its end, or part of the value, is accepted.
ReadEof(t) ==
    LET p == ProcOf[t] IN
    /\ thread[t].at = "read"
    /\ stream[p] = <<>> /\ (Buffered(t) => readbuf[p] = <<>>)
    /\ ~manager.alive
    /\ \/ Fail(t, TRUE, TRUE)
       \/ /\ Buffered(t) /\ thread[t].line # <<>>
          /\ \E v \in {{"cut"}, thread[t].line[1].msg.value} :
                 Check(t, [thread[t].line[1].msg EXCEPT !.value = v])
    /\ UNCHANGED <<req, stream, readbuf, manager>>

-----------------------------------------------------------------------------
\* The process manager (external).  A reply goes out in two pieces for each line.
Pieces(m, lines) == FlattenSeq([i \in 1..lines |->
                        <<[msg |-> m, last |-> FALSE], [msg |-> m, last |-> TRUE]>>])

Reply(r, rc0, found, value) ==
    [cmd |-> r.cmd, rc0 |-> rc0, found |-> found, value |-> value, of |-> r.of]

Answer(p, m) == [stream EXCEPT ![p] = @ \o Pieces(m, IF m.cmd = "initack" THEN 4 ELSE 1)]

\* What was put is visible to a get at the latest after the barrier that follows.
Serve(p) ==
    LET r == Head(req[p]) IN
    /\ manager.alive /\ req[p] # <<>>
    /\ req' = [req EXCEPT ![p] = Tail(@)]
    /\ \/ /\ r.cmd \notin {"get", "barrier_in", "abort"}
          /\ \E found \in IF r.cmd \in {f.cmd : f \in {g \in Range(Functions) : g.found}}
                          THEN BOOLEAN ELSE {TRUE} :
                 stream' = Answer(p, Reply(r, TRUE, found, {}))
          /\ manager' = [manager EXCEPT !.pending = IF r.cmd = "put" THEN @ \cup {r.key} ELSE @]
       \/ /\ r.cmd = "get"
          /\ \E found \in {f \in BOOLEAN : /\ r.key \in manager.kvs => f
                                           /\ f => r.key \in manager.kvs \cup manager.pending} :
                 stream' = Answer(p, Reply(r, Version = 1 => found, found, IF found THEN {r.key} ELSE {}))
          /\ UNCHANGED manager
       \/ /\ r.cmd \notin {"barrier_in", "abort"} /\ manager.faults < MaxFaults
          /\ stream' = Answer(p, Reply(r, FALSE, FALSE, {}))
          /\ manager' = [manager EXCEPT !.faults = @ + 1]
    /\ UNCHANGED <<client, mutex, thread, readbuf>>

\* The barrier ends when every process has asked for it.
ServeBarrier ==
    /\ manager.alive
    /\ \A p \in Procs : req[p] # <<>> /\ Head(req[p]).cmd = "barrier_in"
    /\ manager' = [manager EXCEPT !.kvs = @ \cup manager.pending]
    /\ req' = [p \in Procs |-> Tail(req[p])]
    /\ stream' = [p \in Procs |-> stream[p] \o Pieces(Reply(Head(req[p]), TRUE, TRUE, {}), 1)]
    /\ UNCHANGED <<client, mutex, thread, readbuf>>

\* The process manager is gone; the last piece of a reply may be lost.
Gone ==
    /\ manager.alive
    /\ manager' = [manager EXCEPT !.alive = FALSE]
    /\ req' = [p \in Procs |-> <<>>]
    /\ \E lost \in SUBSET {p \in Procs : stream[p] # <<>>} :
           stream' = [p \in Procs |-> IF p \in lost THEN Front(stream[p]) ELSE stream[p]]
    /\ UNCHANGED <<client, mutex, thread, readbuf>>

Die == MayDie /\ Gone
ServeAbort == (\E p \in Procs : req[p] # <<>> /\ Head(req[p]).cmd = "abort") /\ Gone

-----------------------------------------------------------------------------
ThreadStep(t) == Call(t) \/ Write(t) \/ (\E n \in 1..8 : Read(t, n)) \/ ReadEof(t)
Manager == ServeBarrier \/ ServeAbort \/ (\E p \in Procs : Serve(p))
Finished == (\A t \in Threads : Done(t)) /\ UNCHANGED vars
Next == (\E t \in Threads : ThreadStep(t)) \/ Manager \/ Die \/ Finished

Spec == Init /\ [][Next]_vars

-----------------------------------------------------------------------------
\* A thread reads only the reply to its own request, however the threads of a
\* process interleave on their one connection: PMI2_KVS_Get cannot return the
\* value of the key another thread asked for.
OwnReply == \A t \in Threads : \A i \in DOMAIN thread[t].line : thread[t].line[i].msg.of = t

\* Between calls nothing of a reply is left behind, in the connection or in the
\* buffer of PMIU_readline, that the next call would take for its own reply.
NothingLeft ==
    \A p \in Procs :
        (\A t \in Threads : ProcOf[t] = p => thread[t].at = "idle")
            => req[p] = <<>> /\ stream[p] = <<>> /\ readbuf[p] = <<>>

\* PMIi_ReadCommand, which does not look into the buffer of PMI2U_readline, never
\* runs while that buffer holds anything.
BufferEmpty ==
    \A t \in Threads : thread[t].at = "read" /\ ~Buffered(t) => readbuf[ProcOf[t]] = <<>>

\* Every return of a PMI-2 function has released pmi2_mutex.
MutexReleased == \A p \in Procs : \A t \in mutex[p] : thread[t].at # "idle"

\* A call that succeeds after the barrier has the value that was put under its key
\* before it, whole; only the end of the process manager may cut a PMI-1 value.
ValuesRight ==
    \A t \in Threads : \A i \in DOMAIN thread[t].got :
        LET g == thread[t].got[i] IN
        g.fn = "getname" /\ g.res = "ok" =>
            g.value \in {{g.key}} \cup IF Version = 1 /\ ~manager.alive THEN {{"cut"}} ELSE {}

\* Without faults every call of the wrappers succeeds, a getname after the
\* barrier included.
NobodyFails ==
    manager.alive /\ manager.faults = 0 /\ Env # "none" =>
        \A t \in Threads : \A i \in DOMAIN thread[t].got :
            \/ thread[t].got[i].fn \in {"initialize", "publish", "barrier", "finalize"}
            \/ /\ thread[t].got[i].fn = "getname"
               /\ \E j \in 1..(i - 1) : thread[t].got[j].fn = "barrier"
            => thread[t].got[i].res = "ok"

ClientInv == OwnReply /\ NothingLeft /\ BufferEmpty /\ MutexReleased /\ ValuesRight /\ NobodyFails

\* Every call returns, also when the process manager dies in the middle of it.
CallsEnd == \A t \in Threads : Done(t)
=============================================================================
