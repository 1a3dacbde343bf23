----------------------------- MODULE ShmSetup ------------------------------
(***************************************************************************)
(* How the processes of a job set up the shared memory transport           *)
(* (shm/transport.cpp, shm/posix_ring.cpp, called from alloc_device_x in   *)
(* network/network.cpp): rank 0 draws a job nonce and a device uid, every  *)
(* rank creates the POSIX object of its own ring, hands its name round,    *)
(* attaches the rings of the ranks on its host, agrees with all ranks on   *)
(* the outcome and unlinks the name.  The bootstrap is an allgather over   *)
(* published keys and a barrier.  Any system call may fail.                *)
(***************************************************************************)
EXTENDS ShmGeometry, Sequences, SequencesExt

CONSTANTS
  NRanks,
  HostMaps,    \* rank -> what gethostname answers; NoHost: the call fails
  NoHost,
  ConfigMaps,  \* rank -> the attributes it is configured with: the sizes, and
               \* for which of its devices shm is enabled
  StaleNames,  \* names a job that died may have left linked on a host
  Nonces,      \* what the random generator may return, for the job nonce
  Uids,        \* and for a device uid
  MaxDevices,  \* bound: calls of alloc_device per rank
  MaxFaults    \* bound: failing system calls

ShmSetupAssumption ==
  /\ NRanks \in Nat \ {0}
  /\ MaxDevices \in Nat
  /\ MaxFaults \in Nat
  /\ 0 \notin Nonces
  /\ 0 \notin Uids

Ranks == 0 .. NRanks - 1

VARIABLES
  host, config,  \* of each rank, fixed
  pc,            \* rank -> where it is in alloc_context or alloc_device
  kv,            \* rank -> the values it published, by PMI round
  fence,         \* rank -> PMI barriers it has entered
  ctx,           \* rank -> its shm context, or NoCtx
  dev,           \* rank -> its shm device, or NoDev
  names,         \* linked POSIX names: [host, name, obj]
  used,          \* objects whose ring is not in its initial state
  faults,        \* system calls that failed, in order
  verdicts       \* rank -> outcome of each of its calls of alloc_device

vars == <<host, config, pc, kv, fence, ctx, dev, names, used, faults, verdicts>>

NoCtx == [nonce |-> 0, locals |-> <<>>]
NoDev == [uid |-> 0, owner |-> 0, linked |-> FALSE, ok |-> FALSE,
          routes |-> [r \in {} |-> 0], next |-> 0, enabled |-> FALSE]
NoHandle == [owner |-> -1, uid |-> 0]   \* a default-constructed handle
\* An object is the one that rank "by" created in its k-th device; by = -1 is
\* left over from a job that died before it unlinked its names.
Object(by, k, name) == [by |-> by, k |-> k, name |-> name]

\* make_posix_ring_name: a digest of the job nonce, the uid and the rank
ObjectName(nonce, uid, r) == <<nonce, uid, r>>

Init ==
  /\ host \in HostMaps
  /\ config \in ConfigMaps
  /\ pc = [r \in Ranks |-> "idle"]
  /\ kv = [r \in Ranks |-> <<>>]
  /\ fence = [r \in Ranks |-> 0]
  /\ ctx = [r \in Ranks |-> NoCtx]
  /\ dev = [r \in Ranks |-> NoDev]
  /\ names \in {{}} \cup
       {{[host |-> host[r], name |-> n, obj |-> Object(-1, 0, n)]} :
          r \in Ranks, n \in StaleNames}
  /\ used \in SUBSET {n.obj : n \in names}
  /\ faults = <<>>
  /\ verdicts = [r \in Ranks |-> <<>>]

-----------------------------------------------------------------------------
(* The bootstrap: a value published under "LCI_SHM_<round>_<rank>", a      *)
(* barrier, and reads of the values all ranks published in that round.     *)

Goto(r, label) == pc' = [pc EXCEPT ![r] = label]

EnterBarrier(r) == fence' = [fence EXCEPT ![r] = @ + 1]

Publish(r, value) ==
  /\ kv' = [kv EXCEPT ![r] = Append(@, value)]
  /\ EnterBarrier(r)

PastBarrier(r) == \A s \in Ranks : fence[s] >= fence[r]

\* kv[s][n]: what rank s published in round n, n being this rank's round
Gathered(r) == [s \in Ranks |-> kv[s][Len(kv[r])]]

SetDev(r, d) == dev' = [dev EXCEPT ![r] = d]

\* May r allocate another device, and is shm enabled for it?
WantsDevice(r) == Len(verdicts[r]) < MaxDevices
EnabledNext(r) == Len(verdicts[r]) + 1 \in config[r].enable

Conclude(r, ok) == verdicts' = [verdicts EXCEPT ![r] = Append(@, ok)]

\* A system call may fail as long as the budget lasts.
MayFail == Len(faults) < MaxFaults
Fail(call) == faults' = Append(faults, call)

Locals(r) == SelectSeq([i \in 1 .. NRanks |-> i - 1],
                       LAMBDA s : host[s] = host[r])
HasLocalPeers(r) == Len(ctx[r].locals) > 1
Peers(r) == SelectSeq(ctx[r].locals, LAMBDA s : s # r)

Linked(h, name) == {n \in names : n.host = h /\ n.name = name}

-----------------------------------------------------------------------------
(* alloc_context, called by the first alloc_device_x with shm enabled. *)

AllocContext(r) ==
  /\ pc[r] = "idle"
  /\ WantsDevice(r) /\ EnabledNext(r)
  /\ ctx[r] = NoCtx
  /\ \E nonce \in (IF r = 0 THEN Nonces ELSE {0}) : Publish(r, nonce)
  /\ Goto(r, "nonce")
  /\ UNCHANGED <<host, config, ctx, dev, names, used, faults, verdicts>>

NonceAgreed(r) ==
  /\ pc[r] = "nonce"
  /\ PastBarrier(r)
  /\ ctx' = [ctx EXCEPT ![r].nonce = Gathered(r)[0]]
  /\ Publish(r, host[r])
  /\ Goto(r, "hosts")
  /\ UNCHANGED <<host, config, dev, names, used, faults, verdicts>>

\* Every rank sees the same records, so all of them throw or none does.
HostsKnown(r) ==
  /\ pc[r] = "hosts"
  /\ PastBarrier(r)
  /\ IF NoHost \in Range(Gathered(r))
     THEN /\ ctx' = [ctx EXCEPT ![r] = NoCtx]
          /\ Conclude(r, FALSE)
          /\ Goto(r, "idle")
     ELSE /\ ctx' = [ctx EXCEPT ![r].locals = Locals(r)]
          /\ Goto(r, "device")
          /\ UNCHANGED verdicts
  /\ UNCHANGED <<host, config, kv, fence, dev, names, used, faults>>

-----------------------------------------------------------------------------
(* alloc_device. *)

\* Without shm the device has no route, and no other rank is asked.
SkipDevice(r) ==
  /\ pc[r] = "idle"
  /\ WantsDevice(r) /\ ~EnabledNext(r)
  /\ SetDev(r, NoDev)
  /\ Conclude(r, TRUE)
  /\ Goto(r, "run")
  /\ UNCHANGED <<host, config, kv, fence, ctx, names, used, faults>>

StartDevice(r) ==
  /\ \/ pc[r] = "device"
     \/ pc[r] = "idle" /\ ctx[r] # NoCtx /\ WantsDevice(r) /\ EnabledNext(r)
  /\ SetDev(r, [NoDev EXCEPT !.ok = HasLocalPeers(r) => GeometryOk(config[r])])
  /\ \E uid \in (IF r = 0 THEN Uids ELSE {0}) : Publish(r, uid)
  /\ Goto(r, "uid")
  /\ UNCHANGED <<host, config, ctx, names, used, faults, verdicts>>

\* posix_owner_mapping_t::create either makes a new object and maps it, or
\* leaves no name behind: a name that exists already is not taken over.
NewObject(r, uid) ==
  Object(r, Len(verdicts[r]) + 1, ObjectName(ctx[r].nonce, uid, r))

CanCreate(r, name) ==
  /\ ValidSizes(Geometry(config[r]))
  /\ FitsOffset(Geometry(config[r]))
  /\ Linked(host[r], name) = {}

Handle(r, uid) == [owner |-> r, uid |-> uid, geometry |-> Geometry(config[r]),
                   name |-> ObjectName(ctx[r].nonce, uid, r)]

CreateOwner(r) ==
  LET uid == Gathered(r)[0]
      obj == NewObject(r, uid)
      wanted == HasLocalPeers(r) /\ dev[r].ok
      mapped == [dev[r] EXCEPT !.uid = uid, !.owner = obj, !.linked = TRUE,
                               !.routes = [s \in {r} |-> obj], !.next = 1]
      unmapped == [dev[r] EXCEPT !.uid = uid, !.ok = ~wanted /\ @, !.next = 1]
  IN  /\ pc[r] = "uid"
      /\ PastBarrier(r)
      /\ \/ /\ wanted
            /\ CanCreate(r, obj.name)
            /\ names' = names \cup {[host |-> host[r], name |-> obj.name, obj |-> obj]}
            /\ SetDev(r, mapped)
            /\ Publish(r, Handle(r, uid))
            /\ UNCHANGED faults
         \/ /\ wanted => ~CanCreate(r, obj.name)
            /\ SetDev(r, unmapped)
            /\ Publish(r, NoHandle)
            /\ UNCHANGED <<names, faults>>
         \/ /\ wanted /\ CanCreate(r, obj.name) /\ MayFail
            /\ Fail("create")
            /\ SetDev(r, unmapped)
            /\ Publish(r, NoHandle)
            /\ UNCHANGED names
      /\ Goto(r, "attach")
      /\ UNCHANGED <<host, config, ctx, used, verdicts>>

\* What a rank expects of a peer's ring: the peer's identity and its own sizes.
Expected(r, p) == [owner |-> p, uid |-> dev[r].uid, geometry |-> Geometry(config[r]),
                   name |-> ObjectName(ctx[r].nonce, dev[r].uid, p)]

\* posix_peer_mapping_t::attach: the handle is the expected one, its name
\* opens, and the ring is freshly initialised.
Attachable(r, p) ==
  {n.obj : n \in {m \in Linked(host[r], Expected(r, p).name) :
                    /\ Gathered(r)[p] = Expected(r, p)
                    /\ m.obj \notin used}}

AttachPeer(r) ==
  LET d == dev[r]
      p == Peers(r)[d.next]
      refused == SetDev(r, [d EXCEPT !.ok = FALSE])
  IN  /\ pc[r] = "attach"
      /\ PastBarrier(r)
      /\ d.ok /\ HasLocalPeers(r) /\ d.next <= Len(Peers(r))
      /\ \/ /\ \E obj \in Attachable(r, p) :
                SetDev(r, [d EXCEPT !.next = @ + 1,
                                    !.routes = [s \in DOMAIN @ \cup {p} |->
                                                  IF s = p THEN obj ELSE @[s]]])
            /\ UNCHANGED faults
         \/ Attachable(r, p) = {} /\ refused /\ UNCHANGED faults
         \/ Attachable(r, p) # {} /\ MayFail /\ Fail("attach") /\ refused
      /\ UNCHANGED <<host, config, pc, kv, fence, ctx, names, used, verdicts>>

\* Unlinking the name before the other ranks report that they have attached.
UnlinkThenPublishStatus(r) ==
  /\ pc[r] = "attach"
  /\ PastBarrier(r)
  /\ dev[r].ok /\ HasLocalPeers(r) => dev[r].next > Len(Peers(r))
  /\ Publish(r, dev[r].ok)
  /\ names' = {n \in names : n.obj.by # r}
  /\ Goto(r, "status")
  /\ UNCHANGED <<host, config, ctx, dev, used, faults, verdicts>>

\* A rank that failed still takes part: it publishes that it did.
PublishStatus(r) ==
  /\ pc[r] = "attach"
  /\ PastBarrier(r)
  /\ dev[r].ok /\ HasLocalPeers(r) => dev[r].next > Len(Peers(r))
  /\ Publish(r, dev[r].ok)
  /\ Goto(r, "status")
  /\ UNCHANGED <<host, config, ctx, dev, names, used, faults, verdicts>>

\* owner.reset() in the destructors: the name goes if it is still linked, and
\* nothing more is done if shm_unlink fails then.
Destroy(r) ==
  /\ SetDev(r, NoDev)
  /\ \/ /\ names' = {n \in names : ~(dev[r].linked /\ n.obj = dev[r].owner)}
        /\ UNCHANGED faults
     \/ dev[r].linked /\ MayFail /\ Fail("unlink") /\ UNCHANGED names

AllOk(r) == FALSE \notin Range(Gathered(r))

\* Throwing only on the ranks that failed themselves.
GiveUpQuietly(r) ==
  /\ pc[r] = "status"
  /\ PastBarrier(r)
  /\ ~AllOk(r)
  /\ Destroy(r)
  /\ Conclude(r, dev[r].ok)
  /\ Goto(r, "idle")
  /\ UNCHANGED <<host, config, kv, fence, ctx, used>>

GiveUp(r) ==
  /\ pc[r] = "status"
  /\ PastBarrier(r)
  /\ ~AllOk(r)
  /\ Destroy(r)
  /\ Conclude(r, FALSE)
  /\ Goto(r, "idle")
  /\ UNCHANGED <<host, config, kv, fence, ctx, used>>

GoOn(r) ==
  /\ pc[r] = "status"
  /\ PastBarrier(r)
  /\ AllOk(r)
  /\ EnterBarrier(r)
  /\ Goto(r, "unlink")
  /\ UNCHANGED <<host, config, kv, ctx, dev, names, used, faults, verdicts>>

\* unlink_name: a failure is logged and the destructor tries again.
UnlinkName(r) ==
  /\ pc[r] = "unlink"
  /\ PastBarrier(r)
  /\ \/ /\ dev' = [dev EXCEPT ![r].linked = FALSE]
        /\ names' = {n \in names : ~(dev[r].linked /\ n.obj = dev[r].owner)}
        /\ UNCHANGED faults
     \/ dev[r].linked /\ MayFail /\ Fail("unlink_name") /\ UNCHANGED <<dev, names>>
  /\ EnterBarrier(r)
  /\ Goto(r, "enable")
  /\ UNCHANGED <<host, config, kv, ctx, used, verdicts>>

EnableDevice(r) ==
  /\ pc[r] = "enable"
  /\ PastBarrier(r)
  /\ dev' = [dev EXCEPT ![r].enabled = HasLocalPeers(r)]
  /\ Conclude(r, TRUE)
  /\ Goto(r, "run")
  /\ UNCHANGED <<host, config, kv, fence, ctx, names, used, faults>>

-----------------------------------------------------------------------------
(* The device in use, and its end. *)

CanSend(r, p) == dev[r].enabled /\ p \in DOMAIN dev[r].routes

\* What a message does to the ring is in ShmRing.
PostSend(r, p) ==
  /\ pc[r] = "run"
  /\ CanSend(r, p)
  /\ used' = used \cup {dev[r].routes[p]}
  /\ UNCHANGED <<host, config, pc, kv, fence, ctx, dev, names, faults, verdicts>>

FreeDevice(r) ==
  /\ pc[r] = "run"
  /\ Destroy(r)
  /\ Goto(r, "idle")
  /\ UNCHANGED <<host, config, kv, fence, ctx, used, verdicts>>

\* The runtime is freed once the program wants no more devices.
FreeContext(r) ==
  /\ pc[r] = "idle"
  /\ Len(verdicts[r]) = MaxDevices
  /\ ctx' = [ctx EXCEPT ![r] = NoCtx]
  /\ Goto(r, "done")
  /\ UNCHANGED <<host, config, kv, fence, dev, names, used, faults, verdicts>>

Step(r) ==
  \/ AllocContext(r) \/ NonceAgreed(r) \/ HostsKnown(r)
  \/ SkipDevice(r) \/ StartDevice(r) \/ CreateOwner(r) \/ AttachPeer(r) \/ PublishStatus(r)
  \/ GiveUp(r) \/ GoOn(r) \/ UnlinkName(r) \/ EnableDevice(r)
  \/ FreeDevice(r) \/ FreeContext(r)

Next == \E r \in Ranks : Step(r) \/ \E p \in Ranks : PostSend(r, p)

\* Every rank makes the same collective calls, and its calls run on.
Fairness == \A r \in Ranks : WF_vars(Step(r))

Spec == Init /\ [][Next]_vars /\ Fairness

-----------------------------------------------------------------------------
(* Properties. *)

Labels == {"idle", "nonce", "hosts", "device", "uid", "attach", "status",
           "unlink", "enable", "run", "done"}

TypeOK ==
  /\ pc \in [Ranks -> Labels]
  /\ fence \in [Ranks -> Nat]
  /\ verdicts \in [Ranks -> Seq(BOOLEAN)]
  /\ \A r \in Ranks : /\ ctx[r].nonce \in Nonces \cup {0}
                       /\ dev[r].uid \in Uids \cup {0}
                       /\ DOMAIN dev[r].routes \subseteq Ranks

\* A device exists on all ranks or on none: whatever fails on whichever rank,
\* the ranks that have left their k-th alloc_device left it with the same
\* outcome (the status exchange of alloc_device).
SameVerdict ==
  \A r, s \in Ranks : \A k \in 1 .. Len(verdicts[r]) :
    k <= Len(verdicts[s]) => verdicts[r][k] = verdicts[s][k]

\* A device in use with shm has a route to exactly the ranks of its host, itself
\* included, and one without shm has none; each leads to the object that rank created for this very
\* device, neither to one of an earlier device of the same uid nor to one
\* left over by a job that died.
RoutesRight ==
  \A r \in Ranks : pc[r] = "run" =>
    /\ DOMAIN dev[r].routes =
         IF Len(verdicts[r]) \in config[r].enable /\ HasLocalPeers(r)
         THEN Range(ctx[r].locals) ELSE {}
    /\ \A p \in DOMAIN dev[r].routes :
         /\ dev[r].routes[p].by = p
         /\ dev[r].routes[p].k = Len(verdicts[r])
         /\ config[p].slot = config[r].slot

\* Nobody writes into a ring while some rank may still be about to attach it:
\* attach refuses a ring that is not in its initial state, so a message sent
\* too early would make the set-up fail.
NoTrafficBeforeAttached ==
  \A r \in Ranks : pc[r] \in {"uid", "attach"} =>
    \A obj \in used : obj.by >= 0 => obj.k <= Len(verdicts[r])

\* While a name can still be opened by a rank that has not attached it, it is
\* linked: the owner unlinks only after every rank has attached.
LinkedUntilAttached ==
  \A r, p \in Ranks :
    /\ pc[r] = "attach" /\ PastBarrier(r) /\ dev[r].ok /\ HasLocalPeers(r)
    /\ p \in {Peers(r)[i] : i \in dev[r].next .. Len(Peers(r))}
    /\ Gathered(r)[p] # NoHandle
    => \E n \in names : n.obj.by = p /\ n.obj.k = Len(verdicts[r]) + 1

\* No name of a ring outlives the set-up: a device in use has none, unless
\* unlinking failed, and once the device is gone, or its set-up has failed,
\* only a second failing unlink can have left one.
NoNameLeft ==
  \A n \in names : n.obj.by >= 0 =>
    \/ pc[n.obj.by] \in {"attach", "status", "unlink"}
    \/ dev[n.obj.by].linked /\ "unlink_name" \in Range(faults)
    \/ "unlink" \in Range(faults)

SetupInv == TypeOK /\ NoTrafficBeforeAttached /\ LinkedUntilAttached

=============================================================================
