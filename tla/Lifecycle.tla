------------------------------ MODULE Lifecycle ------------------------------
(***************************************************************************)
(* How the processes of a job create and free the runtime, its devices and *)
(* its endpoints, and find each other while they do (runtime.cpp,          *)
(* global.cpp, bootstrap.cpp, network.cpp, packet_pool.cpp, and the        *)
(* constructors of backend_ibv.cpp and backend_ofi.cpp).                   *)
(*                                                                         *)
(* Every rank makes the same Calls.  A call is the list of its steps; a    *)
(* step ends where a rank waits for others.  Addresses are exchanged by    *)
(* bootstrap::alltoall, in numbered rounds, through PMI until device 0     *)
(* exists and then over that device.  A new endpoint ends with a barrier   *)
(* on itself; here, as in alltoall, everybody sends to everybody and waits *)
(* for everybody (the module Collective has the barrier's real pattern).   *)
(* Without a packet pool there is no such barrier.  The shared memory of   *)
(* a device has a module of its own, ShmSetup.                             *)
(***************************************************************************)
EXTENDS Integers, Sequences, FiniteSets, SequencesExt

CONSTANTS
    Ranks,
    Backend,            \* "ibv" or "ofi"
    BootstrapLci,       \* LCI_ENABLE_BOOTSTRAP_LCI
    ProgressEndpoint,   \* alloc_progress_endpoint
    WithPool,           \* alloc_default_packet_pool, the pool the devices are bound to
    Calls,              \* the sequence of calls every rank makes
    MaxObjects          \* bound: devices, and endpoints, created by a rank

VARIABLES
    rank,    \* what each process holds, and the steps it has to do
    kvs,     \* what PMI keeps: set of <<key, value>>
    fences,  \* PMI barriers each rank has entered
    net,     \* messages on the way
    inbox    \* messages received, for each rank

vars == <<rank, kvs, fences, net, inbox>>

Uids == 0 .. MaxObjects - 1
None == -1

NoDevice == [live |-> FALSE, bound |-> FALSE, mr |-> FALSE, peers |-> <<>>]
NoEndpoint == [live |-> FALSE, dev |-> None, peers |-> <<>>]
NoData == [source_rank |-> None, target_rank |-> None, uid |-> None, addr |-> <<>>]

-----------------------------------------------------------------------------
(* The calls, as lists of steps. *)

Exchange == <<"alltoall", "collect">>

If(condition, steps) == IF condition THEN steps ELSE <<>>

\* alloc_endpoint_x::call_impl.  The constructor of an ibv endpoint exchanges the
\* numbers of its queue pairs; an ofi endpoint is a view of its device.
AllocEndpoint ==
    <<"new_endpoint">>
    \o If(Backend = "ibv", Exchange \o <<"connect">>)
    \o If(WithPool, <<"barrier", "barrier_wait", "drain">>)

Endpoints == AllocEndpoint \o If(ProgressEndpoint, AllocEndpoint)

\* alloc_device_x::call_impl.  The constructor of an ofi device exchanges addresses.
AllocDevice ==
    <<"new_device">>
    \o If(Backend = "ofi", Exchange \o <<"connect">>)
    \o If(WithPool, <<"bind">>) \o Endpoints \o <<"set_device">>

\* free_device_x::call_impl: set_device, the endpoints the device was created with,
\* the packet pool, the device.
FreeEndpoint == <<"drain", "free_endpoint">>

FreeDevice ==
    <<"unset_device">> \o FreeEndpoint \o If(ProgressEndpoint, FreeEndpoint)
    \o If(WithPool, <<"unbind">>) \o <<"delete_device">>

\* g_runtime_init and g_runtime_fina, with the calls that the binding puts around them.
InitRuntime ==
    <<"global_initialize", "net_context">> \o If(WithPool, <<"packet_pool">>) \o AllocDevice
FinaRuntime ==
    FreeDevice \o If(WithPool, <<"free_packet_pool">>) \o <<"free_net_context", "global_finalize">>

Steps(call) ==
    CASE call = "g_runtime_init" -> InitRuntime
      [] call = "g_runtime_fina" -> FinaRuntime
      [] call = "alloc_device" -> AllocDevice
      [] call = "free_device" -> FreeDevice
      [] call = "alloc_endpoint" -> AllocEndpoint
      [] call = "free_endpoint" -> FreeEndpoint
      [] call = "global_initialize" -> <<"global_initialize">>
      [] call = "global_finalize" -> <<"global_finalize">>

Init ==
    /\ rank = [r \in Ranks |->
          [todo |-> FlattenSeq([i \in DOMAIN Calls |-> Steps(Calls[i])]),
           count |-> 0, active |-> FALSE, context |-> FALSE, pool |-> FALSE,
           g_ndevices |-> 0, g_nendpoints |-> 0, g_next_round |-> 0,
           devices |-> [u \in Uids |-> NoDevice],
           endpoints |-> [u \in Uids |-> NoEndpoint],
           boot |-> None,          \* device_to_bootstrap
           via |-> "",             \* how the current round goes
           out |-> <<>>,           \* bootstrap_datav_out
           failed |-> FALSE]]      \* an assertion did not hold, or freed state was used
    /\ kvs = {} /\ fences = [r \in Ranks |-> 0]
    /\ net = {} /\ inbox = [r \in Ranks |-> {}]

-----------------------------------------------------------------------------
(* Which device and endpoint a step is about: the last that lives. *)

LastOf(f) == LET live == {u \in Uids : f[u].live}
             IN  IF live = {} THEN None ELSE CHOOSE u \in live : \A v \in live : v <= u
Device(r) == LastOf(rank[r].devices)
Endpoint(r) == LastOf(rank[r].endpoints)
EndpointsOf(r, d) == {u \in Uids : rank[r].endpoints[u].live /\ rank[r].endpoints[u].dev = d}

At(r, step) == ~rank[r].failed /\ rank[r].todo # <<>> /\ Head(rank[r].todo) = step

Go(r, new) == rank' = [rank EXCEPT ![r] = [new EXCEPT !.todo = Tail(@)]]

Local(r, new) == Go(r, new) /\ UNCHANGED <<kvs, fences, net, inbox>>

\* Where q can be reached: its queue pair for r, or its ofi endpoint.
Address(q, r, uid) == IF Backend = "ibv" THEN <<q, r, uid>> ELSE <<q, uid>>

\* The addresses that r's endpoint e sends to.
PeersOf(r, e) ==
    IF Backend = "ibv" THEN rank[r].endpoints[e].peers
    ELSE rank[r].devices[rank[r].endpoints[e].dev].peers

\* A message from r to every rank on endpoint e.
SendAll(r, e, tag, data) ==
    net' = net \cup {[from |-> r, to |-> q, addr |-> PeersOf(r, e)[q], over |-> e,
                      tag |-> tag, data |-> data[q]] : q \in Ranks}

-----------------------------------------------------------------------------
(* global.cpp *)

\* Everything but the count is done by the first to initialise ...
global_initialize(r) ==
    /\ At(r, "global_initialize")
    /\ Local(r, [rank[r] EXCEPT !.count = @ + 1, !.active = TRUE])

\* ... and by the last to finalise, which also forgets the bootstrap device.
global_finalize(r) ==
    /\ At(r, "global_finalize")
    /\ LET last == rank[r].count = 1
       IN  Local(r, [rank[r] EXCEPT !.count = @ - 1, !.active = ~last,
                                    !.boot = IF last THEN None ELSE @])

-----------------------------------------------------------------------------
(* The network context and the packet pool of a runtime. *)

alloc_net_context(r) ==
    /\ At(r, "net_context")
    /\ Local(r, [rank[r] EXCEPT !.context = TRUE, !.failed = ~rank[r].active])

\* The context's protection domain must have no device left.
free_net_context(r) ==
    /\ At(r, "free_net_context")
    /\ Local(r, [rank[r] EXCEPT !.context = FALSE, !.failed = Device(r) # None])

alloc_packet_pool(r) ==
    At(r, "packet_pool") /\ Local(r, [rank[r] EXCEPT !.pool = TRUE])

\* ~packet_pool_impl_t deregisters what is left in mrs, through its device.
free_packet_pool(r) ==
    /\ At(r, "free_packet_pool")
    /\ Local(r, [rank[r] EXCEPT
          !.pool = FALSE,
          !.devices = [u \in Uids |-> [@[u] EXCEPT !.mr = FALSE]],
          !.failed = \E u \in Uids : rank[r].devices[u].mr /\ ~rank[r].devices[u].live])

-----------------------------------------------------------------------------
(* Devices. *)

new_device(r) ==
    /\ At(r, "new_device") /\ rank[r].g_ndevices \in Uids
    /\ LET uid == rank[r].g_ndevices
       IN  Local(r, [rank[r] EXCEPT !.g_ndevices = @ + 1,
                        !.devices[uid] = [NoDevice EXCEPT !.live = TRUE],
                        !.failed = ~rank[r].context])

\* bind_packet_pool: the packets are registered and receives are posted.
bind_packet_pool(r) ==
    /\ At(r, "bind")
    /\ Local(r, [rank[r] EXCEPT !.devices[Device(r)].mr = TRUE,
                                !.devices[Device(r)].bound = TRUE,
                                !.failed = ~rank[r].pool])

unbind_packet_pool(r) ==
    /\ At(r, "unbind")
    /\ Local(r, [rank[r] EXCEPT !.devices[Device(r)].mr = FALSE,
                                !.devices[Device(r)].bound = FALSE])

\* The end of alloc_device and the beginning of free_device: only device 0 is ever
\* used to bootstrap.
set_device(r) ==
    /\ At(r, "set_device")
    /\ Local(r, [rank[r] EXCEPT !.boot = IF Device(r) = 0 THEN 0 ELSE @])

unset_device(r) ==
    /\ At(r, "unset_device")
    /\ Local(r, [rank[r] EXCEPT !.boot = IF Device(r) = 0 THEN None ELSE @])

\* Its queues can only be destroyed without queue pairs and memory regions.
delete_device(r) ==
    /\ At(r, "delete_device")
    /\ LET d == Device(r)
       IN  Local(r, [rank[r] EXCEPT
              !.devices[d].live = FALSE,
              !.failed = EndpointsOf(r, d) # {} \/ rank[r].devices[d].mr])

-----------------------------------------------------------------------------
(* Endpoints. *)

new_endpoint(r) ==
    /\ At(r, "new_endpoint") /\ rank[r].g_nendpoints \in Uids
    /\ LET uid == rank[r].g_nendpoints
       IN  Local(r, [rank[r] EXCEPT !.g_nendpoints = @ + 1,
              !.endpoints[uid] = [NoEndpoint EXCEPT !.live = TRUE, !.dev = Device(r)]])

free_endpoint(r) ==
    /\ At(r, "free_endpoint")
    /\ Local(r, [rank[r] EXCEPT !.endpoints[Endpoint(r)].live = FALSE])

\* What was received is checked, and the peers become reachable: queue pairs go to
\* RTR and RTS, addresses into the address vector.
Owner(r) == IF Backend = "ibv" THEN Endpoint(r) ELSE Device(r)

connect(r) ==
    /\ At(r, "connect")
    /\ LET out == rank[r].out
           peers == [q \in Ranks |-> out[q].addr]
           right == \A q \in Ranks :
                        /\ out[q].source_rank = q /\ out[q].uid = Owner(r)
                        /\ Backend = "ibv" => out[q].target_rank = r
       IN  Local(r,
              IF Backend = "ibv"
              THEN [rank[r] EXCEPT !.endpoints[Endpoint(r)].peers = peers, !.failed = ~right]
              ELSE [rank[r] EXCEPT !.devices[Device(r)].peers = peers, !.failed = ~right])

\* The barrier on the new endpoint.
barrier(r) ==
    /\ At(r, "barrier")
    /\ SendAll(r, Endpoint(r), <<"barrier", Endpoint(r)>>, [q \in Ranks |-> NoData])
    /\ Go(r, rank[r]) /\ UNCHANGED <<kvs, fences, inbox>>

Received(r, tag) == {m \in inbox[r] : m.tag = tag}

barrier_wait(r) ==
    /\ At(r, "barrier_wait")
    /\ LET tag == <<"barrier", Endpoint(r)>>
       IN  /\ {m.from : m \in Received(r, tag)} = Ranks
           /\ inbox' = [inbox EXCEPT ![r] = @ \ Received(r, tag)]
    /\ Go(r, rank[r]) /\ UNCHANGED <<kvs, fences, net>>

\* wait_drained: the operations of the device's endpoints are all complete.
Drained(r, d) == \A m \in net : m.from = r => m.over \notin EndpointsOf(r, d)

wait_drained(r) ==
    /\ At(r, "drain") /\ Drained(r, Device(r))
    /\ Local(r, rank[r])

-----------------------------------------------------------------------------
(* bootstrap::alltoall *)

\* The first endpoint of device 0 is its default endpoint.
BootEndpoint(r) == LET eps == EndpointsOf(r, rank[r].boot)
                   IN  IF eps = {} THEN None ELSE CHOOSE e \in eps : \A f \in eps : e <= f

UsesPmi(r) == rank[r].boot = None \/ ~BootstrapLci

KeyWithoutRound(round, to, from) == <<to, from>>

\* "LCI_BOOTSTRAP_<round>_<to>_<from>"
Key(round, to, from) == <<round, to, from>>

\* bootstrap_data_t
DataFor(r, q) == [source_rank |-> r, target_rank |-> q, uid |-> Owner(r),
                  addr |-> Address(r, q, Owner(r))]

alltoall(r) ==
    /\ At(r, "alltoall")
    /\ LET round == rank[r].g_next_round
           next == [rank[r] EXCEPT !.g_next_round = @ + 1]
           keys == {Key(round, q, r) : q \in Ranks}
       IN  \/ /\ UsesPmi(r)
              /\ kvs' = {e \in kvs : e[1] \notin keys}
                        \cup {<<Key(round, q, r), DataFor(r, q)>> : q \in Ranks}
              /\ fences' = [fences EXCEPT ![r] = @ + 1]
              /\ Go(r, [next EXCEPT !.via = "pmi"])
              /\ UNCHANGED <<net, inbox>>
           \/ /\ ~UsesPmi(r)
              /\ LET e == BootEndpoint(r)
                 IN  /\ IF e = None THEN UNCHANGED net     \* the device is gone
                        ELSE SendAll(r, e, <<"alltoall", round>>, [q \in Ranks |-> DataFor(r, q)])
                     /\ Go(r, [next EXCEPT !.via = "lci", !.failed = e = None])
              /\ UNCHANGED <<kvs, fences, inbox>>

\* The PMI barrier is passed, and the keys are looked up.
collect_pmi(r) ==
    /\ At(r, "collect") /\ rank[r].via = "pmi"
    /\ \A q \in Ranks : fences[q] >= fences[r]
    /\ LET round == rank[r].g_next_round - 1
       IN  Local(r, [rank[r] EXCEPT !.via = "", !.out = [q \in Ranks |->
              (CHOOSE e \in kvs : e[1] = Key(round, r, q))[2]]])

\* The collective is complete, and the device has drained.
collect_lci(r) ==
    /\ At(r, "collect") /\ rank[r].via = "lci"
    /\ Drained(r, rank[r].boot)
    /\ LET all == Received(r, <<"alltoall", rank[r].g_next_round - 1>>)
       IN  /\ {m.from : m \in all} = Ranks
           /\ Go(r, [rank[r] EXCEPT !.via = "", !.out = [q \in Ranks |->
                        (CHOOSE m \in all : m.from = q).data]])
           /\ inbox' = [inbox EXCEPT ![r] = @ \ all]
    /\ UNCHANGED <<kvs, fences, net>>

-----------------------------------------------------------------------------
(* The network takes a message to an address that lives and has receives posted. *)

Reached(m) ==
    IF Backend = "ibv" THEN rank[m.to].endpoints[m.addr[3]]
    ELSE rank[m.to].devices[m.addr[2]]
DeviceReached(m) ==
    rank[m.to].devices[IF Backend = "ibv" THEN Reached(m).dev ELSE m.addr[2]]

Deliver(m) ==
    /\ m \in net /\ m.addr[1] = m.to
    /\ Reached(m).live /\ DeviceReached(m).bound
    /\ net' = net \ {m}
    /\ inbox' = [inbox EXCEPT ![m.to] = @ \cup {m}]
    /\ UNCHANGED <<rank, kvs, fences>>

-----------------------------------------------------------------------------
Step(r) ==
    \/ global_initialize(r) \/ global_finalize(r)
    \/ alloc_net_context(r) \/ free_net_context(r)
    \/ alloc_packet_pool(r) \/ free_packet_pool(r)
    \/ new_device(r) \/ bind_packet_pool(r) \/ unbind_packet_pool(r)
    \/ set_device(r) \/ unset_device(r) \/ delete_device(r)
    \/ new_endpoint(r) \/ free_endpoint(r) \/ connect(r)
    \/ barrier(r) \/ barrier_wait(r) \/ wait_drained(r)
    \/ alltoall(r) \/ collect_pmi(r) \/ collect_lci(r)

Finished == \A r \in Ranks : rank[r].todo = <<>>

Next ==
    \/ \E r \in Ranks : Step(r)
    \/ \E m \in net : Deliver(m)

Spec == Init /\ [][Next]_vars

-----------------------------------------------------------------------------
\* The assertions of the constructors hold, nothing is destroyed before what it
\* contains, and the bootstrap never uses a device that is gone.
AssertsHold == \A r \in Ranks : ~rank[r].failed

\* Ranks in the same round of the bootstrap go the same way about it.
RoundsAgree ==
    \A r, q \in Ranks :
        rank[r].via # "" /\ rank[q].via # "" /\ rank[r].g_next_round = rank[q].g_next_round
            => rank[r].via = rank[q].via

\* A message on the way has somewhere to arrive; over ibv, where a connection is made
\* after the receives were posted, there is also a receive for it.
MessagesExpected ==
    \A m \in net :
        /\ m.addr[1] = m.to /\ Reached(m).live
        /\ Backend = "ibv" => DeviceReached(m).bound

\* What is left when the last runtime is gone: nothing registered, nothing alive,
\* no message, and every rank made the same number of rounds.
NothingLeft ==
    Finished =>
        /\ net = {} /\ \A r \in Ranks : inbox[r] = {}
        /\ \A r \in Ranks : Device(r) = None /\ Endpoint(r) = None /\ rank[r].boot = None
                            /\ ~rank[r].active
                            /\ \A u \in Uids : ~rank[r].devices[u].mr

LifecycleInv == AssertsHold /\ RoundsAgree /\ MessagesExpected /\ NothingLeft
=============================================================================
