# A TLA+ verification project for LCI

LCI is a multithreaded communication library for HPC: threads of a process post sends, receives,
active messages and puts, other threads (or the same) call `progress()`, and completion objects tell
when an operation is over. Almost all of it is lock-free or uses try-locks, so the interesting states
are those between two atomic accesses of different threads. This directory holds TLA+ modules
translated from that code, TLC configurations that check them on small instances, and TLAPS proofs.
Paths below are relative to the repository; `src/src` is the library, `src/lct` its support library.

## 1. Inventory

| part | state | operations | what is hard about it |
|---|---|---|---|
| shared memory ring (`shm/ring.cpp`) | two control words, slot sequences, headers, payloads | `post_send` (reserve, publish), `poll`, `release` | several producers and consumers, weak CAS, lapping, the end of the position range |
| shared memory transport (`shm/transport.cpp`, `posix_ring.cpp`) | rings of the ranks on a node, mapped objects, published handles | set-up of context and device, `can_send`, `post_send`, tear-down | all ranks must agree whatever fails at one of them; sizes in machine words |
| endpoint and backlog queue (`network/endpoint_inline.hpp`, `backlog_queue`) | queue of postponed operations, counter per rank, flag, `pending_ops` | seven `post_*`, `progress`, `test_drained` | order between direct and postponed posts, unlocked reads, re-entry |
| communication (`core/communicate.cpp`, `progress.cpp`, `rendezvous.hpp`) | contexts, packets, matching, RTS/RTR/FIN | `post_send`, `post_am`, `post_recv`, `post_put`, `post_get`, handlers | raw pointers travel through the peer, puts complete in any order |
| the life of a post, and failures (`core/communicate.cpp`, `progress.cpp`) | what a call holds: context, packet, synchronizer | `post_comm`, `exit_handler`, `process_completion_batch`, `free_endpoint` | a retry undoes, an exception leaves through a blocking call |
| matching engines (`matching_engine/`) | hash table of queues, or two lists | `insert` | representation changes, buckets freed on the way |
| packet pool (`data_structure/mpmc_set.hpp`) | a deque per thread | `get_n`, `put` | stealing, growth |
| device receive queue (`network/device_inline.hpp`) | `nrecvs_posted` | `refill_recvs`, `post_recv_packets`, `consume_recvs` | batch reservations of several threads |
| verbs backend (`network/ibv`) | slots of a send queue, its lock; the map from queue pairs to ranks | `post_*`, `poll_comp`, endpoints that come and go | load and decrement in two steps, errors after a slot was taken |
| libfabric backend (`network/ofi`) | a lock by mode, queue with errors in it, keys | `post_*`, `poll_comp`, `register_memory` | an error is read in two calls; a workaround without completion |
| registration cache (`reg_cache`, vendored `rcache.c`) | regions with reference counts, put-off invalidations | register, deregister, unmap, fork | regions are merged and thrown out while in use |
| completion graph (`comp/graph.hpp`) | counters of nodes | `start`, `signal`, `test` | recursive walk by several threads, restart, self-deletion |
| synchronizer (`comp/sync.hpp`) | three counters, a ring of statuses | `signal`, `test`, `wait` | rounds overlap |
| array queues (`lct/data_structure/queue`) | counters, cells, tags | `push`, `pop` | a pop may claim an empty cell |
| tag archive, handler registry (`data_structure/imm_tag_archive.hpp`, `mpmc_array.hpp`) | slots; a growing array | insert, remove; reserve, register, get | readers without locks |
| thread barrier (`lct/tbarrier`) | `waiting`, `step` | `arrive`, `test`, `wait` | reset and release in two steps |
| collectives (`collective/`) | a graph per rank | barrier, broadcast, reduce, allreduce, reduce-scatter, allgather, alltoall | the programs of all ranks must fit; temporary buffers |
| process managers (`lct/pmi`) | sockets, or shared files | initialize, publish, fence, getname, finalize | crashes, duplicate ranks, files of an earlier job |
| PMI front end and vendored clients (`pmi_wrapper.cpp`, `pmi1`, `pmi2`) | a reference count; one connection, a read-ahead buffer, a mutex | initialize, finalize; every request | two owners; replies in pieces, a manager that dies |
| runtime, network objects, bootstrap (`runtime`, `network/network.cpp`, `bootstrap`) | uids, rounds, device 0 | init, alloc and free of each object, alltoall | all ranks must take the same way in each round |

They interact like this. The core posts through an *endpoint*, which hands an operation to a *device*
or to its *backlog queue*; the device's `progress` polls completions, refills the *receive queue* with
packets of the *pool*, and dispatches messages to the *matching engine*, the *handler registry* or the
*rendezvous* handlers, which signal *completion objects*. Messages to ranks of the same node take the
*ring*. *Collectives* are graphs of sends and receives. The *process manager* provides ranks and the
exchange of addresses at start-up; once device 0 exists the *bootstrap* uses the library itself. `PROJECT.json` lists every part, modelled or not, and the hazards
of the code at the line where they bite.

## 2. Modules

The state of a module is the shared state of the code, under the code's names, and a record `local[t]`
per thread with its program counter and local variables where the code has steps between two atomic
accesses. One action is one atomic access, one critical section, or one handler that nothing can
interleave with. `PROJECT.json` maps each definition to its lines. Where siblings share one body (the
seven `post_*` functions of an endpoint differ in their arguments only), one definition stands for all
of them and the map names the lines of one.

| module | models | notes |
|---|---|---|
| `ShmRing` | `ring.cpp`, driven by `shm::post_send` and `progress_shm` | one access per action; `ShmChannel` is what it promises |
| `ShmChannel` | abstract | a bounded FIFO: a caller is refused or reserves its place, fills it, and a consumer claims and releases it |
| `ShmRingProofs` | | proofs about `ShmRing`: its invariants, and that it implements `ShmChannel` |
| `Endpoint`, `EndpointQueueProofs`, `EndpointProofs` | the seven posts, `post_putImm*_fallback`, backlog queue, local completion, `test_drained` | the device is external: it takes an operation or asks for a retry; proved for any number of threads and ranks |
| `SendRecv` | `post_comm` for sends, receives and active messages, all progress handlers, rendezvous | two or more ranks; a transfer is a set of pieces, puts land in any order unless they carry the notification |
| `PostComm` | one rank's posts: `post_comm_x` in three steps, `exit_handler`, batches with failures, `free_endpoint` | send, put and get with all combinations of done, posted and retry; the other rank is what completes or fails a request |
| `Matching` | abstract | an engine that pairs the oldest send and receive with equal keys |
| `MatchingMap`, `MatchingQueue` | the two engines | shown to implement `Matching` |
| `PacketPool`, `TablesProofs` | `packet_pool` and `mpmc_set_t` | deques with head and tail in circular arrays, filled by the constructor one packet at a time; proved for any number of threads and packets |
| `RecvPosting`, `DeviceProofs` | `device_inline.hpp` receive side | hardware queue external; proved for any number of threads, packets and receives |
| `IbvSendQueue`, `DeviceProofs` | slots and lock of a queue pair | proved for any number of threads |
| `IbvCompletions`, `DeviceProofs` | `qp2rank_map_t`, the posts and `poll_comp_impl` of the verbs backend | the adapter completes or fails requests and posted receives in any order; proved for any number of endpoints, ranks and polling threads |
| `OfiDevice` | `backend_ofi_inline.hpp`, registration of `backend_ofi.cpp` | the provider is external and may fail any entry |
| `RegCache`, `RegCacheProofs` | `reg_cache.cpp` over UCX `rcache.c` | one action per critical section of `pgt_lock`; the program unmaps what nobody uses; proved for any buffers, alignment and number of threads |
| `Graph` | `graph.hpp` | the recursion of the walk is a stack per thread |
| `Sync`, `SyncProofs` | `sync.hpp` | proved for any threshold and any number of threads |
| `LctQueue`, `LctQueueProofs` | the three array queues | release and debug builds; proved for any capacity and any number of threads |
| `ThreadBarrier`, `SyncProofs` | `tbarrier.cpp` | proved for any number of threads |
| `ImmTagArchive`, `TablesProofs`, `RhandlerRegistry` | the two tables | the archive is proved for any number of tags and threads |
| `CollPrograms` | the graph each rank builds, as operators | a program is operations and edges |
| `Collective` | ranks that run those programs | sends are eager, or wait for their receive |
| `ShmGeometry`, `ShmSetup` | sizes and names as operators; `transport.cpp` and `posix_ring.cpp` | every system call may fail; a device may be allocated without shared memory, alone or after one with it |
| `PmiTcp`, `PmiFile` | the two built-in process managers | sockets with bounded buffers; files with `flock`, truncate and write apart |
| `PmiWrapper` | `pmi_wrapper.cpp`, the MPI and local backends | application and library as two owners |
| `PmiClient` | vendored PMI-1 and PMI-2 clients | a table says what each function sends, checks and locks, also of those the wrappers never call, which share the connection; the manager is external |
| `PmiWire` | PMI-2 parsing, the bootstrap's encoding, as operators | strings of three characters, because `WireRight` is about the conversion of keys and values to text and back |
| `Lifecycle` | runtime, net context, device, endpoint, bootstrap | the calls of a rank are a stack; a message is its round, endpoint and content |
| `MC*` | | model values, scenarios and the properties of the runs |

Definitions commented *Wrong*, *Mutant* or *Deliberately wrong* are plausible bugs of the definition
that follows them. None is used by a specification; each was substituted for that definition to see
that a property notices.

## 3. Runs

A component is independent of the others it is checked with, so one run holds several *scenarios*: the
first state chooses one (`setting`, `object`, `job`, `structure`, `queue`, `world`), the components that
are not part of it keep their initial state, and every property speaks of the chosen one. The states of
a run are the disjoint union of the states of its scenarios: choosing in the first state neither hides
nor adds behaviour of a component. An MC module EXTENDS the components whose invariants are proved, where
it can, so that the run checks the very definitions the theorems are about. The constants of
`MCEndpoint` are what its settings have together; a setting uses a part of them.

| run | scenarios | what it shows |
|---|---|---|
| `shm_ring` | two producers, two consumers | `RingInv`, the inductive invariant with types, window, generations and no false corruption; `ExclusiveOwnership`; `WholeMessage`; `ImplementsChannel`, the ring refines `ShmChannel` |
| `shm` | *sizes*: every ring and slot size of a small word; *twice*: three ranks on two hosts set up two devices, with shared memory enabled for both or one, maybe after a job that died; *three*: three ranks on one host; *ring*: one producer and two consumers, fair | `SetupInv` (types, no traffic before all attached, names linked as long as needed and no longer), `SameVerdict` (all ranks leave set-up with one outcome and the right routes, whatever failed), `GeometryRight`, `ShmProgress` |
| `endpoint` | *whole*: two posters, one of them draining, one progresser; *split*: one poster to two ranks, which also drains, and two progressers, puts split; *fair*: the same to one rank, without draining | `EndpointInv` (types, `nentries` exact, flag misses nothing), `PostOrder` (with `DrainedMeansPosted`), `BacklogDrains` |
| `completion` | a graph started twice with main and two threads; a graph that deletes itself; synchronizers of threshold three and one; a thread barrier of four threads; the array queues with four or five threads | `CompletionInv` (types, the code's assertions, no use after deletion), `TriggeredInOrder`, `RoundDelivered`, `IInv` of the barrier, `BarrierHolds`, `QueueReturns`, `EveryStartCompletes` |
| `sendrecv` | *write*, *writeimm*, *eager* jobs of two ranks; *posts*: two threads of one rank with every kind of argument; *failing*: one thread and two failures, fair; *shared*: a second thread progresses too | `NothingLost` (types, contexts, packets, no dangling pointer), `CompletesOnce`, `ReturnsRight` (what a call may return, and that failures are raised), `EverythingCompletes` |
| `tables` | map engine, queue engine, packet pool, handler registry, tag archive with one and two inserters | `TablesInv`, `Matches` (both engines refine `Matching`), `PacketsOnce`, `EntriesKept` |
| `device` | send queue with three threads; receive queue with two and three; verbs completions; libfabric in four configurations; registration cache | `SendQueueInv`, `LowPriorityBounded`, `RecvInv`, `CompletionsInv`, `OfiInv`, `RegCacheInv`, `Refilled` |
| `collectives` | all collectives on 2 and 3 ranks with every root; barrier, trees and ring on 6 | `ResultsRight`, `NeverStuck` |
| `pmi` | TCP: two epochs, a crash at any moment, duplicate ranks; files: two epochs; the PMI clients: two processes, a broken connection, no manager, every function; front end with MPI and alone; messages of the wire; the library started twice over verbs, verbs without packets, and libfabric | `PmiInv`, `FenceShows`, `ClientsRight`, `LifecycleRight`, `EveryProcessEnds` |
| `endpoint_selflock` | an injected put with immediate data on a network without it | `BacklogDrains` is violated, section 7 |
| `coll_ring_chunks` | 8 bytes on 8 ranks | `ChunksWithinBuffer` is violated, section 7 |
| `regcache_rmr` | the registration cache of `device` | `RmrKeepsUserBase` is violated, section 7 |

### Bounds, and why they are enough to meet the hard cases

* Ring: two slots and positions up to 3, so that every slot is used by two generations and the last
  encodable position is reached; two CAS attempts for a producer, so that it fails, retries and gives up;
  a consumer has one attempt and one poll per pass. With one message value, header and payload still
  differ by their producer.
* Endpoint: two posts per thread, so that one can overtake another; two progressers compete for the lock.
* Graph: a fork, a join, a node with three successors and an end with three predecessors; node functions
  complete at once or later. Two starts, so that counters must have been reset.
* Synchronizer: threshold 3 with three signallers and two testers over two rounds; threshold 1 over four.
* Send and receive: two or three operations, one or two pieces per rendezvous, two posted receives and
  three or four packets per rank, two tags: retry by lack of packets, unexpected and expected arrival,
  and receives that run out all happen.
* Map engine: one queue per bucket, two slots, three values per node, six sends and four receives of two
  keys: slots overflow into nodes, nodes into a second node, buckets are linked and freed. Packet pool:
  initial arrays of one cell, so that they grow. Registry: one initial cell, four handlers. Archive: four
  tags and five values with one inserter, two tags with two.
* Send queue: five slots of which three are open to high priority only (`Threshold`), three threads.
  Receive queue: 3 or 4 receives, batches of two. Array queues: capacity 2 and five pushes, so that the
  cells are used for the third time.
* Collectives: three ranks are the least with a rank that is neither root nor neighbour on both sides;
  six are neither a power of two nor prime and give trees with a node that receives and sends twice.
  Six ranks run with sends that wait for their receive, the mode in which cycles would show.
* Process managers: three processes; one or two fences, one or two epochs, one crash; socket buffers of
  one or two messages, so that a writer blocks. PMI clients: two processes, one of them with two threads
  on its connection; replies in up to two pieces; one reply with an error, or a manager that dies at any
  moment. Wire: messages of up to two pairs, values of up to three characters, the two separators among
  them. Front end: three initialisations by two owners, two rounds of publications.
* Life cycle: two or three ranks, two runtimes one after the other, the first with a second device or
  endpoint, so that the bootstrap goes through the process manager, then through device 0, and back.
* Shared memory set-up: three ranks, so that one is neither creator nor sole peer; one failing system call
  at any place; two devices, so that names and rounds are used again. Sizes: all of a 6-bit word, with
  cache lines of 4 and pages of 8, so that every product that wraps occurs; names are checked at the
  ranks where their length changes.
* Posts: two operations of one or two threads; sizes 1, 2 and 5 around an inject limit of 1, a packet
  size of 3 and pieces of 3; two or three packets, so that they run out; up to two failures in batches of
  two, so that a batch has both, or one and a success.
* Verbs completions: two endpoints on two ranks with queue pair numbers that collide for the first two
  table sizes; one slot per queue pair. libfabric: two or three operations per configuration, batches of
  two, one or two failures. Registration cache: four buffers, nested, overlapping only by alignment, and
  empty; two threads; one unmap or fork.

`CHECK_DEADLOCK FALSE` is given where a job simply ends: `tables`, `collectives`, `pmi`.
Waiting for ever is excluded there by `NeverStuck` and `EveryProcessEnds`.
Symmetry is used for producers, consumers and packets, in runs without liveness properties.

## 4. Fairness

* Ring: weak fairness of every thread inside a call and of consumers' passes; strong fairness of a
  successful CAS (a weak compare-exchange fails spuriously only finitely often) and of the look at the
  ring, since progress is polled for ever.
* Endpoint: weak fairness of a thread inside a call and of calling `progress`; strong fairness of the
  device taking an operation that is offered again and again, which is what `retry` means.
* Graph, synchronizer: what was posted completes; threads in a call go on; testers keep testing, and
  their CAS does not fail spuriously for ever.
* Send and receive: all operations are posted and both ranks keep progressing, as the documentation asks.
  Posts: the network completes or fails what it took. libfabric: the same, and a thread in a call goes on.
* Shared memory set-up: every rank makes the collective calls that the others make, and its calls run on.
* Receive queue: threads keep progressing; a thread that tries again and again gets packets and the
  queue's lock some time. Array queues: a push that has begun ends, consumers poll; nobody has to push.
* Thread barrier: threads run. Process managers: processes run unless they crashed, `flock` is
  granted to who asks again and again, and a process manager that lives answers. Life cycle: ranks run
  and the network delivers.
* Collectives need none: `NeverStuck` is an invariant, some rank can always move until all have left.

Liveness is stated in the MC modules for one scenario of each run. The component modules state the same
formula for their own specification.

## 5. What is proved

Eight modules hold theorems, for every value of the constants that satisfies the assumptions named.

* `ShmRingProofs`, from `ShmRingAssumption` (at least one slot, no more slots than positions, producers
  and consumers different, the null header and body not messages). `RingInvariant`: `Spec => []RingInv`;
  from it `RingExclusiveOwnership`, `RingNoFalseCorruption`, `RingWholeMessage`. Exclusive ownership is
  not inductive: a thread about to CAS knows the control word but owns nothing yet. `RingInv` adds the
  window (consumer position, at most `SlotCount` behind the producer position, which never exceeds the
  maximum), that every slot has a *generation* on which control words, sequence and owner agree, what
  each program counter knows (`ProducerInv`, `ConsumerInv`), and that owners hold different positions.
  The proof has a lemma per action; the arithmetic is in a few lemmas on slots and laps (two positions
  of one slot are a multiple of `SlotCount` apart).
* `ShmRingProofs`, last part: `RingImplementsChannel`, the ring implements `ShmChannel`, with the mapping the
  run checks (`Sending`, `Queue`, `Views` of `ShmRing`). The queue is read off the slots between the two
  positions: a published slot shows its message, any other the producer that has reserved it. That such
  a producer exists is `FillersInv`, which `RingInv` does not say. A lemma per action shows a step or a
  stutter of the channel. The CAS of a reservation is the step with an argument of its own: the channel
  counts messages queued and views held, the ring looks at one slot, and `RoomAtHead` shows that a
  reusable slot at the head leaves fewer than `SlotCount` of the two together, since each of them is in
  a slot of its own, other than that one.
* `EndpointQueueProofs` and `EndpointProofs`, from `EndpointAssumption`; the first has the invariant and
  the steps that push to and pop from the backlog queue, the second the other steps and the theorems.
  `EndpointInvariant` and `EndpointPostOrder`, the two invariants of the run, for every number of threads
  and ranks, every mix of operations and networks with and without immediate data; `PendingOperations`,
  what `pending_ops` counts. None is inductive.
  `EndpointIInv` follows an operation from the call that posts it to the device: it is with the thread
  that posts it, in the backlog queue, or taken, and the front entry is both queued and taken for a
  moment, while the thread that drains the queue holds the lock (`FrontTaken`). `OrderInv` says that the
  wire is in order, the queue is in order, what is on the wire comes before what is queued, and what a
  thread is posting comes after both, and that a thread which is past the look at `nentries` has no
  earlier operation queued to that rank. That last one needs the count: `BacklogCounted` makes a zero
  counter mean an empty queue. `DrainInv` is the argument for `test_drained`: a queue that was seen empty
  holds later operations only, and `PendingCounted` turns a zero `pending_ops` into nobody posting.
* `TablesProofs`, the packet pool, from `PacketPoolAssumption`. `PacketsStayOnce`, for any number of threads and packets
  and every default size, and `DequesWellFormed`, the assertions of `mpmc_set.hpp`. `PacketsOnce` counts
  cells; `PoolIInv` says the same with sets (`Apart`, `Covered`, `Once`) of the packets each deque stores,
  and adds what the locks protect (`LockInv`): a thief's copies are in the prefix of its array until it has
  set head and tail, its own deque being empty all the while. The lemmas about one deque carry the
  arithmetic: two indices less than the size apart have different positions modulo the size, also when
  head is negative, and growth copies every packet to where the new head and tail find it.
* `DeviceProofs`, the send queue of a queue pair, from `IbvSendQueueAssumption` (finitely many threads,
  threshold below the size). `SendQueueInvariant`, and from it `SendQueueSlotsConserved`,
  `SendQueueNeverOverflows`, `SendQueueLowPriorityBounded`. `SendQueueInv` strengthens the bound on
  low-priority operations: it also counts threads that passed the load and have not decremented, so that
  each step moves between two summands.
* `DeviceProofs`, the receive queue, from `RecvPostingAssumption` (finitely many progressing threads, a
  queue and a batch of at least one). `RecvPostingInvariant`: `nrecvs_posted` is exact in every state and the hardware
  queue is never asked to take more than it holds. Sums over threads are cardinalities of sets of places
  (`Places`), and `PlacesChange` says what a step of one thread does to such a sum. The counter alone does
  not bound the queue: a thread that has added its reservation and not posted yet competes with others
  that read the counter before. `RecvIInv` has `PromisesFit` for that, the receives in the queue and the
  slots all threads are entitled to fit together, and `FrameInv`, that a thread is entitled to no more
  than what it has reserved.
* `DeviceProofs`, the verbs completions, from `IbvCompletionsAssumption` (at least one rank and
  one slot, bounded queue pair numbers and enough of them, finitely many calls). `CompletionsInvariant`, for every number of endpoints, ranks and polling threads
  and for all numbers the adapter gives to queue pairs. `CqIInv` adds that numbers are unique among live
  queue pairs and that the table built last shows every one of them (`MapInv`), that a completion not yet
  translated belongs to a call that is still posted on its queue pair (`WcsRight`), and that an
  operation has one completion at most, in one place (`WcsApart`), so that a slot is given back once. That `rebuild_locked`
  finds a length without a collision is proved from the numbers being bounded (`FirstLengthFits`).
* `RegCacheProofs`, from `RegCacheAssumption` (finitely many threads, a positive alignment).
  `RegCacheInvariant`: reference counts are exact, a buffer that is registered or held lies in a live
  region, no registration gets a region that was unmapped before it began, and nothing is left when the
  device is gone. `CacheIInv` adds that the regions of the page table are apart and not empty (a merge
  needs it: the new region replaces all it overlaps), that a region out of the table lives as long as it
  has a user, that only one thread destroys a region, and that an unmapped region which is still in the
  table is covered by a range of the invalidation queue (`Waiting`), which every critical section that
  may hand it out works off first. An action changes the regions up to four times (queue, garbage,
  merge, new region), so the lemmas speak of `Fine(rs, us)`, the invariant of any regions and users.
* `SyncProofs`, the thread barrier, from `ThreadBarrierAssumption` (a finite, non-empty set of threads).
  `TicketInvariant` and `ThreadBarrierHolds`. `IInv` says that tickets agree with `step`, that `waiting`
  counts the threads that hold the current ticket except between the reset and the raise of `step`, and
  that at most one thread is there, when all have arrived.
* `SyncProofs`, the synchronizer, from `SyncAssumption` (a threshold of at least one, finitely many signalling threads).
  `SyncRoundDelivered` and `SyncSignalExpected`. `SyncInv` ties the three counters to the round: `m_top2`
  plus the signals under way is the number posted, `m_tail` is a round ahead only while one test moves
  the statuses, and a status between the round's first and the last posted is stored or about to be.
* `LctQueueProofs`, from `LctQueueAssumption` and `~RoomByCount`: a cell is pushed to again only after the
  pop of its last value has returned. That is stricter than counting the values outstanding, and it is
  the caller's business: `push` does not test it, and `cq.hpp:35` pushes unconditionally (section 7 has
  what happens otherwise). `QueueReturnsWhatWasPushed` and `QueueFifo` for all three kinds and both builds.
  `QueueInv` separates what producers know (`WriteInv`, `LapInv`, `DataInv`, `ReadableInv`) from what
  consumers know (`PopInv`, `ClaimsApart`): a consumer's test only shows that a position is published, it
  owns what it claimed from `bot`, and a cell is written again only after its value was returned. A
  claim that is given back is harmless because returned positions are all below `bot` and the one given
  back is not among them. The debug assertion of `push` is left to the run `completion`.
* `TablesProofs`, the archive, from `ImmTagArchiveAssumption` (the number of tags is positive, the empty value
  is no context). `ArchiveTagKeepsValue`. `ArchiveInv` adds that a thread that scans holds a context
  without a tag, alone.

Only model-checked: everything else. `BacklogDrains` is liveness. That the archive finds a slot (`FindsSlot`) holds for one inserting
thread only and is checked for that case. Liveness under fairness and `ENABLED` are out of the prover's
reach, and so is what recursively defined data computes for every input. The programs of the
collectives, which are such data, are checked for the numbers of ranks above.

## 6. What is not modelled

* **Relaxed memory order.** Accesses are sequentially consistent in all modules.
* Byte layouts, message formats, environment parsing, logging, performance counters.
* Hardware and operating system beyond their interface: a device takes an operation or answers retry,
  completions arrive in any order, puts of one rendezvous land in any order except that the one with the
  notification lands last (`writeimm` relies on the network for that), `flock` and sockets behave.
* Allocation failures (`bad_alloc`), iovecs, buffers of accelerators, device and provider selection, PMIx,
  the process that PMI-1 starts when there is no manager. `PROJECT.json` gives the reason for each.
* Endpoints that are allocated or freed while another thread polls their device (section 7).
* The wrap-around of 32- and 64-bit counters, apart from the last position of the ring, which is modelled,
  and the unsigned difference in the ring broadcast, which is modelled as the code computes it.

## 7. Where the code departs from what it says

Three are kept as runs:

* `endpoint_selflock`: `progress` of the backlog queue posts the front entry while it holds the queue's
  spinlock. For an injected put with immediate data, on a network that has none, this posts a send that
  finds the counter of the rank not yet lowered and pushes itself, which locks the same spinlock.
* `coll_ring_chunks`: the length of the last chunks of a ring broadcast is a minimum taken of an unsigned
  difference; with 8 bytes on 8 ranks chunks lie outside the buffer.
* `regcache_rmr`: all users of a cached region share one `mr_impl_t`, and each registration stores its own
  address and size there. `get_rmr` of the first user then returns the base of the second. The rendezvous
  is not affected, it computes its offsets from the base it reads.

The others were met while modelling. Each can be reproduced with the property and the constants given,
in the module named, by a configuration of its own:

| where | what | module, property, constants |
|---|---|---|
| `core/progress.cpp:415` | `test_drained` reads the backlog flag before `pending_ops`; the completion of a split put between the reads queues a send, and done is returned with it still queued | `MCEndpoint`, `DrainedMeansImmPosted`, `Settings = {"split"}`; `PostOrder` promises less, the operations without their immediate data |
| `comp/graph.hpp:151` | a thread that delivered a signal which was not the last reads the expected count from a graph that the last one may have deleted | `Graph`, `NoUseAfterDelete`, `AutoFree = TRUE`, two threads |
| `matching_engine_queue.hpp:58` | the value is read through the iterator that was just erased | `MatchingQueue`, `Matches` of `MCTables`, `FreedReads` a set with one more value |
| `mpmc_set.hpp:286` | a packet is returned to the deque of the calling thread, the id of its home only chooses the end | `PacketPool`, the action of put; `PacketsOnce` does not depend on it |
| `backend_ibv_inline.hpp:252` | low-priority operations of several threads can take reserved slots; how many is bounded, see section 5 | `IbvSendQueue`; low-priority operations in flight, compared with `NetMaxSends - Threshold` |
| `queue_array_atomic_faa.hpp:54` | a pop that has claimed its cell and not read it counts as room for a caller that counts values only | `LctQueue`, `PushAssertHolds`, `Debug`, `RoomByCount = TRUE` |
| `queue_array_atomic_cas.hpp:47` | the debug assertion fails on the last cell of the first lap, whose initial tag is what it looks for | `LctQueue`, `PushAssertHolds`, `Kind = "cas"`, `Debug` |
| `queue_array_atomic_basic.hpp:55` | the comparison of the debug assertion is the wrong way round | `LctQueue`, `PushAssertHolds`, `Kind = "basic"`, `Debug` |
| `collective/broadcast.cpp:128` | chunks of a ring broadcast are told apart by arrival order only, which two progressing threads do not keep | `Collective`, `BroadcastDelivers`, `Ordered = FALSE`, four ranks |
| `pmi_wrapper_file.cpp:297` | `barrier` never closes its descriptor | `PmiFile`, `AssertsHold`, more fences than `MaxFds` |
| `imm_tag_archive.hpp:52` | with two inserting threads and a nearly full archive, a scan can miss the slot that is freed behind it and report exhaustion | `ImmTagArchive`, `FindsSlot`, two inserters, one tag bit, six values |

Beside these, every rank of an `allreduce` combines the contributions in an order of its own, from its
own rank backwards, so that an operator that does not commute gives different results at different ranks.
`ResultsRight` states that order: each contribution is there once, at the place the code gives it.

The following are choices of the models rather than results: what the code leaves open or asks of its
caller, and how a module treats it.

* *Posts* (`PostComm`). A blocking post whose failed completion is taken by another thread's `progress`
  is never signalled and waits on; so does the drain of `free_endpoint` before the device is marked
  failed. `EverythingCompletes` is therefore stated for one thread. The exception that leaves a blocking
  post leaks its synchronizer. A packet of the user whose message only fits without its metadata goes by
  rendezvous and is not returned to the pool (`binding/input/basic.py` says it is), so `IsCall` asks for
  room for both; a get into a packet and a put with signal and a tag beyond `max_imm_tag` are excluded as
  the documentation excludes them.
* *Backends.* Statuses of remote writes carry rank 0 in both. libfabric sends put the rank in the upper
  half of 64 bits of data but only four bytes are asserted; its device constructor writes reduced queue
  sizes back into the shared `fi_info`; `post_recvs_impl` reads an uninitialised error for no receives.
  The verbs backend reads the opcode of failed completions, which the verbs interface leaves undefined
  (the model takes it as right); its snapshot of the queue pair map is deleted while a polling thread may
  use it, and a lookup does not compare the queue pair number.
* *Registration.* `mem_reg_cb` asserts where UCX expects an error, so its second attempt after a failed
  merge never runs. A pool that was registered lazily with a device it is not bound to keeps that
  registration after the device is freed.
* *Process managers.* PMI-1 takes a line that ends with the connection for a whole one; the wrappers
  ignore the results of the clients; a client initialised again uses its closed descriptor; publish,
  unpublish and lookup of PMI-1 report success when the reply cannot be read; some PMI-2 functions take no
  mutex (only one thread calls those here). The MPI backend can be initialised again after it finalised
  MPI, because `MPI_Initialized` stays true; the next call of MPI then aborts (`late` in `PmiWrapper`).
* *Start-up.* `bootstrap::alltoall` does not pass on its runtime, so it works with the global runtime only.
  With bootstrap over the library and a device 0 without packets no second object can be made. Uids and
  rounds are not reset, so after a second initialisation no device has uid 0 and the bootstrap stays with
  the process manager. Only the verbs backend posts receives before peers can send.

## 8. Plan

What comes next, in this order:

1. *Compose.* `Endpoint` over `IbvSendQueue` instead of an external device; `SendRecv` over `Matching`
   and `RecvPosting`; `Lifecycle` over the key-value interface that `PmiTcp` and `PmiFile` implement.
2. *Prove.* `EntriesKept` of the handler registry. `OfiInv`. `NothingLost` of `SendRecv`.

## 9. Running

In this directory: `tlc -workers 2 -config ShmRing.cfg ShmRing` and likewise for each run of
`PROJECT.json`; `tlapm ShmRingProofs.tla` and likewise for the other proof modules. Each run takes from
some seconds to about three minutes on two cores.
