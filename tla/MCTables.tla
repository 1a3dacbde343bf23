------------------------------ MODULE MCTables ------------------------------
(***************************************************************************)
(* The data structures the runtime keeps of its own: the two matching      *)
(* engines, the packet pool, the registry of remote handlers and the       *)
(* archive of immediate-data tags, with one inserting thread or two.  They *)
(* share nothing, so a behaviour is about one of them, which its first     *)
(* state chooses, and the others stay as they are.                         *)
(***************************************************************************)
EXTENDS PacketPool, TLC

CONSTANTS k1, k2,              \* matching keys
          t1, t2,              \* threads of the pool and of the archive
          w1, w2, r1,          \* writers and a reader of the registry
          v1, v2, v3, v4, v5   \* values of the archive

VARIABLES structure,
          chain, inserted, last,                              \* map engine
          send_queue, recv_queue, queue_inserted, queue_last, \* queue engine
          size, arrays, ptr, length, registry_lock, registry_local,
          registered,                                         \* registry
          slots, next_slot, archive_local, tag_of             \* archive

Archives == {"archive", "archive, two threads"}

Map == INSTANCE MatchingMap WITH
    Keys <- {k1, k2}, MaxSends <- 6, MaxRecvs <- 4,
    BucketQueues <- 1, SlotValues <- 2, NodeValues <- 3

Queue == INSTANCE MatchingQueue WITH
    Keys <- {k1, k2}, MaxSends <- 5, MaxRecvs <- 4, FreedReads <- {},
    inserted <- queue_inserted, last <- queue_last

Registry == INSTANCE RhandlerRegistry WITH
    Writers <- {w1, w2}, Readers <- {r1}, DefaultLength <- 1, ReserveMax <- 2,
    MaxHandlers <- 4, MaxGets <- 1, lock <- registry_lock, local <- registry_local

Archive(a) == INSTANCE ImmTagArchive WITH
    Inserters <- IF a = "archive" THEN {t1} ELSE {t1, t2},
    TagBits <- IF a = "archive" THEN 2 ELSE 1,
    Values <- {v1, v2, v3, v4, v5}, local <- archive_local

ASSUME TablesConstants ==
    /\ Map!MatchingMapAssumption /\ Queue!MatchingQueueAssumption
    /\ Registry!RhandlerRegistryAssumption
    /\ \A a \in Archives : Archive(a)!ImmTagArchiveAssumption

mapVars == <<chain, inserted, last>>
queueVars == <<send_queue, recv_queue, queue_inserted, queue_last>>
registryVars == <<size, arrays, ptr, length, registry_lock, registry_local, registered>>
archiveVars == <<slots, next_slot, archive_local, tag_of>>

MCVars == <<structure, mapVars, queueVars, vars, registryVars, archiveVars>>

MCInit ==
    /\ structure \in {"map", "queue", "pool", "registry"} \cup Archives
    /\ Map!Init /\ Queue!Init /\ Init /\ Registry!Init
    /\ \E a \in Archives :
          /\ IF structure \in Archives THEN a = structure ELSE a = "archive"
          /\ Archive(a)!Init

MCNext ==
    /\ UNCHANGED structure
    /\ \/ /\ structure = "map" /\ Map!Next
          /\ UNCHANGED <<queueVars, vars, registryVars, archiveVars>>
       \/ /\ structure = "queue" /\ Queue!Next
          /\ UNCHANGED <<mapVars, vars, registryVars, archiveVars>>
       \/ /\ structure = "pool" /\ Next
          /\ UNCHANGED <<mapVars, queueVars, registryVars, archiveVars>>
       \/ /\ structure = "registry" /\ Registry!Next
          /\ UNCHANGED <<mapVars, queueVars, vars, archiveVars>>
       \/ \E a \in Archives :
          /\ structure = a /\ Archive(a)!Next
          /\ UNCHANGED <<mapVars, queueVars, vars, registryVars>>

MCSpec == MCInit /\ [][MCNext]_MCVars

\* Packets are not told apart.
Interchangeable == Permutations(Packets)

-----------------------------------------------------------------------------
\* The structures are well formed.  In the map engine one queue has a given
\* key and the chain of buckets is no longer than its queues need; in the
\* queue engine sends and receives with one key never wait together.
TablesInv ==
    /\ structure = "map" => Map!TypeOK /\ Map!OneQueuePerKey /\ Map!ChainBounded
    /\ structure = "queue" => Queue!NeverBothWait
    /\ structure = "pool" => TypeOK
    /\ structure = "registry" => Registry!TypeOK
    /\ \A a \in Archives : structure = a => Archive(a)!TypeOK

\* Both engines are the abstract matching engine.
Matches == Map!Matches /\ Queue!Matches

\* No handler is given out twice, and a reader finds what was registered
\* although the array is resized (mpmc_array.hpp); a tag stands for one context
\* until it is removed, and with one inserting thread the archive is never taken
\* for exhausted (imm_tag_archive.hpp).
EntriesKept ==
    /\ structure = "registry" => Registry!HandlersDistinct /\ Registry!GetFindsEntry
    /\ \A a \in Archives : structure = a => Archive(a)!TagKeepsValue
    /\ structure = "archive" => Archive("archive")!FindsSlot
=============================================================================
