------------------------------ MODULE RegCache ------------------------------
(***************************************************************************)
(* Memory registration with the registration cache of a device.  The      *)
(* cache keeps a table of disjoint registered regions; a registration     *)
(* inside a region takes a reference to it, one that only overlaps        *)
(* regions replaces them by a larger one, and memory that the process     *)
(* unmaps is taken out of the table.  A region lives until the table and  *)
(* all its users have dropped it.  All the users of a region get the same *)
(* mr_impl_t, whose address and size RegCache::impl::get overwrites.      *)
(*                                                                        *)
(* mem_reg_cb never returns an error, and the cache is created without    *)
(* limits, so eviction and the retry of a failed merge never run.         *)
(***************************************************************************)
EXTENDS Integers, Sequences, FiniteSets

CONSTANTS Users,        \* threads that register memory, one buffer at a time
          Buffers,      \* the buffers: [address, size]
          Alignment,    \* UCS_RCACHE_MIN_ALIGNMENT
          MaxRegions,   \* bound: registrations with the provider at a time
          MaxEvents     \* bound: unmaps and forks

VARIABLES regions,      \* ucs_rcache_region_t with its mr_impl_t
          inv_q,        \* ranges whose invalidation waits for the lock
          writer, readers,  \* pgt_lock
          user,         \* what each thread is doing
          events, alive

vars == <<regions, inv_q, writer, readers, user, events, alive>>

RegCacheAssumption ==
    /\ IsFiniteSet(Users) /\ Alignment \in Nat \ {0} /\ MaxRegions \in Nat
    /\ Buffers \subseteq [address : Nat, size : Nat]

ASSUME RegCacheConstants == RegCacheAssumption

Unused == [state |-> "unused", start |-> 0, end |-> 0, refs |-> 0, pgtable |-> FALSE,
           address |-> 0, size |-> 0, unmapped |-> FALSE]
LiveRegion(start, end, refs, pgtable, address) ==
    [state |-> "live", start |-> start, end |-> end, refs |-> refs, pgtable |-> pgtable,
     address |-> address, size |-> 0, unmapped |-> FALSE]
Ids == 1 .. MaxRegions
Idle == [pc |-> "idle", buf |-> [address |-> 0, size |-> 0], id |-> 0, gone |-> {}]
Nobody == "nobody"

Init ==
    /\ regions = [i \in Ids |-> Unused]
    /\ inv_q = <<>> /\ writer = Nobody /\ readers = {}
    /\ user = [u \in Users |-> Idle]
    /\ events = 0 /\ alive = TRUE

AlignDown(a) == a - (a % Alignment)
AlignUp(a) == AlignDown(a + Alignment - 1)
Overlapping(rs, from, to) ==      \* ucs_rcache_find_regions
    {i \in Ids : rs[i].pgtable /\ rs[i].start < to /\ from < rs[i].end}
Contains(r, from, to) == r.pgtable /\ r.start <= from /\ to <= r.end

\* ucs_rcache_region_put_internal under the lock: the last reference destroys the
\* region or puts it on the garbage collection list.
Dropped(r, gc) ==
    IF r.refs # 1 THEN [r EXCEPT !.refs = @ - 1]
    ELSE IF gc THEN [r EXCEPT !.refs = 0, !.state = "gc"] ELSE Unused

Invalidate(rs, ids, gc) ==
    [i \in Ids |-> IF i \in ids THEN Dropped([rs[i] EXCEPT !.pgtable = FALSE], gc) ELSE rs[i]]
InvalidateRange(rs, from, to, gc) == Invalidate(rs, Overlapping(rs, from, to), gc)

\* ucs_rcache_check_inv_queue, ucs_rcache_check_gc_list
CheckInvQueue(rs, gc) ==
    Invalidate(rs, UNION {Overlapping(rs, inv_q[k].from, inv_q[k].to) : k \in DOMAIN inv_q}, gc)
CheckGcList(rs) ==
    [i \in Ids |-> IF rs[i].state = "gc" THEN Unused ELSE rs[i]]
Cleaned == CheckGcList(CheckInvQueue(regions, FALSE))

Go(u, pc) == user' = [user EXCEPT ![u].pc = pc]
FreeIds == {i \in Ids : regions[i].state = "unused"}
NewId == CHOOSE i \in FreeIds : TRUE
Least(S) == CHOOSE x \in S : \A y \in S : x <= y
Greatest(S) == CHOOSE x \in S : \A y \in S : y <= x
LockFree == writer = Nobody /\ readers = {}

-----------------------------------------------------------------------------
\* device_impl_t::register_memory: the cache does not take a buffer of size 0,
\* which gets a registration of its own.
RegisterMemory(u, buf) ==
    /\ alive /\ user[u].pc = "idle"
    /\ IF buf.size > 0
       THEN /\ user' = [user EXCEPT ![u] =
                  [pc |-> "get", buf |-> buf, id |-> 0, gone |-> {i \in Ids : regions[i].unmapped}]]
            /\ UNCHANGED regions
       ELSE /\ FreeIds # {}
            /\ regions' = [regions EXCEPT ![NewId] =
                  LiveRegion(buf.address, buf.address, 1, FALSE, buf.address)]
            /\ user' = [user EXCEPT ![u] = [pc |-> "held", buf |-> buf, id |-> NewId, gone |-> {}]]
    /\ UNCHANGED <<inv_q, writer, readers, events, alive>>

\* ucs_rcache_get with the lock for reading: the fast path only when no
\* invalidation waits.
FastCheck(u) ==
    /\ user[u].pc = "get" /\ writer = Nobody
    /\ IF inv_q = <<>>
       THEN Go(u, "lookup") /\ readers' = readers \cup {u}
       ELSE Go(u, "create") /\ UNCHANGED readers
    /\ UNCHANGED <<regions, inv_q, writer, events, alive>>

Hold(u, rs, i) ==
    /\ regions' = [rs EXCEPT ![i].refs = @ + 1]
    /\ user' = [user EXCEPT ![u].pc = "set", ![u].id = i]

FastLookup(u) ==
    /\ user[u].pc = "lookup"
    /\ LET buf == user[u].buf
           hit == {i \in Ids : Contains(regions[i], buf.address, buf.address + buf.size)} IN
       IF hit # {} THEN Hold(u, regions, CHOOSE i \in hit : TRUE)
       ELSE Go(u, "create") /\ UNCHANGED regions
    /\ readers' = readers \ {u}
    /\ UNCHANGED <<inv_q, writer, events, alive>>

\* ucs_rcache_create_region with the lock for writing, up to the call of mem_reg:
\* another thread may have added a region that contains the buffer; the regions
\* that overlap are merged with it.
CreateRegion(u) ==
    /\ user[u].pc = "create" /\ LockFree
    /\ inv_q' = <<>>
    /\ LET from == AlignDown(user[u].buf.address)
           to == AlignUp(user[u].buf.address + user[u].buf.size)
           rs == Cleaned
           over == Overlapping(rs, from, to)
           hit == {i \in over : Contains(rs[i], from, to)} IN
       IF hit # {} THEN Hold(u, rs, CHOOSE i \in hit : TRUE) /\ UNCHANGED writer
       ELSE /\ FreeIds # {}
            /\ regions' = [Invalidate(rs, over, FALSE) EXCEPT ![NewId] =
                  LiveRegion(Least({from} \cup {rs[i].start : i \in over}),
                             Greatest({to} \cup {rs[i].end : i \in over}), 2, TRUE, 0)]
            /\ writer' = u
            /\ user' = [v \in Users |-> [user[v] EXCEPT
                  !.gone = @ \ {NewId},
                  !.pc = IF v = u THEN "register" ELSE @,
                  !.id = IF v = u THEN NewId ELSE @]]
    /\ UNCHANGED <<readers, events, alive>>

\* RegCache::impl::mem_reg_cb registers the whole region; the lock is released.
MemReg(u) ==
    /\ user[u].pc = "register"
    /\ LET i == user[u].id IN
       regions' = [regions EXCEPT ![i].address = regions[i].start,
                                  ![i].size = regions[i].end - regions[i].start]
    /\ writer' = Nobody
    /\ Go(u, "set")
    /\ UNCHANGED <<inv_q, readers, events, alive>>

\* The end of RegCache::impl::get stores the range in the mr_impl_t of the region.
SetRange(u) ==
    /\ user[u].pc = "set"
    /\ regions' = [regions EXCEPT ![user[u].id].address = user[u].buf.address,
                                  ![user[u].id].size = user[u].buf.size]
    /\ Go(u, "held")
    /\ UNCHANGED <<inv_q, writer, readers, events, alive>>

\* mr_impl_t::get_rmr
GetRmr(u) == [base |-> regions[user[u].id].address, mr_base |-> regions[user[u].id].start]

\* A mutant: the registration goes back to the provider, whoever else uses it.
DeregisterDirectly(u) ==
    /\ user[u].pc = "held"
    /\ regions' = [regions EXCEPT ![user[u].id] = Unused]
    /\ user' = [user EXCEPT ![u] = Idle]
    /\ UNCHANGED <<inv_q, writer, readers, events, alive>>

\* device_impl_t::deregister_memory; for a cached registration RegCache::impl::put,
\* where the last reference has the region destroyed under the lock.
DeregisterMemory(u) ==
    /\ user[u].pc = "held"
    /\ LET r == regions[user[u].id] IN
       IF r.size > 0
       THEN /\ regions' = [regions EXCEPT ![user[u].id].refs = @ - 1]
            /\ user' = IF r.refs = 1 THEN [user EXCEPT ![u].pc = "destroy"]
                       ELSE [user EXCEPT ![u] = Idle]
       ELSE /\ regions' = [regions EXCEPT ![user[u].id] = Dropped(r, FALSE)]
            /\ user' = [user EXCEPT ![u] = Idle]
    /\ UNCHANGED <<inv_q, writer, readers, events, alive>>

DestroyRegion(u) ==
    /\ user[u].pc = "destroy" /\ LockFree
    /\ regions' = [regions EXCEPT ![user[u].id] = Unused]
    /\ user' = [user EXCEPT ![u] = Idle]
    /\ UNCHANGED <<inv_q, writer, readers, events, alive>>

-----------------------------------------------------------------------------
\* The process unmaps memory that nobody has registered now.  The cache is told:
\* it takes the regions out of the table if it gets the lock, or leaves that to
\* the next slow path (ucs_rcache_unmapped_callback).
Busy(from, to) ==
    \E u \in Users : /\ user[u].pc # "idle" /\ user[u].buf.size > 0
                     /\ user[u].buf.address < to
                     /\ from < user[u].buf.address + user[u].buf.size

Unmapped(rs, from, to) ==
    [i \in Ids |-> IF rs[i].state = "live" /\ rs[i].start < to /\ from < rs[i].end
                   THEN [rs[i] EXCEPT !.unmapped = TRUE] ELSE rs[i]]

Unmap(from, to) ==
    /\ alive /\ events < MaxEvents /\ ~Busy(from, to)
    /\ events' = events + 1
    /\ LET rs == Unmapped(regions, from, to) IN
       IF LockFree
       THEN /\ regions' = CheckInvQueue(InvalidateRange(rs, from, to, TRUE), TRUE)
            /\ inv_q' = <<>>
       ELSE /\ regions' = rs
            /\ inv_q' = Append(inv_q, [from |-> from, to |-> to])
    /\ UNCHANGED <<writer, readers, user, alive>>

\* ucs_rcache_before_fork
Fork ==
    /\ alive /\ events < MaxEvents /\ LockFree
    /\ events' = events + 1
    /\ regions' = Invalidate(regions, {i \in Ids : regions[i].pgtable}, FALSE)
    /\ UNCHANGED <<inv_q, writer, readers, user, alive>>

\* device_impl_t::destroy_reg_cache, when the device is freed.
DestroyRegCache ==
    /\ alive /\ \A u \in Users : user[u].pc = "idle"
    /\ alive' = FALSE
    /\ inv_q' = <<>>
    /\ regions' = Invalidate(Cleaned, {i \in Ids : Cleaned[i].pgtable}, FALSE)
    /\ UNCHANGED <<writer, readers, user, events>>

Finished == ~alive /\ UNCHANGED vars

Next ==
    \/ \E u \in Users :
          \/ \E buf \in Buffers : RegisterMemory(u, buf)
          \/ FastCheck(u) \/ FastLookup(u) \/ CreateRegion(u) \/ MemReg(u)
          \/ SetRange(u) \/ DeregisterMemory(u) \/ DestroyRegion(u)
    \/ \E buf \in Buffers : buf.size > 0 /\ Unmap(buf.address, buf.address + buf.size)
    \/ Fork \/ DestroyRegCache \/ Finished

Spec == Init /\ [][Next]_vars

-----------------------------------------------------------------------------
Holders(i) == {u \in Users : user[u].id = i /\ user[u].pc # "destroy"}

\* The regions of the table are disjoint, and a region is counted once by the table
\* and once by each thread that has it.
CountsRight ==
    \A i \in Ids :
        /\ regions[i].state = "live" =>
              regions[i].refs = Cardinality(Holders(i)) + (IF regions[i].pgtable THEN 1 ELSE 0)
        /\ regions[i].pgtable =>
              regions[i].state = "live" /\ Overlapping(regions, regions[i].start, regions[i].end) = {i}

\* What a thread has registered stays registered, whatever is merged, unmapped,
\* forked or deregistered meanwhile.
StaysRegistered ==
    \A u \in Users : user[u].pc \in {"register", "set", "held"} =>
        LET r == regions[user[u].id] IN
        /\ r.state = "live" /\ r.start <= user[u].buf.address
        /\ user[u].buf.address + user[u].buf.size <= r.end

\* A registration never uses a region of memory that was unmapped before it began.
NotUnmapped ==
    \A u \in Users : user[u].pc \in {"register", "set", "held"} => user[u].id \notin user[u].gone

\* Nothing stays registered when the device is gone.
NothingRegistered == ~alive => \A i \in Ids : regions[i] = Unused

\* The promises of the registration cache together (device_inline.hpp,
\* register_memory and deregister_memory over reg_cache.cpp and rcache.c).
RegCacheInv == CountsRight /\ StaysRegistered /\ NotUnmapped /\ NothingRegistered

\* get_rmr returns the address that was registered.
RmrKeepsUserBase ==
    \A u \in Users : user[u].pc = "held" => GetRmr(u).base = user[u].buf.address
=============================================================================
