-------------------------- MODULE RhandlerRegistry --------------------------
(***************************************************************************)
(* The registry of remote handlers (rhandler_registry/) on the growing     *)
(* array it keeps its entries in (data_structure/mpmc_array.hpp).  Writers *)
(* register and deregister under the array's lock; readers, the progress   *)
(* engine resolving the handler a message names, take no lock.  A step is  *)
(* an atomic access or a critical section's access to shared memory.  An   *)
(* entry is three words stored one after another: while put stores it, the *)
(* cell is Torn.  Old arrays are kept, so arrays only ever grows.          *)
(***************************************************************************)
EXTENDS Integers, Sequences

CONSTANTS Writers,        \* threads that register and deregister
          Readers,        \* threads that resolve handlers
          DefaultLength,  \* initial length of the array (32 in the code)
          ReserveMax,     \* most handlers one reserve call asks for
          MaxHandlers,    \* bound: handlers taken by all calls together
          MaxGets         \* bound: calls of get per reader

RhandlerRegistryAssumption == DefaultLength \in Nat \ {0}

VARIABLES size,         \* handlers given out
          arrays,       \* every array allocated, oldest first
          ptr, length,  \* the current array and its length
          lock,         \* the writer that holds the lock, or NoOne
          local,        \* locals of each thread
          registered    \* history: handlers whose registration returned and
                        \* whose deregistration has not begun

vars == <<size, arrays, ptr, length, lock, local, registered>>

-----------------------------------------------------------------------------
NoOne == "no one"

\* entry_t(), a half-written entry, and what lies outside an array.
NoEntry == "none"
Torn == "torn"
Garbage == "garbage"

\* The entry registered for index idx; no two handlers have the same one.
EntryOf(idx) == <<"entry", idx>>

WriterIdle == [pc |-> "idle", todo |-> <<>>, drop |-> FALSE]
ReaderIdle == [pc |-> "idle", idx |-> 0, len |-> 0, at |-> 0, gets |-> 0,
               result |-> <<>>, sure |-> FALSE]

Init ==
    /\ size = 0
    /\ arrays = <<[i \in 0..(DefaultLength - 1) |-> <<NoEntry>>]>>
    /\ ptr = 1
    /\ length = DefaultLength
    /\ lock = NoOne
    /\ local = [t \in Writers \cup Readers |->
                    IF t \in Writers THEN WriterIdle ELSE ReaderIdle]
    /\ registered = {}

-----------------------------------------------------------------------------
\* Writers.

\* reserve(n), followed by register_rhandler(idx, entry) for each index, and,
\* for n = 1, register_rhandler(entry): both advance size first.
Reserve(w, n) ==
    /\ local[w].pc = "idle"
    /\ size + n <= MaxHandlers
    /\ size' = size + n
    /\ local' = [local EXCEPT ![w].pc = "lock",
                              ![w].todo = [i \in 1..n |-> size + i - 1]]
    /\ UNCHANGED <<arrays, ptr, length, lock, registered>>

\* deregister_rhandler(idx) puts entry_t().
Deregister(w, idx) ==
    /\ local[w].pc = "idle"
    /\ idx \in registered
    /\ registered' = registered \ {idx}
    /\ local' = [t \in DOMAIN local |->
                    IF t = w
                    THEN [pc |-> "lock", todo |-> <<idx>>, drop |-> TRUE]
                    ELSE IF t \in Readers /\ local[t].idx = idx
                         THEN [local[t] EXCEPT !.sure = FALSE]
                         ELSE local[t]]
    /\ UNCHANGED <<size, arrays, ptr, length, lock>>

PutLock(w) ==
    /\ local[w].pc = "lock"
    /\ lock = NoOne
    /\ lock' = w
    /\ local' = [local EXCEPT ![w].pc =
                    IF Head(local[w].todo) >= length THEN "grow" ELSE "store"]
    /\ UNCHANGED <<size, arrays, ptr, length, registered>>

\* resize_nolock up to the store of ptr: a copy of the old array, filled up
\* with empty entries, becomes the current one.
Resize(w) ==
    /\ local[w].pc = "grow"
    /\ arrays' = Append(arrays,
                    [i \in 0..(2 * (Head(local[w].todo) + 1) - 1) |->
                        IF i < length THEN arrays[ptr][i] ELSE <<NoEntry>>])
    /\ ptr' = Len(arrays) + 1
    /\ local' = [local EXCEPT ![w].pc = "length"]
    /\ UNCHANGED <<size, length, lock, registered>>

\* The store of length that ends resize_nolock.
ResizeLength(w) ==
    /\ local[w].pc = "length"
    /\ length' = 2 * (Head(local[w].todo) + 1)
    /\ local' = [local EXCEPT ![w].pc = "store"]
    /\ UNCHANGED <<size, arrays, ptr, lock, registered>>

\* ptr[idx] = val begins ...
PutStore(w) ==
    /\ local[w].pc = "store"
    /\ arrays' = [arrays EXCEPT ![ptr][Head(local[w].todo)] = <<Torn>>]
    /\ local' = [local EXCEPT ![w].pc = "stored"]
    /\ UNCHANGED <<size, ptr, length, lock, registered>>

\* ... and ends; the lock is released and put returns.
PutUnlock(w) ==
    LET idx == Head(local[w].todo)
        rest == Tail(local[w].todo)
    IN  /\ local[w].pc = "stored"
        /\ arrays' = [arrays EXCEPT ![ptr][idx] =
                         IF local[w].drop THEN <<NoEntry>> ELSE EntryOf(idx)]
        /\ lock' = NoOne
        /\ registered' = IF local[w].drop THEN registered
                         ELSE registered \cup {idx}
        /\ local' = [local EXCEPT ![w] =
                        IF rest = <<>> THEN WriterIdle
                        ELSE [@ EXCEPT !.pc = "lock", !.todo = rest]]
        /\ UNCHANGED <<size, ptr, length>>

-----------------------------------------------------------------------------
\* Readers.  A reader is given a handler after a barrier that follows its
\* registration; sure says that it has not been deregistered since.
Get(r, idx) ==
    /\ local[r].pc = "idle"
    /\ local[r].gets < MaxGets
    /\ idx \in registered
    /\ local' = [local EXCEPT ![r] = [@ EXCEPT !.pc = "check", !.idx = idx,
                                               !.sure = TRUE]]
    /\ UNCHANGED <<size, arrays, ptr, length, lock, registered>>

\* The assertion idx < size, then the load of length.
GetLength(r) ==
    /\ local[r].pc = "check"
    /\ local' = [local EXCEPT ![r].pc =
                    IF local[r].idx < size THEN "length" ELSE "asserted",
                              ![r].len = length]
    /\ UNCHANGED <<size, arrays, ptr, length, lock, registered>>

\* A default entry beyond the length, or the load of ptr.
GetPtr(r) ==
    /\ local[r].pc = "length"
    /\ local' = [local EXCEPT ![r] =
                    IF local[r].idx >= local[r].len
                    THEN [@ EXCEPT !.pc = "got", !.result = <<NoEntry>>]
                    ELSE [@ EXCEPT !.pc = "read", !.at = ptr]]
    /\ UNCHANGED <<size, arrays, ptr, length, lock, registered>>

GetRead(r) ==
    LET cells == arrays[local[r].at]
        idx == local[r].idx
    IN  /\ local[r].pc = "read"
        /\ local' = [local EXCEPT ![r].pc = "got", ![r].result =
                        IF idx \in DOMAIN cells THEN cells[idx]
                        ELSE <<Garbage>>]
        /\ UNCHANGED <<size, arrays, ptr, length, lock, registered>>

\* The caller has used the entry.
GetReturn(r) ==
    /\ local[r].pc = "got"
    /\ local' = [local EXCEPT ![r] =
                    [ReaderIdle EXCEPT !.gets = local[r].gets + 1]]
    /\ UNCHANGED <<size, arrays, ptr, length, lock, registered>>

Next ==
    \/ \E w \in Writers :
          \/ \E n \in 1..ReserveMax : Reserve(w, n)
          \/ \E idx \in registered : Deregister(w, idx)
          \/ PutLock(w)
          \/ Resize(w)
          \/ ResizeLength(w)
          \/ PutStore(w)
          \/ PutUnlock(w)
    \/ \E r \in Readers :
          \/ \E idx \in registered : Get(r, idx)
          \/ GetLength(r)
          \/ GetPtr(r)
          \/ GetRead(r)
          \/ GetReturn(r)

Spec == Init /\ [][Next]_vars

-----------------------------------------------------------------------------
TypeOK ==
    /\ size \in 0..MaxHandlers
    /\ ptr \in 1..Len(arrays)
    /\ length \in Nat
    /\ \A a \in 1..Len(arrays) :
          \A i \in DOMAIN arrays[a] :
             arrays[a][i] \in {<<NoEntry>>, <<Torn>>, EntryOf(i)}
    /\ lock \in Writers \cup {NoOne}
    /\ registered \subseteq 0..(size - 1)

\* A handler whose registration has returned and that is not deregistered is
\* resolved to its entry, whatever array and length the reader loads while
\* writers register other handlers and the array grows.
GetFindsEntry ==
    \A r \in Readers :
        /\ local[r].pc # "asserted"
        /\ local[r].pc = "got" /\ local[r].sure =>
              local[r].result = EntryOf(local[r].idx)

\* No two calls are given the same handler, and none is given a handler
\* another one has registered.
HandlersDistinct ==
    \A w1, w2 \in Writers :
        \A i \in 1..Len(local[w1].todo), j \in 1..Len(local[w2].todo) :
            /\ w1 # w2 => local[w1].todo[i] # local[w2].todo[j]
            /\ local[w1].todo[i] \notin registered
=============================================================================
