---------------------------- MODULE ShmGeometry ----------------------------
(***************************************************************************)
(* The sizes of a shared memory ring: what shm::alloc_device makes of the  *)
(* configured ring and slot sizes, what ring_t and the POSIX object that   *)
(* holds it require of them, and the length of the object's name.  Sizes   *)
(* are size_t, WordBits wide.                                              *)
(***************************************************************************)
EXTENDS Integers, FiniteSets

CONSTANTS
  CacheLine,     \* LCI_CACHE_LINE
  HeaderSize,    \* sizeof(slot_header_t)
  PageSize,      \* sysconf(_SC_PAGESIZE)
  WordBits,      \* width of a size_t
  PayloadMax,    \* numeric_limits<uint32_t>::max(): payload_size's type
  OffsetMax,     \* numeric_limits<off_t>::max()
  LastPosition,  \* ring_t::maximum_position
  NameCapacity   \* posix_ring_name_capacity, terminator included

ShmGeometryAssumption ==
  /\ {CacheLine, HeaderSize, PageSize, WordBits, PayloadMax, OffsetMax,
      LastPosition, NameCapacity} \subseteq Nat \ {0}
  /\ 2 * CacheLine < 2^WordBits - 1

\* numeric_limits<size_t>::max()
SizeMax == 2^WordBits - 1
ControlSize == 2 * CacheLine

\* value == 0 ? 0 : the power of two the doubling loop stops at
Doubled(value) ==
  LET loop[rounded \in Nat] ==
        IF rounded <= value \div 2 THEN loop[2 * rounded] ELSE rounded
  IN  loop[1]

RoundDownToPowerOfTwo(value) == IF value = 0 THEN 0 ELSE Doubled(value)

\* value & (value - 1) is 0 for the powers of two, and for 0
IsPowerOfTwo(value) == \E k \in 0 .. WordBits - 1 : value = 2^k

RoundUpToPage(size) == ((size + PageSize - 1) \div PageSize) * PageSize

PayloadCapacity(slotSize) ==
  IF slotSize >= HeaderSize THEN slotSize - HeaderSize ELSE 0

\* ring_t::required_size: 0 stands for a geometry the ring refuses
BadGeometry(slotCount, slotSize) ==
  \/ ~IsPowerOfTwo(slotCount)
  \/ slotCount > LastPosition
  \/ slotSize < HeaderSize
  \/ slotSize % CacheLine # 0
  \/ slotSize - HeaderSize > PayloadMax
  \/ slotCount > (SizeMax - ControlSize) \div slotSize

\* The product without the guard on it.
RequiredNoOverflowCheck(slotCount, slotSize) ==
  IF \/ ~IsPowerOfTwo(slotCount)
     \/ slotCount > LastPosition
     \/ slotSize < HeaderSize
     \/ slotSize % CacheLine # 0
     \/ slotSize - HeaderSize > PayloadMax
  THEN 0
  ELSE (ControlSize + slotCount * slotSize) % (SizeMax + 1)

RequiredSize(slotCount, slotSize) ==
  IF BadGeometry(slotCount, slotSize) THEN 0
  ELSE (ControlSize + slotCount * slotSize) % (SizeMax + 1)

\* posix_ring_mapping_size: the required size in whole pages, 0 if refused
MappingSize(slotCount, slotSize) ==
  LET required == RequiredSize(slotCount, slotSize)
  IN  IF required = 0 \/ required > SizeMax - (PageSize - 1) THEN 0
      ELSE RoundUpToPage(required) % (SizeMax + 1)

\* How alloc_device derives the geometry of its ring from a configuration
\* [ring, slot, payload, cas]; payload is the packet pool's payload size (0
\* if there is no pool) and cas the lesser of the two CAS attempt counts.
SettingsOk(c) ==
  /\ c.payload # 0
  /\ c.slot # 0
  /\ c.ring >= c.slot
  /\ c.cas # 0
  /\ c.slot % CacheLine = 0

SlotCountFor(c) == RoundDownToPowerOfTwo(c.ring \div c.slot)

GeometryOk(c) ==
  /\ SettingsOk(c)
  /\ SlotCountFor(c) # 0
  /\ RequiredSize(SlotCountFor(c), c.slot) # 0
  /\ PayloadCapacity(c.slot) # 0

Geometry(c) ==
  [count |-> SlotCountFor(c), slot |-> c.slot,
   max |-> IF PayloadCapacity(c.slot) <= c.payload
           THEN PayloadCapacity(c.slot) ELSE c.payload]

\* The sizes validate_posix_ring_handle accepts in a handle or in what a peer
\* expects, and create's additional bound.
ValidSizes(g) ==
  /\ MappingSize(g.count, g.slot) # 0
  /\ g.max <= PayloadCapacity(g.slot)

FitsOffset(g) == MappingSize(g.count, g.slot) <= OffsetMax

\* Digits of a rank in base 36, and the length of "/lci-<rank>-<digest>".
Base36Digits(rank) ==
  LET digits[value \in Nat] ==
        IF value \div 36 = 0 THEN 1 ELSE 1 + digits[value \div 36]
  IN  digits[rank]

NameLength(rank) == 5 + Base36Digits(rank) + 1 + 16

-----------------------------------------------------------------------------
(* What the arithmetic is for. *)

\* Every geometry alloc_device accepts: the slots are the largest power of
\* two that fits the configured ring; control words and slots lie within the
\* mapping, whose size neither wrapped around nor is larger than a page more
\* than needed; and a message of the advertised size fits a slot.
GeometryRight(c) ==
  GeometryOk(c) /\ MappingSize(SlotCountFor(c), c.slot) # 0 =>
    LET g == Geometry(c)
        bytes == ControlSize + g.count * g.slot
        mapped == MappingSize(g.count, g.slot)
    IN  /\ IsPowerOfTwo(g.count)
        /\ g.count * g.slot <= c.ring
        /\ 2 * g.count * g.slot > c.ring
        /\ bytes <= mapped
        /\ mapped <= SizeMax
        /\ mapped % PageSize = 0
        /\ mapped - bytes < PageSize
        /\ g.max > 0
        /\ HeaderSize + g.max <= g.slot

\* The name of the object of every rank fits the fixed array of the handle.
NameFits(rank) == NameLength(rank) + 1 <= NameCapacity
=============================================================================
