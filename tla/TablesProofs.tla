---------------------------- MODULE TablesProofs ----------------------------
(***************************************************************************)
(* The packet pool loses no packet and duplicates none, for any number of  *)
(* threads, packets and sizes: theorem PacketsStayOnce.  In the archive of *)
(* immediate-data tags a tag stands for one context, for any number of     *)
(* tags, inserting threads and contexts: theorem ArchiveTagKeepsValue.     *)
(*                                                                         *)
(* The proof about the pool has two levels.  Lemmas about one deque say    *)
(* what its operations do to the packets between head and tail, positions  *)
(* in the circular array taken modulo its size.  The inductive invariant   *)
(* PoolIInv then speaks only of the set of packets that a deque stores:    *)
(* the heap, the deques and the threads' hands share no packet and         *)
(* together have all of them, no deque stores one twice, and the spinlocks *)
(* protect what a thief does between two of its steps.                     *)
(***************************************************************************)
EXTENDS PacketPool, FiniteSetTheorems, TLAPS

CONSTANTS TagBits, Inserters, Values

VARIABLES slots, next_slot, archive_local, tag_of

A == INSTANCE ImmTagArchive WITH local <- archive_local

\* The packet with index i of a deque.
At(s, i) == s.queue[GetPosition(s, i)]

\* A deque with an array of m cells.
DequeOf(m) ==
    [queue : [0 .. m - 1 -> Packets \cup {None}], head : Int, tail : Int]

WellFormed(s) ==
    \E m \in Nat \ {0} :
        s \in DequeOf(m) /\ s.head <= s.tail /\ s.tail - s.head < m

\* The indices of the packets in the deque of t.  While a thief has copied
\* packets and has not set head and tail they are the prefix of its array.
Slots(t) == IF local[t].n > 0 THEN 0 .. local[t].n - 1 ELSE pool[t].head .. pool[t].tail - 1

Stored(t) == {At(pool[t], i) : i \in Slots(t)}

Steps == {"idle", "got_lock", "steal", "stolen", "pop", "put"}

Locals ==
    [pc : Steps, victim : Threads \cup {None}, n : Nat, packet : Packets \cup {None}]

Typed ==
    /\ heap \subseteq Packets
    /\ DOMAIN pool = Threads /\ pool = [t \in Threads |-> pool[t]]
    /\ \A t \in Threads : WellFormed(pool[t])
    /\ lock \in [Threads -> Threads \cup {None}]
    /\ held \in [Threads -> SUBSET Packets]
    /\ home \in [Packets -> Threads \cup {None}]
    /\ local \in [Threads -> Locals]

\* What thread t relies on between its steps.
LockInv(t) ==
    /\ local[t].pc = "idle" <=> local[t] = Idle
    /\ local[t].pc # "idle" => lock[t] = t
    /\ local[t].pc = "steal" =>
        local[t].victim \in Threads \ {t} /\ lock[local[t].victim] = t
    /\ local[t].pc \in {"steal", "stolen"} => Size(pool[t]) = 0
    /\ local[t].pc = "stolen" <=> local[t].n > 0
    /\ local[t].n < QueueSize(pool[t])
    /\ local[t].pc = "put" => local[t].packet \in held[t]

\* While the constructor puts packets nobody uses the pool.
Building == heap # {} => \A t \in Threads : local[t] = Idle /\ held[t] = {}

\* No deque stores a packet twice.
Once(t) == \A i, j \in Slots(t) : At(pool[t], i) = At(pool[t], j) => i = j

\* Every packet is in one place: the heap, one deque or one thread's hands.
Apart ==
    /\ \A t \in Threads : Stored(t) \subseteq Packets
    /\ \A t \in Threads : heap \cap Stored(t) = {} /\ heap \cap held[t] = {}
    /\ \A t, u \in Threads : Stored(t) \cap held[u] = {}
    /\ \A t, u \in Threads : t # u => Stored(t) \cap Stored(u) = {} /\ held[t] \cap held[u] = {}

Covered ==
    \A p \in Packets \ heap : \E t \in Threads : p \in Stored(t) \/ p \in held[t]

PoolIInv ==
    /\ Typed /\ Building /\ Apart /\ Covered
    /\ \A t \in Threads : LockInv(t) /\ Once(t)

-----------------------------------------------------------------------------
\* Positions in a circular array.

LEMMA ModRange ==
  ASSUME NEW a \in Int, NEW n \in Nat \ {0}
  PROVE  a % n \in 0 .. n - 1
BY SMT

LEMMA ModSame ==
  ASSUME NEW n \in Nat \ {0}, NEW a \in 0 .. n - 1
  PROVE  a % n = a
BY SMT

\* Two indices less than the size of the array apart have different positions.
LEMMA ModApart ==
  ASSUME NEW n \in Nat \ {0}, NEW a \in Int, NEW b \in Int,
         a % n = b % n, a - b < n, b - a < n
  PROVE  a = b
<1> DEFINE x == a \div n
           y == b \div n
<1>1. a = n * x + (a % n) /\ x \in Int /\ a % n \in Int
  BY SMT
<1>2. b = n * y + (b % n) /\ y \in Int
  BY SMT
<1>3. a - b = n * (x - y)
  BY <1>1, <1>2, SMT
<1>4. x - y < 1 /\ y - x < 1
  BY <1>1, <1>2, <1>3, SMT
<1> QED
  BY <1>1, <1>2, <1>3, <1>4, SMT

LEMMA QueueSizeIs ==
  ASSUME NEW m \in Nat \ {0}, NEW s \in DequeOf(m)
  PROVE  QueueSize(s) = m
<1>1. DOMAIN s.queue = 0 .. m - 1
  BY DEF DequeOf
<1>2. Cardinality(0 .. m - 1) = m
  BY FS_Interval
<1> QED
  BY <1>1, <1>2 DEF QueueSize

LEMMA DequeSizes ==
  ASSUME NEW s, WellFormed(s)
  PROVE  /\ QueueSize(s) \in Nat \ {0}
         /\ s.head \in Int /\ s.tail \in Int /\ s.head <= s.tail
         /\ Size(s) = s.tail - s.head /\ Size(s) \in Nat
         /\ Size(s) < QueueSize(s)
<1>1. PICK m \in Nat \ {0} : s \in DequeOf(m) /\ s.head <= s.tail /\ s.tail - s.head < m
  BY DEF WellFormed
<1>2. QueueSize(s) = m
  BY <1>1, QueueSizeIs
<1>3. s.head \in Int /\ s.tail \in Int
  BY <1>1 DEF DequeOf
<1>4. s.tail - s.head \in Nat
  BY <1>1, <1>3
<1> QED
  BY <1>1, <1>2, <1>3, <1>4 DEF Size

LEMMA DequeCells ==
  ASSUME NEW s, WellFormed(s)
  PROVE  /\ s \in DequeOf(QueueSize(s))
         /\ s.queue \in [0 .. QueueSize(s) - 1 -> Packets \cup {None}]
         /\ \A i \in Int : GetPosition(s, i) \in 0 .. QueueSize(s) - 1
         /\ \A i \in Int : At(s, i) \in Packets \cup {None}
<1>1. PICK m \in Nat \ {0} : s \in DequeOf(m)
  BY DEF WellFormed
<1>2. QueueSize(s) = m
  BY <1>1, QueueSizeIs
<1>3. s.queue \in [0 .. m - 1 -> Packets \cup {None}]
  BY <1>1 DEF DequeOf
<1>4. \A i \in Int : GetPosition(s, i) \in 0 .. m - 1
  BY Zenon, <1>2, ModRange DEF GetPosition
<1>5. \A i \in Int : At(s, i) \in Packets \cup {None}
  BY Zenon, <1>3, <1>4 DEF At
<1> QED
  BY <1>1, <1>2, <1>3, <1>4, <1>5, Zenon

LEMMA WellFormedBy ==
  ASSUME NEW m \in Nat \ {0}, NEW s \in DequeOf(m), s.head <= s.tail, s.tail - s.head < m
  PROVE  WellFormed(s)
BY DEF WellFormed

-----------------------------------------------------------------------------
\* The operations of a deque.

\* r has the packets of s, in the same order.
SameContents(s, r) ==
    /\ Size(r) = Size(s)
    /\ \A k \in 0 .. Size(s) - 1 : At(r, r.head + k) = At(s, s.head + k)

LEMMA CopyToNewIs ==
  ASSUME NEW s, WellFormed(s), NEW m \in Nat \ {0}, NEW n \in Nat, n < m
  PROVE  /\ CopyToNew(s, Cells(m), n) \in [0 .. m - 1 -> Packets \cup {None}]
         /\ \A i \in 0 .. n - 1 : CopyToNew(s, Cells(m), n)[i] = At(s, s.head + i)
<1>0. s.head \in Int
  BY DequeSizes
<1>1. \A i \in 0 .. m - 1 : s.head + i \in Int
  BY <1>0
<1>2. \A i \in 0 .. m - 1 : At(s, s.head + i) \in Packets \cup {None}
  BY Zenon, <1>1, DequeCells
<1> QED
  BY <1>2 DEF CopyToNew, Cells, At

LEMMA ExpandIs ==
  ASSUME NEW s, WellFormed(s)
  PROVE  /\ WellFormed(Expand(s))
         /\ QueueSize(Expand(s)) = 2 * QueueSize(s)
         /\ SameContents(s, Expand(s))
<1> DEFINE m == QueueSize(s)
           n == Size(s)
           q == CopyToNew(s, Cells(2 * m), n)
           r == Expand(s)
<1>0. m \in Nat \ {0} /\ n \in Nat /\ n < m
  BY DequeSizes
<1>1. m \in Nat \ {0} /\ n \in Nat /\ n < m /\ 2 * m \in Nat \ {0} /\ n < 2 * m
  BY <1>0
<1>2. /\ q \in [0 .. 2 * m - 1 -> Packets \cup {None}]
      /\ \A i \in 0 .. n - 1 : q[i] = At(s, s.head + i)
  BY Zenon, <1>1, CopyToNewIs
<1>3. r = [queue |-> q, head |-> 0, tail |-> n]
  BY DEF Expand
<1> HIDE DEF m, n, q, r
<1>4. r \in DequeOf(2 * m) /\ r.head = 0 /\ r.tail = n
  BY <1>1, <1>2, <1>3 DEF DequeOf
<1>5. WellFormed(r)
  BY <1>1, <1>4, WellFormedBy
<1>6. QueueSize(r) = 2 * m
  BY <1>1, <1>4, QueueSizeIs
<1>7. ASSUME NEW k \in 0 .. n - 1
      PROVE  At(r, r.head + k) = At(s, s.head + k)
  <2>1. k \in 0 .. 2 * m - 1 /\ r.head + k = k
    BY <1>1, <1>4
  <2>2. GetPosition(r, r.head + k) = k
    BY <1>1, <1>6, <2>1, ModSame DEF GetPosition
  <2> QED
    BY <1>2, <1>3, <2>2 DEF At
<1>8. Size(r) = n
  BY <1>1, <1>4 DEF Size
<1> QED
  BY <1>5, <1>6, <1>7, <1>8 DEF SameContents, m, n, r

\* After room is made one more packet fits.
LEMMA RoomIs ==
  ASSUME NEW s, WellFormed(s)
  PROVE  /\ WellFormed(Room(s))
         /\ Size(Room(s)) < QueueSize(Room(s)) - 1
         /\ SameContents(s, Room(s))
<1>1. QueueSize(s) \in Nat \ {0} /\ Size(s) \in Nat /\ Size(s) < QueueSize(s)
  BY DequeSizes
<1>2. CASE Size(s) = QueueSize(s) - 1
  <2>1. Room(s) = Expand(s)
    BY <1>2 DEF Room
  <2> QED
    BY <1>1, <1>2, <2>1, ExpandIs DEF SameContents
<1>3. CASE Size(s) # QueueSize(s) - 1
  BY <1>1, <1>3 DEF Room, SameContents
<1> QED
  BY <1>2, <1>3

\* One more packet at the bottom or at the top; the others stay in place.
LEMMA PushToBotIs ==
  ASSUME NEW s, WellFormed(s), NEW p \in Packets
  PROVE  LET r == PushToBot(s, p) IN
         /\ WellFormed(r)
         /\ Size(r) = Size(s) + 1
         /\ At(r, r.head + Size(s)) = p
         /\ \A k \in 0 .. Size(s) - 1 : At(r, r.head + k) = At(s, s.head + k)
<1> DEFINE o == Room(s)
           m == QueueSize(o)
           r == PushToBot(s, p)
<1>1. WellFormed(o) /\ Size(o) < m - 1 /\ SameContents(s, o)
  BY RoomIs
<1>2. r = [o EXCEPT !.queue[GetPosition(o, o.tail)] = p, !.tail = @ + 1]
  BY DEF PushToBot
<1> HIDE DEF o, r
<1>3. /\ m \in Nat \ {0} /\ o.head \in Int /\ o.tail \in Int /\ o.head <= o.tail
      /\ Size(o) = o.tail - o.head /\ Size(o) \in Nat
  BY <1>1, DequeSizes
<1>4. /\ o \in DequeOf(m) /\ o.queue \in [0 .. m - 1 -> Packets \cup {None}]
      /\ GetPosition(o, o.tail) \in 0 .. m - 1
  BY Zenon, <1>1, <1>3, DequeCells
<1> HIDE DEF m
<1>q. [o.queue EXCEPT ![GetPosition(o, o.tail)] = p] \in [0 .. m - 1 -> Packets \cup {None}]
  BY <1>4
<1>f. /\ r.queue = [o.queue EXCEPT ![GetPosition(o, o.tail)] = p]
      /\ r.head = o.head /\ r.tail = o.tail + 1
      /\ r = [queue |-> r.queue, head |-> r.head, tail |-> r.tail]
  BY Zenon, <1>2, <1>4 DEF DequeOf
<1>5. /\ r.queue = [o.queue EXCEPT ![GetPosition(o, o.tail)] = p]
      /\ r.head = o.head /\ r.tail = o.tail + 1
      /\ r \in DequeOf(m)
  BY <1>3, <1>q, <1>f DEF DequeOf
<1>6. WellFormed(r)
  BY <1>1, <1>3, <1>5, WellFormedBy
<1>7. QueueSize(r) = m
  BY <1>3, <1>5, QueueSizeIs
<1>8. \A i \in Int : GetPosition(r, i) = GetPosition(o, i)
  BY <1>7 DEF GetPosition, m
<1>9. Size(r) = Size(s) + 1
  BY <1>1, <1>3, <1>5 DEF Size, SameContents
<1>10. r.head + Size(s) = o.tail
  BY <1>1, <1>3, <1>5 DEF SameContents
<1>11. At(r, r.head + Size(s)) = p
  BY <1>3, <1>4, <1>5, <1>8, <1>10 DEF At
<1>12. ASSUME NEW k \in 0 .. Size(s) - 1
       PROVE  At(r, r.head + k) = At(s, s.head + k)
  <2>1. o.head + k \in Int /\ k < Size(o) /\ k \in Int /\ k >= 0
    BY <1>1, <1>3 DEF SameContents
  <2>2. GetPosition(o, o.head + k) # GetPosition(o, o.tail)
    <3>1. SUFFICES ASSUME GetPosition(o, o.head + k) = GetPosition(o, o.tail)
                   PROVE  FALSE
      OBVIOUS
    <3>2. (o.head + k) % m = o.tail % m
      BY <3>1 DEF GetPosition, m
    <3>3. (o.head + k) - o.tail < m /\ o.tail - (o.head + k) < m
      BY <1>1, <1>3, <2>1
    <3>4. o.head + k = o.tail
      BY <1>3, <2>1, <3>2, <3>3, ModApart
    <3> QED
      BY <1>3, <2>1, <3>4
  <2>3. GetPosition(o, o.head + k) \in 0 .. m - 1
    BY Zenon, <1>1, <2>1, DequeCells DEF m
  <2>4. At(r, r.head + k) = At(o, o.head + k)
    BY <1>4, <1>5, <1>8, <2>1, <2>2, <2>3 DEF At
  <2> QED
    BY <1>1, <2>4 DEF SameContents
<1> QED
  BY <1>6, <1>9, <1>11, <1>12 DEF r

LEMMA PushToTopIs ==
  ASSUME NEW s, WellFormed(s), NEW p \in Packets
  PROVE  LET r == PushToTop(s, p) IN
         /\ WellFormed(r)
         /\ Size(r) = Size(s) + 1
         /\ At(r, r.head) = p
         /\ \A k \in 0 .. Size(s) - 1 : At(r, r.head + 1 + k) = At(s, s.head + k)
<1> DEFINE o == Room(s)
           m == QueueSize(o)
           r == PushToTop(s, p)
<1>1. WellFormed(o) /\ Size(o) < m - 1 /\ SameContents(s, o)
  BY RoomIs
<1>2. r = [o EXCEPT !.queue[GetPosition(o, o.head - 1)] = p, !.head = @ - 1]
  BY DEF PushToTop
<1> HIDE DEF o, r
<1>3. /\ m \in Nat \ {0} /\ o.head \in Int /\ o.tail \in Int /\ o.head <= o.tail
      /\ Size(o) = o.tail - o.head /\ Size(o) \in Nat /\ o.head - 1 \in Int
  BY <1>1, DequeSizes
<1>4. /\ o \in DequeOf(m) /\ o.queue \in [0 .. m - 1 -> Packets \cup {None}]
      /\ GetPosition(o, o.head - 1) \in 0 .. m - 1
  BY Zenon, <1>1, <1>3, DequeCells
<1> HIDE DEF m
<1>q. [o.queue EXCEPT ![GetPosition(o, o.head - 1)] = p] \in [0 .. m - 1 -> Packets \cup {None}]
  BY <1>4
<1>f. /\ r.queue = [o.queue EXCEPT ![GetPosition(o, o.head - 1)] = p]
      /\ r.head = o.head - 1 /\ r.tail = o.tail
      /\ r = [queue |-> r.queue, head |-> r.head, tail |-> r.tail]
  BY Zenon, <1>2, <1>4 DEF DequeOf
<1>5. /\ r.queue = [o.queue EXCEPT ![GetPosition(o, o.head - 1)] = p]
      /\ r.head = o.head - 1 /\ r.tail = o.tail
      /\ r \in DequeOf(m)
  BY Zenon, <1>3, <1>q, <1>f DEF DequeOf
<1>6. WellFormed(r)
  BY <1>1, <1>3, <1>5, WellFormedBy
<1>7. QueueSize(r) = m
  BY <1>3, <1>5, QueueSizeIs
<1>8. \A i \in Int : GetPosition(r, i) = GetPosition(o, i)
  BY <1>7 DEF GetPosition, m
<1>9. Size(r) = Size(s) + 1
  BY <1>1, <1>3, <1>5 DEF Size, SameContents
<1>11. At(r, r.head) = p
  BY <1>3, <1>4, <1>5, <1>8 DEF At
<1>12. ASSUME NEW k \in 0 .. Size(s) - 1
       PROVE  At(r, r.head + 1 + k) = At(s, s.head + k)
  <2>1. /\ o.head + k \in Int /\ k < Size(o) /\ k \in Int /\ k >= 0
        /\ r.head + 1 + k = o.head + k
    BY <1>1, <1>3, <1>5 DEF SameContents
  <2>2. GetPosition(o, o.head + k) # GetPosition(o, o.head - 1)
    <3>1. SUFFICES ASSUME GetPosition(o, o.head + k) = GetPosition(o, o.head - 1)
                   PROVE  FALSE
      OBVIOUS
    <3>2. (o.head + k) % m = (o.head - 1) % m
      BY <3>1 DEF GetPosition, m
    <3>3. (o.head + k) - (o.head - 1) < m /\ (o.head - 1) - (o.head + k) < m
      BY <1>1, <1>3, <2>1
    <3>4. o.head + k = o.head - 1
      BY <1>3, <2>1, <3>2, <3>3, ModApart
    <3> QED
      BY <1>3, <2>1, <3>4
  <2>3. GetPosition(o, o.head + k) \in 0 .. m - 1
    BY Zenon, <1>1, <2>1, DequeCells DEF m
  <2>4. At(r, r.head + 1 + k) = At(o, o.head + k)
    BY <1>4, <1>5, <1>8, <2>1, <2>2, <2>3 DEF At
  <2> QED
    BY <1>1, <2>4 DEF SameContents
<1> QED
  BY <1>6, <1>9, <1>11, <1>12 DEF r

-----------------------------------------------------------------------------
\* The packets a deque stores.

Contents(s) == {At(s, i) : i \in s.head .. s.tail - 1}
Distinct(s) == \A i, j \in s.head .. s.tail - 1 : At(s, i) = At(s, j) => i = j
Top(s, n) == {At(s, s.head + i) : i \in 0 .. n - 1}

\* A push, at either end, adds the packet and keeps the others.
LEMMA OneMore ==
  ASSUME NEW s, WellFormed(s), NEW r, WellFormed(r), NEW p,
         NEW c \in Int, NEW d \in Int,
         \/ c = 0 /\ d = Size(s)
         \/ c = 1 /\ d = 0,
         Size(r) = Size(s) + 1,
         At(r, r.head + d) = p,
         \A k \in 0 .. Size(s) - 1 : At(r, r.head + c + k) = At(s, s.head + k),
         Distinct(s), p \notin Contents(s)
  PROVE  Contents(r) = Contents(s) \cup {p} /\ Distinct(r)
<1>1. /\ s.head \in Int /\ s.tail \in Int /\ s.head <= s.tail
      /\ Size(s) = s.tail - s.head /\ Size(s) \in Nat
  BY DequeSizes
<1>r. r.head \in Int /\ r.tail \in Int /\ Size(r) = r.tail - r.head
  BY DequeSizes
<1>2. r.head \in Int /\ r.tail \in Int /\ r.tail = r.head + Size(s) + 1
  BY <1>1, <1>r
<1>3. ASSUME NEW i \in r.head .. r.tail - 1, i # r.head + d
      PROVE  /\ i - r.head - c \in 0 .. Size(s) - 1
             /\ i = r.head + c + (i - r.head - c)
             /\ s.head + (i - r.head - c) \in s.head .. s.tail - 1
  BY <1>1, <1>2, <1>3
<1>4. ASSUME NEW i \in r.head .. r.tail - 1, i # r.head + d
      PROVE  At(r, i) = At(s, s.head + (i - r.head - c))
  BY <1>3, <1>4
<1>5. ASSUME NEW i \in r.head .. r.tail - 1, i # r.head + d
      PROVE  At(r, i) \in Contents(s) /\ At(r, i) # p
  BY <1>3, <1>4, <1>5 DEF Contents
<1>6. Distinct(r)
  <2>1. SUFFICES ASSUME NEW i \in r.head .. r.tail - 1, NEW j \in r.head .. r.tail - 1,
                        At(r, i) = At(r, j)
                 PROVE  i = j
    BY DEF Distinct
  <2>2. CASE i # r.head + d /\ j # r.head + d
    <3>1. s.head + (i - r.head - c) = s.head + (j - r.head - c)
      BY <1>3, <1>4, <2>1, <2>2 DEF Distinct
    <3> QED
      BY <1>1, <1>2, <3>1
  <2>3. CASE i = r.head + d \/ j = r.head + d
    BY <1>5, <2>1, <2>3
  <2> QED
    BY <2>2, <2>3
<1>7. r.head + d \in r.head .. r.tail - 1
  BY <1>1, <1>2
<1>8. ASSUME NEW x \in s.head .. s.tail - 1
      PROVE  At(s, x) \in Contents(r)
  <2>1. x - s.head \in 0 .. Size(s) - 1 /\ x = s.head + (x - s.head)
    BY <1>1
  <2>2. r.head + c + (x - s.head) \in r.head .. r.tail - 1
    BY <1>1, <1>2, <2>1
  <2>3. At(r, r.head + c + (x - s.head)) = At(s, x)
    BY <2>1
  <2> QED
    BY <2>2, <2>3 DEF Contents
<1>9. Contents(r) \subseteq Contents(s) \cup {p}
  BY <1>5 DEF Contents
<1>10. Contents(s) \cup {p} \subseteq Contents(r)
  <2>1. p \in Contents(r)
    BY <1>7 DEF Contents
  <2>2. Contents(s) \subseteq Contents(r)
    BY <1>8 DEF Contents
  <2> QED
    BY <2>1, <2>2
<1> QED
  BY <1>6, <1>9, <1>10

LEMMA PushBottomContents ==
  ASSUME NEW s, WellFormed(s), NEW p \in Packets, Distinct(s), p \notin Contents(s)
  PROVE  LET r == PushToBot(s, p) IN
         WellFormed(r) /\ Contents(r) = Contents(s) \cup {p} /\ Distinct(r)
<1> DEFINE r == PushToBot(s, p)
           d == Size(s)
<1>1. /\ WellFormed(r) /\ Size(r) = Size(s) + 1 /\ At(r, r.head + d) = p
      /\ \A k \in 0 .. Size(s) - 1 : At(r, r.head + k) = At(s, s.head + k)
  BY PushToBotIs
<1>2. d \in Int /\ r.head \in Int /\ 0 \in Int
  BY <1>1, DequeSizes
<1> HIDE DEF r
<1>3. \A k \in 0 .. Size(s) - 1 : r.head + 0 + k = r.head + k
  BY <1>2
<1>4. \A k \in 0 .. Size(s) - 1 : At(r, r.head + 0 + k) = At(s, s.head + k)
  BY <1>1, <1>3
<1> QED
  BY <1>1, <1>2, <1>4, OneMore DEF r

LEMMA PushTopContents ==
  ASSUME NEW s, WellFormed(s), NEW p \in Packets, Distinct(s), p \notin Contents(s)
  PROVE  LET r == PushToTop(s, p) IN
         WellFormed(r) /\ Contents(r) = Contents(s) \cup {p} /\ Distinct(r)
<1> DEFINE r == PushToTop(s, p)
<1>1. /\ WellFormed(r) /\ Size(r) = Size(s) + 1 /\ At(r, r.head) = p
      /\ \A k \in 0 .. Size(s) - 1 : At(r, r.head + 1 + k) = At(s, s.head + k)
  BY PushToTopIs
<1>2. r.head \in Int /\ 0 \in Int /\ 1 \in Int /\ r.head + 0 = r.head
  BY <1>1, DequeSizes
<1>3. At(r, r.head + 0) = p
  BY <1>1, <1>2
<1> HIDE DEF r
<1> QED
  BY <1>1, <1>2, <1>3, OneMore DEF r

\* A deque whose head or tail moves inward keeps the packets between them.
LEMMA Shrunk ==
  ASSUME NEW s, WellFormed(s), NEW r, r \in DequeOf(QueueSize(s)), r.queue = s.queue,
         s.head <= r.head, r.head <= r.tail, r.tail <= s.tail
  PROVE  /\ WellFormed(r)
         /\ QueueSize(r) = QueueSize(s)
         /\ \A i \in Int : At(r, i) = At(s, i)
         /\ Distinct(s) => Distinct(r)
<1>1. /\ QueueSize(s) \in Nat \ {0} /\ s.head \in Int /\ s.tail \in Int
      /\ Size(s) = s.tail - s.head /\ Size(s) < QueueSize(s)
  BY DequeSizes
<1>3. r \in DequeOf(QueueSize(s)) /\ r.head \in Int /\ r.tail \in Int
  BY DEF DequeOf
<1>4. WellFormed(r)
  <2>1. r.head <= r.tail /\ r.tail - r.head < QueueSize(s)
    BY <1>1, <1>3
  <2> QED
    BY <1>1, <1>3, <2>1, WellFormedBy
<1>5. QueueSize(r) = QueueSize(s)
  BY DEF QueueSize
<1>6. \A i \in Int : At(r, i) = At(s, i)
  BY <1>5 DEF At, GetPosition
<1>7. \A i \in r.head .. r.tail - 1 : i \in s.head .. s.tail - 1 /\ i \in Int
  BY <1>1, <1>3
<1>8. Distinct(s) => Distinct(r)
  BY <1>6, <1>7 DEF Distinct
<1> QED
  BY <1>3, <1>4, <1>5, <1>6, <1>8

LEMMA DropTopContents ==
  ASSUME NEW s, WellFormed(s), Distinct(s), NEW n \in Nat, n <= Size(s)
  PROVE  LET r == [s EXCEPT !.head = @ + n] IN
         /\ WellFormed(r) /\ Distinct(r)
         /\ Top(s, n) \subseteq Contents(s)
         /\ Contents(r) = Contents(s) \ Top(s, n)
<1> DEFINE r == [s EXCEPT !.head = @ + n]
<1>1. /\ s.head \in Int /\ s.tail \in Int /\ s.head + n \in Int
      /\ s.head <= s.head + n /\ s.head + n <= s.tail /\ s.tail <= s.tail
  BY DequeSizes
<1>2. /\ r \in DequeOf(QueueSize(s)) /\ r.queue = s.queue
      /\ r.head = s.head + n /\ r.tail = s.tail
  <2>1. s \in DequeOf(QueueSize(s))
    BY DequeCells
  <2> QED
    BY <1>1, <2>1 DEF DequeOf
<1> HIDE DEF r
<1>3. /\ WellFormed(r) /\ r.head = s.head + n /\ r.tail = s.tail /\ Distinct(r)
      /\ \A i \in Int : At(r, i) = At(s, i)
  BY <1>1, <1>2, Shrunk
<1>4. \A i \in 0 .. n - 1 : s.head + i \in s.head .. s.tail - 1
  BY <1>1
<1>5. Top(s, n) \subseteq Contents(s)
  BY <1>4 DEF Top, Contents
<1>6. ASSUME NEW i \in s.head .. s.tail - 1
      PROVE  At(s, i) \in Contents(r) <=> At(s, i) \notin Top(s, n)
  <2>1. CASE i < s.head + n
    <3>1. i - s.head \in 0 .. n - 1 /\ i = s.head + (i - s.head)
      BY <1>1, <2>1
    <3>2. At(s, i) \in Top(s, n)
      BY <3>1 DEF Top
    <3>3. \A j \in r.head .. r.tail - 1 : j \in s.head .. s.tail - 1 /\ j # i /\ j \in Int
      BY <1>1, <1>3, <2>1
    <3>4. At(s, i) \notin Contents(r)
      BY <1>3, <3>3 DEF Contents, Distinct
    <3> QED
      BY <3>2, <3>4
  <2>2. CASE i >= s.head + n
    <3>1. i \in r.head .. r.tail - 1 /\ i \in Int
      BY <1>1, <1>3, <2>2
    <3>2. At(s, i) \in Contents(r)
      BY <1>3, <3>1 DEF Contents
    <3>3. \A j \in 0 .. n - 1 : s.head + j # i
      BY <1>1, <2>2
    <3>4. At(s, i) \notin Top(s, n)
      BY <1>4, <3>3 DEF Top, Distinct
    <3> QED
      BY <3>2, <3>4
  <2> QED
    BY <1>1, <2>1, <2>2
<1>7. \A i \in r.head .. r.tail - 1 : i \in s.head .. s.tail - 1 /\ i \in Int
  BY <1>1, <1>3
<1>8. Contents(r) \subseteq Contents(s)
  BY <1>3, <1>7 DEF Contents
<1>9. \A x \in Contents(s) : x \in Contents(r) <=> x \notin Top(s, n)
  BY <1>6 DEF Contents
<1> QED
  BY <1>3, <1>5, <1>8, <1>9 DEF r

LEMMA DropBottomContents ==
  ASSUME NEW s, WellFormed(s), Distinct(s), NEW n \in Nat, n <= Size(s)
  PROVE  LET r == [s EXCEPT !.tail = @ - n] IN
         /\ WellFormed(r) /\ Distinct(r) /\ QueueSize(r) = QueueSize(s)
         /\ Bottom(s, n) \subseteq Contents(s)
         /\ Contents(r) = Contents(s) \ Bottom(s, n)
<1> DEFINE r == [s EXCEPT !.tail = @ - n]
<1>1. /\ s.head \in Int /\ s.tail \in Int /\ s.tail - n \in Int
      /\ s.head <= s.tail - n /\ s.tail - n <= s.tail /\ s.head <= s.head
  BY DequeSizes
<1>2. /\ r \in DequeOf(QueueSize(s)) /\ r.queue = s.queue
      /\ r.head = s.head /\ r.tail = s.tail - n
  <2>1. s \in DequeOf(QueueSize(s))
    BY DequeCells
  <2> QED
    BY <1>1, <2>1 DEF DequeOf
<1> HIDE DEF r
<1>3. /\ WellFormed(r) /\ r.head = s.head /\ r.tail = s.tail - n /\ Distinct(r)
      /\ QueueSize(r) = QueueSize(s)
      /\ \A i \in Int : At(r, i) = At(s, i)
  BY <1>1, <1>2, Shrunk
<1>4. \A i \in 1 .. n : s.tail - i \in s.head .. s.tail - 1
  BY <1>1
<1>b. Bottom(s, n) = {At(s, s.tail - i) : i \in 1 .. n}
  BY Zenon DEF Bottom, At
<1>5. Bottom(s, n) \subseteq Contents(s)
  BY <1>4, <1>b DEF Contents
<1>6. ASSUME NEW i \in s.head .. s.tail - 1
      PROVE  At(s, i) \in Contents(r) <=> At(s, i) \notin Bottom(s, n)
  <2>1. CASE i >= s.tail - n
    <3>1. s.tail - i \in 1 .. n /\ i = s.tail - (s.tail - i)
      BY <1>1, <2>1
    <3>2. At(s, i) \in Bottom(s, n)
      BY <1>b, <3>1
    <3>3. \A j \in r.head .. r.tail - 1 : j \in s.head .. s.tail - 1 /\ j # i /\ j \in Int
      BY <1>1, <1>3, <2>1
    <3>4. At(s, i) \notin Contents(r)
      BY <1>3, <3>3 DEF Contents, Distinct
    <3> QED
      BY <3>2, <3>4
  <2>2. CASE i < s.tail - n
    <3>1. i \in r.head .. r.tail - 1 /\ i \in Int
      BY <1>1, <1>3, <2>2
    <3>2. At(s, i) \in Contents(r)
      BY <1>3, <3>1 DEF Contents
    <3>3. \A j \in 1 .. n : s.tail - j # i
      BY <1>1, <2>2
    <3>4. At(s, i) \notin Bottom(s, n)
      BY <1>4, <1>b, <3>3 DEF Distinct
    <3> QED
      BY <3>2, <3>4
  <2> QED
    BY <1>1, <2>1, <2>2
<1>7. \A i \in r.head .. r.tail - 1 : i \in s.head .. s.tail - 1 /\ i \in Int
  BY <1>1, <1>3
<1>8. Contents(r) \subseteq Contents(s)
  BY <1>3, <1>7 DEF Contents
<1>9. \A x \in Contents(s) : x \in Contents(r) <=> x \notin Bottom(s, n)
  BY <1>6 DEF Contents
<1> QED
  BY <1>3, <1>5, <1>8, <1>9 DEF r

-----------------------------------------------------------------------------
\* What the pool stores, from one state to the next.

LEMMA StoredIs ==
  ASSUME NEW t, ~ (local[t].n > 0)
  PROVE  Stored(t) = Contents(pool[t]) /\ (Once(t) <=> Distinct(pool[t]))
BY DEF Stored, Slots, Once, Contents, Distinct

LEMMA StoredIsNext ==
  ASSUME NEW t, ~ (local'[t].n > 0)
  PROVE  Stored(t)' = Contents(pool'[t]) /\ (Once(t)' <=> Distinct(pool'[t]))
<1>1. Slots(t)' = pool'[t].head .. pool'[t].tail - 1
  BY DEF Slots
<1>2. Stored(t)' = {At(pool'[t], i) : i \in Slots(t)'}
  BY DEF Stored, At, GetPosition, QueueSize
<1>3. Once(t)' <=> \A i, j \in Slots(t)' : At(pool'[t], i) = At(pool'[t], j) => i = j
  BY DEF Once, At, GetPosition, QueueSize
<1> QED
  BY <1>1, <1>2, <1>3 DEF Contents, Distinct

LEMMA StoredSame ==
  ASSUME NEW t, pool'[t] = pool[t], local'[t].n = local[t].n
  PROVE  Stored(t)' = Stored(t) /\ (Once(t) => Once(t)')
<1>1. Slots(t)' = Slots(t)
  BY DEF Slots
<1>2. \A i : At(pool[t], i)' = At(pool[t], i)
  BY DEF At, GetPosition, QueueSize
<1> QED
  BY <1>1, <1>2 DEF Stored, Once

\* A step that moves no packet.
LEMMA QuietStep ==
  ASSUME PoolIInv, heap' = heap, pool' = pool, held' = held,
         \A u \in Threads : local'[u].n = local[u].n
  PROVE  Apart' /\ Covered' /\ \A u \in Threads : Once(u)'
<1>1. \A u \in Threads : Stored(u)' = Stored(u) /\ Once(u)'
  BY StoredSame DEF PoolIInv
<1>2. Apart'
  BY <1>1 DEF PoolIInv, Apart
<1>3. Covered'
  BY <1>1 DEF PoolIInv, Covered
<1> QED
  BY <1>1, <1>2, <1>3

-----------------------------------------------------------------------------
\* One lemma per action.

LEMMA IdleFacts ==
  /\ Idle \in Locals
  /\ Idle.pc = "idle" /\ Idle.n = 0 /\ Idle.victim = None /\ Idle.packet = None
BY DEF Idle, Locals, Steps

LEMMA LocalChange ==
  ASSUME NEW k \in Locals, NEW c \in Steps,
         NEW x \in Threads \cup {None}, NEW q \in Packets \cup {None}
  PROVE  /\ [k EXCEPT !.pc = c, !.victim = x] \in Locals
         /\ [k EXCEPT !.pc = c, !.packet = q] \in Locals
BY Zenon DEF Locals

LEMMA InitInv == Init => PoolIInv
<1> SUFFICES ASSUME Init PROVE PoolIInv
  OBVIOUS
<1> USE PacketPoolConstants
<1>1. DefaultSize + 1 \in Nat \ {0}
  BY DEF PacketPoolAssumption
<1>2. EmptySet \in DequeOf(DefaultSize + 1) /\ EmptySet.head = 0 /\ EmptySet.tail = 0
  BY <1>1 DEF EmptySet, DequeOf, Cells
<1>3. WellFormed(EmptySet)
  BY <1>1, <1>2, WellFormedBy
<1>4. QueueSize(EmptySet) = DefaultSize + 1
  BY <1>1, <1>2, QueueSizeIs
<1>5. Typed
  BY <1>3, IdleFacts DEF Init, Typed, PacketPoolAssumption
<1>6. ASSUME NEW t \in Threads
      PROVE  local[t] = Idle /\ pool[t] = EmptySet /\ held[t] = {} /\ Slots(t) = {}
  BY <1>2, IdleFacts DEF Init, Slots
<1>7. ASSUME NEW t \in Threads
      PROVE  LockInv(t) /\ Once(t)
  <2>1. local[t].n < QueueSize(pool[t])
    BY <1>1, <1>4, <1>6, IdleFacts
  <2>2. LockInv(t)
    BY <1>6, <2>1, IdleFacts DEF LockInv
  <2> QED
    BY <1>6, <2>2 DEF Once
<1>8. \A t \in Threads : Stored(t) = {}
  BY <1>6 DEF Stored
<1>9. Apart
  BY <1>6, <1>8 DEF Apart
<1>10. Covered
  BY DEF Init, Covered
<1>11. Building
  BY <1>6 DEF Building
<1> QED
  BY <1>5, <1>7, <1>9, <1>10, <1>11 DEF PoolIInv

LEMMA GetInv ==
  ASSUME PoolIInv, NEW t \in Threads, Get(t)
  PROVE  PoolIInv'
<1>0. None \notin Threads
  BY PacketPoolConstants DEF PacketPoolAssumption
<1>1. Typed /\ local[t] = Idle /\ heap = {} /\ heap' = heap /\ pool' = pool
      /\ held' = held /\ home' = home
  BY DEF PoolIInv, Get
<1>2. CASE lock[t] # None
  <2>1. lock' = lock /\ local' = local
    BY <1>2 DEF Get
  <2>2. Typed' /\ Building'
    BY <1>1, <2>1 DEF PoolIInv, Typed, Building
  <2>3. \A u \in Threads : LockInv(u)'
    BY <1>1, <2>1 DEF PoolIInv, LockInv
  <2> QED
    BY <1>1, <2>1, <2>2, <2>3, QuietStep DEF PoolIInv
<1>3. CASE lock[t] = None
  <2>1. lock' = [lock EXCEPT ![t] = t] /\ local' = [local EXCEPT ![t].pc = "got_lock"]
    BY <1>3 DEF Get, Step
  <2>2. Typed'
    BY <1>1, <2>1 DEF Typed, Locals, Steps
  <2>3. \A u \in Threads : local'[u].n = local[u].n
    BY <1>1, <2>1 DEF Typed, Locals
  <2>4. ASSUME NEW u \in Threads
        PROVE  LockInv(u)'
    <3>1. LockInv(u) /\ LockInv(t)
      BY DEF PoolIInv
    <3>2. CASE u = t
      <4>1. /\ local'[t].pc = "got_lock" /\ local'[t].n = 0 /\ lock'[t] = t
            /\ local[t].n = 0
        BY <1>1, <2>1, IdleFacts DEF Typed, Locals
      <4>2. local'[t] # Idle
        BY <4>1, IdleFacts
      <4> QED
        BY Zenon, <1>1, <3>1, <3>2, <4>1, <4>2 DEF LockInv
    <3>3. CASE u # t
      <4>1. local'[u] = local[u] /\ lock'[u] = lock[u]
        BY <1>1, <2>1, <3>3 DEF Typed
      <4>2. local[u].pc = "steal" => lock'[local[u].victim] = lock[local[u].victim]
        BY <1>0, <1>1, <1>3, <2>1, <3>1 DEF Typed, LockInv
      <4> QED
        BY Zenon, <1>1, <3>1, <4>1, <4>2 DEF LockInv
    <3> QED
      BY <3>2, <3>3
  <2> QED
    BY Zenon, <1>1, <2>2, <2>3, <2>4, QuietStep DEF PoolIInv, Building
<1> QED
  BY <1>2, <1>3

\* A thread that is not idle has seen the whole pool.
LEMMA HeapEmpty ==
  ASSUME PoolIInv, NEW t \in Threads, local[t].pc # "idle" \/ held[t] # {}
  PROVE  heap = {}
BY IdleFacts DEF PoolIInv, Building

LEMMA StealTryInv ==
  ASSUME PoolIInv, NEW t \in Threads, NEW v \in Threads, StealTry(t, v)
  PROVE  PoolIInv'
<1>0. None \notin Threads
  BY PacketPoolConstants DEF PacketPoolAssumption
<1>1. /\ Typed /\ local[t].pc = "got_lock" /\ Size(pool[t]) = 0 /\ v # t /\ lock[v] = None
      /\ heap' = heap /\ pool' = pool /\ held' = held /\ home' = home
      /\ lock' = [lock EXCEPT ![v] = t]
      /\ local' = [local EXCEPT ![t].pc = "steal", ![t].victim = v]
  BY DEF PoolIInv, StealTry
<1>2. heap = {}
  BY <1>1, HeapEmpty
<1>l. local' \in [Threads -> Locals]
  <2>1. local \in [Threads -> Locals] /\ local[t] \in Locals
    BY <1>1 DEF Typed
  <2>2. local' = [local EXCEPT ![t] = [local[t] EXCEPT !.pc = "steal", !.victim = v]]
    BY Zenon, <1>1, <2>1
  <2>3. [local[t] EXCEPT !.pc = "steal", !.victim = v] \in Locals
    BY Zenon, <2>1, LocalChange DEF Steps
  <2> QED
    BY <2>1, <2>2, <2>3
<1>3. Typed'
  BY <1>1, <1>l DEF Typed
<1>4. /\ local'[t].pc = "steal" /\ local'[t].victim = v /\ local'[t].n = local[t].n
      /\ \A u \in Threads \ {t} : local'[u] = local[u]
      /\ lock'[v] = t /\ \A u \in Threads \ {v} : lock'[u] = lock[u]
  BY <1>1 DEF Typed, Locals
<1>5. ASSUME NEW u \in Threads
      PROVE  LockInv(u)'
  <2>1. LockInv(u) /\ LockInv(t)
    BY DEF PoolIInv
  <2>2. CASE u = t
    <3>1. lock'[t] = t
      BY <1>1, <1>4, <2>1 DEF LockInv
    <3>2. local'[t] # Idle
      BY <1>4, IdleFacts
    <3> QED
      BY <1>1, <1>4, <2>1, <2>2, <3>1, <3>2 DEF LockInv
  <2>3. CASE u # t
    <3>1. local[u].pc = "steal" => local[u].victim # v
      BY <1>0, <1>1, <2>1 DEF LockInv
    <3>2. local[u].pc # "idle" => u # v
      BY <1>0, <1>1, <2>1 DEF LockInv
    <3>3. local'[u] = local[u] /\ (local[u].pc # "idle" => lock'[u] = lock[u])
      BY <1>4, <2>3, <3>2
    <3>4. local[u].pc = "steal" => lock'[local[u].victim] = lock[local[u].victim]
      BY Zenon, <1>4, <2>1, <3>1 DEF LockInv
    <3> QED
      BY Zenon, <1>1, <2>1, <3>3, <3>4 DEF LockInv
  <2> QED
    BY <2>2, <2>3
<1>6. \A u \in Threads : local'[u].n = local[u].n
  BY <1>4
<1> QED
  BY Zenon, <1>1, <1>2, <1>3, <1>5, <1>6, QuietStep DEF PoolIInv, Building

LEMMA StealNothingInv ==
  ASSUME PoolIInv, NEW t \in Threads, StealNothing(t)
  PROVE  PoolIInv'
<1>1. /\ Typed /\ local[t].pc = "got_lock"
      /\ heap' = heap /\ pool' = pool /\ held' = held /\ home' = home /\ lock' = lock
      /\ local' = [local EXCEPT ![t].pc = "pop"]
  BY DEF PoolIInv, StealNothing, Step
<1>2. heap = {}
  BY <1>1, HeapEmpty
<1>l. local' \in [Threads -> Locals]
  BY SMTT(20), <1>1 DEF Typed, Locals, Steps
<1>3. Typed'
  BY <1>1, <1>l DEF Typed
<1>4. /\ local'[t].pc = "pop" /\ local'[t].n = local[t].n
      /\ \A u \in Threads \ {t} : local'[u] = local[u]
  BY <1>1 DEF Typed, Locals
<1>5. local'[t] # Idle
  BY <1>4, IdleFacts
<1>6. \A u \in Threads : LockInv(u)'
  BY <1>1, <1>4, <1>5 DEF PoolIInv, LockInv
<1>7. \A u \in Threads : local'[u].n = local[u].n
  BY <1>4
<1> QED
  BY <1>1, <1>2, <1>3, <1>6, <1>7, QuietStep DEF PoolIInv, Building

LEMMA PutInv ==
  ASSUME PoolIInv, NEW t \in Threads, NEW p \in Packets, Put(t, p)
  PROVE  PoolIInv'
<1>0. None \notin Threads
  BY PacketPoolConstants DEF PacketPoolAssumption
<1>1. /\ Typed /\ local[t] = Idle /\ p \in held[t] /\ lock[t] = None
      /\ heap' = heap /\ pool' = pool /\ held' = held /\ home' = home
      /\ lock' = [lock EXCEPT ![t] = t]
      /\ local' = [local EXCEPT ![t].pc = "put", ![t].packet = p]
  BY DEF PoolIInv, Put
<1>2. heap = {}
  BY <1>1, HeapEmpty
<1>l. local' \in [Threads -> Locals]
  <2>1. local \in [Threads -> Locals] /\ local[t] \in Locals
    BY <1>1 DEF Typed
  <2>2. local' = [local EXCEPT ![t] = [local[t] EXCEPT !.pc = "put", !.packet = p]]
    BY Zenon, <1>1, <2>1
  <2>3. [local[t] EXCEPT !.pc = "put", !.packet = p] \in Locals
    BY Zenon, <2>1, LocalChange DEF Steps
  <2> QED
    BY <2>1, <2>2, <2>3
<1>3. Typed'
  BY <1>1, <1>l DEF Typed
<1>4. /\ local'[t].pc = "put" /\ local'[t].packet = p /\ local'[t].n = local[t].n
      /\ \A u \in Threads \ {t} : local'[u] = local[u]
      /\ lock'[t] = t /\ \A u \in Threads \ {t} : lock'[u] = lock[u]
  BY <1>1 DEF Typed, Locals
<1>5. ASSUME NEW u \in Threads
      PROVE  LockInv(u)'
  <2>1. LockInv(u) /\ LockInv(t)
    BY DEF PoolIInv
  <2>2. CASE u = t
    <3>1. local'[t] # Idle /\ local[t].n = 0
      BY Zenon, <1>1, <1>4, IdleFacts
    <3> QED
      BY <1>1, <1>4, <2>1, <2>2, <3>1 DEF LockInv
  <2>3. CASE u # t
    <3>1. local[u].pc = "steal" => local[u].victim # t
      BY <1>0, <1>1, <2>1 DEF LockInv
    <3>2. /\ local'[u] = local[u] /\ lock'[u] = lock[u]
          /\ pool' = pool /\ held' = held
          /\ local[u].pc = "steal" => lock'[local[u].victim] = lock[local[u].victim]
      BY Zenon, <1>1, <1>4, <2>1, <2>3, <3>1 DEF LockInv
    <3> QED
      BY Zenon, <3>2, <2>1 DEF LockInv
  <2> QED
    BY <2>2, <2>3
<1>6. \A u \in Threads : local'[u].n = local[u].n
  BY <1>4
<1> QED
  BY Zenon, <1>1, <1>2, <1>3, <1>5, <1>6, QuietStep DEF PoolIInv, Building

LEMMA SetHomeInv ==
  ASSUME PoolIInv, NEW t \in Threads, NEW p \in Packets, SetHome(t, p)
  PROVE  PoolIInv'
<1>1. /\ Typed /\ heap' = heap /\ pool' = pool /\ held' = held /\ lock' = lock
      /\ local' = local /\ home' = [home EXCEPT ![p] = t]
  BY DEF PoolIInv, SetHome
<1>2. Typed' /\ Building'
  BY <1>1 DEF PoolIInv, Typed, Building
<1>3. \A u \in Threads : LockInv(u)'
  BY <1>1 DEF PoolIInv, LockInv
<1> QED
  BY <1>1, <1>2, <1>3, QuietStep DEF PoolIInv

LEMMA HandOverInv ==
  ASSUME PoolIInv, NEW t \in Threads, NEW u \in Threads, NEW p \in Packets, HandOver(t, u, p)
  PROVE  PoolIInv'
<1>1. /\ Typed /\ local[t] = Idle /\ p \in held[t] /\ t # u
      /\ heap' = heap /\ pool' = pool /\ lock' = lock /\ home' = home /\ local' = local
      /\ held' = [held EXCEPT ![t] = @ \ {p}, ![u] = @ \cup {p}]
  BY DEF PoolIInv, HandOver
<1>2. heap = {}
  BY <1>1, HeapEmpty
<1>3. /\ held'[t] = held[t] \ {p} /\ held'[u] = held[u] \cup {p}
      /\ \A w \in Threads \ {t, u} : held'[w] = held[w]
      /\ held' \in [Threads -> SUBSET Packets]
  BY <1>1 DEF Typed
<1>4. Typed'
  BY <1>1, <1>3 DEF Typed
<1>5. ASSUME NEW w \in Threads
      PROVE  LockInv(w)'
  <2>1. LockInv(w)
    BY DEF PoolIInv
  <2>2. local[w].pc = "put" => w # t
    BY <1>1, IdleFacts
  <2>3. w # t => held[w] \subseteq held'[w]
    BY <1>3
  <2> QED
    BY Zenon, <1>1, <2>1, <2>2, <2>3 DEF LockInv
<1>6. \A w \in Threads : Stored(w)' = Stored(w) /\ Once(w)'
  BY Zenon, <1>1, StoredSame DEF PoolIInv
<1>7. Apart /\ Covered
  BY DEF PoolIInv
<1>8. Apart'
  <2>1. \A w \in Threads : Stored(w)' \cap held'[t] = {} /\ Stored(w)' \cap held'[u] = {}
    BY <1>1, <1>3, <1>6, <1>7 DEF Apart
  <2>2. \A w, x \in Threads : Stored(w)' \cap held'[x] = {}
    BY <1>3, <1>6, <1>7, <2>1 DEF Apart
  <2>3. held'[t] \cap held'[u] = {}
    BY <1>1, <1>3, <1>7 DEF Apart
  <2>4. \A w \in Threads \ {t, u} : held'[w] \cap held'[u] = {} /\ held'[w] \cap held'[t] = {}
    BY <1>1, <1>3, <1>7 DEF Apart
  <2>5. \A w, x \in Threads : w # x => held'[w] \cap held'[x] = {}
    BY <1>1, <1>3, <1>7, <2>3, <2>4 DEF Apart
  <2> QED
    BY ZenonT(20), <1>1, <1>2, <1>6, <1>7, <2>2, <2>5 DEF Apart
<1>9. Covered'
  <2>1. SUFFICES ASSUME NEW q \in Packets
                 PROVE  \E w \in Threads : q \in Stored(w)' \/ q \in held'[w]
    BY DEF Covered
  <2>2. PICK w \in Threads : q \in Stored(w) \/ q \in held[w]
    BY <1>2, <1>7 DEF Covered
  <2>3. q \in Stored(w)' \/ q \in held'[w] \/ q \in held'[u]
    BY <1>3, <1>6, <2>2
  <2> QED
    BY <2>3
<1> QED
  BY <1>1, <1>2, <1>4, <1>5, <1>6, <1>8, <1>9 DEF PoolIInv, Building

\* The deques other than that of t stay, and the packets X move between the
\* deque of t and the hands of t or the heap.
LEMMA MoveStep ==
  ASSUME PoolIInv, NEW t \in Threads,
         \A u \in Threads \ {t} : Stored(u)' = Stored(u) /\ held'[u] = held[u],
         Stored(t)' \cup held'[t] \cup heap' = Stored(t) \cup held[t] \cup heap,
         Stored(t)' \cap held'[t] = {},
         heap' \cap (Stored(t)' \cup held'[t]) = {},
         heap' \subseteq heap
  PROVE  Apart' /\ Covered'
<1>1. Apart /\ Covered /\ Typed
  BY DEF PoolIInv
<1> DEFINE all == Stored(t) \cup held[t] \cup heap
<1>2. ASSUME NEW u \in Threads \ {t}
      PROVE  Stored(u) \cap all = {} /\ held[u] \cap all = {}
  BY <1>1 DEF Apart
<1>3. all \subseteq Packets
  BY <1>1 DEF Apart, Typed
<1> HIDE DEF all
<1>4. Stored(t)' \subseteq all /\ held'[t] \subseteq all /\ heap' \subseteq all
  BY DEF all
<1>5. Apart'
  <2>1. \A w \in Threads : Stored(w)' \subseteq Packets
    BY <1>1, <1>3, <1>4 DEF Apart
  <2>2. \A w \in Threads : heap' \cap Stored(w)' = {} /\ heap' \cap held'[w] = {}
    BY <1>2, <1>4
  <2>3. \A w, x \in Threads : Stored(w)' \cap held'[x] = {}
    BY SMTT(20), <1>1, <1>2, <1>4 DEF Apart
  <2>4. \A w, x \in Threads : w # x => Stored(w)' \cap Stored(x)' = {} /\ held'[w] \cap held'[x] = {}
    BY <1>1, <1>2, <1>4 DEF Apart
  <2> QED
    BY <2>1, <2>2, <2>3, <2>4 DEF Apart
<1>6. Covered'
  <2>1. SUFFICES ASSUME NEW q \in Packets, q \notin heap'
                 PROVE  \E w \in Threads : q \in Stored(w)' \/ q \in held'[w]
    BY DEF Covered
  <2>2. CASE q \in heap
    BY <2>1, <2>2
  <2>3. CASE q \notin heap
    <3>1. PICK w \in Threads : q \in Stored(w) \/ q \in held[w]
      BY <1>1, <2>3 DEF Covered
    <3>2. CASE w = t
      BY <2>1, <3>1, <3>2
    <3>3. CASE w # t
      BY <3>1, <3>3
    <3> QED
      BY <3>2, <3>3
  <2> QED
    BY <2>2, <2>3
<1> QED
  BY <1>5, <1>6

LEMMA CreateInv ==
  ASSUME PoolIInv, NEW p \in Packets, Create(p)
  PROVE  PoolIInv'
<1> DEFINE t == Creator
<1>0. t \in Threads
  BY PacketPoolConstants DEF PacketPoolAssumption
<1> HIDE DEF t
<1>1. /\ Typed /\ p \in heap /\ heap' = heap \ {p} /\ lock' = lock /\ held' = held
      /\ home' = home /\ local' = local
      /\ pool' = [pool EXCEPT ![t] = PushToBot(@, p)]
  BY DEF PoolIInv, Create, t
<1>2. \A u \in Threads : local[u] = Idle /\ held[u] = {}
  BY Zenon, <1>1 DEF PoolIInv, Building
<1>3. /\ pool'[t] = PushToBot(pool[t], p) /\ \A u \in Threads \ {t} : pool'[u] = pool[u]
      /\ DOMAIN pool' = Threads /\ pool' = [u \in Threads |-> pool'[u]]
      /\ WellFormed(pool[t])
  BY <1>0, <1>1 DEF Typed
<1>4. Stored(t) = Contents(pool[t]) /\ Distinct(pool[t])
  <2>1. ~ (0 > 0) OBVIOUS
  <2>2. ~ (local[t].n > 0) BY Zenon, <1>0, <1>2, <2>1, IdleFacts
  <2>3. Once(t) BY Zenon, <1>0 DEF PoolIInv
  <2> QED BY Zenon, <2>2, <2>3, StoredIs
<1>5. p \notin Contents(pool[t])
  BY <1>0, <1>1, <1>4 DEF PoolIInv, Apart
<1>6. /\ WellFormed(pool'[t]) /\ Contents(pool'[t]) = Contents(pool[t]) \cup {p}
      /\ Distinct(pool'[t])
  BY <1>3, <1>4, <1>5, PushBottomContents
<1>7. Stored(t)' = Stored(t) \cup {p} /\ Once(t)'
  <2>1. local'[t].n = 0
    BY <1>0, <1>1, <1>2, IdleFacts
  <2> QED
    BY SMTT(20), <1>4, <1>6, <2>1, StoredIsNext
<1>8. \A u \in Threads \ {t} : Stored(u)' = Stored(u) /\ Once(u)'
  BY <1>1, <1>3, StoredSame DEF PoolIInv
<1>9. Typed'
  BY <1>1, <1>3, <1>6 DEF Typed
<1>10. ASSUME NEW u \in Threads
       PROVE  LockInv(u)'
  <2>1. WellFormed(pool'[u])
    BY <1>9 DEF Typed
  <2>2. QueueSize(pool'[u]) \in Nat \ {0}
    BY <2>1, DequeSizes
  <2>3. local'[u] = Idle /\ local'[u].n < QueueSize(pool'[u])
    BY <1>1, <1>2, <2>2, IdleFacts
  <2>4. QueueSize(pool[u])' = QueueSize(pool'[u])
    BY DEF QueueSize
  <2> QED
    BY SMTT(20), <2>3, <2>4, IdleFacts DEF LockInv
<1>11. Apart' /\ Covered'
  <2>1. Stored(t)' \cap held'[t] = {} /\ heap' \cap (Stored(t)' \cup held'[t]) = {}
    BY Zenon, <1>0, <1>1, <1>2, <1>7 DEF PoolIInv, Apart
  <2>2. Stored(t)' \cup held'[t] \cup heap' = Stored(t) \cup held[t] \cup heap
    BY <1>1, <1>7
  <2>3. \A u \in Threads \ {t} : Stored(u)' = Stored(u) /\ held'[u] = held[u]
    BY <1>1, <1>8
  <2>4. heap' \subseteq heap
    BY <1>1
  <2> QED
    BY <1>0, <2>1, <2>2, <2>3, <2>4, MoveStep
<1>12. Building'
  BY <1>1, <1>2 DEF Building
<1> QED
  BY <1>7, <1>8, <1>9, <1>10, <1>11, <1>12 DEF PoolIInv

\* A thread that has its own lock and touches nothing of the others.
LEMMA LockOthers ==
  ASSUME PoolIInv, NEW t \in Threads, local[t].pc # "idle",
         \A u \in Threads \ {t} :
            /\ local'[u] = local[u] /\ pool'[u] = pool[u]
            /\ held'[u] = held[u] /\ lock'[u] = lock[u]
  PROVE  \A u \in Threads \ {t} : LockInv(u)'
<1> SUFFICES ASSUME NEW u \in Threads \ {t} PROVE LockInv(u)'
  BY Zenon
<1>1. LockInv(u) /\ LockInv(t)
  BY Zenon DEF PoolIInv
<1>2. local[u].pc = "steal" => local[u].victim \in Threads \ {t}
  BY <1>1 DEF LockInv
<1>3. /\ local'[u] = local[u] /\ pool'[u] = pool[u] /\ held'[u] = held[u] /\ lock'[u] = lock[u]
      /\ local[u].pc = "steal" => lock'[local[u].victim] = lock[local[u].victim]
  BY Zenon, <1>2
<1>4. Size(pool[u])' = Size(pool[u]) /\ QueueSize(pool[u])' = QueueSize(pool[u])
  BY Zenon, <1>3 DEF Size, QueueSize
<1> QED
  BY Zenon, <1>1, <1>3, <1>4 DEF LockInv

\* A thread that has become idle.
LEMMA LockIdle ==
  ASSUME NEW t \in Threads, Typed', local'[t] = Idle
  PROVE  LockInv(t)'
<1>1. WellFormed(pool'[t])
  BY DEF Typed
<1>2. QueueSize(pool'[t]) \in Nat \ {0}
  BY <1>1, DequeSizes
<1>3. local'[t].n < QueueSize(pool'[t])
  BY <1>2, IdleFacts
<1>4. QueueSize(pool[t])' = QueueSize(pool'[t])
  BY DEF QueueSize
<1> QED
  BY SMTT(20), <1>3, <1>4, IdleFacts DEF LockInv

LEMMA PushInv ==
  ASSUME PoolIInv, NEW t \in Threads, Push(t)
  PROVE  PoolIInv'
<1>p. PICK p : p = local[t].packet
  OBVIOUS
<1>1. /\ Typed /\ local[t].pc = "put" /\ heap' = heap /\ home' = home
      /\ pool' = [pool EXCEPT ![t] = IF home[p] = None THEN PushToBot(@, p) ELSE PushToTop(@, p)]
      /\ held' = [held EXCEPT ![t] = @ \ {p}]
      /\ lock' = [lock EXCEPT ![t] = None]
      /\ local' = [local EXCEPT ![t] = Idle]
  BY Zenon, <1>p DEF PoolIInv, Push
<1>2. LockInv(t) /\ Once(t) /\ Apart
  BY DEF PoolIInv
<1>3. p \in held[t] /\ p \in Packets /\ ~ (local[t].n > 0)
  BY <1>1, <1>2, <1>p DEF LockInv, Typed
<1>4. heap = {}
  BY <1>1, HeapEmpty
<1>5. /\ pool'[t] = IF home[p] = None THEN PushToBot(pool[t], p) ELSE PushToTop(pool[t], p)
      /\ \A u \in Threads \ {t} : pool'[u] = pool[u]
      /\ DOMAIN pool' = Threads /\ pool' = [u \in Threads |-> pool'[u]]
      /\ WellFormed(pool[t])
  BY <1>1 DEF Typed
<1>6. Stored(t) = Contents(pool[t]) /\ Distinct(pool[t])
  BY <1>2, <1>3, StoredIs
<1>7. p \notin Contents(pool[t])
  BY Zenon, <1>2, <1>3, <1>6 DEF Apart
<1>8. /\ WellFormed(pool'[t]) /\ Contents(pool'[t]) = Contents(pool[t]) \cup {p}
      /\ Distinct(pool'[t])
  <2>1. CASE home[p] = None
    BY <1>3, <1>5, <1>6, <1>7, <2>1, PushBottomContents
  <2>2. CASE home[p] # None
    BY <1>3, <1>5, <1>6, <1>7, <2>2, PushTopContents
  <2> QED
    BY <2>1, <2>2
<1>9. /\ local'[t] = Idle /\ held'[t] = held[t] \ {p}
      /\ \A u \in Threads \ {t} :
            local'[u] = local[u] /\ held'[u] = held[u] /\ lock'[u] = lock[u]
  BY <1>1 DEF Typed
<1>10. Stored(t)' = Stored(t) \cup {p} /\ Once(t)'
  <2>1. ~ (local'[t].n > 0)
    BY <1>9, IdleFacts
  <2> QED
    BY <1>6, <1>8, <2>1, StoredIsNext
<1>11. \A u \in Threads \ {t} : Stored(u)' = Stored(u) /\ Once(u)'
  BY <1>5, <1>9, StoredSame DEF PoolIInv
<1>12. Typed'
  <2>1. /\ local' \in [Threads -> Locals] /\ held' \in [Threads -> SUBSET Packets]
        /\ lock' \in [Threads -> Threads \cup {None}]
    BY <1>1, IdleFacts DEF Typed
  <2> QED
    BY <1>1, <1>5, <1>8, <2>1 DEF Typed
<1>13. \A u \in Threads : LockInv(u)'
  <2>1. local[t].pc # "idle"
    BY <1>1
  <2>2. \A u \in Threads \ {t} : LockInv(u)'
    BY <1>5, <1>9, <2>1, LockOthers
  <2>3. LockInv(t)'
    BY Zenon, <1>9, <1>12, LockIdle
  <2> QED
    BY <2>2, <2>3
<1>14. Apart' /\ Covered'
  <2>1. Stored(t)' \cap held'[t] = {} /\ heap' \cap (Stored(t)' \cup held'[t]) = {}
    BY <1>1, <1>2, <1>4, <1>9, <1>10 DEF Apart
  <2>2. Stored(t)' \cup held'[t] \cup heap' = Stored(t) \cup held[t] \cup heap
    BY <1>1, <1>3, <1>9, <1>10
  <2>3. \A u \in Threads \ {t} : Stored(u)' = Stored(u) /\ held'[u] = held[u]
    BY Zenon, <1>9, <1>11
  <2>4. heap' \subseteq heap
    BY <1>1
  <2> QED
    BY <2>1, <2>2, <2>3, <2>4, MoveStep
<1> QED
  BY Zenon, <1>1, <1>4, <1>10, <1>11, <1>12, <1>13, <1>14 DEF PoolIInv, Building

LEMMA PopInv ==
  ASSUME PoolIInv, NEW t \in Threads, NEW n \in 0 .. MaxBatch, Pop(t, n)
  PROVE  PoolIInv'
<1>p. PICK popped : popped = Bottom(pool[t], n)
  OBVIOUS
<1>1. /\ Typed /\ local[t].pc \in {"pop", "got_lock"} /\ n <= Size(pool[t]) /\ heap' = heap
      /\ pool' = [pool EXCEPT ![t].tail = @ - n]
      /\ held' = [held EXCEPT ![t] = @ \cup popped]
      /\ home' = [p \in Packets |-> IF p \in popped THEN None ELSE home[p]]
      /\ lock' = [lock EXCEPT ![t] = None]
      /\ local' = [local EXCEPT ![t] = Idle]
  BY <1>p DEF PoolIInv, Pop
<1>n. n \in Nat
  BY PacketPoolConstants DEF PacketPoolAssumption
<1>2. LockInv(t) /\ Once(t) /\ Apart
  BY DEF PoolIInv
<1>3. ~ (local[t].n > 0) /\ local[t].pc # "idle"
  BY <1>1, <1>2 DEF LockInv
<1>4. heap = {}
  BY <1>3, HeapEmpty
<1>5. /\ pool'[t] = [pool[t] EXCEPT !.tail = @ - n]
      /\ \A u \in Threads \ {t} : pool'[u] = pool[u]
      /\ DOMAIN pool' = Threads /\ pool' = [u \in Threads |-> pool'[u]]
      /\ WellFormed(pool[t])
  BY <1>1 DEF Typed
<1>6. Stored(t) = Contents(pool[t]) /\ Distinct(pool[t])
  BY <1>2, <1>3, StoredIs
<1>8. /\ WellFormed(pool'[t]) /\ Distinct(pool'[t])
      /\ popped \subseteq Contents(pool[t])
      /\ Contents(pool'[t]) = Contents(pool[t]) \ popped
  BY <1>1, <1>n, <1>p, <1>5, <1>6, DropBottomContents
<1>9. /\ local'[t] = Idle /\ held'[t] = held[t] \cup popped
      /\ \A u \in Threads \ {t} :
            local'[u] = local[u] /\ held'[u] = held[u] /\ lock'[u] = lock[u]
  BY <1>1 DEF Typed
<1>10. Stored(t)' = Stored(t) \ popped /\ Once(t)'
  <2>0. local'[t].n = 0
    BY Zenon, <1>9, IdleFacts
  <2>1. ~ (local'[t].n > 0)
    BY <2>0
  <2> QED
    BY <1>6, <1>8, <2>1, StoredIsNext
<1>11. \A u \in Threads \ {t} : Stored(u)' = Stored(u) /\ Once(u)'
  BY <1>5, <1>9, StoredSame DEF PoolIInv
<1>12. Typed'
  <2>0. popped \subseteq Packets
    BY Zenon, <1>2, <1>6, <1>8 DEF Apart
  <2>1. /\ local' \in [Threads -> Locals] /\ held' \in [Threads -> SUBSET Packets]
        /\ lock' \in [Threads -> Threads \cup {None}]
        /\ home' \in [Packets -> Threads \cup {None}]
    BY <1>1, <2>0, IdleFacts DEF Typed
  <2> QED
    BY <1>1, <1>5, <1>8, <2>1 DEF Typed
<1>13. \A u \in Threads : LockInv(u)'
  <2>2. \A u \in Threads \ {t} : LockInv(u)'
    BY <1>3, <1>5, <1>9, LockOthers
  <2>3. LockInv(t)'
    BY <1>9, <1>12, LockIdle
  <2> QED
    BY <2>2, <2>3
<1>14. Apart' /\ Covered'
  <2>1. Stored(t)' \cap held'[t] = {} /\ heap' \cap (Stored(t)' \cup held'[t]) = {}
    BY <1>1, <1>2, <1>4, <1>9, <1>10 DEF Apart
  <2>2. Stored(t)' \cup held'[t] \cup heap' = Stored(t) \cup held[t] \cup heap
    BY <1>1, <1>6, <1>8, <1>9, <1>10
  <2>3. \A u \in Threads \ {t} : Stored(u)' = Stored(u) /\ held'[u] = held[u]
    BY <1>9, <1>11
  <2>4. heap' \subseteq heap
    BY <1>1
  <2> QED
    BY Zenon, <2>1, <2>2, <2>3, <2>4, MoveStep
<1> QED
  BY <1>1, <1>4, <1>10, <1>11, <1>12, <1>13, <1>14 DEF PoolIInv, Building

LEMMA StealSetInv ==
  ASSUME PoolIInv, NEW t \in Threads, StealSet(t)
  PROVE  PoolIInv'
<1>n. PICK n : n = local[t].n
  OBVIOUS
<1>1. /\ Typed /\ local[t].pc = "stolen" /\ heap' = heap /\ lock' = lock /\ held' = held
      /\ home' = home
      /\ pool' = [pool EXCEPT ![t].head = 0, ![t].tail = n]
      /\ local' = [local EXCEPT ![t].pc = "pop", ![t].n = 0]
  BY <1>n DEF PoolIInv, StealSet
<1>2. LockInv(t) /\ Once(t)
  BY DEF PoolIInv
<1>3. /\ n \in Nat /\ n > 0 /\ n < QueueSize(pool[t]) /\ local[t].pc # "idle"
      /\ WellFormed(pool[t]) /\ local[t] \in Locals
  BY <1>1, <1>2, <1>n DEF LockInv, Typed, Locals
<1>4. heap = {}
  BY <1>3, HeapEmpty
<1>5. QueueSize(pool[t]) \in Nat \ {0} /\ pool[t] \in DequeOf(QueueSize(pool[t]))
  BY Zenon, <1>3, DequeSizes, DequeCells
<1>6. /\ pool'[t] = [pool[t] EXCEPT !.head = 0, !.tail = n]
      /\ \A u \in Threads \ {t} : pool'[u] = pool[u]
      /\ DOMAIN pool' = Threads /\ pool' = [u \in Threads |-> pool'[u]]
  BY <1>1 DEF Typed
<1>7. /\ pool'[t] \in DequeOf(QueueSize(pool[t])) /\ pool'[t].queue = pool[t].queue
      /\ pool'[t].head = 0 /\ pool'[t].tail = n
  <2>1. PICK s : s = pool[t]
    OBVIOUS
  <2>2. PICK r : r = pool'[t]
    OBVIOUS
  <2>3. PICK m \in Nat \ {0} : m = QueueSize(pool[t])
    BY <1>5
  <2>4. s \in DequeOf(m) /\ r = [s EXCEPT !.head = 0, !.tail = n] /\ n \in Int
    BY <1>3, <1>5, <1>6, <2>1, <2>2, <2>3
  <2>5. /\ r.queue = s.queue /\ r.head = 0 /\ r.tail = n
        /\ r = [queue |-> r.queue, head |-> r.head, tail |-> r.tail]
    BY Zenon, <2>4 DEF DequeOf
  <2>6. s.queue \in [0 .. m - 1 -> Packets \cup {None}]
    BY <2>4 DEF DequeOf
  <2>7. r \in DequeOf(m)
    BY <2>4, <2>5, <2>6 DEF DequeOf
  <2> QED
    BY Zenon, <2>1, <2>2, <2>3, <2>5, <2>7
<1>8. WellFormed(pool'[t])
  BY SMTT(20), <1>3, <1>5, <1>7, WellFormedBy
<1>9. \A i : At(pool'[t], i) = At(pool[t], i)
  BY <1>7 DEF At, GetPosition, QueueSize
<1>10. /\ local'[t] = [local[t] EXCEPT !.pc = "pop", !.n = 0]
       /\ \A u \in Threads \ {t} : local'[u] = local[u]
  BY <1>1 DEF Typed
<1>11. local'[t].pc = "pop" /\ local'[t].n = 0 /\ local'[t] \in Locals
  <2>1. PICK k \in Locals : k = local[t]
    BY <1>3
  <2>2. PICK l : l = [k EXCEPT !.pc = "pop", !.n = 0]
    OBVIOUS
  <2>3. l \in Locals /\ l.pc = "pop" /\ l.n = 0
    BY Zenon, <2>2 DEF Locals, Steps
  <2> QED
    BY <1>10, <2>1, <2>2, <2>3
<1>12. Stored(t)' = Stored(t) /\ Once(t)'
  <2>1. Stored(t)' = Contents(pool'[t]) /\ (Once(t)' <=> Distinct(pool'[t]))
    BY <1>11, StoredIsNext
  <2>2. Slots(t) = 0 .. n - 1
    BY <1>3, <1>n DEF Slots
  <2>3. pool'[t].head .. pool'[t].tail - 1 = 0 .. n - 1
    BY <1>7
  <2>4. Contents(pool'[t]) = Stored(t)
    BY Zenon, <1>9, <2>2, <2>3 DEF Contents, Stored
  <2>5. Distinct(pool'[t])
    BY Zenon, <1>2, <1>9, <2>2, <2>3 DEF Distinct, Once
  <2> QED
    BY <2>1, <2>4, <2>5
<1>13. \A u \in Threads \ {t} : Stored(u)' = Stored(u) /\ Once(u)'
  BY <1>6, <1>10, StoredSame DEF PoolIInv
<1>14. Typed'
  <2>1. local' \in [Threads -> Locals]
    BY <1>1, <1>10, <1>11 DEF Typed
  <2> QED
    BY <1>1, <1>6, <1>8, <2>1 DEF Typed
<1>15. \A u \in Threads : LockInv(u)'
  <2>1. \A u \in Threads \ {t} : LockInv(u)'
    <3>1. held' = held /\ lock' = lock /\ local[t].pc # "idle"
      BY Zenon, <1>1, <1>3
    <3>2. \A u \in Threads \ {t} :
             /\ local'[u] = local[u] /\ pool'[u] = pool[u]
             /\ held'[u] = held[u] /\ lock'[u] = lock[u]
      BY Zenon, <1>6, <1>10, <3>1
    <3> QED
      BY Zenon, <3>1, <3>2, LockOthers
  <2>2. QueueSize(pool[t])' = QueueSize(pool[t])
    BY Zenon, <1>7 DEF QueueSize
  <2>3. local'[t] # Idle /\ 0 < QueueSize(pool[t])
    BY <1>5, <1>11, IdleFacts
  <2>4. LockInv(t)'
    BY <1>1, <1>2, <1>11, <2>2, <2>3 DEF LockInv
  <2> QED
    BY <2>1, <2>4
<1>16. Apart' /\ Covered'
  <2>1. \A u \in Threads : Stored(u)' = Stored(u)
    BY <1>12, <1>13
  <2> QED
    BY <1>1, <2>1 DEF PoolIInv, Apart, Covered
<1> QED
  BY <1>1, <1>4, <1>12, <1>13, <1>14, <1>15, <1>16 DEF PoolIInv, Building

\* The thief holds both locks, so nobody else is between two steps on either
\* deque.
LEMMA StealLocks ==
  ASSUME PoolIInv, NEW t \in Threads, local[t].pc = "steal",
         NEW v, v = local[t].victim,
         lock' = [lock EXCEPT ![v] = None], held' = held,
         \A u \in Threads \ {t} : local'[u] = local[u],
         \A u \in Threads \ {t, v} : pool'[u] = pool[u],
         QueueSize(pool[v])' = QueueSize(pool[v])
  PROVE  \A u \in Threads \ {t} : LockInv(u)'
<1> SUFFICES ASSUME NEW u \in Threads \ {t} PROVE LockInv(u)'
  BY Zenon
<1>1. LockInv(u) /\ LockInv(t) /\ lock \in [Threads -> Threads \cup {None}]
  BY DEF PoolIInv, Typed
<1>2. v \in Threads \ {t} /\ lock[v] = t
  BY Zenon, <1>1 DEF LockInv
<1>3. local[u].pc # "idle" => u # v
  BY Zenon, <1>1, <1>2 DEF LockInv
<1>4. local[u].pc = "steal" => local[u].victim \in Threads \ {v}
  BY Zenon, <1>1, <1>2 DEF LockInv
<1>5. /\ local[u].pc # "idle" => lock'[u] = lock[u]
      /\ local[u].pc = "steal" => lock'[local[u].victim] = lock[local[u].victim]
  BY Zenon, <1>1, <1>3, <1>4
<1>6. QueueSize(pool[u])' = QueueSize(pool[u])
  BY Zenon DEF QueueSize
<1>7. local[u].pc # "idle" => Size(pool[u])' = Size(pool[u])
  BY <1>3 DEF Size
<1>8. local'[u] = local[u] /\ held'[u] = held[u]
  OBVIOUS
<1> QED
  BY Zenon, <1>1, <1>5, <1>6, <1>7, <1>8 DEF LockInv

LEMMA StealCopyInv ==
  ASSUME PoolIInv, NEW t \in Threads, StealCopy(t)
  PROVE  PoolIInv'
<1>v. PICK v : v = local[t].victim
  OBVIOUS
<1>n. PICK n : n = (Size(pool[v]) + 1) \div 2
  OBVIOUS
<1>m. PICK m : m = (IF DefaultSize > 2 * n THEN DefaultSize ELSE 2 * n) + 1
  OBVIOUS
<1>1. /\ Typed /\ local[t].pc = "steal" /\ heap' = heap /\ held' = held /\ home' = home
      /\ local' = [local EXCEPT ![t] =
            [@ EXCEPT !.pc = IF n = 0 THEN "got_lock" ELSE "stolen", !.n = n, !.victim = None]]
      /\ pool' = IF n = 0 THEN pool
                 ELSE [pool EXCEPT ![t].queue = CopyToNew(pool[v], Cells(m), n),
                                   ![v].head = @ + n]
      /\ lock' = [lock EXCEPT ![v] = None]
  BY <1>v, <1>n, <1>m DEF PoolIInv, StealCopy
<1>2. LockInv(t) /\ Once(t) /\ Apart /\ Covered
  BY DEF PoolIInv
<1>3. /\ v \in Threads /\ v # t /\ lock[v] = t /\ lock[t] = t /\ Size(pool[t]) = 0
      /\ ~ (local[t].n > 0) /\ local[t].pc # "idle"
  BY <1>1, <1>2, <1>v DEF LockInv
<1>4. heap = {}
  BY <1>3, HeapEmpty
<1>5. WellFormed(pool[t]) /\ WellFormed(pool[v]) /\ local[t] \in Locals
  BY <1>1, <1>3 DEF Typed
<1>6. LockInv(v) /\ Once(v)
  BY <1>3 DEF PoolIInv
<1>7. local[v] = Idle
  <2>1. local[v].pc = "idle"
    BY Zenon, <1>3, <1>6 DEF LockInv
  <2> QED
    BY <1>6, <2>1 DEF LockInv
<1>8. n \in Nat /\ n <= Size(pool[v])
  <2>1. Size(pool[v]) \in Nat
    BY <1>5, DequeSizes
  <2> QED
    BY <1>n, <2>1
<1>9. m \in Nat \ {0} /\ n < m
  <2>1. DefaultSize \in Nat
    BY PacketPoolConstants DEF PacketPoolAssumption
  <2> QED
    BY <1>8, <1>m, <2>1
<1>10. /\ local'[t].pc = IF n = 0 THEN "got_lock" ELSE "stolen"
       /\ local'[t].n = n /\ local'[t].victim = None
       /\ \A u \in Threads \ {t} : local'[u] = local[u]
       /\ local' \in [Threads -> Locals]
  <2>1. local \in [Threads -> Locals]
    BY <1>1 DEF Typed
  <2>2. PICK k : k = [local[t] EXCEPT !.pc = IF n = 0 THEN "got_lock" ELSE "stolen",
                                      !.n = n, !.victim = None]
    OBVIOUS
  <2>3. /\ k \in Locals /\ k.pc = IF n = 0 THEN "got_lock" ELSE "stolen"
        /\ k.n = n /\ k.victim = None
    BY Zenon, <1>5, <1>8, <2>2 DEF Locals, Steps
  <2>4. local' = [local EXCEPT ![t] = k]
    BY <1>1, <2>2
  <2> QED
    BY <2>1, <2>3, <2>4
<1>11. lock' \in [Threads -> Threads \cup {None}] /\ lock'[t] = t
  BY <1>1, <1>3 DEF Typed
<1>12. local'[t] # Idle
  BY <1>10, IdleFacts
<1>13. CASE n = 0
  <2>1. pool' = pool /\ local'[t].n = local[t].n
    <3>1. local[t].n = 0
      BY <1>1, <1>3 DEF Typed, Locals
    <3> QED
      BY <1>1, <1>10, <1>13, <3>1
  <2>2. Typed'
    <3>1. Typed /\ heap' = heap /\ held' = held /\ home' = home
      BY <1>1
    <3> QED
      BY <1>10, <1>11, <2>1, <3>1 DEF Typed
  <2>3. \A u \in Threads \ {t} : LockInv(u)'
    BY Zenon, <1>1, <1>v, <1>10, <2>1, StealLocks
  <2>4. LockInv(t)'
    BY Zenon, <1>2, <1>3, <1>10, <1>11, <1>12, <1>13, <2>1 DEF LockInv
  <2>5. \A u \in Threads : local'[u].n = local[u].n
    BY Zenon, <1>10, <2>1
  <2>6. Apart' /\ Covered' /\ \A u \in Threads : Once(u)'
    BY <1>1, <2>1, <2>5, QuietStep
  <2> QED
    BY <1>1, <1>4, <2>2, <2>3, <2>4, <2>6 DEF PoolIInv, Building
<1>14. CASE n # 0
  <2>q. PICK q : q = CopyToNew(pool[v], Cells(m), n)
    OBVIOUS
  <2>1. /\ q \in [0 .. m - 1 -> Packets \cup {None}]
        /\ \A i \in 0 .. n - 1 : q[i] = At(pool[v], pool[v].head + i)
    BY <1>5, <1>8, <1>9, <2>q, CopyToNewIs
  <2>2. /\ pool'[t] = [pool[t] EXCEPT !.queue = q]
        /\ pool'[v] = [pool[v] EXCEPT !.head = @ + n]
        /\ \A u \in Threads \ {t, v} : pool'[u] = pool[u]
        /\ DOMAIN pool' = Threads /\ pool' = [u \in Threads |-> pool'[u]]
    BY Zenon, <1>1, <1>3, <1>14, <2>q DEF Typed
  <2>3. Stored(t) = {} /\ Stored(v) = Contents(pool[v]) /\ Distinct(pool[v])
    <3>1. pool[t].head \in Int /\ pool[t].tail \in Int /\ pool[t].tail - pool[t].head = 0
      BY Zenon, <1>3, <1>5, DequeSizes
    <3>2. pool[t].head .. pool[t].tail - 1 = {}
      BY <3>1
    <3>3. Stored(t) = {}
      BY Zenon, <1>3, <3>2 DEF Stored, Slots
    <3>4. ~ (local[v].n > 0)
      BY <1>7, IdleFacts
    <3> QED
      BY Zenon, <1>6, <3>3, <3>4, StoredIs
  <2>4. PICK X : X = Top(pool[v], n)
    OBVIOUS
  <2>5. /\ WellFormed(pool'[v]) /\ Distinct(pool'[v]) /\ X \subseteq Contents(pool[v])
        /\ Contents(pool'[v]) = Contents(pool[v]) \ X
    BY <1>5, <1>8, <2>2, <2>3, <2>4, DropTopContents
  <2>6. Stored(v)' = Stored(v) \ X /\ Once(v)'
    <3>1. ~ (local'[v].n > 0)
      BY <1>3, <1>7, <1>10, IdleFacts
    <3> QED
      BY Zenon, <2>3, <2>5, <3>1, StoredIsNext
  <2>7. /\ pool'[t] \in DequeOf(m) /\ pool'[t].queue = q
        /\ pool'[t].head = pool[t].head /\ pool'[t].tail = pool[t].tail
    <3>1. pool[t] \in DequeOf(QueueSize(pool[t]))
      BY Zenon, <1>5, DequeCells
    <3> QED
      BY <2>1, <2>2, <3>1 DEF DequeOf
  <2>8. QueueSize(pool'[t]) = m
    BY Zenon, <1>9, <2>7, QueueSizeIs
  <2>9. WellFormed(pool'[t]) /\ Size(pool'[t]) = 0
    <3>1. pool[t].head \in Int /\ pool[t].tail \in Int /\ pool[t].tail - pool[t].head = 0
      BY <1>3, <1>5, DequeSizes
    <3>2. pool'[t].head <= pool'[t].tail /\ pool'[t].tail - pool'[t].head < m
      BY <1>9, <2>7, <3>1
    <3>3. WellFormed(pool'[t])
      BY Zenon, <1>9, <2>7, <3>2, WellFormedBy
    <3> QED
      BY Zenon, <2>7, <3>1, <3>3 DEF Size
  <2>10. Slots(t)' = 0 .. n - 1
    <3>1. local'[t].n > 0
      BY <1>8, <1>10, <1>14
    <3> QED
      BY Zenon, <1>10, <3>1 DEF Slots
  <2>11. ASSUME NEW i \in 0 .. n - 1
         PROVE  At(pool[t], i)' = At(pool[v], pool[v].head + i)
    <3>1. i \in 0 .. m - 1
      BY <1>8, <1>9
    <3>2. GetPosition(pool'[t], i) = i
      BY <1>9, <2>8, <3>1, ModSame DEF GetPosition
    <3>3. At(pool[t], i)' = pool'[t].queue[GetPosition(pool'[t], i)]
      BY DEF At, GetPosition, QueueSize
    <3> QED
      BY Zenon, <2>1, <2>7, <3>2, <3>3
  <2>12. Stored(t)' = X
    BY Zenon, <2>4, <2>10, <2>11 DEF Stored, Top
  <2>13. Once(t)'
    <3>1. SUFFICES ASSUME NEW i \in 0 .. n - 1, NEW j \in 0 .. n - 1,
                          At(pool[t], i)' = At(pool[t], j)'
                   PROVE  i = j
      BY <2>10 DEF Once
    <3>2. At(pool[v], pool[v].head + i) = At(pool[v], pool[v].head + j)
      BY Zenon, <2>11, <3>1
    <3>3. /\ pool[v].head \in Int /\ pool[v].tail \in Int
          /\ Size(pool[v]) = pool[v].tail - pool[v].head
      BY Zenon, <1>5, DequeSizes
    <3>4. /\ pool[v].head + i \in pool[v].head .. pool[v].tail - 1
          /\ pool[v].head + j \in pool[v].head .. pool[v].tail - 1
      BY <1>8, <3>3
    <3>5. pool[v].head + i = pool[v].head + j
      BY Zenon, <2>3, <3>2, <3>4 DEF Distinct
    <3> QED
      BY <3>3, <3>5
  <2>14. \A u \in Threads \ {t, v} : Stored(u)' = Stored(u) /\ Once(u)'
    BY <1>10, <2>2, StoredSame DEF PoolIInv
  <2>15. Typed'
    <3>1. \A u \in Threads : WellFormed(pool'[u])
      BY Zenon, <1>1, <2>2, <2>5, <2>9 DEF Typed
    <3> QED
      BY Zenon, <1>1, <1>10, <1>11, <2>2, <3>1 DEF Typed
  <2>16. \A u \in Threads \ {t} : LockInv(u)'
    <3>1. pool[v] \in DequeOf(QueueSize(pool[v]))
      BY Zenon, <1>5, DequeCells
    <3>2. pool'[v].queue = pool[v].queue
      BY <2>2, <3>1 DEF DequeOf
    <3>3. QueueSize(pool[v])' = QueueSize(pool[v])
      <4>1. QueueSize(pool[v])' = Cardinality(DOMAIN pool'[v].queue)
        <5>1. v' = v
          OBVIOUS
        <5> QED
          BY <5>1 DEF QueueSize
      <4> QED
        BY Zenon, <3>2, <4>1 DEF QueueSize
    <3> QED
      BY ZenonT(20), <1>1, <1>v, <1>10, <2>2, <3>3, StealLocks
  <2>17. LockInv(t)'
    <3>1. QueueSize(pool[t])' = m /\ Size(pool[t])' = 0
      BY Zenon, <2>8, <2>9 DEF QueueSize, Size
    <3>2. local'[t].pc = "stolen" /\ local'[t].n > 0 /\ local'[t].n < m
      BY <1>8, <1>9, <1>10, <1>14
    <3> QED
      BY Zenon, <1>11, <1>12, <3>1, <3>2 DEF LockInv
  <2>18. Apart' /\ Covered'
    <3>1. \A u \in Threads : Stored(u)' = IF u = t THEN X ELSE IF u = v THEN Stored(v) \ X ELSE Stored(u)
      BY <2>6, <2>12, <2>14
    <3>2. X \subseteq Stored(v)
      BY Zenon, <2>3, <2>5
    <3>8. Stored(t)' = X /\ Stored(v)' = Stored(v) \ X
      BY Zenon, <1>3, <3>1
    <3>9. \A u \in Threads : u # t => Stored(u)' \subseteq Stored(u)
      BY Zenon, <3>1
    <3>3. \A u \in Threads : Stored(u)' \subseteq Packets
      <4>1. Stored(t)' \subseteq Packets
        BY Zenon, <1>2, <1>3, <3>2, <3>8 DEF Apart
      <4> QED
        BY Zenon, <1>2, <3>9, <4>1 DEF Apart
    <3>4. \A u, w \in Threads : Stored(u)' \cap held[w] = {}
      <4>1. \A w \in Threads : Stored(t)' \cap held[w] = {}
        BY Zenon, <1>2, <1>3, <3>2, <3>8 DEF Apart
      <4> QED
        BY Zenon, <1>2, <3>9, <4>1 DEF Apart
    <3>5. \A u, w \in Threads : u # w => Stored(u)' \cap Stored(w)' = {}
      <4>1. \A w \in Threads : w # t => Stored(t)' \cap Stored(w)' = {}
        <5>1. Stored(t)' \cap Stored(v)' = {}
          BY Zenon, <3>8
        <5>2. \A w \in Threads : w # v => Stored(v) \cap Stored(w) = {}
          BY Zenon, <1>2, <1>3 DEF Apart
        <5>3. \A w \in Threads : w # t /\ w # v => Stored(t)' \cap Stored(w)' = {}
          BY Zenon, <3>2, <3>8, <3>9, <5>2
        <5> QED
          BY Zenon, <5>1, <5>3
      <4>2. \A u, w \in Threads : u # w => Stored(u) \cap Stored(w) = {}
        BY Zenon, <1>2 DEF Apart
      <4>3. \A u, w \in Threads : u # w /\ u # t /\ w # t => Stored(u)' \cap Stored(w)' = {}
        BY Zenon, <3>9, <4>2
      <4> QED
        BY Zenon, <4>1, <4>3
    <3>6. Apart'
      BY <1>1, <1>2, <1>4, <3>3, <3>4, <3>5 DEF Apart
    <3>7. Covered'
      <4>1. SUFFICES ASSUME NEW p \in Packets
                     PROVE  \E w \in Threads : p \in Stored(w)' \/ p \in held'[w]
        BY DEF Covered
      <4>2. PICK w \in Threads : p \in Stored(w) \/ p \in held[w]
        BY <1>2, <1>4 DEF Covered
      <4>3. p \in Stored(w) => p \in Stored(w)' \/ p \in Stored(t)'
        BY <2>3, <3>1
      <4> QED
        BY <1>1, <4>2, <4>3
    <3> QED
      BY <3>6, <3>7
  <2>19. \A u \in Threads : Once(u)'
    BY <2>6, <2>13, <2>14
  <2>20. \A u \in Threads : LockInv(u)'
    BY <2>16, <2>17
  <2> QED
    BY <1>1, <1>4, <2>15, <2>18, <2>19, <2>20 DEF PoolIInv, Building
<1> QED
  BY <1>13, <1>14

LEMMA StutterInv ==
  ASSUME PoolIInv, UNCHANGED vars
  PROVE  PoolIInv'
<1>1. /\ heap' = heap /\ pool' = pool /\ lock' = lock /\ held' = held /\ home' = home
      /\ local' = local
  BY DEF vars
<1>2. Typed' /\ Building'
  BY <1>1 DEF PoolIInv, Typed, Building
<1>3. \A u \in Threads : LockInv(u)'
  BY Zenon, <1>1 DEF PoolIInv, LockInv
<1> QED
  BY <1>1, <1>2, <1>3, QuietStep DEF PoolIInv

LEMMA NextInv ==
  ASSUME PoolIInv, [Next]_vars
  PROVE  PoolIInv'
<1>1. CASE UNCHANGED vars
  BY <1>1, StutterInv
<1>2. CASE Finished
  BY <1>2, StutterInv DEF Finished
<1>3. ASSUME NEW p \in Packets, Create(p)
      PROVE  PoolIInv'
  BY <1>3, CreateInv
<1>4. ASSUME NEW t \in Threads,
             Get(t) \/ StealNothing(t) \/ StealCopy(t) \/ StealSet(t) \/ Push(t)
      PROVE  PoolIInv'
  BY <1>4, GetInv, StealNothingInv, StealCopyInv, StealSetInv, PushInv
<1>5. ASSUME NEW t \in Threads, NEW v \in Threads, StealTry(t, v)
      PROVE  PoolIInv'
  BY <1>5, StealTryInv
<1>6. ASSUME NEW t \in Threads, NEW n \in 0 .. MaxBatch, Pop(t, n)
      PROVE  PoolIInv'
  BY <1>6, PopInv
<1>7. ASSUME NEW t \in Threads, NEW p \in Packets, Put(t, p) \/ SetHome(t, p)
      PROVE  PoolIInv'
  BY <1>7, PutInv, SetHomeInv
<1>8. ASSUME NEW t \in Threads, NEW p \in Packets, NEW u \in Threads, HandOver(t, u, p)
      PROVE  PoolIInv'
  BY <1>8, HandOverInv
<1> QED
  BY <1>1, <1>2, <1>3, <1>4, <1>5, <1>6, <1>7, <1>8 DEF Next

LEMMA IInvAlways == Spec => []PoolIInv
<1>1. PoolIInv /\ [Next]_vars => PoolIInv'
  BY NextInv
<1> QED
  BY InitInv, <1>1, PTL DEF Spec

-----------------------------------------------------------------------------
\* From what the deques store to the cells that have a packet.

LEMMA CellsAre ==
  ASSUME PoolIInv, NEW c
  PROVE  c \in AllCells <=> \E t \in Threads : \E i \in Slots(t) : c = <<t, GetPosition(pool[t], i)>>
<1>1. ASSUME NEW t \in Threads
      PROVE  Positions(t) \cup InTransit(t) = {<<t, GetPosition(pool[t], i)>> : i \in Slots(t)}
  <2>1. /\ WellFormed(pool[t]) /\ LockInv(t) /\ local[t].n \in Nat
    BY DEF PoolIInv, Typed, Locals
  <2>2. /\ QueueSize(pool[t]) \in Nat \ {0} /\ pool[t].head \in Int /\ pool[t].tail \in Int
        /\ Size(pool[t]) = pool[t].tail - pool[t].head
    BY Zenon, <2>1, DequeSizes
  <2>3. CASE local[t].n > 0
    <3>1. local[t].pc = "stolen" /\ Size(pool[t]) = 0 /\ local[t].n < QueueSize(pool[t])
      BY Zenon, <2>1, <2>3 DEF LockInv
    <3>2. pool[t].head .. pool[t].tail - 1 = {}
      BY <2>2, <3>1
    <3>3. \A i \in 0 .. local[t].n - 1 : i \in 0 .. QueueSize(pool[t]) - 1
      BY <2>1, <2>2, <3>1
    <3>4. \A i \in 0 .. local[t].n - 1 : GetPosition(pool[t], i) = i
      BY Zenon, <2>2, <3>3, ModSame DEF GetPosition
    <3> QED
      BY Zenon, <2>3, <3>2, <3>4 DEF Positions, InTransit, Slots
  <2>4. CASE ~ (local[t].n > 0)
    <3>1. 0 .. local[t].n - 1 = {}
      BY <2>1, <2>4
    <3> QED
      BY Zenon, <2>4, <3>1 DEF Positions, InTransit, Slots
  <2> QED
    BY Zenon, <2>3, <2>4
<1> QED
  BY <1>1 DEF AllCells

\* A packet in a deque has one cell, in a thread's hands or in the heap none.
LEMMA OneCell ==
  ASSUME PoolIInv, NEW p \in Packets, NEW t \in Threads, p \in Stored(t)
  PROVE  Cardinality(CellsWith(p)) = 1
<1>1. PICK i \in Slots(t) : p = At(pool[t], i)
  BY DEF Stored
<1>2. PICK d : d = <<t, GetPosition(pool[t], i)>>
  BY Zenon
<1>3. d \in CellsWith(p)
  <2>1. d \in AllCells
    BY <1>2, CellsAre
  <2> QED
    BY Zenon, <1>1, <1>2, <2>1 DEF CellsWith, At
<1>4. ASSUME NEW c \in CellsWith(p)
      PROVE  c = d
  <2>1. c \in AllCells /\ pool[c[1]].queue[c[2]] = p
    BY Zenon DEF CellsWith
  <2>2. PICK u \in Threads : \E j \in Slots(u) : c = <<u, GetPosition(pool[u], j)>>
    BY Zenon, <2>1, CellsAre
  <2>3. PICK j \in Slots(u) : c = <<u, GetPosition(pool[u], j)>>
    BY <2>2
  <2>4. At(pool[u], j) = p
    BY Zenon, <2>1, <2>3 DEF At
  <2>5. p \in Stored(u)
    BY <2>4 DEF Stored
  <2>6. u = t
    BY Zenon, <2>5 DEF PoolIInv, Apart
  <2>7. j = i
    BY <1>1, <2>4, <2>6 DEF PoolIInv, Once
  <2> QED
    BY <1>2, <2>3, <2>6, <2>7
<1>5. CellsWith(p) = {d}
  BY <1>3, <1>4
<1> QED
  BY Zenon, <1>5, FS_Singleton

LEMMA NoCell ==
  ASSUME PoolIInv, NEW p \in Packets, \A t \in Threads : p \notin Stored(t)
  PROVE  Cardinality(CellsWith(p)) = 0
<1>1. ASSUME NEW c \in CellsWith(p)
      PROVE  FALSE
  <2>1. c \in AllCells /\ pool[c[1]].queue[c[2]] = p
    BY Zenon DEF CellsWith
  <2>2. PICK u \in Threads : \E j \in Slots(u) : c = <<u, GetPosition(pool[u], j)>>
    BY Zenon, <2>1, CellsAre
  <2>3. PICK j \in Slots(u) : c = <<u, GetPosition(pool[u], j)>>
    BY <2>2
  <2>4. At(pool[u], j) = p
    BY Zenon, <2>1, <2>3 DEF At
  <2>5. p \in Stored(u)
    BY <2>4 DEF Stored
  <2> QED
    BY <2>5
<1>2. CellsWith(p) = {}
  BY <1>1
<1> QED
  BY <1>2, FS_EmptySet

\* The threads that hold packet p.
Holders(p) == {t \in Threads : p \in held[t]}

LEMMA IInvOnce == PoolIInv => PacketsOnce
<1> SUFFICES ASSUME PoolIInv, NEW p \in Packets
             PROVE  Cardinality(CellsWith(p)) + Cardinality(Holders(p))
                        = IF p \in heap THEN 0 ELSE 1
  BY DEF PacketsOnce, Holders
<1>1. Apart /\ Covered
  BY DEF PoolIInv
<1>2. CASE p \in heap
  <2>1. Cardinality(CellsWith(p)) = 0
    BY <1>1, <1>2, NoCell DEF Apart
  <2>2. Holders(p) = {}
    BY <1>1, <1>2 DEF Apart, Holders
  <2>3. Cardinality(Holders(p)) = 0
    BY <2>2, FS_EmptySet
  <2> QED
    BY <1>2, <2>1, <2>3
<1>3. ASSUME NEW t \in Threads, p \in Stored(t), p \notin heap
      PROVE  Cardinality(CellsWith(p)) + Cardinality(Holders(p)) = 1
  <2>1. Cardinality(CellsWith(p)) = 1
    BY <1>3, OneCell
  <2>2. Holders(p) = {}
    BY Zenon, <1>1, <1>3 DEF Apart, Holders
  <2>3. Cardinality(Holders(p)) = 0
    BY <2>2, FS_EmptySet
  <2> QED
    BY <2>1, <2>3
<1>4. ASSUME NEW t \in Threads, p \in held[t], p \notin heap
      PROVE  Cardinality(CellsWith(p)) + Cardinality(Holders(p)) = 1
  <2>1. Cardinality(CellsWith(p)) = 0
    BY Zenon, <1>1, <1>4, NoCell DEF Apart
  <2>2. Holders(p) = {t}
    BY Zenon, <1>1, <1>4 DEF Apart, Holders
  <2>3. Cardinality(Holders(p)) = 1
    BY Zenon, <2>2, FS_Singleton
  <2> QED
    BY <2>1, <2>3
<1>5. p \in heap \/ \E t \in Threads : p \in Stored(t) \/ p \in held[t]
  BY <1>1 DEF Covered
<1> QED
  BY Zenon, <1>2, <1>3, <1>4, <1>5

LEMMA IInvTypeOK == PoolIInv => TypeOK
<1> SUFFICES ASSUME PoolIInv, NEW t \in Threads
             PROVE  /\ pool[t].head <= pool[t].tail
                    /\ Size(pool[t]) < QueueSize(pool[t])
                    /\ InPool(t) \subseteq Packets
                    /\ lock[t] \in Threads \cup {None}
                    /\ held[t] \subseteq Packets
  BY Zenon DEF TypeOK
<1>1. Typed /\ Apart /\ LockInv(t)
  BY DEF PoolIInv
<1>2. WellFormed(pool[t]) /\ lock[t] \in Threads \cup {None} /\ held[t] \subseteq Packets
      /\ local[t].n \in Nat
  BY Zenon, <1>1 DEF Typed, Locals
<1>3. /\ pool[t].head \in Int /\ pool[t].tail \in Int /\ pool[t].head <= pool[t].tail
      /\ Size(pool[t]) = pool[t].tail - pool[t].head
      /\ Size(pool[t]) < QueueSize(pool[t])
  BY Zenon, <1>2, DequeSizes
<1>4. \A i \in pool[t].head .. pool[t].tail - 1 : i \in Slots(t)
  <2>1. local[t].n > 0 => Size(pool[t]) = 0
    BY Zenon, <1>1 DEF LockInv
  <2> QED
    BY SMTT(20), <1>2, <1>3, <2>1 DEF Slots
<1>5. InPool(t) \subseteq Stored(t)
  BY <1>4 DEF InPool, Positions, Stored, At
<1>6. InPool(t) \subseteq Packets
  BY Zenon, <1>1, <1>5 DEF Apart
<1> QED
  BY Zenon, <1>2, <1>3, <1>6

-----------------------------------------------------------------------------
\* A packet that was put into the pool is in exactly one cell of one deque or
\* in one thread's hands, however get_n, put and the steals of any number of
\* threads interleave.
THEOREM PacketsStayOnce == Spec => []PacketsOnce
BY IInvAlways, IInvOnce, PTL

\* The assertions of mpmc_set.hpp hold: head never passes tail, a deque never
\* fills its array, and no cell between them is null.
THEOREM DequesWellFormed == Spec => []TypeOK
BY IInvAlways, IInvTypeOK, PTL

-----------------------------------------------------------------------------
(* The archive of immediate-data tags.                                     *)

LocalType ==
    [pc : {"idle", "scan", "exhausted"}, value : Values \cup {A!empty}, start : Nat, i : Nat]

TypeInv ==
    /\ slots \in [0..(A!Size - 1) -> Values \cup {A!empty}]
    /\ next_slot \in Nat
    /\ archive_local \in [Inserters -> LocalType]
    /\ tag_of \in [Values -> {A!Unused, A!Gone} \cup 0..(A!Size - 1)]

\* A thread that scans holds a context that has no tag yet, and holds it alone:
\* without this the slot it takes could be the second one of a context.
ScanInv ==
    /\ \A t \in Inserters : archive_local[t].value # A!empty => tag_of[archive_local[t].value] = A!Unused
    /\ \A t \in Inserters : archive_local[t].pc = "scan" => archive_local[t].value # A!empty
    /\ \A t, u \in Inserters :
          archive_local[t].value # A!empty /\ archive_local[t].value = archive_local[u].value => t = u

ArchiveInv == TypeInv /\ ScanInv /\ A!TagKeepsValue

-----------------------------------------------------------------------------
LEMMA SizeType == ASSUME A!ImmTagArchiveAssumption PROVE A!Size \in Nat \ {0}
BY DEF A!ImmTagArchiveAssumption, A!Size

LEMMA SlotType ==
  ASSUME A!ImmTagArchiveAssumption, TypeInv, NEW t \in Inserters
  PROVE  A!Slot(t) \in 0..(A!Size - 1)
<1>1. archive_local[t].start \in Nat /\ archive_local[t].i \in Nat
  BY DEF TypeInv, LocalType
<1> QED BY <1>1, SizeType DEF A!Slot

LEMMA ArchiveInit == ASSUME A!ImmTagArchiveAssumption, A!Init PROVE ArchiveInv
<1>1. \A t \in Inserters : archive_local[t].value = A!empty /\ archive_local[t].pc = "idle"
  BY DEF A!Init, A!Idle
<1>2. TypeInv
  BY Zenon, SizeType DEF A!Init, TypeInv, A!Idle, LocalType
<1>3. A!Live = {}
  BY DEF A!Init, A!Live, A!Unused
<1>4. A!TagKeepsValue
  BY <1>3 DEF A!Init, A!TagKeepsValue
<1> QED BY <1>1, <1>2, <1>4 DEF ArchiveInv, ScanInv

LEMMA InsertStartInv ==
  ASSUME A!ImmTagArchiveAssumption, ArchiveInv,
         NEW t \in Inserters, NEW v \in Values, A!InsertStart(t, v)
  PROVE  ArchiveInv'
<1> DEFINE l == [pc |-> "scan", value |-> v, start |-> next_slot, i |-> 0]
<1>1. /\ archive_local' = [archive_local EXCEPT ![t] = l]
      /\ next_slot' = (next_slot + 1) % A!Size
      /\ slots' = slots /\ tag_of' = tag_of
      /\ tag_of[v] = A!Unused /\ v \notin A!Inserting
  BY Zenon DEF A!InsertStart
<1>2. l \in LocalType /\ l.value = v /\ l.pc = "scan"
  BY Zenon DEF LocalType, ArchiveInv, TypeInv
<1>3. v # A!empty
  BY DEF A!ImmTagArchiveAssumption
<1>4. \A u \in Inserters : archive_local[u].value # v
  BY <1>1, <1>3 DEF A!Inserting
<1> HIDE DEF l
<1>5. archive_local'[t] = l /\ \A u \in Inserters : u # t => archive_local'[u] = archive_local[u]
  BY <1>1 DEF ArchiveInv, TypeInv
<1>6. next_slot' \in Nat
  <2>1. next_slot \in Nat
    BY DEF ArchiveInv, TypeInv
  <2> QED BY <1>1, <2>1, SizeType
<1>7. TypeInv'
  BY Zenon, <1>1, <1>2, <1>6 DEF ArchiveInv, TypeInv, A!Size
<1>8. ScanInv'
  BY SMTT(20), <1>1, <1>2, <1>3, <1>4, <1>5 DEF ArchiveInv, ScanInv
<1>9. A!TagKeepsValue'
  BY Zenon, <1>1 DEF ArchiveInv, A!TagKeepsValue, A!Live, A!Size
<1> QED BY <1>7, <1>8, <1>9 DEF ArchiveInv

LEMMA TakeInv ==
  ASSUME A!ImmTagArchiveAssumption, ArchiveInv,
         NEW t \in Inserters, archive_local[t].pc = "scan", slots[A!Slot(t)] = A!empty, A!Take(t)
  PROVE  ArchiveInv'
<1> DEFINE s == A!Slot(t)
           v == archive_local[t].value
<1>1. s \in 0..(A!Size - 1) /\ slots[s] = A!empty
  BY SlotType DEF ArchiveInv
<1>2. v \in Values /\ v # A!empty /\ tag_of[v] = A!Unused
  BY Zenon DEF ArchiveInv, TypeInv, LocalType, ScanInv
<1>3. /\ slots' = [slots EXCEPT ![s] = v]
      /\ tag_of' = [tag_of EXCEPT ![v] = s]
      /\ archive_local' = [archive_local EXCEPT ![t] = A!Idle] /\ next_slot' = next_slot
  BY Zenon DEF A!Take
<1>4. \A u \in Inserters : u # t => archive_local[u].value # v
  BY Zenon, <1>2 DEF ArchiveInv, ScanInv
<1> HIDE DEF s, v
<1>5. A!Idle \in LocalType /\ A!Idle.value = A!empty /\ A!Idle.pc = "idle"
  BY Zenon DEF A!Idle, LocalType
<1>6. archive_local'[t] = A!Idle /\ \A u \in Inserters : u # t => archive_local'[u] = archive_local[u]
  BY Zenon, <1>3 DEF ArchiveInv, TypeInv
<1>7. tag_of'[v] = s /\ \A w \in Values : w # v => tag_of'[w] = tag_of[w]
  BY Zenon, <1>2, <1>3 DEF ArchiveInv, TypeInv
<1>8. slots'[s] = v /\ \A r \in 0..(A!Size - 1) : r # s => slots'[r] = slots[r]
  BY <1>1, <1>3 DEF ArchiveInv, TypeInv
<1>9. TypeInv'
  <2>1. /\ slots' \in [0..(A!Size - 1) -> Values \cup {A!empty}]
        /\ tag_of' \in [Values -> {A!Unused, A!Gone} \cup 0..(A!Size - 1)]
    BY Zenon, <1>1, <1>2, <1>3 DEF ArchiveInv, TypeInv
  <2>2. archive_local' \in [Inserters -> LocalType] /\ next_slot' \in Nat
    BY Zenon, <1>3, <1>5 DEF ArchiveInv, TypeInv
  <2> QED BY Zenon, <2>1, <2>2 DEF TypeInv, A!Size
<1>10. ScanInv'
  <2>1. \A u \in Inserters : u # t /\ archive_local[u].value # A!empty =>
          archive_local[u].value \in Values /\ archive_local[u].value # v
    BY Zenon, <1>4 DEF ArchiveInv, TypeInv, LocalType
  <2>2. ASSUME NEW u \in Inserters, archive_local'[u].value # A!empty
        PROVE  tag_of'[archive_local'[u].value] = A!Unused
    <3>1. u # t /\ archive_local'[u] = archive_local[u]
      BY Zenon, <1>5, <1>6, <2>2
    <3>2. archive_local[u].value \in Values /\ archive_local[u].value # v
      BY Zenon, <2>1, <2>2, <3>1
    <3>3. tag_of[archive_local[u].value] = A!Unused
      BY Zenon, <2>2, <3>1 DEF ArchiveInv, ScanInv
    <3> QED BY Zenon, <1>7, <3>1, <3>2, <3>3
  <2>3. \A u \in Inserters : archive_local'[u].pc = "scan" => archive_local'[u].value # A!empty
    BY Zenon, <1>5, <1>6 DEF ArchiveInv, ScanInv
  <2>4. ASSUME NEW u \in Inserters, NEW w \in Inserters, archive_local'[u].value # A!empty,
               archive_local'[u].value = archive_local'[w].value
        PROVE  u = w
    <3>1. u # t /\ w # t BY Zenon, <1>5, <1>6, <2>4
    <3> QED BY Zenon, <1>6, <2>4, <3>1 DEF ArchiveInv, ScanInv
  <2> QED BY Zenon, <2>2, <2>3, <2>4 DEF ScanInv
<1>11. A!Live' = A!Live \cup {v}
  BY <1>1, <1>2, <1>7, SizeType DEF A!Live
<1>12. \A w \in A!Live : tag_of[w] \in 0..(A!Size - 1) /\ slots[tag_of[w]] = w /\ w \in Values /\ w # A!empty
  <2>1. \A w \in A!Live : w \in Values /\ tag_of[w] >= 0 /\ slots[tag_of[w]] = w
    BY DEF A!Live, ArchiveInv, A!TagKeepsValue
  <2>2. \A w \in Values : tag_of[w] \in {-1, -2} \cup 0..(A!Size - 1)
    BY DEF ArchiveInv, TypeInv, A!Unused, A!Gone
  <2>3. \A w \in A!Live : tag_of[w] \in 0..(A!Size - 1)
    BY <2>1, <2>2, SizeType
  <2> QED BY Zenon, <2>1, <2>3 DEF A!ImmTagArchiveAssumption
<1>13. v \notin A!Live
  BY <1>2 DEF A!Live, A!Unused
<1>14. \A w \in A!Live' : slots'[tag_of'[w]] = w
  <2>1. \A w \in A!Live : w # v /\ tag_of[w] # s
    BY <1>1, <1>12, <1>13
  <2> QED BY <1>7, <1>8, <1>11, <1>12, <2>1
<1>15. \A r \in 0..(A!Size - 1) : slots'[r] # A!empty =>
          slots'[r] \in A!Live' /\ tag_of'[slots'[r]] = r
  <2> SUFFICES ASSUME NEW r \in 0..(A!Size - 1), slots'[r] # A!empty
               PROVE  slots'[r] \in A!Live' /\ tag_of'[slots'[r]] = r
    BY Zenon
  <2>1. CASE r = s
    BY Zenon, <1>7, <1>8, <1>11, <2>1
  <2>2. CASE r # s
    <3>1. slots'[r] = slots[r] /\ slots[r] \in A!Live /\ tag_of[slots[r]] = r
      BY Zenon, <1>8, <2>2 DEF ArchiveInv, A!TagKeepsValue
    <3> QED BY Zenon, <1>7, <1>11, <1>12, <1>13, <3>1
  <2> QED BY Zenon, <2>1, <2>2
<1>16. A!TagKeepsValue'
  BY Zenon, <1>14, <1>15 DEF A!TagKeepsValue, A!Size
<1> QED BY <1>9, <1>10, <1>16 DEF ArchiveInv

LEMMA InsertCasInv ==
  ASSUME A!ImmTagArchiveAssumption, ArchiveInv, NEW t \in Inserters, A!InsertCas(t)
  PROVE  ArchiveInv'
<1>1. CASE slots[A!Slot(t)] = A!empty /\ A!Take(t)
  BY Zenon, <1>1, TakeInv DEF A!InsertCas
<1>2. CASE /\ archive_local' = [archive_local EXCEPT ![t] = A!Passed(t)]
           /\ UNCHANGED <<slots, next_slot, tag_of>>
  <2>1. archive_local[t] \in LocalType /\ archive_local[t].pc = "scan"
    BY Zenon DEF ArchiveInv, TypeInv, A!InsertCas
  <2>2. A!Passed(t) \in LocalType /\ A!Passed(t).value = archive_local[t].value
    <3>1. PICK n \in Nat, c \in {"scan", "exhausted"} :
            n = archive_local[t].i + 1 /\ c = IF n = A!Size THEN "exhausted" ELSE "scan"
      BY <2>1 DEF LocalType
    <3>2. A!Passed(t) = [archive_local[t] EXCEPT !.i = n, !.pc = c]
      BY <3>1 DEF A!Passed
    <3> QED BY Zenon, <2>1, <3>1, <3>2 DEF LocalType
  <2>3. /\ archive_local' \in [Inserters -> LocalType]
        /\ archive_local'[t] = A!Passed(t) /\ \A u \in Inserters : u # t => archive_local'[u] = archive_local[u]
    BY Zenon, <1>2, <2>2 DEF ArchiveInv, TypeInv
  <2>4. \A u \in Inserters : archive_local'[u].value = archive_local[u].value
    BY <2>2, <2>3
  <2>5. TypeInv'
    BY Zenon, <1>2, <2>3 DEF ArchiveInv, TypeInv, A!Size
  <2>6. ScanInv'
    <3>1. ScanInv /\ tag_of' = tag_of BY Zenon, <1>2 DEF ArchiveInv
    <3>2. \A u \in Inserters : archive_local'[u].pc = "scan" => archive_local[u].pc = "scan"
      BY Zenon, <2>1, <2>3
    <3> QED BY Zenon, <2>4, <3>1, <3>2 DEF ScanInv
  <2>7. A!TagKeepsValue'
    BY Zenon, <1>2 DEF ArchiveInv, A!TagKeepsValue, A!Live, A!Size
  <2> QED BY <2>5, <2>6, <2>7 DEF ArchiveInv
<1> QED BY Zenon, <1>1, <1>2 DEF A!InsertCas

LEMMA RemoveInv ==
  ASSUME A!ImmTagArchiveAssumption, ArchiveInv, NEW v \in Values, A!Remove(v)
  PROVE  ArchiveInv'
<1> DEFINE s == tag_of[v]
<1>1. /\ slots' = [slots EXCEPT ![s] = A!empty]
      /\ tag_of' = [tag_of EXCEPT ![v] = A!Gone]
      /\ archive_local' = archive_local /\ next_slot' = next_slot
      /\ v \in A!Live
  BY DEF A!Remove
<1>2. \A w \in A!Live : w \in Values /\ tag_of[w] \in 0..(A!Size - 1) /\ slots[tag_of[w]] = w
  <2>1. \A w \in A!Live : w \in Values /\ tag_of[w] >= 0 /\ slots[tag_of[w]] = w
    BY Zenon DEF A!Live, ArchiveInv, A!TagKeepsValue
  <2>2. \A w \in Values : tag_of[w] \in {-1, -2} \cup 0..(A!Size - 1)
    BY DEF ArchiveInv, TypeInv, A!Unused, A!Gone
  <2> QED BY <2>1, <2>2, SizeType
<1>3. s \in 0..(A!Size - 1) /\ slots[s] = v
  BY <1>1, <1>2
<1> HIDE DEF s
<1>4. tag_of'[v] = A!Gone /\ \A w \in Values : w # v => tag_of'[w] = tag_of[w]
  BY Zenon, <1>1 DEF ArchiveInv, TypeInv
<1>5. slots'[s] = A!empty /\ \A r \in 0..(A!Size - 1) : r # s => slots'[r] = slots[r]
  BY Zenon, <1>1, <1>3 DEF ArchiveInv, TypeInv
<1>6. TypeInv'
  <2>1. /\ slots' \in [0..(A!Size - 1) -> Values \cup {A!empty}]
        /\ tag_of' \in [Values -> {A!Unused, A!Gone} \cup 0..(A!Size - 1)]
    BY Zenon, <1>1, <1>3 DEF ArchiveInv, TypeInv
  <2> QED BY Zenon, <1>1, <2>1 DEF ArchiveInv, TypeInv, A!Size
<1>7. ScanInv'
  <2>1. \A t \in Inserters : archive_local[t].value # A!empty =>
          archive_local[t].value \in Values /\ archive_local[t].value # v
    <3>1. tag_of[v] # A!Unused
      BY <1>1 DEF A!Live, A!Unused
    <3> QED BY <3>1 DEF ArchiveInv, TypeInv, LocalType, ScanInv
  <2> QED BY Zenon, <1>1, <1>4, <2>1 DEF ArchiveInv, ScanInv
<1>8. A!Live' = A!Live \ {v}
  BY <1>4 DEF A!Live, A!Gone
<1>9. \A w \in A!Live' : slots'[tag_of'[w]] = w
  <2>1. \A w \in A!Live' : w # v /\ tag_of[w] # s
    BY Zenon, <1>2, <1>3, <1>8
  <2> QED BY <1>2, <1>4, <1>5, <1>8, <2>1
<1>10. \A r \in 0..(A!Size - 1) : slots'[r] # A!empty =>
          slots'[r] \in A!Live' /\ tag_of'[slots'[r]] = r
  <2> SUFFICES ASSUME NEW r \in 0..(A!Size - 1), slots'[r] # A!empty
               PROVE  slots'[r] \in A!Live' /\ tag_of'[slots'[r]] = r
    OBVIOUS
  <2>1. r # s /\ slots'[r] = slots[r]
    BY <1>5
  <2>2. slots[r] \in A!Live /\ tag_of[slots[r]] = r
    BY Zenon, <2>1 DEF ArchiveInv, A!TagKeepsValue
  <2>3. slots[r] # v
    BY Zenon, <2>1, <2>2 DEF s
  <2> QED BY Zenon, <1>2, <1>4, <1>8, <2>1, <2>2, <2>3
<1>11. A!TagKeepsValue'
  BY Zenon, <1>9, <1>10 DEF A!TagKeepsValue, A!Size
<1> QED BY <1>6, <1>7, <1>11 DEF ArchiveInv

LEMMA ArchiveNext ==
  ASSUME A!ImmTagArchiveAssumption, ArchiveInv, [A!Next]_A!vars PROVE ArchiveInv'
<1>1. CASE UNCHANGED A!vars
  BY Zenon, <1>1 DEF A!vars, ArchiveInv, TypeInv, ScanInv, A!TagKeepsValue, A!Live, A!Size
<1>2. CASE A!Next
  BY <1>2, InsertStartInv, InsertCasInv, RemoveInv DEF A!Next
<1> QED BY <1>1, <1>2

\* A tag stands for one context from the insert that returns it to its remove:
\* for every number of tags and of threads that scan slots_ at once, no slot is
\* given away twice and remove finds the context that was inserted.
THEOREM ArchiveTagKeepsValue ==
  ASSUME A!ImmTagArchiveAssumption PROVE A!Spec => []A!TagKeepsValue
<1>1. A!Init => ArchiveInv
  BY ArchiveInit
<1>2. ArchiveInv /\ [A!Next]_A!vars => ArchiveInv'
  BY ArchiveNext
<1>3. ArchiveInv => A!TagKeepsValue
  BY DEF ArchiveInv
<1> QED BY <1>1, <1>2, <1>3, PTL DEF A!Spec
=============================================================================
