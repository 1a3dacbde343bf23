--------------------------- MODULE LctQueueProofs ---------------------------
(***************************************************************************)
(* Proofs about the array queues, of all three kinds and both builds, for  *)
(* every capacity and any number of threads, given a caller that pushes    *)
(* only when the pop of the value last in the cell has returned.           *)
(***************************************************************************)
EXTENDS LctQueue, TLAPS

LocalType ==
    [pc : {"idle", "write", "publish", "check", "claim",
           "verify", "rollback", "read", "reset"},
     pos : Nat, result : Int]

TypeInv ==
    /\ top \in Nat /\ bot \in Nat /\ top2 \in Nat
    /\ data \in [Cells -> Int] /\ tag \in [Cells -> Int]
    /\ local \in [Callers -> LocalType]
    /\ DOMAIN returned \subseteq Nat

-----------------------------------------------------------------------------
Writing(t) == local[t].pc \in {"write", "publish"}

\* The push of position p has returned.
Published(p) == p < top /\ \A t \in Producers : Writing(t) => local[t].pos # p

WriteInv ==
    /\ \A t \in Producers : local[t].pc \in {"idle", "write", "publish"}
    /\ \A t \in Producers : Writing(t) => /\ local[t].pos < top
                                          /\ local[t].pos \notin DOMAIN returned
    /\ \A t, u \in Producers :
          Writing(t) /\ Writing(u) /\ local[t].pos = local[u].pos => t = u

\* A cell is used again only after its value was returned.
LapInv == \A p \in Nat : p + length < top => p \in DOMAIN returned

\* Until it is returned, a value that was written is in its cell.
DataInv ==
    \A p \in Nat : p < top =>
        \/ p \in DOMAIN returned
        \/ \E t \in Producers : local[t].pc = "write" /\ local[t].pos = p
        \/ data[Cell(p)] = p

\* What the consumers test is true of published positions only.
ReadableInv ==
    IF Kind = "basic"
    THEN top2 <= top /\ \A t \in Producers : Writing(t) => local[t].pos >= top2
    ELSE \A p \in Nat : tag[Cell(p)] = p => Published(p)

ProducerSide == WriteInv /\ LapInv /\ DataInv /\ ReadableInv

\* A pop that passed the test of a position knows it is published, but only
\* owns what it claimed from bot.
PopInv(t) ==
    /\ local[t].pc \in {"idle", "check", "claim", "verify", "rollback", "read", "reset"}
    /\ local[t].pc = "claim" /\ Kind # "faa" => Published(local[t].pos)
    /\ Claimed(t) => local[t].pos < bot /\ local[t].pos \notin DOMAIN returned
    /\ local[t].pc \in {"read", "reset"} => Published(local[t].pos)
    /\ local[t].pc = "reset" => local[t].result = local[t].pos

ClaimsApart ==
    \A t, u \in Consumers :
        Claimed(t) /\ Claimed(u) /\ local[t].pos = local[u].pos => t = u

ConsumerSide ==
    /\ \A t \in Consumers : PopInv(t)
    /\ ClaimsApart
    /\ \A p \in DOMAIN returned : Published(p)
    /\ ReturnsWhatWasPushed /\ Fifo

QueueInv == TypeInv /\ ProducerSide /\ ConsumerSide

-----------------------------------------------------------------------------
(* Cells. *)

LEMMA Multiple ==
  ASSUME NEW n \in Nat, NEW x \in Nat, NEW y \in Nat, x < y
  PROVE  n * x + n <= n * y
<1>1. PICK d \in Nat : y = x + 1 + d
  <2>1. y - x - 1 \in Nat
    OBVIOUS
  <2> QED BY <2>1
<1>2. n * y = n * x + n + n * d /\ n * d \in Nat /\ n * x \in Nat
  BY <1>1
<1> QED BY <1>2

\* Two positions of one cell are at least a lap apart.
LEMMA SameCell ==
  ASSUME LctQueueAssumption, NEW p \in Nat, NEW q \in Nat, Cell(p) = Cell(q), p < q
  PROVE  p + length <= q
<1> DEFINE n == length
           x == p \div n
           y == q \div n
<1>0. n \in Nat \ {0} /\ p % n = q % n
  BY DEF LctQueueAssumption, length, Cell
<1> HIDE DEF n
<1>1. p = n * x + (p % n) /\ x \in Nat /\ p % n \in Nat
  BY <1>0
<1>2. q = n * y + (q % n) /\ y \in Nat /\ q % n \in Nat
  BY <1>0
<1> HIDE DEF x, y
<1>3. n * x \in Nat /\ n * y \in Nat
  BY <1>0, <1>1, <1>2
<1>4. n * x < n * y
  BY <1>0, <1>1, <1>2, <1>3
<1>5. x < y
  <2> SUFFICES ASSUME y <= x PROVE FALSE
    BY <1>1, <1>2
  <2>1. CASE y = x
    BY <2>1, <1>3, <1>4
  <2>2. CASE y < x
    BY <2>2, <1>0, <1>1, <1>2, <1>3, <1>4, Multiple
  <2> QED BY <2>1, <2>2, <1>1, <1>2
<1>6. n * x + n <= n * y
  BY <1>0, <1>1, <1>2, <1>5, Multiple
<1>7. p + n <= q
  BY <1>0, <1>1, <1>2, <1>3, <1>6
<1> QED BY <1>7 DEF n

LEMMA CellType ==
  ASSUME LctQueueAssumption
  PROVE  length \in Nat /\ length > 1 /\ \A p \in Nat : Cell(p) \in Cells
BY DEF LctQueueAssumption, length, Cell, Cells

\* The tag that a debug build leaves in a cell is no position of that cell.
LEMMA NextPosition ==
  ASSUME LctQueueAssumption, NEW p \in Nat PROVE Cell(p + 1) # Cell(p)
<1>1. CASE Cell(p) = Cell(p + 1)
  <2>1. p + length <= p + 1
    BY <1>1, SameCell
  <2> QED BY <2>1, CellType
<1> QED BY <1>1

-----------------------------------------------------------------------------
LEMMA FrameType ==
  ASSUME NEW c \in {"idle", "write", "publish", "check", "claim",
                    "verify", "rollback", "read", "reset"},
         NEW p \in Nat, NEW v \in Int
  PROVE  /\ Frame(c, p, v) \in LocalType /\ Frame(c, p, NoValue) \in LocalType
         /\ Frame(c, p, v).pc = c /\ Frame(c, p, v).pos = p /\ Frame(c, p, v).result = v
BY DEF Frame, LocalType, NoValue

LEMMA IdleType == Idle \in LocalType /\ Idle.pc = "idle"
BY DEF Idle, Frame, LocalType, NoValue

LEMMA LocalStep ==
  ASSUME TypeInv, NEW t \in Callers, NEW l \in LocalType, local' = [local EXCEPT ![t] = l]
  PROVE  /\ local' \in [Callers -> LocalType] /\ local'[t] = l
         /\ \A u \in Callers : u # t => local'[u] = local[u]
BY DEF TypeInv

LEMMA InitTag ==
  ASSUME LctQueueAssumption, NEW p \in Nat PROVE EmptyTag(Cell(p)) # p
<1> SUFFICES ASSUME EmptyTag(Cell(p)) = p PROVE FALSE
  OBVIOUS
<1>1. Cell(p) \in 0 .. Capacity /\ length = Capacity + 1 /\ Capacity \in Nat \ {0}
  BY CellType DEF Cells, length, LctQueueAssumption
<1>2. p = 0 /\ Cell(p) = Capacity
  BY <1>1 DEF EmptyTag
<1>3. Cell(0) = 0
  BY <1>1 DEF Cell
<1> QED BY <1>1, <1>2, <1>3

LEMMA QueueInit == ASSUME LctQueueAssumption, Init PROVE QueueInv
<1>1. \A t \in Callers : local[t] = Idle /\ local[t].pc = "idle"
  BY IdleType DEF Init
<1>2. DOMAIN returned = {}
  BY DEF Init
<1>3. \A i \in Cells : EmptyTag(i) \in Int
  BY DEF EmptyTag, Cells, length, LctQueueAssumption
<1>4. TypeInv
  BY <1>2, <1>3, IdleType DEF Init, TypeInv, NoValue
<1>5. WriteInv
  BY <1>1, <1>2 DEF WriteInv, Writing, Callers
<1>6. LapInv /\ DataInv
  BY CellType DEF Init, LapInv, DataInv
<1>7. ReadableInv
  <2>1. \A p \in Nat : tag[Cell(p)] = EmptyTag(Cell(p))
    BY CellType DEF Init
  <2>2. \A p \in Nat : tag[Cell(p)] # p
    BY <2>1, InitTag
  <2>3. top2 <= top
    BY DEF Init
  <2> QED BY <1>1, <2>2, <2>3 DEF ReadableInv, Writing, Callers
<1>8. ConsumerSide
  <2>1. \A t \in Consumers : PopInv(t) /\ ~Claimed(t)
    BY <1>1 DEF PopInv, Claimed, Callers
  <2>2. ReturnsWhatWasPushed /\ Fifo
    BY <1>2 DEF ReturnsWhatWasPushed, Fifo, Init
  <2> QED BY <1>2, <2>1, <2>2 DEF ConsumerSide, ClaimsApart
<1> QED BY <1>4, <1>5, <1>6, <1>7, <1>8 DEF QueueInv, ProducerSide

-----------------------------------------------------------------------------
(* What the steps of one side leave alone on the other. *)

\* A step of a consumer, which may return a published position and may empty
\* its cell, keeps what the producers know.
LEMMA ProducersUnaware ==
  ASSUME LctQueueAssumption, TypeInv, TypeInv', ProducerSide,
         \A u \in Producers : local'[u] = local[u],
         top' = top, top2' = top2, data' = data,
         DOMAIN returned \subseteq DOMAIN returned',
         \A p \in DOMAIN returned' : p \in DOMAIN returned \/ Published(p),
         \A p \in Nat : tag'[Cell(p)] = p => tag[Cell(p)] = p
  PROVE  ProducerSide' /\ \A p \in Nat : Published(p)' <=> Published(p)
<1>1. \A u \in Producers : Writing(u)' <=> Writing(u)
  BY DEF Writing
<1>2. \A p \in Nat : Published(p)' <=> Published(p)
  BY <1>1 DEF Published
<1>3. WriteInv'
  <2>1. \A u \in Producers : Writing(u) => local[u].pos \notin DOMAIN returned'
    BY DEF ProducerSide, WriteInv, Published
  <2> QED BY <1>1, <2>1 DEF ProducerSide, WriteInv
<1>4. LapInv'
  BY DEF ProducerSide, LapInv, length
<1>5. DataInv'
  BY DEF ProducerSide, DataInv, Cell, length
<1>6. ReadableInv'
  <2>1. CASE Kind = "basic"
    BY <1>1, <2>1 DEF ProducerSide, ReadableInv
  <2>2. CASE Kind # "basic"
    <3>1. \A p \in Nat : tag'[Cell(p)] = p => Published(p)'
      BY <1>2, <2>2 DEF ProducerSide, ReadableInv
    <3> QED BY <2>2, <3>1 DEF ReadableInv, Cell, length
  <2> QED BY <2>1, <2>2
<1> QED BY <1>2, <1>3, <1>4, <1>5, <1>6 DEF ProducerSide

\* A step of a producer keeps what the consumers know, as long as no published
\* position is written again.
LEMMA ConsumersUnaware ==
  ASSUME LctQueueAssumption, TypeInv, ConsumerSide,
         \A u \in Consumers : local'[u] = local[u],
         bot' = bot, returned' = returned,
         \A p \in Nat : Published(p) => Published(p)'
  PROVE  ConsumerSide'
<1>1. \A u \in Consumers : Claimed(u)' <=> Claimed(u)
  BY DEF Claimed
<1>2. \A u \in Consumers : local[u].pos \in Nat
  BY DEF TypeInv, LocalType, Callers
<1>3. \A u \in Consumers : PopInv(u)'
  <2> SUFFICES ASSUME NEW u \in Consumers PROVE PopInv(u)'
    OBVIOUS
  <2>1. Published(local[u].pos) => Published(local[u].pos)'
    <3>1. PICK p \in Nat : p = local[u].pos /\ p = local'[u].pos
      BY <1>2
    <3> QED BY <3>1 DEF Published, Writing
  <2> QED BY <1>1, <2>1 DEF ConsumerSide, PopInv
<1>4. ClaimsApart'
  BY <1>1 DEF ConsumerSide, ClaimsApart
<1>5. \A p \in DOMAIN returned' : Published(p)'
  BY DEF ConsumerSide, TypeInv
<1>6. ReturnsWhatWasPushed' /\ Fifo'
  BY <1>1 DEF ConsumerSide, ReturnsWhatWasPushed, Fifo, Held
<1> QED BY <1>3, <1>4, <1>5, <1>6 DEF ConsumerSide

-----------------------------------------------------------------------------
(* push *)

LEMMA PushTopInv ==
  ASSUME LctQueueAssumption, ~RoomByCount, QueueInv, NEW t \in Producers, PushTop(t)
  PROVE  QueueInv'
<1> DEFINE l == Frame("write", top, NoValue)
<1>0. top \in Nat /\ t \in Callers /\ top' = top + 1
  BY DEF QueueInv, TypeInv, Callers, PushTop
<1>1. l \in LocalType /\ l.pc = "write" /\ l.pos = top
  BY <1>0, FrameType DEF NoValue
<1>2. local' = [local EXCEPT ![t] = l] /\ UNCHANGED <<bot, top2, data, tag, returned>>
  BY DEF PushTop, Goto
<1>3. local[t].pc = "idle" /\ (top < length \/ top - length \in DOMAIN returned)
  BY DEF PushTop, At, Room
<1> HIDE DEF l
<1>4. /\ local' \in [Callers -> LocalType] /\ local'[t] = l
      /\ \A u \in Callers : u # t => local'[u] = local[u]
  BY Zenon, <1>0, <1>1, <1>2, LocalStep DEF QueueInv
<1>5. TypeInv'
  BY <1>0, <1>2, <1>4 DEF QueueInv, TypeInv, Cells, Callers
<1>6. \A u \in Producers : u # t => local'[u] = local[u] /\ (Writing(u)' <=> Writing(u))
  BY <1>4 DEF Writing, Callers
<1>7. Writing(t)' /\ local'[t].pos = top /\ ~Writing(t)
  BY <1>1, <1>3, <1>4 DEF Writing
<1>8. \A p \in DOMAIN returned : p \in Nat /\ p < top
  BY DEF QueueInv, TypeInv, ConsumerSide, Published
<1>9. \A p \in Nat : Published(p) => Published(p)'
  BY <1>0, <1>6, <1>7 DEF Published
<1>10. WriteInv'
  <2>1. \A u \in Producers : u # t /\ Writing(u)' =>
          local'[u].pos \in Nat /\ local'[u].pos < top /\ local'[u].pos \notin DOMAIN returned
    BY <1>6 DEF QueueInv, TypeInv, LocalType, Callers, ProducerSide, WriteInv
  <2>2. \A u \in Producers : Writing(u)' =>
          local'[u].pos < top' /\ local'[u].pos \notin DOMAIN returned'
    BY <1>0, <1>2, <1>7, <1>8, <2>1
  <2>3. \A u \in Producers : local'[u].pc \in {"idle", "write", "publish"}
    BY <1>1, <1>4, <1>6 DEF QueueInv, ProducerSide, WriteInv
  <2>4. \A u, w \in Producers :
          Writing(u)' /\ Writing(w)' /\ local'[u].pos = local'[w].pos => u = w
    BY <1>0, <1>6, <1>7, <2>1 DEF QueueInv, ProducerSide, WriteInv
  <2> QED BY <2>2, <2>3, <2>4 DEF WriteInv
<1>11. LapInv'
  <2>1. \A p \in Nat : p + length < top + 1 => p + length < top \/ p = top - length
    BY <1>0, CellType
  <2>2. \A p \in Nat : p + length < top + 1 => p \in DOMAIN returned
    BY <1>0, <1>3, <2>1, CellType DEF QueueInv, ProducerSide, LapInv
  <2> QED BY <1>0, <1>2, <2>2 DEF LapInv, length
<1>12. DataInv'
  <2> SUFFICES ASSUME NEW p \in Nat, p < top + 1
               PROVE  \/ p \in DOMAIN returned
                      \/ \E u \in Producers : local'[u].pc = "write" /\ local'[u].pos = p
                      \/ data[Cell(p)] = p
    BY <1>0, <1>2 DEF DataInv, Cell, length
  <2>1. CASE p = top
    BY <1>1, <1>4, <2>1
  <2>2. CASE p < top
    BY <1>3, <1>6, <2>2 DEF QueueInv, ProducerSide, DataInv
  <2> QED BY <1>0, <2>1, <2>2
<1>13. ReadableInv'
  <2>1. CASE Kind = "basic"
    <3>1. top2 \in Nat /\ top2 <= top /\ \A u \in Producers : Writing(u) => local[u].pos >= top2
      BY <2>1 DEF QueueInv, TypeInv, ProducerSide, ReadableInv
    <3> QED BY <1>0, <1>2, <1>6, <1>7, <2>1, <3>1 DEF ReadableInv
  <2>2. CASE Kind # "basic"
    <3>1. \A p \in Nat : tag'[Cell(p)] = p => Published(p)'
      BY <1>2, <1>9, <2>2 DEF QueueInv, ProducerSide, ReadableInv
    <3> QED BY <2>2, <3>1 DEF ReadableInv, Cell, length
  <2> QED BY <2>1, <2>2
<1>14. ConsumerSide'
  <2>1. \A u \in Consumers : local'[u] = local[u]
    BY <1>4 DEF LctQueueAssumption, Callers
  <2> QED BY <1>2, <1>9, <2>1, ConsumersUnaware DEF QueueInv
<1> QED BY <1>5, <1>10, <1>11, <1>12, <1>13, <1>14 DEF QueueInv, ProducerSide

LEMMA PushWriteInv ==
  ASSUME LctQueueAssumption, QueueInv, NEW t \in Producers, PushWrite(t)
  PROVE  QueueInv'
<1> DEFINE q == local[t].pos
           l == Frame("publish", q, NoValue)
<1>0. q \in Nat /\ t \in Callers
  BY DEF QueueInv, TypeInv, LocalType, Callers
<1>1. l \in LocalType /\ l.pc = "publish" /\ l.pos = q
  BY <1>0, FrameType DEF NoValue
<1>2. /\ local' = [local EXCEPT ![t] = l]
      /\ data' = [data EXCEPT ![Cell(q)] = q]
      /\ top' = top /\ bot' = bot /\ top2' = top2 /\ tag' = tag /\ returned' = returned
  BY DEF PushWrite, Goto, counters
<1>3. local[t].pc = "write" /\ local[t].pos = q
  BY DEF PushWrite, At
<1> HIDE DEF l, q
<1>4. /\ local' \in [Callers -> LocalType] /\ local'[t] = l
      /\ \A u \in Callers : u # t => local'[u] = local[u]
  BY Zenon, <1>0, <1>1, <1>2, LocalStep DEF QueueInv
<1>5. data' \in [Cells -> Int] /\ data'[Cell(q)] = q
      /\ \A i \in Cells : i # Cell(q) => data'[i] = data[i]
  BY <1>0, <1>2, CellType DEF QueueInv, TypeInv
<1>6. TypeInv'
  BY <1>2, <1>4, <1>5 DEF QueueInv, TypeInv, Cells, Callers
<1>7. \A u \in Producers : local'[u].pos = local[u].pos /\ (Writing(u)' <=> Writing(u))
  BY <1>1, <1>3, <1>4 DEF Writing, Callers
<1>8. \A p \in Nat : Published(p) <=> Published(p)'
  BY <1>2, <1>7 DEF Published
<1>9. WriteInv'
  BY <1>1, <1>2, <1>4, <1>7 DEF QueueInv, ProducerSide, WriteInv, Callers
<1>10. LapInv'
  BY <1>2 DEF QueueInv, ProducerSide, LapInv, length
<1>11. q < top /\ q \notin DOMAIN returned /\ top \in Nat
  BY <1>3 DEF QueueInv, TypeInv, ProducerSide, WriteInv, Writing
<1>12. DataInv'
  <2> SUFFICES ASSUME NEW p \in Nat, p < top, p \notin DOMAIN returned
               PROVE  \/ \E u \in Producers : local'[u].pc = "write" /\ local'[u].pos = p
                      \/ data'[Cell(p)] = p
    BY <1>2 DEF DataInv, Cell, length
  <2>1. CASE p = q
    BY <1>5, <2>1
  <2>2. CASE p # q
    <3>1. Cell(p) # Cell(q)
      <4> SUFFICES ASSUME Cell(p) = Cell(q) PROVE FALSE
        OBVIOUS
      <4>1. CASE p < q
        <5>1. p + length < top
          BY <1>0, <1>11, <4>1, SameCell, CellType
        <5> QED BY <5>1 DEF QueueInv, ProducerSide, LapInv
      <4>2. CASE q < p
        <5>1. q + length < top
          BY <1>0, <1>11, <4>2, SameCell, CellType
        <5> QED BY <1>0, <1>11, <5>1 DEF QueueInv, ProducerSide, LapInv
      <4> QED BY <1>0, <2>2, <4>1, <4>2
    <3>2. \/ \E u \in Producers : local[u].pc = "write" /\ local[u].pos = p
          \/ data[Cell(p)] = p
      BY DEF QueueInv, ProducerSide, DataInv
    <3>3. \A u \in Producers : local[u].pos = p => local'[u] = local[u]
      BY <1>3, <1>4, <2>2 DEF Callers
    <3> QED BY <1>5, <3>1, <3>2, <3>3, CellType
  <2> QED BY <2>1, <2>2
<1>13. ReadableInv'
  <2>1. CASE Kind = "basic"
    BY <1>2, <1>7, <2>1 DEF QueueInv, ProducerSide, ReadableInv
  <2>2. CASE Kind # "basic"
    <3>1. \A p \in Nat : tag'[Cell(p)] = p => Published(p)'
      BY <1>2, <1>8, <2>2 DEF QueueInv, ProducerSide, ReadableInv
    <3> QED BY <2>2, <3>1 DEF ReadableInv, Cell, length
  <2> QED BY <2>1, <2>2
<1>14. ConsumerSide'
  <2>1. \A u \in Consumers : local'[u] = local[u]
    BY <1>4 DEF LctQueueAssumption, Callers
  <2> QED BY <1>2, <1>8, <2>1, ConsumersUnaware DEF QueueInv
<1> QED BY <1>6, <1>9, <1>10, <1>12, <1>13, <1>14 DEF QueueInv, ProducerSide

\* The step that publishes the position and ends the push.
LEMMA PublishInv ==
  ASSUME LctQueueAssumption, QueueInv, NEW t \in Producers, local[t].pc = "publish",
         local' = [local EXCEPT ![t] = Idle], data' = data,
         top' = top, bot' = bot, returned' = returned,
         \/ /\ Kind # "basic" /\ top2' = top2
            /\ tag' = [tag EXCEPT ![Cell(local[t].pos)] = local[t].pos]
         \/ /\ Kind = "basic" /\ tag' = tag
            /\ top2 = local[t].pos /\ top2' = top2 + 1
  PROVE  QueueInv'
<1> DEFINE q == local[t].pos
<1>0. q \in Nat /\ t \in Callers /\ top \in Nat /\ top2 \in Nat
  BY DEF QueueInv, TypeInv, LocalType, Callers
<1>1. /\ local' \in [Callers -> LocalType] /\ local'[t] = Idle
      /\ \A u \in Callers : u # t => local'[u] = local[u]
  BY Zenon, <1>0, IdleType, LocalStep DEF QueueInv
<1>2. tag' \in [Cells -> Int] /\ top2' \in Nat
  BY <1>0, CellType DEF QueueInv, TypeInv
<1>3. TypeInv'
  BY <1>1, <1>2 DEF QueueInv, TypeInv, Cells, Callers
<1>4. \A u \in Producers : u # t => local'[u] = local[u] /\ (Writing(u)' <=> Writing(u))
  BY <1>1 DEF Writing, Callers
<1>5. ~Writing(t)' /\ Writing(t) /\ local'[t].pc = "idle"
  BY <1>1, IdleType DEF Writing
<1>6. \A u \in Producers : Writing(u)' => u # t /\ Writing(u) /\ local'[u] = local[u]
                                            /\ local[u].pos # q
  BY <1>4, <1>5 DEF QueueInv, ProducerSide, WriteInv
<1>7. q < top
  BY <1>5 DEF QueueInv, ProducerSide, WriteInv
<1>8. \A p \in Nat : Published(p) \/ p = q => Published(p)'
  BY <1>6, <1>7 DEF Published
<1>9. WriteInv'
  BY <1>4, <1>5, <1>6 DEF QueueInv, ProducerSide, WriteInv
<1>10. LapInv'
  BY DEF QueueInv, ProducerSide, LapInv, length
<1>11. DataInv'
  <2>1. \A u \in Producers : local[u].pc = "write" => local'[u] = local[u]
    BY <1>4
  <2> QED BY <2>1 DEF QueueInv, ProducerSide, DataInv, Cell, length
<1>12. ReadableInv'
  <2>1. CASE Kind = "basic"
    <3>1. \A u \in Producers : Writing(u)' => local'[u].pos \in Nat /\ local'[u].pos >= top2
                                              /\ local'[u].pos # q
      BY <1>6, <2>1 DEF QueueInv, TypeInv, LocalType, Callers, ProducerSide, ReadableInv
    <3> QED BY <1>0, <1>7, <2>1, <3>1 DEF ReadableInv
  <2>2. CASE Kind # "basic"
    <3>1. \A p \in Nat : tag'[Cell(p)] = p => p = q \/ tag[Cell(p)] = p
      BY <1>0, <2>2, CellType DEF QueueInv, TypeInv
    <3>2. \A p \in Nat : tag'[Cell(p)] = p => Published(p)'
      BY <1>8, <2>2, <3>1 DEF QueueInv, ProducerSide, ReadableInv
    <3> QED BY <2>2, <3>2 DEF ReadableInv, Cell, length
  <2> QED BY <2>1, <2>2
<1>13. ConsumerSide'
  <2>1. \A u \in Consumers : local'[u] = local[u]
    BY <1>1 DEF LctQueueAssumption, Callers
  <2> QED BY <1>8, <2>1, ConsumersUnaware DEF QueueInv
<1> QED BY <1>3, <1>9, <1>10, <1>11, <1>12, <1>13 DEF QueueInv, ProducerSide

LEMMA PushInv ==
  ASSUME LctQueueAssumption, ~RoomByCount, QueueInv, NEW t \in Producers, Push(t)
  PROVE  QueueInv'
<1>1. CASE PushTop(t)
  BY <1>1, PushTopInv
<1>2. CASE PushWrite(t)
  BY <1>2, PushWriteInv
<1>3. CASE PushTag(t)
  <2>1. /\ local[t].pc = "publish" /\ local' = [local EXCEPT ![t] = Idle]
        /\ data' = data /\ top' = top /\ bot' = bot /\ returned' = returned
        /\ Kind # "basic" /\ top2' = top2
        /\ tag' = [tag EXCEPT ![Cell(local[t].pos)] = local[t].pos]
    BY <1>3 DEF PushTag, At, Return, counters
  <2> QED BY Zenon, <2>1, PublishInv
<1>4. CASE PushTop2(t)
  <2>1. /\ local[t].pc = "publish" /\ local' = [local EXCEPT ![t] = Idle]
        /\ data' = data /\ top' = top /\ bot' = bot /\ returned' = returned
        /\ Kind = "basic" /\ tag' = tag
        /\ top2 = local[t].pos /\ top2' = top2 + 1
    BY <1>4 DEF PushTop2, At, Return
  <2> QED BY Zenon, <2>1, PublishInv
<1> QED BY <1>1, <1>2, <1>3, <1>4 DEF Push

-----------------------------------------------------------------------------
(* pop *)

Owning == {"verify", "rollback", "read", "reset"}

\* Others than t hold position p.
HeldByOther(t, p) == \E u \in Consumers : u # t /\ Claimed(u) /\ local[u].pos = p

\* A step of a pop that returns no value: t goes to l and bot to its next value.
LEMMA PopStep ==
  ASSUME LctQueueAssumption, QueueInv, NEW t \in Consumers, NEW l \in LocalType,
         local' = [local EXCEPT ![t] = l], bot' \in Nat,
         top' = top, top2' = top2, data' = data, tag' = tag, returned' = returned,
         l.pc \in {"idle", "check", "claim"} \cup Owning,
         l.pc = "claim" /\ Kind # "faa" => Published(l.pos),
         l.pc \in {"read", "reset"} => Published(l.pos),
         l.pc = "reset" => l.result = l.pos,
         l.pc \in Owning => /\ l.pos < bot' /\ l.pos \notin DOMAIN returned
                            /\ ~HeldByOther(t, l.pos),
         \A p \in Nat : p \in DOMAIN returned \/ HeldByOther(t, p) => p < bot',
         \A p \in Nat : p < bot' => \/ p \in DOMAIN returned \/ HeldByOther(t, p)
                                    \/ l.pc \in Owning /\ l.pos = p
  PROVE  QueueInv'
<1>0. t \in Callers
  BY DEF Callers
<1>1. /\ local' \in [Callers -> LocalType] /\ local'[t] = l
      /\ \A u \in Callers : u # t => local'[u] = local[u]
  BY Zenon, <1>0, LocalStep DEF QueueInv
<1>2. TypeInv'
  BY <1>1 DEF QueueInv, TypeInv, Cells, Callers
<1>3. \A u \in Producers : local'[u] = local[u]
  BY <1>1 DEF LctQueueAssumption, Callers
<1>4. ProducerSide' /\ \A p \in Nat : Published(p)' <=> Published(p)
  BY <1>2, <1>3, ProducersUnaware DEF QueueInv
<1>5. \A u \in Consumers : u # t => local'[u] = local[u] /\ (Claimed(u)' <=> Claimed(u))
  BY <1>1 DEF Claimed, Callers
<1>6. Claimed(t)' <=> l.pc \in Owning
  BY <1>1 DEF Claimed, Owning
<1>7. \A u \in Callers : local[u].pos \in Nat /\ local'[u].pos \in Nat
  BY <1>1 DEF QueueInv, TypeInv, LocalType
<1>8. \A u \in Consumers : PopInv(u)'
  <2> SUFFICES ASSUME NEW u \in Consumers PROVE PopInv(u)'
    OBVIOUS
  <2>0. PICK x \in Nat : x = local'[u].pos
    BY <1>7 DEF Callers
  <2>1. Published(x) <=> Published(local[u].pos)'
    <3>1. Published(x)' <=> Published(local[u].pos)'
      BY <2>0 DEF Published
    <3> QED BY <1>4, <3>1
  <2>2. CASE u = t
    BY <1>1, <1>6, <2>0, <2>1, <2>2 DEF PopInv, Owning
  <2>3. CASE u # t
    <3>1. local'[u] = local[u] /\ (Claimed(u)' <=> Claimed(u)) /\ PopInv(u)
      BY <1>5, <2>3 DEF QueueInv, ConsumerSide
    <3>2. Claimed(u) => local[u].pos < bot'
      BY <1>7, <2>3 DEF HeldByOther, Callers
    <3> QED BY <2>0, <2>1, <3>1, <3>2 DEF PopInv
  <2> QED BY <2>2, <2>3
<1>9. ClaimsApart'
  <2>1. \A u \in Consumers : u # t /\ Claimed(u) /\ l.pc \in Owning => local[u].pos # l.pos
    BY DEF HeldByOther
  <2> QED BY <1>1, <1>5, <1>6, <2>1 DEF QueueInv, ConsumerSide, ClaimsApart
<1>10. \A p \in DOMAIN returned' : Published(p)'
  BY <1>4 DEF QueueInv, TypeInv, ConsumerSide
<1>11. ReturnsWhatWasPushed'
  BY DEF QueueInv, ConsumerSide, ReturnsWhatWasPushed
<1>12. Fifo'
  <2>1. \A p \in DOMAIN returned' : p < bot'
    BY DEF QueueInv, TypeInv
  <2>2. \A p : HeldByOther(t, p) => Held(p)'
    BY <1>5 DEF HeldByOther, Held
  <2>3. \A p : l.pc \in Owning /\ l.pos = p => Held(p)'
    BY <1>1, <1>6 DEF Held
  <2>4. \A p \in 0 .. bot' - 1 : p \in DOMAIN returned' \/ Held(p)'
    <3> SUFFICES ASSUME NEW p \in 0 .. bot' - 1 PROVE p \in DOMAIN returned' \/ Held(p)'
      BY Zenon
    <3>0. \A b \in Nat : \A q \in 0 .. b - 1 : q \in Nat /\ q < b
      OBVIOUS
    <3>1. p \in Nat /\ p < bot'
      BY <3>0, Zenon
    <3>2. p \in DOMAIN returned \/ HeldByOther(t, p) \/ (l.pc \in Owning /\ l.pos = p)
      BY <3>1
    <3> QED BY <2>2, <2>3, <3>2
  <2> QED BY Zenon, <2>1, <2>4 DEF Fifo
<1> QED BY <1>2, <1>4, <1>8, <1>9, <1>10, <1>11, <1>12 DEF QueueInv, ConsumerSide

\* What every thread that pops knows of the positions below bot.
LEMMA PopFacts ==
  ASSUME LctQueueAssumption, QueueInv, NEW t \in Consumers
  PROVE  /\ local[t].pos \in Nat /\ bot \in Nat
         /\ \A p \in Nat : p \in DOMAIN returned \/ HeldByOther(t, p) => p < bot
         /\ \A p \in Nat : p < bot => \/ p \in DOMAIN returned \/ HeldByOther(t, p)
                                      \/ Claimed(t) /\ local[t].pos = p
         /\ Claimed(t) => /\ local[t].pos < bot /\ local[t].pos \notin DOMAIN returned
                          /\ ~HeldByOther(t, local[t].pos)
         /\ Claimed(t) <=> local[t].pc \in Owning
         /\ \A p \in Nat : Readable(p) => Published(p)
<1>1. local[t].pos \in Nat /\ bot \in Nat
  BY DEF QueueInv, TypeInv, LocalType, Callers
<1>2. \A p \in Nat : p \in DOMAIN returned \/ HeldByOther(t, p) => p < bot
  BY DEF QueueInv, ConsumerSide, Fifo, PopInv, HeldByOther
<1>3. \A p \in Nat : p < bot => \/ p \in DOMAIN returned \/ HeldByOther(t, p)
                                \/ Claimed(t) /\ local[t].pos = p
  <2>1. \A p \in Nat : p < bot => p \in 0 .. bot - 1
    BY <1>1
  <2> QED BY <2>1 DEF QueueInv, ConsumerSide, Fifo, Held, HeldByOther
<1>4. Claimed(t) => /\ local[t].pos < bot /\ local[t].pos \notin DOMAIN returned
                    /\ ~HeldByOther(t, local[t].pos)
  BY DEF QueueInv, ConsumerSide, PopInv, ClaimsApart, HeldByOther
<1>5. Claimed(t) <=> local[t].pc \in Owning
  BY DEF Claimed, Owning
<1>6. \A p \in Nat : Readable(p) => Published(p)
  <2>1. top \in Nat /\ top2 \in Nat /\ \A u \in Producers : local[u].pos \in Nat
    BY DEF QueueInv, TypeInv, LocalType, Callers
  <2> QED BY <2>1 DEF QueueInv, ProducerSide, ReadableInv, Readable, Published
<1> QED BY <1>1, <1>2, <1>3, <1>4, <1>5, <1>6

\* The steps up to the claim that leave bot alone: the load, the test, and the
\* return without a value.
LEMMA PopLooksInv ==
  ASSUME LctQueueAssumption, QueueInv, NEW t \in Consumers,
         ~Claimed(t),
         NEW c \in {"idle", "check", "claim"}, NEW p \in Nat,
         c = "claim" => Published(p),
         local' = [local EXCEPT ![t] = Frame(c, p, NoValue)],
         bot' = bot, top' = top, top2' = top2, data' = data, tag' = tag,
         returned' = returned
  PROVE  QueueInv'
<1> DEFINE l == Frame(c, p, NoValue)
<1>1. l \in LocalType /\ l.pc = c /\ l.pos = p
  BY FrameType DEF NoValue
<1> HIDE DEF l
<1>2. l.pc \notin Owning /\ l.pc \in {"idle", "check", "claim"}
  BY <1>1 DEF Owning
<1>3. local' = [local EXCEPT ![t] = l]
  BY DEF l
<1>4. bot' \in Nat
  BY PopFacts
<1>5. \A q \in Nat : q < bot' => q \in DOMAIN returned \/ HeldByOther(t, q)
  BY PopFacts
<1>6. \A q \in Nat : q \in DOMAIN returned \/ HeldByOther(t, q) => q < bot'
  BY PopFacts
<1> QED BY Zenon, <1>1, <1>2, <1>3, <1>4, <1>5, <1>6, PopStep DEF Owning

\* A claim: the position is bot, and nobody has had it or has it.
LEMMA PopClaimsInv ==
  ASSUME LctQueueAssumption, QueueInv, NEW t \in Consumers,
         ~Claimed(t),
         NEW c \in {"verify", "read"}, c = "read" => Published(bot),
         local' = [local EXCEPT ![t] = Frame(c, bot, NoValue)],
         bot' = bot + 1, top' = top, top2' = top2, data' = data, tag' = tag,
         returned' = returned
  PROVE  QueueInv'
<1> DEFINE l == Frame(c, bot, NoValue)
<1>0. bot \in Nat
  BY PopFacts
<1>1. l \in LocalType /\ l.pc = c /\ l.pos = bot
  BY <1>0, FrameType DEF NoValue
<1> HIDE DEF l
<1>2. l.pc \in Owning /\ l.pc \in {"verify", "read"}
  BY <1>1 DEF Owning
<1>3. local' = [local EXCEPT ![t] = l]
  BY DEF l
<1>4. bot \notin DOMAIN returned /\ ~HeldByOther(t, bot)
  BY <1>0, PopFacts
<1>5. \A q \in Nat : q < bot' => q \in DOMAIN returned \/ HeldByOther(t, q) \/ l.pos = q
  BY <1>0, <1>1, PopFacts
<1>6. \A q \in Nat : q \in DOMAIN returned \/ HeldByOther(t, q) => q < bot'
  BY <1>0, PopFacts
<1>7. bot' \in Nat /\ l.pos < bot' /\ l.pos \notin DOMAIN returned
      /\ ~HeldByOther(t, l.pos)
  BY <1>0, <1>1, <1>4
<1>8. l.pc \in {"read", "reset"} => Published(l.pos)
  BY <1>1
<1>9. l.pc # "claim" /\ l.pc # "reset"
  BY <1>1
<1> QED BY Zenon, <1>1, <1>2, <1>3, <1>5, <1>6, <1>7, <1>8, <1>9, PopStep

\* A step that keeps the claim.
LEMMA PopKeepsInv ==
  ASSUME LctQueueAssumption, QueueInv, NEW t \in Consumers, Claimed(t),
         NEW c \in Owning, NEW v \in Int,
         c \in {"read", "reset"} => Published(local[t].pos),
         c = "reset" => v = local[t].pos,
         local' = [local EXCEPT ![t] = Frame(c, local[t].pos, v)],
         bot' = bot, top' = top, top2' = top2, data' = data, tag' = tag,
         returned' = returned
  PROVE  QueueInv'
<1> DEFINE p == local[t].pos
           l == Frame(c, p, v)
<1>0. p \in Nat /\ bot \in Nat
  BY PopFacts
<1>1. l \in LocalType /\ l.pc = c /\ l.pos = p /\ l.result = v
  BY <1>0, FrameType DEF Owning
<1>2. local' = [local EXCEPT ![t] = l]
  OBVIOUS
<1>3. p < bot /\ p \notin DOMAIN returned /\ ~HeldByOther(t, p)
  BY PopFacts
<1>4. \A q \in Nat : q < bot => q \in DOMAIN returned \/ HeldByOther(t, q) \/ p = q
  BY PopFacts
<1>5. \A q \in Nat : q \in DOMAIN returned \/ HeldByOther(t, q) => q < bot
  BY PopFacts
<1> HIDE DEF l
<1>6. l.pc # "claim"
  BY <1>1 DEF Owning
<1> QED BY Zenon, <1>0, <1>1, <1>2, <1>3, <1>4, <1>5, <1>6, PopStep

LEMMA PopRollbackInv ==
  ASSUME LctQueueAssumption, QueueInv, NEW t \in Consumers, PopRollback(t)
  PROVE  QueueInv'
<1> DEFINE p == local[t].pos
<1>0. /\ Claimed(t) /\ p \in Nat /\ bot \in Nat
      /\ top' = top /\ top2' = top2 /\ data' = data /\ tag' = tag /\ returned' = returned
  BY Zenon, PopFacts DEF PopRollback, At, Claimed
<1>1. CASE bot = p + 1
  <2>1. bot' = p /\ local' = [local EXCEPT ![t] = Idle]
    BY <1>1 DEF PopRollback, Return
  <2>2. Idle \in LocalType /\ Idle.pc = "idle" /\ Idle.pc \notin Owning
    BY IdleType DEF Owning
  <2>3. p \notin DOMAIN returned /\ ~HeldByOther(t, p)
    BY <1>0, PopFacts
  <2>4. \A q \in Nat : q \in DOMAIN returned \/ HeldByOther(t, q) => q < p
    <3>1. \A q \in Nat : q \in DOMAIN returned \/ HeldByOther(t, q) => q < bot
      BY PopFacts
    <3> QED BY <1>0, <1>1, <2>3, <3>1
  <2>5. \A q \in Nat : q < p => q \in DOMAIN returned \/ HeldByOther(t, q)
    <3>1. \A q \in Nat : q < bot => q \in DOMAIN returned \/ HeldByOther(t, q) \/ p = q
      BY PopFacts
    <3> QED BY <1>0, <1>1, <3>1
  <2> QED BY Zenon, <1>0, <2>1, <2>2, <2>4, <2>5, PopStep
<1>2. CASE bot # p + 1
  <2>1. bot' = bot /\ local' = [local EXCEPT ![t] = Frame("verify", p, NoValue)]
    BY <1>2 DEF PopRollback, Goto
  <2>2. "verify" \in Owning /\ NoValue \in Int
    BY DEF Owning, NoValue
  <2> QED BY Zenon, <1>0, <2>1, <2>2, PopKeepsInv
<1> QED BY <1>1, <1>2

\* The step that ends a pop with its value; a debug build empties the cell.
LEMMA PopReturnsInv ==
  ASSUME LctQueueAssumption, QueueInv, NEW t \in Consumers,
         local[t].pc \in {"read", "reset"},
         ReturnValue(t, local[t].pos, local[t].pos),
         bot' = bot, top' = top, top2' = top2, data' = data,
         tag' = tag \/ tag' = [tag EXCEPT ![Cell(local[t].pos)] = local[t].pos + 1]
  PROVE  QueueInv'
<1> DEFINE p == local[t].pos
<1>0. Claimed(t) /\ t \in Callers
  BY DEF Claimed, Callers
<1>1. /\ p \in Nat /\ bot \in Nat /\ p < bot /\ p \notin DOMAIN returned
      /\ ~HeldByOther(t, p) /\ Published(p)
  BY Zenon, <1>0, PopFacts DEF QueueInv, ConsumerSide, PopInv
<1>2. /\ DOMAIN returned' = DOMAIN returned \cup {p} /\ returned'[p] = p
      /\ \A q \in DOMAIN returned : returned'[q] = returned[q]
  BY <1>1 DEF ReturnValue
<1>3. /\ local' \in [Callers -> LocalType] /\ local'[t] = Idle
      /\ \A u \in Callers : u # t => local'[u] = local[u]
  BY Zenon, <1>0, IdleType, LocalStep DEF QueueInv, ReturnValue, Return
<1>4. tag' \in [Cells -> Int]
  BY <1>1, CellType DEF QueueInv, TypeInv
<1>5. TypeInv'
  BY <1>1, <1>2, <1>3, <1>4 DEF QueueInv, TypeInv, Cells, Callers
<1>6. \A q \in Nat : tag'[Cell(q)] = q => tag[Cell(q)] = q
  <2> SUFFICES ASSUME NEW q \in Nat, tag'[Cell(q)] = q, tag[Cell(q)] # q PROVE FALSE
    OBVIOUS
  <2>1. Cell(q) = Cell(p) /\ q = p + 1
    BY <1>1, CellType DEF QueueInv, TypeInv
  <2> QED BY Zenon, <1>1, <2>1, NextPosition
<1>7. ProducerSide' /\ \A q \in Nat : Published(q)' <=> Published(q)
  <2>1. \A u \in Producers : local'[u] = local[u]
    BY <1>3 DEF LctQueueAssumption, Callers
  <2>2. \A q \in DOMAIN returned' : q \in DOMAIN returned \/ Published(q)
    BY <1>1, <1>2
  <2> QED BY Zenon, <1>2, <1>5, <1>6, <2>1, <2>2, ProducersUnaware DEF QueueInv
<1>8. \A u \in Consumers : u # t => local'[u] = local[u] /\ (Claimed(u)' <=> Claimed(u))
  BY <1>3 DEF Claimed, Callers
<1>9. ~Claimed(t)' /\ local'[t].pc = "idle"
  BY <1>3, IdleType DEF Claimed
<1>10. \A u \in Consumers : PopInv(u)'
  <2> SUFFICES ASSUME NEW u \in Consumers PROVE PopInv(u)'
    OBVIOUS
  <2>1. CASE u = t
    BY Zenon, <1>9, <2>1 DEF PopInv
  <2>2. CASE u # t
    <3>1. local'[u] = local[u] /\ (Claimed(u)' <=> Claimed(u)) /\ PopInv(u)
      BY Zenon, <1>8, <2>2 DEF QueueInv, ConsumerSide
    <3>2. PICK x \in Nat : x = local[u].pos /\ x = local'[u].pos
      BY <3>1 DEF QueueInv, TypeInv, LocalType, Callers
    <3>3. Published(x) <=> Published(local[u].pos)'
      <4>1. Published(x)' <=> Published(local[u].pos)'
        BY <3>2 DEF Published
      <4> QED BY <1>7, <4>1
    <3>4. Claimed(u) => x # p
      BY Zenon, <1>1, <2>2, <3>2 DEF HeldByOther
    <3> HIDE DEF p
    <3> QED BY Zenon, <1>2, <3>1, <3>2, <3>3, <3>4 DEF PopInv
  <2> QED BY <2>1, <2>2
<1>11. ClaimsApart'
  BY <1>8, <1>9 DEF QueueInv, ConsumerSide, ClaimsApart
<1>12. \A q \in DOMAIN returned' : Published(q)'
  <2>1. \A q \in DOMAIN returned' : q \in Nat /\ Published(q)
    BY <1>1, <1>2 DEF QueueInv, TypeInv, ConsumerSide
  <2> QED BY Zenon, <1>7, <2>1
<1>13. ReturnsWhatWasPushed'
  <2>1. \A q \in DOMAIN returned' : returned'[q] = q
    BY <1>2 DEF QueueInv, ConsumerSide, ReturnsWhatWasPushed
  <2> QED BY Zenon, <2>1 DEF ReturnsWhatWasPushed
<1>14. Fifo'
  <2>1. \A q \in DOMAIN returned' : q < bot
    BY Zenon, <1>1, <1>2 DEF QueueInv, ConsumerSide, Fifo
  <2>2. \A q : Held(q) => q = p \/ Held(q)'
    BY <1>8 DEF Held
  <2>3. \A q \in 0 .. bot - 1 : q \in DOMAIN returned' \/ Held(q)'
    BY Zenon, <1>2, <2>2 DEF QueueInv, ConsumerSide, Fifo
  <2> QED BY <2>1, <2>3 DEF Fifo
<1> QED BY Zenon, <1>5, <1>7, <1>10, <1>11, <1>12, <1>13, <1>14 DEF QueueInv, ConsumerSide

LEMMA PopLoadCheckInv ==
  ASSUME LctQueueAssumption, QueueInv, NEW t \in Consumers, PopLoad(t) \/ PopCheck(t)
  PROVE  QueueInv'
<1>0. local[t].pos \in Nat /\ bot \in Nat /\ \A p \in Nat : Readable(p) => Published(p)
  BY PopFacts
<1>1. CASE PopLoad(t)
  <2>1. /\ ~Claimed(t) /\ local' = [local EXCEPT ![t] = Frame("check", bot, NoValue)]
        /\ bot' = bot /\ top' = top /\ top2' = top2 /\ data' = data /\ tag' = tag
        /\ returned' = returned
    BY <1>1 DEF PopLoad, At, Goto, Claimed, counters
  <2> QED BY Zenon, <1>0, <2>1, PopLooksInv
<1>2. CASE PopCheck(t)
  <2>0. /\ ~Claimed(t) /\ bot' = bot /\ top' = top /\ top2' = top2 /\ data' = data
        /\ tag' = tag /\ returned' = returned
    BY Zenon, <1>2 DEF PopCheck, At, Claimed, counters
  <2>1. CASE Readable(local[t].pos)
    <3>1. local' = [local EXCEPT ![t] = Frame("claim", local[t].pos, NoValue)]
      BY <1>2, <2>1 DEF PopCheck, Goto
    <3> QED BY Zenon, <1>0, <2>0, <2>1, <3>1, PopLooksInv
  <2>2. CASE ~Readable(local[t].pos)
    <3>1. local' = [local EXCEPT ![t] = Frame("idle", 0, NoValue)]
      BY <1>2, <2>2 DEF PopCheck, Return, Idle
    <3> QED BY Zenon, <2>0, <3>1, PopLooksInv
  <2> QED BY <2>1, <2>2
<1> QED BY <1>1, <1>2

LEMMA PopClaimInv ==
  ASSUME LctQueueAssumption, QueueInv, NEW t \in Consumers, PopAdd(t) \/ PopCas(t)
  PROVE  QueueInv'
<1>0. /\ ~Claimed(t) /\ top' = top /\ top2' = top2 /\ data' = data
      /\ tag' = tag /\ returned' = returned
  BY DEF PopAdd, PopCas, At, Claimed
<1>1. CASE PopAdd(t)
  <2>1. bot' = bot + 1 /\ local' = [local EXCEPT ![t] = Frame("verify", bot, NoValue)]
    BY <1>1 DEF PopAdd, Goto
  <2> QED BY Zenon, <1>0, <2>1, PopClaimsInv
<1>2. CASE PopCas(t) /\ bot = local[t].pos
  <2>1. bot' = bot + 1 /\ local' = [local EXCEPT ![t] = Frame("read", bot, NoValue)]
    BY <1>2 DEF PopCas, Goto
  <2>2. Published(bot)
    BY Zenon, <1>2 DEF PopCas, At, QueueInv, ConsumerSide, PopInv
  <2> QED BY Zenon, <1>0, <2>1, <2>2, PopClaimsInv
<1>3. CASE PopCas(t) /\ bot # local[t].pos
  <2>1. bot' = bot /\ local' = [local EXCEPT ![t] = Frame("idle", 0, NoValue)]
    BY <1>3 DEF PopCas, Return, Idle
  <2> QED BY Zenon, <1>0, <2>1, PopLooksInv
<1> QED BY <1>1, <1>2, <1>3

LEMMA PopVerifyInv ==
  ASSUME LctQueueAssumption, QueueInv, NEW t \in Consumers, PopVerify(t)
  PROVE  QueueInv'
<1>0. /\ Claimed(t) /\ bot' = bot /\ top' = top /\ top2' = top2 /\ data' = data
      /\ tag' = tag /\ returned' = returned /\ NoValue \in Int
  BY DEF PopVerify, At, Claimed, counters, NoValue
<1>1. local[t].pos \in Nat /\ \A p \in Nat : Readable(p) => Published(p)
  BY Zenon, PopFacts
<1>2. CASE Readable(local[t].pos)
  <2>1. local' = [local EXCEPT ![t] = Frame("read", local[t].pos, NoValue)]
    BY <1>2 DEF PopVerify, Goto
  <2> QED BY Zenon, <1>0, <1>1, <1>2, <2>1, PopKeepsInv DEF Owning
<1>3. CASE ~Readable(local[t].pos)
  <2>1. local' = [local EXCEPT ![t] = Frame("rollback", local[t].pos, NoValue)]
    BY <1>3 DEF PopVerify, Goto
  <2> QED BY Zenon, <1>0, <2>1, PopKeepsInv DEF Owning
<1> QED BY <1>2, <1>3

LEMMA PopReadInv ==
  ASSUME LctQueueAssumption, QueueInv, NEW t \in Consumers, PopRead(t)
  PROVE  QueueInv'
<1> DEFINE p == local[t].pos
<1>0. /\ Claimed(t) /\ bot' = bot /\ top' = top /\ top2' = top2 /\ data' = data
      /\ tag' = tag /\ local[t].pc = "read"
  BY DEF PopRead, At, Claimed, counters
<1>1. p \in Nat /\ Published(p) /\ p \notin DOMAIN returned
  BY Zenon, <1>0, PopFacts DEF QueueInv, ConsumerSide, PopInv
<1>2. data[Cell(p)] = p
  BY <1>1 DEF QueueInv, ProducerSide, DataInv, Published, Writing
<1>3. CASE Debug
  <2>1. local' = [local EXCEPT ![t] = Frame("reset", p, p)] /\ returned' = returned
    BY Zenon, <1>2, <1>3 DEF PopRead
  <2>2. PICK v \in Int : v = local[t].pos
    BY SMTT(20), <1>1
  <2>3. local' = [local EXCEPT ![t] = Frame("reset", local[t].pos, v)]
    BY <2>1, <2>2
  <2>4. "reset" \in Owning /\ Published(local[t].pos)
    BY <1>1 DEF Owning
  <2> QED BY Zenon, <1>0, <2>1, <2>2, <2>3, <2>4, PopKeepsInv
<1>4. CASE ~Debug
  <2>1. ReturnValue(t, p, p)
    BY <1>2, <1>4 DEF PopRead
  <2> QED BY Zenon, <1>0, <2>1, PopReturnsInv
<1> QED BY <1>3, <1>4

LEMMA PopResetInv ==
  ASSUME LctQueueAssumption, QueueInv, NEW t \in Consumers, PopReset(t)
  PROVE  QueueInv'
<1>0. /\ bot' = bot /\ top' = top /\ top2' = top2 /\ data' = data
      /\ local[t].pc = "reset" /\ ReturnValue(t, local[t].pos, local[t].result)
      /\ tag' = tag \/ tag' = [tag EXCEPT ![Cell(local[t].pos)] = local[t].pos + 1]
  BY DEF PopReset, At
<1>1. local[t].result = local[t].pos
  BY Zenon, <1>0 DEF QueueInv, ConsumerSide, PopInv
<1> QED BY Zenon, <1>0, <1>1, PopReturnsInv

LEMMA QueueNext ==
  ASSUME LctQueueAssumption, ~RoomByCount, QueueInv, [Next]_vars
  PROVE  QueueInv'
<1>1. CASE UNCHANGED vars
  <2>1. /\ top' = top /\ bot' = bot /\ top2' = top2 /\ data' = data /\ tag' = tag
        /\ local' = local /\ returned' = returned
    BY <1>1 DEF vars
  <2>2. TypeInv'
    BY <2>1 DEF QueueInv, TypeInv, Cells, Callers
  <2>3. ProducerSide' /\ \A p \in Nat : Published(p)' <=> Published(p)
    BY <2>1, <2>2, ProducersUnaware DEF QueueInv
  <2> QED BY <2>1, <2>2, <2>3, ConsumersUnaware DEF QueueInv
<1>2. ASSUME NEW t \in Producers, Push(t) PROVE QueueInv'
  BY <1>2, PushInv
<1>3. ASSUME NEW t \in Consumers, Pop(t) PROVE QueueInv'
  BY <1>3, PopLoadCheckInv, PopClaimInv, PopVerifyInv, PopRollbackInv, PopReadInv,
     PopResetInv DEF Pop
<1> QED BY <1>1, <1>2, <1>3 DEF Next

LEMMA QueueInvariant ==
  ASSUME LctQueueAssumption, ~RoomByCount PROVE Spec => []QueueInv
<1>1. Init => QueueInv
  BY QueueInit
<1>2. QueueInv /\ [Next]_vars => QueueInv'
  BY QueueNext
<1> QED BY <1>1, <1>2, PTL DEF Spec

\* Whatever the kind of queue, the build, the capacity and the number of
\* threads, a pop returns the value pushed at the position it claimed, and no
\* position is returned twice (pop of queue_array_atomic_*.hpp), given a caller
\* that pushes to a cell only after the pop of its last value has returned.
THEOREM QueueReturnsWhatWasPushed ==
  ASSUME LctQueueAssumption, ~RoomByCount PROVE Spec => []ReturnsWhatWasPushed
<1>1. QueueInv => ReturnsWhatWasPushed
  BY DEF QueueInv, ConsumerSide
<1> QED BY <1>1, QueueInvariant, PTL

\* Every position below bot was returned or is held by a pop on its way, also
\* when pops of the fetch-and-add queue claim cells nobody has pushed to and
\* give them back (pop of queue_array_atomic_*.hpp), given the same caller.
THEOREM QueueFifo ==
  ASSUME LctQueueAssumption, ~RoomByCount PROVE Spec => []Fifo
<1>1. QueueInv => Fifo
  BY DEF QueueInv, ConsumerSide
<1> QED BY <1>1, QueueInvariant, PTL

=============================================================================
