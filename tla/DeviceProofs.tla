---------------------------- MODULE DeviceProofs ----------------------------
(***************************************************************************)
(* Proofs about the parts of a device: the completions and the send queue  *)
(* of the verbs backend (IbvCompletions, IbvSendQueue) and the receives    *)
(* that progress keeps posted (RecvPosting).  Each part has an inductive   *)
(* invariant, a lemma per action, and its theorem.                         *)
(***************************************************************************)
EXTENDS IbvSendQueue, RecvPosting, IbvCompletions, FiniteSetTheorems, WellFoundedInduction, TLAPS

-----------------------------------------------------------------------------
(* The completions.                                                        *)

\* The queue pairs, and the completions that are not translated yet.
Pairs == [ep : Endpoints, rank : Ranks]
Allocated == {e \in Endpoints : qps[e] # <<>>}
Under == cq \cup Polled

Opcodes == {"SEND", "WRITE", "READ", "RECV", "RECV_RDMA_WITH_IMM"}
Wcs == [num : QpNums, opcode : Opcodes, ok : BOOLEAN, context : SUBSET Calls, from : Pairs]

CqTypeInv ==
    /\ qps \in [Endpoints -> {<<>>} \cup [Ranks -> QpNums]]
    /\ qp_remaining_slots \in [Endpoints -> [Ranks -> Int]]
    /\ posted \in [Calls -> SUBSET Pairs]
    /\ cq \in SUBSET Wcs /\ batch \in [Pollers -> SUBSET Wcs]

\* No two queue pairs have one number; the map has an entry for each of them and
\* no other, and the array built last shows every entry at its place.
EntryOf(e, r) == [num |-> qps[e][r], ep |-> e, rank |-> r]

Shows(s, es) == s.mod \in Nat \ {0} /\ \A x \in es : s.table[x.num % s.mod] = x

MapInv ==
    /\ \A e, f \in Allocated : \A r, s \in Ranks : qps[e][r] = qps[f][s] => e = f /\ r = s
    /\ \A e \in Allocated : \A r \in Ranks : EntryOf(e, r) \in entries
    /\ \A x \in entries : \E e \in Allocated : \E r \in Ranks : x = EntryOf(e, r)
    /\ Shows(snapshot, entries)

\* An operation is under way on one queue pair, of an allocated endpoint.
PostedInv ==
    \A c \in Calls : \A p \in posted[c] : p.ep \in Allocated /\ posted[c] = {p}

\* What the hardware writes into a completion.
WcRight(w) ==
    /\ w.from.ep \in Allocated /\ w.num = qps[w.from.ep][w.from.rank]
    /\ \/ w.context = {} /\ IsReceive(w)
       \/ \E c \in Calls : /\ w.context = {c} /\ w.from \in posted[c]
                           /\ w.opcode = RequestOf(c).opcode

WcsRight == \A w \in Under : WcRight(w)

\* A completion is in one place, and an operation has one at most.
WcsApart ==
    /\ \A v, w \in Under : v.context = w.context /\ v.context # {} => v = w
    /\ \A t \in Pollers : \A w \in batch[t] : w \notin cq
    /\ \A t, u \in Pollers : \A w \in batch[t] : w \in batch[u] => t = u

On(e, r) == {c \in Calls : [ep |-> e, rank |-> r] \in posted[c]}

SlotsInv ==
    \A e \in Allocated : \A r \in Ranks : qp_remaining_slots[e][r] + Cardinality(On(e, r)) = QpSends

CqIInv == CqTypeInv /\ MapInv /\ PostedInv /\ WcsRight /\ WcsApart /\ SlotsInv

-----------------------------------------------------------------------------
LEMMA CqConstants ==
  ASSUME IbvCompletionsAssumption
  PROVE  /\ NRanks \in Nat \ {0} /\ QpSends \in Nat /\ MaxQpNum \in Nat
         /\ QpNums \subseteq 0 .. MaxQpNum /\ QpNums \subseteq Nat
         /\ 0 \in Ranks /\ Ranks \subseteq Nat /\ IsFiniteSet(Calls)
BY DEF IbvCompletionsAssumption, Ranks

LEMMA NumsNotEmpty ==
  ASSUME IbvCompletionsAssumption, NEW nums \in [Ranks -> QpNums]
  PROVE  nums # <<>>
<1>1. DOMAIN nums = Ranks /\ 0 \in Ranks
  BY CqConstants
<1>2. DOMAIN <<>> = {}
  OBVIOUS
<1> QED BY <1>1, <1>2

LEMMA RequestOpcode ==
  ASSUME IbvCompletionsAssumption, NEW c \in Calls
  PROVE  RequestOf(c).opcode \in {"SEND", "WRITE", "READ"}
<1>1. c.fn \in {"sends", "send", "puts", "put", "putImms", "putImm", "get"}
  BY DEF IbvCompletionsAssumption
<1> QED
  BY <1>1 DEF RequestOf, WorkRequest, post_sends_impl, post_send_impl, post_puts_impl,
              post_put_impl, post_putImms_impl, post_putImm_impl, post_get_impl

\* A set of natural numbers that has an element has a least one.
LEMMA LeastElement ==
  ASSUME NEW T \in SUBSET Nat, T # {}
  PROVE  \E m \in T : \A k \in T : m <= k
<1>1. \E m \in T : \A k \in T : ~(<<k, m>> \in OpToRel(<, Nat))
  BY Zenon, NatLessThanWellFounded, WFMin
<1>2. PICK m \in T : \A k \in T : ~(<<k, m>> \in OpToRel(<, Nat))
  BY Zenon, <1>1
<1>3. \A k \in T : ~(k < m)
  BY Zenon, <1>2 DEF OpToRel
<1> QED BY <1>3

\* Entries whose numbers differ.
Numbered(es) ==
    /\ \A x \in es : x.num \in 0 .. MaxQpNum
    /\ \A x, y \in es : x.num = y.num => x = y

LEMMA SmallRemainder ==
  ASSUME NEW a \in Nat, NEW m \in Nat, a < m PROVE a % m = a
OBVIOUS

LEMMA FirstLengthFits ==
  ASSUME IbvCompletionsAssumption, NEW es, Numbered(es)
  PROVE  FirstLength(es) \in Nat \ {0} /\ ~Collides(es, FirstLength(es))
<1> DEFINE M == NRanks + MaxQpNum
           T == {m \in NRanks .. M : ~Collides(es, m)}
<1>1. NRanks \in Nat \ {0} /\ MaxQpNum \in Nat /\ M \in Nat /\ M \in NRanks .. M /\ MaxQpNum < M
  BY CqConstants
<1>2. ~Collides(es, M)
  <2>1. \A x \in es : x.num \in Nat /\ x.num < M
    BY <1>1 DEF Numbered
  <2> HIDE DEF M
  <2>2. \A x \in es : x.num % M = x.num
    BY Zenon, <2>1, <1>1, SmallRemainder
  <2> QED BY Zenon, <2>2 DEF Collides, Numbered
<1>3. T \subseteq Nat /\ M \in T
  BY <1>1, <1>2
<1>4. PICK m \in T : \A k \in T : m <= k
  BY Zenon, <1>3, LeastElement
<1>5. m \in NRanks .. M /\ ~Collides(es, m)
  BY Zenon, <1>4
<1>6. \A k \in NRanks .. m - 1 : Collides(es, k)
  <2> TAKE k \in NRanks .. m - 1
  <2>1. k \in NRanks .. M /\ ~(m <= k)
    BY <1>1, <1>5
  <2> QED BY <2>1, <1>4
<1>7. FirstLength(es) \in NRanks .. M /\ ~Collides(es, FirstLength(es))
  BY Zenon, <1>5, <1>6 DEF FirstLength
<1> QED BY <1>1, <1>7

LEMMA RebuildShows ==
  ASSUME IbvCompletionsAssumption, NEW es, Numbered(es)
  PROVE  Shows(Rebuild(es), es)
<1> DEFINE mod == FirstLength(es)
           Pick(k) == IF \E x \in es : x.num % mod = k
                      THEN CHOOSE x \in es : x.num % mod = k ELSE NoEntry
<1>1. CASE es = {}
  BY <1>1 DEF Shows, Rebuild
<1>2. CASE es # {}
  <2>1. mod \in Nat \ {0} /\ ~Collides(es, mod)
    BY Zenon, FirstLengthFits
  <2>2. Rebuild(es) = [mod |-> mod, table |-> [k \in 0 .. mod - 1 |-> Pick(k)]]
    BY Zenon, <1>2 DEF Rebuild
  <2> HIDE DEF mod
  <2>3. ASSUME NEW x \in es PROVE x.num % mod \in 0 .. mod - 1 /\ Pick(x.num % mod) = x
    <3>1. x.num \in Nat
      BY CqConstants DEF Numbered
    <3>2. x.num % mod \in 0 .. mod - 1
      BY <3>1, <2>1
    <3>3. \A y \in es : y.num % mod = x.num % mod => y = x
      BY Zenon, <2>1 DEF Collides
    <3> QED BY <3>2, <3>3
  <2> HIDE DEF Pick
  <2> QED BY <2>1, <2>2, <2>3 DEF Shows
<1> QED BY Zenon, <1>1, <1>2

-----------------------------------------------------------------------------
\* What the invariant says of the completions under way: the map finds the queue
\* pair of each of them.
LEMMA UnderWay ==
  ASSUME NEW w PROVE w \in Under <=> (w \in cq \/ \E t \in Pollers : w \in batch[t])
BY Zenon DEF Under, Polled

LEMMA EntryFound ==
  ASSUME IbvCompletionsAssumption, CqIInv, NEW w \in Under
  PROVE  /\ w \in Wcs /\ WcRight(w) /\ w.from \in Pairs
         /\ w.from.ep \in Allocated /\ w.from.rank \in Ranks
         /\ GetEntry(w.num) = EntryOf(w.from.ep, w.from.rank)
<1>1. w \in Wcs
  BY Zenon, UnderWay DEF CqIInv, CqTypeInv
<1>2. w.from \in Pairs /\ w.from.rank \in Ranks
  BY Zenon, <1>1 DEF Wcs, Pairs
<1>3. WcRight(w)
  BY Zenon DEF CqIInv, WcsRight
<1>4. w.from.ep \in Allocated /\ w.num = qps[w.from.ep][w.from.rank]
  BY Zenon, <1>3 DEF WcRight
<1>5. EntryOf(w.from.ep, w.from.rank) \in entries
  BY <1>2, <1>4 DEF CqIInv, MapInv
<1>6. EntryOf(w.from.ep, w.from.rank).num = w.num
  BY Zenon, <1>4 DEF EntryOf
<1>7. GetEntry(w.num) = EntryOf(w.from.ep, w.from.rank)
  BY Zenon, <1>5, <1>6 DEF GetEntry, CqIInv, MapInv, Shows
<1> QED BY <1>1, <1>2, <1>3, <1>4, <1>7

LEMMA OnFinite ==
  ASSUME IbvCompletionsAssumption, NEW e, NEW r
  PROVE  IsFiniteSet(On(e, r)) /\ Cardinality(On(e, r)) \in Nat
<1>1. On(e, r) \subseteq Calls
  BY Zenon DEF On
<1> QED BY Zenon, <1>1, CqConstants, FS_Subset, FS_CardinalityType

\* The steps that allocate and free nothing leave the map alone.
LEMMA MapKept ==
  ASSUME MapInv, UNCHANGED <<qps, entries, snapshot>>
  PROVE  MapInv' /\ Allocated' = Allocated
BY DEF MapInv, Allocated, EntryOf, Shows

-----------------------------------------------------------------------------
LEMMA CqInitInv == ASSUME IbvCompletionsAssumption, CqInit PROVE CqIInv
<1>1. Allocated = {} /\ Under = {}
  BY Zenon DEF CqInit, Allocated, Under, Polled
<1>2. CqTypeInv
  BY CqConstants DEF CqInit, CqTypeInv
<1>3. MapInv
  BY <1>1 DEF CqInit, MapInv, Shows
<1>4. PostedInv /\ WcsRight /\ WcsApart /\ SlotsInv
  BY Zenon, <1>1 DEF CqInit, PostedInv, WcsRight, WcsApart, SlotsInv
<1> QED BY Zenon, <1>2, <1>3, <1>4 DEF CqIInv

LEMMA PostInv ==
  ASSUME IbvCompletionsAssumption, CqIInv, NEW c \in Calls, NEW e \in Endpoints, NEW r \in Ranks,
         Post(c, e, r)
  PROVE  CqIInv'
<1> DEFINE p == [ep |-> e, rank |-> r]
<1>1. /\ posted[c] = {} /\ e \in Allocated
      /\ qp_remaining_slots' = [qp_remaining_slots EXCEPT
            ![e] = [qp_remaining_slots[e] EXCEPT ![r] = qp_remaining_slots[e][r] - 1]]
      /\ posted' = [posted EXCEPT ![c] = {p}]
      /\ qps' = qps /\ entries' = entries /\ snapshot' = snapshot /\ cq' = cq /\ batch' = batch
  BY Zenon DEF Post, Allocated
<1>2. MapInv' /\ Allocated' = Allocated /\ Under' = Under
  BY Zenon, <1>1, MapKept DEF CqIInv, Under, Polled
<1>3. p \in Pairs /\ p.ep = e /\ p.rank = r
  BY Zenon DEF Pairs
<1> HIDE DEF p
<1>4. /\ posted' \in [Calls -> SUBSET Pairs] /\ posted'[c] = {p}
      /\ \A d \in Calls \ {c} : posted'[d] = posted[d]
  BY Zenon, <1>1, <1>3 DEF CqIInv, CqTypeInv
<1>5. /\ qp_remaining_slots' \in [Endpoints -> [Ranks -> Int]]
      /\ qp_remaining_slots'[e][r] = qp_remaining_slots[e][r] - 1
      /\ \A f \in Endpoints : \A q \in Ranks :
            f # e \/ q # r => qp_remaining_slots'[f][q] = qp_remaining_slots[f][q]
  BY <1>1 DEF CqIInv, CqTypeInv
<1>6. CqTypeInv'
  BY Zenon, <1>1, <1>4, <1>5 DEF CqIInv, CqTypeInv
<1>7. PostedInv'
  BY Zenon, <1>1, <1>2, <1>3, <1>4 DEF CqIInv, PostedInv
<1>8. WcsRight'
  <2> SUFFICES ASSUME NEW w \in Under PROVE WcRight(w)'
    BY Zenon, <1>2 DEF WcsRight
  <2>1. WcRight(w)
    BY Zenon DEF CqIInv, WcsRight
  <2> QED BY <1>1, <1>2, <1>4, <2>1 DEF WcRight, IsReceive
<1>9. WcsApart'
  BY Zenon, <1>1, <1>2 DEF CqIInv, WcsApart
<1>10. SlotsInv'
  <2> SUFFICES ASSUME NEW f \in Allocated, NEW q \in Ranks
               PROVE  qp_remaining_slots'[f][q] + Cardinality(On(f, q)') = QpSends
    BY Zenon, <1>2 DEF SlotsInv
  <2>1. /\ qp_remaining_slots[f][q] + Cardinality(On(f, q)) = QpSends
        /\ qp_remaining_slots[f][q] \in Int /\ Cardinality(On(f, q)) \in Nat
        /\ IsFiniteSet(On(f, q)) /\ f \in Endpoints
    BY Zenon, OnFinite DEF CqIInv, SlotsInv, CqTypeInv, Allocated
  <2>2. CASE f = e /\ q = r
    <3>1. On(f, q)' = On(f, q) \cup {c} /\ c \notin On(f, q)
      BY Zenon, <1>1, <1>4, <2>2 DEF On, p
    <3>2. Cardinality(On(f, q)') = Cardinality(On(f, q)) + 1
      BY Zenon, <3>1, <2>1, FS_AddElement
    <3>3. qp_remaining_slots'[f][q] = qp_remaining_slots[f][q] - 1
      BY Zenon, <1>5, <2>2
    <3> QED BY <2>1, <3>2, <3>3
  <2>3. CASE f # e \/ q # r
    <3>1. [ep |-> f, rank |-> q] # p
      BY Zenon, <2>3 DEF p
    <3>2. On(f, q)' = On(f, q)
      BY Zenon, <1>1, <1>4, <3>1 DEF On
    <3>3. qp_remaining_slots'[f][q] = qp_remaining_slots[f][q]
      BY Zenon, <1>5, <2>1, <2>3
    <3> QED BY Zenon, <2>1, <3>2, <3>3
  <2> QED BY Zenon, <2>2, <2>3
<1> QED BY Zenon, <1>2, <1>6, <1>7, <1>8, <1>9, <1>10 DEF CqIInv

\* The hardware adds a completion that is right and is not there yet.
LEMMA HardwareAdds ==
  ASSUME IbvCompletionsAssumption, CqIInv, NEW w \in Wcs, WcRight(w), w \notin Under,
         w.context # {} => \A v \in Under : v.context # w.context,
         cq' = cq \cup {w}, UNCHANGED <<qps, qp_remaining_slots, entries, snapshot, posted, batch>>
  PROVE  CqIInv'
<1>1. MapInv' /\ Allocated' = Allocated /\ Under' = Under \cup {w}
  BY Zenon, MapKept DEF CqIInv, Under, Polled
<1>2. CqTypeInv' /\ PostedInv'
  BY Zenon, <1>1 DEF CqIInv, CqTypeInv, PostedInv
<1>3. SlotsInv'
  <2>1. \A f \in Allocated : \A q \in Ranks : On(f, q)' = On(f, q)
    BY Zenon DEF On
  <2> QED BY Zenon, <1>1, <2>1 DEF CqIInv, SlotsInv
<1>4. WcsRight'
  <2> SUFFICES ASSUME NEW v \in Under \cup {w} PROVE WcRight(v)'
    BY Zenon, <1>1 DEF WcsRight
  <2>1. WcRight(v)
    BY Zenon DEF CqIInv, WcsRight
  <2> QED BY Zenon, <1>1, <2>1 DEF WcRight
<1>5. WcsApart'
  <2>1. \A t \in Pollers : \A v \in batch[t] : v \in Under
    BY Zenon, UnderWay
  <2>2. \A t \in Pollers : \A v \in batch'[t] : v \notin cq'
    BY Zenon, <2>1 DEF CqIInv, WcsApart
  <2>3. \A u, v \in Under' : u.context = v.context /\ u.context # {} => u = v
    BY <1>1 DEF CqIInv, WcsApart
  <2> QED BY Zenon, <2>2, <2>3 DEF CqIInv, WcsApart
<1> QED BY Zenon, <1>1, <1>2, <1>3, <1>4, <1>5 DEF CqIInv

LEMMA HwCompleteInv ==
  ASSUME IbvCompletionsAssumption, CqIInv, NEW c \in Calls, NEW ok \in BOOLEAN, HwComplete(c, ok)
  PROVE  CqIInv'
<1>1. PICK p \in posted[c] :
        cq' = cq \cup {Completion(qps[p.ep][p.rank], RequestOf(c).opcode, ok, {c}, p)}
  BY Zenon DEF HwComplete
<1> DEFINE w == Completion(qps[p.ep][p.rank], RequestOf(c).opcode, ok, {c}, p)
<1>2. /\ \A v \in Under : v.context # {c}
      /\ UNCHANGED <<qps, qp_remaining_slots, entries, snapshot, posted, batch>>
  BY Zenon DEF HwComplete, Under
<1>3. p \in Pairs /\ p.ep \in Allocated /\ p.rank \in Ranks
  BY DEF CqIInv, CqTypeInv, PostedInv, Pairs
<1>4. qps[p.ep][p.rank] \in QpNums
  BY Zenon, <1>3 DEF CqIInv, CqTypeInv, Allocated
<1>5. RequestOf(c).opcode \in Opcodes
  BY Zenon, RequestOpcode DEF Opcodes
<1>6. /\ w.num = qps[p.ep][p.rank] /\ w.opcode = RequestOf(c).opcode
      /\ w.context = {c} /\ w.from = p
  BY Zenon DEF Completion
<1>7. w \in Wcs
  BY Zenon, <1>3, <1>4, <1>5 DEF Wcs, Completion
<1> HIDE DEF w
<1>8. WcRight(w)
  BY Zenon, <1>3, <1>6 DEF WcRight
<1>9. w \notin Under /\ \A v \in Under : v.context # w.context
  BY Zenon, <1>2, <1>6
<1> QED BY Zenon, <1>1, <1>2, <1>7, <1>8, <1>9, HardwareAdds DEF w

LEMMA HwArriveInv ==
  ASSUME IbvCompletionsAssumption, CqIInv, NEW e \in Endpoints, NEW r \in Ranks,
         NEW op \in {"RECV", "RECV_RDMA_WITH_IMM"}, NEW ok \in BOOLEAN, HwArrive(e, r, op, ok)
  PROVE  CqIInv'
<1> DEFINE p == [ep |-> e, rank |-> r]
           w == Completion(qps[e][r], op, ok, {}, p)
<1>1. /\ e \in Allocated /\ w \notin Under /\ cq' = cq \cup {w}
      /\ UNCHANGED <<qps, qp_remaining_slots, entries, snapshot, posted, batch>>
  BY Zenon DEF HwArrive, Under, Allocated
<1>2. p \in Pairs /\ p.ep = e /\ p.rank = r
  BY Zenon DEF Pairs
<1>3. qps[e][r] \in QpNums
  BY Zenon, <1>1 DEF CqIInv, CqTypeInv, Allocated
<1> HIDE DEF p
<1>4. /\ w.num = qps[e][r] /\ w.opcode = op /\ w.context = {} /\ w.from = p
  BY Zenon DEF Completion
<1>5. w \in Wcs
  BY Zenon, <1>2, <1>3 DEF Wcs, Completion, Opcodes
<1> HIDE DEF w
<1>6. WcRight(w)
  BY Zenon, <1>1, <1>2, <1>4 DEF WcRight, IsReceive
<1> QED BY <1>1, <1>4, <1>5, <1>6, HardwareAdds

LEMMA PollCqInv ==
  ASSUME IbvCompletionsAssumption, CqIInv, NEW t \in Pollers, PollCq(t)
  PROVE  CqIInv'
<1>1. PICK W \in SUBSET cq : batch' = [batch EXCEPT ![t] = W] /\ cq' = cq \ W
  BY Zenon DEF PollCq
<1>2. batch[t] = {} /\ UNCHANGED <<qps, qp_remaining_slots, entries, snapshot, posted>>
  BY Zenon DEF PollCq
<1>3. /\ batch' \in [Pollers -> SUBSET Wcs] /\ batch'[t] = W /\ cq' \in SUBSET Wcs
      /\ \A u \in Pollers \ {t} : batch'[u] = batch[u]
  BY <1>1 DEF CqIInv, CqTypeInv
<1>4. Under' = Under
  <2>1. \A w : w \in Under' <=> (w \in cq' \/ \E u \in Pollers : w \in batch'[u])
    BY Zenon DEF Under, Polled
  <2>2. \A w : w \in Under' <=> w \in Under
    BY <1>1, <1>2, <1>3, <2>1, UnderWay
  <2> QED BY Zenon, <2>2
<1>5. MapInv' /\ Allocated' = Allocated
  BY Zenon, <1>2, MapKept DEF CqIInv
<1>6. CqTypeInv' /\ PostedInv'
  BY Zenon, <1>2, <1>3, <1>5 DEF CqIInv, CqTypeInv, PostedInv
<1>7. SlotsInv'
  <2>1. \A f \in Allocated : \A q \in Ranks : On(f, q)' = On(f, q)
    BY Zenon, <1>2 DEF On
  <2> QED BY Zenon, <1>2, <1>5, <2>1 DEF CqIInv, SlotsInv
<1>8. WcsRight'
  BY Zenon, <1>2, <1>4, <1>5 DEF CqIInv, WcsRight, WcRight
<1>9. WcsApart'
  <2>1. \A u \in Pollers : \A w \in batch'[u] : w \notin cq'
    BY Zenon, <1>1, <1>3 DEF CqIInv, WcsApart
  <2>2. \A u, v \in Pollers : \A w \in batch'[u] : w \in batch'[v] => u = v
    BY Zenon, <1>3 DEF CqIInv, WcsApart
  <2> QED BY Zenon, <1>4, <2>1, <2>2 DEF CqIInv, WcsApart
<1> QED BY Zenon, <1>5, <1>6, <1>7, <1>8, <1>9 DEF CqIInv

\* What is left under way when thread t has translated w.
LEMMA Translated ==
  ASSUME CqIInv, NEW t \in Pollers, NEW w \in batch[t],
         batch' = [batch EXCEPT ![t] = batch[t] \ {w}],
         UNCHANGED <<qps, entries, snapshot, cq>>
  PROVE  /\ MapInv' /\ Allocated' = Allocated /\ Under' = Under \ {w}
         /\ batch' \in [Pollers -> SUBSET Wcs] /\ WcsApart'
<1>1. /\ batch' \in [Pollers -> SUBSET Wcs] /\ batch'[t] = batch[t] \ {w}
      /\ \A u \in Pollers \ {t} : batch'[u] = batch[u]
  BY Zenon DEF CqIInv, CqTypeInv
<1>2. w \notin cq /\ \A u \in Pollers \ {t} : w \notin batch[u]
  BY Zenon DEF CqIInv, WcsApart
<1>3. Under' = Under \ {w}
  <2>1. \A v : v \in Under' <=> (v \in cq' \/ \E u \in Pollers : v \in batch'[u])
    BY Zenon DEF Under, Polled
  <2>2. \A v : v \in Under' <=> v \in Under \ {w}
    BY Zenon, <1>1, <1>2, <2>1, UnderWay
  <2> QED BY Zenon, <2>2
<1>4. WcsApart'
  <2>1. \A u \in Pollers : \A v \in batch'[u] : v \notin cq'
    BY Zenon, <1>1 DEF CqIInv, WcsApart
  <2>2. \A u, v \in Pollers : \A x \in batch'[u] : x \in batch'[v] => u = v
    BY Zenon, <1>1 DEF CqIInv, WcsApart
  <2> QED BY Zenon, <1>3, <2>1, <2>2 DEF CqIInv, WcsApart
<1> QED BY Zenon, <1>1, <1>3, <1>4, MapKept DEF CqIInv

LEMMA TranslateInv ==
  ASSUME IbvCompletionsAssumption, CqIInv, NEW t \in Pollers, Translate(t)
  PROVE  CqIInv'
<1>1. PICK w \in batch[t] :
        /\ qp_remaining_slots' = Release(w, GetEntry(w.num))
        /\ posted' = [c \in Calls |-> IF w.context = {c} THEN {} ELSE posted[c]]
        /\ batch' = [batch EXCEPT ![t] = batch[t] \ {w}]
  BY Zenon DEF Translate
<1>2. UNCHANGED <<qps, entries, snapshot, cq>>
  BY DEF Translate
<1>3. /\ MapInv' /\ Allocated' = Allocated /\ Under' = Under \ {w}
      /\ batch' \in [Pollers -> SUBSET Wcs] /\ WcsApart'
  BY Zenon, <1>1, <1>2, Translated
<1>4. w \in Under
  BY Zenon, UnderWay
<1> DEFINE e == w.from.ep
           r == w.from.rank
<1>5. /\ w \in Wcs /\ WcRight(w) /\ w.from \in Pairs /\ e \in Allocated /\ r \in Ranks
      /\ GetEntry(w.num) = EntryOf(e, r)
  BY Zenon, <1>4, EntryFound
<1>6. e \in Endpoints /\ w.from = [ep |-> e, rank |-> r]
  BY Zenon, <1>5 DEF Allocated, Pairs
<1>7. posted' \in [Calls -> SUBSET Pairs]
  BY Zenon, <1>1 DEF CqIInv, CqTypeInv
<1> HIDE DEF e, r
<1>8. PostedInv'
  BY Zenon, <1>1, <1>3, <1>7 DEF CqIInv, PostedInv
<1>9. WcsRight'
  <2> SUFFICES ASSUME NEW v \in Under, v # w PROVE WcRight(v)'
    BY Zenon, <1>3 DEF WcsRight
  <2>1. WcRight(v)
    BY DEF CqIInv, WcsRight
  <2>2. \A c \in Calls : v.context = {c} => posted'[c] = posted[c]
    BY Zenon, <1>1, <1>4 DEF CqIInv, WcsApart
  <2> QED BY Zenon, <1>2, <1>3, <2>1, <2>2 DEF WcRight
<1>10. CASE w.context = {} /\ IsReceive(w)
  <2>1. qp_remaining_slots' = qp_remaining_slots
    BY <1>1, <1>10 DEF Release
  <2>2. posted' = posted
    BY Zenon, <1>1, <1>10 DEF CqIInv, CqTypeInv
  <2>3. CqTypeInv'
    BY Zenon, <1>2, <1>3, <2>1, <2>2 DEF CqIInv, CqTypeInv
  <2>4. SlotsInv'
    <3>1. \A f \in Allocated : \A q \in Ranks : On(f, q)' = On(f, q)
      BY Zenon, <2>2 DEF On
    <3> QED BY Zenon, <1>3, <2>1, <3>1 DEF CqIInv, SlotsInv
  <2> QED BY Zenon, <1>3, <1>8, <1>9, <2>3, <2>4 DEF CqIInv
<1>11. ASSUME NEW c \in Calls, w.context = {c}, w.from \in posted[c],
              w.opcode = RequestOf(c).opcode
       PROVE  CqIInv'
  <2>1. ~IsReceive(w)
    BY Zenon, <1>11, RequestOpcode DEF IsReceive
  <2>2. qp_remaining_slots' = [qp_remaining_slots EXCEPT
           ![e] = [qp_remaining_slots[e] EXCEPT ![r] = qp_remaining_slots[e][r] + 1]]
    <3>1. EntryOf(e, r).ep = e /\ EntryOf(e, r).rank = r
      BY Zenon DEF EntryOf
    <3> QED BY Zenon, <1>1, <1>5, <2>1, <3>1 DEF Release
  <2>3. /\ qp_remaining_slots' \in [Endpoints -> [Ranks -> Int]]
        /\ qp_remaining_slots'[e][r] = qp_remaining_slots[e][r] + 1
        /\ \A f \in Endpoints : \A q \in Ranks :
              f # e \/ q # r => qp_remaining_slots'[f][q] = qp_remaining_slots[f][q]
    BY <1>5, <1>6, <2>2 DEF CqIInv, CqTypeInv
  <2>4. CqTypeInv'
    BY <1>2, <1>3, <1>7, <2>3 DEF CqIInv, CqTypeInv
  <2>5. posted[c] = {w.from} /\ posted'[c] = {} /\ \A d \in Calls \ {c} : posted'[d] = posted[d]
    BY Zenon, <1>1, <1>11 DEF CqIInv, PostedInv
  <2>6. SlotsInv'
    <3> SUFFICES ASSUME NEW f \in Allocated, NEW q \in Ranks
                 PROVE  qp_remaining_slots'[f][q] + Cardinality(On(f, q)') = QpSends
      BY Zenon, <1>3 DEF SlotsInv
    <3>1. /\ qp_remaining_slots[f][q] + Cardinality(On(f, q)) = QpSends
          /\ qp_remaining_slots[f][q] \in Int /\ Cardinality(On(f, q)) \in Nat
          /\ IsFiniteSet(On(f, q)) /\ f \in Endpoints
      BY Zenon, OnFinite DEF CqIInv, SlotsInv, CqTypeInv, Allocated
    <3>2. CASE f = e /\ q = r
      <4>1. On(f, q)' = On(f, q) \ {c} /\ c \in On(f, q)
        BY <1>6, <2>5, <3>2 DEF On
      <4>2. Cardinality(On(f, q)') = Cardinality(On(f, q)) - 1
        BY Zenon, <4>1, <3>1, FS_RemoveElement
      <4>3. qp_remaining_slots'[f][q] = qp_remaining_slots[f][q] + 1
        BY Zenon, <2>3, <3>2
      <4> QED BY <3>1, <4>2, <4>3
    <3>3. CASE f # e \/ q # r
      <4>1. [ep |-> f, rank |-> q] # w.from
        BY <1>6, <3>3
      <4>2. On(f, q)' = On(f, q)
        BY Zenon, <2>5, <4>1 DEF On
      <4>3. qp_remaining_slots'[f][q] = qp_remaining_slots[f][q]
        BY Zenon, <2>3, <3>1, <3>3
      <4> QED BY Zenon, <3>1, <4>2, <4>3
    <3> QED BY Zenon, <3>2, <3>3
  <2> QED BY Zenon, <1>3, <1>8, <1>9, <2>4, <2>6 DEF CqIInv
<1> QED BY Zenon, <1>5, <1>10, <1>11 DEF WcRight

-----------------------------------------------------------------------------
\* Entries for queue pairs with different numbers have different numbers.
LEMMA EntriesNumbered ==
  ASSUME IbvCompletionsAssumption, NEW es, NEW A, NEW q,
         \A e \in A : \A r \in Ranks : q[e][r] \in QpNums,
         \A e, f \in A : \A r, s \in Ranks : q[e][r] = q[f][s] => e = f /\ r = s,
         \A x \in es : \E e \in A : \E r \in Ranks : x = [num |-> q[e][r], ep |-> e, rank |-> r]
  PROVE  Numbered(es)
BY CqConstants DEF Numbered

LEMMA AllocEndpointInv ==
  ASSUME IbvCompletionsAssumption, CqIInv, NEW e \in Endpoints, NEW nums \in [Ranks -> QpNums],
         AllocEndpoint(e, nums)
  PROVE  CqIInv'
<1>1. /\ e \notin Allocated /\ UNCHANGED <<posted, cq, batch>>
      /\ \A r \in Ranks : nums[r] \notin InUse
      /\ \A r, s \in Ranks : r < s => nums[r] < nums[s]
      /\ qps' = [qps EXCEPT ![e] = nums]
      /\ qp_remaining_slots' = [qp_remaining_slots EXCEPT ![e] = [r \in Ranks |-> QpSends]]
      /\ entries' = entries \cup {[num |-> nums[r], ep |-> e, rank |-> r] : r \in Ranks}
      /\ snapshot' = Rebuild(entries')
  BY DEF AllocEndpoint, Allocated
<1>2. /\ qps' \in [Endpoints -> {<<>>} \cup [Ranks -> QpNums]] /\ qps'[e] = nums
      /\ \A f \in Endpoints \ {e} : qps'[f] = qps[f]
  BY Zenon, <1>1 DEF CqIInv, CqTypeInv
<1>3. Allocated' = Allocated \cup {e}
  BY <1>2, NumsNotEmpty DEF Allocated
<1>4. Under' = Under
  BY Zenon, <1>1 DEF Under, Polled
<1>5. /\ qp_remaining_slots' \in [Endpoints -> [Ranks -> Int]]
      /\ qp_remaining_slots'[e] = [r \in Ranks |-> QpSends]
      /\ \A f \in Endpoints \ {e} : qp_remaining_slots'[f] = qp_remaining_slots[f]
  BY <1>1, CqConstants DEF CqIInv, CqTypeInv
<1>6. CqTypeInv'
  BY Zenon, <1>1, <1>2, <1>5 DEF CqIInv, CqTypeInv
<1>7. \A r, s \in Ranks : nums[r] = nums[s] => r = s
  <2> TAKE r, s \in Ranks
  <2>1. r \in Nat /\ s \in Nat /\ nums[r] \in Nat /\ nums[s] \in Nat
    BY CqConstants
  <2>2. (r < s => nums[r] < nums[s]) /\ (s < r => nums[s] < nums[r])
    BY Zenon, <1>1
  <2> QED BY <2>1, <2>2
<1>8. \A f \in Allocated : \A r, s \in Ranks : qps[f][r] # nums[s]
  <2> SUFFICES ASSUME NEW f \in Allocated, NEW r \in Ranks, NEW s \in Ranks,
                      qps[f][r] = nums[s]
               PROVE  FALSE
    BY Zenon
  <2>1. f \in Endpoints /\ DOMAIN qps[f] = Ranks /\ nums[s] \in QpNums
    BY Zenon DEF CqIInv, CqTypeInv, Allocated
  <2>2. nums[s] \in InUse
    BY Zenon, <2>1 DEF InUse
  <2> QED BY Zenon, <1>1, <2>2
<1>9. \A f, g \in Allocated' : \A r, s \in Ranks : qps'[f][r] = qps'[g][s] => f = g /\ r = s
  <2> TAKE f, g \in Allocated'
  <2> TAKE r, s \in Ranks
  <2> HAVE qps'[f][r] = qps'[g][s]
  <2>1. CASE f = e /\ g = e
    BY Zenon, <1>2, <1>7, <2>1
  <2>2. CASE f = e /\ g # e
    BY <1>2, <1>3, <1>8, <2>2 DEF Allocated
  <2>3. CASE f # e /\ g = e
    BY Zenon, <1>2, <1>3, <1>8, <2>3 DEF Allocated
  <2>4. CASE f # e /\ g # e
    <3>1. f \in Allocated /\ g \in Allocated
      BY <1>3, <2>4
    <3>2. qps'[f] = qps[f] /\ qps'[g] = qps[g]
      BY Zenon, <1>2, <2>4, <3>1 DEF Allocated
    <3> QED BY <3>1, <3>2 DEF CqIInv, MapInv
  <2> QED BY Zenon, <2>1, <2>2, <2>3, <2>4
<1>10. /\ \A f \in Allocated : \A r \in Ranks : EntryOf(f, r)' = EntryOf(f, r)
       /\ \A r \in Ranks : EntryOf(e, r)' = [num |-> nums[r], ep |-> e, rank |-> r]
  BY Zenon, <1>1, <1>2 DEF EntryOf, Allocated
<1>11. \A f \in Allocated' : \A r \in Ranks : EntryOf(f, r)' \in entries'
  BY <1>1, <1>3, <1>10 DEF CqIInv, MapInv
<1>12. \A x \in entries' : \E f \in Allocated' : \E r \in Ranks : x = EntryOf(f, r)'
  BY <1>1, <1>3, <1>10 DEF CqIInv, MapInv
<1>13. Numbered(entries')
  <2>1. \A f \in Allocated' : \A r \in Ranks : qps'[f][r] \in QpNums
    BY Zenon, <1>2 DEF Allocated
  <2>2. \A x \in entries' : \E f \in Allocated' : \E r \in Ranks :
           x = [num |-> qps'[f][r], ep |-> f, rank |-> r]
    BY Zenon, <1>12 DEF EntryOf
  <2> QED BY Zenon, <1>9, <2>1, <2>2, EntriesNumbered
<1>14. Shows(snapshot', entries')
  BY Zenon, <1>1, <1>13, RebuildShows
<1>15. MapInv'
  BY Zenon, <1>9, <1>11, <1>12, <1>14 DEF MapInv, Shows
<1>16. PostedInv'
  BY <1>1, <1>3 DEF CqIInv, PostedInv
<1>17. WcsRight'
  <2> SUFFICES ASSUME NEW w \in Under PROVE WcRight(w)'
    BY Zenon, <1>4 DEF WcsRight
  <2>1. WcRight(w) /\ w.from.ep \in Allocated
    BY Zenon DEF CqIInv, WcsRight, WcRight
  <2>2. qps'[w.from.ep] = qps[w.from.ep] /\ w.from.ep \in Allocated'
    BY Zenon, <1>1, <1>2, <1>3, <2>1 DEF Allocated
  <2> QED BY Zenon, <1>1, <2>1, <2>2 DEF WcRight
<1>18. WcsApart'
  BY Zenon, <1>1, <1>4 DEF CqIInv, WcsApart
<1>19. SlotsInv'
  <2>1. \A f \in Endpoints : \A q \in Ranks : On(f, q)' = On(f, q)
    BY Zenon, <1>1 DEF On
  <2>2. \A q \in Ranks : On(e, q) = {}
    BY Zenon, <1>1 DEF On, CqIInv, PostedInv
  <2>3. \A q \in Ranks : qp_remaining_slots'[e][q] + Cardinality(On(e, q)') = QpSends
    <3> TAKE q \in Ranks
    <3>1. qp_remaining_slots'[e][q] = QpSends /\ QpSends \in Nat
      BY Zenon, <1>5, CqConstants
    <3>2. Cardinality(On(e, q)') = 0
      BY Zenon, <2>1, <2>2, FS_EmptySet
    <3> QED BY <3>1, <3>2
  <2>4. \A f \in Allocated : \A q \in Ranks : qp_remaining_slots'[f][q] + Cardinality(On(f, q)') = QpSends
    BY <1>1, <1>5, <2>1 DEF CqIInv, SlotsInv, Allocated
  <2> QED BY <1>3, <2>3, <2>4 DEF SlotsInv
<1> QED BY Zenon, <1>6, <1>15, <1>16, <1>17, <1>18, <1>19 DEF CqIInv

LEMMA FreeEndpointInv ==
  ASSUME IbvCompletionsAssumption, CqIInv, NEW e \in Endpoints, FreeEndpoint(e)
  PROVE  CqIInv'
<1>1. /\ e \in Allocated /\ NobodyPolls /\ Outstanding(e) = {}
      /\ entries' = {x \in entries : \A r \in Ranks : x.num # qps[e][r]}
      /\ snapshot' = Rebuild(entries')
      /\ cq' = {w \in cq : \A r \in Ranks : w.num # qps[e][r]}
      /\ qps' = [qps EXCEPT ![e] = <<>>]
      /\ qp_remaining_slots' = qp_remaining_slots /\ posted' = posted /\ batch' = batch
  BY Zenon DEF FreeEndpoint, Allocated
<1>2. /\ qps' \in [Endpoints -> {<<>>} \cup [Ranks -> QpNums]] /\ qps'[e] = <<>>
      /\ \A f \in Endpoints \ {e} : qps'[f] = qps[f]
  BY Zenon, <1>1 DEF CqIInv, CqTypeInv
<1>3. Allocated' = Allocated \ {e}
  BY Zenon, <1>2 DEF Allocated
<1>4. CqTypeInv'
  BY Zenon, <1>1, <1>2 DEF CqIInv, CqTypeInv
<1>5. \A f, g \in Allocated' : \A r, s \in Ranks : qps'[f][r] = qps'[g][s] => f = g /\ r = s
  <2>1. \A f \in Allocated' : f \in Allocated /\ qps'[f] = qps[f]
    BY Zenon, <1>2, <1>3 DEF Allocated
  <2>2. \A f, g \in Allocated : \A r, s \in Ranks : qps[f][r] = qps[g][s] => f = g /\ r = s
    BY DEF CqIInv, MapInv
  <2> QED BY <2>1, <2>2
<1>6. \A f \in Allocated' : f \in Allocated /\ f # e
        /\ \A r \in Ranks : EntryOf(f, r)' = EntryOf(f, r)
  BY Zenon, <1>2, <1>3 DEF EntryOf, Allocated
<1>7. \A f \in Allocated : \A r \in Ranks : EntryOf(f, r).num = qps[f][r]
  BY Zenon DEF EntryOf
<1>8. \A f \in Allocated' : \A r \in Ranks : EntryOf(f, r)' \in entries'
  <2> TAKE f \in Allocated'
  <2> TAKE r \in Ranks
  <2>1. EntryOf(f, r) \in entries /\ \A s \in Ranks : EntryOf(f, r).num # qps[e][s]
    BY <1>1, <1>6, <1>7 DEF CqIInv, MapInv
  <2> QED BY Zenon, <1>1, <1>6, <2>1
<1>9. \A x \in entries' : \E f \in Allocated' : \E r \in Ranks : x = EntryOf(f, r)'
  <2> TAKE x \in entries'
  <2>1. PICK f \in Allocated, r \in Ranks : x = EntryOf(f, r)
    BY Zenon, <1>1 DEF CqIInv, MapInv
  <2>2. f # e
    BY Zenon, <1>1, <1>7, <2>1
  <2> QED BY Zenon, <1>3, <1>6, <2>1, <2>2
<1>10. Numbered(entries')
  <2>1. \A f \in Allocated' : \A r \in Ranks : qps'[f][r] \in QpNums
    BY Zenon, <1>2 DEF Allocated
  <2>2. \A x \in entries' : \E f \in Allocated' : \E r \in Ranks :
           x = [num |-> qps'[f][r], ep |-> f, rank |-> r]
    BY Zenon, <1>9 DEF EntryOf
  <2> QED BY Zenon, <1>5, <2>1, <2>2, EntriesNumbered
<1>11. MapInv'
  <2>1. Shows(snapshot', entries')
    BY <1>1, <1>10, RebuildShows
  <2> QED BY Zenon, <1>5, <1>8, <1>9, <2>1 DEF MapInv, Shows
<1>12. PostedInv'
  <2>1. \A c \in Calls : \A p \in posted[c] : p.ep # e
    BY Zenon, <1>1 DEF Outstanding
  <2> QED BY Zenon, <1>1, <1>3, <2>1 DEF CqIInv, PostedInv
<1>13. Under' \subseteq cq' /\ cq' \subseteq Under /\ cq' \subseteq Under'
  BY <1>1 DEF Under, Polled, NobodyPolls
<1>14. WcsRight'
  <2> SUFFICES ASSUME NEW w \in cq' PROVE WcRight(w)'
    BY Zenon, <1>13 DEF WcsRight
  <2>1. WcRight(w) /\ w.from.ep \in Allocated /\ w.from.rank \in Ranks
    BY <1>13, EntryFound
  <2>2. w.from.ep # e
    BY Zenon, <1>1, <2>1 DEF WcRight
  <2>3. qps'[w.from.ep] = qps[w.from.ep] /\ w.from.ep \in Allocated'
    BY Zenon, <1>2, <1>3, <2>1, <2>2 DEF Allocated
  <2> QED BY Zenon, <1>1, <2>1, <2>3 DEF WcRight
<1>15. WcsApart'
  BY Zenon, <1>1, <1>13 DEF CqIInv, WcsApart, NobodyPolls
<1>16. SlotsInv'
  <2>1. \A f \in Endpoints : \A q \in Ranks : On(f, q)' = On(f, q)
    BY Zenon, <1>1 DEF On
  <2> QED BY <1>1, <1>3, <2>1 DEF CqIInv, SlotsInv, Allocated
<1> QED BY Zenon, <1>4, <1>11, <1>12, <1>14, <1>15, <1>16 DEF CqIInv

-----------------------------------------------------------------------------
LEMMA CqNextInv == ASSUME IbvCompletionsAssumption, CqIInv, [CqNext]_cqVars PROVE CqIInv'
<1>1. CASE UNCHANGED cqVars
  <2>1. MapInv' /\ Allocated' = Allocated /\ Under' = Under
    BY Zenon, <1>1, MapKept DEF cqVars, CqIInv, Under, Polled
  <2>2. \A f \in Allocated : \A q \in Ranks : On(f, q)' = On(f, q)
    BY Zenon, <1>1 DEF cqVars, On
  <2>3. CqTypeInv' /\ PostedInv' /\ WcsApart'
    BY Zenon, <1>1, <2>1 DEF cqVars, CqIInv, CqTypeInv, PostedInv, WcsApart
  <2>4. WcsRight'
    BY Zenon, <1>1, <2>1 DEF cqVars, CqIInv, WcsRight, WcRight
  <2>5. SlotsInv'
    BY Zenon, <1>1, <2>1, <2>2 DEF cqVars, CqIInv, SlotsInv
  <2> QED BY Zenon, <2>1, <2>3, <2>4, <2>5 DEF CqIInv
<1>2. CASE Hardware
  BY Zenon, <1>2, HwCompleteInv, HwArriveInv DEF Hardware
<1>3. ASSUME NEW t \in Pollers, Poll(t) PROVE CqIInv'
  BY Zenon, <1>3, PollCqInv, TranslateInv DEF Poll
<1> QED BY Zenon, <1>1, <1>2, <1>3, FreeEndpointInv, AllocEndpointInv, PostInv DEF CqNext

\* The three invariants that CompletionsInv is made of, and its typing.
LEMMA CqImplies ==
  ASSUME IbvCompletionsAssumption, CqIInv
  PROVE  CompletionsInv
<1>1. CqTypeOK
  BY Zenon DEF CqIInv, CqTypeInv, CqTypeOK, Pairs
<1>2. \A e \in Endpoints : \A r \in DOMAIN qps[e] : e \in Allocated /\ r \in Ranks
  <2> TAKE e \in Endpoints
  <2>1. CASE qps[e] = <<>>
    BY <2>1
  <2>2. CASE qps[e] \in [Ranks -> QpNums]
    BY <2>2, NumsNotEmpty DEF Allocated
  <2> QED BY Zenon, <2>1, <2>2 DEF CqIInv, CqTypeInv
<1>3. MapRight
  <2> SUFFICES ASSUME NEW e \in Endpoints, NEW r \in DOMAIN qps[e]
               PROVE  GetEntry(qps[e][r]) = EntryOf(e, r)
    BY DEF MapRight, EntryOf
  <2>1. EntryOf(e, r) \in entries /\ EntryOf(e, r).num = qps[e][r]
    BY Zenon, <1>2 DEF CqIInv, MapInv, EntryOf
  <2> QED BY Zenon, <2>1 DEF GetEntry, CqIInv, MapInv, Shows
<1>4. SlotsKept
  BY Zenon, <1>2 DEF SlotsKept, CqIInv, SlotsInv, On
<1>5. StatusesRight
  <2> SUFFICES ASSUME NEW t \in Pollers, NEW w \in batch[t]
               PROVE  LET s == Status(w, GetEntry(w.num)) IN
                      /\ \A c \in s.context : s.opcode \in {RequestOf(c).opcode, "ERROR"}
                      /\ s.opcode = "RECV" \/ (s.opcode = "ERROR" /\ s.context # {}) =>
                            s.rank = w.from.rank
                      /\ s.context = {} => \/ s.opcode \in {"RECV", "REMOTE_WRITE"}
                                           \/ s.opcode = "ERROR" /\ s.rank = -1
    BY Zenon DEF StatusesRight
  <2>1. w \in Under
    BY UnderWay
  <2>2. w \in Wcs /\ WcRight(w) /\ GetEntry(w.num).rank = w.from.rank
    <3>1. EntryOf(w.from.ep, w.from.rank).rank = w.from.rank
      BY DEF EntryOf
    <3> QED BY Zenon, <2>1, <3>1, EntryFound
  <2>3. CASE w.context = {} /\ IsReceive(w)
    <3>1. CASE w.ok
      BY Zenon, <2>2, <2>3, <3>1 DEF Status, IsReceive
    <3>2. CASE ~w.ok
      BY Zenon, <2>3, <3>2 DEF Status
    <3> QED BY Zenon, <3>1, <3>2
  <2>4. ASSUME NEW c \in Calls, w.context = {c}, w.opcode = RequestOf(c).opcode
        PROVE  LET s == Status(w, GetEntry(w.num)) IN
               /\ \A d \in s.context : s.opcode \in {RequestOf(d).opcode, "ERROR"}
               /\ s.opcode = "RECV" \/ (s.opcode = "ERROR" /\ s.context # {}) =>
                     s.rank = w.from.rank
               /\ s.context = {} => \/ s.opcode \in {"RECV", "REMOTE_WRITE"}
                                    \/ s.opcode = "ERROR" /\ s.rank = -1
    <3>1. w.opcode \in {"SEND", "WRITE", "READ"} /\ ~IsReceive(w) /\ w.ok \in BOOLEAN
      BY Zenon, <2>2, <2>4, RequestOpcode DEF IsReceive, Wcs
    <3> QED BY Zenon, <2>2, <2>4, <3>1 DEF Status
  <2> QED BY Zenon, <2>2, <2>3, <2>4 DEF WcRight
<1> QED BY Zenon, <1>1, <1>3, <1>4, <1>5 DEF CompletionsInv

\* For any endpoints, ranks, calls, polling threads and numbers of queue pairs,
\* poll_comp_impl gives each completion the rank, the context and the send queue
\* it belongs to, also while qp2rank_map_t is rebuilt for other endpoints.
THEOREM CompletionsInvariant == CqSpec => []CompletionsInv
<1>1. CqInit => CqIInv
  BY Zenon, CqInitInv, IbvCompletionsConstants
<1>2. CqIInv /\ [CqNext]_cqVars => CqIInv'
  BY Zenon, CqNextInv, IbvCompletionsConstants
<1>3. CqIInv => CompletionsInv
  BY Zenon, CqImplies, IbvCompletionsConstants
<1> QED BY <1>1, <1>2, <1>3, PTL DEF CqSpec

-----------------------------------------------------------------------------
(* The receives.                                                           *)

\* What a thread added to the counter, and what it may still post.
Share(t) == local[t].batch + local[t].reserved
Shares == [t \in Progressors |-> Share(t)]
Promises == [t \in Progressors |-> local[t].slots + local[t].n]

Largest == MaxPolls + BatchSize

Frames ==
    [pc : {"idle", "consume", "refill", "check", "reserve", "get_n", "post", "settle"},
     blocking : BOOLEAN, batch : 0 .. MaxPolls, reserved : 0 .. BatchSize,
     slots : 0 .. BatchSize, n : 0 .. BatchSize, posted : BOOLEAN]

RecvTypeInv ==
    /\ nrecvs_posted \in Nat /\ srq \in Nat /\ pool \in Nat /\ out \in Nat
    /\ local \in [Progressors -> Frames]

\* A thread has a batch only while it processes it and a reservation only
\* between Reserve and Settle, and it may post no more than it reserved.
FrameInv(l) ==
    /\ l.pc # "consume" => l.batch = 0
    /\ l.pc \notin {"get_n", "post", "settle"} => l.reserved = 0
    /\ l.pc # "get_n" => l.slots = 0
    /\ l.pc # "post" => l.n = 0
    /\ l.slots + l.n <= l.reserved

\* With all that threads may still post there is room in the hardware queue.
PromisesFit == srq + Cardinality(Places(Promises)) <= NetMaxRecvs

RecvIInv ==
    /\ RecvTypeInv
    /\ \A t \in Progressors : FrameInv(local[t])
    /\ nrecvs_posted = srq + Cardinality(Places(Shares))
    /\ PromisesFit

-----------------------------------------------------------------------------
LEMMA RecvConstants ==
  ASSUME RecvPostingAssumption
  PROVE  /\ IsFiniteSet(Progressors) /\ Binder \in Progressors
         /\ NPackets \in Nat /\ NetMaxRecvs \in Nat \ {0} /\ MaxPolls \in Nat \ {0}
         /\ BatchSize \in Nat \ {0} /\ Largest \in Nat
BY DEF RecvPostingAssumption, BatchSize, Largest

\* The places of a thread are as many as its number, and those of all threads
\* are finitely many.
LEMMA PlacesFinite ==
  ASSUME RecvPostingAssumption, NEW f \in [Progressors -> 0 .. Largest]
  PROVE  IsFiniteSet(Places(f)) /\ Cardinality(Places(f)) \in Nat
<1>1. Places(f) \subseteq Progressors \X (1 .. Largest)
  BY RecvConstants DEF Places
<1>2. IsFiniteSet(1 .. Largest)
  BY RecvConstants, FS_Interval
<1>3. IsFiniteSet(Progressors \X (1 .. Largest))
  BY <1>2, RecvConstants, FS_Product
<1> QED BY Zenon, <1>1, <1>3, FS_Subset, FS_CardinalityType

LEMMA PlacesOfOne ==
  ASSUME NEW t, NEW n \in Nat
  PROVE  IsFiniteSet({t} \X (1 .. n)) /\ Cardinality({t} \X (1 .. n)) = n
<1>1. IsFiniteSet(1 .. n) /\ Cardinality(1 .. n) = n
  BY FS_Interval
<1>2. IsFiniteSet({t}) /\ Cardinality({t}) = 1
  BY FS_Singleton
<1>3. /\ IsFiniteSet({t} \X (1 .. n))
      /\ Cardinality({t} \X (1 .. n)) = Cardinality({t}) * Cardinality(1 .. n)
  BY Zenon, <1>1, <1>2, FS_Product
<1>4. 1 * n = n
  OBVIOUS
<1>5. Cardinality({t} \X (1 .. n)) = 1 * n
  BY Zenon, <1>1, <1>2, <1>3
<1> QED BY Zenon, <1>3, <1>4, <1>5

\* One thread's number changes, and the places with it.
LEMMA PlacesChange ==
  ASSUME RecvPostingAssumption, NEW t \in Progressors,
         NEW f \in [Progressors -> 0 .. Largest], NEW g \in [Progressors -> 0 .. Largest],
         \A u \in Progressors \ {t} : f[u] = g[u]
  PROVE  Cardinality(Places(f)) + g[t] = Cardinality(Places(g)) + f[t]
<1> DEFINE Rest == UNION {{u} \X (1 .. f[u]) : u \in Progressors \ {t}}
           F == {t} \X (1 .. f[t])
           G == {t} \X (1 .. g[t])
<1>1. Places(f) = Rest \cup F /\ Places(g) = Rest \cup G
  BY DEF Places
<1>2. Rest \cap F = {} /\ Rest \cap G = {}
  OBVIOUS
<1>3. f[t] \in Nat /\ g[t] \in Nat
  BY RecvConstants
<1>4. IsFiniteSet(F) /\ Cardinality(F) = f[t] /\ IsFiniteSet(G) /\ Cardinality(G) = g[t]
  BY Zenon, <1>3, PlacesOfOne
<1>5. IsFiniteSet(Rest)
  BY Zenon, <1>1, PlacesFinite, FS_Subset
<1> HIDE DEF Rest, F, G
<1>6. Cardinality(Rest) \in Nat /\ Cardinality({}) = 0
  BY Zenon, <1>5, FS_CardinalityType, FS_EmptySet
<1>7. Cardinality(Rest \cup F) = Cardinality(Rest) + Cardinality(F) - Cardinality(Rest \cap F)
  BY Zenon, <1>4, <1>5, FS_Union
<1>8. Cardinality(Rest \cup G) = Cardinality(Rest) + Cardinality(G) - Cardinality(Rest \cap G)
  BY <1>4, <1>5, FS_Union
<1>9. Cardinality(Places(f)) = Cardinality(Rest) + f[t] - 0
  BY Zenon, <1>1, <1>2, <1>4, <1>6, <1>7
<1>10. Cardinality(Places(g)) = Cardinality(Rest) + g[t] - 0
  BY Zenon, <1>1, <1>2, <1>4, <1>6, <1>8
<1> QED BY <1>3, <1>6, <1>9, <1>10

LEMMA PlacesSubset ==
  ASSUME RecvPostingAssumption,
         NEW f \in [Progressors -> 0 .. Largest], NEW g \in [Progressors -> 0 .. Largest],
         \A u \in Progressors : f[u] <= g[u]
  PROVE  Cardinality(Places(f)) <= Cardinality(Places(g))
<1>1. Places(f) \subseteq Places(g)
  BY RecvConstants DEF Places
<1> QED BY Zenon, <1>1, PlacesFinite, FS_Subset

-----------------------------------------------------------------------------
\* What the invariant says of one thread.
LEMMA FrameFacts ==
  ASSUME RecvPostingAssumption, RecvIInv, NEW t \in Progressors
  PROVE  /\ local[t] \in Frames /\ FrameInv(local[t])
         /\ local[t].batch \in 0 .. MaxPolls /\ local[t].reserved \in 0 .. BatchSize
         /\ local[t].slots \in 0 .. BatchSize /\ local[t].n \in 0 .. BatchSize
         /\ Shares \in [Progressors -> 0 .. Largest] /\ Promises \in [Progressors -> 0 .. Largest]
         /\ Cardinality(Places(Shares)) \in Nat /\ Cardinality(Places(Promises)) \in Nat
<1>1. \A u \in Progressors :
        /\ local[u] \in Frames /\ FrameInv(local[u])
        /\ local[u].batch \in 0 .. MaxPolls /\ local[u].reserved \in 0 .. BatchSize
        /\ local[u].slots \in 0 .. BatchSize /\ local[u].n \in 0 .. BatchSize
  BY Zenon DEF RecvIInv, RecvTypeInv, Frames
<1>2. \A u \in Progressors :
        /\ local[u].batch + local[u].reserved \in 0 .. Largest
        /\ local[u].slots + local[u].n \in 0 .. Largest
  BY <1>1, RecvConstants DEF Largest, FrameInv
<1>3. Shares \in [Progressors -> 0 .. Largest] /\ Promises \in [Progressors -> 0 .. Largest]
  BY Zenon, <1>2 DEF Shares, Promises, Share
<1> QED BY Zenon, <1>1, <1>3, PlacesFinite

\* The counter follows what thread t adds or takes back when it goes on to l,
\* and what it may post afterwards still fits.
Balanced(t, l) ==
    nrecvs_posted' = nrecvs_posted + (l.batch + l.reserved + srq')
                       - (local[t].batch + local[t].reserved + srq)
Fits(t, l) ==
    srq' + l.slots + l.n + Cardinality(Places(Promises))
        <= NetMaxRecvs + local[t].slots + local[t].n

\* A thread moves on; the counter follows what it adds or takes back, and what
\* it may post afterwards still fits.
LEMMA ThreadMoves ==
  ASSUME RecvPostingAssumption, RecvIInv, NEW t \in Progressors, NEW l \in Frames,
         local' = [local EXCEPT ![t] = l], FrameInv(l),
         srq' \in Nat, pool' \in Nat, out' \in Nat, Balanced(t, l), Fits(t, l)
  PROVE  RecvIInv'
<1> DEFINE S == [u \in Progressors |-> IF u = t THEN l.batch + l.reserved ELSE Shares[u]]
           P == [u \in Progressors |-> IF u = t THEN l.slots + l.n ELSE Promises[u]]
<1>1. /\ l.batch \in 0 .. MaxPolls /\ l.reserved \in 0 .. BatchSize
      /\ l.slots \in 0 .. BatchSize /\ l.n \in 0 .. BatchSize
  BY Zenon DEF Frames
<1>2. local' \in [Progressors -> Frames] /\ local'[t] = l
      /\ \A u \in Progressors \ {t} : local'[u] = local[u]
  BY Zenon DEF RecvIInv, RecvTypeInv
<1>3. Shares' = S /\ Promises' = P
  BY Zenon, <1>2 DEF Shares, Promises, Share
<1>4. /\ S \in [Progressors -> 0 .. Largest] /\ P \in [Progressors -> 0 .. Largest]
      /\ S[t] = l.batch + l.reserved /\ P[t] = l.slots + l.n
      /\ \A u \in Progressors \ {t} : Shares[u] = S[u] /\ Promises[u] = P[u]
  <2>1. l.batch + l.reserved \in 0 .. Largest /\ l.slots + l.n \in 0 .. Largest
    BY <1>1, RecvConstants DEF Largest, FrameInv
  <2> QED BY Zenon, <2>1, FrameFacts
<1>5. Shares[t] = local[t].batch + local[t].reserved /\ Promises[t] = local[t].slots + local[t].n
  BY Zenon DEF Shares, Promises, Share
<1> HIDE DEF S, P
<1>6. Cardinality(Places(Shares)) + S[t] = Cardinality(Places(S)) + Shares[t]
  BY Zenon, <1>4, FrameFacts, PlacesChange
<1>7. Cardinality(Places(Promises)) + P[t] = Cardinality(Places(P)) + Promises[t]
  BY Zenon, <1>4, FrameFacts, PlacesChange
<1>8. Cardinality(Places(S)) \in Nat /\ Cardinality(Places(P)) \in Nat
  BY Zenon, <1>4, PlacesFinite
<1>9. /\ nrecvs_posted = srq + Cardinality(Places(Shares))
      /\ nrecvs_posted \in Nat /\ srq \in Nat
  BY Zenon DEF RecvIInv, RecvTypeInv
<1>10. /\ local[t].batch \in Nat /\ local[t].reserved \in Nat
       /\ local[t].slots \in Nat /\ local[t].n \in Nat
       /\ Cardinality(Places(Shares)) \in Nat /\ Cardinality(Places(Promises)) \in Nat
  BY FrameFacts, RecvConstants
<1>11. l.batch \in Nat /\ l.reserved \in Nat /\ l.slots \in Nat /\ l.n \in Nat
  BY <1>1, RecvConstants
<1>12. nrecvs_posted' = srq' + Cardinality(Places(S))
  <2>1. nrecvs_posted' = nrecvs_posted + (S[t] + srq') - (Shares[t] + srq)
    BY Zenon, <1>4, <1>5, <1>9, <1>10, <1>11 DEF Balanced
  <2>2. S[t] \in Nat /\ Shares[t] \in Nat
    BY <1>4, <1>5, <1>10, <1>11
  <2> QED BY <2>1, <2>2, <1>6, <1>8, <1>9, <1>10
<1>13. srq' + Cardinality(Places(P)) <= NetMaxRecvs
  <2>1. srq' + P[t] + Cardinality(Places(Promises)) <= NetMaxRecvs + Promises[t]
    BY <1>4, <1>5, <1>10, <1>11, RecvConstants DEF Fits
  <2>2. P[t] \in Nat /\ Promises[t] \in Nat
    BY <1>4, <1>5, <1>10, <1>11
  <2> QED BY <2>1, <2>2, <1>7, <1>8, <1>10, RecvConstants
<1>14. \A u \in Progressors : FrameInv(local'[u])
  <2> TAKE u \in Progressors
  <2>1. CASE u = t  BY Zenon, <2>1, <1>2 DEF FrameInv
  <2>2. CASE u # t  BY Zenon, <2>2, <1>2 DEF RecvIInv, FrameInv
  <2> QED BY Zenon, <2>1, <2>2
<1>15. RecvTypeInv'
  BY <1>2, <1>8, <1>12 DEF RecvTypeInv
<1> QED BY Zenon, <1>3, <1>12, <1>13, <1>14, <1>15 DEF RecvIInv, PromisesFit

-----------------------------------------------------------------------------
LEMMA IdleFrame ==
  ASSUME RecvPostingAssumption
  PROVE  /\ IdleThread \in Frames /\ [IdleThread EXCEPT !.pc = "refill"] \in Frames
         /\ \A b \in BOOLEAN : [IdleThread EXCEPT !.pc = "refill", !.blocking = b] \in Frames
         /\ \A k \in 0 .. MaxPolls : [IdleThread EXCEPT !.pc = "consume", !.batch = k] \in Frames
<1>1. IdleThread \in Frames
  BY RecvConstants DEF IdleThread, Frames
<1>2. \A f \in Frames, b \in BOOLEAN : [f EXCEPT !.pc = "refill", !.blocking = b] \in Frames
  BY Zenon DEF Frames
<1>3. \A f \in Frames, k \in 0 .. MaxPolls : [f EXCEPT !.pc = "consume", !.batch = k] \in Frames
  BY Zenon DEF Frames
<1>4. \A f \in Frames : [f EXCEPT !.pc = "refill"] \in Frames
  BY DEF Frames
<1> QED BY Zenon, <1>1, <1>2, <1>3, <1>4

LEMMA RecvInitInv == ASSUME RecvPostingAssumption, RecvInit PROVE RecvIInv
<1>1. local \in [Progressors -> Frames]
  BY Zenon, IdleFrame DEF RecvInit
<1>2. \A t \in Progressors : /\ local[t].pc \in {"idle", "refill"}
                             /\ local[t].batch = 0 /\ local[t].reserved = 0
                             /\ local[t].slots = 0 /\ local[t].n = 0
  BY Zenon DEF RecvInit, IdleThread
<1>3. Places(Shares) = {} /\ Places(Promises) = {}
  BY <1>2 DEF Places, Shares, Share, Promises
<1>4. Cardinality(Places(Shares)) = 0 /\ Cardinality(Places(Promises)) = 0
  BY Zenon, <1>3, FS_EmptySet
<1>5. \A t \in Progressors : FrameInv(local[t])
  BY <1>2 DEF FrameInv
<1> QED BY <1>1, <1>4, <1>5, RecvConstants DEF RecvInit, RecvIInv, RecvTypeInv, PromisesFit

\* The numbers of a thread, for the arithmetic of its steps.
LEMMA Numbers ==
  ASSUME RecvPostingAssumption, RecvIInv, NEW t \in Progressors
  PROVE  /\ nrecvs_posted \in Nat /\ srq \in Nat /\ pool \in Nat /\ out \in Nat
         /\ local[t].batch \in Nat /\ local[t].reserved \in Nat
         /\ local[t].slots \in Nat /\ local[t].n \in Nat
         /\ Cardinality(Places(Promises)) \in Nat
         /\ srq + Cardinality(Places(Promises)) <= NetMaxRecvs
         /\ NetMaxRecvs \in Nat /\ BatchSize \in Nat
BY FrameFacts, RecvConstants DEF RecvIInv, RecvTypeInv, PromisesFit

LEMMA PollCompInv ==
  ASSUME RecvPostingAssumption, RecvIInv, NEW t \in Progressors,
         NEW k \in 0 .. MaxPolls, PollComp(t, k)
  PROVE  RecvIInv'
<1> DEFINE l == [IdleThread EXCEPT !.pc = "consume", !.batch = k]
<1>1. l \in Frames /\ k \in Nat
  <2>1. l \in Frames  BY Zenon, IdleFrame
  <2>2. k \in Nat  BY RecvConstants
  <2> QED BY <2>1, <2>2
<1>2. /\ l.pc = "consume" /\ l.batch = k /\ l.reserved = 0 /\ l.slots = 0 /\ l.n = 0
  BY Zenon DEF IdleThread
<1>3. local[t].batch = 0 /\ local[t].reserved = 0 /\ local[t].slots = 0 /\ local[t].n = 0
  BY Zenon, FrameFacts DEF PollComp, FrameInv
<1>4. /\ local' = [local EXCEPT ![t] = l] /\ srq' = srq - k /\ k <= srq
      /\ pool' = pool /\ out' = out /\ nrecvs_posted' = nrecvs_posted
  BY Zenon DEF PollComp, SetLocal
<1> HIDE DEF l
<1>5. srq' \in Nat /\ pool' \in Nat /\ out' \in Nat
  BY <1>1, <1>4, Numbers
<1>6. Balanced(t, l)
  BY <1>1, <1>2, <1>3, <1>4, Numbers DEF Balanced
<1>7. Fits(t, l)
  BY <1>1, <1>2, <1>3, <1>4, Numbers DEF Fits
<1>8. FrameInv(l)
  BY <1>2 DEF FrameInv
<1> QED BY Zenon, <1>1, <1>4, <1>5, <1>6, <1>7, <1>8, ThreadMoves

LEMMA ConsumeRecvInv ==
  ASSUME RecvPostingAssumption, RecvIInv, NEW t \in Progressors, ConsumeRecv(t)
  PROVE  RecvIInv'
<1> DEFINE l == [local[t] EXCEPT !.batch = @ - 1]
<1>1. /\ local[t].pc = "consume" /\ local[t].batch > 0
      /\ local' = [local EXCEPT ![t] = l] /\ srq' = srq
      /\ pool' = pool /\ out' = out + 1 /\ nrecvs_posted' = nrecvs_posted - 1
  BY Zenon DEF ConsumeRecv, SetLocal
<1>2. local[t] \in Frames /\ local[t].batch \in 0 .. MaxPolls /\ FrameInv(local[t])
  BY FrameFacts
<1>3. local[t].batch - 1 \in 0 .. MaxPolls
  BY <1>1, <1>2, RecvConstants
<1>4. /\ l \in Frames /\ l.pc = "consume" /\ l.batch = local[t].batch - 1
      /\ l.reserved = local[t].reserved /\ l.slots = local[t].slots /\ l.n = local[t].n
  BY Zenon, <1>1, <1>2, <1>3 DEF Frames
<1>5. local[t].reserved = 0 /\ local[t].slots = 0 /\ local[t].n = 0
  BY Zenon, <1>1, <1>2 DEF FrameInv
<1> HIDE DEF l
<1>6. srq' \in Nat /\ pool' \in Nat /\ out' \in Nat
  BY <1>1, Numbers
<1>7. Balanced(t, l)
  BY <1>1, <1>4, Numbers DEF Balanced
<1>8. Fits(t, l)
  BY <1>1, <1>4, Numbers DEF Fits
<1>9. FrameInv(l)
  BY <1>4, <1>5 DEF FrameInv
<1> QED BY Zenon, <1>1, <1>4, <1>6, <1>7, <1>8, <1>9, ThreadMoves

\* The steps that change the place of a thread only.
LEMMA PlaceOnlyInv ==
  ASSUME RecvPostingAssumption, RecvIInv, NEW t \in Progressors, NEW l \in Frames,
         local' = [local EXCEPT ![t] = l],
         local[t].batch = 0, local[t].reserved = 0, l.batch = 0, l.reserved = 0,
         l.slots = 0, l.n = 0,
         UNCHANGED <<nrecvs_posted, srq, pool, out>>
  PROVE  RecvIInv'
<1>1. srq' = srq /\ pool' = pool /\ out' = out /\ nrecvs_posted' = nrecvs_posted
  BY Zenon
<1>2. srq' \in Nat /\ pool' \in Nat /\ out' \in Nat
  BY Zenon, <1>1, Numbers
<1>3. Balanced(t, l)
  BY <1>1, Numbers DEF Balanced
<1>4. Fits(t, l)
  BY <1>1, Numbers DEF Fits
<1>5. FrameInv(l)
  BY DEF FrameInv
<1> QED BY Zenon, <1>2, <1>3, <1>4, <1>5, ThreadMoves

\* A frame of a thread that has nothing and is at one of the steps that need
\* nothing.
LEMMA EmptyFrame ==
  ASSUME RecvPostingAssumption, RecvIInv, NEW t \in Progressors,
         local[t].pc \in {"refill", "check", "reserve"}
  PROVE  /\ local[t].batch = 0 /\ local[t].reserved = 0
         /\ local[t].slots = 0 /\ local[t].n = 0
BY FrameFacts DEF FrameInv

LEMMA BatchProcessedInv ==
  ASSUME RecvPostingAssumption, RecvIInv, NEW t \in Progressors, BatchProcessed(t)
  PROVE  RecvIInv'
<1> DEFINE l == [IdleThread EXCEPT !.pc = "refill"]
<1>1. l \in Frames
  BY Zenon, IdleFrame
<1>2. l.batch = 0 /\ l.reserved = 0 /\ l.slots = 0 /\ l.n = 0
  BY Zenon DEF IdleThread
<1>3. local[t].batch = 0 /\ local[t].reserved = 0
  BY FrameFacts DEF BatchProcessed, FrameInv
<1>4. local' = [local EXCEPT ![t] = l] /\ UNCHANGED <<nrecvs_posted, srq, pool, out>>
  BY DEF BatchProcessed, SetLocal
<1> QED BY Zenon, <1>1, <1>2, <1>3, <1>4, PlaceOnlyInv

\* A step of a thread that goes on to another label with what it has, or
\* returns.
LEMMA GoesOnInv ==
  ASSUME RecvPostingAssumption, RecvIInv, NEW t \in Progressors,
         local[t].pc \in {"refill", "check", "reserve"},
         NEW label \in {"check", "reserve"},
         \/ local' = [local EXCEPT ![t] = [local[t] EXCEPT !.pc = label]]
         \/ local' = [local EXCEPT ![t] = IdleThread]
         \/ \E b \in BOOLEAN :
              local' = [local EXCEPT ![t] = [IdleThread EXCEPT !.pc = "refill", !.blocking = b]],
         UNCHANGED <<nrecvs_posted, srq, pool, out>>
  PROVE  RecvIInv'
<1>1. /\ local[t].batch = 0 /\ local[t].reserved = 0
      /\ local[t].slots = 0 /\ local[t].n = 0 /\ local[t] \in Frames
  BY Zenon, EmptyFrame, FrameFacts
<1>2. CASE local' = [local EXCEPT ![t] = [local[t] EXCEPT !.pc = label]]
  <2> DEFINE l == [local[t] EXCEPT !.pc = label]
  <2>1. l \in Frames /\ l.batch = 0 /\ l.reserved = 0 /\ l.slots = 0 /\ l.n = 0
    BY Zenon, <1>1 DEF Frames
  <2>2. local' = [local EXCEPT ![t] = l]
    BY <1>2
  <2> HIDE DEF l
  <2> QED BY Zenon, <1>1, <2>1, <2>2, PlaceOnlyInv
<1>3. CASE local' = [local EXCEPT ![t] = IdleThread]
  <2>1. /\ IdleThread \in Frames /\ IdleThread.batch = 0 /\ IdleThread.reserved = 0
        /\ IdleThread.slots = 0 /\ IdleThread.n = 0
    BY Zenon, IdleFrame DEF IdleThread
  <2> QED BY Zenon, <1>1, <1>3, <2>1, PlaceOnlyInv
<1>4. ASSUME NEW b \in BOOLEAN,
             local' = [local EXCEPT ![t] = [IdleThread EXCEPT !.pc = "refill", !.blocking = b]]
      PROVE  RecvIInv'
  <2> DEFINE l == [IdleThread EXCEPT !.pc = "refill", !.blocking = b]
  <2>1. l \in Frames
    BY Zenon, IdleFrame
  <2>2. l.batch = 0 /\ l.reserved = 0 /\ l.slots = 0 /\ l.n = 0
    BY Zenon DEF IdleThread
  <2>3. local' = [local EXCEPT ![t] = l]
    BY Zenon, <1>4
  <2> HIDE DEF l
  <2> QED BY Zenon, <1>1, <2>1, <2>2, <2>3, PlaceOnlyInv
<1> QED BY Zenon, <1>2, <1>3, <1>4

LEMMA RefillRecvsInv ==
  ASSUME RecvPostingAssumption, RecvIInv, NEW t \in Progressors, RefillRecvs(t)
  PROVE  RecvIInv'
<1>1. /\ local[t].pc = "refill" /\ UNCHANGED <<nrecvs_posted, srq, pool, out>>
      /\ \/ local' = [local EXCEPT ![t] = [local[t] EXCEPT !.pc = "check"]]
         \/ local' = [local EXCEPT ![t] = IdleThread]
  BY Zenon DEF RefillRecvs, SetLocal
<1> QED BY Zenon, <1>1, GoesOnInv

\* What AfterPost does to a thread.
LEMMA AfterPostFrame ==
  ASSUME RecvPostingAssumption, RecvIInv, NEW t \in Progressors, NEW succeed \in BOOLEAN,
         AfterPost(t, succeed)
  PROVE  \/ local' = [local EXCEPT ![t] = IdleThread]
         \/ \E b \in BOOLEAN :
              local' = [local EXCEPT ![t] = [IdleThread EXCEPT !.pc = "refill", !.blocking = b]]
<1>1. local[t].blocking \in BOOLEAN
  BY FrameFacts DEF Frames
<1> QED BY Zenon, <1>1 DEF AfterPost, SetLocal

LEMMA CheckRoomInv ==
  ASSUME RecvPostingAssumption, RecvIInv, NEW t \in Progressors, CheckRoom(t)
  PROVE  RecvIInv'
<1>1. local[t].pc = "check" /\ UNCHANGED <<nrecvs_posted, srq, pool, out>>
  BY DEF CheckRoom
<1>2. \/ AfterPost(t, FALSE)
      \/ local' = [local EXCEPT ![t] = [local[t] EXCEPT !.pc = "reserve"]]
  BY Zenon DEF CheckRoom, SetLocal
<1> QED BY Zenon, <1>1, <1>2, AfterPostFrame, GoesOnInv

LEMMA BatchSizes ==
  ASSUME RecvPostingAssumption PROVE 0 \in 0 .. BatchSize /\ BatchSize \in 0 .. BatchSize
BY RecvConstants

\* What threads may post is no more than what they added to the counter, so the
\* value that Reserve reads leaves room for what it grants.
LEMMA PositionCovers ==
  ASSUME RecvPostingAssumption, RecvIInv
  PROVE  srq + Cardinality(Places(Promises)) <= nrecvs_posted
<1>1. Binder \in Progressors
  BY Zenon, RecvConstants
<1>2. \A u \in Progressors : Promises[u] <= Shares[u]
  <2> TAKE u \in Progressors
  <2>1. /\ local[u].slots + local[u].n <= local[u].reserved
        /\ local[u].slots \in Nat /\ local[u].n \in Nat
        /\ local[u].reserved \in Nat /\ local[u].batch \in Nat
    BY Zenon, FrameFacts, Numbers DEF FrameInv
  <2> QED BY <2>1 DEF Promises, Shares, Share
<1>3. Cardinality(Places(Promises)) <= Cardinality(Places(Shares))
  BY Zenon, <1>1, <1>2, FrameFacts, PlacesSubset
<1>4. /\ nrecvs_posted = srq + Cardinality(Places(Shares)) /\ srq \in Nat
      /\ Cardinality(Places(Promises)) \in Nat /\ Cardinality(Places(Shares)) \in Nat
  BY <1>1, FrameFacts DEF RecvIInv, RecvTypeInv
<1> QED BY <1>3, <1>4

LEMMA ReserveInv ==
  ASSUME RecvPostingAssumption, RecvIInv, NEW t \in Progressors, Reserve(t)
  PROVE  RecvIInv'
<1>1. /\ local[t].pc = "reserve" /\ nrecvs_posted' = nrecvs_posted + BatchSize
      /\ srq' = srq /\ pool' = pool /\ out' = out
  BY Zenon DEF Reserve
<1>2. /\ local[t].batch = 0 /\ local[t].reserved = 0
      /\ local[t].slots = 0 /\ local[t].n = 0 /\ local[t] \in Frames
  BY Zenon, <1>1, EmptyFrame, FrameFacts
<1>3. PICK l \in Frames :
        /\ local' = [local EXCEPT ![t] = l]
        /\ l.batch = 0 /\ l.reserved = BatchSize /\ l.n = 0
        /\ \/ l.pc = "settle" /\ l.slots = 0
           \/ /\ l.pc = "get_n" /\ l.slots \in 0 .. BatchSize
              /\ l.slots <= NetMaxRecvs - nrecvs_posted
  <2>1. CASE nrecvs_posted >= NetMaxRecvs
    <3> DEFINE l == [local[t] EXCEPT !.pc = "settle", !.reserved = BatchSize]
    <3>1. l \in Frames
      BY Zenon, <1>2, BatchSizes DEF Frames
    <3>2. l.pc = "settle" /\ l.batch = 0 /\ l.reserved = BatchSize /\ l.slots = 0 /\ l.n = 0
      BY <1>2 DEF Frames
    <3>3. local' = [local EXCEPT ![t] = l]
      BY <2>1 DEF Reserve, SetLocal
    <3> QED BY Zenon, <3>1, <3>2, <3>3
  <2>2. CASE ~(nrecvs_posted >= NetMaxRecvs)
    <3> DEFINE k == ReserveSlots(nrecvs_posted)
               l == [local[t] EXCEPT !.pc = "get_n", !.reserved = BatchSize, !.slots = k]
    <3>1. k \in 0 .. BatchSize /\ k <= NetMaxRecvs - nrecvs_posted
      <4>1. nrecvs_posted \in Nat /\ NetMaxRecvs \in Nat /\ BatchSize \in Nat
        BY Zenon, Numbers
      <4> QED BY <2>2, <4>1 DEF ReserveSlots
    <3>2. local' = [local EXCEPT ![t] = l]
      BY <2>2 DEF Reserve, SetLocal
    <3> HIDE DEF k
    <3>3. l \in Frames
      BY Zenon, <1>2, <3>1, BatchSizes DEF Frames
    <3>4. l.pc = "get_n" /\ l.batch = 0 /\ l.reserved = BatchSize /\ l.slots = k /\ l.n = 0
      BY Zenon, <1>2 DEF Frames
    <3> QED BY Zenon, <3>1, <3>2, <3>3, <3>4
  <2> QED BY <2>1, <2>2
<1>4. l.slots \in Nat /\ l.slots <= BatchSize /\ BatchSize \in Nat
  BY <1>3, RecvConstants
<1>5. FrameInv(l)
  BY <1>3, <1>4 DEF FrameInv
<1>6. srq' \in Nat /\ pool' \in Nat /\ out' \in Nat
  BY Zenon, <1>1, Numbers
<1>7. Balanced(t, l)
  BY <1>1, <1>2, <1>3, <1>4, Numbers DEF Balanced
<1>8. Fits(t, l)
  <2> DEFINE P == Cardinality(Places(Promises))
  <2>1. /\ nrecvs_posted \in Nat /\ srq \in Nat /\ P \in Nat /\ NetMaxRecvs \in Nat
        /\ srq + P <= NetMaxRecvs /\ srq + P <= nrecvs_posted
        /\ local[t].slots \in Nat /\ local[t].n \in Nat
    BY Zenon, Numbers, PositionCovers
  <2> HIDE DEF P
  <2>2. srq + l.slots + P <= NetMaxRecvs
    <3>1. CASE l.slots = 0  BY <3>1, <2>1
    <3>2. CASE l.slots <= NetMaxRecvs - nrecvs_posted
      BY <3>2, <1>4, <2>1
    <3> QED BY Zenon, <1>3, <3>1, <3>2
  <2>3. srq' + l.slots + l.n + P <= NetMaxRecvs + local[t].slots + local[t].n
    <3>1. srq' = srq /\ l.n = 0
      BY Zenon, <1>1, <1>3
    <3> QED BY <3>1, <1>4, <2>1, <2>2
  <2> QED BY Zenon, <2>3 DEF Fits, P
<1> QED BY Zenon, <1>3, <1>5, <1>6, <1>7, <1>8, ThreadMoves

LEMMA GetPacketsInv ==
  ASSUME RecvPostingAssumption, RecvIInv, NEW t \in Progressors,
         NEW n \in 0 .. BatchSize, GetPackets(t, n)
  PROVE  RecvIInv'
<1> DEFINE label == IF n = 0 THEN "settle" ELSE "post"
           l == [local[t] EXCEPT !.pc = label, !.n = n, !.slots = 0]
<1>1. /\ local[t].pc = "get_n" /\ n <= local[t].slots /\ n <= pool
      /\ pool' = pool - n /\ srq' = srq /\ out' = out /\ nrecvs_posted' = nrecvs_posted
      /\ local' = [local EXCEPT ![t] = l]
  BY Zenon DEF GetPackets, SetLocal
<1>2. n \in Nat /\ local[t] \in Frames /\ FrameInv(local[t])
  BY FrameFacts, RecvConstants
<1>3. /\ l \in Frames /\ l.pc = (IF n = 0 THEN "settle" ELSE "post") /\ l.n = n /\ l.slots = 0
      /\ l.batch = local[t].batch /\ l.reserved = local[t].reserved
  <2>1. label \in {"settle", "post"}
    OBVIOUS
  <2> HIDE DEF label
  <2>2. l \in Frames
    BY Zenon, <1>2, <2>1, BatchSizes DEF Frames
  <2>3. /\ l.pc = label /\ l.n = n /\ l.slots = 0
        /\ l.batch = local[t].batch /\ l.reserved = local[t].reserved
    BY Zenon, <1>2 DEF Frames
  <2> QED BY Zenon, <2>2, <2>3 DEF label
<1>4. local[t].batch = 0 /\ local[t].n = 0 /\ local[t].slots <= local[t].reserved
  BY <1>1, <1>2, Numbers DEF FrameInv
<1> HIDE DEF l
<1>5. FrameInv(l)
  BY <1>1, <1>2, <1>3, <1>4, Numbers DEF FrameInv
<1>6. srq' \in Nat /\ pool' \in Nat /\ out' \in Nat
  BY <1>1, <1>2, Numbers
<1>7. Balanced(t, l)
  BY <1>1, <1>3, Numbers DEF Balanced
<1>8. Fits(t, l)
  BY <1>1, <1>2, <1>3, <1>4, Numbers DEF Fits
<1> QED BY Zenon, <1>1, <1>3, <1>5, <1>6, <1>7, <1>8, ThreadMoves

LEMMA PostRecvsInv ==
  ASSUME RecvPostingAssumption, RecvIInv, NEW t \in Progressors,
         NEW m \in 0 .. BatchSize, PostRecvs(t, m)
  PROVE  RecvIInv'
<1> DEFINE l == [local[t] EXCEPT !.pc = "settle", !.n = 0, !.reserved = @ - m, !.posted = (m > 0)]
<1>1. /\ local[t].pc = "post" /\ m <= local[t].n
      /\ srq' = srq + m /\ pool' = pool + (local[t].n - m)
      /\ out' = out /\ nrecvs_posted' = nrecvs_posted
      /\ local' = [local EXCEPT ![t] = l]
  BY Zenon DEF PostRecvs, SetLocal
<1>2. /\ m \in Nat /\ local[t] \in Frames /\ FrameInv(local[t])
      /\ local[t].reserved \in 0 .. BatchSize /\ BatchSize \in Nat
  BY FrameFacts, RecvConstants
<1>3. /\ local[t].batch = 0 /\ local[t].slots = 0 /\ local[t].n <= local[t].reserved
  BY <1>1, <1>2, Numbers DEF FrameInv
<1>4. local[t].reserved - m \in 0 .. BatchSize
  <2>1. m <= local[t].n /\ local[t].n \in Nat /\ local[t].reserved \in Nat
    BY Zenon, <1>1, Numbers
  <2> QED BY <1>2, <1>3, <2>1
<1>5. /\ l \in Frames /\ l.pc = "settle" /\ l.n = 0 /\ l.slots = local[t].slots
      /\ l.batch = local[t].batch /\ l.reserved = local[t].reserved - m
  <2>1. l \in Frames
    <3>1. (m > 0) \in BOOLEAN
      OBVIOUS
    <3> QED BY Zenon, <1>2, <1>4, <3>1, BatchSizes DEF Frames
  <2>2. /\ l.pc = "settle" /\ l.n = 0 /\ l.slots = local[t].slots
        /\ l.batch = local[t].batch /\ l.reserved = local[t].reserved - m
    BY Zenon, <1>2 DEF Frames
  <2> QED BY Zenon, <2>1, <2>2
<1> HIDE DEF l
<1>6. FrameInv(l)
  BY <1>2, <1>3, <1>4, <1>5 DEF FrameInv
<1>7. srq' \in Nat /\ pool' \in Nat /\ out' \in Nat
  BY <1>1, <1>2, Numbers
<1>8. Balanced(t, l)
  BY <1>1, <1>2, <1>5, Numbers DEF Balanced
<1>9. Fits(t, l)
  BY <1>1, <1>2, <1>3, <1>5, Numbers DEF Fits
<1> QED BY Zenon, <1>1, <1>5, <1>6, <1>7, <1>8, <1>9, ThreadMoves

LEMMA SettleInv ==
  ASSUME RecvPostingAssumption, RecvIInv, NEW t \in Progressors, Settle(t)
  PROVE  RecvIInv'
<1>1. /\ local[t].pc = "settle" /\ nrecvs_posted' = nrecvs_posted - local[t].reserved
      /\ srq' = srq /\ pool' = pool /\ out' = out /\ AfterPost(t, local[t].posted)
  BY DEF Settle
<1>2. /\ local[t].posted \in BOOLEAN
      /\ local[t].batch = 0 /\ local[t].slots = 0 /\ local[t].n = 0
  BY Zenon, <1>1, FrameFacts DEF Frames, FrameInv
<1>3. PICK l \in Frames : /\ local' = [local EXCEPT ![t] = l]
                          /\ l.pc \in {"idle", "refill"}
                          /\ l.batch = 0 /\ l.reserved = 0 /\ l.slots = 0 /\ l.n = 0
  <2>1. /\ IdleThread \in Frames /\ IdleThread.pc = "idle"
        /\ IdleThread.batch = 0 /\ IdleThread.reserved = 0 /\ IdleThread.slots = 0 /\ IdleThread.n = 0
    BY Zenon, IdleFrame DEF IdleThread
  <2>2. ASSUME NEW b \in BOOLEAN
        PROVE  LET l == [IdleThread EXCEPT !.pc = "refill", !.blocking = b]
               IN  /\ l \in Frames /\ l.pc = "refill"
                   /\ l.batch = 0 /\ l.reserved = 0 /\ l.slots = 0 /\ l.n = 0
    <3>1. [IdleThread EXCEPT !.pc = "refill", !.blocking = b] \in Frames
      BY Zenon, IdleFrame
    <3> QED BY <3>1 DEF IdleThread
  <2>3. \/ local' = [local EXCEPT ![t] = IdleThread]
        \/ \E b \in BOOLEAN :
             local' = [local EXCEPT ![t] = [IdleThread EXCEPT !.pc = "refill", !.blocking = b]]
    BY Zenon, <1>1, <1>2, AfterPostFrame
  <2> QED BY Zenon, <2>1, <2>2, <2>3
<1>4. FrameInv(l)
  BY <1>3 DEF FrameInv
<1>5. srq' \in Nat /\ pool' \in Nat /\ out' \in Nat
  BY Zenon, <1>1, Numbers
<1>6. Balanced(t, l)
  BY <1>1, <1>2, <1>3, Numbers DEF Balanced
<1>7. Fits(t, l)
  BY <1>1, <1>2, <1>3, Numbers DEF Fits
<1> QED BY Zenon, <1>3, <1>4, <1>5, <1>6, <1>7, ThreadMoves

\* PutBack, and steps that change nothing, leave all threads alone.
LEMMA NobodyMovesInv ==
  ASSUME RecvPostingAssumption, RecvIInv, UNCHANGED <<nrecvs_posted, srq, local>>,
         pool' \in Nat, out' \in Nat
  PROVE  RecvIInv'
<1>1. Shares' = Shares /\ Promises' = Promises
  BY Zenon DEF Shares, Promises, Share
<1> QED BY Zenon, <1>1 DEF RecvIInv, RecvTypeInv, PromisesFit

LEMMA RecvNextInv == ASSUME RecvPostingAssumption, RecvIInv, [RecvNext]_recvVars PROVE RecvIInv'
<1>1. ASSUME NEW t \in Progressors, Refill(t)  PROVE RecvIInv'
  BY Zenon, <1>1, ConsumeRecvInv, BatchProcessedInv, RefillRecvsInv, CheckRoomInv, ReserveInv,
     GetPacketsInv, PostRecvsInv, SettleInv DEF Refill
<1>2. ASSUME NEW t \in Progressors, NEW k \in 0 .. MaxPolls, PollComp(t, k)  PROVE RecvIInv'
  BY Zenon, <1>2, PollCompInv
<1>3. CASE PutBack
  <2>1. pool' \in Nat /\ out' \in Nat
    BY <1>3, RecvConstants, Numbers DEF PutBack
  <2> QED BY Zenon, <1>3, <2>1, NobodyMovesInv DEF PutBack
<1>4. CASE UNCHANGED recvVars
  <2>1. pool' \in Nat /\ out' \in Nat
    BY <1>4 DEF recvVars, RecvIInv, RecvTypeInv
  <2> QED BY Zenon, <1>4, <2>1, NobodyMovesInv DEF recvVars
<1> QED BY Zenon, <1>1, <1>2, <1>3, <1>4 DEF RecvNext

\* For any number of progressing threads, of packets and of receives, nrecvs_posted
\* is exact between any two steps of refill_recvs, post_recv_packets and
\* consume_recvs, and the hardware queue is never overfilled.
THEOREM RecvPostingInvariant == RecvSpec => []RecvInv
<1>0. RecvPostingAssumption
  BY RecvPostingConstants
<1>1. RecvInit => RecvIInv
  BY Zenon, <1>0, RecvInitInv
<1>2. RecvIInv /\ [RecvNext]_recvVars => RecvIInv'
  BY Zenon, <1>0, RecvNextInv
<1>3. RecvIInv => RecvInv
  <2> SUFFICES ASSUME RecvIInv PROVE RecvInv
    BY Zenon
  <2>1. RecvTypeOK
    BY Zenon, <1>0, Numbers DEF RecvTypeOK, RecvIInv, RecvTypeInv
  <2>2. CounterExact
    BY Zenon DEF CounterExact, RecvIInv, Shares, Share
  <2>3. SrqBounded
    BY <1>0, RecvConstants, Numbers DEF SrqBounded
  <2> QED BY Zenon, <2>1, <2>2, <2>3 DEF RecvInv
<1> QED BY <1>1, <1>2, <1>3, PTL DEF RecvSpec

-----------------------------------------------------------------------------
(* The send queue.                                                         *)

\* One thread more, in a set of threads, is one more to count.
LEMMA AddThread ==
    ASSUME NEW S \in SUBSET Threads, NEW t \in Threads, t \notin S
    PROVE  Cardinality(S \cup {t}) = Cardinality(S) + 1
BY Zenon, FS_Subset, FS_AddElement, IbvSendQueueAssumption

\* One thread fewer is one fewer to count.
LEMMA RemoveThread ==
    ASSUME NEW S \in SUBSET Threads, NEW t \in S
    PROVE  Cardinality(S \ {t}) = Cardinality(S) - 1
BY Zenon, FS_Subset, FS_RemoveElement, IbvSendQueueAssumption

\* The number of threads in a set is a natural number, at most that of all.
LEMMA CountThreads ==
    ASSUME NEW S \in SUBSET Threads
    PROVE  Cardinality(S) \in Nat /\ Cardinality(S) <= Cardinality(Threads)
BY Zenon, FS_Subset, FS_CardinalityType, IbvSendQueueAssumption

\* A subset has no more threads than the set.
LEMMA CountSubset ==
    ASSUME NEW S \in SUBSET Threads, NEW R \in SUBSET S
    PROVE  Cardinality(R) <= Cardinality(S)
BY Zenon, FS_Subset, IbvSendQueueAssumption

\* The sets that are counted hold threads, in either state of a step.
LEMMA CountedSets ==
    /\ {Claimers, Winners, LowClaimers, LowPassed} \subseteq SUBSET Threads
    /\ {Claimers', Winners', LowClaimers', LowPassed'} \subseteq SUBSET Threads
    /\ LowClaimers \subseteq Winners /\ Winners \subseteq Claimers
BY Zenon DEF Claimers, Winners, LowClaimers, LowPassed

\* What is counted is a number, before and after a step.
LEMMA Counts ==
    /\ Cardinality(Claimers) \in Nat /\ Cardinality(Winners) \in Nat
    /\ Cardinality(LowClaimers) \in Nat /\ Cardinality(LowPassed) \in Nat
    /\ Cardinality(LowPassed') \in Nat /\ Cardinality(LowPassed') <= Cardinality(Threads)
    /\ Cardinality(Threads) \in Nat
    /\ Cardinality(LowClaimers) <= Cardinality(Claimers)
    /\ Cardinality(Winners) <= Cardinality(Claimers)
<1>1. LowClaimers \in SUBSET Claimers /\ Winners \in SUBSET Claimers
    BY CountedSets
<1> QED
    BY Zenon, <1>1, CountedSets, CountThreads, CountSubset

\* The operations of low priority, those that only passed the load included.
LowBounded ==
    sq["low"] + Cardinality(LowClaimers) + Cardinality(LowPassed)
        < NetMaxSends - Threshold + Cardinality(Threads)

\* The numbers of the invariant, as the arithmetic of the steps needs them.
LEMMA SendNumbers ==
    ASSUME SendQueueInv
    PROVE  /\ slots \in Int /\ polled \in Nat /\ sq["high"] \in Nat /\ sq["low"] \in Nat
           /\ NetMaxSends \in Nat /\ Threshold \in Nat /\ Threshold < NetMaxSends
           /\ slots + sq["high"] + sq["low"] + polled + Cardinality(Claimers) = NetMaxSends
           /\ sq["high"] + sq["low"] + Cardinality(Winners) <= NetMaxSends
           /\ slots <= NetMaxSends
           /\ sq["low"] + Cardinality(LowClaimers) + Cardinality(LowPassed)
                < NetMaxSends - Threshold + Cardinality(Threads)
<1>1. slots \in Int /\ polled \in Nat /\ sq \in [{"high", "low"} -> Nat]
    BY Zenon DEF SendQueueInv, SendTypeOK, Priorities
<1>2. sq["high"] \in Nat /\ sq["low"] \in Nat
    BY Zenon, <1>1
<1>3. NetMaxSends \in Nat /\ Threshold \in Nat /\ Threshold < NetMaxSends
    BY IbvSendQueueAssumption
<1> QED
    BY Zenon, <1>1, <1>2, <1>3 DEF SendQueueInv, SlotsConserved, QueueNeverOverflows

LEMMA SendParts ==
    SendTypeOK /\ SlotsConserved /\ QueueNeverOverflows /\ LowBounded => SendQueueInv
BY Zenon DEF SendQueueInv, LowBounded

LEMMA SendPartsNext ==
    SendTypeOK' /\ SlotsConserved' /\ QueueNeverOverflows' /\ LowBounded' => SendQueueInv'
BY Zenon DEF SendQueueInv, LowBounded

LEMMA SendTyped ==
    ASSUME SendQueueInv
    PROVE  /\ slots \in Int /\ polled \in Nat /\ lock \in Threads \cup {None}
           /\ sq \in [Priorities -> Nat] /\ pc \in [Threads -> Labels]
           /\ prio \in [Threads -> Priorities]
BY Zenon DEF SendQueueInv, SendTypeOK

-----------------------------------------------------------------------------
\* The inductive invariant holds initially: the queue is empty, all slots are in
\* the counter.
LEMMA SendInitInv == SendInit => SendQueueInv
<1> SUFFICES ASSUME SendInit PROVE SendQueueInv
    BY Zenon
<1>1. Claimers = {} /\ Winners = {} /\ LowClaimers = {} /\ LowPassed = {}
    BY Zenon DEF SendInit, Claimers, Winners, LowClaimers, LowPassed
<1>2. Cardinality({}) = 0 /\ Cardinality(Threads) \in Nat
    BY Zenon, FS_EmptySet, CountThreads
<1>3. SendTypeOK
    BY IbvSendQueueAssumption DEF SendInit, SendTypeOK, Priorities, Labels
<1>4. slots = NetMaxSends /\ sq["high"] = 0 /\ sq["low"] = 0 /\ polled = 0
    BY Zenon DEF SendInit, Priorities
<1>5. SlotsConserved /\ QueueNeverOverflows /\ LowBounded
    BY <1>1, <1>2, <1>4, IbvSendQueueAssumption DEF SlotsConserved, QueueNeverOverflows, LowBounded
<1> QED
    BY Zenon, <1>3, <1>5, SendParts

\* try_acquire_slot's load: a low-priority thread that passes it saw more than
\* Threshold slots, so low-priority operations were within their share then.
LEMMA StepTryAcquireSlot ==
    ASSUME SendQueueInv, NEW t \in Threads, NEW p \in Priorities, TryAcquireSlot(t, p)
    PROVE  SendQueueInv'
<1>1. SendTypeOK'
    BY Zenon, SendTyped DEF SendTypeOK, Labels, TryAcquireSlot, Goto
<1>2. Claimers' = Claimers /\ Winners' = Winners /\ LowClaimers' = LowClaimers
    BY SendTyped DEF Claimers, Winners, LowClaimers, TryAcquireSlot, Goto
<1>3. /\ slots' = slots /\ sq' = sq /\ polled' = polled
      /\ p = "low" => slots > Threshold
    BY Zenon DEF TryAcquireSlot
<1>4. SlotsConserved' /\ QueueNeverOverflows'
    BY Zenon, <1>2, <1>3 DEF SendQueueInv, SlotsConserved, QueueNeverOverflows
<1>5. LowBounded'
    <2>1. CASE p = "low"
        BY <1>2, <1>3, <2>1, Counts, SendNumbers DEF LowBounded
    <2>2. CASE p # "low"
        <3>1. LowPassed' = LowPassed
            BY Zenon, <2>2, SendTyped DEF LowPassed, TryAcquireSlot, Goto
        <3> QED
            BY Zenon, <1>2, <1>3, <3>1, SendNumbers DEF LowBounded
    <2> QED
        BY Zenon, <2>1, <2>2
<1> QED
    BY Zenon, <1>1, <1>4, <1>5, SendPartsNext

\* The fetch_sub: the thread becomes a claimer, and a winner only if slots were
\* left.
LEMMA StepSubSlot ==
    ASSUME SendQueueInv, NEW t \in Threads, SubSlot(t)
    PROVE  SendQueueInv'
<1>1. SendTypeOK'
    BY SendTyped DEF SendTypeOK, Labels, SubSlot, Goto
<1>2. t \notin Claimers /\ t \notin Winners /\ t \notin LowClaimers
    BY Zenon DEF Claimers, Winners, LowClaimers, SubSlot
<1>3. Claimers' = Claimers \cup {t}
    BY Zenon, SendTyped DEF Claimers, SubSlot, Goto
<1>4. Cardinality(Claimers') = Cardinality(Claimers) + 1
    BY <1>2, <1>3, AddThread, CountedSets
<1>5. slots' = slots - 1 /\ sq' = sq /\ polled' = polled
    BY Zenon DEF SubSlot
<1>6. SlotsConserved'
    BY <1>4, <1>5, Counts, SendNumbers DEF SlotsConserved
<1> DEFINE low == IF prio[t] = "low" THEN 1 ELSE 0
<1>7. Cardinality(LowPassed') = Cardinality(LowPassed) - low
    <2>1. LowPassed' = LowPassed \ {t} /\ (prio[t] = "low" <=> t \in LowPassed)
        BY Zenon, SendTyped DEF LowPassed, SubSlot, Goto
    <2>2. CASE prio[t] = "low"
        BY Zenon, <2>1, <2>2, RemoveThread, CountedSets
    <2>3. CASE prio[t] # "low"
        <3>1. LowPassed' = LowPassed
            BY Zenon, <2>1, <2>3
        <3> QED
            BY <2>3, <3>1, Counts
    <2> QED
        BY Zenon, <2>2, <2>3
<1>8. low \in {0, 1}
    OBVIOUS
<1>9. CASE slots <= 0
    <2>1. Winners' = Winners /\ LowClaimers' = LowClaimers
        BY Zenon, <1>9, SendTyped DEF Winners, LowClaimers, SubSlot, Goto
    <2>2. QueueNeverOverflows'
        BY <1>5, <2>1, SendNumbers DEF QueueNeverOverflows
    <2> HIDE DEF low
    <2>3. LowBounded'
        BY <1>5, <1>7, <1>8, <2>1, Counts, SendNumbers DEF LowBounded
    <2> QED
        BY Zenon, <1>1, <1>6, <2>2, <2>3, SendPartsNext
<1>10. CASE slots > 0
    <2>1. Winners' = Winners \cup {t}
        BY <1>10, SendTyped DEF Winners, SubSlot, Goto
    <2>2. Cardinality(Winners') = Cardinality(Winners) + 1
        BY Zenon, <1>2, <2>1, AddThread, CountedSets
    <2>3. QueueNeverOverflows'
        BY <1>5, <1>10, <2>2, Counts, SendNumbers DEF QueueNeverOverflows
    <2>4. Cardinality(LowClaimers') = Cardinality(LowClaimers) + low
        <3>1. prio' = prio
            BY Zenon DEF SubSlot
        <3>2. LowClaimers' = IF prio[t] = "low" THEN LowClaimers \cup {t} ELSE LowClaimers
            BY Zenon, <2>1, <3>1 DEF LowClaimers
        <3> QED
            BY <1>2, <3>2, AddThread, CountedSets, Counts
    <2> HIDE DEF low
    <2>5. LowBounded'
        BY <1>5, <1>7, <1>8, <2>4, Counts, SendNumbers DEF LowBounded
    <2> QED
        BY Zenon, <1>1, <1>6, <2>3, <2>5, SendPartsNext
<1> QED
    BY <1>9, <1>10, SendNumbers

\* release_slot: the claimer is gone and the counter has its slot back.
LEMMA StepReleaseSlot ==
    ASSUME SendQueueInv, NEW t \in Threads, ReleaseSlot(t)
    PROVE  SendQueueInv'
<1>1. SendTypeOK'
    BY SendTyped DEF SendTypeOK, Labels, ReleaseSlot, Goto
<1>2. Claimers' = Claimers \ {t} /\ t \in Claimers
    BY Zenon, SendTyped DEF Claimers, ReleaseSlot, Goto
<1>3. Cardinality(Claimers') = Cardinality(Claimers) - 1
    BY Zenon, <1>2, RemoveThread, CountedSets
<1>4. Winners' = Winners /\ LowClaimers' = LowClaimers /\ LowPassed' = LowPassed
    BY SendTyped DEF Winners, LowClaimers, LowPassed, ReleaseSlot, Goto
<1>5. slots' = slots + 1 /\ sq' = sq /\ polled' = polled
    BY Zenon DEF ReleaseSlot
<1>6. SlotsConserved'
    BY <1>3, <1>5, Counts, SendNumbers DEF SlotsConserved
<1>7. Cardinality(Claimers') \in Nat
    BY Zenon, CountedSets, CountThreads
<1>8. QueueNeverOverflows'
    BY <1>3, <1>4, <1>5, <1>7, Counts, SendNumbers DEF QueueNeverOverflows
<1>9. LowBounded'
    BY Zenon, <1>4, <1>5, SendNumbers DEF LowBounded
<1> QED
    BY Zenon, <1>1, <1>6, <1>8, <1>9, SendPartsNext

\* try_lock_qp: a winner goes on to post or turns into a claimer that gives up.
LEMMA StepTryLockQp ==
    ASSUME SendQueueInv, NEW t \in Threads, TryLockQp(t)
    PROVE  SendQueueInv'
<1>1. SendTypeOK'
    BY Zenon, SendTyped DEF SendTypeOK, Labels, TryLockQp, Goto
<1>2. Claimers' = Claimers /\ LowPassed' = LowPassed
    BY Zenon, SendTyped DEF Claimers, LowPassed, TryLockQp, Goto
<1>3. Winners' \in SUBSET Winners /\ LowClaimers' \in SUBSET LowClaimers
    BY Zenon, SendTyped DEF Winners, LowClaimers, TryLockQp, Goto
<1>4. /\ Cardinality(Winners') <= Cardinality(Winners) /\ Cardinality(Winners') \in Nat
      /\ Cardinality(LowClaimers') <= Cardinality(LowClaimers) /\ Cardinality(LowClaimers') \in Nat
    BY <1>3, CountSubset, CountThreads, CountedSets
<1>5. slots' = slots /\ sq' = sq /\ polled' = polled
    BY Zenon DEF TryLockQp
<1>6. SlotsConserved'
    BY Zenon, <1>2, <1>5, SendNumbers DEF SlotsConserved
<1>7. QueueNeverOverflows' /\ LowBounded'
    BY <1>2, <1>4, <1>5, Counts, SendNumbers DEF QueueNeverOverflows, LowBounded
<1> QED
    BY Zenon, <1>1, <1>6, <1>7, SendPartsNext

\* ibv_post_send: a work request takes the place of a winner, or the winner
\* turns into a claimer that gives up.
LEMMA StepPostSend ==
    ASSUME SendQueueInv, NEW t \in Threads, PostSend(t)
    PROVE  SendQueueInv'
<1>1. SendTypeOK'
    BY SendTyped DEF SendTypeOK, Labels, Priorities, PostSend, Goto
<1>2. LowPassed' = LowPassed /\ Winners' = Winners \ {t} /\ t \in Winners /\ t \in Claimers
    BY Zenon, SendTyped DEF LowPassed, Winners, Claimers, PostSend, Goto
<1>3. Cardinality(Winners') = Cardinality(Winners) - 1
    BY <1>2, RemoveThread, CountedSets
<1>4. slots' = slots /\ polled' = polled /\ prio' = prio
    BY Zenon DEF PostSend
<1>5. LowClaimers' = LowClaimers \ {t} /\ (t \in LowClaimers <=> prio[t] = "low")
    BY Zenon, <1>2, <1>4 DEF LowClaimers
<1> DEFINE low == IF prio[t] = "low" THEN 1 ELSE 0
<1>6. Cardinality(LowClaimers') = Cardinality(LowClaimers) - low
    <2>1. CASE prio[t] = "low"
        BY Zenon, <1>5, <2>1, RemoveThread, CountedSets
    <2>2. CASE prio[t] # "low"
        <3>1. LowClaimers' = LowClaimers
            BY Zenon, <1>5, <2>2
        <3> QED
            BY <2>2, <3>1, Counts
    <2> QED
        BY Zenon, <2>1, <2>2
<1>7. low \in {0, 1}
    OBVIOUS
<1>8. CASE sq' = [sq EXCEPT ![prio[t]] = @ + 1] /\ pc' = [pc EXCEPT ![t] = "posted"]
    <2>1. Claimers' = Claimers \ {t}
        BY Zenon, <1>8, SendTyped DEF Claimers, PostSend
    <2>2. Cardinality(Claimers') = Cardinality(Claimers) - 1
        BY Zenon, <1>2, <2>1, RemoveThread, CountedSets
    <2>3. /\ sq'["high"] + sq'["low"] = sq["high"] + sq["low"] + 1
          /\ sq'["low"] = sq["low"] + low /\ sq'["high"] \in Nat /\ sq'["low"] \in Nat
        <3>1. prio[t] \in {"high", "low"} /\ sq \in [{"high", "low"} -> Nat]
            BY Zenon, SendTyped DEF Priorities
        <3> QED
            BY <1>8, <3>1
    <2>4. SlotsConserved'
        <3>1. sq'["high"] + sq'["low"] = sq["high"] + sq["low"] + 1 /\ sq'["high"] \in Nat /\ sq'["low"] \in Nat
            BY Zenon, <2>3
        <3> QED
            BY <1>4, <2>2, <3>1, Counts, SendNumbers DEF SlotsConserved
    <2> HIDE DEF low
    <2>5. QueueNeverOverflows'
        BY <1>3, <1>4, <1>7, <2>3, Counts, SendNumbers DEF QueueNeverOverflows
    <2>6. LowBounded'
        BY <1>2, <1>6, <1>7, <2>3, Counts, SendNumbers DEF LowBounded
    <2> QED
        BY Zenon, <1>1, <2>4, <2>5, <2>6, SendPartsNext
<1>9. CASE UNCHANGED sq /\ pc' = [pc EXCEPT ![t] = "refused"]
    <2>1. Claimers' = Claimers
        BY <1>9, SendTyped DEF Claimers, PostSend
    <2>2. SlotsConserved'
        BY Zenon, <1>4, <1>9, <2>1, SendNumbers DEF SlotsConserved
    <2>3. QueueNeverOverflows'
        BY <1>3, <1>4, <1>9, Counts, SendNumbers DEF QueueNeverOverflows
    <2> HIDE DEF low
    <2>4. LowBounded'
        BY <1>2, <1>6, <1>7, <1>9, Counts, SendNumbers DEF LowBounded
    <2> QED
        BY Zenon, <1>1, <2>2, <2>3, <2>4, SendPartsNext
<1> QED
    BY Zenon, <1>8, <1>9 DEF PostSend, Goto

\* unlock_qp moves no thread into or out of a counted set.
LEMMA StepUnlockQp ==
    ASSUME SendQueueInv, NEW t \in Threads, UnlockQp(t)
    PROVE  SendQueueInv'
<1>1. SendTypeOK'
    BY Zenon, SendTyped DEF SendTypeOK, Labels, UnlockQp, Goto
<1>2. /\ Claimers' = Claimers /\ Winners' = Winners
      /\ LowClaimers' = LowClaimers /\ LowPassed' = LowPassed
    BY SendTyped DEF Claimers, Winners, LowClaimers, LowPassed, UnlockQp, Goto
<1>3. slots' = slots /\ sq' = sq /\ polled' = polled
    BY Zenon DEF UnlockQp
<1>4. SlotsConserved' /\ QueueNeverOverflows' /\ LowBounded'
    BY Zenon, <1>2, <1>3, SendNumbers DEF SlotsConserved, QueueNeverOverflows, LowBounded
<1> QED
    BY Zenon, <1>1, <1>4, SendPartsNext

\* A poll moves a work request from the queue to the polled ones.
LEMMA StepPollComp ==
    ASSUME SendQueueInv, NEW p \in Priorities, PollSendComp(p)
    PROVE  SendQueueInv'
<1>1. SendTypeOK'
    BY SendTyped DEF SendTypeOK, Priorities, PollSendComp
<1>2. /\ Claimers' = Claimers /\ Winners' = Winners
      /\ LowClaimers' = LowClaimers /\ LowPassed' = LowPassed
    BY Zenon DEF Claimers, Winners, LowClaimers, LowPassed, PollSendComp
<1>3. slots' = slots /\ polled' = polled + 1
    BY Zenon DEF PollSendComp
<1>4. /\ sq'["high"] + sq'["low"] = sq["high"] + sq["low"] - 1 /\ sq'["low"] <= sq["low"]
      /\ sq'["high"] \in Nat /\ sq'["low"] \in Nat
    BY SendTyped DEF Priorities, PollSendComp
<1>5. SlotsConserved'
    BY <1>2, <1>3, <1>4, Counts, SendNumbers DEF SlotsConserved
<1>6. QueueNeverOverflows' /\ LowBounded'
    BY <1>2, <1>3, <1>4, Counts, SendNumbers DEF QueueNeverOverflows, LowBounded
<1> QED
    BY Zenon, <1>1, <1>5, <1>6, SendPartsNext

\* A polled completion gives its slot back.
LEMMA StepReturnSlot ==
    ASSUME SendQueueInv, ReturnSlot
    PROVE  SendQueueInv'
<1>1. SendTypeOK'
    BY SendTyped DEF SendTypeOK, ReturnSlot
<1>2. /\ Claimers' = Claimers /\ Winners' = Winners
      /\ LowClaimers' = LowClaimers /\ LowPassed' = LowPassed
    BY Zenon DEF Claimers, Winners, LowClaimers, LowPassed, ReturnSlot
<1>3. slots' = slots + 1 /\ sq' = sq /\ polled' = polled - 1 /\ polled > 0
    BY Zenon DEF ReturnSlot
<1>4. SlotsConserved' /\ QueueNeverOverflows'
    BY <1>2, <1>3, Counts, SendNumbers DEF SlotsConserved, QueueNeverOverflows
<1>5. LowBounded'
    BY Zenon, <1>2, <1>3, SendNumbers DEF LowBounded
<1> QED
    BY Zenon, <1>1, <1>4, <1>5, SendPartsNext

\* Every step preserves the inductive invariant.
LEMMA SendNextInv == SendQueueInv /\ [SendNext]_sendVars => SendQueueInv'
<1> SUFFICES ASSUME SendQueueInv, [SendNext]_sendVars PROVE SendQueueInv'
    OBVIOUS
<1>1. CASE UNCHANGED sendVars
    <2>1. /\ slots' = slots /\ lock' = lock /\ sq' = sq /\ polled' = polled
          /\ pc' = pc /\ prio' = prio
        BY Zenon, <1>1 DEF sendVars
    <2>2. /\ Claimers' = Claimers /\ Winners' = Winners
          /\ LowClaimers' = LowClaimers /\ LowPassed' = LowPassed
        BY Zenon, <2>1 DEF Claimers, Winners, LowClaimers, LowPassed
    <2>3. SendTypeOK'
        BY Zenon, <2>1 DEF SendQueueInv, SendTypeOK
    <2>4. SlotsConserved' /\ QueueNeverOverflows' /\ LowBounded'
        BY Zenon, <2>1, <2>2, SendNumbers DEF SlotsConserved, QueueNeverOverflows, LowBounded
    <2> QED
        BY Zenon, <2>3, <2>4, SendPartsNext
<1>2. CASE SendNext
    BY Zenon, <1>2, StepTryAcquireSlot, StepSubSlot, StepReleaseSlot, StepTryLockQp,
       StepPostSend, StepUnlockQp, StepPollComp, StepReturnSlot DEF SendNext
<1> QED
    BY Zenon, <1>1, <1>2

-----------------------------------------------------------------------------
\* SendQueueInv for any number of threads, any queue and any reserve: the slots
\* of a queue pair are conserved, the send queue never overflows, and the
\* operations of low priority are bounded (try_acquire_slot, release_slot and
\* the seven post functions of the verbs backend).
THEOREM SendQueueInvariant == SendSpec => []SendQueueInv
BY SendInitInv, SendNextInv, PTL DEF SendSpec

\* No slot of a queue pair is lost or invented by any interleaving of the post
\* functions and of polling.
THEOREM SendQueueSlotsConserved == SendSpec => []SlotsConserved
<1>1. SendQueueInv => SlotsConserved
    BY Zenon DEF SendQueueInv
<1> QED
    BY <1>1, SendQueueInvariant, PTL

\* The send queue never needs more than the capacity it was created with, for
\* any number of posting threads.
THEOREM SendQueueNeverOverflows == SendSpec => []QueueNeverOverflows
<1>1. SendQueueInv => QueueNeverOverflows
    BY Zenon DEF SendQueueInv
<1> QED
    BY <1>1, SendQueueInvariant, PTL

\* Low-priority operations exceed their share of the slots by less than the
\* number of threads (try_acquire_slot reads the counter before it takes a slot).
THEOREM SendQueueLowPriorityBounded == SendSpec => []LowPriorityBounded
<1>1. SendQueueInv => LowPriorityBounded
    BY Counts, SendNumbers DEF LowPriorityBounded
<1> QED
    BY <1>1, SendQueueInvariant, PTL

=============================================================================
