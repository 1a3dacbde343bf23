--------------------------- MODULE RegCacheProofs ---------------------------
(***************************************************************************)
(* Proofs about module RegCache.  The operators of the inductive invariant *)
(* take the regions and the users as parameters, because an action changes *)
(* the regions several times: it works off the queue, frees the garbage,   *)
(* invalidates what overlaps and then adds or takes a region.              *)
(***************************************************************************)
EXTENDS RegCache, TLAPS

RegionSet ==
    [state : {"unused", "live", "gc"}, start : Nat, end : Nat, refs : Int,
     pgtable : BOOLEAN, address : Nat, size : Nat, unmapped : BOOLEAN]
UserSet ==
    [pc : {"idle", "get", "lookup", "create", "register", "set", "held", "destroy"},
     buf : [address : Nat, size : Nat], id : 0 .. MaxRegions, gone : SUBSET Ids]

HoldersOf(us, i) == {u \in Users : us[u].id = i /\ us[u].pc # "destroy"}

RegionOk(rs, us, i) ==
    /\ rs[i].state = "unused" => rs[i] = Unused
    /\ rs[i].pgtable => rs[i].state = "live" /\ rs[i].start < rs[i].end
    /\ rs[i].state = "live" =>
          /\ rs[i].refs = Cardinality(HoldersOf(us, i)) + (IF rs[i].pgtable THEN 1 ELSE 0)
          /\ rs[i].pgtable \/ \E u \in Users : us[u].id = i

Apart(rs) ==
    \A i, j \in Ids : i # j /\ rs[i].pgtable /\ rs[j].pgtable =>
        rs[i].end <= rs[j].start \/ rs[j].end <= rs[i].start

UserOk(rs, us, u) ==
    /\ us[u].pc \in {"register", "set", "held", "destroy"} <=> us[u].id # 0
    /\ us[u].id # 0 => rs[us[u].id].state = "live"
    /\ us[u].pc \in {"register", "set", "held"} =>
          /\ rs[us[u].id].start <= us[u].buf.address
          /\ us[u].buf.address + us[u].buf.size <= rs[us[u].id].end
          /\ us[u].id \notin us[u].gone
    /\ us[u].pc \in {"get", "lookup", "create", "register", "set", "destroy"} => us[u].buf.size > 0
    /\ us[u].pc = "held" =>
          /\ rs[us[u].id].size > 0 <=> us[u].buf.size > 0
          /\ us[u].buf.size = 0 => ~rs[us[u].id].pgtable
    /\ us[u].pc = "destroy" => rs[us[u].id].refs = 0 /\ ~rs[us[u].id].pgtable

\* A lookup without the lock for writing sees no region that was unmapped before.
GoneOk(rs, us, u) ==
    \A i \in us[u].gone : rs[i].pgtable => rs[i].unmapped /\ us[u].pc # "lookup"

PairOk(us, u, v) ==
    u # v /\ us[u].id = us[v].id /\ us[u].id # 0 =>
        /\ us[u].buf.size > 0 /\ us[v].buf.size > 0
        /\ us[u].pc # "destroy" \/ us[v].pc # "destroy"

Fine(rs, us) ==
    /\ rs \in [Ids -> RegionSet] /\ us \in [Users -> UserSet]
    /\ \A i \in Ids : RegionOk(rs, us, i)
    /\ Apart(rs)
    /\ \A u \in Users : UserOk(rs, us, u) /\ GoneOk(rs, us, u)
    /\ \A u, v \in Users : PairOk(us, u, v)

\* Regions of unmapped memory that are still in the table wait in inv_q.
Waiting(rs, q) ==
    \A i \in Ids : rs[i].pgtable /\ rs[i].unmapped =>
        \E k \in DOMAIN q : rs[i].start < q[k].to /\ q[k].from < rs[i].end

CacheIInv ==
    /\ Fine(regions, user)
    /\ inv_q \in Seq([from : Nat, to : Nat]) /\ Waiting(regions, inv_q)
    /\ ~alive => /\ \A i \in Ids : regions[i] = Unused
                 /\ \A u \in Users : user[u].pc = "idle"

-----------------------------------------------------------------------------
\* What the proofs use of the theory of finite sets and of the natural numbers.
SetFacts ==
    /\ \A S \in SUBSET Users :
          /\ IsFiniteSet(S) /\ Cardinality(S) \in Nat /\ (Cardinality(S) = 0 <=> S = {})
          /\ \A u \in Users : u \notin S => Cardinality(S \cup {u}) = Cardinality(S) + 1
    /\ \A T \in SUBSET Nat : T # {} => \E m \in T : \A k \in T : m <= k

\* A thread that does nothing and a region that is not used.
LEMMA IdleFields ==
    ASSUME MaxRegions \in Nat
    PROVE  /\ Idle \in UserSet /\ Idle.pc = "idle" /\ Idle.id = 0 /\ Idle.gone = {}
           /\ Idle.buf.size = 0
BY DEF Idle, UserSet

LEMMA UnusedFields ==
    /\ Unused \in RegionSet /\ Unused.state = "unused" /\ Unused.pgtable = FALSE
    /\ Unused.unmapped = FALSE
BY DEF Unused, RegionSet

\* Who holds a region: finitely many threads.
LEMMA HoldersFinite ==
    ASSUME SetFacts, NEW us, NEW i
    PROVE  /\ IsFiniteSet(HoldersOf(us, i)) /\ Cardinality(HoldersOf(us, i)) \in Nat
           /\ Cardinality(HoldersOf(us, i)) = 0 <=> HoldersOf(us, i) = {}
<1>1. HoldersOf(us, i) \in SUBSET Users BY DEF HoldersOf
<1> QED BY <1>1 DEF SetFacts

LEMMA OneHolder ==
    ASSUME SetFacts, NEW u \in Users
    PROVE  Cardinality({u}) = 1
<1>1. {} \in SUBSET Users /\ u \notin {} /\ {} \cup {u} = {u} OBVIOUS
<1>2. Cardinality({}) = 0 BY <1>1 DEF SetFacts
<1>3. Cardinality({} \cup {u}) = Cardinality({}) + 1 BY <1>1 DEF SetFacts
<1> QED BY <1>1, <1>2, <1>3

\* A region that went out of the table and is still held.
OutOfTable(n, r) ==
    /\ n.state = r.state /\ n.start = r.start /\ n.end = r.end /\ n.size = r.size
    /\ n.pgtable = FALSE /\ n.refs = r.refs - 1

\* What invalidation leaves of a region (ucs_rcache_region_invalidate_internal).
Invalidated(n, rs, us, ids, i) ==
    /\ n[i] \in RegionSet
    /\ i \notin ids => n[i] = rs[i]
    /\ i \in ids =>
          IF \E u \in Users : us[u].id = i THEN OutOfTable(n[i], rs[i])
          ELSE n[i] = Unused \/ (n[i].state = "gc" /\ n[i].pgtable = FALSE)

\* What invalidation leaves in the table was not invalidated.
Untouched(n, rs, ids, i) == n[i].pgtable => i \notin ids /\ n[i] = rs[i]

LEMMA InvalidatedTable ==
    ASSUME NEW n, NEW rs, NEW us, NEW ids, NEW i, Invalidated(n, rs, us, ids, i)
    PROVE  Untouched(n, rs, ids, i)
<1>1. Unused.pgtable = FALSE BY DEF Unused
<1>2. n[i].pgtable => ~OutOfTable(n[i], rs[i]) BY DEF OutOfTable
<1> QED BY Zenon, <1>1, <1>2 DEF Invalidated, Untouched

LEMMA InvalidateFacts ==
    ASSUME SetFacts, NEW rs, NEW us, Fine(rs, us), NEW gc \in BOOLEAN,
           NEW ids, \A j \in ids : j \in Ids /\ rs[j].pgtable, NEW i \in Ids
    PROVE  Invalidated(Invalidate(rs, ids, gc), rs, us, ids, i)
<1> DEFINE r == rs[i]
           d == [r EXCEPT !.pgtable = FALSE]
           H == HoldersOf(us, i)
<1>1. r \in RegionSet /\ RegionOk(rs, us, i) BY DEF Fine
<1>2. Invalidate(rs, ids, gc)[i] = IF i \in ids THEN Dropped(d, gc) ELSE r BY DEF Invalidate
<1>3. CASE i \notin ids BY <1>3, <1>2, <1>1 DEF Invalidated
<1>4. CASE i \in ids
  <2>1. r.pgtable /\ r.state = "live" /\ r.refs = Cardinality(H) + 1
    BY <1>4, <1>1 DEF RegionOk
  <2>2. (\E u \in Users : us[u].id = i) <=> H # {}
    <3>1. ASSUME NEW u \in Users, us[u].id = i PROVE us[u].pc # "destroy"
      BY <3>1, <2>1 DEF Fine, UserOk
    <3> QED BY <3>1 DEF HoldersOf
  <2>3. Cardinality(H) \in Nat /\ (Cardinality(H) = 0 <=> H = {}) BY HoldersFinite
  <2>4. /\ d \in RegionSet /\ d.refs = r.refs /\ d.refs \in Int /\ d.pgtable = FALSE
        /\ d.state = r.state /\ d.start = r.start /\ d.end = r.end /\ d.size = r.size
    BY Zenon, <1>1 DEF RegionSet
  <2>5. r.refs = 1 <=> H = {} BY <2>1, <2>3
  <2>6. Dropped(d, gc) = IF r.refs # 1 THEN [d EXCEPT !.refs = @ - 1]
                         ELSE IF gc THEN [d EXCEPT !.refs = 0, !.state = "gc"] ELSE Unused
    BY <2>4 DEF Dropped
  <2> HIDE DEF d
  <2>7. [d EXCEPT !.refs = @ - 1] \in RegionSet /\ OutOfTable([d EXCEPT !.refs = @ - 1], r)
    BY <2>4 DEF RegionSet, OutOfTable
  <2>9. /\ [d EXCEPT !.refs = 0, !.state = "gc"] \in RegionSet
        /\ [d EXCEPT !.refs = 0, !.state = "gc"].state = "gc"
        /\ [d EXCEPT !.refs = 0, !.state = "gc"].pgtable = FALSE
    <3> DEFINE e == [d EXCEPT !.refs = 0]
    <3>1. e \in RegionSet /\ e.pgtable = FALSE BY <2>4 DEF RegionSet
    <3> HIDE DEF e
    <3>2. [e EXCEPT !.state = "gc"] \in RegionSet /\ [e EXCEPT !.state = "gc"].state = "gc"
          /\ [e EXCEPT !.state = "gc"].pgtable = FALSE
      BY <3>1 DEF RegionSet
    <3> QED BY <3>2 DEF e
  <2>8. Unused \in RegionSet BY DEF Unused, RegionSet
  <2> HIDE DEF r, H
  <2> QED BY <1>2, <1>4, <2>2, <2>5, <2>6, <2>7, <2>8, <2>9 DEF r, Invalidated
<1> QED BY <1>3, <1>4

\* Invalidation keeps what the table and its users rely on.
LEMMA InvalidateFine ==
    ASSUME SetFacts, NEW rs, NEW us, Fine(rs, us), NEW gc \in BOOLEAN,
           NEW ids, \A j \in ids : j \in Ids /\ rs[j].pgtable
    PROVE  Fine(Invalidate(rs, ids, gc), us)
<1> DEFINE n == Invalidate(rs, ids, gc)
<1>1. n \in [Ids -> RegionSet]
  <2>1. \A i \in Ids : n[i] \in RegionSet BY Zenon, InvalidateFacts DEF Invalidated
  <2>2. n = [i \in Ids |-> n[i]] BY DEF Invalidate
  <2> QED BY <2>1, <2>2
<1>2. \A i \in Ids : /\ n[i] \in RegionSet /\ rs[i] \in RegionSet
                     /\ i \notin ids => n[i] = rs[i]
                     /\ i \in ids => rs[i].pgtable
                     /\ i \in ids /\ (\E u \in Users : us[u].id = i) => OutOfTable(n[i], rs[i])
                     /\ i \in ids /\ ~(\E u \in Users : us[u].id = i) =>
                           n[i] = Unused \/ (n[i].state = "gc" /\ n[i].pgtable = FALSE)
  <2>1. \A i \in Ids : rs[i] \in RegionSet BY DEF Fine
  <2>2. \A i \in Ids : Invalidated(n, rs, us, ids, i) BY InvalidateFacts
  <2> HIDE DEF n
  <2> QED BY <2>1, <2>2 DEF Invalidated
<1> HIDE DEF n
<1>3. \A i \in Ids : n[i].pgtable => n[i] = rs[i] /\ i \notin ids
  BY <1>2 DEF OutOfTable, Unused
<1>5. ASSUME NEW i \in Ids PROVE RegionOk(n, us, i)
  <2>1. RegionOk(rs, us, i) BY DEF Fine
  <2>2. CASE i \notin ids BY <2>1, <2>2, <1>2 DEF RegionOk
  <2>3. CASE i \in ids /\ ~(\E u \in Users : us[u].id = i)
    <3>1. n[i] = Unused \/ (n[i].state = "gc" /\ n[i].pgtable = FALSE) BY <2>3, <1>2
    <3> QED BY <3>1 DEF RegionOk, Unused
  <2>4. CASE i \in ids /\ (\E u \in Users : us[u].id = i)
    <3>1. rs[i].state = "live" /\ rs[i].refs = Cardinality(HoldersOf(us, i)) + 1
      BY <2>1, <2>4, <1>2 DEF RegionOk
    <3>2. Cardinality(HoldersOf(us, i)) \in Nat BY HoldersFinite
    <3>3. n[i].refs = Cardinality(HoldersOf(us, i)) + 0 BY <3>1, <3>2, <2>4, <1>2 DEF OutOfTable
    <3> QED BY <3>1, <3>3, <2>4, <1>2 DEF RegionOk, OutOfTable
  <2> QED BY <2>2, <2>3, <2>4
<1>6. Apart(n)
  <2>1. Apart(rs) BY DEF Fine
  <2> QED BY <2>1, <1>3 DEF Apart
<1>7. ASSUME NEW u \in Users PROVE UserOk(n, us, u) /\ GoneOk(n, us, u)
  <2>1. UserOk(rs, us, u) /\ GoneOk(rs, us, u) /\ us[u] \in UserSet BY DEF Fine
  <2>2. us[u].id # 0 => us[u].id \in Ids BY <2>1 DEF UserSet, Ids
  <2>3. GoneOk(n, us, u)
    <3>1. us[u].gone \subseteq Ids BY <2>1 DEF UserSet
    <3> QED BY <3>1, <2>1, <1>3 DEF GoneOk
  <2>4. us[u].id \in ids => us[u].pc # "destroy"
    BY <2>1, <2>2, <1>2 DEF UserOk
  <2>5. us[u].id # 0 =>
          /\ n[us[u].id].state = rs[us[u].id].state /\ n[us[u].id].start = rs[us[u].id].start
          /\ n[us[u].id].end = rs[us[u].id].end /\ n[us[u].id].size = rs[us[u].id].size
          /\ n[us[u].id].pgtable => rs[us[u].id].pgtable
          /\ us[u].pc = "destroy" => n[us[u].id] = rs[us[u].id]
    BY <2>2, <2>4, <1>2 DEF OutOfTable
  <2>6. UserOk(n, us, u) BY Zenon, <2>1, <2>5 DEF UserOk
  <2> QED BY <2>3, <2>6
<1> QED BY <1>1, <1>5, <1>6, <1>7 DEF Fine, n

\* The garbage collection list holds no region that somebody has.
LEMMA CheckGcListFine ==
    ASSUME NEW rs, NEW us, Fine(rs, us)
    PROVE  Fine(CheckGcList(rs), us)
<1> DEFINE n == CheckGcList(rs)
<1>1. \A i \in Ids : /\ rs[i] \in RegionSet
                     /\ n[i] = IF rs[i].state = "gc" THEN Unused ELSE rs[i]
  BY DEF CheckGcList, Fine
<1>2. n \in [Ids -> RegionSet]
  <2>1. Unused \in RegionSet BY DEF Unused, RegionSet
  <2>2. n = [i \in Ids |-> n[i]] BY DEF CheckGcList
  <2> HIDE DEF n
  <2> QED BY <1>1, <2>1, <2>2
<1> HIDE DEF n
<1>3. \A i \in Ids : n[i].pgtable => n[i] = rs[i] BY <1>1 DEF Unused
<1>4. ASSUME NEW i \in Ids PROVE RegionOk(n, us, i)
  <2>1. RegionOk(rs, us, i) BY DEF Fine
  <2>2. CASE rs[i].state # "gc" BY <2>1, <2>2, <1>1 DEF RegionOk
  <2>3. CASE rs[i].state = "gc"
    <3>1. n[i] = Unused BY <2>3, <1>1
    <3> QED BY <3>1 DEF RegionOk, Unused
  <2> QED BY <2>2, <2>3
<1>5. Apart(n)
  <2>1. Apart(rs) BY DEF Fine
  <2> QED BY <2>1, <1>3 DEF Apart
<1>6. ASSUME NEW u \in Users PROVE UserOk(n, us, u) /\ GoneOk(n, us, u)
  <2>1. UserOk(rs, us, u) /\ GoneOk(rs, us, u) /\ us[u] \in UserSet BY DEF Fine
  <2>2. us[u].gone \subseteq Ids /\ (us[u].id # 0 => us[u].id \in Ids) BY <2>1 DEF UserSet, Ids
  <2>3. us[u].id # 0 => n[us[u].id] = rs[us[u].id] BY <2>1, <2>2, <1>1 DEF UserOk
  <2>4. GoneOk(n, us, u) BY <2>1, <2>2, <1>3 DEF GoneOk
  <2>5. UserOk(n, us, u) BY Zenon, <2>1, <2>3 DEF UserOk
  <2> QED BY <2>4, <2>5
<1> QED BY <1>2, <1>4, <1>5, <1>6 DEF Fine, n

\* One thread and one region change: what is left to show is about the two.
StepOk(rs, us, n, vs, u, i) ==
    /\ n \in [Ids -> RegionSet] /\ vs \in [Users -> UserSet]
    /\ \A j \in Ids : j # i => n[j] = rs[j]
    /\ \A v \in Users : v # u => vs[v] = us[v]
    /\ us[u].id \in {0, i} /\ vs[u].id \in {0, i}
    /\ RegionOk(n, vs, i) /\ Apart(n)
    /\ \A v \in Users : v = u \/ us[v].id = i => UserOk(n, vs, v)
    /\ \A v \in Users : GoneOk(n, vs, v) /\ PairOk(vs, u, v)

LEMMA StepFine ==
    ASSUME NEW rs, NEW us, Fine(rs, us), NEW u \in Users, NEW i \in Ids, NEW n, NEW vs,
           StepOk(rs, us, n, vs, u, i)
    PROVE  Fine(n, vs)
<1>1. n \in [Ids -> RegionSet] /\ vs \in [Users -> UserSet] BY DEF StepOk
<1>2. /\ \A j \in Ids : j # i => n[j] = rs[j]
      /\ \A v \in Users : v # u => vs[v] = us[v]
      /\ us[u].id \in {0, i} /\ vs[u].id \in {0, i}
      /\ RegionOk(n, vs, i) /\ Apart(n)
      /\ \A v \in Users : v = u \/ us[v].id = i => UserOk(n, vs, v)
      /\ \A v \in Users : GoneOk(n, vs, v) /\ PairOk(vs, u, v)
  BY DEF StepOk
<1>3. ASSUME NEW j \in Ids, j # i PROVE RegionOk(n, vs, j)
  <2>1. RegionOk(rs, us, j) BY DEF Fine
  <2>2. j # 0 BY DEF Ids
  <2>3. HoldersOf(vs, j) = HoldersOf(us, j) BY <1>2, <1>3, <2>2 DEF HoldersOf
  <2>4. (\E v \in Users : us[v].id = j) => \E v \in Users : vs[v].id = j BY <1>2, <1>3, <2>2
  <2>5. n[j] = rs[j] BY <1>2, <1>3
  <2> QED BY <2>1, <2>3, <2>4, <2>5 DEF RegionOk
<1>4. ASSUME NEW v \in Users, v # u, us[v].id # i PROVE UserOk(n, vs, v)
  <2>1. UserOk(rs, us, v) /\ us[v] \in UserSet BY DEF Fine
  <2>2. us[v].id # 0 => us[v].id \in Ids BY <2>1 DEF UserSet, Ids
  <2>3. us[v].id # 0 => n[us[v].id] = rs[us[v].id] BY <2>2, <1>2, <1>4
  <2>4. vs[v] = us[v] BY <1>2, <1>4
  <2> QED BY Zenon, <2>1, <2>3, <2>4 DEF UserOk
<1>5. ASSUME NEW v \in Users, NEW x \in Users PROVE PairOk(vs, v, x)
  <2>1. CASE v = u BY <2>1, <1>2
  <2>2. CASE x = u
    <3>1. PairOk(vs, u, v) BY <1>2
    <3> QED BY <2>2, <3>1 DEF PairOk
  <2>3. CASE v # u /\ x # u
    <3>1. PairOk(us, v, x) BY DEF Fine
    <3>2. vs[v] = us[v] /\ vs[x] = us[x] BY <2>3, <1>2
    <3> QED BY <3>1, <3>2 DEF PairOk
  <2> QED BY <2>1, <2>2, <2>3
<1>6. \A j \in Ids : RegionOk(n, vs, j) BY <1>2, <1>3
<1>7. \A v \in Users : UserOk(n, vs, v) BY <1>2, <1>4
<1> QED BY <1>1, <1>2, <1>5, <1>6, <1>7 DEF Fine

\* A region that stays where it is in the table keeps the table disjoint.
LEMMA StaysApart ==
    ASSUME NEW rs, NEW us, Fine(rs, us), NEW i \in Ids, NEW r \in RegionSet,
           r.pgtable => rs[i].pgtable /\ r.start = rs[i].start /\ r.end = rs[i].end
                        /\ r.unmapped = rs[i].unmapped,
           NEW n, n = [rs EXCEPT ![i] = r]
    PROVE  Apart(n) /\ \A v \in Users : GoneOk(n, us, v)
<1>1. Apart(rs) /\ rs \in [Ids -> RegionSet] BY DEF Fine
<1>2. \A j \in Ids : n[j] = IF j = i THEN r ELSE rs[j] BY <1>1
<1>3. \A j \in Ids : n[j].pgtable => /\ rs[j].pgtable /\ n[j].start = rs[j].start
                                     /\ n[j].end = rs[j].end /\ n[j].unmapped = rs[j].unmapped
  BY <1>2
<1>4. Apart(n) BY <1>1, <1>3 DEF Apart
<1>5. ASSUME NEW v \in Users PROVE GoneOk(n, us, v)
  <2>1. GoneOk(rs, us, v) /\ us[v] \in UserSet BY DEF Fine
  <2>2. us[v].gone \subseteq Ids BY <2>1 DEF UserSet
  <2> QED BY <2>1, <2>2, <1>3 DEF GoneOk
<1> QED BY Zenon, <1>4, <1>5

\* One more thread holds a region, one less, or as many.
LEMMA HoldersMore ==
    ASSUME SetFacts, NEW us, NEW vs, NEW u \in Users, NEW i,
           \A v \in Users : v # u => vs[v] = us[v],
           us[u].id # i, vs[u].id = i, vs[u].pc # "destroy"
    PROVE  Cardinality(HoldersOf(vs, i)) = Cardinality(HoldersOf(us, i)) + 1
<1>1. HoldersOf(us, i) \in SUBSET Users BY DEF HoldersOf
<1>2. HoldersOf(vs, i) = HoldersOf(us, i) \cup {u} /\ u \notin HoldersOf(us, i)
  BY DEF HoldersOf
<1> QED BY <1>1, <1>2 DEF SetFacts

LEMMA HoldersLess ==
    ASSUME SetFacts, NEW us, NEW vs, NEW u \in Users, NEW i,
           \A v \in Users : v # u => vs[v] = us[v],
           us[u].id = i, us[u].pc # "destroy", vs[u].id # i \/ vs[u].pc = "destroy"
    PROVE  Cardinality(HoldersOf(vs, i)) = Cardinality(HoldersOf(us, i)) - 1
<1>1. HoldersOf(vs, i) \in SUBSET Users BY DEF HoldersOf
<1>4. Cardinality(HoldersOf(vs, i)) \in Nat BY Zenon, HoldersFinite
<1>2. HoldersOf(us, i) = HoldersOf(vs, i) \cup {u} /\ u \notin HoldersOf(vs, i)
  BY DEF HoldersOf
<1>3. Cardinality(HoldersOf(us, i)) = Cardinality(HoldersOf(vs, i)) + 1
  BY <1>1, <1>2 DEF SetFacts
<1> QED BY <1>3, <1>4

\* Updates of the fields of a record.
LEMMA RefsUpdate ==
    ASSUME NEW r \in RegionSet, NEW k \in Int
    PROVE  /\ [r EXCEPT !.refs = k] \in RegionSet /\ [r EXCEPT !.refs = k].refs = k
           /\ [r EXCEPT !.refs = k].state = r.state /\ [r EXCEPT !.refs = k].start = r.start
           /\ [r EXCEPT !.refs = k].end = r.end /\ [r EXCEPT !.refs = k].size = r.size
           /\ [r EXCEPT !.refs = k].pgtable = r.pgtable /\ [r EXCEPT !.refs = k].unmapped = r.unmapped
BY DEF RegionSet

\* A thread takes a reference to a region of the table that contains its buffer.
LEMMA HoldFine ==
    ASSUME SetFacts, NEW rs, NEW us, Fine(rs, us), NEW u \in Users, NEW i \in Ids,
           us[u].pc \in {"lookup", "create"}, i \notin us[u].gone, rs[i].pgtable,
           rs[i].start <= us[u].buf.address, us[u].buf.address + us[u].buf.size <= rs[i].end
    PROVE  Fine([rs EXCEPT ![i].refs = @ + 1], [us EXCEPT ![u].pc = "set", ![u].id = i])
<1> DEFINE r == [rs[i] EXCEPT !.refs = @ + 1]
           w == [us[u] EXCEPT !.pc = "set", !.id = i]
           n == [rs EXCEPT ![i].refs = @ + 1]
           vs == [us EXCEPT ![u].pc = "set", ![u].id = i]
<1>1. /\ rs \in [Ids -> RegionSet] /\ us \in [Users -> UserSet] /\ rs[i] \in RegionSet /\ us[u] \in UserSet
      /\ RegionOk(rs, us, i) /\ UserOk(rs, us, u) /\ i \in 0 .. MaxRegions /\ i # 0
  BY DEF Fine, Ids
<1>14. rs[i].refs \in Int BY <1>1 DEF RegionSet
<1>2. /\ r \in RegionSet /\ r.refs = rs[i].refs + 1 /\ r.state = rs[i].state /\ r.start = rs[i].start
      /\ r.end = rs[i].end /\ r.size = rs[i].size /\ r.pgtable = rs[i].pgtable /\ r.unmapped = rs[i].unmapped
  <2> DEFINE k == rs[i].refs + 1
  <2>1. k \in Int BY <1>14
  <2> HIDE DEF k
  <2>2. /\ [rs[i] EXCEPT !.refs = k] \in RegionSet /\ [rs[i] EXCEPT !.refs = k].refs = k
        /\ [rs[i] EXCEPT !.refs = k].state = rs[i].state /\ [rs[i] EXCEPT !.refs = k].start = rs[i].start
        /\ [rs[i] EXCEPT !.refs = k].end = rs[i].end /\ [rs[i] EXCEPT !.refs = k].size = rs[i].size
        /\ [rs[i] EXCEPT !.refs = k].pgtable = rs[i].pgtable
        /\ [rs[i] EXCEPT !.refs = k].unmapped = rs[i].unmapped
    BY Zenon, <1>1, <2>1, RefsUpdate
  <2> QED BY Zenon, <2>2 DEF k
<1>3. /\ w \in UserSet /\ w.pc = "set" /\ w.id = i /\ w.buf = us[u].buf /\ w.gone = us[u].gone
  <2> DEFINE x == [us[u] EXCEPT !.pc = "set"]
  <2>1. x \in UserSet /\ x.pc = "set" /\ x.buf = us[u].buf /\ x.gone = us[u].gone BY <1>1 DEF UserSet
  <2> HIDE DEF x
  <2>2. /\ [x EXCEPT !.id = i] \in UserSet /\ [x EXCEPT !.id = i].pc = "set" /\ [x EXCEPT !.id = i].id = i
        /\ [x EXCEPT !.id = i].buf = us[u].buf /\ [x EXCEPT !.id = i].gone = us[u].gone
    BY <1>1, <2>1 DEF UserSet
  <2> QED BY <2>2 DEF x
<1>4. n = [rs EXCEPT ![i] = r] OBVIOUS
<1>5. vs = [us EXCEPT ![u] = w] BY Zenon, <1>1
<1> HIDE DEF r, w, n, vs
<1>6. us[u].id = 0 /\ us[u].buf.size > 0 BY <1>1 DEF UserOk
<1>7. /\ n[i] = r /\ vs[u] = w /\ \A v \in Users : v # u => vs[v] = us[v]
      /\ \A j \in Ids : j # i => n[j] = rs[j]
  BY <1>1, <1>4, <1>5
<1>15. n \in [Ids -> RegionSet] /\ vs \in [Users -> UserSet] BY <1>1, <1>2, <1>3, <1>4, <1>5
<1>8. RegionOk(n, vs, i)
  <2>1. Cardinality(HoldersOf(vs, i)) = Cardinality(HoldersOf(us, i)) + 1
    <3>1. us[u].id # i /\ vs[u].id = i /\ vs[u].pc # "destroy" BY Zenon, <1>1, <1>3, <1>6, <1>7
    <3>2. \A v \in Users : v # u => vs[v] = us[v] BY Zenon, <1>7
    <3> QED BY Zenon, <3>1, <3>2, HoldersMore
  <2>2. rs[i].refs = Cardinality(HoldersOf(us, i)) + 1 /\ Cardinality(HoldersOf(us, i)) \in Nat
    BY <1>1, HoldersFinite DEF RegionOk
  <2>3. r.refs = Cardinality(HoldersOf(vs, i)) + 1 BY <2>1, <2>2, <1>2
  <2> QED BY Zenon, <2>3, <1>1, <1>2, <1>7 DEF RegionOk
<1>9. Apart(n) /\ \A v \in Users : GoneOk(n, us, v) BY Zenon, <1>2, <1>4, StaysApart
<1>10. ASSUME NEW v \in Users PROVE GoneOk(n, vs, v)
  BY <1>9, <1>7, <1>3 DEF GoneOk
<1>11. ASSUME NEW v \in Users, v = u \/ us[v].id = i PROVE UserOk(n, vs, v)
  <2>1. rs[i].state = "live" BY <1>1 DEF RegionOk
  <2>2. CASE v = u
    <3>1. vs[v] = w BY <2>2, <1>7
    <3> QED BY <3>1, <2>1, <1>1, <1>2, <1>3, <1>6, <1>7 DEF UserOk
  <2>3. CASE v # u /\ us[v].id = i
    <3>1. UserOk(rs, us, v) /\ vs[v] = us[v] BY <2>3, <1>7 DEF Fine
    <3> QED BY <3>1, <2>3, <1>2, <1>7 DEF UserOk
  <2> QED BY <1>11, <2>2, <2>3
<1>12. ASSUME NEW v \in Users PROVE PairOk(vs, u, v)
  <2>1. CASE v # u /\ us[v].id = i
    <3>1. UserOk(rs, us, v) /\ vs[v] = us[v] /\ us[v] \in UserSet BY <2>1, <1>7 DEF Fine
    <3>2. us[v].buf.size \in Nat BY <3>1 DEF UserSet
    <3>3. us[v].buf.size > 0 BY <3>1, <3>2, <2>1, <1>1 DEF UserOk
    <3> QED BY <3>1, <3>3, <1>3, <1>6, <1>7 DEF PairOk
  <2>2. CASE v = u \/ us[v].id # i BY <2>2, <1>3, <1>7 DEF PairOk
  <2> QED BY <2>1, <2>2
<1>13. StepOk(rs, us, n, vs, u, i)
  BY <1>3, <1>6, <1>7, <1>8, <1>9, <1>10, <1>11, <1>12, <1>15 DEF StepOk
<1>16. Fine(n, vs) BY <1>13, StepFine
<1> QED BY <1>16 DEF n, vs

-----------------------------------------------------------------------------
\* Least and greatest elements.
LEMMA LeastElement ==
    ASSUME SetFacts, NEW T \in SUBSET Nat, T # {}
    PROVE  \E m \in T : \A k \in T : m <= k
BY DEF SetFacts

LEMMA LeastIn ==
    ASSUME SetFacts, NEW T \in SUBSET Nat, T # {}
    PROVE  Least(T) \in T /\ \A y \in T : Least(T) <= y
BY Zenon, LeastElement DEF Least

LEMMA GreatestIn ==
    ASSUME SetFacts, NEW T \in SUBSET Nat, T # {}, NEW b \in Nat, \A x \in T : x <= b
    PROVE  Greatest(T) \in T /\ \A y \in T : y <= Greatest(T)
<1> DEFINE U == {c \in Nat : \A x \in T : x <= c}
<1>1. U \in SUBSET Nat /\ U # {} OBVIOUS
<1>2. PICK m \in U : \A k \in U : m <= k BY Zenon, <1>1, LeastElement
<1>3. m \in T
  <2> SUFFICES ASSUME m \notin T PROVE FALSE OBVIOUS
  <2>1. m \in Nat /\ \A x \in T : x <= m /\ x \in Nat OBVIOUS
  <2>2. \A x \in T : x < m BY <2>1
  <2>6. PICK y \in T : TRUE BY Zenon
  <2>7. y \in Nat /\ y < m BY <2>1, <2>2
  <2>3. m - 1 \in Nat /\ \A x \in T : x <= m - 1
    <3>1. m - 1 \in Nat BY <2>1, <2>7
    <3>2. ASSUME NEW x \in T PROVE x <= m - 1
      <4>1. x \in Nat /\ x < m BY <2>1, <2>2
      <4> QED BY <4>1, <2>1
    <3> QED BY <3>1, <3>2
  <2>4. m - 1 \in U BY <2>3
  <2>5. m <= m - 1 BY <2>4, <1>2
  <2> QED BY <2>1, <2>5
<1>4. \E x \in T : \A y \in T : y <= x BY <1>3
<1> QED BY Zenon, <1>4 DEF Greatest

\* Finitely many numbers have a bound.
LEMMA Bounded ==
    ASSUME SetFacts, NEW m \in Nat, NEW f, \A i \in 1 .. m : f[i] \in Nat
    PROVE  \E b \in Nat : \A i \in 1 .. m : f[i] <= b
<1> DEFINE T == {c \in 0 .. m : ~(\E b \in Nat : \A i \in 1 .. c : f[i] <= b)}
<1>1. T \in SUBSET Nat OBVIOUS
<1>2. ASSUME T # {} PROVE FALSE
  <2>1. PICK c \in T : \A k \in T : c <= k BY Zenon, <1>1, <1>2, LeastElement
  <2>2. c \in 0 .. m /\ ~(\E b \in Nat : \A i \in 1 .. c : f[i] <= b) BY <2>1
  <2>3. c # 0
    <3>1. \A i \in 1 .. 0 : f[i] <= 0 OBVIOUS
    <3> QED BY <3>1, <2>2
  <2>4. c - 1 \in 0 .. m /\ c \in 1 .. m BY <2>2, <2>3
  <2>5. c - 1 \notin T
    <3>1. ~(c <= c - 1) BY <2>4
    <3> QED BY Zenon, <3>1, <2>1
  <2>6. PICK b \in Nat : \A i \in 1 .. c - 1 : f[i] <= b BY <2>4, <2>5
  <2>7. f[c] \in Nat BY <2>4
  <2>8. \A i \in 1 .. c : i \in 1 .. c - 1 \/ i = c BY <2>4
  <2>9. CASE f[c] <= b BY Zenon, <2>2, <2>6, <2>8, <2>9
  <2>10. CASE ~(f[c] <= b)
    <3>1. \A i \in 1 .. c : f[i] <= f[c]
      <4> TAKE i \in 1 .. c
      <4>1. i \in 1 .. m BY <2>4
      <4>2. f[i] \in Nat BY <4>1
      <4>3. CASE i = c BY <4>3, <2>7
      <4>4. CASE i \in 1 .. c - 1
        <5>1. f[i] <= b BY <4>4, <2>6
        <5> QED BY <5>1, <4>2, <2>7, <2>10
      <4> QED BY <2>8, <4>3, <4>4
    <3> QED BY <3>1, <2>2, <2>7
  <2> QED BY <2>9, <2>10
<1>3. m \notin T BY Zenon, <1>2
<1> QED BY <1>3

\* The range of a new region, which covers the buffer and the regions it replaces,
\* and nothing that touches none of them.
NewStart(rs, over, from) == Least({from} \cup {rs[i].start : i \in over})
NewEnd(rs, over, to) == Greatest({to} \cup {rs[i].end : i \in over})

RangeRight(rs, over, from, to) ==
    /\ NewStart(rs, over, from) \in Nat /\ NewEnd(rs, over, to) \in Nat
    /\ NewStart(rs, over, from) <= from /\ to <= NewEnd(rs, over, to)
    /\ NewStart(rs, over, from) = from \/ \E i \in over : NewStart(rs, over, from) = rs[i].start
    /\ NewEnd(rs, over, to) = to \/ \E i \in over : NewEnd(rs, over, to) = rs[i].end

LEMMA NewRange ==
    ASSUME RegCacheAssumption, SetFacts, NEW rs \in [Ids -> RegionSet], NEW over \in SUBSET Ids,
           NEW from \in Nat, NEW to \in Nat
    PROVE  RangeRight(rs, over, from, to)
<1> DEFINE A == {from} \cup {rs[i].start : i \in over}
           B == {to} \cup {rs[i].end : i \in over}
<1>1. \A i \in Ids : rs[i].start \in Nat /\ rs[i].end \in Nat BY DEF RegionSet
<1>2. A \in SUBSET Nat /\ A # {} /\ from \in A BY <1>1
<1>3. B \in SUBSET Nat /\ B # {} /\ to \in B BY <1>1
<1>4. \E b \in Nat : \A x \in B : x <= b
  <2> DEFINE f == [i \in Ids |-> rs[i].end]
  <2>1. \A i \in 1 .. MaxRegions : f[i] \in Nat /\ f[i] = rs[i].end BY <1>1 DEF Ids
  <2> HIDE DEF f
  <2>2. MaxRegions \in Nat BY DEF RegCacheAssumption
  <2>3. PICK b \in Nat : \A i \in 1 .. MaxRegions : f[i] <= b BY Zenon, <2>1, <2>2, Bounded
  <2>4. \A i \in Ids : rs[i].end <= b BY <2>1, <2>3 DEF Ids
  <2>5. CASE to <= b BY Zenon, <2>4, <2>5
  <2>6. CASE ~(to <= b)
    <3>1. \A i \in Ids : rs[i].end <= to BY <2>4, <2>6, <1>1
    <3> QED BY <3>1
  <2> QED BY <2>5, <2>6
<1>5. PICK b \in Nat : \A x \in B : x <= b BY Zenon, <1>4
<1>6. /\ \A x \in A : x = from \/ \E i \in over : x = rs[i].start
      /\ \A x \in B : x = to \/ \E i \in over : x = rs[i].end
  OBVIOUS
<1> HIDE DEF A, B
<1>7. Least(A) \in A /\ \A y \in A : Least(A) <= y BY <1>2, LeastIn
<1>8. Greatest(B) \in B /\ \A y \in B : y <= Greatest(B) BY Zenon, <1>3, <1>5, GreatestIn
<1>9. NewStart(rs, over, from) = Least(A) /\ NewEnd(rs, over, to) = Greatest(B)
  BY DEF NewStart, NewEnd, A, B
<1> QED BY Zenon, <1>2, <1>3, <1>6, <1>7, <1>8, <1>9 DEF RangeRight

LEMMA NewApart ==
    ASSUME RegCacheAssumption, SetFacts, NEW rs, NEW us, Fine(rs, us), NEW from \in Nat, NEW to \in Nat,
           NEW over, over = Overlapping(rs, from, to), NEW j \in Ids, j \notin over, rs[j].pgtable
    PROVE  rs[j].end <= NewStart(rs, over, from) \/ NewEnd(rs, over, to) <= rs[j].start
<1>1. /\ over \in SUBSET Ids /\ rs \in [Ids -> RegionSet]
      /\ \A i \in over : i # j /\ rs[i].pgtable /\ rs[i].start < to /\ from < rs[i].end
      /\ ~(rs[j].start < to /\ from < rs[j].end)
  BY DEF Overlapping, Fine
<1>2. /\ NewStart(rs, over, from) = from \/ \E i \in over : NewStart(rs, over, from) = rs[i].start
      /\ NewEnd(rs, over, to) = to \/ \E i \in over : NewEnd(rs, over, to) = rs[i].end
  <2>1. RangeRight(rs, over, from, to) BY <1>1, NewRange
  <2> QED BY <2>1 DEF RangeRight
<1>3. \A i \in Ids : rs[i].start \in Nat /\ rs[i].end \in Nat BY <1>1 DEF RegionSet
<1>4. RegionOk(rs, us, j) /\ Apart(rs) BY DEF Fine
<1>5. rs[j].start < rs[j].end BY <1>4 DEF RegionOk
<1>6. \A i \in over : rs[i].end <= rs[j].start \/ rs[j].end <= rs[i].start
  BY <1>1, <1>4 DEF Apart
<1>7. CASE rs[j].end <= from
  <2>1. ASSUME NEW i \in over PROVE rs[j].end <= rs[i].start
    <3>1. rs[i].start \in Nat /\ rs[i].end \in Nat /\ rs[j].start \in Nat /\ rs[j].end \in Nat
      BY <1>1, <1>3
    <3>2. from < rs[i].end /\ (rs[i].end <= rs[j].start \/ rs[j].end <= rs[i].start) BY <1>1, <1>6
    <3> QED BY <3>1, <3>2, <1>5, <1>7
  <2> QED BY <1>2, <1>7, <2>1
<1>8. CASE to <= rs[j].start
  <2>1. ASSUME NEW i \in over PROVE rs[i].end <= rs[j].start
    <3>1. rs[i].start \in Nat /\ rs[i].end \in Nat /\ rs[j].start \in Nat /\ rs[j].end \in Nat
      BY <1>1, <1>3
    <3>2. rs[i].start < to /\ (rs[i].end <= rs[j].start \/ rs[j].end <= rs[i].start) BY <1>1, <1>6
    <3> QED BY <3>1, <3>2, <1>5, <1>8
  <2> QED BY <1>2, <1>8, <2>1
<1> QED BY <1>1, <1>3, <1>7, <1>8

\* A region that is created is none of those that were unmapped.
Shrunk(us, vs, i) ==
    /\ vs \in [Users -> UserSet]
    /\ \A v \in Users : /\ vs[v].pc = us[v].pc /\ vs[v].id = us[v].id
                        /\ vs[v].buf = us[v].buf /\ vs[v].gone = us[v].gone \ {i}

LEMMA GoneShrinks ==
    ASSUME NEW rs, NEW us, Fine(rs, us), NEW i, NEW vs, Shrunk(us, vs, i)
    PROVE  Fine(rs, vs)
<1>1. \A v \in Users : /\ vs[v] \in UserSet /\ vs[v].pc = us[v].pc /\ vs[v].id = us[v].id
                       /\ vs[v].buf = us[v].buf /\ vs[v].gone = us[v].gone \ {i}
  BY DEF Shrunk
<1>2. vs \in [Users -> UserSet] BY DEF Shrunk
<1>3. ASSUME NEW j \in Ids PROVE RegionOk(rs, vs, j)
  <2>1. RegionOk(rs, us, j) BY DEF Fine
  <2>2. HoldersOf(vs, j) = HoldersOf(us, j) BY <1>1 DEF HoldersOf
  <2>3. (\E v \in Users : us[v].id = j) => \E v \in Users : vs[v].id = j BY <1>1
  <2> QED BY Zenon, <2>1, <2>2, <2>3 DEF RegionOk
<1>4. ASSUME NEW v \in Users PROVE UserOk(rs, vs, v) /\ GoneOk(rs, vs, v)
  <2>1. UserOk(rs, us, v) /\ GoneOk(rs, us, v) BY DEF Fine
  <2>2. UserOk(rs, vs, v) BY Zenon, <2>1, <1>1 DEF UserOk
  <2>3. GoneOk(rs, vs, v) BY Zenon, <2>1, <1>1 DEF GoneOk
  <2> QED BY <2>2, <2>3
<1>5. ASSUME NEW v \in Users, NEW x \in Users PROVE PairOk(vs, v, x)
  <2>1. PairOk(us, v, x) BY DEF Fine
  <2> QED BY <2>1, <1>1 DEF PairOk
<1>6. rs \in [Ids -> RegionSet] /\ Apart(rs) BY DEF Fine
<1> QED BY <1>2, <1>3, <1>4, <1>5, <1>6 DEF Fine

LEMMA AlignRight ==
    ASSUME RegCacheAssumption, NEW a \in Nat
    PROVE  AlignDown(a) \in Nat /\ AlignDown(a) <= a /\ AlignUp(a) \in Nat /\ a <= AlignUp(a)
<1>1. Alignment \in Nat /\ Alignment > 0 BY DEF RegCacheAssumption
<1>2. ASSUME NEW b \in Nat PROVE /\ b % Alignment \in 0 .. Alignment - 1 /\ AlignDown(b) \in Nat
                                  /\ AlignDown(b) <= b /\ b - (Alignment - 1) <= AlignDown(b)
  <2>1. b % Alignment \in 0 .. Alignment - 1 /\ b % Alignment <= b BY <1>1
  <2> QED BY <1>1, <2>1 DEF AlignDown
<1>3. a + Alignment - 1 \in Nat BY <1>1
<1>4. AlignUp(a) \in Nat /\ (a + Alignment - 1) - (Alignment - 1) <= AlignUp(a) BY <1>2, <1>3 DEF AlignUp
<1>5. AlignDown(a) \in Nat /\ AlignDown(a) <= a BY <1>2
<1> QED BY <1>1, <1>4, <1>5

\* What CreateRegion makes of the threads.
NewHolder(us, vs, u, i) ==
    /\ vs \in [Users -> UserSet]
    /\ \A v \in Users :
          /\ vs[v].pc = (IF v = u THEN "register" ELSE us[v].pc)
          /\ vs[v].id = (IF v = u THEN i ELSE us[v].id)
          /\ vs[v].buf = us[v].buf /\ vs[v].gone = us[v].gone \ {i}

LEMMA SameUser ==
    ASSUME NEW x \in UserSet, NEW y \in UserSet,
           x.pc = y.pc, x.id = y.id, x.buf = y.buf, x.gone = y.gone
    PROVE  x = y
BY DEF UserSet

Updated(z, x, g, q, d) ==
    z \in UserSet /\ z.pc = q /\ z.id = d /\ z.buf = x.buf /\ z.gone = g

LEMMA UserUpdate ==
    ASSUME NEW x \in UserSet, NEW g \in SUBSET Ids, NEW d \in 0 .. MaxRegions,
           NEW q \in {"idle", "get", "lookup", "create", "register", "set", "held", "destroy"}
    PROVE  Updated([x EXCEPT !.gone = g, !.pc = q, !.id = d], x, g, q, d)
<1> DEFINE y == [x EXCEPT !.gone = g]
<1>1. y \in UserSet /\ y.buf = x.buf /\ y.gone = g BY DEF UserSet
<1> HIDE DEF y
<1> DEFINE w == [y EXCEPT !.pc = q]
<1>2. w \in UserSet /\ w.buf = x.buf /\ w.gone = g /\ w.pc = q BY <1>1 DEF UserSet
<1> HIDE DEF w
<1>3. Updated([w EXCEPT !.id = d], x, g, q, d) BY <1>2 DEF UserSet, Updated
<1> QED BY <1>3 DEF w, y

\* What ucs_rcache_create_region leaves in the table.
Created(n, rs, over, i, from, to) ==
    n = [Invalidate(rs, over, FALSE) EXCEPT ![i] =
            LiveRegion(NewStart(rs, over, from), NewEnd(rs, over, to), 2, TRUE, 0)]

\* A new region takes the place of those it overlaps.
LEMMA NewFine ==
    ASSUME RegCacheAssumption, SetFacts, NEW rs, NEW us, Fine(rs, us), NEW u \in Users, NEW i \in Ids,
           us[u].pc = "create", rs[i].state = "unused", NEW from \in Nat, NEW to \in Nat,
           from <= us[u].buf.address, us[u].buf.address + us[u].buf.size <= to,
           NEW over, over = Overlapping(rs, from, to),
           NEW n, Created(n, rs, over, i, from, to), NEW vs, NewHolder(us, vs, u, i)
    PROVE  Fine(n, vs)
<1> DEFINE m == Invalidate(rs, over, FALSE)
           lo == NewStart(rs, over, from)
           hi == NewEnd(rs, over, to)
           r == LiveRegion(lo, hi, 2, TRUE, 0)
           ws == [v \in Users |-> [us[v] EXCEPT !.gone = @ \ {i}]]
<1> HIDE DEF m, lo, hi, r, ws
<1>1. IsFiniteSet(Users) BY DEF RegCacheAssumption
<1>2. /\ over \in SUBSET Ids /\ \A j \in over : j \in Ids /\ rs[j].pgtable
      /\ rs \in [Ids -> RegionSet] /\ us \in [Users -> UserSet]
  BY Zenon DEF Overlapping, Fine
<1>3. i \notin over /\ i # 0 /\ i \in 0 .. MaxRegions /\ \A v \in Users : us[v].id # i
  <2>1. RegionOk(rs, us, i) BY Zenon DEF Fine
  <2>4. i # 0 /\ i \in 0 .. MaxRegions BY DEF Ids
  <2>2. ~rs[i].pgtable BY Zenon, <2>1 DEF RegionOk
  <2>3. \A v \in Users : UserOk(rs, us, v) BY Zenon DEF Fine
  <2> QED BY Zenon, <1>2, <2>4, <2>2, <2>3 DEF UserOk
<1>4. Shrunk(us, ws, i) /\ ws \in [Users -> UserSet]
  <2>1. ASSUME NEW v \in Users
        PROVE  /\ ws[v] \in UserSet /\ ws[v].pc = us[v].pc /\ ws[v].id = us[v].id
               /\ ws[v].buf = us[v].buf /\ ws[v].gone = us[v].gone \ {i}
    <3>1. us[v] \in UserSet BY Zenon, <1>2
    <3>2. ws[v] = [us[v] EXCEPT !.gone = us[v].gone \ {i}] BY DEF ws
    <3> QED BY <3>1, <3>2 DEF UserSet
  <2>2. ws \in [Users -> UserSet] BY <2>1 DEF ws
  <2> QED BY Zenon, <2>1, <2>2 DEF Shrunk
<1>5. Fine(m, ws)
  <2>1. Fine(rs, ws) BY Zenon, <1>4, GoneShrinks
  <2> QED BY Zenon, <1>1, <1>2, <2>1, InvalidateFine DEF m
<1>6. \A j \in Ids : m[j].pgtable => j \notin over /\ m[j] = rs[j]
  <2> TAKE j \in Ids
  <2>1. Invalidated(m, rs, us, over, j) BY Zenon, <1>1, <1>2, InvalidateFacts DEF m
  <2>2. Untouched(m, rs, over, j) BY Zenon, <2>1, InvalidatedTable
  <2> QED BY Zenon, <2>2 DEF Untouched
<1>7. RangeRight(rs, over, from, to) BY Zenon, <1>2, NewRange
<1>8. lo \in Nat /\ hi \in Nat /\ lo <= from /\ to <= hi BY Zenon, <1>7 DEF RangeRight, lo, hi
<1>9. /\ r \in RegionSet /\ r.state = "live" /\ r.refs = 2 /\ r.pgtable = TRUE
      /\ r.unmapped = FALSE /\ r.start = lo /\ r.end = hi
  BY <1>8 DEF r, LiveRegion, RegionSet
<1>10. n = [m EXCEPT ![i] = r] BY Zenon DEF m, r, lo, hi, Created
<1>11. /\ n \in [Ids -> RegionSet] /\ n[i] = r /\ \A j \in Ids : j # i => n[j] = m[j]
  <2>1. m \in [Ids -> RegionSet] BY Zenon, <1>5 DEF Fine
  <2> QED BY Zenon, <2>1, <1>9, <1>10
<1>12. /\ vs \in [Users -> UserSet]
       /\ vs[u].pc = "register" /\ vs[u].id = i /\ vs[u].buf = us[u].buf
       /\ \A v \in Users : i \notin vs[v].gone
       /\ \A v \in Users : v # u => vs[v] = ws[v] /\ vs[v].id # i
  <2>1. ASSUME NEW v \in Users, v # u PROVE vs[v] = ws[v]
    <3>1. /\ vs[v] \in UserSet /\ ws[v] \in UserSet /\ vs[v].pc = ws[v].pc /\ vs[v].id = ws[v].id
          /\ vs[v].buf = ws[v].buf /\ vs[v].gone = ws[v].gone
      BY Zenon, <1>4, <2>1 DEF NewHolder, Shrunk
    <3> QED BY Zenon, <3>1, SameUser
  <2> QED BY <2>1, <1>3 DEF NewHolder
<1>13. RegionOk(n, vs, i)
  <2>1. HoldersOf(vs, i) = {u} BY Zenon, <1>12 DEF HoldersOf
  <2>2. Cardinality(HoldersOf(vs, i)) = 1 BY Zenon, <2>1, OneHolder
  <2>3. lo < hi
    <3>1. us[u] \in UserSet /\ UserOk(rs, us, u) BY Zenon DEF Fine
    <3>2. us[u].buf.size \in Nat /\ us[u].buf.address \in Nat /\ us[u].buf.size > 0 BY Zenon, <3>1 DEF UserSet, UserOk
    <3> QED BY <3>2, <1>8
  <2>4. r.refs = Cardinality(HoldersOf(vs, i)) + 1 BY <2>2, <1>9
  <2>5. n[i] = r /\ r.pgtable /\ r.state = "live" /\ r.start < r.end BY Zenon, <2>3, <1>9, <1>11
  <2> QED BY Zenon, <2>4, <2>5 DEF RegionOk
<1>14. Apart(n)
  <2>1. ASSUME NEW j \in Ids, j # i, n[j].pgtable
        PROVE  n[j].end <= lo \/ hi <= n[j].start
    <3>1. n[j] = m[j] /\ j \notin over /\ m[j] = rs[j] BY Zenon, <2>1, <1>6, <1>11
    <3> QED BY Zenon, <2>1, <3>1, NewApart DEF lo, hi
  <2>2. Apart(m) BY Zenon, <1>5 DEF Fine
  <2> QED BY Zenon, <2>1, <2>2, <1>9, <1>11 DEF Apart
<1>15. ASSUME NEW v \in Users PROVE GoneOk(n, vs, v)
  <2>1. GoneOk(m, ws, v) BY Zenon, <1>5 DEF Fine
  <2>2. vs[v].gone \subseteq Ids /\ vs[v].gone = ws[v].gone /\ (v # u => vs[v].pc = ws[v].pc)
    <3>1. vs[v].gone \subseteq Ids BY Zenon, <1>12 DEF UserSet
    <3> QED BY Zenon, <3>1, <1>4, <1>12 DEF NewHolder, Shrunk
  <2>3. \A j \in vs[v].gone : n[j] = m[j] BY Zenon, <2>2, <1>11, <1>12
  <2> QED BY Zenon, <2>1, <2>2, <2>3, <1>12 DEF GoneOk
<1>16. ASSUME NEW v \in Users, v = u \/ ws[v].id = i PROVE UserOk(n, vs, v)
  <2>1. v = u BY Zenon, <1>16, <1>3, <1>4 DEF Shrunk
  <2>2. us[u] \in UserSet /\ UserOk(rs, us, u) BY Zenon DEF Fine
  <2>3. us[u].buf.size \in Nat /\ us[u].buf.address \in Nat /\ us[u].buf.size > 0 BY Zenon, <2>2 DEF UserSet, UserOk
  <2>4. n[vs[u].id] = r BY Zenon, <1>11, <1>12
  <2>5. r.start <= vs[u].buf.address /\ vs[u].buf.address + vs[u].buf.size <= r.end
    BY <2>3, <1>8, <1>9, <1>12
  <2> QED BY Zenon, <2>1, <2>3, <2>4, <2>5, <1>3, <1>9, <1>12 DEF UserOk
<1>17. ASSUME NEW v \in Users PROVE PairOk(vs, u, v)
  BY Zenon, <1>12 DEF PairOk
<1>18. StepOk(m, ws, n, vs, u, i)
  <2>1. ws[u].id = 0
    <3>1. UserOk(rs, us, u) BY Zenon DEF Fine
    <3> QED BY Zenon, <3>1, <1>4 DEF UserOk, Shrunk
  <2> QED BY Zenon, <2>1, <1>11, <1>12, <1>13, <1>14, <1>15, <1>16, <1>17 DEF StepOk
<1> QED BY <1>5, <1>18, StepFine

\* What is in the table was there before.
TableKept(rs, n) ==
    \A i \in Ids : n[i].pgtable => /\ rs[i].pgtable /\ n[i].start = rs[i].start
                                   /\ n[i].end = rs[i].end /\ n[i].unmapped = rs[i].unmapped

\* A thread that has no region goes on.
LEMMA UserFine ==
    ASSUME NEW rs, NEW us, Fine(rs, us), NEW u \in Users, NEW vs, vs \in [Users -> UserSet],
           \A v \in Users : v # u => vs[v] = us[v], us[u].id = 0, vs[u].id = 0,
           UserOk(rs, vs, u), GoneOk(rs, vs, u)
    PROVE  Fine(rs, vs)
<1>1. ASSUME NEW j \in Ids PROVE RegionOk(rs, vs, j)
  <2>1. RegionOk(rs, us, j) BY DEF Fine
  <2>2. j # 0 BY DEF Ids
  <2>3. HoldersOf(vs, j) = HoldersOf(us, j) BY <2>2 DEF HoldersOf
  <2>4. (\E v \in Users : us[v].id = j) => \E v \in Users : vs[v].id = j BY <2>2
  <2> QED BY <2>1, <2>3, <2>4 DEF RegionOk
<1>2. ASSUME NEW v \in Users PROVE UserOk(rs, vs, v) /\ GoneOk(rs, vs, v)
  <2>1. CASE v = u BY <2>1
  <2>2. CASE v # u
    <3>1. UserOk(rs, us, v) /\ GoneOk(rs, us, v) /\ vs[v] = us[v] BY <2>2 DEF Fine
    <3> QED BY Zenon, <3>1 DEF UserOk, GoneOk
  <2> QED BY <2>1, <2>2
<1>3. ASSUME NEW v \in Users, NEW x \in Users PROVE PairOk(vs, v, x)
  <2>1. PairOk(us, v, x) BY DEF Fine
  <2>2. CASE v = u \/ x = u BY <2>2 DEF PairOk
  <2>3. CASE v # u /\ x # u
    <3>1. vs[v] = us[v] /\ vs[x] = us[x] BY <2>3
    <3> QED BY <2>1, <3>1 DEF PairOk
  <2> QED BY <2>2, <2>3
<1>4. rs \in [Ids -> RegionSet] /\ Apart(rs) BY DEF Fine
<1> QED BY <1>1, <1>2, <1>3, <1>4 DEF Fine

\* One thread without a region goes on, the others stay.
Aside(us, vs, u) ==
    /\ vs \in [Users -> UserSet] /\ \A v \in Users : v # u => vs[v] = us[v]
    /\ us[u].id = 0 /\ vs[u].id = 0

LEMMA AsideFine ==
    ASSUME NEW rs, NEW us, Fine(rs, us), NEW u \in Users, NEW vs, Aside(us, vs, u),
           UserOk(rs, vs, u), GoneOk(rs, vs, u)
    PROVE  Fine(rs, vs)
<1>1. /\ vs \in [Users -> UserSet] /\ \A v \in Users : v # u => vs[v] = us[v]
      /\ us[u].id = 0 /\ vs[u].id = 0
  BY Zenon DEF Aside
<1> QED BY <1>1, UserFine

\* The mr_impl_t of a region gets an address and a size.
Sized(rs, n, i, z) ==
    /\ n \in [Ids -> RegionSet] /\ \A j \in Ids : j # i => n[j] = rs[j]
    /\ n[i].state = rs[i].state /\ n[i].start = rs[i].start /\ n[i].end = rs[i].end
    /\ n[i].refs = rs[i].refs /\ n[i].pgtable = rs[i].pgtable /\ n[i].unmapped = rs[i].unmapped
    /\ n[i].size = z

LEMMA SizeUpdate ==
    ASSUME NEW rs \in [Ids -> RegionSet], NEW i \in Ids, NEW a \in Nat, NEW z \in Nat
    PROVE  Sized(rs, [rs EXCEPT ![i].address = a, ![i].size = z], i, z)
<1> DEFINE m == [rs EXCEPT ![i].address = a]
<1>1. rs[i] \in RegionSet OBVIOUS
<1>2. /\ m \in [Ids -> RegionSet] /\ \A j \in Ids : j # i => m[j] = rs[j]
      /\ m[i] = [rs[i] EXCEPT !.address = a]
  <2>1. [rs[i] EXCEPT !.address = a] \in RegionSet BY <1>1 DEF RegionSet
  <2> QED BY <1>1, <2>1
<1>3. /\ m[i].state = rs[i].state /\ m[i].start = rs[i].start /\ m[i].end = rs[i].end
      /\ m[i].refs = rs[i].refs /\ m[i].pgtable = rs[i].pgtable /\ m[i].unmapped = rs[i].unmapped
  BY <1>1, <1>2 DEF RegionSet
<1> HIDE DEF m
<1> DEFINE n == [m EXCEPT ![i].size = z]
<1>4. m[i] \in RegionSet BY <1>2
<1>5. [m[i] EXCEPT !.size = z] \in RegionSet BY <1>4 DEF RegionSet
<1>6. /\ n \in [Ids -> RegionSet] /\ \A j \in Ids : j # i => n[j] = m[j]
      /\ n[i] = [m[i] EXCEPT !.size = z]
  BY <1>2, <1>5
<1> HIDE DEF n
<1>7. /\ n[i].state = m[i].state /\ n[i].start = m[i].start /\ n[i].end = m[i].end /\ n[i].size = z
      /\ n[i].refs = m[i].refs /\ n[i].pgtable = m[i].pgtable /\ n[i].unmapped = m[i].unmapped
  BY <1>4, <1>6 DEF RegionSet
<1>8. Sized(rs, n, i, z) BY <1>2, <1>3, <1>6, <1>7 DEF Sized
<1> QED BY <1>8 DEF n, m

Moved(us, vs, u, q) ==
    /\ vs \in [Users -> UserSet] /\ \A v \in Users : v # u => vs[v] = us[v]
    /\ vs[u].pc = q /\ vs[u].id = us[u].id /\ vs[u].buf = us[u].buf /\ vs[u].gone = us[u].gone

LEMMA MoveUpdate ==
    ASSUME NEW us \in [Users -> UserSet], NEW u \in Users,
           NEW q \in {"idle", "get", "lookup", "create", "register", "set", "held", "destroy"}
    PROVE  Moved(us, [us EXCEPT ![u].pc = q], u, q)
<1> DEFINE vs == [us EXCEPT ![u].pc = q]
<1>1. us[u] \in UserSet OBVIOUS
<1>2. [us[u] EXCEPT !.pc = q] \in UserSet BY <1>1 DEF UserSet
<1>3. /\ vs \in [Users -> UserSet] /\ \A v \in Users : v # u => vs[v] = us[v]
      /\ vs[u] = [us[u] EXCEPT !.pc = q]
  BY <1>1, <1>2
<1> HIDE DEF vs
<1>4. Moved(us, vs, u, q) BY <1>1, <1>3 DEF UserSet, Moved
<1> QED BY <1>4 DEF vs

LEMMA SizeFine ==
    ASSUME NEW rs, NEW us, Fine(rs, us), NEW u \in Users,
           us[u].pc \in {"register", "set"}, NEW i, i = us[u].id,
           NEW z \in Nat, z > 0, NEW q \in {"set", "held"},
           NEW n, Sized(rs, n, i, z), NEW vs, Moved(us, vs, u, q)
    PROVE  Fine(n, vs) /\ TableKept(rs, n)
<1> DEFINE r == n[i]
<1>1. /\ rs \in [Ids -> RegionSet] /\ us \in [Users -> UserSet] /\ us[u] \in UserSet
      /\ UserOk(rs, us, u) /\ GoneOk(rs, us, u)
  BY DEF Fine
<1>2. i # 0 /\ i \in Ids /\ rs[i].state = "live" /\ us[u].buf.size > 0
  <2>1. i # 0 /\ rs[i].state = "live" /\ us[u].buf.size > 0 BY Zenon, <1>1 DEF UserOk
  <2> QED BY <2>1, <1>1 DEF UserSet, Ids
<1>3. /\ n \in [Ids -> RegionSet] /\ r \in RegionSet /\ \A j \in Ids : j # i => n[j] = rs[j]
      /\ r.state = rs[i].state /\ r.start = rs[i].start /\ r.end = rs[i].end /\ r.refs = rs[i].refs
      /\ r.pgtable = rs[i].pgtable /\ r.unmapped = rs[i].unmapped /\ r.size = z
  BY Zenon, <1>2 DEF Sized
<1>4. /\ vs \in [Users -> UserSet] /\ \A v \in Users : v # u => vs[v] = us[v]
      /\ vs[u].pc = q /\ vs[u].id = i /\ vs[u].buf = us[u].buf /\ vs[u].gone = us[u].gone
  BY Zenon DEF Moved
<1> HIDE DEF r
<1>5. n[i] = r BY DEF r
<1>6. RegionOk(n, vs, i)
  <2>1. RegionOk(rs, us, i) BY Zenon, <1>2 DEF Fine
  <2>2. HoldersOf(vs, i) = HoldersOf(us, i) BY <1>4 DEF HoldersOf
  <2>3. (\E v \in Users : us[v].id = i) => \E v \in Users : vs[v].id = i BY Zenon, <1>4
  <2> QED BY Zenon, <2>1, <2>2, <2>3, <1>2, <1>3, <1>5 DEF RegionOk
<1>7. \A j \in Ids : n[j].pgtable => /\ rs[j].pgtable /\ n[j].start = rs[j].start
                                     /\ n[j].end = rs[j].end /\ n[j].unmapped = rs[j].unmapped
  BY Zenon, <1>3, <1>5
<1>8. Apart(n)
  <2>1. Apart(rs) BY DEF Fine
  <2> QED BY Zenon, <2>1, <1>7 DEF Apart
<1>9. ASSUME NEW v \in Users PROVE GoneOk(n, vs, v)
  <2>1. GoneOk(rs, us, v) /\ us[v] \in UserSet BY DEF Fine
  <2>2. us[v].gone \subseteq Ids BY Zenon, <2>1 DEF UserSet
  <2>3. vs[v].gone = us[v].gone /\ (vs[v].pc = "lookup" => us[v].pc = "lookup") BY Zenon, <1>4
  <2> QED BY Zenon, <2>1, <2>2, <2>3, <1>7 DEF GoneOk
<1>10. ASSUME NEW v \in Users, v # u, us[v].id = i PROVE us[v].buf.size > 0
  <2>1. PairOk(us, u, v) BY DEF Fine
  <2> QED BY Zenon, <2>1, <1>2, <1>10 DEF PairOk
<1>11. ASSUME NEW v \in Users, v = u \/ us[v].id = i PROVE UserOk(n, vs, v)
  <2>1. CASE v = u
    <3>0. ~(0 > 0) OBVIOUS
    <3>1. us[u].buf.size > 0 /\ us[u].buf.size # 0 BY Zenon, <3>0, <1>2
    <3>2. UserOk(rs, us, u) /\ n[vs[u].id] = r BY Zenon, <1>1, <1>4, <1>5
    <3> QED BY Zenon, <2>1, <1>2, <1>3, <1>4, <3>1, <3>2 DEF UserOk
  <2>2. CASE v # u
    <3>1. UserOk(rs, us, v) /\ vs[v] = us[v] /\ us[v].id = i BY <1>11, <2>2, <1>4 DEF Fine
    <3>2. us[v].buf.size > 0 BY Zenon, <2>2, <3>1, <1>10
    <3>3. n[vs[v].id] = r BY Zenon, <3>1, <1>5
    <3> QED BY Zenon, <3>1, <3>2, <3>3, <1>3 DEF UserOk
  <2> QED BY Zenon, <2>1, <2>2
<1>12. ASSUME NEW v \in Users PROVE PairOk(vs, u, v)
  <2>1. PairOk(us, u, v) BY DEF Fine
  <2> QED BY Zenon, <2>1, <1>4 DEF PairOk
<1>13. StepOk(rs, us, n, vs, u, i)
  BY Zenon, <1>3, <1>4, <1>6, <1>8, <1>9, <1>11, <1>12 DEF StepOk
<1>14. Fine(n, vs) BY Zenon, <1>2, <1>13, StepFine
<1> QED BY <1>7, <1>14 DEF TableKept

\* The only thread that has a region gives it back.
LEMMA FreeFine ==
    ASSUME SetFacts, MaxRegions \in Nat, NEW rs, NEW us, Fine(rs, us), NEW u \in Users, NEW i \in Ids,
           us[u].id = i, \A v \in Users : us[v].id = i => v = u
    PROVE  Fine([rs EXCEPT ![i] = Unused], [us EXCEPT ![u] = Idle])
<1> DEFINE n == [rs EXCEPT ![i] = Unused]
           vs == [us EXCEPT ![u] = Idle]
<1>1. rs \in [Ids -> RegionSet] /\ us \in [Users -> UserSet] BY DEF Fine
<1>2. /\ Idle \in UserSet /\ Idle.pc = "idle" /\ Idle.id = 0 /\ Idle.gone = {}
      /\ Unused \in RegionSet /\ Unused.state = "unused" /\ Unused.pgtable = FALSE
  BY Zenon, IdleFields, UnusedFields
<1>3. /\ n \in [Ids -> RegionSet] /\ n[i] = Unused /\ \A j \in Ids : j # i => n[j] = rs[j]
      /\ vs \in [Users -> UserSet] /\ vs[u] = Idle /\ \A v \in Users : v # u => vs[v] = us[v]
  BY Zenon, <1>1, <1>2
<1> HIDE DEF n, vs
<1>4. RegionOk(n, vs, i) BY Zenon, <1>2, <1>3 DEF RegionOk
<1>5. Apart(n)
  <2>1. Apart(rs) BY DEF Fine
  <2>2. \A j \in Ids : n[j].pgtable => j # i /\ n[j] = rs[j] BY <1>2, <1>3
  <2> QED BY Zenon, <2>1, <2>2 DEF Apart
<1>6. ASSUME NEW v \in Users PROVE GoneOk(n, vs, v)
  <2>1. CASE v = u BY Zenon, <2>1, <1>2, <1>3 DEF GoneOk
  <2>2. CASE v # u
    <3>1. GoneOk(rs, us, v) /\ us[v] \in UserSet /\ vs[v] = us[v] BY <2>2, <1>3 DEF Fine
    <3>2. us[v].gone \subseteq Ids BY Zenon, <3>1 DEF UserSet
    <3> QED BY <3>1, <3>2, <1>2, <1>3 DEF GoneOk
  <2> QED BY <2>1, <2>2
<1>7. UserOk(n, vs, u) BY Zenon, <1>2, <1>3 DEF UserOk
<1>8. ASSUME NEW v \in Users PROVE PairOk(vs, u, v) BY Zenon, <1>2, <1>3 DEF PairOk
<1>9. StepOk(rs, us, n, vs, u, i)
  <2>1. us[u].id \in {0, i} /\ vs[u].id \in {0, i} BY <1>2, <1>3
  <2>2. \A v \in Users : v = u \/ us[v].id = i => UserOk(n, vs, v) BY <1>7
  <2> QED BY Zenon, <2>1, <2>2, <1>3, <1>4, <1>5, <1>6, <1>8 DEF StepOk
<1>10. Fine(n, vs) BY <1>9, StepFine
<1> QED BY <1>10 DEF n, vs

\* An empty buffer gets a registration of its own.
LEMMA EmptyFine ==
    ASSUME SetFacts, MaxRegions \in Nat, NEW rs, NEW us, Fine(rs, us), NEW u \in Users, NEW i \in Ids,
           us[u].pc = "idle", rs[i].state = "unused", NEW a \in Nat,
           NEW w \in UserSet, w.pc = "held", w.id = i, w.gone = {}, w.buf.address = a, w.buf.size = 0
    PROVE  Fine([rs EXCEPT ![i] = LiveRegion(a, a, 1, FALSE, a)], [us EXCEPT ![u] = w])
<1> DEFINE r == LiveRegion(a, a, 1, FALSE, a)
           n == [rs EXCEPT ![i] = r]
           vs == [us EXCEPT ![u] = w]
<1>1. rs \in [Ids -> RegionSet] /\ us \in [Users -> UserSet] BY Zenon DEF Fine
<1>2. /\ r \in RegionSet /\ r.state = "live" /\ r.start = a /\ r.end = a /\ r.refs = 1
      /\ r.pgtable = FALSE /\ r.size = 0
  BY DEF LiveRegion, RegionSet
<1> HIDE DEF r
<1>3. /\ n \in [Ids -> RegionSet] /\ n[i] = r /\ \A j \in Ids : j # i => n[j] = rs[j]
      /\ vs \in [Users -> UserSet] /\ vs[u] = w /\ \A v \in Users : v # u => vs[v] = us[v]
  BY Zenon, <1>1, <1>2
<1> HIDE DEF n, vs
<1>4. i # 0 /\ us[u].id = 0 /\ \A v \in Users : us[v].id # i
  <2>1. \A v \in Users : UserOk(rs, us, v) BY Zenon DEF Fine
  <2>2. i # 0 BY DEF Ids
  <2>3. us[u].id = 0 BY Zenon, <2>1 DEF UserOk
  <2> QED BY Zenon, <2>1, <2>2, <2>3 DEF UserOk
<1>5. RegionOk(n, vs, i)
  <2>1. HoldersOf(vs, i) = {u} BY <1>3, <1>4 DEF HoldersOf
  <2>2. Cardinality(HoldersOf(vs, i)) = 1 BY Zenon, <2>1, OneHolder
  <2>3. r.refs = Cardinality(HoldersOf(vs, i)) + 0 BY <2>2, <1>2
  <2>4. \E v \in Users : vs[v].id = i BY Zenon, <1>3
  <2> QED BY Zenon, <2>3, <2>4, <1>2, <1>3 DEF RegionOk
<1>6. Apart(n)
  <2>1. Apart(rs) BY Zenon DEF Fine
  <2>2. \A j \in Ids : n[j].pgtable => j # i /\ n[j] = rs[j] BY Zenon, <1>2, <1>3
  <2> QED BY <2>1, <2>2 DEF Apart
<1>7. ASSUME NEW v \in Users PROVE GoneOk(n, vs, v)
  <2>1. CASE v = u BY Zenon, <2>1, <1>3 DEF GoneOk
  <2>2. CASE v # u
    <3>1. GoneOk(rs, us, v) /\ us[v] \in UserSet /\ vs[v] = us[v] BY Zenon, <2>2, <1>3 DEF Fine
    <3>2. us[v].gone \subseteq Ids BY Zenon, <3>1 DEF UserSet
    <3> QED BY <3>1, <3>2, <1>2, <1>3 DEF GoneOk
  <2> QED BY <2>1, <2>2
<1>8. UserOk(n, vs, u)
  <2>1. a <= a /\ a + 0 <= a /\ ~(0 > 0) OBVIOUS
  <2>2. n[vs[u].id] = r /\ vs[u] = w BY Zenon, <1>3
  <2> QED BY Zenon, <2>1, <2>2, <1>2, <1>4 DEF UserOk
<1>9. ASSUME NEW v \in Users PROVE PairOk(vs, u, v) BY <1>3, <1>4 DEF PairOk
<1>10. StepOk(rs, us, n, vs, u, i)
  <2>1. us[u].id \in {0, i} /\ vs[u].id \in {0, i} BY Zenon, <1>3, <1>4
  <2>2. \A v \in Users : v = u \/ us[v].id = i => UserOk(n, vs, v) BY Zenon, <1>4, <1>8
  <2> QED BY Zenon, <2>1, <2>2, <1>3, <1>5, <1>6, <1>7, <1>9 DEF StepOk
<1>11. Fine(n, vs) BY Zenon, <1>10, StepFine
<1> QED BY <1>11 DEF n, vs, r

\* A thread drops its reference to a region: it is through, or the last one, which
\* has the region destroyed.
RefDropped(rs, n, i) ==
    /\ n \in [Ids -> RegionSet] /\ \A j \in Ids : j # i => n[j] = rs[j]
    /\ n[i].state = rs[i].state /\ n[i].start = rs[i].start /\ n[i].end = rs[i].end
    /\ n[i].pgtable = rs[i].pgtable /\ n[i].unmapped = rs[i].unmapped /\ n[i].size = rs[i].size
    /\ n[i].refs = rs[i].refs - 1

LEMMA DropUpdate ==
    ASSUME NEW rs \in [Ids -> RegionSet], NEW i \in Ids
    PROVE  RefDropped(rs, [rs EXCEPT ![i].refs = @ - 1], i)
<1> DEFINE n == [rs EXCEPT ![i].refs = @ - 1]
           c == rs[i].refs - 1
           r == [rs[i] EXCEPT !.refs = c]
<1>1. rs[i] \in RegionSet /\ rs[i].refs \in Int BY DEF RegionSet
<1>2. c \in Int BY <1>1
<1>3. n = [rs EXCEPT ![i] = r] OBVIOUS
<1> HIDE DEF c, n
<1>4. /\ r \in RegionSet /\ r.refs = c /\ r.state = rs[i].state /\ r.start = rs[i].start /\ r.end = rs[i].end
      /\ r.size = rs[i].size /\ r.pgtable = rs[i].pgtable /\ r.unmapped = rs[i].unmapped
  BY <1>1, <1>2, RefsUpdate
<1> HIDE DEF r
<1>5. n \in [Ids -> RegionSet] /\ n[i] = r /\ \A j \in Ids : j # i => n[j] = rs[j] BY <1>3, <1>4
<1>6. RefDropped(rs, n, i) BY <1>4, <1>5 DEF c, RefDropped
<1> QED BY <1>6 DEF n

Leaves(rs, us, vs, u) ==
    /\ vs \in [Users -> UserSet] /\ \A v \in Users : v # u => vs[v] = us[v]
    /\ vs[u].gone \subseteq us[u].gone
    /\ IF rs[us[u].id].refs = 1
       THEN vs[u].pc = "destroy" /\ vs[u].id = us[u].id /\ vs[u].buf = us[u].buf
       ELSE vs[u].pc = "idle" /\ vs[u].id = 0

LEMMA DropFine ==
    ASSUME RegCacheAssumption, SetFacts, NEW rs, NEW us, Fine(rs, us), NEW u \in Users, NEW i, us[u].id = i,
           us[u].pc = "held", rs[i].size > 0, NEW vs, Leaves(rs, us, vs, u),
           NEW n, RefDropped(rs, n, i)
    PROVE  Fine(n, vs) /\ TableKept(rs, n)
<1>1. /\ rs \in [Ids -> RegionSet] /\ us \in [Users -> UserSet] /\ us[u] \in UserSet
      /\ UserOk(rs, us, u) /\ IsFiniteSet(Users)
  BY DEF Fine, RegCacheAssumption
<1>2. i # 0 /\ i \in Ids /\ rs[i].state = "live" /\ us[u].buf.size > 0
  <2>1. i # 0 /\ rs[i].state = "live" /\ us[u].buf.size > 0 BY Zenon, <1>1 DEF UserOk
  <2> QED BY <2>1, <1>1 DEF UserSet, Ids
<1>3. rs[i] \in RegionSet /\ rs[i].refs \in Int BY Zenon, <1>1, <1>2 DEF RegionSet
<1>4. /\ n \in [Ids -> RegionSet] /\ \A j \in Ids : j # i => n[j] = rs[j]
      /\ n[i].state = rs[i].state /\ n[i].start = rs[i].start /\ n[i].end = rs[i].end
      /\ n[i].pgtable = rs[i].pgtable /\ n[i].unmapped = rs[i].unmapped /\ n[i].size = rs[i].size
      /\ n[i].refs = rs[i].refs - 1
  BY Zenon DEF RefDropped
<1>18. /\ vs \in [Users -> UserSet] /\ \A v \in Users : v # u => vs[v] = us[v]
       /\ vs[u].gone \subseteq us[u].gone
       /\ IF rs[i].refs = 1 THEN vs[u].pc = "destroy" /\ vs[u].id = i /\ vs[u].buf = us[u].buf
                            ELSE vs[u].pc = "idle" /\ vs[u].id = 0
  BY Zenon DEF Leaves
<1>5. /\ Cardinality(HoldersOf(vs, i)) = Cardinality(HoldersOf(us, i)) - 1
      /\ Cardinality(HoldersOf(us, i)) \in Nat /\ Cardinality(HoldersOf(vs, i)) \in Nat
      /\ Cardinality(HoldersOf(vs, i)) = 0 <=> HoldersOf(vs, i) = {}
  <2>1. us[u].pc # "destroy" /\ (vs[u].id # i \/ vs[u].pc = "destroy") BY Zenon, <1>2, <1>18
  <2>2. \A v \in Users : v # u => vs[v] = us[v] BY Zenon, <1>18
  <2>3. Cardinality(HoldersOf(vs, i)) = Cardinality(HoldersOf(us, i)) - 1 BY <1>1, <2>1, <2>2, HoldersLess
  <2> QED BY <1>1, <2>3, HoldersFinite
<1>6. rs[i].refs = Cardinality(HoldersOf(us, i)) + (IF rs[i].pgtable THEN 1 ELSE 0)
  BY Zenon, <1>2 DEF Fine, RegionOk
<1>19. /\ Cardinality(HoldersOf(us, i)) # 0 /\ rs[i].refs # 0
       /\ rs[i].refs - 1 = Cardinality(HoldersOf(vs, i)) + (IF rs[i].pgtable THEN 1 ELSE 0)
       /\ rs[i].refs = 1 => ~rs[i].pgtable /\ Cardinality(HoldersOf(vs, i)) = 0
       /\ rs[i].refs # 1 /\ ~rs[i].pgtable => Cardinality(HoldersOf(vs, i)) # 0
  <2>1. rs[i].pgtable \in BOOLEAN BY Zenon, <1>3 DEF RegionSet
  <2> DEFINE a == Cardinality(HoldersOf(us, i))
             b == Cardinality(HoldersOf(vs, i))
             r == rs[i].refs
             p == rs[i].pgtable
  <2>2. /\ a \in Nat /\ b \in Nat /\ b = a - 1 /\ p \in BOOLEAN
        /\ r = a + (IF p THEN 1 ELSE 0)
    BY Zenon, <2>1, <1>5, <1>6
  <2>3. /\ a # 0 /\ r # 0 /\ r - 1 = b + (IF p THEN 1 ELSE 0)
        /\ r = 1 => ~p /\ b = 0
        /\ r # 1 /\ ~p => b # 0
    <3> HIDE DEF a, b, r, p
    <3> QED BY <2>2
  <2> QED BY Zenon, <2>3
<1>7. rs[i].refs = 1 => ~rs[i].pgtable /\ HoldersOf(vs, i) = {} BY Zenon, <1>5, <1>19
<1>8. RegionOk(n, vs, i)
  <2>1. n[i].refs = Cardinality(HoldersOf(vs, i)) + (IF n[i].pgtable THEN 1 ELSE 0)
    BY Zenon, <1>4, <1>19
  <2>2. n[i].pgtable \/ \E v \in Users : vs[v].id = i
    <3>1. CASE rs[i].refs = 1 BY Zenon, <3>1, <1>18
    <3>2. CASE rs[i].refs # 1 /\ ~rs[i].pgtable
      <4>1. HoldersOf(vs, i) # {} BY Zenon, <3>2, <1>5, <1>19
      <4> QED BY Zenon, <4>1 DEF HoldersOf
    <3>3. CASE rs[i].pgtable BY Zenon, <3>3, <1>4
    <3> QED BY Zenon, <3>1, <3>2, <3>3
  <2>3. RegionOk(rs, us, i) BY Zenon, <1>2 DEF Fine
  <2> QED BY Zenon, <2>1, <2>2, <2>3, <1>2, <1>4 DEF RegionOk
<1>9. \A j \in Ids : n[j].pgtable => /\ rs[j].pgtable /\ n[j].start = rs[j].start
                                     /\ n[j].end = rs[j].end /\ n[j].unmapped = rs[j].unmapped
  BY Zenon, <1>4
<1>10. Apart(n)
  <2>1. Apart(rs) BY DEF Fine
  <2> QED BY Zenon, <2>1, <1>9 DEF Apart
<1>11. ASSUME NEW v \in Users PROVE GoneOk(n, vs, v)
  <2>1. GoneOk(rs, us, v) /\ us[v] \in UserSet BY DEF Fine
  <2>2. us[v].gone \subseteq Ids BY Zenon, <2>1 DEF UserSet
  <2> QED BY Zenon, <2>1, <2>2, <1>9, <1>18 DEF GoneOk
<1>12. ASSUME NEW v \in Users, v # u, us[v].id = i
       PROVE  us[v].pc # "destroy" /\ us[v].buf.size > 0
  <2>1. UserOk(rs, us, v) /\ PairOk(us, u, v) BY DEF Fine
  <2>3. rs[i].refs # 0 BY Zenon, <1>19
  <2> QED BY Zenon, <2>1, <2>3, <1>2, <1>12 DEF UserOk, PairOk
<1>13. UserOk(n, vs, u)
  <2>1. CASE rs[i].refs = 1
    <3>1. rs[i].refs - 1 = 0 BY <2>1
    <3>2. n[i].refs = 0 /\ ~n[i].pgtable BY Zenon, <2>1, <3>1, <1>4, <1>7
    <3> QED BY Zenon, <2>1, <3>2, <1>2, <1>4, <1>18 DEF UserOk
  <2>2. CASE rs[i].refs # 1 BY Zenon, <2>2, <1>18 DEF UserOk
  <2> QED BY Zenon, <2>1, <2>2
<1>14. ASSUME NEW v \in Users, v # u, us[v].id = i PROVE UserOk(n, vs, v)
  <2>1. UserOk(rs, us, v) /\ us[v].pc # "destroy" /\ vs[v] = us[v] BY Zenon, <1>12, <1>14, <1>18 DEF Fine
  <2> QED BY Zenon, <2>1, <1>4, <1>14 DEF UserOk
<1>15. ASSUME NEW v \in Users PROVE PairOk(vs, u, v)
  BY Zenon, <1>2, <1>12, <1>18 DEF PairOk
<1>16. StepOk(rs, us, n, vs, u, i)
  <2>1. vs[u].id \in {0, i} BY Zenon, <1>18
  <2> QED BY Zenon, <2>1, <1>18, <1>4, <1>8, <1>10, <1>11, <1>13, <1>14, <1>15 DEF StepOk
<1>17. Fine(n, vs) BY Zenon, <1>2, <1>16, StepFine
<1> QED BY Zenon, <1>9, <1>17 DEF TableKept

-----------------------------------------------------------------------------
\* The queue of invalidations.
LEMMA WaitingKept ==
    ASSUME NEW rs, NEW n, NEW q, Waiting(rs, q), TableKept(rs, n)
    PROVE  Waiting(n, q)
BY DEF Waiting, TableKept

\* What ucs_rcache_check_inv_queue leaves.
LEMMA InvQueueChecked ==
    ASSUME RegCacheAssumption, SetFacts, NEW rs, Fine(rs, user), Waiting(rs, inv_q), NEW gc \in BOOLEAN
    PROVE  /\ Fine(CheckInvQueue(rs, gc), user)
           /\ \A i \in Ids : CheckInvQueue(rs, gc)[i].pgtable =>
                 CheckInvQueue(rs, gc)[i] = rs[i] /\ ~rs[i].unmapped
           /\ \A i \in Ids : ~rs[i].pgtable => CheckInvQueue(rs, gc)[i] = rs[i]
<1> DEFINE ids == UNION {Overlapping(rs, inv_q[k].from, inv_q[k].to) : k \in DOMAIN inv_q}
           n == CheckInvQueue(rs, gc)
<1>2. n = Invalidate(rs, ids, gc) BY DEF CheckInvQueue
<1>8. ids = UNION {Overlapping(rs, inv_q[k].from, inv_q[k].to) : k \in DOMAIN inv_q} OBVIOUS
<1> HIDE DEF ids, n
<1>1. /\ \A i \in ids : i \in Ids /\ rs[i].pgtable
      /\ \A i \in Ids : rs[i].pgtable /\ rs[i].unmapped => i \in ids
  <2>1. ASSUME NEW i \in ids PROVE i \in Ids /\ rs[i].pgtable
    BY <1>8 DEF Overlapping
  <2>2. ASSUME NEW i \in Ids, rs[i].pgtable, rs[i].unmapped PROVE i \in ids
    <3>1. PICK k \in DOMAIN inv_q : rs[i].start < inv_q[k].to /\ inv_q[k].from < rs[i].end
      BY <2>2 DEF Waiting
    <3>2. i \in Overlapping(rs, inv_q[k].from, inv_q[k].to) BY Zenon, <2>2, <3>1 DEF Overlapping
    <3> QED BY <3>2, <1>8
  <2> QED BY <2>1, <2>2
<1>3. IsFiniteSet(Users) BY DEF RegCacheAssumption
<1>4. Fine(n, user) BY <1>1, <1>2, <1>3, InvalidateFine
<1>5. \A i \in Ids : Invalidated(n, rs, user, ids, i) BY <1>1, <1>2, <1>3, InvalidateFacts
<1>6. \A i \in Ids : i \in ids => n[i].pgtable = FALSE
  BY <1>5 DEF Invalidated, OutOfTable, Unused
<1>7. \A i \in Ids : i \notin ids => n[i] = rs[i] BY <1>5 DEF Invalidated
<1> QED BY <1>1, <1>4, <1>6, <1>7 DEF n

LEMMA CleanedRight ==
    ASSUME RegCacheAssumption, SetFacts, CacheIInv
    PROVE  /\ Fine(Cleaned, user)
           /\ \A i \in Ids : Cleaned[i].pgtable => Cleaned[i] = regions[i] /\ ~regions[i].unmapped
           /\ \A i \in Ids : regions[i].state = "unused" => Cleaned[i].state = "unused"
<1> DEFINE m == CheckInvQueue(regions, FALSE)
<1>1. Fine(regions, user) /\ Waiting(regions, inv_q) BY DEF CacheIInv
<1>2. /\ Fine(m, user)
      /\ \A i \in Ids : m[i].pgtable => m[i] = regions[i] /\ ~regions[i].unmapped
      /\ \A i \in Ids : ~regions[i].pgtable => m[i] = regions[i]
  BY Zenon, <1>1, InvQueueChecked
<1>3. Cleaned = CheckGcList(m) BY DEF Cleaned
<1> HIDE DEF m
<1>4. Fine(Cleaned, user) BY <1>2, <1>3, CheckGcListFine
<1>5. \A i \in Ids : Cleaned[i] = IF m[i].state = "gc" THEN Unused ELSE m[i] BY <1>3 DEF CheckGcList
<1>6. ASSUME NEW i \in Ids, regions[i].state = "unused" PROVE Cleaned[i].state = "unused"
  <2>1. ~regions[i].pgtable BY <1>1, <1>6 DEF Fine, RegionOk
  <2> QED BY <2>1, <1>2, <1>5, <1>6
<1>7. ASSUME NEW i \in Ids, Cleaned[i].pgtable PROVE Cleaned[i] = regions[i] /\ ~regions[i].unmapped
  <2>1. Cleaned[i] = m[i] BY <1>5, <1>7 DEF Unused
  <2> QED BY <2>1, <1>2, <1>7
<1> QED BY <1>4, <1>6, <1>7

\* A thread that is not idle keeps the cache alive.
LEMMA BusyAlive ==
    ASSUME CacheIInv, NEW u \in Users, user[u].pc # "idle"
    PROVE  alive
BY DEF CacheIInv

LEMMA RegisterMemoryKeeps ==
    ASSUME RegCacheAssumption, SetFacts, CacheIInv, NEW u \in Users, NEW buf \in Buffers, RegisterMemory(u, buf)
    PROVE  CacheIInv'
<1>1. /\ Fine(regions, user) /\ Waiting(regions, inv_q) /\ inv_q \in Seq([from : Nat, to : Nat])
      /\ alive /\ user[u].pc = "idle" /\ inv_q' = inv_q /\ alive' = alive
      /\ buf \in [address : Nat, size : Nat] /\ MaxRegions \in Nat
  BY DEF CacheIInv, RegisterMemory, RegCacheAssumption
<1>2. regions \in [Ids -> RegionSet] /\ user \in [Users -> UserSet] /\ UserOk(regions, user, u)
  BY <1>1 DEF Fine
<1>3. user[u].id = 0 BY Zenon, <1>1, <1>2 DEF UserOk
<1>4. CASE buf.size > 0
  <2> DEFINE g == {i \in Ids : regions[i].unmapped}
             w == [pc |-> "get", buf |-> buf, id |-> 0, gone |-> g]
  <2>1. user' = [user EXCEPT ![u] = w] /\ regions' = regions BY Zenon, <1>4 DEF RegisterMemory
  <2>3. w \in UserSet /\ w.pc = "get" /\ w.id = 0 /\ w.buf = buf /\ w.gone = g BY <1>1 DEF UserSet
  <2> HIDE DEF w
  <2>4. user' \in [Users -> UserSet] /\ user'[u] = w /\ \A v \in Users : v # u => user'[v] = user[v]
    BY <1>2, <2>1, <2>3
  <2>5. UserOk(regions, user', u) BY Zenon, <1>4, <2>3, <2>4 DEF UserOk
  <2>6. GoneOk(regions, user', u) BY <2>3, <2>4 DEF GoneOk
  <2>8. Aside(user, user', u) BY Zenon, <1>3, <2>3, <2>4 DEF Aside
  <2>7. Fine(regions, user') BY Zenon, <1>1, <2>5, <2>6, <2>8, AsideFine
  <2> QED BY <1>1, <2>1, <2>7 DEF CacheIInv
<1>5. CASE ~(buf.size > 0)
  <2> DEFINE a == buf.address
             w == [pc |-> "held", buf |-> buf, id |-> NewId, gone |-> {}]
             r == LiveRegion(a, a, 1, FALSE, a)
  <2>1. user' = [user EXCEPT ![u] = w] /\ regions' = [regions EXCEPT ![NewId] = r] /\ FreeIds # {}
    BY Zenon, <1>5 DEF RegisterMemory
  <2>2. NewId \in Ids /\ regions[NewId].state = "unused" BY <2>1 DEF NewId, FreeIds
  <2>4. NewId \in 0 .. MaxRegions BY <2>2 DEF Ids
  <2>5. a \in Nat /\ buf.size = 0 BY <1>1, <1>5
  <2>6. w \in UserSet /\ w.pc = "held" /\ w.id = NewId /\ w.buf = buf /\ w.gone = {} BY <1>1, <2>4 DEF UserSet
  <2> HIDE DEF w
  <2>7. Fine([regions EXCEPT ![NewId] = r], [user EXCEPT ![u] = w]) BY Zenon, <1>1, <2>2, <2>5, <2>6, EmptyFine
  <2>8. Fine(regions', user') BY <2>1, <2>7
  <2>9. r.pgtable = FALSE BY DEF LiveRegion
  <2> HIDE DEF r
  <2>10. \A i \in Ids : regions'[i].pgtable => regions'[i] = regions[i] BY <1>2, <2>1, <2>9
  <2>11. Waiting(regions', inv_q) BY Zenon, <1>1, <2>10 DEF Waiting
  <2> QED BY Zenon, <1>1, <2>8, <2>11 DEF CacheIInv
<1> QED BY <1>4, <1>5

LEMMA FastCheckKeeps ==
    ASSUME RegCacheAssumption, SetFacts, CacheIInv, NEW u \in Users, FastCheck(u)
    PROVE  CacheIInv'
<1>1. /\ Fine(regions, user) /\ Waiting(regions, inv_q) /\ inv_q \in Seq([from : Nat, to : Nat])
      /\ user[u].pc = "get" /\ inv_q' = inv_q /\ alive' = alive /\ regions' = regions
  BY Zenon DEF CacheIInv, FastCheck
<1>2. user \in [Users -> UserSet] /\ UserOk(regions, user, u) /\ GoneOk(regions, user, u) BY <1>1 DEF Fine
<1>3. user[u].id = 0 /\ user[u].buf.size > 0 /\ user[u] \in UserSet BY Zenon, <1>1, <1>2 DEF UserOk
<1> DEFINE pc == IF inv_q = <<>> THEN "lookup" ELSE "create"
<1>4. user' = [user EXCEPT ![u].pc = pc] BY DEF FastCheck, Go
<1>5. /\ user' \in [Users -> UserSet] /\ \A v \in Users : v # u => user'[v] = user[v]
      /\ user'[u].pc = pc /\ user'[u].id = 0 /\ user'[u].buf = user[u].buf /\ user'[u].gone = user[u].gone
  <2>1. [user[u] EXCEPT !.pc = pc] \in UserSet BY <1>3 DEF UserSet
  <2>2. user' = [user EXCEPT ![u] = [user[u] EXCEPT !.pc = pc]] BY <1>4
  <2> HIDE DEF pc
  <2>3. user'[u] = [user[u] EXCEPT !.pc = pc] BY <1>2, <2>2
  <2>4. user' \in [Users -> UserSet] /\ \A v \in Users : v # u => user'[v] = user[v] BY <1>2, <2>1, <2>2
  <2> QED BY <1>3, <2>3, <2>4 DEF UserSet
<1>6. UserOk(regions, user', u) BY Zenon, <1>3, <1>5 DEF UserOk
<1>7. GoneOk(regions, user', u)
  <2>1. user[u].gone \subseteq Ids BY <1>3 DEF UserSet
  <2>2. inv_q = <<>> => \A i \in Ids : ~(regions[i].pgtable /\ regions[i].unmapped)
    BY <1>1 DEF Waiting
  <2> QED BY Zenon, <2>1, <2>2, <1>2, <1>5 DEF GoneOk
<1>8. Fine(regions, user')
  <2>1. Aside(user, user', u) BY Zenon, <1>3, <1>5 DEF Aside
  <2> QED BY Zenon, <1>1, <1>6, <1>7, <2>1, AsideFine
<1>9. alive BY <1>1, BusyAlive
<1> QED BY Zenon, <1>1, <1>8, <1>9 DEF CacheIInv

\* To hold a region changes nothing about the table.
LEMMA HoldKeeps ==
    ASSUME RegCacheAssumption, SetFacts, NEW rs, Fine(rs, user), NEW u \in Users, NEW i \in Ids,
           user[u].pc \in {"lookup", "create"}, i \notin user[u].gone, rs[i].pgtable,
           rs[i].start <= user[u].buf.address, user[u].buf.address + user[u].buf.size <= rs[i].end,
           Hold(u, rs, i)
    PROVE  Fine(regions', user') /\ TableKept(rs, regions')
<1>1. /\ regions' = [rs EXCEPT ![i].refs = @ + 1]
      /\ user' = [user EXCEPT ![u].pc = "set", ![u].id = i]
  BY DEF Hold
<1>2. IsFiniteSet(Users) BY Zenon DEF RegCacheAssumption
<1>3. Fine([rs EXCEPT ![i].refs = @ + 1], [user EXCEPT ![u].pc = "set", ![u].id = i])
  BY Zenon, <1>2, HoldFine
<1>4. rs \in [Ids -> RegionSet] BY Zenon DEF Fine
<1>5. \A j \in Ids : j # i => regions'[j] = rs[j] BY <1>1, <1>4
<1>6. regions'[i] = [rs[i] EXCEPT !.refs = rs[i].refs + 1] BY <1>1, <1>4
<1>7. /\ regions'[i].start = rs[i].start /\ regions'[i].end = rs[i].end
      /\ regions'[i].unmapped = rs[i].unmapped
  BY <1>4, <1>6 DEF RegionSet
<1> QED BY <1>1, <1>3, <1>5, <1>7 DEF TableKept

LEMMA FastLookupKeeps ==
    ASSUME RegCacheAssumption, SetFacts, CacheIInv, NEW u \in Users, FastLookup(u)
    PROVE  CacheIInv'
<1> DEFINE buf == user[u].buf
           hit == {i \in Ids : Contains(regions[i], buf.address, buf.address + buf.size)}
           h == CHOOSE i \in hit : TRUE
<1>1. /\ Fine(regions, user) /\ Waiting(regions, inv_q) /\ inv_q \in Seq([from : Nat, to : Nat])
      /\ user[u].pc = "lookup" /\ inv_q' = inv_q /\ alive' = alive
  BY Zenon DEF CacheIInv, FastLookup
<1>2. user \in [Users -> UserSet] /\ UserOk(regions, user, u) /\ GoneOk(regions, user, u) BY <1>1 DEF Fine
<1>3. user[u].id = 0 /\ user[u].buf.size > 0 /\ user[u] \in UserSet BY Zenon, <1>1, <1>2 DEF UserOk
<1>4. alive BY <1>1, BusyAlive
<1>5. CASE hit # {}
  <2>1. Hold(u, regions, h) BY Zenon, <1>5 DEF FastLookup
  <2>2. h \in Ids /\ Contains(regions[h], buf.address, buf.address + buf.size) BY <1>5
  <2> HIDE DEF h
  <2>3. regions[h].pgtable /\ regions[h].start <= user[u].buf.address
        /\ user[u].buf.address + user[u].buf.size <= regions[h].end
    BY <2>2 DEF Contains
  <2>4. h \notin user[u].gone BY <1>1, <1>2, <2>3 DEF GoneOk
  <2>5. Fine(regions', user') /\ TableKept(regions, regions')
    BY Zenon, <1>1, <2>1, <2>2, <2>3, <2>4, HoldKeeps
  <2>6. Waiting(regions', inv_q) BY Zenon, <1>1, <2>5, WaitingKept
  <2> QED BY Zenon, <1>1, <1>4, <2>5, <2>6 DEF CacheIInv
<1>6. CASE hit = {}
  <2>1. user' = [user EXCEPT ![u].pc = "create"] /\ regions' = regions BY <1>6 DEF FastLookup, Go
  <2>2. [user[u] EXCEPT !.pc = "create"] \in UserSet BY <1>3 DEF UserSet
  <2>3. /\ user' \in [Users -> UserSet] /\ \A v \in Users : v # u => user'[v] = user[v]
        /\ user'[u] = [user[u] EXCEPT !.pc = "create"]
    BY <1>2, <2>1, <2>2
  <2>4. /\ user'[u].pc = "create" /\ user'[u].id = 0 /\ user'[u].buf = user[u].buf
        /\ user'[u].gone = user[u].gone
    BY <1>3, <2>3 DEF UserSet
  <2>5. UserOk(regions, user', u) /\ GoneOk(regions, user', u)
    BY Zenon, <1>2, <1>3, <2>4 DEF UserOk, GoneOk
  <2>7. user' \in [Users -> UserSet] /\ \A v \in Users : v # u => user'[v] = user[v] BY <2>3
  <2>8. user[u].id = 0 /\ user'[u].id = 0 BY <1>3, <2>4
  <2>9. Aside(user, user', u) BY Zenon, <2>7, <2>8 DEF Aside
  <2>6. Fine(regions, user') BY Zenon, <1>1, <2>5, <2>9, AsideFine
  <2> QED BY <1>1, <1>4, <2>1, <2>6 DEF CacheIInv
<1> QED BY Zenon, <1>5, <1>6

LEMMA CreateRegionKeeps ==
    ASSUME RegCacheAssumption, SetFacts, CacheIInv, NEW u \in Users, CreateRegion(u)
    PROVE  CacheIInv'
<1> DEFINE from == AlignDown(user[u].buf.address)
           to == AlignUp(user[u].buf.address + user[u].buf.size)
           over == Overlapping(Cleaned, from, to)
           hit == {i \in over : Contains(Cleaned[i], from, to)}
           h == CHOOSE i \in hit : TRUE
<1>1. /\ Fine(regions, user) /\ Waiting(regions, inv_q)
      /\ user[u].pc = "create" /\ inv_q' = <<>> /\ alive' = alive
  BY Zenon DEF CacheIInv, CreateRegion
<1>2. user \in [Users -> UserSet] /\ user[u] \in UserSet BY <1>1 DEF Fine
<1>3. user[u].buf.address \in Nat /\ user[u].buf.size \in Nat BY <1>2 DEF UserSet
<1>4. /\ from \in Nat /\ to \in Nat /\ from <= user[u].buf.address
      /\ user[u].buf.address + user[u].buf.size <= to
  <2>1. user[u].buf.address + user[u].buf.size \in Nat BY <1>3
  <2> QED BY Zenon, <1>3, <2>1, AlignRight
<1>5. alive /\ <<>> \in Seq([from : Nat, to : Nat]) BY <1>1, BusyAlive
<1>6. /\ Fine(Cleaned, user)
      /\ \A i \in Ids : Cleaned[i].pgtable => Cleaned[i] = regions[i] /\ ~regions[i].unmapped
      /\ \A i \in Ids : regions[i].state = "unused" => Cleaned[i].state = "unused"
  BY Zenon, CleanedRight
<1>7. \A i \in Ids : Cleaned[i] \in RegionSet BY Zenon, <1>6 DEF Fine
<1>8. IF hit # {} THEN Hold(u, Cleaned, h)
      ELSE /\ FreeIds # {}
           /\ regions' = [Invalidate(Cleaned, over, FALSE) EXCEPT ![NewId] =
                 LiveRegion(Least({from} \cup {Cleaned[i].start : i \in over}),
                            Greatest({to} \cup {Cleaned[i].end : i \in over}), 2, TRUE, 0)]
           /\ user' = [v \in Users |-> [user[v] EXCEPT
                 !.gone = @ \ {NewId},
                 !.pc = IF v = u THEN "register" ELSE @,
                 !.id = IF v = u THEN NewId ELSE @]]
  BY Zenon DEF CreateRegion
<1>9. over = Overlapping(Cleaned, from, to) /\ hit = {i \in over : Contains(Cleaned[i], from, to)}
  BY Zenon
<1>10. hit # {} => h \in hit BY Zenon
<1> HIDE DEF from, to, over, hit, h
<1>11. CASE hit # {}
  <2>1. /\ h \in Ids /\ Cleaned[h].pgtable /\ Cleaned[h].start <= from /\ to <= Cleaned[h].end
    BY <1>9, <1>10, <1>11 DEF Overlapping, Contains
  <2>2. Cleaned[h].start \in Nat /\ Cleaned[h].end \in Nat BY <2>1, <1>7 DEF RegionSet
  <2>3. Cleaned[h].start <= user[u].buf.address /\ user[u].buf.address + user[u].buf.size <= Cleaned[h].end
    BY <2>1, <2>2, <1>3, <1>4
  <2>4. h \notin user[u].gone
    <3>1. GoneOk(regions, user, u) BY <1>1 DEF Fine
    <3> QED BY <3>1, <2>1, <1>6 DEF GoneOk
  <2>5. Hold(u, Cleaned, h) BY <1>8, <1>11
  <2>6. Fine(regions', user') /\ TableKept(Cleaned, regions')
    BY Zenon, <1>1, <1>6, <2>1, <2>3, <2>4, <2>5, HoldKeeps
  <2>7. Waiting(regions', <<>>) BY Zenon, <2>6, <1>6 DEF Waiting, TableKept
  <2> QED BY Zenon, <1>1, <1>5, <2>6, <2>7 DEF CacheIInv
<1>12. CASE hit = {}
  <2> DEFINE m == Invalidate(Cleaned, over, FALSE)
             r == LiveRegion(NewStart(Cleaned, over, from), NewEnd(Cleaned, over, to), 2, TRUE, 0)
  <2>1. FreeIds # {} /\ regions' = [m EXCEPT ![NewId] = r] BY Zenon, <1>8, <1>12 DEF NewStart, NewEnd
  <2>2. NewId \in Ids /\ Cleaned[NewId].state = "unused" BY Zenon, <2>1, <1>6 DEF NewId, FreeIds
  <2>3. NewHolder(user, user', u, NewId)
    <3>1. user' = [v \in Users |-> [user[v] EXCEPT
                 !.gone = @ \ {NewId},
                 !.pc = IF v = u THEN "register" ELSE @,
                 !.id = IF v = u THEN NewId ELSE @]]
      BY Zenon, <1>8, <1>12
    <3>2. ASSUME NEW v \in Users
          PROVE  /\ user'[v] \in UserSet
                 /\ user'[v].pc = (IF v = u THEN "register" ELSE user[v].pc)
                 /\ user'[v].id = (IF v = u THEN NewId ELSE user[v].id)
                 /\ user'[v].buf = user[v].buf /\ user'[v].gone = user[v].gone \ {NewId}
      <4> DEFINE g == user[v].gone \ {NewId}
                 p == IF v = u THEN "register" ELSE user[v].pc
                 d == IF v = u THEN NewId ELSE user[v].id
      <4>1. user[v] \in UserSet BY <1>2
      <4>2. /\ g \in SUBSET Ids /\ d \in 0 .. MaxRegions
            /\ p \in {"idle", "get", "lookup", "create", "register", "set", "held", "destroy"}
        BY <4>1, <2>2 DEF UserSet, Ids
      <4>3. user'[v] = [user[v] EXCEPT !.gone = g, !.pc = p, !.id = d] BY Zenon, <3>1, <4>1 DEF UserSet
      <4> HIDE DEF g, p, d
      <4>4. Updated([user[v] EXCEPT !.gone = g, !.pc = p, !.id = d], user[v], g, p, d)
        BY Zenon, <4>1, <4>2, UserUpdate
      <4>5. Updated(user'[v], user[v], g, p, d) BY <4>3, <4>4
      <4> QED BY <4>5 DEF Updated, g, p, d
    <3>3. user' \in [Users -> UserSet] BY Zenon, <3>1, <3>2
    <3> QED BY <3>2, <3>3 DEF NewHolder
  <2>7. Created(regions', Cleaned, over, NewId, from, to) BY Zenon, <2>1 DEF Created
  <2>4. Fine(regions', user') BY Zenon, <1>1, <1>4, <1>6, <1>9, <2>2, <2>3, <2>7, NewFine
  <2>5. \A i \in Ids : ~(regions'[i].pgtable /\ regions'[i].unmapped)
    <3>1. IsFiniteSet(Users) /\ \A i \in over : i \in Ids /\ Cleaned[i].pgtable
      BY <1>9 DEF RegCacheAssumption, Overlapping
    <3>2. \A i \in Ids : Invalidated(m, Cleaned, user, over, i) BY Zenon, <3>1, <1>6, InvalidateFacts
    <3>3. r.unmapped = FALSE BY Zenon DEF LiveRegion
    <3>4. \A i \in Ids : i # NewId => regions'[i] = m[i] BY Zenon, <2>1 DEF Invalidate
    <3>5. regions'[NewId] = r BY <2>1, <2>2 DEF Invalidate
    <3> HIDE DEF m, r
    <3>6. \A i \in Ids : m[i].pgtable => m[i] = Cleaned[i]
      <4>1. \A j \in Ids : Untouched(m, Cleaned, over, j) BY Zenon, <3>2, InvalidatedTable
      <4> QED BY Zenon, <4>1 DEF Untouched
    <3> QED BY <3>3, <3>4, <3>5, <3>6, <1>6
  <2>6. Waiting(regions', <<>>) BY <2>5 DEF Waiting
  <2> QED BY Zenon, <1>1, <1>5, <2>4, <2>6 DEF CacheIInv
<1> QED BY <1>11, <1>12

LEMMA RangeSize ==
    ASSUME NEW s \in Nat, NEW e \in Nat, NEW x \in Nat, NEW n \in Nat, n > 0, s <= x, x + n <= e
    PROVE  e - s \in Nat /\ e - s > 0
OBVIOUS

LEMMA MemRegKeeps ==
    ASSUME RegCacheAssumption, SetFacts, CacheIInv, NEW u \in Users, MemReg(u) \/ SetRange(u)
    PROVE  CacheIInv'
<1> DEFINE i == user[u].id
           a == IF user[u].pc = "register" THEN regions[i].start ELSE user[u].buf.address
           z == IF user[u].pc = "register" THEN regions[i].end - regions[i].start ELSE user[u].buf.size
           q == IF user[u].pc = "register" THEN "set" ELSE "held"
<1>1. /\ Fine(regions, user) /\ Waiting(regions, inv_q) /\ inv_q \in Seq([from : Nat, to : Nat])
      /\ user[u].pc \in {"register", "set"} /\ inv_q' = inv_q /\ alive' = alive
  BY Zenon DEF CacheIInv, MemReg, SetRange
<1>0. /\ regions' = [regions EXCEPT ![i].address = a, ![i].size = z]
      /\ user' = [user EXCEPT ![u].pc = q]
  BY Zenon DEF MemReg, SetRange, Go
<1>2. user[u] \in UserSet /\ UserOk(regions, user, u) /\ regions \in [Ids -> RegionSet] BY <1>1 DEF Fine
<1>3. user[u].buf.address \in Nat /\ user[u].buf.size \in Nat /\ user[u].buf.size > 0
  BY <1>1, <1>2 DEF UserSet, UserOk
<1>4. i \in Ids
  <2>1. i # 0 BY <1>1, <1>2 DEF UserOk
  <2> QED BY <2>1, <1>2 DEF UserSet, Ids
<1>5. regions[i].start \in Nat /\ regions[i].end \in Nat BY Zenon, <1>2, <1>4 DEF RegionSet
<1>6. regions[i].start <= user[u].buf.address /\ user[u].buf.address + user[u].buf.size <= regions[i].end
  BY <1>1, <1>2 DEF UserOk
<1>7. a \in Nat /\ z \in Nat /\ z > 0 /\ q \in {"set", "held"}
  <2>1. regions[i].end - regions[i].start \in Nat /\ regions[i].end - regions[i].start > 0
    BY Zenon, <1>3, <1>5, <1>6, RangeSize
  <2> QED BY Zenon, <2>1, <1>3, <1>5
<1>8. alive BY <1>1, BusyAlive
<1>9. i = user[u].id OBVIOUS
<1> HIDE DEF i, a, z, q
<1>10. Sized(regions, regions', i, z)
  <2>1. Sized(regions, [regions EXCEPT ![i].address = a, ![i].size = z], i, z)
    BY Zenon, <1>2, <1>4, <1>7, SizeUpdate
  <2> QED BY Zenon, <2>1, <1>0
<1>13. Moved(user, user', u, q)
  <2>1. user \in [Users -> UserSet] BY Zenon, <1>1 DEF Fine
  <2>2. Moved(user, [user EXCEPT ![u].pc = q], u, q) BY Zenon, <2>1, <1>7, MoveUpdate
  <2> QED BY Zenon, <2>2, <1>0
<1>14. Fine(regions, user) /\ user[u].pc \in {"register", "set"} BY Zenon, <1>1
<1>11. Fine(regions', user') /\ TableKept(regions, regions')
  BY Zenon, <1>7, <1>9, <1>10, <1>13, <1>14, SizeFine
<1>12. Waiting(regions', inv_q) BY Zenon, <1>1, <1>11, WaitingKept
<1> QED BY Zenon, <1>1, <1>8, <1>11, <1>12 DEF CacheIInv

\* The only thread that has a region gives it back, and it goes.
LEMMA FreedKeeps ==
    ASSUME RegCacheAssumption, SetFacts, CacheIInv, NEW u \in Users, user[u].pc # "idle",
           user[u].id \in Ids, \A v \in Users : user[v].id = user[u].id => v = u,
           regions' = [regions EXCEPT ![user[u].id] = Unused], user' = [user EXCEPT ![u] = Idle],
           inv_q' = inv_q, alive' = alive
    PROVE  CacheIInv'
<1>1. /\ Fine(regions, user) /\ Waiting(regions, inv_q) /\ inv_q \in Seq([from : Nat, to : Nat])
      /\ MaxRegions \in Nat
  BY DEF CacheIInv, RegCacheAssumption
<1>2. alive BY BusyAlive
<1>3. Fine(regions', user')
  <2>1. Fine([regions EXCEPT ![user[u].id] = Unused], [user EXCEPT ![u] = Idle]) BY Zenon, <1>1, FreeFine
  <2> QED BY <2>1
<1>4. regions \in [Ids -> RegionSet] BY <1>1 DEF Fine
<1>5. \A j \in Ids : regions'[j].pgtable => regions'[j] = regions[j] BY <1>4 DEF Unused
<1>6. Waiting(regions', inv_q) BY Zenon, <1>1, <1>5 DEF Waiting
<1> QED BY <1>1, <1>2, <1>3, <1>6 DEF CacheIInv

LEMMA DeregisterMemoryKeeps ==
    ASSUME RegCacheAssumption, SetFacts, CacheIInv, NEW u \in Users, DeregisterMemory(u)
    PROVE  CacheIInv'
<1> DEFINE i == user[u].id
           r == regions[i]
<1>1. /\ Fine(regions, user) /\ Waiting(regions, inv_q) /\ inv_q \in Seq([from : Nat, to : Nat])
      /\ user[u].pc = "held" /\ inv_q' = inv_q /\ alive' = alive
      /\ IF r.size > 0
         THEN /\ regions' = [regions EXCEPT ![i].refs = @ - 1]
              /\ user' = IF r.refs = 1 THEN [user EXCEPT ![u].pc = "destroy"]
                         ELSE [user EXCEPT ![u] = Idle]
         ELSE /\ regions' = [regions EXCEPT ![i] = Dropped(r, FALSE)]
              /\ user' = [user EXCEPT ![u] = Idle]
  BY Zenon DEF CacheIInv, DeregisterMemory
<1>2. /\ user[u] \in UserSet /\ UserOk(regions, user, u) /\ user \in [Users -> UserSet]
      /\ regions \in [Ids -> RegionSet]
  BY <1>1 DEF Fine
<1>3. i # 0 /\ i \in Ids /\ r.state = "live"
  <2>1. i # 0 /\ r.state = "live" BY <1>1, <1>2 DEF UserOk
  <2> QED BY <2>1, <1>2 DEF UserSet, Ids
<1>4. alive BY <1>1, BusyAlive
<1>5. CASE r.size > 0
  <2>1. /\ Idle \in UserSet /\ Idle.pc = "idle" /\ Idle.id = 0 /\ Idle.gone = {}
    BY Zenon, IdleFields DEF RegCacheAssumption
  <2>2. /\ user' \in [Users -> UserSet] /\ \A v \in Users : v # u => user'[v] = user[v]
        /\ user'[u].gone \subseteq user[u].gone
        /\ IF r.refs = 1 THEN user'[u].pc = "destroy" /\ user'[u].id = i /\ user'[u].buf = user[u].buf
                         ELSE user'[u].pc = "idle" /\ user'[u].id = 0
    <3>1. CASE r.refs = 1
      <4>1. user' = [user EXCEPT ![u].pc = "destroy"] BY Zenon, <1>1, <1>5, <3>1
      <4>2. [user[u] EXCEPT !.pc = "destroy"] \in UserSet BY <1>2 DEF UserSet
      <4>3. /\ user' \in [Users -> UserSet] /\ \A v \in Users : v # u => user'[v] = user[v]
            /\ user'[u] = [user[u] EXCEPT !.pc = "destroy"]
        BY <1>2, <4>1, <4>2
      <4>4. user'[u].pc = "destroy" /\ user'[u].id = i /\ user'[u].buf = user[u].buf /\ user'[u].gone = user[u].gone
        BY <1>2, <4>3 DEF UserSet
      <4> QED BY <3>1, <4>3, <4>4
    <3>2. CASE r.refs # 1
      <4>1. user' = [user EXCEPT ![u] = Idle] BY Zenon, <1>1, <1>5, <3>2
      <4>2. /\ user' \in [Users -> UserSet] /\ \A v \in Users : v # u => user'[v] = user[v]
            /\ user'[u] = Idle
        BY Zenon, <1>2, <4>1, <2>1
      <4> QED BY <3>2, <4>2, <2>1
    <3> QED BY Zenon, <3>1, <3>2
  <2>3. regions' = [regions EXCEPT ![i].refs = @ - 1] BY Zenon, <1>1, <1>5
  <2>6. user[u].id = i /\ user[u].pc = "held" /\ regions[i].size > 0 BY <1>1, <1>5
  <2> HIDE DEF i, r
  <2>4. Fine(regions', user') /\ TableKept(regions, regions')
    <3>1. Fine(regions, user) BY <1>1
    <3>2. Leaves(regions, user, user', u) BY Zenon, <2>2 DEF i, r, Leaves
    <3>3. RefDropped(regions, regions', i)
      <4>1. RefDropped(regions, [regions EXCEPT ![i].refs = @ - 1], i) BY Zenon, <1>2, <1>3, DropUpdate
      <4> QED BY <2>3, <4>1
    <3> QED BY Zenon, <2>6, <3>1, <3>2, <3>3, DropFine
  <2>5. Waiting(regions', inv_q) BY <1>1, <2>4, WaitingKept
  <2> QED BY <1>1, <1>4, <2>4, <2>5 DEF CacheIInv
<1>6. CASE ~(r.size > 0)
  <2>1. user[u].buf.size \in Nat /\ ~(user[u].buf.size > 0) BY <1>1, <1>2, <1>6 DEF UserSet, UserOk
  <2>2. user[u].buf.size = 0 /\ ~r.pgtable
    <3>1. user[u].buf.size = 0 BY <2>1
    <3> QED BY <3>1, <1>1, <1>2 DEF UserOk
  <2>3. \A v \in Users : user[v].id = i => v = u
    <3> SUFFICES ASSUME NEW v \in Users, user[v].id = i, v # u PROVE FALSE OBVIOUS
    <3>1. PairOk(user, u, v) BY <1>1 DEF Fine
    <3> QED BY Zenon, <3>1, <2>1, <1>3 DEF PairOk
  <2>4. r.refs = 1
    <3>1. HoldersOf(user, i) = {u} BY <2>3, <1>1 DEF HoldersOf
    <3>2. Cardinality(HoldersOf(user, i)) = 1 BY Zenon, <3>1, OneHolder
    <3>3. RegionOk(regions, user, i) BY <1>1, <1>3 DEF Fine
    <3>4. r.refs = Cardinality(HoldersOf(user, i)) + 0 BY Zenon, <3>3, <1>3, <2>2 DEF RegionOk
    <3> QED BY <3>2, <3>4
  <2>5. Dropped(r, FALSE) = Unused BY <2>4 DEF Dropped
  <2>6. regions' = [regions EXCEPT ![user[u].id] = Unused] /\ user' = [user EXCEPT ![u] = Idle]
    BY Zenon, <1>1, <1>6, <2>5
  <2> QED BY Zenon, <1>1, <1>3, <2>3, <2>6, FreedKeeps
<1> QED BY <1>5, <1>6

LEMMA DestroyRegionKeeps ==
    ASSUME RegCacheAssumption, SetFacts, CacheIInv, NEW u \in Users, DestroyRegion(u)
    PROVE  CacheIInv'
<1> DEFINE i == user[u].id
<1>1. /\ Fine(regions, user) /\ user[u].pc = "destroy" /\ inv_q' = inv_q /\ alive' = alive
      /\ regions' = [regions EXCEPT ![user[u].id] = Unused] /\ user' = [user EXCEPT ![u] = Idle]
      /\ IsFiniteSet(Users)
  BY Zenon DEF CacheIInv, DestroyRegion, RegCacheAssumption
<1>2. user[u] \in UserSet /\ UserOk(regions, user, u) BY Zenon, <1>1 DEF Fine
<1>3. i # 0 /\ i \in Ids /\ regions[i].state = "live" /\ regions[i].refs = 0 /\ ~regions[i].pgtable
  <2>1. i # 0 /\ regions[i].state = "live" /\ regions[i].refs = 0 /\ ~regions[i].pgtable
    BY Zenon, <1>1, <1>2 DEF UserOk
  <2> QED BY <2>1, <1>2 DEF UserSet, Ids
<1>4. HoldersOf(user, i) = {}
  <2>1. RegionOk(regions, user, i) BY Zenon, <1>1, <1>3 DEF Fine
  <2>2. regions[i].refs = Cardinality(HoldersOf(user, i)) + 0 BY Zenon, <2>1, <1>3 DEF RegionOk
  <2>3. Cardinality(HoldersOf(user, i)) \in Nat /\ (Cardinality(HoldersOf(user, i)) = 0 <=> HoldersOf(user, i) = {})
    BY Zenon, <1>1, HoldersFinite
  <2> QED BY <2>2, <2>3, <1>3
<1>5. \A v \in Users : user[v].id = user[u].id => v = u
  <2> SUFFICES ASSUME NEW v \in Users, user[v].id = i, v # u PROVE FALSE OBVIOUS
  <2>1. user[v].pc = "destroy" BY <1>4 DEF HoldersOf
  <2>2. PairOk(user, u, v) BY Zenon, <1>1 DEF Fine
  <2> QED BY Zenon, <2>1, <2>2, <1>1, <1>3 DEF PairOk
<1> QED BY Zenon, <1>1, <1>3, <1>5, FreedKeeps

-----------------------------------------------------------------------------
\* A region of memory that may have been unmapped.
Marked(n, r, from, to) ==
    /\ n \in RegionSet /\ n.state = r.state /\ n.start = r.start /\ n.end = r.end
    /\ n.refs = r.refs /\ n.pgtable = r.pgtable /\ n.size = r.size
    /\ r.unmapped => n.unmapped
    /\ n.unmapped => r.unmapped \/ (r.start < to /\ from < r.end)
    /\ r = Unused => n = Unused

LEMMA MarkUpdate ==
    ASSUME NEW rs, rs \in [Ids -> RegionSet], NEW from, NEW to, NEW i \in Ids
    PROVE  Marked(Unmapped(rs, from, to)[i], rs[i], from, to)
<1> DEFINE r == rs[i]
           n == [r EXCEPT !.unmapped = TRUE]
           hit == r.state = "live" /\ r.start < to /\ from < r.end
<1>1. r \in RegionSet /\ Unmapped(rs, from, to)[i] = IF hit THEN n ELSE r BY DEF Unmapped
<1>2. CASE hit
  <2>1. n \in RegionSet BY Zenon, <1>1 DEF RegionSet
  <2>2. /\ n.state = r.state /\ n.start = r.start /\ n.end = r.end
        /\ n.refs = r.refs /\ n.pgtable = r.pgtable /\ n.size = r.size /\ n.unmapped = TRUE
    BY <1>1 DEF RegionSet
  <2>3. r # Unused BY <1>2 DEF Unused
  <2> HIDE DEF n
  <2> QED BY Zenon, <1>1, <1>2, <2>1, <2>2, <2>3 DEF Marked
<1>3. CASE ~hit BY <1>1, <1>3 DEF Marked
<1> QED BY <1>2, <1>3

\* That memory goes away disturbs neither the table nor the threads.
LEMMA UnmappedFine ==
    ASSUME NEW rs, NEW us, Fine(rs, us), NEW from, NEW to
    PROVE  Fine(Unmapped(rs, from, to), us)
<1> DEFINE n == Unmapped(rs, from, to)
<1>1. rs \in [Ids -> RegionSet] BY DEF Fine
<1>2. \A i \in Ids : Marked(n[i], rs[i], from, to) BY <1>1, MarkUpdate
<1>3. n \in [Ids -> RegionSet]
  <2>1. n = [i \in Ids |-> n[i]] BY DEF Unmapped
  <2>2. \A i \in Ids : n[i] \in RegionSet BY Zenon, <1>2 DEF Marked
  <2> HIDE DEF n
  <2> QED BY <2>1, <2>2
<1> HIDE DEF n
<1>4. ASSUME NEW i \in Ids PROVE RegionOk(n, us, i)
  <2>1. RegionOk(rs, us, i) /\ Marked(n[i], rs[i], from, to) BY Zenon, <1>2 DEF Fine
  <2> QED BY Zenon, <2>1 DEF RegionOk, Marked
<1>5. Apart(n)
  <2>1. Apart(rs) BY DEF Fine
  <2>2. \A i \in Ids : /\ n[i].start = rs[i].start /\ n[i].end = rs[i].end
                       /\ n[i].pgtable = rs[i].pgtable
    BY Zenon, <1>2 DEF Marked
  <2> QED BY Zenon, <2>1, <2>2 DEF Apart
<1>6. ASSUME NEW u \in Users PROVE UserOk(n, us, u) /\ GoneOk(n, us, u)
  <2>1. UserOk(rs, us, u) /\ GoneOk(rs, us, u) /\ us[u] \in UserSet BY DEF Fine
  <2>2. us[u].gone \subseteq Ids /\ (us[u].id # 0 => us[u].id \in Ids) BY <2>1 DEF UserSet, Ids
  <2>3. us[u].id # 0 => Marked(n[us[u].id], rs[us[u].id], from, to) BY Zenon, <1>2, <2>2
  <2>4. GoneOk(n, us, u) BY Zenon, <1>2, <2>1, <2>2 DEF GoneOk, Marked
  <2>5. UserOk(n, us, u) BY Zenon, <2>1, <2>3 DEF UserOk, Marked
  <2> QED BY <2>4, <2>5
<1> QED BY Zenon, <1>3, <1>4, <1>5, <1>6 DEF Fine, n

LEMMA UnmapKeeps ==
    ASSUME RegCacheAssumption, SetFacts, CacheIInv, NEW buf \in Buffers,
           Unmap(buf.address, buf.address + buf.size)
    PROVE  CacheIInv'
<1> DEFINE from == buf.address
           to == buf.address + buf.size
           rs == Unmapped(regions, from, to)
           ids == Overlapping(rs, from, to)
           m == InvalidateRange(rs, from, to, TRUE)
<1>1. /\ Fine(regions, user) /\ inv_q \in Seq([from : Nat, to : Nat]) /\ Waiting(regions, inv_q)
      /\ alive /\ alive' = alive /\ user' = user /\ IsFiniteSet(Users)
      /\ LockFree => regions' = CheckInvQueue(m, TRUE) /\ inv_q' = <<>>
      /\ ~LockFree => regions' = rs /\ inv_q' = Append(inv_q, [from |-> from, to |-> to])
  BY Zenon DEF CacheIInv, Unmap, RegCacheAssumption
<1>2. from \in Nat /\ to \in Nat BY DEF RegCacheAssumption
<1>3. m = Invalidate(rs, ids, TRUE) BY Zenon DEF InvalidateRange
<1>4. \A j \in ids : j \in Ids /\ rs[j].pgtable BY Zenon DEF Overlapping
<1>5. \A j \in Ids : rs[j].pgtable /\ rs[j].start < to /\ from < rs[j].end => j \in ids
  BY Zenon DEF Overlapping
<1>6. Fine(rs, user) BY Zenon, <1>1, UnmappedFine
<1>7. \A i \in Ids : Marked(rs[i], regions[i], from, to)
  <2>1. regions \in [Ids -> RegionSet] BY Zenon, <1>1 DEF Fine
  <2> QED BY <2>1, MarkUpdate
<1> HIDE DEF rs, ids, m, from, to
<1>8. CASE LockFree
  <2>1. Fine(m, user) BY Zenon, <1>1, <1>3, <1>4, <1>6, InvalidateFine
  <2>2. \A i \in Ids : Invalidated(m, rs, user, ids, i) BY Zenon, <1>1, <1>3, <1>4, <1>6, InvalidateFacts
  <2>3. \A i \in Ids : m[i].pgtable => i \notin ids /\ m[i] = rs[i]
    <3>1. \A j \in Ids : Untouched(m, rs, ids, j) BY Zenon, <2>2, InvalidatedTable
    <3> QED BY Zenon, <3>1 DEF Untouched
  <2>4. Waiting(m, inv_q)
    <3> SUFFICES ASSUME NEW i \in Ids, m[i].pgtable, m[i].unmapped
                 PROVE  \E k \in DOMAIN inv_q : m[i].start < inv_q[k].to /\ inv_q[k].from < m[i].end
      BY Zenon DEF Waiting
    <3>1. m[i] = rs[i] /\ i \notin ids BY Zenon, <2>3
    <3>2. /\ regions[i].pgtable /\ regions[i].unmapped
          /\ rs[i].start = regions[i].start /\ rs[i].end = regions[i].end
      BY <1>5, <1>7, <3>1 DEF Marked
    <3> QED BY Zenon, <1>1, <3>1, <3>2 DEF Waiting
  <2>5. /\ Fine(CheckInvQueue(m, TRUE), user)
        /\ \A i \in Ids : CheckInvQueue(m, TRUE)[i].pgtable =>
              CheckInvQueue(m, TRUE)[i] = m[i] /\ ~m[i].unmapped
    BY Zenon, <2>1, <2>4, InvQueueChecked
  <2>6. Fine(regions', user') BY Zenon, <1>1, <1>8, <2>5
  <2>7. \A i \in Ids : ~(regions'[i].pgtable /\ regions'[i].unmapped) BY Zenon, <1>1, <1>8, <2>5
  <2>8. Waiting(regions', inv_q') BY Zenon, <2>7 DEF Waiting
  <2>9. inv_q' \in Seq([from : Nat, to : Nat]) BY <1>1, <1>8
  <2> QED BY Zenon, <1>1, <2>6, <2>8, <2>9 DEF CacheIInv
<1>9. CASE ~LockFree
  <2> DEFINE x == [from |-> from, to |-> to]
             q == Append(inv_q, x)
  <2>1. x \in [from : Nat, to : Nat] /\ x.from = from /\ x.to = to BY <1>2
  <2>2. inv_q' = q /\ regions' = rs BY Zenon, <1>1, <1>9
  <2> HIDE DEF x
  <2>3. q \in Seq([from : Nat, to : Nat]) BY <1>1, <2>1
  <2>4. /\ \A k \in DOMAIN inv_q : k \in DOMAIN q /\ q[k] = inv_q[k]
        /\ Len(inv_q) + 1 \in DOMAIN q /\ q[Len(inv_q) + 1] = x
    BY <1>1, <2>1
  <2> HIDE DEF q
  <2>5. Waiting(rs, q)
    <3> SUFFICES ASSUME NEW i \in Ids, rs[i].pgtable, rs[i].unmapped
                 PROVE  \E k \in DOMAIN q : rs[i].start < q[k].to /\ q[k].from < rs[i].end
      BY Zenon DEF Waiting
    <3>1. /\ rs[i].start = regions[i].start /\ rs[i].end = regions[i].end /\ regions[i].pgtable
          /\ regions[i].unmapped \/ (regions[i].start < to /\ from < regions[i].end)
      BY Zenon, <1>7 DEF Marked
    <3>2. CASE regions[i].unmapped
      <4>1. PICK k \in DOMAIN inv_q : regions[i].start < inv_q[k].to /\ inv_q[k].from < regions[i].end
        BY Zenon, <1>1, <3>1, <3>2 DEF Waiting
      <4> QED BY Zenon, <3>1, <4>1, <2>4
    <3>3. CASE regions[i].start < to /\ from < regions[i].end
      BY Zenon, <3>1, <3>3, <2>1, <2>4
    <3> QED BY Zenon, <3>1, <3>2, <3>3
  <2> QED BY Zenon, <1>1, <1>6, <2>2, <2>3, <2>5 DEF CacheIInv
<1> QED BY <1>8, <1>9

LEMMA ForkKeeps ==
    ASSUME RegCacheAssumption, SetFacts, CacheIInv, Fork
    PROVE  CacheIInv'
<1> DEFINE ids == {i \in Ids : regions[i].pgtable}
<1>1. /\ Fine(regions, user) /\ inv_q \in Seq([from : Nat, to : Nat])
      /\ alive /\ alive' = alive /\ user' = user /\ inv_q' = inv_q /\ IsFiniteSet(Users)
      /\ regions' = Invalidate(regions, ids, FALSE)
  BY Zenon DEF CacheIInv, Fork, RegCacheAssumption
<1>2. (\A j \in ids : j \in Ids /\ regions[j].pgtable) /\ \A j \in Ids : regions[j].pgtable => j \in ids
  OBVIOUS
<1> HIDE DEF ids
<1>3. Fine(regions', user') BY ZenonT(20), <1>1, <1>2, InvalidateFine
<1>4. \A i \in Ids : Invalidated(regions', regions, user, ids, i) BY ZenonT(20), <1>1, <1>2, InvalidateFacts
<1>5. \A i \in Ids : ~regions'[i].pgtable
  <2>1. \A j \in Ids : Untouched(regions', regions, ids, j) BY Zenon, <1>4, InvalidatedTable
  <2> QED BY Zenon, <1>2, <2>1 DEF Untouched
<1>6. Waiting(regions', inv_q') BY <1>5 DEF Waiting
<1> QED BY ZenonT(20), <1>1, <1>3, <1>6 DEF CacheIInv

\* With no user left the table holds the last reference to every region.
LEMMA DestroyRegCacheKeeps ==
    ASSUME RegCacheAssumption, SetFacts, CacheIInv, DestroyRegCache
    PROVE  CacheIInv'
<1> DEFINE rs == Cleaned
           ids == {i \in Ids : rs[i].pgtable}
<1>1. /\ \A u \in Users : user[u].pc = "idle"
      /\ alive' = FALSE /\ user' = user /\ inv_q' = <<>> /\ IsFiniteSet(Users)
      /\ regions' = Invalidate(rs, ids, FALSE)
  BY Zenon DEF DestroyRegCache, RegCacheAssumption
<1>2. Fine(rs, user) BY Zenon, CleanedRight
<1>3. \A i \in Ids : rs[i].state # "gc" BY ZenonT(20) DEF Cleaned, CheckGcList, Unused
<1>4. \A j \in ids : j \in Ids /\ rs[j].pgtable OBVIOUS
<1>5. \A j \in Ids : j \notin ids => ~rs[j].pgtable OBVIOUS
<1> HIDE DEF rs, ids
<1>6. Fine(regions', user') BY ZenonT(20), <1>1, <1>2, <1>4, InvalidateFine
<1>7. \A u \in Users : user[u].id = 0 BY Zenon, <1>1, <1>2 DEF Fine, UserOk
<1>8. ASSUME NEW i \in Ids PROVE regions'[i] = Unused
  <2>1. RegionOk(rs, user, i) /\ rs[i] \in RegionSet BY <1>2 DEF Fine
  <2>2. i # 0 BY DEF Ids
  <2>3. HoldersOf(user, i) = {} BY <1>7, <2>2 DEF HoldersOf
  <2>4. CASE i \notin ids
    <3>1. regions'[i] = rs[i] BY <1>1, <2>4 DEF Invalidate
    <3>2. rs[i].state # "live" BY Zenon, <1>5, <1>7, <2>1, <2>2, <2>4 DEF RegionOk
    <3>3. rs[i].state = "unused" BY <1>3, <2>1, <3>2 DEF RegionSet
    <3> QED BY Zenon, <2>1, <3>1, <3>3 DEF RegionOk
  <2>5. CASE i \in ids
    <3>1. rs[i].refs = Cardinality(HoldersOf(user, i)) + 1 BY Zenon, <1>4, <2>1, <2>5 DEF RegionOk
    <3>2. rs[i].refs = 1 BY <2>3, <3>1, HoldersFinite
    <3>3. [rs[i] EXCEPT !.pgtable = FALSE].refs = 1 BY <2>1, <3>2 DEF RegionSet
    <3>4. Dropped([rs[i] EXCEPT !.pgtable = FALSE], FALSE) = Unused BY <3>3 DEF Dropped
    <3> QED BY ZenonT(20), <1>1, <2>5, <3>4 DEF Invalidate
  <2> QED BY <2>4, <2>5
<1>9. Waiting(regions', inv_q') BY <1>8 DEF Waiting, Unused
<1>10. inv_q' \in Seq([from : Nat, to : Nat]) BY <1>1
<1> QED BY ZenonT(20), <1>1, <1>6, <1>8, <1>9, <1>10 DEF CacheIInv

-----------------------------------------------------------------------------
LEMMA CacheInit ==
    ASSUME RegCacheAssumption, SetFacts, Init
    PROVE  CacheIInv
<1>1. /\ IsFiniteSet(Users) /\ MaxRegions \in Nat BY DEF RegCacheAssumption
<1>2. /\ regions = [i \in Ids |-> Unused] /\ user = [u \in Users |-> Idle]
      /\ inv_q = <<>> /\ alive
  BY DEF Init
<1>3. /\ \A i \in Ids : regions[i] = Unused
      /\ \A u \in Users : user[u] = Idle
  BY <1>2
<1>4. regions \in [Ids -> RegionSet] BY Zenon, <1>2, UnusedFields
<1>5. user \in [Users -> UserSet] BY Zenon, <1>1, <1>2, IdleFields
<1>11. \A i \in Ids : ~regions[i].pgtable /\ regions[i].state # "live"
  <2>1. Unused.state # "live" /\ ~Unused.pgtable BY UnusedFields
  <2> QED BY Zenon, <1>3, <2>1
<1>12. \A u \in Users : user[u].pc = "idle" /\ user[u].id = 0 /\ user[u].gone = {}
  BY Zenon, <1>1, <1>3, IdleFields
<1>6. \A i \in Ids : RegionOk(regions, user, i) BY Zenon, <1>3, <1>11 DEF RegionOk
<1>7. Apart(regions) BY Zenon, <1>11 DEF Apart
<1>8. \A u \in Users : UserOk(regions, user, u) /\ GoneOk(regions, user, u)
  BY Zenon, <1>12 DEF UserOk, GoneOk
<1>9. \A u, v \in Users : PairOk(user, u, v) BY Zenon, <1>12 DEF PairOk
<1>10. Waiting(regions, inv_q) BY Zenon, <1>11 DEF Waiting
<1> QED BY <1>2, <1>4, <1>5, <1>6, <1>7, <1>8, <1>9, <1>10 DEF Fine, CacheIInv

LEMMA CacheNext ==
    ASSUME RegCacheAssumption, SetFacts, CacheIInv, [Next]_vars
    PROVE  CacheIInv'
<1>1. CASE UNCHANGED vars
  BY Zenon, <1>1 DEF vars, CacheIInv
<1>2. ASSUME NEW u \in Users,
             \/ \E buf \in Buffers : RegisterMemory(u, buf)
             \/ FastCheck(u) \/ FastLookup(u) \/ CreateRegion(u) \/ MemReg(u)
             \/ SetRange(u) \/ DeregisterMemory(u) \/ DestroyRegion(u)
      PROVE  CacheIInv'
  BY Zenon, <1>2, RegisterMemoryKeeps, FastCheckKeeps, FastLookupKeeps, CreateRegionKeeps, MemRegKeeps,
     DeregisterMemoryKeeps, DestroyRegionKeeps
<1>3. ASSUME NEW buf \in Buffers, Unmap(buf.address, buf.address + buf.size)
      PROVE  CacheIInv'
  BY <1>3, UnmapKeeps
<1>4. Finished => UNCHANGED vars BY DEF Finished
<1> QED BY Zenon, <1>1, <1>2, <1>3, <1>4, ForkKeeps, DestroyRegCacheKeeps DEF Next

\* What the run checks follows from the inductive invariant.
LEMMA CacheImplies ==
    ASSUME RegCacheAssumption, SetFacts, CacheIInv
    PROVE  RegCacheInv
<1>1. /\ regions \in [Ids -> RegionSet] /\ user \in [Users -> UserSet]
      /\ \A i \in Ids : RegionOk(regions, user, i)
      /\ Apart(regions)
      /\ \A u \in Users : UserOk(regions, user, u)
  BY Zenon DEF CacheIInv, Fine
<1>2. CountsRight
  <2> SUFFICES ASSUME NEW i \in Ids
               PROVE  /\ regions[i].state = "live" =>
                            regions[i].refs = Cardinality(Holders(i)) + (IF regions[i].pgtable THEN 1 ELSE 0)
                      /\ regions[i].pgtable =>
                            regions[i].state = "live" /\ Overlapping(regions, regions[i].start, regions[i].end) = {i}
    BY Zenon DEF CountsRight
  <2>1. Holders(i) = HoldersOf(user, i) BY DEF Holders, HoldersOf
  <2>2. RegionOk(regions, user, i) BY <1>1
  <2>3. regions[i].state = "live" =>
           regions[i].refs = Cardinality(Holders(i)) + (IF regions[i].pgtable THEN 1 ELSE 0)
    BY Zenon, <2>1, <2>2 DEF RegionOk
  <2>4. ASSUME regions[i].pgtable
        PROVE  regions[i].state = "live" /\ Overlapping(regions, regions[i].start, regions[i].end) = {i}
    <3>1. regions[i].state = "live" /\ regions[i].start < regions[i].end BY Zenon, <2>2, <2>4 DEF RegionOk
    <3>2. i \in Overlapping(regions, regions[i].start, regions[i].end) BY Zenon, <2>4, <3>1 DEF Overlapping
    <3>3. ASSUME NEW j \in Overlapping(regions, regions[i].start, regions[i].end) PROVE j = i
      <4>1. /\ j \in Ids /\ regions[j].pgtable /\ regions[j].start < regions[i].end
            /\ regions[i].start < regions[j].end
        BY Zenon, <3>3 DEF Overlapping
      <4>2. /\ regions[i].start \in Nat /\ regions[i].end \in Nat
            /\ regions[j].start \in Nat /\ regions[j].end \in Nat
        BY Zenon, <1>1, <4>1 DEF RegionSet
      <4>3. i # j => regions[i].end <= regions[j].start \/ regions[j].end <= regions[i].start
        BY Zenon, <1>1, <2>4, <4>1 DEF Apart
      <4> QED BY <4>1, <4>2, <4>3
    <3> QED BY Zenon, <3>1, <3>2, <3>3
  <2> QED BY Zenon, <2>3, <2>4
<1>3. StaysRegistered BY Zenon, <1>1 DEF StaysRegistered, UserOk
<1>4. NotUnmapped BY Zenon, <1>1 DEF NotUnmapped, UserOk
<1>5. NothingRegistered BY Zenon DEF CacheIInv, NothingRegistered
<1> QED BY <1>2, <1>3, <1>4, <1>5 DEF RegCacheInv

INSTANCE FiniteSetTheorems

LEMMA SetFactsHold ==
    ASSUME RegCacheAssumption
    PROVE  SetFacts
<1>1. IsFiniteSet(Users) BY DEF RegCacheAssumption
<1>2. ASSUME NEW S \in SUBSET Users
      PROVE  /\ IsFiniteSet(S) /\ Cardinality(S) \in Nat /\ (Cardinality(S) = 0 <=> S = {})
             /\ \A u \in Users : u \notin S => Cardinality(S \cup {u}) = Cardinality(S) + 1
  <2>1. IsFiniteSet(S) BY <1>1, FS_Subset
  <2>2. Cardinality(S) \in Nat /\ (Cardinality(S) = 0 <=> S = {})
    BY <2>1, FS_CardinalityType, FS_EmptySet
  <2>3. \A u \in Users : u \notin S => Cardinality(S \cup {u}) = Cardinality(S) + 1
    BY Zenon, <2>1, FS_AddElement
  <2> QED BY <2>1, <2>2, <2>3
<1>3. ASSUME NEW T \in SUBSET Nat, T # {}
      PROVE  \E m \in T : \A k \in T : m <= k
  <2>1. \E m \in T : \A k \in T : ~(<<k, m>> \in OpToRel(<, Nat))
    BY Zenon, <1>3, NatLessThanWellFounded, WFMin
  <2>2. PICK m \in T : \A k \in T : ~(<<k, m>> \in OpToRel(<, Nat)) BY Zenon, <2>1
  <2>3. \A k \in T : ~(k < m) BY Zenon, <2>2 DEF OpToRel
  <2> QED BY <2>3
<1> QED BY Zenon, <1>2, <1>3 DEF SetFacts

\* A registration stays good until its thread gives it back, and is counted, whatever
\* is merged, unmapped or forked meanwhile, for any number of threads and buffers
\* and every alignment; freeing the cache leaves nothing registered.
THEOREM RegCacheInvariant == Spec => []RegCacheInv
<1>0. RegCacheAssumption /\ SetFacts BY RegCacheConstants, SetFactsHold
<1>1. Init => CacheIInv BY <1>0, CacheInit
<1>2. CacheIInv /\ [Next]_vars => CacheIInv' BY <1>0, CacheNext
<1>3. CacheIInv => RegCacheInv BY <1>0, CacheImplies
<1> QED BY <1>1, <1>2, <1>3, PTL DEF Spec
=============================================================================
