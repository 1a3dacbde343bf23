------------------------------- MODULE MCShm --------------------------------
(***************************************************************************)
(* The life of the shared memory transport.  The first state chooses       *)
(*   "sizes"  a configuration of ring and slot sizes, nothing else;        *)
(*   "twice"  three ranks on two hosts that set up two devices, after a    *)
(*            job that died may have left a name behind;                   *)
(*   "three"  three ranks on one host that set up one device;              *)
(*   "ring"   one ring in use, under fair scheduling.                      *)
(***************************************************************************)
EXTENDS Integers, Sequences, FiniteSets, TLC

CONSTANTS p1, c1, c2, m1, NoHeader, NoBody

VARIABLES scenario, sizes,
          producerPosition, consumerPosition, sequence, header, body, local,
          host, config, pc, kv, fence, ctx, dev, names, used, faults, verdicts

SetUps == {"twice", "three"}

\* Scaled sizes: a cache line of 4 bytes, pages of 8, a size_t of 6 bits.
Good == [ring |-> 16, slot |-> 4, payload |-> 2, cas |-> 1, enable |-> {1, 2}]
Configured(odd) == [r \in 0 .. 2 |-> IF r = 2 THEN odd ELSE Good]

On(h0, h1, h2) == [r \in 0 .. 2 |-> <<h0, h1, h2>>[r + 1]]

S(s) == INSTANCE ShmSetup WITH
    CacheLine <- 4, HeaderSize <- 3, PageSize <- 8, WordBits <- 6,
    PayloadMax <- 57, OffsetMax <- 50, LastPosition <- 31, NameCapacity <- 31,
    NRanks <- 3, NoHost <- "none",
    HostMaps <- IF s = "three" THEN {On("a", "a", "a")}
                ELSE {On("a", "b", "a"), On("a", "none", "a")},
    ConfigMaps <- {Configured(Good), Configured([Good EXCEPT !.slot = 8])} \cup
        IF s = "three" THEN {Configured([Good EXCEPT !.slot = 5])}
        ELSE {[r \in 0 .. 2 |-> [Good EXCEPT !.enable = {k}]] : k \in {1, 2}},
    StaleNames <- IF s = "three" THEN {} ELSE {<<1, 1, 2>>},
    Nonces <- {1},
    Uids <- IF s = "three" THEN {1} ELSE {1, 2},
    MaxDevices <- IF s = "three" THEN 1 ELSE 2,
    MaxFaults <- 1

R == INSTANCE ShmRing WITH
    Producers <- {p1}, Consumers <- {c1, c2}, Messages <- {m1},
    SlotCount <- 2, MaximumPosition <- 3,
    ProducerAttempts <- 2, ConsumerAttempts <- 1, MaxPolls <- 2

ASSUME ShmConstants ==
    /\ R!ShmRingAssumption
    /\ \A s \in SetUps : S(s)!ShmGeometryAssumption /\ S(s)!ShmSetupAssumption

ringVars == <<producerPosition, consumerPosition, sequence, header, body, local>>

setupVars == <<host, config, pc, kv, fence, ctx, dev, names, used, faults, verdicts>>

\* All sizes a size_t of 6 bits can have, and payloads about a slot's.
AllSizes == [ring : 0 .. 63, slot : 0 .. 63, payload : {0, 20}, cas : {0, 1}]

Init ==
    /\ scenario \in SetUps \cup {"sizes", "ring"}
    /\ IF scenario = "sizes" THEN sizes \in AllSizes ELSE sizes = Good
    /\ R!Init
    /\ \E s \in SetUps :
          /\ IF scenario \in SetUps THEN s = scenario ELSE s = "three"
          /\ S(s)!Init
          /\ scenario \notin SetUps => config = Configured(Good)

Next ==
    /\ UNCHANGED <<scenario, sizes>>
    /\ \/ \E s \in SetUps : scenario = s /\ S(s)!Next /\ UNCHANGED ringVars
       \/ scenario = "ring" /\ R!Next /\ UNCHANGED setupVars
       \/ /\ scenario # "ring"
          /\ scenario \in SetUps => \A r \in 0 .. 2 : pc[r] = "done"
          /\ UNCHANGED <<ringVars, setupVars>>

\* Every rank makes the collective calls of the others and its calls run on;
\* the threads at the ring run, and win the races they lose again and again.
FairSpec ==
    /\ Init /\ [][Next]_<<scenario, sizes, ringVars, setupVars>>
    /\ \A s \in SetUps, r \in 0 .. 2 :
          WF_setupVars(scenario = s /\ S(s)!Step(r))
    /\ WF_ringVars(scenario = "ring" /\ R!ProducerStep(p1))
    /\ SF_ringVars(scenario = "ring" /\ R!ReserveCas(p1)
                     /\ producerPosition' # producerPosition)
    /\ \A c \in {c1, c2} :
          /\ WF_ringVars(scenario = "ring" /\ R!ConsumerStep(c))
          /\ SF_ringVars(scenario = "ring" /\ \E n \in 1 .. 2 : R!RecvAvailable(c, n))
          /\ SF_ringVars(scenario = "ring" /\ R!PollCas(c)
                           /\ consumerPosition' # consumerPosition)

-----------------------------------------------------------------------------
\* The state is well typed; no rank writes into a ring before all ranks that
\* attach it have; a name stays linked until they have, and none outlives the
\* set-up, but for unlinks that failed.
SetupInv == \A s \in SetUps : scenario = s => S(s)!SetupInv /\ S(s)!NoNameLeft

\* All sizes alloc_device accepts give a ring that fits its mapping, of the
\* largest power of two of slots, and every rank's name fits its handle.
GeometryRight == scenario = "sizes" =>
    /\ S("three")!GeometryRight(sizes)
    /\ \A r \in {0, 35, 36, 1295, 1296, 60466175, 60466176, 2147483647} :
          S("three")!NameFits(r)

\* All ranks leave alloc_device with the same outcome, whatever failed, and the
\* routes of a device in use lead to the rings of exactly the ranks of the host,
\* created for this device.
SameVerdict == \A s \in SetUps : scenario = s => S(s)!SameVerdict /\ S(s)!RoutesRight

\* Every alloc_device returns or throws on every rank, so that the program
\* gets through all its devices; and the messages for which the producer
\* reserved slots of the ring are all received.  The number of devices and
\* of positions is bounded, so each of the two is an end state.
ShmProgress ==
    <>[](IF scenario = "ring" THEN consumerPosition = producerPosition
         ELSE scenario \in SetUps => \A r \in 0 .. 2 : pc[r] = "done")
=============================================================================
