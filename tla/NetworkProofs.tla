--------------------------- MODULE NetworkProofs ---------------------------
(***************************************************************************)
(* What placement promises for any nodes, deployments, heartbeats and       *)
(* disturbances, as long as a node's heartbeats come one at a time and no    *)
(* status report falls between the two statements of a suspension: both      *)
(* conditions are hypotheses here, and what happens without them is among    *)
(* the README's known deviations.  What the gateway promises for any lives   *)
(* of its caches, requests, stops, moves and revocations.  And what the      *)
(* copies of a stored object promise, whatever crashes, answers are lost and *)
(* cron runs overlap (which their being apart does not survive).             *)
(***************************************************************************)
EXTENDS MCNetwork, MCTraffic, Sums, SequenceTheorems

-----------------------------------------------------------------------------
(* Placement: the inductive invariant. *)

PlaStatus == Live \cup {"queued", "ended"}
Reads == {"static", "container"}
Works == {"staticList", "staticQueue", "staticClaim", "containerList", "containerQueue", "containerClaim"}
Claims == {"staticClaim", "containerClaim"}

\* The phase whose load a heartbeat has read.
LoadPhase(b) == IF hb[b].pc \in {"staticList", "staticQueue", "staticClaim"} THEN "static" ELSE "container"

DepTypes == dep \in [Deps -> [st : PlaStatus, node : Nodes \cup {None}, refused : Nodes \cup {None}]]
HbTypes == hb \in [Beats -> [pc : {"idle"} \cup Reads \cup Works, node : Nodes \cup {None},
                             mine : SUBSET Deps, todo : SUBSET Deps]]
CronTypes ==
  /\ cron \in [pc : {"idle", "nodes", "live", "loop", "end"}, todo : SUBSET Deps, at : [Deps -> Nodes \cup {None}],
               was : [Deps -> PlaStatus], nodes : SUBSET Nodes, victim : Deps \cup {None}]
  /\ cron.pc = "end" => cron.victim \in Deps
AdminTypes == admin \in [node : Nodes \cup {None}, todo : {{None}} \cup SUBSET Deps, was : [Deps -> PlaStatus]]

PlaTypes ==
  /\ DepTypes /\ HbTypes /\ CronTypes /\ AdminTypes
  /\ state \in [Nodes -> {"active", "draining", "suspended"}] /\ changes \in 0..MaxChanges
  /\ \A d \in Deps : dep[d].st \in Live => dep[d].node # None

\* One heartbeat of a node at a time.
HbAlone == \A b, c \in Beats : b # c => hb[b].node # hb[c].node \/ hb[b].node = None

\* A heartbeat counts at least what is live on its node, of the kind it is placing.
HbCounts(b) ==
  /\ hb[b].pc # "idle" => hb[b].node # None
  /\ hb[b].pc \in Works => /\ hb[b].mine \subseteq Class(LoadPhase(b))
                           /\ LiveOn(hb[b].node) \cap Class(LoadPhase(b)) \subseteq hb[b].mine
  /\ hb[b].pc \in {"staticQueue", "containerQueue"} \cup Claims => hb[b].todo \subseteq Class(LoadPhase(b))

\* What it is about to claim fits beside that, and no sibling of it is live there.
HbFits(b) ==
  hb[b].pc \in Claims =>
    /\ hb[b].todo # {}
    /\ fits(Min(hb[b].todo), hb[b].node, hb[b].mine, LoadPhase(b))
    /\ ~SiblingOn(Min(hb[b].todo), hb[b].node)

\* A suspension under way has its node suspended and, once it has read them, names every row that is live there.
AdminKnows ==
  /\ admin.node = None => admin.todo = {}
  /\ admin.node # None => state[admin.node] = "suspended"
  /\ admin.node # None /\ admin.todo # {None} =>
       \A d \in LiveOn(admin.node) : d \in admin.todo /\ dep[d].st = admin.was[d]

Placed == \A b \in Beats : HbCounts(b) /\ HbFits(b)

PlaInv ==
  /\ PlaTypes /\ HbAlone /\ Placed /\ AdminKnows
  /\ WithinCapacity /\ SiblingsApart /\ SuspendedIsEmpty

-----------------------------------------------------------------------------
(* Capacity. *)

\* The first row in order of arrival is one of the rows.
LEMMA MinIn == ASSUME NEW S, S \subseteq Deps, S # {} PROVE Min(S) \in S
<1>1. S \subseteq Nat
  BY PlacementAssumption
<1>2. \E x \in S : \A y \in S : ~ (<<y, x>> \in OpToRel(<, Nat))
  BY <1>1, NatLessThanWellFounded, WFMin
<1>3. PICK x \in S : \A y \in S : ~ (y < x)
  BY <1>1, <1>2 DEF OpToRel
<1>4. \A y \in S : x <= y
  BY <1>1, <1>3
<1> QED
  BY <1>4 DEF Min

\* Any set of deployments is finite and needs a natural number of everything.
LEMMA NeedNat ==
  ASSUME NEW S, S \subseteq Deps
  PROVE  IsFiniteSet(S) /\ SumNeed(S) \in Nat /\ Cardinality(S) \in Nat
<1>1. IsFiniteSet(S)
  BY PlacementAssumption, FS_Subset
<1>2. \A x \in S : Need[x] \in Nat
  BY PlacementAssumption
<1> QED
  BY <1>1, <1>2, SumNat, FS_CardinalityType DEF SumNeed

\* Fewer deployments need no more.
LEMMA NeedLess ==
  ASSUME NEW S, S \subseteq Deps, NEW T, T \subseteq S
  PROVE  SumNeed(T) <= SumNeed(S) /\ Cardinality(T) <= Cardinality(S)
<1>1. IsFiniteSet(S) /\ \A x \in S : Need[x] \in Nat
  BY NeedNat, PlacementAssumption
<1>2. SumFunctionOnSet(Need, S) = SumFunctionOnSet(Need, T) + SumFunctionOnSet(Need, S \ T)
  BY <1>1, SumSplit
<1>3. SumNeed(S \ T) \in Nat /\ SumNeed(T) \in Nat
  BY NeedNat
<1>4. Cardinality(T) <= Cardinality(S)
  BY <1>1, FS_Subset
<1> QED
  BY <1>2, <1>3, <1>4 DEF SumNeed

\* One more deployment needs what it needs.
LEMMA NeedMore ==
  ASSUME NEW S, S \subseteq Deps, NEW q \in Deps
  PROVE  SumNeed(S \cup {q}) <= SumNeed(S) + Need[q] /\ Cardinality(S \cup {q}) <= Cardinality(S) + 1
<1>1. IsFiniteSet(S) /\ Cardinality(S) \in Nat /\ SumNeed(S) \in Nat /\ Need[q] \in Nat
  BY NeedNat, PlacementAssumption
<1>2. Cardinality(S \cup {q}) <= Cardinality(S) + 1
  <2>1. Cardinality(S \cup {q}) = IF q \in S THEN Cardinality(S) ELSE Cardinality(S) + 1
    BY <1>1, FS_AddElement
  <2> QED
    BY <1>1, <2>1
<1>3. CASE q \in S
  <2>1. S \cup {q} = S
    BY <1>3
  <2>2. SumNeed(S \cup {q}) = SumNeed(S)
    BY <2>1
  <2> QED
    BY <1>1, <1>2, <2>2
<1>4. CASE q \notin S
  <2> DEFINE T == S \cup {q}
  <2>1. IsFiniteSet(T) /\ q \in T /\ T \ {q} = S /\ \A x \in T : Need[x] \in Nat
    BY <1>4, NeedNat, PlacementAssumption
  <2>2. SumFunctionOnSet(Need, T) = Need[q] + SumFunctionOnSet(Need, T \ {q})
    <3> HIDE DEF T
    <3> QED
      BY <2>1, SumTake
  <2> QED
    BY <1>1, <1>2, <2>1, <2>2 DEF SumNeed
<1> QED
  BY <1>3, <1>4

\* Static sites need nothing that is counted.
LEMMA NeedStatic ==
  ASSUME NEW S, S \subseteq Deps
  PROVE  SumNeed(S) = SumNeed(S \ Static)
<1>1. IsFiniteSet(S) /\ \A x \in S : Need[x] \in Nat
  BY NeedNat, PlacementAssumption
<1>2. S \cap Static \subseteq S /\ S \ (S \cap Static) = S \ Static
  OBVIOUS
<1>3. SumFunctionOnSet(Need, S) = SumFunctionOnSet(Need, S \cap Static) + SumFunctionOnSet(Need, S \ Static)
  BY <1>1, <1>2, SumSplit
<1>4. SumFunctionOnSet(Need, S \cap Static) = 0
  <2>1. IsFiniteSet(S \cap Static) /\ \A x \in S \cap Static : Need[x] = 0
    BY NeedNat, PlacementAssumption
  <2> QED
    BY <2>1, SumZero
<1>5. SumNeed(S \ Static) \in Nat
  BY NeedNat
<1> QED
  BY <1>3, <1>4, <1>5 DEF SumNeed

-----------------------------------------------------------------------------
(* What each kind of step keeps. *)

\* Nothing becomes live, and what stays live stays where it is.
FewerLive == \A d \in Deps : dep'[d].st \in Live => dep[d].st \in Live /\ dep'[d].node = dep[d].node

\* Then no node has more than it had, no two replicas meet, and every heartbeat still counts enough.
LEMMA FewerSound ==
  ASSUME PlaInv, FewerLive, hb' = hb
  PROVE  /\ \A n \in Nodes : LiveOn(n)' \subseteq LiveOn(n)
         /\ WithinCapacity' /\ SiblingsApart' /\ HbAlone' /\ Placed'
<1>1. \A n : LiveOn(n)' \subseteq LiveOn(n)
  BY DEF FewerLive, LiveOn
<1>2. WithinCapacity'
  <2> SUFFICES ASSUME NEW n \in Nodes
               PROVE  /\ Cardinality(LiveOn(n)' \cap Static) <= StaticSlots
                      /\ Cardinality(LiveOn(n)' \ Static) <= Slots
                      /\ SumNeed(LiveOn(n)') <= Size[n]
    BY DEF WithinCapacity, SumNeed
  <2> DEFINE old == LiveOn(n)
             new == LiveOn(n)'
  <2>1. new \subseteq old /\ old \subseteq Deps
    BY <1>1 DEF LiveOn
  <2>2. /\ Cardinality(old \cap Static) <= StaticSlots /\ Cardinality(old \ Static) <= Slots
        /\ SumNeed(old) <= Size[n]
    BY DEF PlaInv, WithinCapacity
  <2>3. StaticSlots \in Nat /\ Slots \in Nat /\ Size[n] \in Nat
    BY PlacementAssumption
  <2> HIDE DEF old, new
  <2>4. Cardinality(new \cap Static) <= Cardinality(old \cap Static)
    BY <2>1, NeedLess
  <2>5. Cardinality(new \ Static) <= Cardinality(old \ Static)
    BY <2>1, NeedLess
  <2>6. SumNeed(new) <= SumNeed(old)
    BY <2>1, NeedLess
  <2>7. /\ Cardinality(new \cap Static) \in Nat /\ Cardinality(old \cap Static) \in Nat
        /\ Cardinality(new \ Static) \in Nat /\ Cardinality(old \ Static) \in Nat
        /\ SumNeed(new) \in Nat /\ SumNeed(old) \in Nat
    BY <2>1, NeedNat
  <2>8. /\ Cardinality(new \cap Static) <= StaticSlots /\ Cardinality(new \ Static) <= Slots
        /\ SumNeed(new) <= Size[n]
    BY <2>2, <2>3, <2>4, <2>5, <2>6, <2>7
  <2> QED
    BY <2>8 DEF new
<1>3. SiblingsApart'
  BY DEF PlaInv, FewerLive, SiblingsApart
<1>4. HbAlone'
  BY DEF PlaInv, HbAlone
<1>5. Placed'
  <2> SUFFICES ASSUME NEW b \in Beats PROVE HbCounts(b)' /\ HbFits(b)'
    BY DEF Placed
  <2>1. HbCounts(b) /\ HbFits(b)
    BY DEF PlaInv, Placed
  <2>2. HbCounts(b)'
    BY <1>1, <2>1 DEF HbCounts, LoadPhase, Class
  <2>3. \A q, n : SiblingOn(q, n)' => SiblingOn(q, n)
    BY <1>1 DEF SiblingOn
  <2>4. HbFits(b)'
    BY <2>1, <2>3 DEF HbFits, LoadPhase, fits, Capacity, SumNeed
  <2> QED
    BY <2>2, <2>4
<1> QED
  BY <1>1, <1>2, <1>3, <1>4, <1>5

\* A heartbeat's own step changes nothing that is live.
LEMMA BeatSound ==
  ASSUME PlaInv, UNCHANGED <<dep, state, cron, admin, changes>>, NEW b \in Beats,
         NEW h \in [pc : {"idle"} \cup Reads \cup Works, node : Nodes \cup {None}, mine : SUBSET Deps, todo : SUBSET Deps],
         hb' = [hb EXCEPT ![b] = h],
         \A c \in Beats : c # b => h.node # hb[c].node \/ h.node = None,
         HbCounts(b)', HbFits(b)'
  PROVE  PlaInv'
<1>1. hb'[b] = h /\ \A c \in Beats : c # b => hb'[c] = hb[c]
  BY DEF PlaInv, PlaTypes, HbTypes
<1>2. PlaTypes'
  BY DEF PlaInv, PlaTypes, DepTypes, HbTypes, CronTypes, AdminTypes
<1>3. HbAlone'
  BY <1>1 DEF PlaInv, HbAlone
<1>4. Placed'
  <2> SUFFICES ASSUME NEW c \in Beats, c # b PROVE HbCounts(c)' /\ HbFits(c)'
    BY DEF Placed
  <2>1. HbCounts(c) /\ HbFits(c) /\ hb'[c] = hb[c]
    BY <1>1 DEF PlaInv, Placed
  <2> QED
    BY <2>1 DEF HbCounts, HbFits, LoadPhase, LiveOn, Class, fits, Capacity, SumNeed, SiblingOn
<1>5. AdminKnows' /\ WithinCapacity' /\ SiblingsApart' /\ SuspendedIsEmpty'
  BY ZenonT(60) DEF PlaInv, AdminKnows, WithinCapacity, SiblingsApart, SuspendedIsEmpty, LiveOn, SumNeed
<1> QED
  BY <1>2, <1>3, <1>4, <1>5 DEF PlaInv

-----------------------------------------------------------------------------
(* The steps of a heartbeat. *)

HbRecord == [pc : {"idle"} \cup Reads \cup Works, node : Nodes \cup {None}, mine : SUBSET Deps, todo : SUBSET Deps]

\* A heartbeat that begins is the only one of its node.
LEMMA BeatStep ==
  ASSUME ~Overlap, PlaInv, NEW b \in Beats, NEW n \in Nodes, Beat(b, n)
  PROVE  PlaInv'
<1> DEFINE h == [IdleHb EXCEPT !.pc = "static", !.node = n]
<1>1. hb' = [hb EXCEPT ![b] = h] /\ \A c \in Beats : hb[c].node # n
  BY DEF Beat
<1>2. h \in HbRecord /\ h.pc = "static" /\ h.node = n
  BY DEF IdleHb, HbRecord, Reads
<1>3. hb'[b] = h /\ n # None
  BY <1>1, PlacementAssumption DEF PlaInv, PlaTypes, HbTypes
<1> HIDE DEF h
<1>4. HbCounts(b)' /\ HbFits(b)'
  BY <1>2, <1>3 DEF HbCounts, HbFits, Works, Claims
<1>5. UNCHANGED <<dep, state, cron, admin, changes>>
  BY DEF Beat
<1>6. \A c \in Beats : c # b => h.node # hb[c].node \/ h.node = None
  BY <1>1, <1>2
<1> QED
  BY <1>1, <1>2, <1>4, <1>5, <1>6, BeatSound DEF HbRecord

\* After the last phase it is over, after the first the next begins.
LEMMA NextPhaseSound ==
  ASSUME PlaInv, UNCHANGED <<dep, state, cron, admin, changes>>, NEW b \in Beats,
         hb[b].pc # "idle", hb' = [hb EXCEPT ![b] = NextPhase(b)]
  PROVE  PlaInv'
<1> DEFINE h == NextPhase(b)
<1>1. hb[b] \in HbRecord /\ hb'[b] = h /\ hb[b].node # None
  BY DEF PlaInv, PlaTypes, HbTypes, HbRecord, Placed, HbCounts
<1>2. h.pc \in {"idle", "container"} /\ h \in HbRecord /\ h.node \in {None, hb[b].node}
      /\ (h.pc # "idle" => h.node # None)
  BY <1>1 DEF NextPhase, IdleHb, HbRecord, Reads
<1>3. HbCounts(b)' /\ HbFits(b)'
  BY <1>1, <1>2 DEF HbCounts, HbFits, Works, Claims
<1>4. \A c \in Beats : c # b => h.node # hb[c].node \/ h.node = None
  BY <1>1, <1>2 DEF PlaInv, HbAlone
<1> HIDE DEF h
<1> QED
  BY <1>1, <1>2, <1>3, <1>4, BeatSound DEF HbRecord, h

\* The load it reads is what is live on its node.
LEMMA ReadLoadStep ==
  ASSUME PlaInv, NEW b \in Beats, ReadLoad(b)
  PROVE  PlaInv'
<1>0. UNCHANGED <<dep, state, cron, admin, changes>> /\ hb[b].pc \in Reads /\ hb[b] \in HbRecord /\ hb[b].node # None
  BY DEF ReadLoad, PlaInv, PlaTypes, HbTypes, HbRecord, Reads, Placed, HbCounts
<1> DEFINE mine == LiveOn(hb[b].node) \cap Class(hb[b].pc)
           p == IF hb[b].pc = "static" THEN "staticList" ELSE "containerList"
           h == [hb[b] EXCEPT !.mine = mine, !.pc = p]
<1>1. CASE hb' = [hb EXCEPT ![b] = NextPhase(b)]
  BY <1>0, <1>1, NextPhaseSound DEF Reads
<1>2. CASE hb' = [hb EXCEPT ![b] = h]
  <2>1. mine \subseteq Deps
    BY DEF LiveOn
  <2>2. /\ h \in HbRecord /\ h.pc = p /\ h.mine = mine /\ h.node = hb[b].node
    <3> HIDE DEF mine
    <3> QED
      BY <1>0, <2>1 DEF HbRecord, Works
  <2>3. hb'[b] = h
    BY <1>2 DEF PlaInv, PlaTypes, HbTypes
  <2>4. mine \subseteq Class(hb[b].pc) /\ LiveOn(hb[b].node) \cap Class(hb[b].pc) \subseteq mine
    OBVIOUS
  <2> HIDE DEF h
  <2>5. LiveOn(hb[b].node)' = LiveOn(hb[b].node)
    BY <1>0, <2>2, <2>3 DEF LiveOn
  <2> HIDE DEF mine
  <2>7. HbCounts(b)' /\ HbFits(b)'
    BY <1>0, <2>2, <2>3, <2>4, <2>5 DEF HbCounts, HbFits, Works, Claims, LoadPhase, Class, Reads
  <2>8. \A c \in Beats : c # b => h.node # hb[c].node \/ h.node = None
    BY <1>0, <2>2 DEF PlaInv, HbAlone
  <2> QED
    BY <1>0, <1>2, <2>2, <2>7, <2>8, BeatSound DEF HbRecord
<1> QED
  BY <1>1, <1>2 DEF ReadLoad

\* The rows it lists are of the kind it is placing.
LEMMA ReadQueueStep ==
  ASSUME PlaInv, NEW b \in Beats, ReadQueue(b)
  PROVE  PlaInv'
<1>0. UNCHANGED <<dep, state, cron, admin, changes>> /\ hb[b].pc \in {"staticList", "containerList"}
      /\ hb[b] \in HbRecord /\ HbCounts(b) /\ hb[b].node # None
  BY DEF ReadQueue, PlaInv, PlaTypes, HbTypes, HbRecord, Placed, HbCounts
<1>1. PICK todo : todo = {q \in Queued \cap Serves[hb[b].node] :
                            dep[q].refused # hb[b].node /\ (q \in Static <=> hb[b].pc = "staticList")}
  OBVIOUS
<1> DEFINE p == IF hb[b].pc = "staticList" THEN "staticQueue" ELSE "containerQueue"
           h == [hb[b] EXCEPT !.todo = todo, !.pc = p]
<1>2. hb' = [hb EXCEPT ![b] = h]
  BY <1>1 DEF ReadQueue, PlaInv, PlaTypes, HbTypes
<1>3. todo \subseteq Class(LoadPhase(b)) /\ todo \subseteq Deps
  BY <1>0, <1>1 DEF Queued, Class, LoadPhase
<1>4. h \in HbRecord /\ h.pc = p /\ h.mine = hb[b].mine /\ h.node = hb[b].node /\ h.todo = todo
  BY <1>0, <1>3 DEF HbRecord, Works
<1>5. hb'[b] = h
  BY <1>2 DEF PlaInv, PlaTypes, HbTypes
<1> HIDE DEF h
<1>6. LoadPhase(b)' = LoadPhase(b) /\ LiveOn(hb[b].node)' = LiveOn(hb[b].node)
  BY <1>0, <1>4, <1>5 DEF LoadPhase, LiveOn
<1>7. HbCounts(b)' /\ HbFits(b)'
  BY <1>0, <1>3, <1>4, <1>5, <1>6 DEF HbCounts, HbFits, Works, Claims, Class
<1>8. \A c \in Beats : c # b => h.node # hb[c].node \/ h.node = None
  BY <1>0, <1>4 DEF PlaInv, HbAlone
<1> QED
  BY <1>0, <1>2, <1>4, <1>7, <1>8, BeatSound DEF HbRecord

\* It claims only what fits beside what it counted and has no sibling there.
LEMMA ConsiderStep ==
  ASSUME PlaInv, NEW b \in Beats, Consider(b)
  PROVE  PlaInv'
<1>0. UNCHANGED <<dep, state, cron, admin, changes>> /\ hb[b].pc \in {"staticQueue", "containerQueue"}
      /\ hb[b] \in HbRecord /\ HbCounts(b) /\ hb[b].node # None
  BY DEF Consider, PlaInv, PlaTypes, HbTypes, HbRecord, Placed, HbCounts
<1> DEFINE q == Min(hb[b].todo)
           n == hb[b].node
           takes == ~SiblingOn(q, n) /\ fits(q, n, hb[b].mine, Phase(b))
           p == IF hb[b].pc = "staticQueue" THEN "staticClaim" ELSE "containerClaim"
           t == [hb[b] EXCEPT !.pc = p]
           s == [hb[b] EXCEPT !.todo = @ \ {q}]
<1>1. CASE hb' = [hb EXCEPT ![b] = NextPhase(b)]
  BY <1>0, <1>1, NextPhaseSound
<1>2. CASE hb[b].todo # {} /\ takes /\ hb' = [hb EXCEPT ![b] = t]
  <2>1. hb'[b] = t
    BY <1>2 DEF PlaInv, PlaTypes, HbTypes
  <2>2. t \in HbRecord /\ t.pc = p /\ t.mine = hb[b].mine /\ t.node = n /\ t.todo = hb[b].todo
    BY <1>0 DEF HbRecord, Works
  <2> HIDE DEF t
  <2>3. LoadPhase(b)' = LoadPhase(b) /\ LiveOn(n)' = LiveOn(n) /\ LoadPhase(b) = Phase(b)
    BY <1>0, <2>1, <2>2 DEF LoadPhase, LiveOn, Phase
  <2>4. HbCounts(b)'
    BY <1>0, <2>1, <2>2, <2>3 DEF HbCounts, Works, Claims, Class
  <2>5. \A x, m : SiblingOn(x, m)' = SiblingOn(x, m)
    BY <1>0 DEF SiblingOn, LiveOn
  <2>6. HbFits(b)'
    <3>1. PICK x, m : x = q /\ m = n
      OBVIOUS
    <3>2. hb'[b].todo # {} /\ Min(hb'[b].todo) = x /\ hb'[b].node = m /\ hb'[b].mine = hb[b].mine
      BY <1>2, <2>1, <2>2, <3>1
    <3>3. fits(x, m, hb'[b].mine, LoadPhase(b)') /\ ~SiblingOn(x, m)'
      BY <1>2, <2>3, <2>5, <3>1, <3>2
    <3> HIDE DEF q, n
    <3> QED
      BY <3>2, <3>3 DEF HbFits, fits, Capacity, SumNeed, SiblingOn, LiveOn
  <2>7. \A c \in Beats : c # b => t.node # hb[c].node \/ t.node = None
    BY <1>0, <2>2 DEF PlaInv, HbAlone
  <2> QED
    BY <1>0, <1>2, <2>2, <2>4, <2>6, <2>7, BeatSound DEF HbRecord
<1>3. CASE hb' = [hb EXCEPT ![b] = s]
  <2>1. hb'[b] = s
    BY <1>3 DEF PlaInv, PlaTypes, HbTypes
  <2>2. s \in HbRecord /\ s.pc = hb[b].pc /\ s.mine = hb[b].mine /\ s.node = n /\ s.todo \subseteq hb[b].todo
    BY <1>0 DEF HbRecord
  <2> HIDE DEF s
  <2>3. LoadPhase(b)' = LoadPhase(b) /\ LiveOn(n)' = LiveOn(n)
    BY <1>0, <2>1, <2>2 DEF LoadPhase, LiveOn
  <2>4. HbCounts(b)' /\ HbFits(b)'
    BY <1>0, <2>1, <2>2, <2>3 DEF HbCounts, HbFits, Works, Claims, Class
  <2>7. \A c \in Beats : c # b => s.node # hb[c].node \/ s.node = None
    BY <1>0, <2>2 DEF PlaInv, HbAlone
  <2> QED
    BY <1>0, <1>3, <2>2, <2>4, <2>7, BeatSound DEF HbRecord
<1>4. \/ hb' = [hb EXCEPT ![b] = NextPhase(b)]
      \/ hb[b].todo # {} /\ takes /\ hb' = [hb EXCEPT ![b] = t]
      \/ hb' = [hb EXCEPT ![b] = s]
  BY DEF Consider, PlaInv, PlaTypes, HbTypes
<1> QED
  BY <1>1, <1>2, <1>3, <1>4

\* What fits beside all that is live of its kind keeps the node within its capacity.
LEMMA FitsWithin ==
  ASSUME NEW n \in Nodes, NEW L, L \subseteq Deps, NEW mine, mine \subseteq Deps, NEW q \in Deps,
         NEW phase \in {"static", "container"}, q \in Class(phase), L \cap Class(phase) \subseteq mine,
         fits(q, n, mine, phase),
         Cardinality(L \cap Static) <= StaticSlots, Cardinality(L \ Static) <= Slots, SumNeed(L) <= Size[n]
  PROVE  LET new == L \cup {q}
         IN  Cardinality(new \cap Static) <= StaticSlots /\ Cardinality(new \ Static) <= Slots /\ SumNeed(new) <= Size[n]
<1> DEFINE new == L \cup {q}
           all_mine == mine \cup {q}
<1>0. Slots \in Nat /\ StaticSlots \in Nat /\ Size[n] \in Nat /\ Need[q] \in Nat /\ Static \subseteq Deps
  BY PlacementAssumption
<1>1. /\ Cardinality(mine) < Capacity(phase) /\ SumNeed(mine) + Need[q] <= Size[n]
      /\ Cardinality(mine) \in Nat /\ SumNeed(mine) \in Nat
  BY NeedNat DEF fits
<1>2. /\ Cardinality(all_mine) <= Cardinality(mine) + 1 /\ SumNeed(all_mine) <= SumNeed(mine) + Need[q]
      /\ Cardinality(all_mine) \in Nat /\ SumNeed(all_mine) \in Nat /\ all_mine \subseteq Deps
  BY NeedMore, NeedNat
<1>3. new \subseteq Deps /\ SumNeed(new) = SumNeed(new \ Static) /\ SumNeed(L) = SumNeed(L \ Static)
  <2>1. new \subseteq Deps
    OBVIOUS
  <2> HIDE DEF new
  <2> QED
    BY <2>1, NeedStatic
<1>4. CASE phase = "static"
  <2>1. new \cap Static \subseteq all_mine /\ new \ Static = L \ Static
    BY <1>4 DEF Class
  <2> HIDE DEF new, all_mine
  <2>2. Cardinality(new \cap Static) <= Cardinality(all_mine) /\ Cardinality(new \cap Static) \in Nat
    BY <1>2, <1>3, <2>1, NeedLess, NeedNat
  <2>3. Cardinality(new \cap Static) <= StaticSlots
    BY <1>0, <1>1, <1>2, <1>4, <2>2 DEF Capacity
  <2>4. SumNeed(new) = SumNeed(L) /\ Cardinality(new \ Static) <= Slots
    BY <1>3, <2>1
  <2> QED
    BY <2>3, <2>4 DEF new
<1>5. CASE phase = "container"
  <2>1. new \ Static \subseteq all_mine /\ new \cap Static = L \cap Static
    BY <1>5 DEF Class
  <2> HIDE DEF new, all_mine
  <2>2. /\ Cardinality(new \ Static) <= Cardinality(all_mine) /\ Cardinality(new \ Static) \in Nat
        /\ SumNeed(new \ Static) <= SumNeed(all_mine) /\ SumNeed(new \ Static) \in Nat
    BY <1>2, <1>3, <2>1, NeedLess, NeedNat
  <2>3. Cardinality(new \ Static) <= Slots
    BY <1>0, <1>1, <1>2, <1>5, <2>2 DEF Capacity
  <2>4. SumNeed(new) <= Size[n]
    <3>1. SumNeed(new) \in Nat /\ SumNeed(new) <= SumNeed(all_mine)
      BY <1>3, <2>2
    <3> QED
      BY <1>0, <1>1, <1>2, <3>1
  <2>5. Cardinality(new \cap Static) <= StaticSlots
    BY <2>1
  <2> QED
    BY <2>3, <2>4, <2>5 DEF new
<1> QED
  BY <1>4, <1>5

\* A claim that is lost leaves the row to whoever has it.
LEMMA ClaimLost ==
  ASSUME PlaInv, NEW b \in Beats, claim(b), ~MayClaim(Min(hb[b].todo), hb[b].node)
  PROVE  PlaInv'
<1> DEFINE q == Min(hb[b].todo)
           p == IF hb[b].pc = "staticClaim" THEN "staticQueue" ELSE "containerQueue"
           h == [hb[b] EXCEPT !.todo = @ \ {q}, !.pc = p]
<1>0. UNCHANGED <<dep, state, cron, admin, changes>> /\ hb[b].pc \in Claims
      /\ hb[b] \in HbRecord /\ HbCounts(b) /\ hb[b].node # None
  BY DEF claim, PlaInv, PlaTypes, HbTypes, HbRecord, Placed, HbCounts, Claims
<1>1. h \in HbRecord /\ h.pc = p /\ h.mine = hb[b].mine /\ h.node = hb[b].node /\ h.todo = hb[b].todo \ {q}
  BY <1>0 DEF HbRecord, Works
<1>2. [hb[b] EXCEPT !.mine = hb[b].mine, !.todo = @ \ {q}, !.pc = p] = h
  BY <1>0 DEF HbRecord
<1>3. hb' = [hb EXCEPT ![b] = [hb[b] EXCEPT !.mine = hb[b].mine, !.todo = @ \ {q}, !.pc = p]]
  BY DEF claim, PlaInv, PlaTypes, HbTypes
<1>4. hb' = [hb EXCEPT ![b] = h] /\ hb'[b] = h
  BY <1>2, <1>3 DEF PlaInv, PlaTypes, HbTypes
<1> HIDE DEF h
<1>5. LoadPhase(b)' = LoadPhase(b) /\ LiveOn(hb[b].node)' = LiveOn(hb[b].node)
  BY <1>0, <1>1, <1>4 DEF LoadPhase, LiveOn, Claims
<1>6. HbCounts(b)' /\ HbFits(b)'
  BY <1>0, <1>1, <1>4, <1>5 DEF HbCounts, HbFits, Works, Claims, Class
<1>7. \A c \in Beats : c # b => h.node # hb[c].node \/ h.node = None
  BY <1>0, <1>1 DEF PlaInv, HbAlone
<1> QED
  BY <1>0, <1>1, <1>4, <1>6, <1>7, BeatSound DEF HbRecord

\* A claim that is won makes one row live on the heartbeat's node, and nothing anywhere else.
LEMMA ClaimWon ==
  ASSUME PlaInv, NEW b \in Beats, claim(b), MayClaim(Min(hb[b].todo), hb[b].node)
  PROVE  PlaInv'
<1>1. PICK q, n : q = Min(hb[b].todo) /\ n = hb[b].node
  OBVIOUS
<1> DEFINE p == IF hb[b].pc = "staticClaim" THEN "staticQueue" ELSE "containerQueue"
           h == [hb[b] EXCEPT !.mine = @ \cup {q}, !.todo = @ \ {q}, !.pc = p]
           phase == LoadPhase(b)
<1>2. /\ UNCHANGED <<state, cron, admin, changes>> /\ hb[b].pc \in Claims
      /\ hb[b] \in HbRecord /\ HbCounts(b) /\ HbFits(b) /\ n \in Nodes /\ n # None
  BY <1>1 DEF claim, PlaInv, PlaTypes, HbTypes, HbRecord, Placed, HbCounts, Claims
<1>3. q \in hb[b].todo /\ q \in Deps /\ q \in Class(phase) /\ fits(q, n, hb[b].mine, phase) /\ ~SiblingOn(q, n)
  BY <1>1, <1>2, MinIn DEF HbFits, HbCounts, HbRecord
<1>4. dep[q].st = "queued" /\ state[n] = "active" /\ dep' = [dep EXCEPT ![q].st = "assigned", ![q].node = n]
  BY <1>1 DEF claim, MayClaim
<1>5. /\ dep'[q].st = "assigned" /\ dep'[q].node = n /\ \A d \in Deps : d # q => dep'[d] = dep[d]
      /\ DepTypes'
  BY <1>2, <1>3, <1>4, ZenonT(60) DEF PlaInv, PlaTypes, DepTypes, PlaStatus, Live
<1>6. \A m : LiveOn(m)' = IF m = n THEN LiveOn(n) \cup {q} ELSE LiveOn(m)
  BY <1>3, <1>4, <1>5, ZenonT(60) DEF LiveOn, Live
<1>7. hb'[b].pc = p /\ hb'[b].mine = hb[b].mine \cup {q} /\ hb'[b].node = n /\ hb'[b].todo = hb[b].todo \ {q}
      /\ hb' \in [Beats -> HbRecord] /\ \A c \in Beats : c # b => hb'[c] = hb[c]
  <2>1. hb' = [hb EXCEPT ![b] = h]
    BY <1>1 DEF claim, PlaInv, PlaTypes, HbTypes
  <2>2. h \in HbRecord /\ h.pc = p /\ h.mine = hb[b].mine \cup {q} /\ h.node = n /\ h.todo = hb[b].todo \ {q}
    BY <1>1, <1>2, <1>3 DEF HbRecord, Works
  <2> HIDE DEF h
  <2> QED
    BY <2>1, <2>2 DEF PlaInv, PlaTypes, HbTypes, HbRecord
<1>8. PlaTypes'
  <2>1. HbTypes' /\ CronTypes' /\ AdminTypes'
    BY <1>2, <1>7 DEF PlaInv, PlaTypes, HbTypes, HbRecord, CronTypes, AdminTypes
  <2>2. \A d \in Deps : dep'[d].st \in Live => dep'[d].node # None
    BY <1>2, <1>5 DEF PlaInv, PlaTypes
  <2> QED
    BY <1>2, <1>5, <2>1, <2>2 DEF PlaInv, PlaTypes
<1>9. HbAlone'
  BY <1>1, <1>7 DEF PlaInv, HbAlone
<1>10. Placed'
  <2>1. HbCounts(b)' /\ HbFits(b)'
    <3>1. LoadPhase(b)' = phase
      BY <1>2, <1>7 DEF LoadPhase, Claims
    <3>2. hb[b].mine \subseteq Class(phase) /\ LiveOn(n) \cap Class(phase) \subseteq hb[b].mine
          /\ hb[b].todo \subseteq Class(phase)
      BY <1>1, <1>2 DEF HbCounts, Works, Claims
    <3>3. LiveOn(n)' = LiveOn(n) \cup {q}
      BY <1>6
    <3> HIDE DEF phase
    <3> QED
      BY <1>2, <1>3, <1>7, <3>1, <3>2, <3>3 DEF HbCounts, HbFits, Works, Claims, Class
  <2>2. ASSUME NEW c \in Beats, c # b PROVE HbCounts(c)' /\ HbFits(c)'
    <3>1. HbCounts(c) /\ HbFits(c) /\ hb'[c] = hb[c] /\ hb[c].node # n
      BY <1>1, <1>2, <1>7, <2>2 DEF PlaInv, Placed, HbAlone
    <3>2. LoadPhase(c)' = LoadPhase(c)
      BY <3>1 DEF LoadPhase
    <3>3. PICK m : m = hb[c].node
      OBVIOUS
    <3>4. LiveOn(m)' = LiveOn(m) /\ \A x : SiblingOn(x, m)' = SiblingOn(x, m)
      BY <1>6, <3>1, <3>3 DEF SiblingOn
    <3>5. HbCounts(c)'
      BY <3>1, <3>2, <3>3, <3>4 DEF HbCounts, Class
    <3>6. HbFits(c)'
      BY <3>1, <3>2, <3>3, <3>4 DEF HbFits, fits, Capacity, SumNeed
    <3> QED
      BY <3>5, <3>6
  <2> QED
    BY <2>1, <2>2 DEF Placed
<1>11. WithinCapacity'
  <2> SUFFICES ASSUME NEW m \in Nodes
               PROVE  /\ Cardinality(LiveOn(m)' \cap Static) <= StaticSlots
                      /\ Cardinality(LiveOn(m)' \ Static) <= Slots
                      /\ SumNeed(LiveOn(m)') <= Size[m]
    BY DEF WithinCapacity, SumNeed
  <2>1. /\ Cardinality(LiveOn(m) \cap Static) <= StaticSlots /\ Cardinality(LiveOn(m) \ Static) <= Slots
        /\ SumNeed(LiveOn(m)) <= Size[m]
    BY DEF PlaInv, WithinCapacity
  <2>2. CASE m # n
    BY <1>6, <2>1, <2>2
  <2>3. CASE m = n
    <3>1. LiveOn(n) \subseteq Deps /\ hb[b].mine \subseteq Deps /\ LiveOn(n) \cap Class(phase) \subseteq hb[b].mine
          /\ phase \in {"static", "container"}
      BY <1>1, <1>2 DEF LiveOn, HbRecord, HbCounts, Works, Claims, LoadPhase
    <3>2. PICK L, mine : L = LiveOn(n) /\ mine = hb[b].mine
      OBVIOUS
    <3>3. LiveOn(m)' = L \cup {q}
      BY <1>6, <2>3, <3>2
    <3> HIDE DEF phase
    <3>5. /\ L \subseteq Deps /\ mine \subseteq Deps /\ L \cap Class(phase) \subseteq mine /\ fits(q, n, mine, phase)
          /\ Cardinality(L \cap Static) <= StaticSlots /\ Cardinality(L \ Static) <= Slots /\ SumNeed(L) <= Size[n]
      BY <1>3, <2>1, <2>3, <3>1, <3>2
    <3>4. LET new == L \cup {q}
          IN  Cardinality(new \cap Static) <= StaticSlots /\ Cardinality(new \ Static) <= Slots /\ SumNeed(new) <= Size[n]
      BY <1>2, <1>3, <3>1, <3>5, FitsWithin
    <3> QED
      BY <2>3, <3>3, <3>4
  <2> QED
    BY <2>2, <2>3
<1>12. SiblingsApart'
  <2>1. \A d \in LiveOn(n) : Parent[q] # None => Parent[d] # Parent[q]
    BY <1>3 DEF SiblingOn
  <2>2. SiblingsApart
    BY DEF PlaInv
  <2> QED
    BY <1>3, <1>5, <2>1, <2>2 DEF SiblingsApart, LiveOn
<1>13. SuspendedIsEmpty'
  BY <1>2, <1>4, <1>6 DEF PlaInv, SuspendedIsEmpty
<1>14. AdminKnows'
  <2>1. admin.node # None => admin.node # n
    BY <1>4 DEF PlaInv, AdminKnows
  <2>2. PICK m : m = admin.node
    OBVIOUS
  <2>3. m # None => LiveOn(m)' = LiveOn(m) /\ \A d \in LiveOn(m) : dep'[d] = dep[d]
    BY <1>4, <1>5, <1>6, <2>1, <2>2, ZenonT(60) DEF LiveOn, Live
  <2> QED
    BY <1>2, <2>2, <2>3 DEF PlaInv, AdminKnows
<1> QED
  BY <1>8, <1>9, <1>10, <1>11, <1>12, <1>13, <1>14 DEF PlaInv

-----------------------------------------------------------------------------
(* The steps of the cron, of the nodes' reports and of the operator. *)

\* A list the cron makes names deployments and nodes.
LEMMA CronStep ==
  ASSUME PlaInv, PreemptQueue \/ PreemptNodes \/ PreemptLive \/ PreemptNext
  PROVE  PlaInv'
<1>1. UNCHANGED <<dep, state, hb, admin, changes>>
  BY DEF PreemptQueue, PreemptNodes, PreemptLive, PreemptNext
<1>2. /\ cron \in [pc : {"idle", "nodes", "live", "loop", "end"}, todo : SUBSET Deps, at : [Deps -> Nodes \cup {None}],
                   was : [Deps -> PlaStatus], nodes : SUBSET Nodes, victim : Deps \cup {None}]
      /\ dep \in [Deps -> [st : PlaStatus, node : Nodes \cup {None}, refused : Nodes \cup {None}]]
  BY DEF PlaInv, PlaTypes, CronTypes, DepTypes
<1>3. CronTypes'
  <2>1. CASE PreemptQueue
    <3>1. Queued \cap OnDemand \subseteq Deps
      BY DEF Queued
    <3> QED
      BY <2>1, <3>1 DEF PreemptQueue, IdleCron, CronTypes, PlaStatus
  <2>2. CASE PreemptNodes
    BY <1>2, <2>2 DEF PreemptNodes, CronTypes
  <2>3. CASE PreemptLive
    <3>1. PICK was, at : /\ was = [d \in Deps |-> dep[d].st]
                         /\ at = [d \in Deps |-> IF dep[d].st \in Live /\ d \notin Static THEN dep[d].node ELSE None]
      OBVIOUS
    <3>2. was \in [Deps -> PlaStatus] /\ at \in [Deps -> Nodes \cup {None}]
      BY <1>2, <3>1
    <3>3. cron' = [cron EXCEPT !.pc = "loop", !.was = was, !.at = at]
      BY <2>3, <3>1 DEF PreemptLive
    <3>4. /\ DOMAIN cron' = {"pc", "todo", "at", "was", "nodes", "victim"} /\ cron' = [x \in DOMAIN cron' |-> cron'[x]]
          /\ cron'.pc = "loop" /\ cron'.was = was /\ cron'.at = at /\ cron'.todo = cron.todo
          /\ cron'.nodes = cron.nodes /\ cron'.victim = cron.victim
      BY <1>2, <3>3
    <3> QED
      BY <1>2, <3>2, <3>4 DEF CronTypes
  <2>4. CASE PreemptNext
    <3>1. PICK q : q = Min(cron.todo)
      OBVIOUS
    <3>2. CASE cron.todo = {} /\ cron' = IdleCron
      BY <3>2 DEF IdleCron, CronTypes, PlaStatus
    <3>3. ASSUME NEW n \in Roomy(q), cron.pc = "loop", cron' = [cron EXCEPT !.at[q] = n, !.todo = @ \ {q}]
          PROVE  CronTypes'
      <4>1. n \in Nodes
        BY <1>2 DEF Roomy
      <4> QED
        BY <1>2, <3>3, <4>1 DEF CronTypes
    <3>4. ASSUME NEW v \in Victims(q), cron' = [cron EXCEPT !.victim = v, !.pc = "end"]
          PROVE  CronTypes'
      <4>1. v \in Deps
        BY PlacementAssumption DEF Victims
      <4> QED
        BY <1>2, <3>4, <4>1 DEF CronTypes
    <3>5. CASE cron.pc = "loop" /\ cron' = [cron EXCEPT !.todo = @ \ {q}]
      BY <1>2, <3>5 DEF CronTypes
    <3> QED
      BY <2>4, <3>1, <3>2, <3>3, <3>4, <3>5 DEF PreemptNext
  <2> QED
    BY <2>1, <2>2, <2>3, <2>4
<1>4. PlaTypes'
  BY <1>1, <1>3 DEF PlaInv, PlaTypes, DepTypes, HbTypes, AdminTypes
<1>5. FewerLive
  BY <1>1 DEF FewerLive
<1>6. AdminKnows' /\ SuspendedIsEmpty'
  BY <1>1 DEF PlaInv, AdminKnows, SuspendedIsEmpty, LiveOn
<1> QED
  BY <1>1, <1>4, <1>5, <1>6, FewerSound DEF PlaInv

\* One row leaves its node, or starts to run there.
LEMMA RowSound ==
  ASSUME PlaInv, NEW d \in Deps, UNCHANGED <<state, hb, admin>>, CronTypes', changes' \in 0..MaxChanges,
         DepTypes', \A e \in Deps : e # d => dep'[e] = dep[e],
         dep'[d].st \in Live => dep[d].st \in Live /\ dep'[d].node = dep[d].node,
         \/ dep'[d].st \notin Live
         \/ admin.node = None
  PROVE  PlaInv'
<1>1. FewerLive
  BY DEF FewerLive
<1>2. PlaTypes'
  <2>1. \A e \in Deps : dep'[e].st \in Live => dep'[e].node # None
    BY DEF PlaInv, PlaTypes
  <2> QED
    BY <2>1 DEF PlaInv, PlaTypes, HbTypes, AdminTypes
<1>3. /\ \A n \in Nodes : LiveOn(n)' \subseteq LiveOn(n)
      /\ WithinCapacity' /\ SiblingsApart' /\ HbAlone' /\ Placed'
  BY <1>1, FewerSound
<1>4. SuspendedIsEmpty'
  BY <1>3 DEF PlaInv, SuspendedIsEmpty
<1>5. AdminKnows'
  <2>1. PICK m : m = admin.node
    OBVIOUS
  <2>2. m # None => \A e \in LiveOn(m)' : e \in LiveOn(m) /\ dep'[e] = dep[e]
    BY <2>1 DEF LiveOn
  <2> QED
    BY <2>1, <2>2 DEF PlaInv, AdminKnows
<1> QED
  BY <1>2, <1>3, <1>4, <1>5 DEF PlaInv

\* The victim ends.
LEMMA PreemptEndStep ==
  ASSUME PlaInv, PreemptEnd
  PROVE  PlaInv'
<1>1. PICK v, q, n : v = cron.victim /\ q = Min(cron.todo) /\ n = cron.at[cron.victim]
  OBVIOUS
<1>2. /\ cron \in [pc : {"idle", "nodes", "live", "loop", "end"}, todo : SUBSET Deps, at : [Deps -> Nodes \cup {None}],
                   was : [Deps -> PlaStatus], nodes : SUBSET Nodes, victim : Deps \cup {None}]
      /\ dep \in [Deps -> [st : PlaStatus, node : Nodes \cup {None}, refused : Nodes \cup {None}]]
      /\ v \in Deps /\ n \in Nodes \cup {None}
  BY <1>1 DEF PreemptEnd, PlaInv, PlaTypes, CronTypes, DepTypes
<1>3. UNCHANGED <<state, hb, admin, changes>>
  BY DEF PreemptEnd
<1>4. CASE /\ dep' = [dep EXCEPT ![v].st = "ended"]
           /\ cron' = [cron EXCEPT !.pc = "loop", !.victim = None, !.todo = @ \ {q}, !.at[v] = None, !.at[q] = n]
  <2>1. PICK at : at = [[cron.at EXCEPT ![v] = None] EXCEPT ![q] = n]
    OBVIOUS
  <2>2. at \in [Deps -> Nodes \cup {None}]
    BY <1>2, <2>1
  <2>3. /\ DOMAIN cron' = {"pc", "todo", "at", "was", "nodes", "victim"} /\ cron' = [x \in DOMAIN cron' |-> cron'[x]]
        /\ cron'.pc = "loop" /\ cron'.was = cron.was /\ cron'.at = at /\ cron'.todo = cron.todo \ {q}
        /\ cron'.nodes = cron.nodes /\ cron'.victim = None
    BY <1>2, <1>4, <2>1
  <2>4. CronTypes'
    BY <1>2, <2>2, <2>3 DEF CronTypes
  <2>5. DepTypes' /\ dep'[v].st = "ended" /\ \A e \in Deps : e # v => dep'[e] = dep[e]
    BY <1>2, <1>4 DEF DepTypes, PlaStatus
  <2>6. changes' \in 0..MaxChanges
    BY <1>3 DEF PlaInv, PlaTypes
  <2> QED
    BY <1>2, <1>3, <2>4, <2>5, <2>6, RowSound DEF Live
<1>5. CASE UNCHANGED dep /\ cron' = [cron EXCEPT !.pc = "loop", !.victim = None, !.todo = @ \ {q}]
  <2>1. /\ DOMAIN cron' = {"pc", "todo", "at", "was", "nodes", "victim"} /\ cron' = [x \in DOMAIN cron' |-> cron'[x]]
        /\ cron'.pc = "loop" /\ cron'.was = cron.was /\ cron'.at = cron.at /\ cron'.todo = cron.todo \ {q}
        /\ cron'.nodes = cron.nodes /\ cron'.victim = None
    BY <1>2, <1>5
  <2>2. CronTypes'
    BY <1>2, <2>1 DEF CronTypes
  <2>3. FewerLive
    BY <1>5 DEF FewerLive
  <2>4. PlaTypes' /\ AdminKnows' /\ SuspendedIsEmpty'
    BY <1>3, <1>5, <2>2 DEF PlaInv, PlaTypes, DepTypes, HbTypes, AdminTypes, AdminKnows, SuspendedIsEmpty, LiveOn
  <2> QED
    BY <1>3, <2>3, <2>4, FewerSound DEF PlaInv
<1> QED
  BY <1>1, <1>4, <1>5 DEF PreemptEnd

\* A report: it runs, it ended, or it is queued again.
LEMMA ReportStep ==
  ASSUME ~Reports, PlaInv, NEW d \in Deps, ReportRunning(d) \/ ReportEnded(d) \/ Requeue(d)
  PROVE  PlaInv'
<1>1. /\ dep \in [Deps -> [st : PlaStatus, node : Nodes \cup {None}, refused : Nodes \cup {None}]]
      /\ CronTypes /\ changes \in 0..MaxChanges /\ MaxChanges \in Nat
  BY PlacementAssumption DEF PlaInv, PlaTypes, DepTypes
<1>2. UNCHANGED <<state, hb, cron, admin>> /\ CronTypes' /\ changes' \in 0..MaxChanges
  BY <1>1 DEF ReportRunning, ReportEnded, Requeue, CronTypes
<1>3. CASE ReportRunning(d)
  <2>1. /\ DepTypes' /\ dep[d].st \in Live /\ dep'[d].st = "running" /\ dep'[d].node = dep[d].node
        /\ \A e \in Deps : e # d => dep'[e] = dep[e]
    BY <1>1, <1>3 DEF ReportRunning, DepTypes, PlaStatus, Live
  <2>2. admin.node = None
    BY <1>3 DEF ReportRunning
  <2> QED
    BY <1>2, <2>1, <2>2, RowSound
<1>4. CASE ReportEnded(d)
  <2>1. /\ DepTypes' /\ dep'[d].st \notin Live /\ \A e \in Deps : e # d => dep'[e] = dep[e]
    BY <1>1, <1>4 DEF ReportEnded, DepTypes, PlaStatus, Live
  <2> QED
    BY <1>2, <2>1, RowSound
<1>5. CASE Requeue(d)
  <2>1. PICK refused \in {None, dep[d].node} :
          dep' = [dep EXCEPT ![d] = [st |-> "queued", node |-> None, refused |-> refused]]
    BY <1>5 DEF Requeue
  <2>2. /\ DepTypes' /\ dep'[d].st \notin Live /\ \A e \in Deps : e # d => dep'[e] = dep[e]
    BY <1>1, <2>1 DEF DepTypes, PlaStatus, Live
  <2> QED
    BY <1>2, <2>2, RowSound
<1> QED
  BY <1>3, <1>4, <1>5

\* A drain or a lifted suspension leaves every row where it is.
LEMMA StateStep ==
  ASSUME PlaInv, NEW n \in Nodes, Drain(n) \/ Suspend(n) \/ Unsuspend(n)
  PROVE  PlaInv'
<1>1. UNCHANGED <<dep, hb, cron>> /\ changes' \in 0..MaxChanges /\ n # None
  BY PlacementAssumption DEF Drain, Suspend, Unsuspend, PlaInv, PlaTypes
<1>2. FewerLive
  BY <1>1 DEF FewerLive
<1>3. \A m : LiveOn(m)' = LiveOn(m)
  BY <1>1 DEF LiveOn
<1>4. state \in [Nodes -> {"active", "draining", "suspended"}] /\ SuspendedIsEmpty /\ AdminKnows /\ AdminTypes
  BY DEF PlaInv, PlaTypes
<1>5. CASE Drain(n) \/ Unsuspend(n)
  <2>1. admin' = admin /\ (state[n] = "suspended" => admin.node # n) /\ \A m \in Nodes : m # n => state'[m] = state[m]
    BY <1>4, <1>5 DEF Drain, Unsuspend
  <2>2. state' \in [Nodes -> {"active", "draining", "suspended"}] /\ state'[n] # "suspended"
    BY <1>4, <1>5 DEF Drain, Unsuspend
  <2>3. PlaTypes'
    BY <1>1, <2>1, <2>2 DEF PlaInv, PlaTypes, DepTypes, HbTypes, CronTypes, AdminTypes
  <2>4. SuspendedIsEmpty'
    BY <1>3, <1>4, <2>1, <2>2 DEF SuspendedIsEmpty
  <2>5. AdminKnows'
    <3>1. admin.node # None => admin.node \in Nodes /\ admin.node # n
      BY <1>4, <2>1, <1>5 DEF AdminTypes, AdminKnows, Drain, Unsuspend
    <3>2. PICK m : m = admin.node
      OBVIOUS
    <3> QED
      BY <1>1, <1>3, <1>4, <2>1, <3>1, <3>2 DEF AdminKnows
  <2> QED
    BY <1>1, <1>2, <2>3, <2>4, <2>5, FewerSound DEF PlaInv
<1>6. CASE Suspend(n)
  <2>1. /\ admin.node = None /\ state' = [state EXCEPT ![n] = "suspended"]
        /\ admin' = [IdleAdmin EXCEPT !.node = n, !.todo = {None}]
    BY <1>6 DEF Suspend
  <2>2. admin'.node = n /\ admin'.todo = {None} /\ AdminTypes'
    <3>1. IdleAdmin \in [node : {None}, todo : {{}}, was : [Deps -> PlaStatus]]
      BY DEF IdleAdmin, PlaStatus
    <3>2. /\ DOMAIN admin' = {"node", "todo", "was"} /\ admin' = [x \in DOMAIN admin' |-> admin'[x]]
          /\ admin'.node = n /\ admin'.todo = {None} /\ admin'.was = IdleAdmin.was
      BY <2>1, <3>1
    <3>3. admin'.was \in [Deps -> PlaStatus] /\ {None} \in {{None}} \cup SUBSET Deps
      BY <3>1, <3>2
    <3> QED
      BY <3>2, <3>3 DEF AdminTypes
  <2>3. /\ state' \in [Nodes -> {"active", "draining", "suspended"}] /\ state'[n] = "suspended"
        /\ \A m \in Nodes : m # n => state'[m] = state[m]
    BY <1>4, <2>1
  <2>4. PlaTypes'
    BY <1>1, <2>2, <2>3 DEF PlaInv, PlaTypes, DepTypes, HbTypes, CronTypes
  <2>5. SuspendedIsEmpty'
    BY <1>3, <1>4, <2>1, <2>2, <2>3, PlacementAssumption DEF SuspendedIsEmpty
  <2>6. AdminKnows'
    BY <1>1, <2>2, <2>3 DEF AdminKnows
  <2> QED
    BY <1>1, <1>2, <2>4, <2>5, <2>6, FewerSound DEF PlaInv
<1> QED
  BY <1>5, <1>6

\* The rows a suspension reads are all that is live on its node.
LEMMA SuspendReadStep ==
  ASSUME PlaInv, SuspendRead
  PROVE  PlaInv'
<1>1. UNCHANGED <<dep, state, hb, cron, changes>> /\ admin.todo = {None}
  BY DEF SuspendRead
<1>2. /\ admin \in [node : Nodes \cup {None}, todo : {{None}} \cup SUBSET Deps, was : [Deps -> PlaStatus]]
      /\ AdminKnows /\ SuspendedIsEmpty
      /\ dep \in [Deps -> [st : PlaStatus, node : Nodes \cup {None}, refused : Nodes \cup {None}]]
  BY DEF PlaInv, PlaTypes, AdminTypes, DepTypes
<1>3. PICK n, rows : n = admin.node /\ rows = LiveOn(n)
  OBVIOUS
<1>4. n # None /\ n \in Nodes /\ state[n] = "suspended" /\ rows \subseteq Deps /\ None \notin Deps
  BY <1>1, <1>2, <1>3, PlacementAssumption DEF AdminKnows, LiveOn
<1>5. FewerLive /\ \A m : LiveOn(m)' = LiveOn(m)
  BY <1>1 DEF FewerLive, LiveOn
<1>6. PICK was : was = [d \in Deps |-> IF d \in rows THEN dep[d].st ELSE "queued"]
  OBVIOUS
<1>7. was \in [Deps -> PlaStatus]
  BY <1>2, <1>6 DEF PlaStatus
<1>8. CASE rows = {} /\ admin' = IdleAdmin
  <2>1. admin'.node = None /\ admin'.todo = {} /\ AdminTypes'
    BY <1>8 DEF IdleAdmin, AdminTypes, PlaStatus
  <2>2. AdminKnows'
    BY <2>1 DEF AdminKnows
  <2>3. SuspendedIsEmpty'
    BY <1>1, <1>2, <1>3, <1>5, <1>8 DEF SuspendedIsEmpty
  <2>4. PlaTypes'
    BY <1>1, <2>1 DEF PlaInv, PlaTypes, DepTypes, HbTypes, CronTypes
  <2> QED
    BY <1>1, <1>5, <2>2, <2>3, <2>4, FewerSound DEF PlaInv
<1>9. CASE admin' = [admin EXCEPT !.todo = rows, !.was = was]
  <2>1. admin'.node = n /\ admin'.todo = rows /\ admin'.was = was /\ AdminTypes'
    BY <1>2, <1>3, <1>4, <1>7, <1>9 DEF AdminTypes
  <2>2. AdminKnows'
    BY <1>1, <1>3, <1>4, <1>5, <1>6, <2>1 DEF AdminKnows
  <2>3. SuspendedIsEmpty'
    BY <1>1, <1>2, <1>3, <1>5, <2>1 DEF SuspendedIsEmpty
  <2>4. PlaTypes'
    BY <1>1, <2>1 DEF PlaInv, PlaTypes, DepTypes, HbTypes, CronTypes
  <2> QED
    BY <1>1, <1>5, <2>2, <2>3, <2>4, FewerSound DEF PlaInv
<1> QED
  BY <1>3, <1>6, <1>8, <1>9 DEF SuspendRead

\* Each row that is still as it was read leaves, and then nothing is left.
LEMMA SuspendRowStep ==
  ASSUME PlaInv, SuspendRow
  PROVE  PlaInv'
<1>1. UNCHANGED <<state, hb, cron, changes>> /\ admin.node # None /\ admin.todo # {None}
  BY DEF SuspendRow
<1>2. /\ admin \in [node : Nodes \cup {None}, todo : {{None}} \cup SUBSET Deps, was : [Deps -> PlaStatus]]
      /\ AdminKnows /\ SuspendedIsEmpty
      /\ dep \in [Deps -> [st : PlaStatus, node : Nodes \cup {None}, refused : Nodes \cup {None}]]
  BY DEF PlaInv, PlaTypes, AdminTypes, DepTypes
<1>3. PICK n, d : n = admin.node /\ d = Min(admin.todo)
  OBVIOUS
<1>4. n \in Nodes /\ state[n] = "suspended" /\ admin.todo \subseteq Deps
      /\ \A e \in LiveOn(n) : e \in admin.todo /\ dep[e].st = admin.was[e]
  <2>1. n \in Nodes /\ n # None /\ admin.todo \subseteq Deps
    BY <1>1, <1>2, <1>3
  <2> QED
    BY <1>1, <1>2, <1>3, <2>1 DEF AdminKnows
<1> DEFINE same == dep[d].st = admin.was[d] /\ dep[d].node = n
<1>5. dep' = IF same THEN [dep EXCEPT ![d] = [st |-> "queued", node |-> None, refused |-> None]] ELSE dep
  BY <1>3 DEF SuspendRow
<1>6. DepTypes' /\ FewerLive
  <2>1. CASE same
    <3>1. PICK x : x = [st |-> "queued", node |-> None, refused |-> None]
      OBVIOUS
    <3>2. x \in [st : PlaStatus, node : Nodes \cup {None}, refused : Nodes \cup {None}] /\ x.st \notin Live
      BY <3>1 DEF PlaStatus, Live
    <3>3. dep' = [dep EXCEPT ![d] = x]
      BY <1>5, <2>1, <3>1
    <3> QED
      BY <1>2, <3>2, <3>3 DEF DepTypes, FewerLive
  <2>2. CASE ~same
    BY <1>2, <1>5, <2>2 DEF DepTypes, FewerLive
  <2> QED
    BY <2>1, <2>2
<1>7. \A e \in LiveOn(n)' : e \in LiveOn(n) /\ e # d /\ dep'[e] = dep[e]
  <2> SUFFICES ASSUME NEW e \in Deps, dep'[e].st \in Live, dep'[e].node = n
               PROVE  e \in LiveOn(n) /\ e # d /\ dep'[e] = dep[e]
    BY DEF LiveOn
  <2>1. e \in LiveOn(n)
    BY <1>6 DEF FewerLive, LiveOn
  <2>2. e # d
    <3> SUFFICES ASSUME e = d PROVE FALSE
      OBVIOUS
    <3>1. same
      BY <1>4, <2>1 DEF LiveOn
    <3> QED
      BY <1>2, <1>5, <3>1 DEF Live
  <2> QED
    BY <1>2, <1>5, <2>1, <2>2
<1>8. /\ \A m \in Nodes : LiveOn(m)' \subseteq LiveOn(m)
      /\ WithinCapacity' /\ SiblingsApart' /\ HbAlone' /\ Placed'
  BY <1>1, <1>6, FewerSound
<1>9. \A e \in Deps : dep'[e].st \in Live => dep'[e].node # None
  BY <1>6 DEF FewerLive, PlaInv, PlaTypes
<1>10. CASE admin.todo = {d} /\ admin' = IdleAdmin
  <2>1. admin'.node = None /\ admin'.todo = {} /\ AdminTypes'
    BY <1>10 DEF IdleAdmin, AdminTypes, PlaStatus
  <2>2. AdminKnows'
    BY <2>1 DEF AdminKnows
  <2>3. LiveOn(n)' = {}
    BY <1>4, <1>7, <1>10
  <2>4. SuspendedIsEmpty'
    BY <1>1, <1>2, <1>3, <1>8, <2>3 DEF SuspendedIsEmpty
  <2>5. PlaTypes'
    BY <1>1, <1>6, <1>9, <2>1 DEF PlaInv, PlaTypes, HbTypes, CronTypes
  <2> QED
    BY <1>8, <2>2, <2>4, <2>5 DEF PlaInv
<1>11. CASE admin' = [admin EXCEPT !.todo = @ \ {d}]
  <2>1. admin'.node = n /\ admin'.todo = admin.todo \ {d} /\ admin'.was = admin.was /\ AdminTypes'
    BY <1>2, <1>3, <1>4, <1>11 DEF AdminTypes
  <2>2. AdminKnows'
    BY <1>1, <1>3, <1>4, <1>7, <2>1 DEF AdminKnows
  <2>4. SuspendedIsEmpty'
    BY <1>1, <1>2, <1>3, <1>8, <2>1 DEF SuspendedIsEmpty
  <2>5. PlaTypes'
    BY <1>1, <1>6, <1>9, <2>1 DEF PlaInv, PlaTypes, HbTypes, CronTypes
  <2> QED
    BY <1>8, <2>2, <2>4, <2>5 DEF PlaInv
<1> QED
  BY <1>3, <1>10, <1>11 DEF SuspendRow

-----------------------------------------------------------------------------
(* The theorem. *)

\* Everything is queued, and nobody is at work.
LEMMA PlaInit == Init => PlaInv
<1> SUFFICES ASSUME Init PROVE PlaInv
  OBVIOUS
<1>1. \A n : LiveOn(n) = {}
  BY DEF Init, LiveOn, Live
<1>2. PlaTypes
  <2>1. DepTypes /\ \A d \in Deps : dep[d].st \notin Live
    BY DEF Init, DepTypes, PlaStatus, Live
  <2>2. HbTypes
    BY DEF Init, HbTypes, IdleHb
  <2>3. CronTypes /\ AdminTypes
    BY DEF Init, CronTypes, AdminTypes, IdleCron, IdleAdmin, PlaStatus
  <2> QED
    BY <2>1, <2>2, <2>3, PlacementAssumption DEF Init, PlaTypes
<1>3. HbAlone /\ Placed
  BY DEF Init, HbAlone, Placed, HbCounts, HbFits, IdleHb, Works, Claims
<1>4. AdminKnows /\ SuspendedIsEmpty
  BY <1>1 DEF Init, AdminKnows, IdleAdmin, SuspendedIsEmpty
<1>5. WithinCapacity
  <2>1. Cardinality({}) = 0 /\ SumNeed({}) = 0
    BY FS_EmptySet, SumEmpty DEF SumNeed
  <2> QED
    BY <1>1, <2>1, PlacementAssumption DEF WithinCapacity
<1>6. SiblingsApart
  BY DEF Init, SiblingsApart, Live
<1> QED
  BY <1>2, <1>3, <1>4, <1>5, <1>6 DEF PlaInv

\* Every step keeps it, whoever takes it.
LEMMA PlaNext == ASSUME ~Overlap, ~Reports, PlaInv, Next PROVE PlaInv'
<1>1. CASE \E b \in Beats : Assign(b) \/ \E n \in Nodes : Beat(b, n)
  BY <1>1, BeatStep, ReadLoadStep, ReadQueueStep, ConsiderStep, ClaimLost, ClaimWon DEF Assign
<1>2. CASE Preempt
  BY <1>2, CronStep, PreemptEndStep DEF Preempt
<1>3. CASE Operate
  BY <1>3, SuspendReadStep, SuspendRowStep, StateStep DEF Operate
<1>4. CASE Report
  BY <1>4, ReportStep DEF Report
<1> QED
  BY <1>1, <1>2, <1>3, <1>4 DEF Next

\* Nothing that placement reads is touched by a step of another component.
LEMMA PlaKept == ASSUME PlaInv, UNCHANGED vars PROVE PlaInv'
<1>1. UNCHANGED <<dep, state, hb, cron, admin, changes>>
  BY DEF vars
<1>2. FewerLive
  BY <1>1 DEF FewerLive
<1>3. PlaTypes' /\ AdminKnows' /\ SuspendedIsEmpty'
  BY <1>1 DEF PlaInv, PlaTypes, DepTypes, HbTypes, CronTypes, AdminTypes, AdminKnows, SuspendedIsEmpty, LiveOn
<1> QED
  BY <1>1, <1>2, <1>3, FewerSound DEF PlaInv

\* What the run checks.
LEMMA PlaSound == PlaInv => PlacementSound
<1> SUFFICES ASSUME PlaInv PROVE TypeOK
  BY DEF PlaInv, PlacementSound
<1>1. \A d \in Deps : /\ dep[d].st \in Live \cup {"queued", "ended"}
                      /\ dep[d].node \in Nodes \cup {None} /\ dep[d].refused \in Nodes \cup {None}
                      /\ (dep[d].st \in Live) => dep[d].node # None
  BY DEF PlaInv, PlaTypes, DepTypes, PlaStatus
<1>2. \A b \in Beats : hb[b].mine \subseteq Deps /\ hb[b].todo \subseteq Deps
  BY DEF PlaInv, PlaTypes, HbTypes
<1>3. cron.nodes \subseteq Nodes /\ cron.victim \in Deps \cup {None}
  BY DEF PlaInv, PlaTypes, CronTypes
<1> QED
  BY <1>1, <1>2, <1>3 DEF PlaInv, PlaTypes, TypeOK

\* While a node's heartbeats come one at a time and no node reports between the two statements of a suspension,
\* assign(), the preemption, drains, suspensions and re-queues never give a node more than it has, never put two
\* replicas of an endpoint on one node, and leave nothing on a suspended one: for any nodes, deployments and needs.
THEOREM PlacementStaysSound ==
  ASSUME ~Overlap, ~Reports
  PROVE  NetworkSpec => []PlacementSound
<1>1. NetworkInit => PlaInv
  BY PlaInit DEF NetworkInit
<1>2. PlaInv /\ [NetworkNext]_all => PlaInv'
  <2> SUFFICES ASSUME PlaInv, [NetworkNext]_all PROVE PlaInv'
    OBVIOUS
  <2>1. CASE Next
    BY <2>1, PlaNext
  <2>2. CASE UNCHANGED vars
    BY <2>2, PlaKept
  <2> QED
    BY <2>1, <2>2 DEF NetworkNext, PlacementOnly, StorageOnly, SpreadOnly, all
<1>3. PlaInv => PlacementSound
  BY PlaSound
<1> QED
  BY <1>1, <1>2, <1>3, PTL DEF NetworkSpec

-----------------------------------------------------------------------------
(* The gateway: the inductive invariant. *)

Bodies == {"none", "own", "wrong"}
Kinds == {"static", "endpoint", "direct"}
States == {"running", "queued", "stopped"}
Route == [st : States \cup {"none"}, node : Sites \cup {Nobody}, keys : SUBSET EndpointKeys]
Phases == {"idle", "asks", "keys", "answered", "routed", "ended"}
ReqRecord ==
  [pc : Phases, key : EndpointKeys \cup {Nobody}, route : Route, put : BOOLEAN, body : Bodies, at : Nat]
RowRecord == [kind : Kinds, st : States, node : Sites \cup {Nobody}, left : Nat]

GatRow ==
  /\ row \in RowRecord /\ row.left <= last.at
  /\ revoked \in [EndpointKeys -> Nat] /\ \A k \in EndpointKeys : revoked[k] <= last.at

\* What a route said still holds, or ended at most this long before t.
Fresh(r, t) ==
  /\ r.st = "running" => (row.st = "running" /\ row.node = r.node) \/ t <= row.left + ROUTE_TTL + MaxLag
  /\ \A k \in r.keys : revoked[k] = 0 \/ t <= revoked[k] + ROUTE_TTL + MaxLag

RunsBad == row.st = "running" /\ row.node \in BadSites

ReqFresh(r) ==
  /\ r.pc = "routed" => Fresh(r.route, r.at + 1)
  /\ r.put \/ r.pc \in {"keys", "answered"} => Fresh(r.route, r.at + ROUTE_TTL + MaxLag)
  /\ r.body = "wrong" => RunsBad \/ r.at + 1 <= row.left + ROUTE_TTL + MaxLag

ReqSound(r) ==
  /\ r \in ReqRecord /\ r.at <= last.at /\ (r = Gat!IdleReq \/ last.at <= r.at + MaxLag)
  /\ ReqFresh(r)

GatReqs == gat_req = [q \in Requests |-> gat_req[q]] /\ \A q \in Requests : ReqSound(gat_req[q])

GatRoutes ==
  /\ routes \in [route : Route, until : Nat] /\ routes.until <= last.at + ROUTE_TTL
  /\ Fresh(routes.route, routes.until)

GatStatic ==
  /\ static \in [body : Bodies, until : Nat] /\ static.until <= last.at + STATIC_TTL
  /\ static.body = "wrong" => RunsBad \/ static.until + 1 <= row.left + ROUTE_TTL + 2 * MaxLag + STATIC_TTL

\* A wrong answer comes from a bad node that still runs the site, or in time after it left one.
WrongEnds ==
  last.body = "wrong" =>
    RunsBad \/ last.at + 1 <= row.left + ROUTE_TTL + 2 * MaxLag + (IF row.kind = "static" THEN STATIC_TTL ELSE 0)

GatLast ==
  /\ last \in [body : Bodies, key : EndpointKeys \cup {Nobody}, at : Nat]
  /\ Gat!StoppedIsGone /\ WrongEnds /\ Gat!RevokedKeyIsOut

GatInv == GatRow /\ GatReqs /\ GatRoutes /\ GatStatic /\ GatLast

-----------------------------------------------------------------------------
\* What the assumption says of the constants.
LEMMA GateNumbers ==
  ROUTE_TTL \in Nat \ {0} /\ STATIC_TTL \in Nat /\ MaxLag \in Nat /\ BadSites \subseteq Sites
    /\ Nobody \notin Sites /\ Nobody \notin EndpointKeys
BY GateAssumption DEF Gat!GatewayAssumption

\* An idle request, and a route of nothing, are sound.
LEMMA IdleSound ==
  /\ Gat!NoRoute \in Route /\ Gat!IdleReq \in ReqRecord /\ Gat!NoRoute.st = "none" /\ Gat!NoRoute.keys = {}
  /\ Gat!IdleReq.pc = "idle" /\ Gat!IdleReq.put = FALSE /\ Gat!IdleReq.body = "none" /\ Gat!IdleReq.at = 0
  /\ Gat!IdleReq.route = Gat!NoRoute
<1>1. Gat!NoRoute \in Route /\ Gat!NoRoute.st = "none" /\ Gat!NoRoute.keys = {}
  BY DEF Gat!NoRoute, Route, States
<1> QED
  BY <1>1 DEF Gat!IdleReq, ReqRecord, Phases, Bodies

\* A request that is not under way claims nothing.
LEMMA IdleReqSound == ASSUME last.at \in Nat PROVE ReqSound(Gat!IdleReq)
BY IdleSound DEF ReqSound, ReqFresh

\* The fields of a request.
LEMMA ReqFields ==
  ASSUME NEW r \in ReqRecord
  PROVE  /\ r.pc \in Phases /\ r.key \in EndpointKeys \cup {Nobody} /\ r.route \in Route /\ r.put \in BOOLEAN
         /\ r.body \in Bodies /\ r.at \in Nat
         /\ r.route.st \in States \cup {"none"} /\ r.route.node \in Sites \cup {Nobody}
         /\ r.route.keys \subseteq EndpointKeys
BY DEF ReqRecord, Route

\* One request's step: the rest is as it was.
LEMMA ReqStep ==
  ASSUME GatReqs, NEW q \in Requests, NEW r, Gat!Set(q, r), ReqSound(r), UNCHANGED <<row, revoked>>, last'.at = last.at
  PROVE  GatReqs'
<1>1. gat_req' = [gat_req EXCEPT ![q] = r]
  BY DEF Gat!Set
<1>2. gat_req' = [p \in Requests |-> gat_req'[p]] /\ gat_req'[q] = r
      /\ \A p \in Requests \ {q} : gat_req'[p] = gat_req[p]
  BY <1>1 DEF GatReqs
<1>3. \A p \in Requests : ReqSound(gat_req'[p])
  BY <1>2 DEF GatReqs
<1>4. \A p \in Requests : ReqSound(gat_req[p])'
  BY <1>3 DEF ReqSound, ReqFresh, Fresh, RunsBad
<1> QED
  BY <1>2, <1>4 DEF GatReqs

\* Steps of a request that store nothing and answer nothing.
LEMMA QuietStep ==
  ASSUME GatInv, NEW q \in Requests, NEW r, Gat!Set(q, r), ReqSound(r), UNCHANGED <<row, revoked, routes, static, last>>
  PROVE  GatInv'
<1>1. GatReqs'
  BY ReqStep DEF GatInv
<1>2. GatRow' /\ GatRoutes' /\ GatStatic'
  BY DEF GatInv, GatRow, GatRoutes, GatStatic, Fresh, RunsBad
<1>3. GatLast'
  BY DEF GatInv, GatLast, Gat!StoppedIsGone, WrongEnds, RunsBad, Gat!RevokedKeyIsOut, Gat!now
<1> QED
  BY <1>1, <1>2, <1>3 DEF GatInv

-----------------------------------------------------------------------------
(* The row and the keys. *)

\* When the row leaves its node, everything the gateway knows is at most so old.
LEMMA LeavesFresh ==
  ASSUME GatInv, row'.left = last.at, row'.st # "running", UNCHANGED revoked,
         NEW r \in Route, NEW t \in Nat, t <= last.at + ROUTE_TTL + MaxLag, Fresh(r, t)
  PROVE  Fresh(r, t)'
BY DEF Fresh

\* What a changed row or key leaves of what the gateway knows.
LEMMA RowStep ==
  ASSUME GatInv, GatRow', UNCHANGED <<routes, static, gat_req, last>>, GatLast',
         \A r \in Route, t \in Nat : (t <= last.at + ROUTE_TTL + MaxLag /\ Fresh(r, t)) => Fresh(r, t)',
         RunsBad => RunsBad' \/ row'.left = last.at,
         row'.left = row.left \/ row'.left = last.at
  PROVE  GatInv'
<1>0. last.at \in Nat /\ row.left \in Nat /\ row.left <= last.at
  BY DEF GatInv, GatLast, GatRow, RowRecord
<1>1. GatRoutes'
  <2>1. routes.route \in Route /\ routes.until \in Nat /\ routes.until <= last.at + ROUTE_TTL + MaxLag
    BY <1>0, GateNumbers DEF GatInv, GatRoutes
  <2>2. Fresh(routes.route, routes.until)'
    <3>1. Fresh(routes.route, routes.until)
      BY DEF GatInv, GatRoutes
    <3> QED
      BY <2>1, <3>1 DEF Fresh
  <2> QED
    BY <2>2 DEF GatInv, GatRoutes
<1>2. GatStatic'
  BY <1>0, GateNumbers DEF GatInv, GatStatic, RunsBad
<1>3. ASSUME NEW q \in Requests PROVE ReqSound(gat_req[q])'
  <2> PICK r : r = gat_req[q]
    OBVIOUS
  <2>1. ReqSound(r) /\ r \in ReqRecord
    BY DEF GatInv, GatReqs, ReqSound
  <2>2. r.at \in Nat /\ r.at <= last.at /\ r.route \in Route
    BY <2>1, ReqFields DEF ReqSound
  <2>3. r.pc = "routed" => Fresh(r.route, r.at + 1)'
    <3> SUFFICES ASSUME r.pc = "routed" PROVE Fresh(r.route, r.at + 1)'
      OBVIOUS
    <3>1. Fresh(r.route, r.at + 1)
      BY <2>1 DEF ReqSound, ReqFresh
    <3>2. r.at + 1 \in Nat /\ r.at + 1 <= last.at + ROUTE_TTL + MaxLag
      BY <1>0, <2>2, GateNumbers
    <3> QED
      BY <2>2, <3>1, <3>2
  <2>4. r.put \/ r.pc \in {"keys", "answered"} => Fresh(r.route, r.at + ROUTE_TTL + MaxLag)'
    <3> SUFFICES ASSUME r.put \/ r.pc \in {"keys", "answered"} PROVE Fresh(r.route, r.at + ROUTE_TTL + MaxLag)'
      OBVIOUS
    <3>1. Fresh(r.route, r.at + ROUTE_TTL + MaxLag)
      BY <2>1 DEF ReqSound, ReqFresh
    <3>2. r.at + ROUTE_TTL + MaxLag \in Nat /\ r.at + ROUTE_TTL + MaxLag <= last.at + ROUTE_TTL + MaxLag
      BY <1>0, <2>2, GateNumbers
    <3> QED
      BY <2>2, <3>1, <3>2
  <2>5. r.body = "wrong" => RunsBad' \/ r.at + 1 <= row'.left + ROUTE_TTL + MaxLag
    BY <1>0, <2>1, <2>2, GateNumbers DEF ReqSound, ReqFresh
  <2>6. ReqSound(r)'
    BY <2>1, <2>3, <2>4, <2>5 DEF ReqSound, ReqFresh
  <2> QED
    BY <2>6
<1>4. GatReqs'
  BY <1>3 DEF GatInv, GatReqs
<1> QED
  BY <1>1, <1>2, <1>4 DEF GatInv

\* A deployment leaves its node: what was said of it grows old from now.
LEMMA LeaveStep ==
  ASSUME GatInv, Gat!Stop \/ Gat!Requeue
  PROVE  GatInv'
<1>0. UNCHANGED <<revoked, routes, static, gat_req, last>>
  BY DEF Gat!Stop, Gat!Requeue, Gat!Leaves, Gat!Moves
<1>1. /\ row' \in RowRecord /\ row'.st \in {"stopped", "queued"} /\ row'.left = last.at /\ row'.kind = row.kind
      /\ row'.node = Nobody
  <2>1. last.at \in Nat /\ row \in RowRecord
    BY DEF GatInv, GatLast, GatRow
  <2> PICK s \in {"stopped", "queued"} : row' = [row EXCEPT !.st = s, !.node = Nobody, !.left = last.at]
    BY DEF Gat!Stop, Gat!Requeue, Gat!now
  <2> DEFINE w == [row EXCEPT !.st = s, !.node = Nobody, !.left = last.at]
  <2>2. DOMAIN w = {"kind", "st", "node", "left"} /\ w.kind = row.kind /\ w.st = s /\ w.node = Nobody /\ w.left = last.at
        /\ w = [x \in DOMAIN w |-> w[x]]
    BY <2>1 DEF RowRecord
  <2>3. row' = w
    OBVIOUS
  <2> HIDE DEF w
  <2>4. w \in RowRecord
    BY <2>1, <2>2 DEF RowRecord, States
  <2> QED
    BY <2>2, <2>3, <2>4
<1>2. GatRow'
  <2>1. last.at \in Nat
    BY DEF GatInv, GatLast
  <2> QED
    BY <1>0, <1>1, <2>1 DEF GatInv, GatRow
<1>3. GatLast'
  <2>1. last.at < last.at + ROUTE_TTL + 2 * MaxLag
    BY GateNumbers DEF GatInv, GatLast
  <2>2. Gat!StoppedIsGone' /\ WrongEnds'
    BY <1>0, <1>1, <2>1, GateNumbers DEF GatInv, GatLast, Gat!StoppedIsGone, WrongEnds, RunsBad, Gat!now
  <2>3. Gat!RevokedKeyIsOut'
    BY <1>0, <1>1 DEF GatInv, GatLast, Gat!RevokedKeyIsOut, Gat!now
  <2> QED
    BY <1>0, <2>2, <2>3 DEF GatInv, GatLast
<1>4. \A r \in Route, t \in Nat : (t <= last.at + ROUTE_TTL + MaxLag /\ Fresh(r, t)) => Fresh(r, t)'
  BY <1>0, <1>1, LeavesFresh
<1> QED
  BY <1>0, <1>1, <1>2, <1>3, <1>4, RowStep

\* A start of a deployment that waits.
LEMMA StartStep ==
  ASSUME GatInv, NEW n \in Sites, Gat!Start(n)
  PROVE  GatInv'
<1>0. UNCHANGED <<revoked, routes, static, gat_req, last>> /\ row.st = "queued"
  BY DEF Gat!Start
<1>1. row' \in RowRecord /\ row'.st = "running" /\ row'.left = row.left /\ row'.kind = row.kind
  BY DEF Gat!Start, GatInv, GatRow, RowRecord, States
<1>2. GatRow'
  BY <1>0, <1>1 DEF GatInv, GatRow
<1>3. ~RunsBad
  BY <1>0 DEF RunsBad
<1>4. GatLast'
  <2>1. Gat!StoppedIsGone' /\ Gat!RevokedKeyIsOut'
    BY <1>0, <1>1 DEF GatInv, GatLast, Gat!StoppedIsGone, Gat!RevokedKeyIsOut, Gat!now
  <2>2. WrongEnds'
    BY <1>0, <1>1, <1>3 DEF GatInv, GatLast, WrongEnds
  <2> QED
    BY <1>0, <2>1, <2>2 DEF GatInv, GatLast
<1>5. \A r \in Route, t \in Nat : (t <= last.at + ROUTE_TTL + MaxLag /\ Fresh(r, t)) => Fresh(r, t)'
  BY <1>0, <1>1 DEF Fresh
<1> QED
  BY <1>0, <1>1, <1>2, <1>3, <1>4, <1>5, RowStep

\* A key is revoked.
LEMMA RevokeStep ==
  ASSUME GatInv, NEW k \in EndpointKeys, Gat!revokeKey(k)
  PROVE  GatInv'
<1>0. UNCHANGED <<row, routes, static, gat_req, last>> /\ revoked[k] = 0
      /\ revoked' = [revoked EXCEPT ![k] = last.at]
  BY DEF Gat!revokeKey, Gat!Moves, Gat!now
<1>1. last.at \in Nat /\ revoked' \in [EndpointKeys -> Nat] /\ revoked'[k] = last.at
      /\ \A j \in EndpointKeys \ {k} : revoked'[j] = revoked[j]
  BY <1>0 DEF GatInv, GatRow, GatLast
<1>2. GatRow'
  BY <1>0, <1>1 DEF GatInv, GatRow
<1>3. GatLast'
  <2>1. Gat!StoppedIsGone' /\ WrongEnds'
    BY <1>0 DEF GatInv, GatLast, Gat!StoppedIsGone, WrongEnds, RunsBad, Gat!now
  <2>2. last.at < last.at + ROUTE_TTL + 2 * MaxLag
    BY <1>1, GateNumbers
  <2>3. Gat!RevokedKeyIsOut'
    BY <1>0, <1>1, <2>2 DEF GatInv, GatLast, Gat!RevokedKeyIsOut, Gat!now
  <2> QED
    BY <1>0, <2>1, <2>3 DEF GatInv, GatLast
<1>4. \A r \in Route, t \in Nat : (t <= last.at + ROUTE_TTL + MaxLag /\ Fresh(r, t)) => Fresh(r, t)'
  <2> SUFFICES ASSUME NEW r \in Route, NEW t \in Nat, t <= last.at + ROUTE_TTL + MaxLag, Fresh(r, t)
               PROVE  Fresh(r, t)'
    OBVIOUS
  <2>1. r.keys \subseteq EndpointKeys
    BY DEF Route
  <2> QED
    BY <1>0, <1>1, <2>1 DEF Fresh
<1>5. RunsBad => RunsBad'
  BY <1>0 DEF RunsBad
<1> QED
  BY <1>0, <1>2, <1>3, <1>4, <1>5, RowStep

-----------------------------------------------------------------------------
(* lookupRoute() *)

\* Time passes only while no request is older than its lag.
LEMMA TickStep ==
  ASSUME GatInv, Gat!Tick
  PROVE  GatInv'
<1>0. /\ UNCHANGED <<row, revoked, routes, static, gat_req>> /\ last' = [body |-> "none", key |-> Nobody, at |-> last.at + 1]
      /\ \A q \in Requests : gat_req[q] = Gat!IdleReq \/ last.at - gat_req[q].at < MaxLag
  BY DEF Gat!Tick, Gat!now
<1>1. last.at \in Nat /\ last'.at = last.at + 1 /\ last'.body = "none"
  BY <1>0 DEF GatInv, GatLast
<1>2. GatRow' /\ GatRoutes' /\ GatStatic'
  <2>1. GatRow'
    BY <1>0, <1>1 DEF GatInv, GatRow, RowRecord
  <2>2. GatRoutes'
    BY <1>0, <1>1, GateNumbers DEF GatInv, GatRoutes, Fresh
  <2>3. GatStatic'
    BY <1>0, <1>1, GateNumbers DEF GatInv, GatStatic, RunsBad
  <2> QED
    BY <2>1, <2>2, <2>3
<1>3. ASSUME NEW q \in Requests PROVE ReqSound(gat_req[q])'
  <2> PICK r : r = gat_req[q]
    OBVIOUS
  <2>1. ReqSound(r) /\ r.at \in Nat
    BY ReqFields DEF GatInv, GatReqs, ReqSound
  <2>2. r = Gat!IdleReq \/ last.at + 1 <= r.at + MaxLag
    BY <1>0, <1>1, <2>1, GateNumbers
  <2>3. ReqFresh(r)'
    BY <1>0, <2>1 DEF ReqSound, ReqFresh, Fresh, RunsBad
  <2>4. r.at <= last'.at
    BY <1>1, <2>1 DEF ReqSound
  <2>5. ReqSound(r)'
    BY <1>1, <2>1, <2>2, <2>3, <2>4 DEF ReqSound
  <2> QED
    BY <1>0, <2>5
<1>4. GatReqs'
  BY <1>0, <1>3 DEF GatInv, GatReqs
<1>5. GatLast'
  BY <1>0, <1>1 DEF GatLast, Bodies, Gat!StoppedIsGone, WrongEnds, Gat!RevokedKeyIsOut
<1> QED
  BY <1>2, <1>4, <1>5 DEF GatInv

\* A request arrives and finds the route in the cache, or has to ask.
LEMMA ArrivesStep ==
  ASSUME GatInv, NEW q \in Requests, NEW k \in EndpointKeys \cup {Nobody}, Gat!Arrives(q, k)
  PROVE  GatInv'
<1>0. UNCHANGED <<row, revoked, routes, static, last>> /\ last.at \in Nat
  BY DEF Gat!Arrives, GatInv, GatLast
<1>1. CASE routes.until > last.at
  <2> PICK r : r = [pc |-> "routed", key |-> k, route |-> routes.route, put |-> FALSE, body |-> "none", at |-> last.at]
    OBVIOUS
  <2>1. Gat!Set(q, r)
    BY <1>1 DEF Gat!Arrives, Gat!IdleReq, Gat!now
  <2>2. routes.route \in Route /\ routes.until \in Nat /\ Fresh(routes.route, routes.until)
    BY DEF GatInv, GatRoutes
  <2>3. r \in ReqRecord /\ r.pc = "routed" /\ r.put = FALSE /\ r.body = "none" /\ r.at = last.at /\ r.route = routes.route
    BY <1>0, <2>2 DEF ReqRecord, Phases, Bodies
  <2>4. Fresh(r.route, last.at + 1)
    <3>1. last.at + 1 <= routes.until
      BY <1>0, <1>1, <2>2
    <3>2. row.left \in Nat /\ revoked \in [EndpointKeys -> Nat] /\ r.route.keys \subseteq EndpointKeys
      BY <2>2, <2>3 DEF GatInv, GatRow, RowRecord, Route
    <3> QED
      BY <1>0, <2>2, <2>3, <3>1, <3>2, GateNumbers DEF Fresh
  <2>5. ReqSound(r)
    BY <1>0, <2>3, <2>4, GateNumbers DEF ReqSound, ReqFresh
  <2> QED
    BY <1>0, <2>1, <2>5, QuietStep
<1>2. CASE ~(routes.until > last.at)
  <2> PICK r : r = [pc |-> "asks", key |-> k, route |-> Gat!NoRoute, put |-> FALSE, body |-> "none", at |-> last.at]
    OBVIOUS
  <2>1. Gat!Set(q, r)
    BY <1>2 DEF Gat!Arrives, Gat!IdleReq, Gat!now
  <2>3. r \in ReqRecord /\ r.pc = "asks" /\ r.put = FALSE /\ r.body = "none" /\ r.at = last.at
    BY <1>0, IdleSound DEF ReqRecord, Phases, Bodies
  <2>5. ReqSound(r)
    BY <1>0, <2>3, GateNumbers DEF ReqSound, ReqFresh
  <2> QED
    BY <1>0, <2>1, <2>5, QuietStep
<1> QED
  BY <1>1, <1>2

\* publicRoute() reads the row: the route holds now.
LEMMA ReadsRowStep ==
  ASSUME GatInv, NEW q \in Requests, Gat!ReadsRow(q)
  PROVE  GatInv'
<1>0. UNCHANGED <<row, revoked, routes, static, last>> /\ last.at \in Nat /\ row \in RowRecord /\ gat_req[q].pc = "asks"
  BY DEF Gat!ReadsRow, GatInv, GatLast, GatRow
<1> PICK o : o = gat_req[q]
  OBVIOUS
<1>1. ReqSound(o) /\ o \in ReqRecord /\ o.pc = "asks"
  BY <1>0 DEF GatInv, GatReqs, ReqSound
<1> PICK w : w = [st |-> row.st, node |-> row.node, keys |-> {}]
  OBVIOUS
<1>2. w \in Route /\ w.st = row.st /\ w.node = row.node /\ w.keys = {}
  BY <1>0 DEF Route, RowRecord
<1> PICK p : p = IF row.kind = "endpoint" THEN "keys" ELSE "answered"
  OBVIOUS
<1> DEFINE r == [o EXCEPT !.pc = p, !.route = w]
<1>3. Gat!Set(q, r)
  BY DEF Gat!ReadsRow
<1>4. r \in ReqRecord /\ r.pc = p /\ r.put = o.put /\ r.route = w /\ r.body = o.body /\ r.at = o.at
  BY <1>1, <1>2 DEF ReqRecord, Phases
<1> HIDE DEF r
<1>5. o.put \/ r.pc \in {"keys", "answered"} => Fresh(w, r.at + ROUTE_TTL + MaxLag)
  BY <1>0, <1>2 DEF Fresh, RowRecord
<1>6. ReqSound(r)
  <2>1. r.pc # "routed" /\ r # Gat!IdleReq /\ o # Gat!IdleReq
    BY <1>1, <1>4, IdleSound
  <2> QED
    BY <1>1, <1>2, <1>4, <1>5, <2>1 DEF ReqSound, ReqFresh
<1> QED
  BY <1>0, <1>3, <1>6, QuietStep

\* The hashes of the keys that are live now.
LEMMA LiveKeysStep ==
  ASSUME GatInv, NEW q \in Requests, Gat!liveKeyHashes(q)
  PROVE  GatInv'
<1>0. UNCHANGED <<row, revoked, routes, static, last>> /\ last.at \in Nat /\ gat_req[q].pc = "keys"
  BY DEF Gat!liveKeyHashes, GatInv, GatLast
<1> PICK o : o = gat_req[q]
  OBVIOUS
<1>1. ReqSound(o) /\ o \in ReqRecord /\ o.pc = "keys" /\ o.route \in Route
  BY <1>0, ReqFields DEF GatInv, GatReqs, ReqSound
<1> PICK live : live = {k \in EndpointKeys : revoked[k] = 0}
  OBVIOUS
<1> PICK w : w = [o.route EXCEPT !.keys = live]
  OBVIOUS
<1>2. w \in Route /\ w.st = o.route.st /\ w.node = o.route.node /\ w.keys = live
  BY <1>1 DEF Route
<1> DEFINE r == [o EXCEPT !.pc = "answered", !.route = w]
<1>3. Gat!Set(q, r)
  BY DEF Gat!liveKeyHashes
<1>4. r \in ReqRecord /\ r.pc = "answered" /\ r.route = w /\ r.body = o.body /\ r.at = o.at
  BY <1>1, <1>2 DEF ReqRecord, Phases
<1> HIDE DEF r
<1>5. Fresh(w, r.at + ROUTE_TTL + MaxLag)
  BY <1>1, <1>2, <1>4 DEF Fresh, ReqSound, ReqFresh
<1>6. ReqSound(r)
  <2>1. r # Gat!IdleReq /\ o # Gat!IdleReq
    BY <1>1, <1>4, IdleSound
  <2> QED
    BY <1>1, <1>4, <1>5, <2>1 DEF ReqSound, ReqFresh
<1> QED
  BY <1>0, <1>3, <1>6, QuietStep

\* No answer in time.
LEMMA UnavailableStep ==
  ASSUME GatInv, NEW q \in Requests, Gat!ApiUnavailable(q)
  PROVE  GatInv'
<1>1. UNCHANGED <<row, revoked, routes, static, last>> /\ Gat!Set(q, Gat!IdleReq)
  BY DEF Gat!ApiUnavailable
<1>2. ReqSound(Gat!IdleReq)
  BY IdleReqSound DEF GatInv, GatLast
<1> QED
  BY <1>1, <1>2, QuietStep

\* The answer has arrived: it is as old as the request at most.
LEMMA RoutedStep ==
  ASSUME GatInv, NEW q \in Requests, Gat!Routed(q)
  PROVE  GatInv'
<1>0. UNCHANGED <<row, revoked, routes, static, last>> /\ last.at \in Nat /\ gat_req[q].pc = "answered"
  BY DEF Gat!Routed, GatInv, GatLast
<1> PICK o : o = gat_req[q]
  OBVIOUS
<1>1. ReqSound(o) /\ o \in ReqRecord /\ o.pc = "answered" /\ o.at \in Nat /\ o.route \in Route
  BY <1>0, ReqFields DEF GatInv, GatReqs, ReqSound
<1> DEFINE r == [o EXCEPT !.pc = "routed", !.put = TRUE]
<1>3. Gat!Set(q, r)
  BY DEF Gat!Routed
<1>4. r \in ReqRecord /\ r.pc = "routed" /\ r.route = o.route /\ r.body = o.body /\ r.at = o.at
  BY <1>1 DEF ReqRecord, Phases
<1> HIDE DEF r
<1>5. Fresh(o.route, o.at + ROUTE_TTL + MaxLag)
  BY <1>1 DEF ReqSound, ReqFresh
<1>6. Fresh(o.route, o.at + 1)
  <2>1. o.at + 1 <= o.at + ROUTE_TTL + MaxLag
    BY <1>1, GateNumbers
  <2>2. row.left \in Nat /\ revoked \in [EndpointKeys -> Nat] /\ o.route.keys \subseteq EndpointKeys
    BY <1>1 DEF GatInv, GatRow, RowRecord, Route
  <2> QED
    BY <1>1, <1>5, <2>1, <2>2, GateNumbers DEF Fresh
<1>7. ReqSound(r)
  <2>1. r # Gat!IdleReq /\ o # Gat!IdleReq
    BY <1>1, <1>4, IdleSound
  <2> QED
    BY <1>1, <1>4, <1>5, <1>6, <2>1 DEF ReqSound, ReqFresh
<1> QED
  BY <1>0, <1>3, <1>7, QuietStep

\* A request that is over, or has stored its route, keeps what it knew.
LEMMA LessSound ==
  ASSUME NEW o, ReqSound(o), o # Gat!IdleReq, NEW r \in ReqRecord, r.route = o.route, r.at = o.at,
         r.put => o.put, r.pc = "ended" \/ r.pc = o.pc, r.body \in {o.body, "none"}
  PROVE  ReqSound(r)
BY DEF ReqSound, ReqFresh

\* The store of the route: it is kept ROUTE_TTL from now, which is at most the lag after the request began.
LEMMA PutsRouteStep ==
  ASSUME GatInv, NEW q \in Requests, Gat!PutsRoute(q)
  PROVE  GatInv'
<1>0. UNCHANGED <<row, revoked, static, last>> /\ last.at \in Nat /\ gat_req[q].put
  BY DEF Gat!PutsRoute, GatInv, GatLast
<1> PICK o : o = gat_req[q]
  OBVIOUS
<1>1. ReqSound(o) /\ o \in ReqRecord /\ o.put /\ o.at \in Nat /\ o.route \in Route
  BY <1>0, ReqFields DEF GatInv, GatReqs, ReqSound
<1>2. o # Gat!IdleReq
  BY <1>1, IdleSound
<1>3. Fresh(o.route, o.at + ROUTE_TTL + MaxLag) /\ last.at <= o.at + MaxLag
  BY <1>1, <1>2 DEF ReqSound, ReqFresh
<1>4. routes' = [route |-> o.route, until |-> last.at + ROUTE_TTL]
  BY DEF Gat!PutsRoute, Gat!RouteUntil, Gat!now
<1>5. routes' \in [route : Route, until : Nat] /\ routes'.route = o.route /\ routes'.until = last.at + ROUTE_TTL
  BY <1>0, <1>1, <1>4, GateNumbers
<1>6. Fresh(o.route, last.at + ROUTE_TTL)
  <2>1. last.at + ROUTE_TTL <= o.at + ROUTE_TTL + MaxLag /\ last.at + ROUTE_TTL \in Nat
    BY <1>0, <1>1, <1>3, GateNumbers
  <2>2. row.left \in Nat /\ revoked \in [EndpointKeys -> Nat] /\ o.route.keys \subseteq EndpointKeys
    BY <1>1 DEF GatInv, GatRow, RowRecord, Route
  <2> QED
    BY <1>1, <1>3, <2>1, <2>2, GateNumbers DEF Fresh
<1>7. GatRoutes'
  BY <1>0, <1>5, <1>6, GateNumbers DEF GatRoutes, Fresh
<1>8. GatReqs'
  <2>1. CASE Gat!Set(q, Gat!IdleReq)
    BY <1>0, <2>1, IdleReqSound, ReqStep DEF GatInv
  <2>2. CASE Gat!Set(q, [o EXCEPT !.put = FALSE])
    <3> DEFINE r == [o EXCEPT !.put = FALSE]
    <3>1. r \in ReqRecord /\ r.pc = o.pc /\ r.put = FALSE /\ r.route = o.route /\ r.body = o.body /\ r.at = o.at
      BY <1>1 DEF ReqRecord
    <3> HIDE DEF r
    <3>2. ReqSound(r)
      BY <1>1, <1>2, <3>1, LessSound
    <3> QED
      BY <1>0, <2>2, <3>2, ReqStep DEF GatInv, r
  <2> QED
    BY <2>1, <2>2 DEF Gat!PutsRoute
<1>9. GatRow' /\ GatStatic' /\ GatLast'
  <2>1. GatRow' /\ GatStatic'
    BY <1>0 DEF GatInv, GatRow, GatStatic, RunsBad
  <2>2. GatLast'
    BY <1>0 DEF GatInv, GatLast, Gat!StoppedIsGone, WrongEnds, RunsBad, Gat!RevokedKeyIsOut, Gat!now
  <2> QED
    BY <2>1, <2>2
<1> QED
  BY <1>7, <1>8, <1>9 DEF GatInv

-----------------------------------------------------------------------------
(* handle() once the route is known *)

\* The request is over; what it may still store is no newer than it.
LEMMA OverStep ==
  ASSUME GatInv, NEW q \in Requests, NEW body \in Bodies, Gat!Over(q, body), gat_req[q].pc = "routed",
         body = "wrong" => RunsBad \/ gat_req[q].at + 1 <= row.left + ROUTE_TTL + MaxLag,
         UNCHANGED <<row, revoked, routes, static>>, last'.at = last.at, GatLast'
  PROVE  GatInv'
<1>0. last.at \in Nat
  BY DEF GatInv, GatLast
<1> PICK o : o = gat_req[q]
  OBVIOUS
<1>1. ReqSound(o) /\ o \in ReqRecord /\ o.pc = "routed"
  BY DEF GatInv, GatReqs, ReqSound
<1>2. o # Gat!IdleReq
  BY <1>1, IdleSound
<1>3. GatReqs'
  <2>1. CASE Gat!Set(q, Gat!IdleReq)
    BY <1>0, <2>1, IdleReqSound, ReqStep DEF GatInv
  <2>2. CASE Gat!Set(q, [o EXCEPT !.pc = "ended", !.body = body])
    <3> DEFINE r == [o EXCEPT !.pc = "ended", !.body = body]
    <3>1. r \in ReqRecord /\ r.pc = "ended" /\ r.put = o.put /\ r.route = o.route /\ r.body = body /\ r.at = o.at
      BY <1>1 DEF ReqRecord, Phases
    <3> HIDE DEF r
    <3>2. ReqSound(r)
      BY <1>1, <1>2, <3>1 DEF ReqSound, ReqFresh
    <3> QED
      BY <2>2, <3>2, ReqStep DEF GatInv, r
  <2> QED
    BY <2>1, <2>2 DEF Gat!Over
<1>4. GatRow' /\ GatRoutes' /\ GatStatic'
  BY DEF GatInv, GatRow, GatRoutes, GatStatic, Fresh, RunsBad
<1> QED
  BY <1>3, <1>4 DEF GatInv

\* Refused, or the node cannot be reached: nothing is answered.
LEMMA SilentStep ==
  ASSUME GatInv, NEW q \in Requests, Gat!Refuses(q) \/ Gat!Unreachable(q)
  PROVE  GatInv'
<1>1. /\ UNCHANGED <<row, revoked, routes, static, last>> /\ gat_req[q].pc = "routed" /\ Gat!Over(q, "none")
  BY DEF Gat!Refuses, Gat!Unreachable, Gat!Admitted
<1>2. "none" \in Bodies
  BY DEF Bodies
<1>3. GatLast'
  BY <1>1 DEF GatInv, GatLast, Gat!StoppedIsGone, WrongEnds, RunsBad, Gat!RevokedKeyIsOut, Gat!now
<1> QED
  BY <1>1, <1>2, <1>3, OverStep

\* What an admitted request knows: its node runs the deployment or has left it in time, and so its key.
LEMMA AdmittedKnows ==
  ASSUME GatInv, NEW q \in Requests, Gat!Admitted(q)
  PROVE  /\ (row.st = "running" /\ row.node = gat_req[q].route.node)
              \/ gat_req[q].at + 1 <= row.left + ROUTE_TTL + MaxLag
         /\ row.kind = "endpoint" => /\ gat_req[q].key \in EndpointKeys
                                     /\ \/ revoked[gat_req[q].key] = 0
                                        \/ gat_req[q].at + 1 <= revoked[gat_req[q].key] + ROUTE_TTL + MaxLag
         /\ gat_req[q].at \in Nat /\ last.at <= gat_req[q].at + MaxLag
         /\ gat_req[q].pc = "routed" /\ gat_req[q].key \in EndpointKeys \cup {Nobody}
<1> PICK o : o = gat_req[q]
  OBVIOUS
<1>1. ReqSound(o) /\ o \in ReqRecord /\ o.pc = "routed" /\ o.route.st = "running"
      /\ (row.kind = "endpoint" => o.key \in o.route.keys)
  BY DEF GatInv, GatReqs, ReqSound, Gat!Admitted, Gat!authorizedKey
<1>2. Fresh(o.route, o.at + 1) /\ o # Gat!IdleReq
  BY <1>1, IdleSound DEF ReqSound, ReqFresh
<1> QED
  BY <1>1, <1>2, ReqFields DEF ReqSound, Fresh

\* An answer with content, from the cache or from the node.
LEMMA AnswerLast ==
  ASSUME GatInv, NEW q \in Requests, Gat!Admitted(q), NEW body \in Bodies, Gat!Answers(body, q),
         UNCHANGED <<row, revoked>>,
         body = "wrong" => RunsBad \/ last.at + 1 <= row.left + ROUTE_TTL + 2 * MaxLag
                                                      + (IF row.kind = "static" THEN STATIC_TTL ELSE 0)
  PROVE  GatLast' /\ last'.at = last.at
<1>0. last.at \in Nat /\ row.left \in Nat /\ revoked \in [EndpointKeys -> Nat]
  BY DEF GatInv, GatLast, GatRow, RowRecord
<1> PICK o : o = gat_req[q]
  OBVIOUS
<1> PICK l : l = [body |-> body, key |-> o.key, at |-> last.at]
  OBVIOUS
<1>1. last' = l /\ l.body = body /\ l.key = o.key /\ l.at = last.at
  BY DEF Gat!Answers, Gat!now
<1>2. /\ (row.st = "running" /\ row.node = o.route.node) \/ o.at + 1 <= row.left + ROUTE_TTL + MaxLag
      /\ row.kind = "endpoint" => /\ o.key \in EndpointKeys
                                  /\ revoked[o.key] = 0 \/ o.at + 1 <= revoked[o.key] + ROUTE_TTL + MaxLag
      /\ o.at \in Nat /\ last.at <= o.at + MaxLag /\ o.key \in EndpointKeys \cup {Nobody}
  BY AdmittedKnows
<1>3. l \in [body : Bodies, key : EndpointKeys \cup {Nobody}, at : Nat]
  BY <1>0, <1>2
<1>4. Gat!StoppedIsGone'
  BY <1>0, <1>1, <1>2, GateNumbers DEF Gat!StoppedIsGone, Gat!now
<1>5. Gat!RevokedKeyIsOut'
  <2> SUFFICES ASSUME row.kind = "endpoint" PROVE revoked[o.key] = 0 \/ last.at < revoked[o.key] + ROUTE_TTL + 2 * MaxLag
    BY <1>1 DEF Gat!RevokedKeyIsOut, Gat!now
  <2>1. revoked[o.key] \in Nat
    BY <1>0, <1>2
  <2> QED
    BY <1>0, <1>2, <2>1, GateNumbers
<1>6. WrongEnds'
  BY <1>1 DEF WrongEnds, RunsBad
<1> QED
  BY <1>1, <1>3, <1>4, <1>5, <1>6 DEF GatLast

\* From the cache.
LEMMA HitsStep ==
  ASSUME GatInv, NEW q \in Requests, Gat!Hits(q)
  PROVE  GatInv'
<1>1. /\ UNCHANGED <<row, revoked, routes, static>> /\ Gat!Admitted(q) /\ Gat!Answers(static.body, q) /\ Gat!Over(q, "none")
      /\ row.kind = "static" /\ static.until > last.at
  BY DEF Gat!Hits, Gat!Cacheable, Gat!StoredAfterHit, Gat!now
<1>2. static.body \in Bodies /\ static.until \in Nat /\ last.at \in Nat /\ row.left \in Nat /\ "none" \in Bodies
  BY DEF GatInv, GatStatic, GatLast, GatRow, RowRecord, Bodies
<1>3. static.body = "wrong" => RunsBad \/ last.at + 1 <= row.left + ROUTE_TTL + 2 * MaxLag + STATIC_TTL
  BY <1>1, <1>2, GateNumbers DEF GatInv, GatStatic
<1>4. GatLast' /\ last'.at = last.at
  BY <1>1, <1>2, <1>3, AnswerLast
<1>5. gat_req[q].pc = "routed"
  BY <1>1 DEF Gat!Admitted
<1> QED
  BY <1>1, <1>2, <1>4, <1>5, OverStep

\* From the node.
LEMMA ServesStep ==
  ASSUME GatInv, NEW q \in Requests, Gat!Serves(q)
  PROVE  GatInv'
<1>1. UNCHANGED <<row, revoked, routes, static>> /\ Gat!Admitted(q)
  BY DEF Gat!Serves
<1> PICK b \in Gat!AnswerOf(gat_req[q].route.node) :
      Gat!Answers(b, q) /\ Gat!Over(q, IF Gat!Cacheable THEN b ELSE "none")
  BY DEF Gat!Serves
<1> PICK o : o = gat_req[q]
  OBVIOUS
<1>2. /\ (row.st = "running" /\ row.node = o.route.node) \/ o.at + 1 <= row.left + ROUTE_TTL + MaxLag
      /\ o.at \in Nat /\ last.at <= o.at + MaxLag
  BY <1>1, AdmittedKnows
<1>3. b \in Bodies /\ (b = "wrong" => RunsBad \/ o.at + 1 <= row.left + ROUTE_TTL + MaxLag)
  <2>1. b \in {"own", "wrong"}
    BY DEF Gat!AnswerOf
  <2>2. b = "wrong" => o.route.node \in BadSites \/ ~(row.st = "running" /\ row.node = o.route.node)
    BY DEF Gat!AnswerOf
  <2> QED
    BY <1>2, <2>1, <2>2 DEF Bodies, RunsBad
<1>4. last.at \in Nat /\ row.left \in Nat
  BY DEF GatInv, GatLast, GatRow, RowRecord
<1>5. b = "wrong" => RunsBad \/ last.at + 1 <= row.left + ROUTE_TTL + 2 * MaxLag
                                                    + (IF row.kind = "static" THEN STATIC_TTL ELSE 0)
  <2> SUFFICES ASSUME o.at + 1 <= row.left + ROUTE_TTL + MaxLag
               PROVE  last.at + 1 <= row.left + ROUTE_TTL + 2 * MaxLag + (IF row.kind = "static" THEN STATIC_TTL ELSE 0)
    BY <1>3
  <2> QED
    BY <1>2, <1>4, GateNumbers
<1>6. GatLast' /\ last'.at = last.at
  BY <1>1, <1>3, <1>5, AnswerLast
<1>7. gat_req[q].pc = "routed"
  BY <1>1 DEF Gat!Admitted
<1> PICK s : s = IF Gat!Cacheable THEN b ELSE "none"
  OBVIOUS
<1>8. s \in Bodies /\ (s = "wrong" => b = "wrong") /\ Gat!Over(q, s)
  BY <1>3 DEF Bodies
<1>9. s = "wrong" => RunsBad \/ gat_req[q].at + 1 <= row.left + ROUTE_TTL + MaxLag
  BY <1>3, <1>8
<1> QED
  BY <1>1, <1>6, <1>7, <1>8, <1>9, OverStep

\* The store of an answer: what a bad node served is kept STATIC_TTL from now.
LEMMA PutsStaticStep ==
  ASSUME GatInv, NEW q \in Requests, Gat!PutsStatic(q)
  PROVE  GatInv'
<1>0. UNCHANGED <<row, revoked, routes, last>> /\ last.at \in Nat /\ row.left \in Nat
      /\ gat_req[q].pc = "ended"
  BY DEF Gat!PutsStatic, GatInv, GatLast, GatRow, RowRecord
<1> PICK o : o = gat_req[q]
  OBVIOUS
<1>1. ReqSound(o) /\ o \in ReqRecord /\ o.pc = "ended" /\ o.at \in Nat /\ o.body \in Bodies
  BY <1>0, ReqFields DEF GatInv, GatReqs, ReqSound
<1>2. o # Gat!IdleReq /\ last.at <= o.at + MaxLag
  BY <1>1, IdleSound DEF ReqSound
<1>3. static' = [body |-> o.body, until |-> last.at + STATIC_TTL]
  BY DEF Gat!PutsStatic, Gat!now
<1>4. static' \in [body : Bodies, until : Nat] /\ static'.body = o.body /\ static'.until = last.at + STATIC_TTL
  BY <1>0, <1>1, <1>3, GateNumbers
<1>5. o.body = "wrong" => RunsBad \/ last.at + STATIC_TTL + 1 <= row.left + ROUTE_TTL + 2 * MaxLag + STATIC_TTL
  BY <1>0, <1>1, <1>2, GateNumbers DEF ReqSound, ReqFresh
<1>6. GatStatic'
  BY <1>0, <1>4, <1>5, GateNumbers DEF GatStatic, RunsBad
<1>7. GatReqs'
  <2>1. CASE Gat!Set(q, Gat!IdleReq)
    BY <1>0, <2>1, IdleReqSound, ReqStep DEF GatInv
  <2>2. CASE Gat!Set(q, [o EXCEPT !.body = "none"])
    <3> DEFINE r == [o EXCEPT !.body = "none"]
    <3>1. r \in ReqRecord /\ r.pc = o.pc /\ r.put = o.put /\ r.route = o.route /\ r.body = "none" /\ r.at = o.at
      BY <1>1 DEF ReqRecord, Bodies
    <3> HIDE DEF r
    <3>2. ReqSound(r)
      BY <1>1, <1>2, <3>1, LessSound
    <3> QED
      BY <1>0, <2>2, <3>2, ReqStep DEF GatInv, r
  <2> QED
    BY <2>1, <2>2 DEF Gat!PutsStatic
<1>8. GatRow' /\ GatRoutes' /\ GatLast'
  <2>1. GatRow' /\ GatRoutes'
    BY <1>0 DEF GatInv, GatRow, GatRoutes, Fresh
  <2>2. GatLast'
    BY <1>0 DEF GatInv, GatLast, Gat!StoppedIsGone, WrongEnds, RunsBad, Gat!RevokedKeyIsOut, Gat!now
  <2> QED
    BY <2>1, <2>2
<1> QED
  BY <1>6, <1>7, <1>8 DEF GatInv

-----------------------------------------------------------------------------
(* The gateway as a whole. *)

\* The invariant of the gateway holds at the start, and every step keeps it.
LEMMA GatInit == Gat!Init => GatInv
<1> SUFFICES ASSUME Gat!Init PROVE GatInv
  OBVIOUS
<1>1. /\ last = [body |-> "none", key |-> Nobody, at |-> 1] /\ revoked = [k \in EndpointKeys |-> 0]
      /\ routes = [route |-> Gat!NoRoute, until |-> 0] /\ static = [body |-> "none", until |-> 0]
      /\ gat_req = [q \in Requests |-> Gat!IdleReq]
  BY DEF Gat!Init
<1>2. row \in RowRecord /\ row.left = 0
  BY DEF Gat!Init, RowRecord, Kinds, States, Gat!Kinds
<1>3. GatRow
  BY <1>1, <1>2 DEF GatRow
<1>4. GatReqs
  BY <1>1, IdleReqSound DEF GatReqs
<1>5. GatRoutes
  BY <1>1, IdleSound, GateNumbers DEF GatRoutes, Fresh
<1>6. GatStatic
  BY <1>1, GateNumbers DEF GatStatic, Bodies
<1>7. GatLast
  BY <1>1 DEF GatLast, Bodies, Gat!StoppedIsGone, WrongEnds, Gat!RevokedKeyIsOut
<1> QED
  BY <1>3, <1>4, <1>5, <1>6, <1>7 DEF GatInv

\* A step of the gateway.
LEMMA GatNext == ASSUME GatInv, Gat!Next PROVE GatInv'
<1>1. CASE Gat!Stop \/ Gat!Requeue \/ \E n \in Sites : Gat!Start(n)
  BY <1>1, LeaveStep, StartStep
<1>2. CASE \E k \in EndpointKeys : Gat!revokeKey(k)
  BY <1>2, RevokeStep
<1>3. ASSUME NEW q \in Requests,
             \/ \E k \in EndpointKeys \cup {Nobody} : Gat!Arrives(q, k)
             \/ Gat!ReadsRow(q) \/ Gat!liveKeyHashes(q) \/ Gat!ApiUnavailable(q) \/ Gat!Routed(q) \/ Gat!PutsRoute(q)
             \/ Gat!Refuses(q) \/ Gat!Hits(q) \/ Gat!Serves(q) \/ Gat!Unreachable(q) \/ Gat!PutsStatic(q)
      PROVE  GatInv'
  BY <1>3, ArrivesStep, ReadsRowStep, LiveKeysStep, UnavailableStep, RoutedStep, PutsRouteStep, SilentStep, HitsStep,
     ServesStep, PutsStaticStep
<1>4. CASE Gat!Tick
  BY <1>4, TickStep
<1> QED
  BY <1>1, <1>2, <1>3, <1>4 DEF Gat!Next

\* The other components leave it.
LEMMA GatKept == ASSUME GatInv, UNCHANGED gatVars PROVE GatInv'
<1>1. UNCHANGED <<row, revoked, routes, static, gat_req, last>>
  BY DEF gatVars
<1>2. GatRow' /\ GatRoutes' /\ GatStatic'
  BY <1>1 DEF GatInv, GatRow, GatRoutes, GatStatic, Fresh, RunsBad
<1>3. GatReqs'
  BY <1>1 DEF GatInv, GatReqs, ReqSound, ReqFresh, Fresh, RunsBad
<1>4. GatLast'
  BY <1>1 DEF GatInv, GatLast, Gat!StoppedIsGone, WrongEnds, RunsBad, Gat!RevokedKeyIsOut, Gat!now
<1> QED
  BY <1>2, <1>3, <1>4 DEF GatInv

\* What the run checks.
LEMMA GatSound == GatInv => GatewaySound
<1> SUFFICES ASSUME GatInv PROVE Gat!TypeOK /\ Gat!WrongIsGone
  BY DEF GatInv, GatLast, GatewaySound
<1>1. Gat!TypeOK
  BY ReqFields DEF GatInv, GatRow, RowRecord, States, GatRoutes, GatStatic, GatReqs, ReqSound, Phases, Gat!TypeOK, Gat!now
<1>2. Gat!WrongIsGone
  BY GateNumbers DEF GatInv, GatRow, RowRecord, GatLast, WrongEnds, RunsBad, Gat!WrongIsGone, Gat!now
<1> QED
  BY <1>1, <1>2

\* However lookups, answers and late stores overlap with stops, moves and revocations: within the route cache's time
\* and twice the lag of a request a stopped deployment is not served, a revoked key not accepted, and, with the static
\* cache's time on top for a relayed site, what a bad node or another tenant served not seen again.
THEOREM GatewayStaysSound == TrafficSpec => []GatewaySound
<1>1. TrafficInit => GatInv
  BY GatInit DEF TrafficInit
<1>2. GatInv /\ [TrafficNext]_traffic => GatInv'
  <2> SUFFICES ASSUME GatInv, [TrafficNext]_traffic PROVE GatInv'
    OBVIOUS
  <2>1. CASE Gat!Next
    BY <2>1, GatNext
  <2>2. CASE UNCHANGED gatVars
    BY <2>2, GatKept
  <2> QED
    BY <2>1, <2>2 DEF TrafficNext, RelayOnly, ProbesOnly, GatewayOnly, traffic
<1>3. GatInv => GatewaySound
  BY GatSound
<1> QED
  BY <1>1, <1>2, <1>3, PTL DEF TrafficSpec

-----------------------------------------------------------------------------
(* The copies of a stored object: the inductive invariant. *)

CopyPhases == {"pending", "held", "suspect", "dropping"}
RunPhases == {"idle", "held", "pick", "insert", "end", "check", "audit"}
AgentPhases == {"idle", "instr", "delete", "fetch", "body", "report", "sched", "down"}
Told == StoIds \X {"held", "deleted", "failed"}

RunRecord ==
  [pc : RunPhases, live : SUBSET ((0..(Copies - 1)) \X StoNodes), held : SUBSET StoNodes,
   pick : {None} \cup (Nat \X StoNodes), since : SUBSET StoIds, done : SUBSET StoNodes, copy : StoIds \cup {None}]
AgentRecord ==
  [pc : AgentPhases, fetch : SUBSET StoIds, drop : SUBSET StoIds, copy : StoIds \cup {None}, out : Seq(Told), sent : Nat]

\* A row that belongs to node n, or did; and one that is never live again.
MineOf(c, n) == c \in used /\ (copy[c] # None => copy[c].node = n)
Ended(c) == c \in used /\ (copy[c] # None => copy[c].st = "dropping")

StoTypes ==
  /\ copy \in [StoIds -> {None} \cup Sto!Row] /\ used \subseteq StoIds /\ want \in BOOLEAN /\ retired \in BOOLEAN
  /\ sched \in [StoNodes -> BOOLEAN] /\ disk \in [StoNodes -> SUBSET StoIds] /\ forgot \subseteq StoNodes
  /\ \A c \in StoIds : copy[c] # None => c \in used

\* A run that inserts has picked an index and a node; one that checks knows the node of its copy.
RunKnows(r) ==
  /\ IsFiniteSet(r.live)
  /\ r.pc = "insert" => r.pick \in (0..(Copies - 1)) \X StoNodes
  /\ r.pc \in {"check", "audit"} => r.pick \in Nat \X StoNodes
  /\ r.pc = "audit" => r.copy # None /\ MineOf(r.copy, r.pick[2])
StoRuns == run \in [Runs -> RunRecord] /\ \A r \in Runs : RunKnows(run[r])

\* What an agent has to report was so when it was written down, and stays so as far as the API reads it.
Tells(n, m) ==
  /\ MineOf(m[1], n)
  /\ m[2] = "held" => m[1] \in disk[n] \/ Ended(m[1])
  /\ m[2] = "deleted" => Ended(m[1]) /\ m[1] \notin disk[n]

\* An agent fetches, deletes and downloads what is or was its own; what it deletes is never live again, and what it
\* downloads it has not reported deleted.
AgentKnows(n, a) ==
  /\ \A c \in a.fetch : MineOf(c, n)
  /\ \A c \in a.drop : MineOf(c, n) /\ Ended(c)
  /\ a.pc = "body" => /\ a.copy # None /\ MineOf(a.copy, n) /\ (n \notin forgot => copy[a.copy] # None)
                      /\ \A i \in 1..Len(a.out) : a.out[i] # <<a.copy, "deleted">>
  /\ \A i \in 1..Len(a.out) : Tells(n, a.out[i])
  /\ a.pc = "sched" => a.sent < Len(a.out)
StoAgents == agent \in [StoNodes -> AgentRecord] /\ \A n \in StoNodes : AgentKnows(n, agent[n])

\* A file is of a copy of the node, and known unless the node was forgotten.
DiskMine == \A n \in StoNodes : \A c \in disk[n] : MineOf(c, n) /\ (n \notin forgot => copy[c] # None)

StoHeld == \A c \in StoIds : copy[c] # None /\ copy[c].st \in {"held", "suspect"} => c \in disk[copy[c].node]
StoSched ==
  \A c \in StoIds : copy[c] # None /\ copy[c].st = "held" => sched[copy[c].node] \/ agent[copy[c].node].pc = "sched"

StoInv == StoTypes /\ StoRuns /\ StoAgents /\ DiskMine /\ StoHeld /\ StoSched

-----------------------------------------------------------------------------
\* What the assumption says of the constants.
LEMMA StoNumbers ==
  /\ None \notin StoNodes /\ None \notin StoIds /\ None \notin Sto!Row /\ IsFiniteSet(StoIds)
  /\ Copies \in Nat \ {0} /\ Fetches \in Nat \ {0}
<1>1. /\ None \notin StoNodes \cup StoIds \cup Sto!Row /\ UNION StoNetworks = StoNodes /\ IsFiniteSet(StoIds)
      /\ Copies \in Nat \ {0} /\ Fetches \in Nat \ {0}
  BY FailingAssumption DEF Sto!StorageAssumption, Sto!IsFiniteSet, IsFiniteSet
<1> QED
  BY <1>1

\* The fields of a row.
LEMMA RowFields ==
  ASSUME NEW w \in Sto!Row
  PROVE  /\ w.idx \in 0..(Copies - 1) /\ w.node \in StoNodes /\ w.st \in CopyPhases /\ w.fetches \in 0..Fetches
         /\ w.checked \in BOOLEAN /\ w # None
BY StoNumbers DEF Sto!Row, CopyPhases

\* A row is removed and comes back neither; it stays on its node, and dropping.
Later ==
  /\ used \subseteq used'
  /\ \A c \in used : copy'[c] # None =>
       copy[c] # None /\ copy'[c].node = copy[c].node /\ (copy[c].st = "dropping" => copy'[c].st = "dropping")

\* What was a row of a node stays one, and what has ended stays ended.
LEMMA LaterSound ==
  ASSUME Later, NEW c
  PROVE  /\ \A n : MineOf(c, n) => MineOf(c, n)'
         /\ Ended(c) => Ended(c)'
BY DEF Later, MineOf, Ended

\* No row is removed, moved, revived or newly held.
RowsStep ==
  \A c \in StoIds :
    \/ copy'[c] = copy[c]
    \/ /\ copy[c] # None /\ copy'[c] \in Sto!Row /\ copy'[c].node = copy[c].node
       /\ copy[c].st = "dropping" => copy'[c].st = "dropping"
       /\ copy'[c].st \in {"held", "suspect"} => copy[c].st \in {"held", "suspect"}
       /\ copy'[c].st = "held" => copy[c].st = "held"

\* Rows that only go on keep their types and their places.
LEMMA RowsLater ==
  ASSUME StoTypes, RowsStep, used' = used, copy' = [c \in StoIds |-> copy'[c]]
  PROVE  /\ Later /\ copy' \in [StoIds -> {None} \cup Sto!Row]
         /\ \A c \in StoIds : copy'[c] # None => c \in used'
         /\ \A c \in StoIds : (copy[c] # None <=> copy'[c] # None)
<1>1. \A c \in StoIds : /\ copy'[c] \in {None} \cup Sto!Row
                        /\ copy[c] # None <=> copy'[c] # None
                        /\ copy'[c] # None => /\ copy[c] # None /\ copy'[c].node = copy[c].node
                                              /\ copy[c].st = "dropping" => copy'[c].st = "dropping"
  BY RowFields DEF StoTypes, RowsStep
<1>2. copy' \in [StoIds -> {None} \cup Sto!Row]
  BY <1>1
<1> QED
  BY <1>1, <1>2 DEF StoTypes, Later

\* What a run does to one record of runs.
LEMMA RunsStep ==
  ASSUME StoRuns, Later, NEW r \in Runs, NEW w \in RunRecord, RunKnows(w)', run' = [run EXCEPT ![r] = w]
  PROVE  StoRuns'
<1>1. run' \in [Runs -> RunRecord]
  BY DEF StoRuns
<1>2. ASSUME NEW q \in Runs PROVE RunKnows(run[q])'
  <2>1. CASE q = r
    <3>1. run'[q] = w
      BY <2>1 DEF StoRuns
    <3> QED
      BY <3>1 DEF RunKnows, MineOf
  <2>2. CASE q # r
    <3> PICK v : v = run[q]
      OBVIOUS
    <3>1. run'[q] = v /\ RunKnows(v)
      BY <2>2 DEF StoRuns
    <3>2. RunKnows(v)'
      BY <3>1, LaterSound DEF RunKnows
    <3> QED
      BY <3>1, <3>2 DEF RunKnows, MineOf
  <2> QED
    BY <2>1, <2>2
<1> QED
  BY <1>1, <1>2 DEF StoRuns

\* The runs keep what they know when they do nothing.
LEMMA RunsKept ==
  ASSUME StoRuns, Later, UNCHANGED run
  PROVE  StoRuns'
<1>1. ASSUME NEW q \in Runs PROVE RunKnows(run[q])'
  <2> PICK v : v = run[q]
    OBVIOUS
  <2>1. run'[q] = v /\ RunKnows(v)
    BY DEF StoRuns
  <2>2. RunKnows(v)'
    BY <2>1, LaterSound DEF RunKnows
  <2> QED
    BY <2>1, <2>2 DEF RunKnows, MineOf
<1> QED
  BY <1>1 DEF StoRuns

\* What an agent knows stays true while rows only go on and nothing of its node is removed.
LEMMA AgentKept ==
  ASSUME Later, NEW n \in StoNodes, NEW a, AgentKnows(n, a), UNCHANGED disk, forgot \subseteq forgot',
         a.pc = "body" => (n \notin forgot' /\ copy[a.copy] # None => copy'[a.copy] # None)
  PROVE  AgentKnows(n, a)'
<1>1. \A c : /\ MineOf(c, n) => MineOf(c, n)'
             /\ Ended(c) => Ended(c)'
  BY LaterSound
<1>2. \A m : Tells(n, m) => Tells(n, m)'
  BY <1>1 DEF Tells
<1> QED
  BY <1>1, <1>2 DEF AgentKnows

\* A step of the API that touches no agent and no disk.
LEMMA ApiStep ==
  ASSUME StoInv, StoTypes', StoRuns', Later, UNCHANGED <<agent, disk>>, forgot \subseteq forgot',
         \A c \in StoIds : copy[c] # None /\ copy'[c] = None => copy[c].node \in forgot',
         \A c \in StoIds : copy'[c] # None /\ copy'[c].st \in {"held", "suspect"} =>
           copy[c] # None /\ copy[c].st \in {"held", "suspect"} /\ c \in used,
         StoSched'
  PROVE  StoInv'
<1>1. StoAgents'
  <2> SUFFICES ASSUME NEW n \in StoNodes PROVE AgentKnows(n, agent[n])'
    BY DEF StoInv, StoAgents
  <2> PICK a : a = agent[n]
    OBVIOUS
  <2>1. AgentKnows(n, a) /\ a \in AgentRecord /\ agent'[n] = a
    BY DEF StoInv, StoAgents
  <2>2. a.pc = "body" => (n \notin forgot' /\ copy[a.copy] # None => copy'[a.copy] # None)
    <3>1. a.pc = "body" => a.copy \in StoIds /\ MineOf(a.copy, n)
      BY <2>1 DEF AgentKnows, AgentRecord
    <3> QED
      BY <3>1 DEF MineOf
  <2>3. AgentKnows(n, a)'
    BY <2>1, <2>2, AgentKept
  <2> QED
    BY <2>1, <2>3 DEF AgentKnows, Tells, MineOf, Ended
<1>2. DiskMine'
  <2> SUFFICES ASSUME NEW n \in StoNodes, NEW c \in disk[n] PROVE MineOf(c, n)' /\ (n \notin forgot' => copy'[c] # None)
    BY DEF DiskMine
  <2>1. c \in StoIds /\ MineOf(c, n) /\ (n \notin forgot => copy[c] # None)
    BY DEF StoInv, StoTypes, DiskMine
  <2>2. MineOf(c, n)'
    BY <2>1, LaterSound
  <2>3. n \notin forgot' => copy'[c] # None
    BY <2>1 DEF MineOf
  <2> QED
    BY <2>2, <2>3
<1>3. StoHeld'
  BY DEF StoInv, StoHeld, Later
<1> QED
  BY <1>1, <1>2, <1>3, SMTT(60) DEF StoInv

\* One that leaves every row where it is, and its node scheduled while it is held.
LEMMA QuietApi ==
  ASSUME StoInv, StoRuns', RowsStep, copy' = [c \in StoIds |-> copy'[c]], UNCHANGED <<used, agent, disk, forgot>>,
         want' \in BOOLEAN, retired' \in BOOLEAN, sched' \in [StoNodes -> BOOLEAN],
         \A n \in StoNodes : sched[n] => sched'[n] \/ \A c \in StoIds : copy[c] # None /\ copy[c].node = n => copy[c].st # "held"
  PROVE  StoInv'
<1>1. /\ Later /\ copy' \in [StoIds -> {None} \cup Sto!Row]
      /\ \A c \in StoIds : copy'[c] # None => c \in used'
      /\ \A c \in StoIds : (copy[c] # None <=> copy'[c] # None)
  BY RowsLater DEF StoInv
<1>2. StoTypes'
  BY <1>1 DEF StoInv, StoTypes
<1>3. \A c \in StoIds : copy'[c] # None => /\ copy[c] # None /\ c \in used
                                           /\ copy'[c].node = copy[c].node /\ copy[c].node \in StoNodes
                                           /\ copy'[c].st \in {"held", "suspect"} => copy[c].st \in {"held", "suspect"}
                                           /\ copy'[c].st = "held" => copy[c].st = "held"
  BY <1>1, RowFields DEF StoInv, StoTypes, RowsStep
<1>4. StoSched'
  BY <1>3 DEF StoInv, StoSched
<1> QED
  BY <1>1, <1>2, <1>3, <1>4, ApiStep

-----------------------------------------------------------------------------
(* A cron run. *)

\* The cardinality of the instance is that of the library.
LEMMA StoCard == \A S : Sto!Cardinality(S) = Cardinality(S)
BY DEF Sto!Cardinality, Cardinality

\* A move to dropping only goes on.
LEMMA MoveRows ==
  ASSUME StoTypes, NEW cs, NEW from, copy' = Sto!Move(cs, from, "dropping")
  PROVE  RowsStep /\ copy' = [c \in StoIds |-> copy'[c]]
<1>1. copy' = [c \in StoIds |-> copy'[c]]
  BY DEF Sto!Move
<1>2. ASSUME NEW c \in StoIds
      PROVE  \/ copy'[c] = copy[c]
             \/ /\ copy[c] # None /\ copy'[c] \in Sto!Row /\ copy'[c].node = copy[c].node
                /\ copy'[c].st = "dropping"
  <2>1. CASE c \in cs \cap Sto!In(from)
    <3>1. copy[c] # None /\ copy[c] \in Sto!Row
      BY <2>1 DEF Sto!In, Sto!Rows, StoTypes
    <3>2. copy'[c] = [copy[c] EXCEPT !.st = "dropping"]
      BY <2>1 DEF Sto!Move
    <3> QED
      BY <3>1, <3>2 DEF Sto!Row
  <2>2. CASE c \notin cs \cap Sto!In(from)
    BY <2>2 DEF Sto!Move
  <2> QED
    BY <2>1, <2>2
<1>3. RowsStep
  BY <1>2 DEF RowsStep
<1> QED
  BY <1>1, <1>3

\* So does no move at all.
LEMMA SameRows ==
  ASSUME StoTypes, UNCHANGED <<copy, used>>
  PROVE  RowsStep /\ Later /\ copy' = [c \in StoIds |-> copy'[c]]
BY DEF StoTypes, RowsStep, Later

\* The statements of expireCopies, but for the drops of a node that is gone.
LEMMA ExpireSound ==
  ASSUME StoInv, NEW r \in Runs, Sto!ExpireStale(r) \/ Sto!ExpireOffline(r) \/ Sto!ExpireObject(r)
  PROVE  StoInv'
<1>1. PICK cs, from : copy' = Sto!Move(cs, from, "dropping")
  BY DEF Sto!ExpireStale, Sto!ExpireOffline, Sto!ExpireObject
<1>2. UNCHANGED <<used, sched, forgot, run, agent, disk>> /\ want' \in BOOLEAN /\ retired' \in BOOLEAN
  BY DEF Sto!ExpireStale, Sto!ExpireOffline, Sto!ExpireObject, StoInv, StoTypes
<1>3. RowsStep /\ copy' = [c \in StoIds |-> copy'[c]]
  BY <1>1, MoveRows DEF StoInv
<1>4. StoRuns'
  BY <1>2, <1>3, RowsLater, RunsKept DEF StoInv
<1> QED
  BY <1>2, <1>3, <1>4, QuietApi DEF StoInv, StoTypes

\* The drops of a node that has been gone for a month.
LEMMA ForgetSound ==
  ASSUME StoInv, NEW r \in Runs, Sto!Forget(r)
  PROVE  StoInv'
<1>1. PICK n \in StoNodes : /\ copy' = [c \in StoIds |-> IF c \in Sto!Of(n) \cap Sto!In({"dropping"}) THEN None ELSE copy[c]]
                            /\ forgot' = forgot \cup {n}
  BY DEF Sto!Forget
<1>2. UNCHANGED <<used, want, retired, sched, run, agent, disk>>
  BY DEF Sto!Forget, Sto!object
<1>3. \A c \in StoIds : \/ copy'[c] = copy[c]
                        \/ copy[c] # None /\ copy[c].node = n /\ copy[c].st = "dropping" /\ copy'[c] = None
  BY <1>1 DEF Sto!Of, Sto!In, Sto!Rows
<1>4. Later
  BY <1>2, <1>3 DEF Later, StoInv, StoTypes
<1>5. StoTypes'
  BY <1>1, <1>2, <1>3 DEF StoInv, StoTypes
<1>6. StoRuns'
  BY <1>2, <1>4, RunsKept DEF StoInv
<1>7. StoSched'
  BY <1>2, <1>3 DEF StoInv, StoSched
<1>8. \A c \in StoIds : copy[c] # None /\ copy'[c] = None => copy[c].node \in forgot'
  BY <1>1, <1>3
<1>9. \A c \in StoIds : copy'[c] # None /\ copy'[c].st \in {"held", "suspect"} =>
        copy[c] # None /\ copy[c].st \in {"held", "suspect"} /\ c \in used
  BY <1>3 DEF StoInv, StoTypes
<1> QED
  BY <1>1, <1>2, <1>4, <1>5, <1>6, <1>7, <1>8, <1>9, ApiStep

\* A run that touches no row.
LEMMA RunOnly ==
  ASSUME StoInv, NEW r \in Runs, NEW w \in RunRecord, RunKnows(w), run' = [run EXCEPT ![r] = w],
         UNCHANGED <<copy, used, retired, sched, forgot, agent, disk>>, want' \in BOOLEAN
  PROVE  StoInv'
<1>1. RowsStep /\ Later /\ copy' = [c \in StoIds |-> copy'[c]]
  BY SameRows DEF StoInv
<1>2. RunKnows(w)'
  BY <1>1, LaterSound DEF RunKnows
<1>3. StoRuns'
  BY <1>1, <1>2, RunsStep DEF StoInv
<1> QED
  BY <1>1, <1>3, QuietApi DEF StoInv, StoTypes

\* A record of runs by its fields.
LEMMA RunIs ==
  ASSUME NEW h, h = [x \in DOMAIN h |-> h[x]], DOMAIN h = {"pc", "live", "held", "pick", "since", "done", "copy"},
         h.pc \in RunPhases, h.live \subseteq (0..(Copies - 1)) \X StoNodes, h.held \subseteq StoNodes,
         h.pick \in {None} \cup (Nat \X StoNodes), h.since \subseteq StoIds, h.done \subseteq StoNodes,
         h.copy \in StoIds \cup {None}
  PROVE  h \in RunRecord
BY DEF RunRecord

\* And the fields of such a record.
LEMMA RunFields ==
  ASSUME NEW h \in RunRecord
  PROVE  /\ h = [x \in DOMAIN h |-> h[x]] /\ DOMAIN h = {"pc", "live", "held", "pick", "since", "done", "copy"}
         /\ h.pc \in RunPhases /\ h.live \subseteq (0..(Copies - 1)) \X StoNodes /\ h.held \subseteq StoNodes
         /\ h.pick \in {None} \cup (Nat \X StoNodes) /\ h.since \subseteq StoIds /\ h.done \subseteq StoNodes
         /\ h.copy \in StoIds \cup {None}
BY DEF RunRecord

\* A run that has not begun.
LEMMA IdleRunSound ==
  /\ Sto!IdleRun \in RunRecord /\ Sto!IdleRun.pc = "idle" /\ Sto!IdleRun.live = {} /\ Sto!IdleRun.done = {}
  /\ RunKnows(Sto!IdleRun)
<1>1. /\ Sto!IdleRun \in RunRecord /\ Sto!IdleRun.pc = "idle" /\ Sto!IdleRun.live = {} /\ Sto!IdleRun.done = {}
  BY DEF Sto!IdleRun, RunRecord, RunPhases
<1> QED
  BY <1>1, FS_EmptySet DEF RunKnows

\* A run that has nothing under way but what it has done.
LEMMA IdleDone ==
  ASSUME NEW done \in SUBSET StoNodes, NEW h, h = [Sto!IdleRun EXCEPT !.done = done]
  PROVE  h \in RunRecord /\ RunKnows(h)
<1>1. h \in RunRecord /\ h.pc = "idle" /\ h.live = {}
  BY IdleRunSound DEF RunRecord
<1> QED
  BY <1>1, FS_EmptySet DEF RunKnows

\* Finitely many copies have finitely many pairs of an index and a node.
LEMMA PairsFinite ==
  ASSUME NEW L, IsFiniteSet(L), NEW q
  PROVE  IsFiniteSet({<<q[c].idx, q[c].node>> : c \in L})
<1> DEFINE P == {<<q[c].idx, q[c].node>> : c \in L}
           f == [c \in L |-> <<q[c].idx, q[c].node>>]
<1>1. f \in Surjection(L, P)
  BY DEF Surjection
<1>2. IsFiniteSet(P)
  <2> HIDE DEF f, P
  <2> QED
    BY <1>1, FS_Surjection
<1> QED
  BY <1>2

\* The live copies that a run reads: finitely many.
LEMMA LivePairs ==
  ASSUME StoTypes, NEW P, P = {<<copy[c].idx, copy[c].node>> : c \in Sto!Live}
  PROVE  P \subseteq (0..(Copies - 1)) \X StoNodes /\ IsFiniteSet(P)
<1>1. Sto!Live \subseteq StoIds /\ \A c \in Sto!Live : copy[c] \in Sto!Row
  BY DEF Sto!Live, Sto!In, Sto!Rows, StoTypes
<1>2. P \subseteq (0..(Copies - 1)) \X StoNodes
  BY <1>1, RowFields
<1>3. IsFiniteSet(Sto!Live)
  BY <1>1, StoNumbers, FS_Subset
<1> QED
  BY <1>2, <1>3, PairsFinite

\* The smallest index without a live copy is below STORAGE_COPIES while there are fewer than that.
LEMMA FreeIndex ==
  ASSUME NEW D, NEW P, P \subseteq (0..(Copies - 1)) \X D, IsFiniteSet(P), Cardinality(P) < Copies
  PROVE  Sto!FreeIdx(P) \in 0..(Copies - 1)
<1> PICK I : I = {l[1] : l \in P}
  OBVIOUS
<1> PICK N : N = 0..(Copies - 1)
  OBVIOUS
<1>1. I \subseteq N
  OBVIOUS
<1>2. Cardinality(P) \in Nat /\ Copies \in Nat
  BY StoNumbers, FS_CardinalityType
<1>3. IsFiniteSet(N) /\ Cardinality(N) = Copies
  BY StoNumbers, FS_Interval
<1>4. Cardinality(I) <= Cardinality(P)
  <2> DEFINE f == [l \in P |-> l[1]]
  <2>1. f \in Surjection(P, I)
    BY DEF Surjection
  <2> HIDE DEF f
  <2> QED
    BY <2>1, FS_Surjection
<1>5. PICK j \in N : j \notin I
  <2>1. CASE N \subseteq I
    <3>1. I = N
      BY <1>1, <2>1
    <3>2. Cardinality(I) = Copies
      BY <1>3, <3>1
    <3> QED
      BY <1>2, <1>4, <3>2
  <2> QED
    BY <2>1
<1> PICK T : T = {i \in N : i \notin I}
  OBVIOUS
<1>6. T \subseteq Nat /\ j \in T
  BY <1>5, StoNumbers
<1>7. PICK m \in T : \A k \in T : ~ (<<k, m>> \in OpToRel(<, Nat))
  BY <1>6, NatLessThanWellFounded, WFMin
<1>8. m \in N /\ m \notin I /\ \A k \in T : ~ (k < m)
  BY <1>6, <1>7 DEF OpToRel
<1>9. \A k \in 0..(m - 1) : k \in I
  <2> SUFFICES ASSUME NEW k \in 0..(m - 1), k \notin I PROVE FALSE
    OBVIOUS
  <2>1. k \in N /\ k < m
    BY <1>8, StoNumbers
  <2> QED
    BY <1>8, <2>1
<1>10. m \in 0..Copies
  BY <1>8, StoNumbers
<1> PICK i : i = Sto!FreeIdx(P)
  OBVIOUS
<1>11. i \in 0..Copies /\ i \notin I /\ \A k \in 0..(i - 1) : k \in I
  BY <1>8, <1>9, <1>10 DEF Sto!FreeIdx
<1>12. i \in 0..(Copies - 1)
  <2> SUFFICES ASSUME i = Copies PROVE FALSE
    BY <1>11, StoNumbers
  <2> QED
    BY <1>5, <1>11
<1> QED
  BY <1>12

\* A turn of placeCopies up to its insert.
LEMMA PlaceSound ==
  ASSUME StoInv, NEW r \in Runs, Sto!PlaceBegin(r) \/ Sto!PlaceHeld(r) \/ Sto!PlacePick(r)
  PROVE  StoInv'
<1> PICK o : o = run[r]
  OBVIOUS
<1>0. o \in RunRecord /\ RunKnows(o) /\ StoTypes
  BY DEF StoInv, StoRuns
<1>1. UNCHANGED <<copy, used, want, retired, sched, forgot, agent, disk>> /\ want' \in BOOLEAN
  BY <1>0 DEF Sto!PlaceBegin, Sto!PlaceHeld, Sto!PlacePick, Sto!api, Sto!object, StoTypes
<1>2. CASE Sto!PlaceBegin(r)
  <2> PICK P : P = {<<copy[c].idx, copy[c].node>> : c \in Sto!Live}
    OBVIOUS
  <2> DEFINE h == [Sto!IdleRun EXCEPT !.pc = "held", !.live = P]
  <2>1. P \subseteq (0..(Copies - 1)) \X StoNodes /\ IsFiniteSet(P)
    BY <1>0, LivePairs
  <2>2. h \in RunRecord /\ h.pc = "held" /\ h.live = P
    BY <2>1, IdleRunSound DEF RunRecord, RunPhases
  <2>3. run' = [run EXCEPT ![r] = h]
    BY <1>2 DEF Sto!PlaceBegin
  <2> HIDE DEF h
  <2>4. RunKnows(h)
    BY <2>1, <2>2 DEF RunKnows
  <2> QED
    BY <1>1, <2>2, <2>3, <2>4, RunOnly
<1>3. CASE Sto!PlaceHeld(r)
  <2> PICK H : H = {copy[c].node : c \in Sto!Rows}
    OBVIOUS
  <2> DEFINE h == [o EXCEPT !.pc = "pick", !.held = H]
  <2>1. H \subseteq StoNodes
    BY <1>0, RowFields DEF Sto!Rows, StoTypes
  <2>2. h \in RunRecord /\ h.pc = "pick" /\ h.live = o.live
    BY <1>0, <2>1 DEF RunRecord, RunPhases
  <2>3. run' = [run EXCEPT ![r] = h]
    BY <1>3 DEF Sto!PlaceHeld
  <2> HIDE DEF h
  <2>4. RunKnows(h)
    BY <1>0, <2>2 DEF RunKnows
  <2> QED
    BY <1>1, <2>2, <2>3, <2>4, RunOnly
<1>4. CASE Sto!PlacePick(r)
  <2>1. CASE run' = [run EXCEPT ![r].pc = "end"]
    <3> DEFINE h == [o EXCEPT !.pc = "end"]
    <3>1. h \in RunRecord /\ h.pc = "end" /\ h.live = o.live
      BY <1>0 DEF RunRecord, RunPhases
    <3>2. run' = [run EXCEPT ![r] = h]
      BY <2>1
    <3> HIDE DEF h
    <3>3. RunKnows(h)
      BY <1>0, <3>1 DEF RunKnows
    <3> QED
      BY <1>1, <3>1, <3>2, <3>3, RunOnly
  <2>2. CASE \E n \in StoNodes : run' = [run EXCEPT ![r].pc = "insert", ![r].pick = <<Sto!FreeIdx(run[r].live), n>>]
    <3> PICK n \in StoNodes : run' = [run EXCEPT ![r].pc = "insert", ![r].pick = <<Sto!FreeIdx(run[r].live), n>>]
      BY <2>2
    <3> PICK i : i = Sto!FreeIdx(o.live)
      OBVIOUS
    <3>1. Cardinality(o.live) < Copies
      BY <1>4, StoCard DEF Sto!PlacePick
    <3>2. i \in 0..(Copies - 1) /\ i \in Nat
      <4>1. o.live \subseteq (0..(Copies - 1)) \X StoNodes
        BY <1>0, RunFields
      <4>2. i \in 0..(Copies - 1)
        BY <1>0, <3>1, <4>1, FreeIndex DEF RunKnows
      <4> QED
        BY <4>2, StoNumbers
    <3> DEFINE h == [o EXCEPT !.pc = "insert", !.pick = <<i, n>>]
    <3>3. h \in RunRecord /\ h.pc = "insert" /\ h.live = o.live /\ h.pick = <<i, n>>
      BY <1>0, <3>2 DEF RunRecord, RunPhases
    <3>4. run' = [run EXCEPT ![r] = h]
      OBVIOUS
    <3> HIDE DEF h
    <3>5. RunKnows(h)
      BY <1>0, <3>2, <3>3 DEF RunKnows
    <3> QED
      BY <1>1, <3>3, <3>4, <3>5, RunOnly
  <2> QED
    BY <1>4, <2>1, <2>2 DEF Sto!PlacePick
<1> QED
  BY <1>2, <1>3, <1>4

\* A run's record after one of its copies was inserted, its own or another's.
LEMMA SinceSound ==
  ASSUME StoInv, NEW q \in Runs, NEW c \in StoIds, NEW h, h = [run[q] EXCEPT !.since = @ \cup {c}], Sto!Placing(q)
  PROVE  h \in RunRecord /\ IsFiniteSet(h.live) /\ h.pc \in {"held", "pick", "insert", "end"}
         /\ (h.pc = "insert" => h.pick \in (0..(Copies - 1)) \X StoNodes)
<1> PICK o : o = run[q]
  OBVIOUS
<1>1. o \in RunRecord /\ RunKnows(o) /\ o.pc \in {"held", "pick", "insert", "end"}
  BY DEF StoInv, StoRuns, Sto!Placing
<1>2. h \in RunRecord /\ h.pc = o.pc /\ h.live = o.live /\ h.pick = o.pick
  BY <1>1 DEF RunRecord
<1> QED
  BY <1>1, <1>2 DEF RunKnows

\* The insert: a row that nobody has heard of.
LEMMA InsertSound ==
  ASSUME StoInv, NEW r \in Runs, Sto!PlaceInsert(r)
  PROVE  StoInv'
<1> PICK o : o = run[r]
  OBVIOUS
<1> PICK p : p = o.pick
  OBVIOUS
<1>0. o \in RunRecord /\ RunKnows(o) /\ o.pc = "insert" /\ StoTypes /\ p \in (0..(Copies - 1)) \X StoNodes
  BY DEF StoInv, StoRuns, Sto!PlaceInsert, RunKnows
<1>1. UNCHANGED <<want, retired, sched, forgot, agent, disk>>
  BY DEF Sto!PlaceInsert
<1>2. CASE run' = [run EXCEPT ![r].pc = "end"] /\ UNCHANGED <<copy, used>>
  <2> DEFINE h == [o EXCEPT !.pc = "end"]
  <2>1. h \in RunRecord /\ h.pc = "end" /\ h.live = o.live
    BY <1>0 DEF RunRecord, RunPhases
  <2>2. run' = [run EXCEPT ![r] = h]
    BY <1>2
  <2> HIDE DEF h
  <2>3. RunKnows(h)
    BY <1>0, <2>1 DEF RunKnows
  <2> QED
    BY <1>0, <1>1, <1>2, <2>1, <2>2, <2>3, RunOnly DEF StoTypes
<1>3. ASSUME NEW c \in StoIds \ used, used' = used \cup {c},
             copy' = [copy EXCEPT ![c] = [idx |-> p[1], node |-> p[2], st |-> "pending", fetches |-> 0, checked |-> FALSE]],
             run' = [q \in Runs |->
                IF q = r THEN [run[r] EXCEPT !.pc = "pick", !.live = @ \cup {p}, !.held = @ \cup {p[2]}, !.since = @ \cup {c}]
                ELSE IF Sto!Placing(q) THEN [run[q] EXCEPT !.since = @ \cup {c}] ELSE run[q]]
      PROVE  StoInv'
  <2> PICK w : w = [idx |-> p[1], node |-> p[2], st |-> "pending", fetches |-> 0, checked |-> FALSE]
    OBVIOUS
  <2>1. w \in Sto!Row /\ w.st = "pending"
    BY <1>0, StoNumbers DEF Sto!Row
  <2>2. copy'[c] = w /\ \A d \in StoIds \ {c} : copy'[d] = copy[d]
    BY <1>0, <1>3 DEF StoTypes
  <2>3. copy' \in [StoIds -> {None} \cup Sto!Row]
    BY <1>0, <1>3, <2>1 DEF StoTypes
  <2>4. Later
    BY <1>0, <1>3, <2>2 DEF StoTypes, Later
  <2>5. StoTypes'
    BY <1>0, <1>1, <1>3, <2>2, <2>3 DEF StoTypes
  <2>6. ASSUME NEW q \in Runs PROVE run'[q] \in RunRecord /\ RunKnows(run[q])'
    <3>1. CASE q = r
      <4> DEFINE h == [o EXCEPT !.pc = "pick", !.live = @ \cup {p}, !.held = @ \cup {p[2]}, !.since = @ \cup {c}]
      <4>1. /\ h = [x \in DOMAIN h |-> h[x]] /\ DOMAIN h = DOMAIN o /\ h.pc = "pick" /\ h.live = o.live \cup {p}
            /\ h.held = o.held \cup {p[2]} /\ h.pick = o.pick /\ h.since = o.since \cup {c} /\ h.done = o.done
            /\ h.copy = o.copy
        BY <1>0 DEF RunRecord
      <4>2. run'[q] = h
        BY <1>3, <3>1
      <4> HIDE DEF h
      <4>3. h \in RunRecord
        <5>1. "pick" \in RunPhases /\ p[2] \in StoNodes /\ {p} \subseteq (0..(Copies - 1)) \X StoNodes
          BY <1>0 DEF RunPhases
        <5>2. h.live \subseteq (0..(Copies - 1)) \X StoNodes
          BY <1>0, <4>1, <5>1, RunFields
        <5>3. h.held \subseteq StoNodes /\ h.since \subseteq StoIds
          BY <1>0, <4>1, <5>1, RunFields
        <5> QED
          BY <1>0, <4>1, <5>1, <5>2, <5>3, RunFields, RunIs
      <4>4. IsFiniteSet(h.live)
        BY <1>0, <4>1, FS_AddElement DEF RunKnows
      <4> QED
        BY <4>1, <4>2, <4>3, <4>4 DEF RunKnows
    <3>2. CASE q # r /\ Sto!Placing(q)
      <4> PICK h : h = [run[q] EXCEPT !.since = @ \cup {c}]
        OBVIOUS
      <4>1. run'[q] = h
        BY <1>3, <3>2
      <4> QED
        BY <3>2, <4>1, SinceSound, ZenonT(60) DEF RunKnows
    <3>3. CASE q # r /\ ~Sto!Placing(q)
      <4> PICK v : v = run[q]
        OBVIOUS
      <4>1. run'[q] = v
        BY <1>3, <3>3
      <4>2. v \in RunRecord /\ RunKnows(v)
        BY DEF StoInv, StoRuns
      <4>3. RunKnows(v)'
        BY <2>4, <4>2, LaterSound DEF RunKnows
      <4> QED
        BY <4>1, <4>2, <4>3 DEF RunKnows, MineOf
    <3> QED
      BY <3>1, <3>2, <3>3
  <2>7. StoRuns'
    <3>1. run' \in [Runs -> RunRecord]
      BY <1>3, <2>6
    <3> QED
      BY <2>6, <3>1 DEF StoRuns
  <2>8. StoSched'
    BY <1>1, <2>1, <2>2 DEF StoInv, StoSched
  <2>9. \A d \in StoIds : copy'[d] # None /\ copy'[d].st \in {"held", "suspect"} =>
          copy[d] # None /\ copy[d].st \in {"held", "suspect"} /\ d \in used
    BY <1>0, <2>1, <2>2 DEF StoTypes
  <2>10. \A d \in StoIds : copy[d] # None /\ copy'[d] = None => copy[d].node \in forgot'
    BY <1>0, <2>2, <1>3 DEF StoTypes
  <2> QED
    BY <1>1, <2>4, <2>5, <2>7, <2>8, <2>9, <2>10, ApiStep
<1> QED
  BY <1>2, <1>3, ZenonT(60) DEF Sto!PlaceInsert

\* A run that is over keeps what it has done.
LEMMA RunDone ==
  ASSUME StoInv, NEW r \in Runs, run' = [run EXCEPT ![r] = [Sto!IdleRun EXCEPT !.done = @]], Later
  PROVE  StoRuns'
<1> PICK h : h = [Sto!IdleRun EXCEPT !.done = @]
  OBVIOUS
<1>1. h \in RunRecord /\ RunKnows(h)
  BY IdleRunSound, IdleDone
<1>2. RunKnows(h)'
  BY <1>1, LaterSound DEF RunKnows
<1> QED
  BY <1>1, <1>2, RunsStep DEF StoInv

\* Or starts over.
LEMMA RunIdle ==
  ASSUME StoInv, NEW r \in Runs, run' = [run EXCEPT ![r] = Sto!IdleRun], Later
  PROVE  StoRuns'
<1>1. RunKnows(Sto!IdleRun)'
  BY IdleRunSound, LaterSound DEF RunKnows
<1> QED
  BY <1>1, IdleRunSound, RunsStep DEF StoInv

\* The object's turn ends, or the run does.
LEMMA TurnEnds ==
  ASSUME StoInv, NEW r \in Runs, Sto!PlaceEnd(r) \/ Sto!RunEnd(r)
  PROVE  StoInv'
<1>1. /\ UNCHANGED <<copy, used, retired, sched, forgot, agent, disk>> /\ want' \in BOOLEAN
      /\ run' = [run EXCEPT ![r] = Sto!IdleRun]
  <2>1. CASE Sto!PlaceEnd(r)
    <3>1. UNCHANGED <<copy, used, retired, sched, forgot, agent, disk>> /\ run' = [run EXCEPT ![r] = Sto!IdleRun]
      BY <2>1 DEF Sto!PlaceEnd
    <3>2. PICK k : k = Sto!Cardinality(run[r].live)
      OBVIOUS
    <3>3. want' = (k < Copies)
      BY <2>1, <3>2 DEF Sto!PlaceEnd
    <3>4. k \in Nat /\ Copies \in Nat
      BY <3>2, StoCard, StoNumbers, FS_CardinalityType DEF StoInv, StoRuns, RunKnows
    <3>5. want' \in BOOLEAN
      BY <3>3, <3>4
    <3> QED
      BY <3>1, <3>5
  <2>2. CASE Sto!RunEnd(r)
    <3>1. UNCHANGED <<copy, used, want, retired, sched, forgot, agent, disk>> /\ run' = [run EXCEPT ![r] = Sto!IdleRun]
      BY <2>2 DEF Sto!RunEnd, Sto!api, Sto!object
    <3> QED
      BY <3>1 DEF StoInv, StoTypes
  <2> QED
    BY <2>1, <2>2
<1>2. RowsStep /\ Later /\ copy' = [c \in StoIds |-> copy'[c]]
  BY <1>1, SameRows DEF StoInv
<1>3. StoRuns'
  BY <1>1, <1>2, RunIdle
<1> QED
  BY <1>1, <1>2, <1>3, QuietApi DEF StoInv, StoTypes

\* A check claims a node and a copy, and finds nothing, a proof, or none.
LEMMA CheckBegins ==
  ASSUME StoInv, NEW r \in Runs, Sto!CheckBegin(r)
  PROVE  StoInv'
<1> PICK o : o = run[r]
  OBVIOUS
<1>0. o \in RunRecord /\ RunKnows(o) /\ StoTypes
  BY DEF StoInv, StoRuns
<1>1. UNCHANGED <<copy, used, want, retired, sched, forgot, agent, disk>> /\ want' \in BOOLEAN
  BY <1>0 DEF Sto!CheckBegin, Sto!api, Sto!object, StoTypes
<1>2. PICK n \in StoNodes, c \in StoIds \cup {None} :
        run' = [run EXCEPT ![r].pc = "check", ![r].pick = <<0, n>>, ![r].copy = c, ![r].done = @ \cup {n}]
  <2>1. \A n \in StoNodes : Sto!Of(n) \cap Sto!In({"held"}) \subseteq StoIds
    BY DEF Sto!Of, Sto!Rows
  <2> QED
    BY <2>1 DEF Sto!CheckBegin
<1> DEFINE h == [o EXCEPT !.pc = "check", !.pick = <<0, n>>, !.copy = c, !.done = @ \cup {n}]
<1>3. /\ h = [x \in DOMAIN h |-> h[x]] /\ DOMAIN h = DOMAIN o /\ h.pc = "check" /\ h.live = o.live
      /\ h.held = o.held /\ h.pick = <<0, n>> /\ h.since = o.since /\ h.done = o.done \cup {n} /\ h.copy = c
  BY <1>0 DEF RunRecord
<1>4. run' = [run EXCEPT ![r] = h]
  BY <1>2
<1> HIDE DEF h
<1>5. h \in RunRecord
  <2>1. "check" \in RunPhases /\ <<0, n>> \in Nat \X StoNodes
    BY DEF RunPhases
  <2>2. h.done \subseteq StoNodes
    BY <1>0, <1>3, RunFields
  <2> QED
    BY <1>0, <1>3, <2>1, <2>2, RunFields, RunIs
<1>6. RunKnows(h)
  BY <1>0, <1>3 DEF RunKnows
<1> QED
  BY <1>1, <1>4, <1>5, <1>6, RunOnly

\* A check finds no held copy: the schedule of the node is kept while it has a live one.
LEMMA CheckNothingSound ==
  ASSUME StoInv, NEW r \in Runs, Sto!CheckNothing(r)
  PROVE  StoInv'
<1>1. PICK n : /\ n = run[r].pick[2] /\ sched' = [sched EXCEPT ![n] = @ /\ Sto!KeepsSchedule(n)]
  BY DEF Sto!CheckNothing
<1>2. /\ UNCHANGED <<copy, used, want, retired, forgot, agent, disk>>
      /\ run' = [run EXCEPT ![r] = [Sto!IdleRun EXCEPT !.done = @]]
  BY DEF Sto!CheckNothing, Sto!object
<1>3. RowsStep /\ Later /\ copy' = [c \in StoIds |-> copy'[c]]
  BY <1>2, SameRows DEF StoInv
<1>4. StoRuns'
  BY <1>2, <1>3, RunDone
<1>5. sched' \in [StoNodes -> BOOLEAN]
  BY <1>1 DEF StoInv, StoTypes
<1>6. ASSUME NEW m \in StoNodes, sched[m], ~sched'[m]
      PROVE  \A c \in StoIds : copy[c] # None /\ copy[c].node = m => copy[c].st # "held"
  <2>1. m = n /\ ~Sto!KeepsSchedule(m)
    BY <1>1, <1>6 DEF StoInv, StoTypes
  <2> QED
    BY <2>1 DEF Sto!KeepsSchedule, Sto!Of, Sto!Live, Sto!In, Sto!Rows
<1> QED
  BY <1>2, <1>3, <1>4, <1>5, <1>6, QuietApi DEF StoInv, StoTypes

\* A check passes.
LEMMA CheckPassSound ==
  ASSUME StoInv, NEW r \in Runs, Sto!CheckPass(r)
  PROVE  StoInv'
<1> PICK c : c = run[r].copy
  OBVIOUS
<1>1. /\ UNCHANGED <<used, want, retired, sched, forgot, agent, disk>>
      /\ run' = [run EXCEPT ![r] = [Sto!IdleRun EXCEPT !.done = @]]
      /\ copy' = IF c \in Sto!Rows THEN [copy EXCEPT ![c].checked = TRUE] ELSE copy
  BY DEF Sto!CheckPass, Sto!object
<1>2. RowsStep /\ Later /\ copy' = [d \in StoIds |-> copy'[d]]
  <2>1. CASE c \notin Sto!Rows
    BY <1>1, <2>1, SameRows, SMTT(60) DEF StoInv
  <2>2. CASE c \in Sto!Rows
    <3>1. c \in StoIds /\ copy[c] # None /\ copy[c] \in Sto!Row
      BY <2>2 DEF Sto!Rows, StoInv, StoTypes
    <3> PICK w : w = [copy[c] EXCEPT !.checked = TRUE]
      OBVIOUS
    <3>2. w \in Sto!Row /\ w.node = copy[c].node /\ w.st = copy[c].st
      BY <3>1 DEF Sto!Row
    <3>3. copy'[c] = w /\ (\A d \in StoIds \ {c} : copy'[d] = copy[d]) /\ copy' = [d \in StoIds |-> copy'[d]]
      BY <1>1, <2>2, <3>1 DEF StoInv, StoTypes
    <3>4. RowsStep
      BY <3>1, <3>2, <3>3 DEF RowsStep
    <3> QED
      BY <1>1, <3>3, <3>4, RowsLater DEF StoInv
  <2> QED
    BY <2>1, <2>2
<1>3. StoRuns'
  BY <1>1, <1>2, RunDone
<1> QED
  BY <1>1, <1>2, <1>3, QuietApi DEF StoInv, StoTypes

\* A check fails: the copy is dropped and the other held copies of the node are suspect.
LEMMA CheckFailSound ==
  ASSUME StoInv, NEW r \in Runs, Sto!CheckFail(r)
  PROVE  StoInv'
<1>1. /\ UNCHANGED <<used, retired, sched, forgot, agent, disk>> /\ want' \in BOOLEAN
      /\ run' = [run EXCEPT ![r] = [Sto!IdleRun EXCEPT !.done = @]]
  BY DEF Sto!CheckFail
<1>2. copy' = [c \in StoIds |->
        IF c = run[r].copy /\ c \in Sto!In({"held", "suspect"}) THEN [copy[c] EXCEPT !.st = "dropping", !.checked = TRUE]
        ELSE IF c \in Sto!Of(run[r].pick[2]) \cap Sto!In({"held"}) THEN [copy[c] EXCEPT !.st = "suspect", !.checked = FALSE]
        ELSE copy[c]]
  BY DEF Sto!CheckFail
<1>3. copy' = [c \in StoIds |-> copy'[c]]
  BY <1>2
<1>4. RowsStep
  <2> SUFFICES ASSUME NEW c \in StoIds, copy'[c] # copy[c]
               PROVE  /\ copy[c] # None /\ copy'[c] \in Sto!Row /\ copy'[c].node = copy[c].node
                      /\ copy[c].st \in {"held", "suspect"} /\ copy'[c].st \in {"dropping", "suspect"}
    BY DEF RowsStep
  <2>1. copy[c] # None /\ copy[c] \in Sto!Row /\ copy[c].st \in {"held", "suspect"}
    BY <1>2 DEF Sto!In, Sto!Rows, StoInv, StoTypes
  <2>2. copy'[c] = [copy[c] EXCEPT !.st = "dropping", !.checked = TRUE]
        \/ copy'[c] = [copy[c] EXCEPT !.st = "suspect", !.checked = FALSE]
    BY <1>2
  <2> QED
    BY <2>1, <2>2 DEF Sto!Row
<1>5. StoRuns'
  BY <1>1, <1>3, <1>4, RowsLater, RunDone DEF StoInv
<1> QED
  BY <1>1, <1>3, <1>4, <1>5, QuietApi DEF StoInv, StoTypes

\* An audit claims a suspect copy and its node.
LEMMA AuditBegins ==
  ASSUME StoInv, NEW r \in Runs, Sto!AuditBegin(r)
  PROVE  StoInv'
<1> PICK o : o = run[r]
  OBVIOUS
<1>0. o \in RunRecord /\ RunKnows(o) /\ StoTypes
  BY DEF StoInv, StoRuns
<1>1. PICK c \in Sto!In({"suspect"}) :
        /\ run' = [run EXCEPT ![r].pc = "audit", ![r].pick = <<0, copy[c].node>>, ![r].copy = c,
                              ![r].done = @ \cup {copy[c].node}]
        /\ copy' = [copy EXCEPT ![c].checked = TRUE]
  BY DEF Sto!AuditBegin
<1>2. UNCHANGED <<used, want, retired, sched, forgot, agent, disk>>
  BY DEF Sto!AuditBegin, Sto!object
<1>3. c \in StoIds /\ copy[c] # None /\ copy[c] \in Sto!Row /\ c \in used
  BY <1>0 DEF Sto!In, Sto!Rows, StoTypes
<1> PICK n : n = copy[c].node
  OBVIOUS
<1>4. n \in StoNodes
  BY <1>3, RowFields
<1>5. RowsStep /\ Later /\ copy' = [d \in StoIds |-> copy'[d]]
  <2> PICK w : w = [copy[c] EXCEPT !.checked = TRUE]
    OBVIOUS
  <2>1. w \in Sto!Row /\ w.node = copy[c].node /\ w.st = copy[c].st
    BY <1>3 DEF Sto!Row
  <2>2. copy'[c] = w /\ (\A d \in StoIds \ {c} : copy'[d] = copy[d]) /\ copy' = [d \in StoIds |-> copy'[d]]
    BY <1>0, <1>1, <1>3 DEF StoTypes
  <2>3. RowsStep
    BY <1>3, <2>1, <2>2 DEF RowsStep
  <2> QED
    BY <1>0, <1>2, <2>2, <2>3, RowsLater
<1> DEFINE h == [o EXCEPT !.pc = "audit", !.pick = <<0, n>>, !.copy = c, !.done = @ \cup {n}]
<1>6. /\ h = [x \in DOMAIN h |-> h[x]] /\ DOMAIN h = DOMAIN o /\ h.pc = "audit" /\ h.live = o.live
      /\ h.held = o.held /\ h.pick = <<0, n>> /\ h.since = o.since /\ h.done = o.done \cup {n} /\ h.copy = c
  BY <1>0 DEF RunRecord
<1>7. run' = [run EXCEPT ![r] = h]
  BY <1>1
<1> HIDE DEF h
<1>8. h \in RunRecord
  <2>1. "audit" \in RunPhases /\ <<0, n>> \in Nat \X StoNodes
    BY <1>4 DEF RunPhases
  <2>2. h.done \subseteq StoNodes
    BY <1>0, <1>4, <1>6, RunFields
  <2> QED
    BY <1>0, <1>3, <1>6, <2>1, <2>2, RunFields, RunIs
<1>9. RunKnows(h)'
  <2>1. MineOf(c, n)
    BY <1>3 DEF MineOf
  <2>2. MineOf(c, n)'
    BY <1>5, <2>1, LaterSound
  <2>3. c # None /\ h.pick[2] = n /\ h.pick \in Nat \X StoNodes
    BY <1>3, <1>4, <1>6, StoNumbers
  <2>4. MineOf(h.copy, h.pick[2])'
    BY <1>6, <2>2, <2>3
  <2> QED
    BY <1>0, <1>6, <2>3, <2>4 DEF RunKnows
<1>10. StoRuns'
  BY <1>5, <1>7, <1>8, <1>9, RunsStep DEF StoInv
<1> QED
  BY <1>0, <1>2, <1>5, <1>10, QuietApi DEF StoTypes

\* An audit fails, and its copy is dropped if it is still suspect.
LEMMA AuditFailSound ==
  ASSUME StoInv, NEW r \in Runs, Sto!AuditFail(r)
  PROVE  StoInv'
<1>1. /\ UNCHANGED <<used, retired, sched, forgot, agent, disk>> /\ want' \in BOOLEAN
      /\ run' = [run EXCEPT ![r] = [Sto!IdleRun EXCEPT !.done = @]]
      /\ copy' = Sto!Move({run[r].copy}, {"suspect"}, "dropping")
  BY DEF Sto!AuditFail
<1>2. RowsStep /\ copy' = [c \in StoIds |-> copy'[c]]
  BY <1>1, MoveRows DEF StoInv
<1>3. StoRuns'
  BY <1>1, <1>2, RowsLater, RunDone DEF StoInv
<1> QED
  BY <1>1, <1>2, <1>3, QuietApi DEF StoInv, StoTypes

\* A suspect copy is held again, and its node scheduled.
LEMMA AuditPassSound ==
  ASSUME StoInv, NEW r \in Runs, Sto!AuditPass(r)
  PROVE  StoInv'
<1> PICK o : o = run[r]
  OBVIOUS
<1> PICK c : c = o.copy
  OBVIOUS
<1> PICK n : n = o.pick[2]
  OBVIOUS
<1>0. o \in RunRecord /\ RunKnows(o) /\ StoTypes /\ o.pc = "audit" /\ c \in StoIds /\ n \in StoNodes /\ MineOf(c, n)
  BY DEF StoInv, StoRuns, Sto!AuditPass, RunKnows, RunRecord
<1>1. /\ UNCHANGED <<used, want, retired, forgot, agent, disk>>
      /\ run' = [run EXCEPT ![r] = [Sto!IdleRun EXCEPT !.done = @]]
      /\ copy' = Sto!Move({c}, {"suspect"}, "held") /\ sched' = [sched EXCEPT ![n] = TRUE]
  BY DEF Sto!AuditPass, Sto!object
<1>2. copy' = [d \in StoIds |-> copy'[d]] /\ \A d \in StoIds \ {c} : copy'[d] = copy[d]
  BY <1>1 DEF Sto!Move
<1>3. \/ copy'[c] = copy[c]
      \/ /\ copy[c] # None /\ copy[c].st = "suspect" /\ copy'[c] \in Sto!Row /\ copy'[c].node = copy[c].node
         /\ copy'[c].st = "held"
  <2>1. CASE c \in Sto!In({"suspect"})
    <3>1. copy[c] # None /\ copy[c] \in Sto!Row /\ copy[c].st = "suspect"
      BY <1>0, <2>1 DEF Sto!In, Sto!Rows, StoTypes
    <3>2. copy'[c] = [copy[c] EXCEPT !.st = "held"]
      BY <1>0, <1>1, <2>1 DEF Sto!Move
    <3> QED
      BY <3>1, <3>2 DEF Sto!Row
  <2>2. CASE c \notin Sto!In({"suspect"})
    BY <1>0, <1>1, <2>2 DEF Sto!Move
  <2> QED
    BY <2>1, <2>2
<1>4. copy' \in [StoIds -> {None} \cup Sto!Row]
  BY <1>0, <1>2, <1>3, SMTT(60) DEF StoTypes
<1>5. Later
  BY <1>0, <1>1, <1>2, <1>3, RowFields, ZenonT(60) DEF Later, StoTypes
<1>6. StoTypes'
  BY <1>0, <1>1, <1>2, <1>3, <1>4, ZenonT(60) DEF StoTypes
<1>7. StoRuns'
  BY <1>1, <1>5, RunDone
<1>8. StoSched'
  <2>1. ASSUME NEW d \in StoIds \ {c}, copy'[d] # None, copy'[d].st = "held"
        PROVE  sched'[copy'[d].node] \/ agent'[copy'[d].node].pc = "sched"
    <3> PICK w : w = copy[d]
      OBVIOUS
    <3>1. copy'[d] = w /\ w # None /\ w.st = "held" /\ w.node \in StoNodes
      BY <1>0, <1>2, <2>1, RowFields DEF StoTypes
    <3>2. sched[w.node] \/ agent[w.node].pc = "sched"
      BY <3>1 DEF StoInv, StoSched
    <3>3. sched[w.node] => sched'[w.node]
      BY <1>0, <1>1, <3>1 DEF StoTypes
    <3> QED
      BY <1>1, <3>1, <3>2, <3>3
  <2>2. copy'[c] # None => copy'[c].node = n /\ sched'[n]
    BY <1>0, <1>1, <1>3, RowFields DEF StoTypes, MineOf
  <2> QED
    BY <2>1, <2>2 DEF StoSched
<1>9. \A d \in StoIds : copy'[d] # None /\ copy'[d].st \in {"held", "suspect"} =>
        copy[d] # None /\ copy[d].st \in {"held", "suspect"} /\ d \in used
  BY <1>0, <1>2, <1>3, RowFields DEF StoTypes
<1>10. \A d \in StoIds : copy[d] # None /\ copy'[d] = None => copy[d].node \in forgot'
  BY <1>0, <1>2, <1>3, RowFields DEF StoTypes
<1> QED
  BY <1>1, <1>5, <1>6, <1>7, <1>8, <1>9, <1>10, ApiStep

\* Every step of a cron run keeps the invariant.
LEMMA RunStepSound == ASSUME StoInv, NEW r \in Runs, Sto!RunStep(r) PROVE StoInv'
BY ExpireSound, ForgetSound, PlaceSound, InsertSound, TurnEnds, CheckBegins, CheckNothingSound, CheckPassSound,
   CheckFailSound, AuditBegins, AuditPassSound, AuditFailSound DEF Sto!RunStep

-----------------------------------------------------------------------------
(* A node's agent. *)

\* The fields of an agent.
LEMMA AgentFields ==
  ASSUME NEW h \in AgentRecord
  PROVE  /\ h = [x \in DOMAIN h |-> h[x]] /\ DOMAIN h = {"pc", "fetch", "drop", "copy", "out", "sent"}
         /\ h.pc \in AgentPhases /\ h.fetch \subseteq StoIds /\ h.drop \subseteq StoIds /\ h.copy \in StoIds \cup {None}
         /\ h.out \in Seq(Told) /\ h.sent \in Nat
BY DEF AgentRecord

\* A record of agents by its fields.
LEMMA AgentIs ==
  ASSUME NEW h, h = [x \in DOMAIN h |-> h[x]], DOMAIN h = {"pc", "fetch", "drop", "copy", "out", "sent"},
         h.pc \in AgentPhases, h.fetch \subseteq StoIds, h.drop \subseteq StoIds, h.copy \in StoIds \cup {None},
         h.out \in Seq(Told), h.sent \in Nat
  PROVE  h \in AgentRecord
BY DEF AgentRecord

\* A report with one more entry.
LEMMA OutAppend ==
  ASSUME NEW s \in Seq(Told), NEW t \in Told, NEW z, z = Append(s, t)
  PROVE  z \in Seq(Told) /\ \A i \in 1..Len(z) : z[i] = t \/ \E j \in 1..Len(s) : z[i] = s[j]
BY AppendProperties

\* And one with several more.
LEMMA OutConcat ==
  ASSUME NEW s \in Seq(Told), NEW f \in Seq(Told), NEW z, z = s \o f
  PROVE  /\ z \in Seq(Told)
         /\ \A i \in 1..Len(z) : (\E j \in 1..Len(f) : z[i] = f[j]) \/ \E j \in 1..Len(s) : z[i] = s[j]
<1>1. /\ z \in Seq(Told) /\ Len(z) = Len(s) + Len(f)
      /\ \A i \in 1..Len(z) : z[i] = IF i <= Len(s) THEN s[i] ELSE f[i - Len(s)]
  BY ConcatProperties
<1>2. Len(s) \in Nat /\ Len(f) \in Nat
  BY LenProperties
<1> QED
  BY <1>1, <1>2

\* The other agents know what they knew, and the other disks stay.
LEMMA AgentStep ==
  ASSUME StoInv, StoTypes', Later, UNCHANGED <<run, forgot>>, NEW n \in StoNodes, NEW a \in AgentRecord,
         agent' = [agent EXCEPT ![n] = a], AgentKnows(n, a)',
         \A m \in StoNodes \ {n} : disk'[m] = disk[m],
         \A c \in disk'[n] : MineOf(c, n)' /\ (n \notin forgot => copy'[c] # None),
         \A c \in StoIds : copy[c] # None /\ copy'[c] = None => copy[c].node = n,
         StoHeld', StoSched'
  PROVE  StoInv'
<1>1. StoRuns'
  BY RunsKept DEF StoInv
<1>2. \A c, m : /\ MineOf(c, m) => MineOf(c, m)'
                /\ Ended(c) => Ended(c)'
  BY LaterSound
<1>3. ASSUME NEW m \in StoNodes PROVE AgentKnows(m, agent[m])'
  <2>1. CASE m = n
    <3>1. agent'[m] = a
      BY <2>1 DEF StoInv, StoAgents
    <3> QED
      BY <2>1, <3>1, SMTT(60) DEF AgentKnows, Tells, MineOf, Ended
  <2>2. CASE m # n
    <3> PICK v : v = agent[m]
      OBVIOUS
    <3>1. agent'[m] = v /\ v \in AgentRecord /\ AgentKnows(m, v)
      BY <2>2 DEF StoInv, StoAgents
    <3>2. disk'[m] = disk[m]
      BY <2>2
    <3>3. \A t : Tells(m, t) => Tells(m, t)'
      BY <1>2, <3>2 DEF Tells
    <3>4. v.pc = "body" /\ m \notin forgot => copy'[v.copy] # None
      <4>1. v.pc = "body" /\ m \notin forgot => v.copy \in StoIds /\ copy[v.copy] # None /\ copy[v.copy].node = m
        BY <3>1, AgentFields DEF AgentKnows, MineOf
      <4> QED
        BY <2>2, <4>1
    <3>5. AgentKnows(m, v)'
      BY <1>2, <3>1, <3>3, <3>4 DEF AgentKnows
    <3> QED
      BY <3>1, <3>5 DEF AgentKnows, Tells, MineOf, Ended
  <2> QED
    BY <2>1, <2>2
<1>4. StoAgents'
  <2>1. agent' \in [StoNodes -> AgentRecord]
    BY DEF StoInv, StoAgents
  <2> QED
    BY <1>3, <2>1 DEF StoAgents
<1>5. ASSUME NEW m \in StoNodes, NEW c \in disk'[m] PROVE MineOf(c, m)' /\ (m \notin forgot' => copy'[c] # None)
  <2>1. CASE m = n
    BY <2>1
  <2>2. CASE m # n
    <3>1. c \in disk[m] /\ c \in StoIds /\ MineOf(c, m) /\ (m \notin forgot => copy[c] # None)
      BY <1>5, <2>2 DEF StoInv, StoTypes, DiskMine
    <3>2. MineOf(c, m)'
      BY <1>2, <3>1
    <3>3. m \notin forgot => copy'[c] # None
      BY <2>2, <3>1 DEF MineOf
    <3> QED
      BY <3>2, <3>3
  <2> QED
    BY <2>1, <2>2
<1>6. DiskMine'
  BY <1>5 DEF DiskMine
<1> QED
  BY <1>1, <1>4, <1>6 DEF StoInv

\* A step of one agent alone.
LEMMA AgentAlone ==
  ASSUME StoInv, UNCHANGED <<copy, used, want, retired, sched, forgot, run, disk>>, NEW n \in StoNodes,
         NEW a \in AgentRecord, agent' = [agent EXCEPT ![n] = a], AgentKnows(n, a), agent[n].pc = "sched" => a.pc = "sched"
  PROVE  StoInv'
<1>1. StoTypes' /\ Later
  BY DEF StoInv, StoTypes, Later
<1>2. AgentKnows(n, a)'
  BY DEF AgentKnows, Tells, MineOf, Ended
<1>3. StoHeld'
  BY DEF StoInv, StoHeld
<1>4. \A m \in StoNodes : agent[m].pc = "sched" => agent'[m].pc = "sched"
  BY DEF StoInv, StoAgents
<1>5. StoSched'
  <2> SUFFICES ASSUME NEW c \in StoIds, copy[c] # None, copy[c].st = "held"
               PROVE  sched[copy[c].node] \/ agent'[copy[c].node].pc = "sched"
    BY DEF StoSched
  <2>1. copy[c].node \in StoNodes
    BY RowFields DEF StoInv, StoTypes
  <2> QED
    BY <1>4, <2>1 DEF StoInv, StoSched
<1>6. \A c \in disk[n] : MineOf(c, n) /\ (n \notin forgot => copy[c] # None)
  BY DEF StoInv, DiskMine
<1>7. \A c \in disk'[n] : MineOf(c, n)' /\ (n \notin forgot => copy'[c] # None)
  BY <1>6 DEF MineOf
<1> QED
  BY <1>1, <1>2, <1>3, <1>5, <1>7, AgentStep

\* An agent with nothing to do, and one that is down.
LEMMA IdleAgentSound ==
  \A n : /\ Sto!IdleAgent \in AgentRecord /\ AgentKnows(n, Sto!IdleAgent)
         /\ [Sto!IdleAgent EXCEPT !.pc = "down"] \in AgentRecord /\ AgentKnows(n, [Sto!IdleAgent EXCEPT !.pc = "down"])
<1>1. ASSUME NEW a \in {Sto!IdleAgent, [Sto!IdleAgent EXCEPT !.pc = "down"]}
      PROVE  /\ a = [x \in DOMAIN a |-> a[x]] /\ DOMAIN a = {"pc", "fetch", "drop", "copy", "out", "sent"}
             /\ a.pc \in {"idle", "down"} /\ a.fetch = {} /\ a.drop = {} /\ a.copy = None /\ a.out = <<>> /\ a.sent = 0
  BY DEF Sto!IdleAgent
<1>2. ASSUME NEW a \in {Sto!IdleAgent, [Sto!IdleAgent EXCEPT !.pc = "down"]}, NEW n
      PROVE  a \in AgentRecord /\ AgentKnows(n, a)
  <2>1. a.out \in Seq(Told) /\ Len(a.out) = 0
    <3>1. a.out = <<>>
      BY <1>1
    <3>2. <<>> \in Seq(Told) /\ Len(<<>>) = 0
      BY EmptySeq
    <3> QED
      BY <3>1, <3>2
  <2>2. a \in AgentRecord
    BY <1>1, <2>1, AgentIs DEF AgentPhases
  <2>3. AgentKnows(n, a)
    BY <1>1, <2>1 DEF AgentKnows
  <2> QED
    BY <2>2, <2>3
<1> QED
  BY <1>2

\* The steps by which an agent starts over.
LEMMA StartsOver ==
  ASSUME StoInv, NEW n \in StoNodes, Sto!Delivered(n) \/ Sto!Crash(n) \/ Sto!Restart(n)
  PROVE  StoInv'
<1>1. UNCHANGED <<copy, used, want, retired, sched, forgot, run, disk>> /\ agent[n].pc # "sched"
  BY DEF Sto!Delivered, Sto!Crash, Sto!Restart, Sto!api, Sto!object
<1>2. PICK a \in {Sto!IdleAgent, [Sto!IdleAgent EXCEPT !.pc = "down"]} : agent' = [agent EXCEPT ![n] = a]
  BY DEF Sto!Delivered, Sto!Crash, Sto!Restart, Sto!Agent
<1> QED
  BY <1>1, <1>2, IdleAgentSound, AgentAlone


\* Only the answer to a whole report may be lost.
LEMMA UndeliveredSound ==
  ASSUME StoInv, ~Torn, NEW n \in StoNodes, Sto!Undelivered(n)
  PROVE  StoInv'
<1> PICK o : o = agent[n]
  OBVIOUS
<1>0. o \in AgentRecord /\ AgentKnows(n, o) /\ o.pc = "report"
  BY DEF StoInv, StoAgents, Sto!Undelivered
<1> DEFINE h == [o EXCEPT !.pc = "idle", !.sent = 0]
<1>1. /\ h = [x \in DOMAIN h |-> h[x]] /\ DOMAIN h = DOMAIN o /\ h.pc = "idle" /\ h.fetch = o.fetch
      /\ h.drop = o.drop /\ h.copy = o.copy /\ h.out = o.out /\ h.sent = 0
  BY <1>0 DEF AgentRecord
<1>2. UNCHANGED <<copy, used, want, retired, sched, forgot, run, disk>> /\ agent' = [agent EXCEPT ![n] = h]
  BY DEF Sto!Undelivered, Sto!Agent, Sto!api, Sto!object
<1> HIDE DEF h
<1>3. h \in AgentRecord
  BY <1>0, <1>1, AgentFields, AgentIs DEF AgentPhases
<1>4. AgentKnows(n, h)
  BY <1>0, <1>1 DEF AgentKnows
<1> QED
  BY <1>0, <1>2, <1>3, <1>4, AgentAlone

\* The instructions: the copies to fetch, then those to delete.
LEMMA InstructSound ==
  ASSUME StoInv, NEW n \in StoNodes, Sto!Instruct(n) \/ Sto!Handle(n)
  PROVE  StoInv'
<1> PICK o : o = agent[n]
  OBVIOUS
<1>0. o \in AgentRecord /\ AgentKnows(n, o) /\ o.pc \in {"idle", "instr"}
  BY DEF StoInv, StoAgents, Sto!Instruct, Sto!Handle
<1>1. UNCHANGED <<copy, used, want, retired, sched, forgot, run, disk>>
  BY DEF Sto!Instruct, Sto!Handle, Sto!api, Sto!object
<1>2. \A c \in Sto!Of(n) : c \in StoIds /\ MineOf(c, n) /\ (c \in Sto!In({"dropping"}) => Ended(c))
  BY DEF Sto!Of, Sto!In, Sto!Rows, StoInv, StoTypes, MineOf, Ended
<1>3. CASE Sto!Instruct(n)
  <2> PICK F : F = {c \in Sto!Of(n) \cap Sto!In({"pending"}) : copy[c].fetches < Fetches}
    OBVIOUS
  <2> DEFINE h == [o EXCEPT !.pc = "instr", !.fetch = F]
  <2>1. /\ h = [x \in DOMAIN h |-> h[x]] /\ DOMAIN h = DOMAIN o /\ h.pc = "instr" /\ h.fetch = F
        /\ h.drop = o.drop /\ h.copy = o.copy /\ h.out = o.out /\ h.sent = o.sent
    BY <1>0 DEF AgentRecord
  <2>2. agent' = [agent EXCEPT ![n] = h]
    BY <1>3 DEF Sto!Instruct, Sto!Agent
  <2> HIDE DEF h
  <2>3. \A c \in F : c \in StoIds /\ MineOf(c, n)
    BY <1>2
  <2>4. h \in AgentRecord
    BY <1>0, <2>1, <2>3, AgentFields, AgentIs DEF AgentPhases
  <2>5. AgentKnows(n, h)
    BY <1>0, <2>1, <2>3 DEF AgentKnows
  <2> QED
    BY <1>0, <1>1, <2>2, <2>4, <2>5, AgentAlone
<1>4. CASE Sto!Handle(n)
  <2> PICK F : F = Sto!Of(n) \cap Sto!In({"dropping"})
    OBVIOUS
  <2> DEFINE h == [o EXCEPT !.pc = "delete", !.drop = F]
  <2>1. /\ h = [x \in DOMAIN h |-> h[x]] /\ DOMAIN h = DOMAIN o /\ h.pc = "delete" /\ h.fetch = o.fetch
        /\ h.drop = F /\ h.copy = o.copy /\ h.out = o.out /\ h.sent = o.sent
    BY <1>0 DEF AgentRecord
  <2>2. agent' = [agent EXCEPT ![n] = h]
    BY <1>4 DEF Sto!Handle, Sto!Agent
  <2> HIDE DEF h
  <2>3. \A c \in F : c \in StoIds /\ MineOf(c, n) /\ Ended(c)
    BY <1>2
  <2>4. h \in AgentRecord
    BY <1>0, <2>1, <2>3, AgentFields, AgentIs DEF AgentPhases
  <2>5. AgentKnows(n, h)
    BY <1>0, <2>1, <2>3 DEF AgentKnows
  <2> QED
    BY <1>0, <1>1, <2>2, <2>4, <2>5, AgentAlone
<1> QED
  BY <1>3, <1>4

\* What an agent has when it has told of one more copy.
LEMMA FetchedSound ==
  ASSUME StoInv, NEW n \in StoNodes, NEW c \in StoIds, NEW s \in {"held", "deleted", "failed"}, agent[n].pc # "sched",
         NEW h, h = Sto!Fetched(n, c, s)
  PROVE  /\ h \in AgentRecord /\ h.pc = "fetch" /\ h.fetch \subseteq agent[n].fetch /\ h.drop = agent[n].drop
         /\ \A i \in 1..Len(h.out) : h.out[i] = <<c, s>> \/ \E j \in 1..Len(agent[n].out) : h.out[i] = agent[n].out[j]
<1> PICK o : o = agent[n]
  OBVIOUS
<1>0. o \in AgentRecord
  BY DEF StoInv, StoAgents
<1>1. /\ h = [x \in DOMAIN h |-> h[x]] /\ DOMAIN h = DOMAIN o /\ h.pc = "fetch" /\ h.fetch = o.fetch \ {c}
      /\ h.drop = o.drop /\ h.copy = None /\ h.out = Append(o.out, <<c, s>>) /\ h.sent = o.sent
  BY <1>0 DEF AgentRecord, Sto!Fetched
<1>2. <<c, s>> \in Told
  BY DEF Told
<1>3. /\ h.out \in Seq(Told)
      /\ \A i \in 1..Len(h.out) : h.out[i] = <<c, s>> \/ \E j \in 1..Len(o.out) : h.out[i] = o.out[j]
  BY <1>0, <1>1, <1>2, OutAppend, AgentFields
<1>4. h \in AgentRecord
  <2>1. h.fetch \subseteq StoIds /\ h.drop \subseteq StoIds /\ h.sent \in Nat /\ DOMAIN o = {"pc", "fetch", "drop", "copy", "out", "sent"}
    BY <1>0, <1>1, AgentFields
  <2>2. h.pc \in AgentPhases /\ h.copy \in StoIds \cup {None}
    BY <1>1 DEF AgentPhases
  <2> QED
    BY <1>1, <1>3, <2>1, <2>2, AgentIs, ZenonT(60)
<1> QED
  BY <1>1, <1>3, <1>4

\* A copy that is on disk is told again, one that does not fit has failed; a body that is lost is told of to nobody.
LEMMA FetchKnownSound ==
  ASSUME StoInv, NEW n \in StoNodes, Sto!FetchKnown(n)
  PROVE  StoInv'
<1> PICK o : o = agent[n]
  OBVIOUS
<1>0. o \in AgentRecord /\ AgentKnows(n, o) /\ o.pc = "fetch"
  BY DEF StoInv, StoAgents, Sto!FetchKnown
<1>1. UNCHANGED <<copy, used, want, retired, sched, forgot, run, disk>>
  BY DEF Sto!FetchKnown, Sto!api, Sto!object
<1>2. PICK c \in o.fetch, s \in {"held", "failed"} :
        (s = "held" => c \in disk[n]) /\ agent' = [agent EXCEPT ![n] = Sto!Fetched(n, c, s)]
  BY DEF Sto!FetchKnown, Sto!Agent
<1> PICK h : h = Sto!Fetched(n, c, s)
  OBVIOUS
<1>3. c \in StoIds /\ MineOf(c, n)
  BY <1>0, AgentFields DEF AgentKnows
<1>4. /\ h \in AgentRecord /\ h.pc = "fetch" /\ h.fetch \subseteq o.fetch /\ h.drop = o.drop
      /\ \A i \in 1..Len(h.out) : h.out[i] = <<c, s>> \/ \E j \in 1..Len(o.out) : h.out[i] = o.out[j]
  BY <1>0, <1>3, FetchedSound, SMTT(60)
<1>5. Tells(n, <<c, s>>)
  BY <1>2, <1>3 DEF Tells
<1>6. AgentKnows(n, h)
  BY <1>0, <1>4, <1>5 DEF AgentKnows
<1> QED
  BY <1>0, <1>1, <1>2, <1>4, <1>6, AgentAlone

\* A body is lost, or the report is sent.
LEMMA BodyLostSound ==
  ASSUME StoInv, NEW n \in StoNodes, Sto!BodyLost(n) \/ Sto!Send(n)
  PROVE  StoInv'
<1> PICK o : o = agent[n]
  OBVIOUS
<1>0. o \in AgentRecord /\ AgentKnows(n, o) /\ o.pc \in {"body", "fetch"}
  BY DEF StoInv, StoAgents, Sto!BodyLost, Sto!Send
<1>1. UNCHANGED <<copy, used, want, retired, sched, forgot, run, disk>>
  BY DEF Sto!BodyLost, Sto!Send, Sto!api, Sto!object
<1>2. CASE Sto!BodyLost(n)
  <2> DEFINE h == [o EXCEPT !.pc = "fetch", !.copy = None, !.fetch = @ \ {o.copy}]
  <2>1. /\ h = [x \in DOMAIN h |-> h[x]] /\ DOMAIN h = DOMAIN o /\ h.pc = "fetch" /\ h.fetch = o.fetch \ {o.copy}
        /\ h.drop = o.drop /\ h.copy = None /\ h.out = o.out /\ h.sent = o.sent
    BY <1>0 DEF AgentRecord
  <2>2. agent' = [agent EXCEPT ![n] = h]
    BY <1>2 DEF Sto!BodyLost, Sto!Agent
  <2> HIDE DEF h
  <2>3. h \in AgentRecord
    BY <1>0, <2>1, AgentFields, AgentIs DEF AgentPhases
  <2>4. AgentKnows(n, h)
    BY <1>0, <2>1 DEF AgentKnows
  <2> QED
    BY <1>0, <1>1, <2>2, <2>3, <2>4, AgentAlone
<1>3. CASE Sto!Send(n)
  <2> PICK p : p = IF o.out = <<>> THEN "idle" ELSE "report"
    OBVIOUS
  <2> DEFINE h == [o EXCEPT !.pc = p, !.sent = 0]
  <2>1. /\ h = [x \in DOMAIN h |-> h[x]] /\ DOMAIN h = DOMAIN o /\ h.pc = p /\ h.fetch = o.fetch
        /\ h.drop = o.drop /\ h.copy = o.copy /\ h.out = o.out /\ h.sent = 0
    BY <1>0 DEF AgentRecord
  <2>2. agent' = [agent EXCEPT ![n] = h]
    BY <1>3 DEF Sto!Send, Sto!Agent
  <2> HIDE DEF h
  <2>3. h \in AgentRecord
    BY <1>0, <2>1, AgentFields, AgentIs DEF AgentPhases
  <2>4. AgentKnows(n, h)
    BY <1>0, <2>1 DEF AgentKnows
  <2> QED
    BY <1>0, <1>1, <2>2, <2>3, <2>4, AgentAlone
<1> QED
  BY <1>2, <1>3


\* A function from 1..k is a sequence of k elements.
LEMMA ListIs == ASSUME NEW S, NEW k \in Nat, NEW f \in [1..k -> S] PROVE f \in Seq(S) /\ Len(f) = k
BY IsASeq

\* Deletes: what was dropped leaves the disk, and is told of.
LEMMA DeleteSound ==
  ASSUME StoInv, NEW n \in StoNodes, Sto!Delete(n)
  PROVE  StoInv'
<1> PICK o : o = agent[n]
  OBVIOUS
<1>0. o \in AgentRecord /\ AgentKnows(n, o) /\ o.pc = "delete" /\ StoTypes
  BY DEF StoInv, StoAgents, Sto!Delete
<1>1. UNCHANGED <<copy, used, want, retired, sched, forgot, run>> /\ disk' = [disk EXCEPT ![n] = @ \ o.drop]
  BY DEF Sto!Delete, Sto!api, Sto!object
<1> PICK k : k = Sto!Cardinality(o.drop)
  OBVIOUS
<1>2. k \in Nat
  <2>1. IsFiniteSet(o.drop)
    BY <1>0, AgentFields, StoNumbers, FS_Subset
  <2> QED
    BY <2>1, StoCard, FS_CardinalityType
<1>3. PICK cs \in [1..k -> o.drop] :
        agent' = [agent EXCEPT ![n] =
          [agent[n] EXCEPT !.pc = "fetch", !.drop = {}, !.out = @ \o [i \in 1..Len(cs) |-> <<cs[i], "deleted">>]]]
  BY ZenonT(60) DEF Sto!Delete, Sto!Agent, Sto!Orders
<1>4. Len(cs) = k
  BY <1>2, ListIs
<1>f. PICK f : f = [i \in 1..k |-> <<cs[i], "deleted">>]
  OBVIOUS
<1>5. f \in Seq(Told) /\ Len(f) = k /\ \A i \in 1..Len(f) : \E c \in o.drop : f[i] = <<c, "deleted">>
  <2>1. o.drop \subseteq StoIds
    BY <1>0, AgentFields
  <2>2. f \in [1..k -> Told]
    BY <1>f, <2>1 DEF Told
  <2>3. f \in Seq(Told) /\ Len(f) = k
    BY <1>2, <2>2, ListIs
  <2>4. \A i \in 1..k : cs[i] \in o.drop /\ f[i] = <<cs[i], "deleted">>
    BY <1>f
  <2> QED
    BY <2>3, <2>4
<1> DEFINE h == [o EXCEPT !.pc = "fetch", !.drop = {}, !.out = o.out \o f]
<1>6. /\ h = [x \in DOMAIN h |-> h[x]] /\ DOMAIN h = DOMAIN o /\ h.pc = "fetch" /\ h.fetch = o.fetch
      /\ h.drop = {} /\ h.copy = o.copy /\ h.out = o.out \o f /\ h.sent = o.sent
  BY <1>0 DEF AgentRecord
<1>7. agent' = [agent EXCEPT ![n] = h]
  BY <1>3, <1>4, <1>f
<1> HIDE DEF h
<1>8. /\ h.out \in Seq(Told)
      /\ \A i \in 1..Len(h.out) :
           (\E j \in 1..Len(f) : h.out[i] = f[j]) \/ \E j \in 1..Len(o.out) : h.out[i] = o.out[j]
  <2>1. PICK s : s = o.out
    OBVIOUS
  <2>2. s \in Seq(Told) /\ f \in Seq(Told)
    BY <1>0, <1>5, <2>1, AgentFields
  <2>3. PICK z : z = s \o f
    OBVIOUS
  <2>4. /\ z \in Seq(Told)
        /\ \A i \in 1..Len(z) : (\E j \in 1..Len(f) : z[i] = f[j]) \/ \E j \in 1..Len(s) : z[i] = s[j]
    BY <2>2, <2>3, OutConcat
  <2>5. h.out = z
    BY <1>6, <2>1, <2>3
  <2> QED
    BY <2>1, <2>4, <2>5
<1>9. h \in AgentRecord
  <2>1. h.fetch \subseteq StoIds /\ h.copy \in StoIds \cup {None} /\ h.sent \in Nat
        /\ DOMAIN h = {"pc", "fetch", "drop", "copy", "out", "sent"}
    BY <1>0, <1>6, AgentFields
  <2>2. h.pc \in AgentPhases /\ h.drop \subseteq StoIds
    BY <1>6 DEF AgentPhases
  <2> QED
    BY <1>6, <1>8, <2>1, <2>2, AgentIs
<1>10. disk'[n] = disk[n] \ o.drop /\ \A m \in StoNodes \ {n} : disk'[m] = disk[m]
  BY <1>0, <1>1 DEF StoTypes
<1>11. \A c \in o.drop : MineOf(c, n) /\ Ended(c)
  BY <1>0 DEF AgentKnows
<1>12. \A c, m : (MineOf(c, m) <=> MineOf(c, m)') /\ (Ended(c) <=> Ended(c)')
  BY <1>1 DEF MineOf, Ended
<1>13. ASSUME NEW c \in o.drop PROVE Tells(n, <<c, "deleted">>)'
  <2>1. MineOf(c, n)' /\ Ended(c)' /\ c \notin disk'[n]
    BY <1>10, <1>11, <1>12
  <2> QED
    BY <2>1 DEF Tells
<1>14. ASSUME NEW t, Tells(n, t) PROVE Tells(n, t)'
  BY <1>10, <1>11, <1>12, <1>14 DEF Tells
<1>15. ASSUME NEW i \in 1..Len(h.out) PROVE Tells(n, h.out[i])'
  <2>1. CASE \E j \in 1..Len(f) : h.out[i] = f[j]
    <3>1. PICK c \in o.drop : h.out[i] = <<c, "deleted">>
      BY <1>5, <2>1
    <3> PICK t : t = <<c, "deleted">>
      OBVIOUS
    <3>2. Tells(n, t)' /\ h.out[i] = t
      BY <1>13, <3>1
    <3> QED
      BY <3>2
  <2>2. CASE \E j \in 1..Len(o.out) : h.out[i] = o.out[j]
    <3>1. PICK j \in 1..Len(o.out) : h.out[i] = o.out[j]
      BY <2>2
    <3> PICK t : t = o.out[j]
      OBVIOUS
    <3>2. Tells(n, t)' /\ h.out[i] = t
      BY <1>0, <1>14, <3>1 DEF AgentKnows
    <3> QED
      BY <3>2
  <2> QED
    BY <1>8, <2>1, <2>2
<1>16. AgentKnows(n, h)'
  <2>1. \A c \in h.fetch : MineOf(c, n)'
    BY <1>0, <1>6, <1>12 DEF AgentKnows
  <2> QED
    BY <1>6, <1>15, <2>1 DEF AgentKnows
<1>17. StoTypes' /\ Later
  BY <1>0, <1>1 DEF StoTypes, Later
<1>18. StoHeld'
  <2> SUFFICES ASSUME NEW c \in StoIds, copy[c] # None, copy[c].st \in {"held", "suspect"}
               PROVE  c \in disk'[copy[c].node]
    BY <1>1 DEF StoHeld
  <2>1. c \in disk[copy[c].node] /\ copy[c].node \in StoNodes
    BY <1>0, RowFields DEF StoInv, StoHeld, StoTypes
  <2>2. c \notin o.drop
    BY <1>11 DEF Ended
  <2> QED
    BY <1>10, <2>1, <2>2
<1>19. StoSched'
  <2>1. \A m \in StoNodes : agent[m].pc = "sched" => agent'[m].pc = "sched"
    BY <1>0, <1>7 DEF StoInv, StoAgents
  <2>2. \A c \in StoIds : copy[c] # None => copy[c].node \in StoNodes
    BY <1>0, RowFields DEF StoTypes
  <2> QED
    BY <1>1, <2>1, <2>2 DEF StoInv, StoSched
<1>20. \A c \in disk'[n] : MineOf(c, n)' /\ (n \notin forgot => copy'[c] # None)
  BY <1>1, <1>10, <1>12 DEF StoInv, DiskMine
<1> QED
  BY <1>1, <1>7, <1>9, <1>10, <1>16, <1>17, <1>18, <1>19, <1>20, AgentStep

\* A download claims one of the fetches of a pending copy, or is refused.
LEMMA DownloadSound ==
  ASSUME StoInv, NEW n \in StoNodes, Sto!Download(n)
  PROVE  StoInv'
<1> PICK o : o = agent[n]
  OBVIOUS
<1>0. o \in AgentRecord /\ AgentKnows(n, o) /\ o.pc = "fetch" /\ StoTypes
  BY DEF StoInv, StoAgents, Sto!Download
<1>1. UNCHANGED <<used, want, retired, sched, forgot, run, disk>>
  BY SMTT(60) DEF Sto!Download, Sto!object
<1>2. PICK c \in o.fetch \ disk[n] :
        IF Sto!MayDownload(c)
        THEN copy' = [copy EXCEPT ![c].fetches = @ + 1] /\ Sto!Agent(n, [agent[n] EXCEPT !.pc = "body", !.copy = c])
        ELSE Sto!Agent(n, [agent[n] EXCEPT !.fetch = @ \ {c}]) /\ UNCHANGED copy
  BY DEF Sto!Download
<1>3. c \in StoIds /\ MineOf(c, n)
  BY <1>0, AgentFields DEF AgentKnows
<1>4. CASE ~Sto!MayDownload(c)
  <2> DEFINE h == [o EXCEPT !.fetch = @ \ {c}]
  <2>1. /\ h = [x \in DOMAIN h |-> h[x]] /\ DOMAIN h = DOMAIN o /\ h.pc = "fetch" /\ h.fetch = o.fetch \ {c}
        /\ h.drop = o.drop /\ h.copy = o.copy /\ h.out = o.out /\ h.sent = o.sent
    BY <1>0 DEF AgentRecord
  <2>2. agent' = [agent EXCEPT ![n] = h] /\ UNCHANGED copy
    BY <1>2, <1>4 DEF Sto!Agent
  <2> HIDE DEF h
  <2>3. h \in AgentRecord
    BY <1>0, <2>1, AgentFields, AgentIs
  <2>4. AgentKnows(n, h)
    BY <1>0, <2>1 DEF AgentKnows
  <2> QED
    BY <1>0, <1>1, <2>2, <2>3, <2>4, AgentAlone
<1>5. CASE Sto!MayDownload(c)
  <2>1. copy[c] # None /\ copy[c] \in Sto!Row /\ copy[c].st = "pending" /\ copy[c].fetches < Fetches
    BY <1>0, <1>5 DEF Sto!MayDownload, Sto!In, Sto!Rows, StoTypes
  <2> PICK w : w = [copy[c] EXCEPT !.fetches = @ + 1]
    OBVIOUS
  <2>2. w \in Sto!Row /\ w.node = copy[c].node /\ w.st = "pending"
    <3>1. copy[c].fetches + 1 \in 0..Fetches
      BY <2>1, RowFields, StoNumbers
    <3> QED
      BY <2>1, <3>1 DEF Sto!Row
  <2>3. copy'[c] = w /\ (\A d \in StoIds \ {c} : copy'[d] = copy[d]) /\ copy' = [d \in StoIds |-> copy'[d]]
    BY <1>0, <1>2, <1>3, <1>5 DEF StoTypes
  <2>4. RowsStep
    BY <2>1, <2>2, <2>3 DEF RowsStep
  <2>5. /\ Later /\ copy' \in [StoIds -> {None} \cup Sto!Row] /\ \A d \in StoIds : copy'[d] # None => d \in used'
        /\ \A d \in StoIds : copy[d] # None <=> copy'[d] # None
    BY <1>0, <1>1, <2>3, <2>4, RowsLater
  <2>6. StoTypes'
    BY <1>0, <1>1, <2>5 DEF StoTypes
  <2> DEFINE h == [o EXCEPT !.pc = "body", !.copy = c]
  <2>7. /\ h = [x \in DOMAIN h |-> h[x]] /\ DOMAIN h = DOMAIN o /\ h.pc = "body" /\ h.fetch = o.fetch
        /\ h.drop = o.drop /\ h.copy = c /\ h.out = o.out /\ h.sent = o.sent
    BY <1>0 DEF AgentRecord
  <2>8. agent' = [agent EXCEPT ![n] = h]
    BY <1>2, <1>5 DEF Sto!Agent
  <2> HIDE DEF h
  <2>9. h \in AgentRecord
    BY <1>0, <1>3, <2>7, AgentFields, AgentIs DEF AgentPhases
  <2>10. \A i \in 1..Len(o.out) : o.out[i] # <<c, "deleted">>
    <3> SUFFICES ASSUME NEW i \in 1..Len(o.out), o.out[i] = <<c, "deleted">> PROVE FALSE
      OBVIOUS
    <3>1. Tells(n, <<c, "deleted">>)
      BY <1>0 DEF AgentKnows
    <3> QED
      BY <2>1, <3>1 DEF Tells, Ended
  <2>11. AgentKnows(n, h)
    BY <1>0, <1>3, <2>1, <2>7, <2>10, StoNumbers DEF AgentKnows
  <2>12. AgentKnows(n, h)'
    <3>1. h.pc = "body" => (n \notin forgot' /\ copy[h.copy] # None => copy'[h.copy] # None)
      BY <1>3, <2>5, <2>7
    <3> QED
      BY <1>1, <2>5, <2>11, <3>1, AgentKept
  <2>13. \A d \in StoIds : copy'[d] # None => copy[d] # None /\ copy'[d].node = copy[d].node /\ copy[d].node \in StoNodes
                                             /\ (d # c => copy'[d] = copy[d]) /\ (d = c => copy'[d].st = "pending")
    BY <1>0, <2>1, <2>2, <2>3, RowFields DEF StoTypes
  <2>14. StoHeld'
    BY <1>1, <2>13 DEF StoInv, StoHeld
  <2>15. \A m \in StoNodes : agent[m].pc = "sched" => agent'[m].pc = "sched"
    BY <1>0, <2>8 DEF StoInv, StoAgents
  <2>16. StoSched'
    BY <1>1, <2>13, <2>15 DEF StoInv, StoSched
  <2>17. \A d \in disk'[n] : MineOf(d, n)' /\ (n \notin forgot => copy'[d] # None)
    <3>1. \A d \in disk[n] : d \in StoIds /\ MineOf(d, n) /\ (n \notin forgot => copy[d] # None)
      BY <1>0 DEF StoInv, DiskMine, StoTypes
    <3> QED
      BY <1>1, <2>5, <3>1, LaterSound
  <2> QED
    BY <1>1, <2>5, <2>6, <2>8, <2>9, <2>12, <2>14, <2>16, <2>17, AgentStep
<1> QED
  BY <1>4, <1>5


\* The ciphertext is renamed into place.
LEMMA KeepSound ==
  ASSUME StoInv, NEW n \in StoNodes, Sto!Keep(n)
  PROVE  StoInv'
<1> PICK o : o = agent[n]
  OBVIOUS
<1> PICK c : c = o.copy
  OBVIOUS
<1>0. /\ o \in AgentRecord /\ AgentKnows(n, o) /\ o.pc = "body" /\ StoTypes
      /\ c \in StoIds /\ MineOf(c, n) /\ (n \notin forgot => copy[c] # None)
  <2>1. o \in AgentRecord /\ AgentKnows(n, o) /\ o.pc = "body" /\ StoTypes
    BY DEF StoInv, StoAgents, Sto!Keep
  <2> QED
    BY <2>1, AgentFields DEF AgentKnows
<1>1. /\ UNCHANGED <<copy, used, want, retired, sched, forgot, run>> /\ disk' = [disk EXCEPT ![n] = @ \cup {c}]
      /\ agent' = [agent EXCEPT ![n] = Sto!Fetched(n, c, "held")]
  BY DEF Sto!Keep, Sto!Agent, Sto!api, Sto!object
<1> PICK h : h = Sto!Fetched(n, c, "held")
  OBVIOUS
<1>2. /\ h \in AgentRecord /\ h.pc = "fetch" /\ h.fetch \subseteq o.fetch /\ h.drop = o.drop
      /\ \A i \in 1..Len(h.out) : h.out[i] = <<c, "held">> \/ \E j \in 1..Len(o.out) : h.out[i] = o.out[j]
  BY <1>0, FetchedSound
<1>3. disk'[n] = disk[n] \cup {c} /\ \A m \in StoNodes \ {n} : disk'[m] = disk[m]
  BY <1>0, <1>1 DEF StoTypes
<1>4. \A d, m : (MineOf(d, m) <=> MineOf(d, m)') /\ (Ended(d) <=> Ended(d)')
  BY <1>1 DEF MineOf, Ended
<1>5. Tells(n, <<c, "held">>)'
  BY <1>0, <1>3, <1>4 DEF Tells
<1>6. ASSUME NEW t, Tells(n, t), t \in Told, t # <<c, "deleted">> PROVE Tells(n, t)'
  <2>1. t[2] = "deleted" => t[1] # c
    BY <1>6 DEF Told
  <2> QED
    BY <1>3, <1>4, <1>6, <2>1 DEF Tells
<1>7. ASSUME NEW i \in 1..Len(h.out) PROVE Tells(n, h.out[i])'
  <2>1. CASE h.out[i] = <<c, "held">>
    <3>1. PICK t : t = <<c, "held">>
      OBVIOUS
    <3>2. Tells(n, t)' /\ h.out[i] = t
      BY <1>5, <2>1, <3>1
    <3> QED
      BY <3>2
  <2>2. CASE \E j \in 1..Len(o.out) : h.out[i] = o.out[j]
    <3>1. PICK j \in 1..Len(o.out) : h.out[i] = o.out[j]
      BY <2>2
    <3>2. PICK t : t = o.out[j]
      OBVIOUS
    <3>3. o.out[j] \in Told
      BY <1>0, AgentFields, ElementOfSeq
    <3>4. t # <<c, "deleted">> /\ Tells(n, t)
      BY <1>0, <3>2 DEF AgentKnows
    <3>5. Tells(n, t)' /\ h.out[i] = t
      BY <1>6, <3>1, <3>2, <3>3, <3>4
    <3> QED
      BY <3>5
  <2> QED
    BY <1>2, <2>1, <2>2
<1>8. AgentKnows(n, h)'
  <2>1. \A d \in h.fetch : MineOf(d, n)'
    BY <1>0, <1>2, <1>4 DEF AgentKnows
  <2>2. \A d \in h.drop : MineOf(d, n)' /\ Ended(d)'
    BY <1>0, <1>2, <1>4 DEF AgentKnows
  <2> QED
    BY <1>2, <1>7, <2>1, <2>2 DEF AgentKnows
<1>9. StoTypes' /\ Later
  <2>1. disk' \in [StoNodes -> SUBSET StoIds]
    BY <1>0, <1>1 DEF StoTypes
  <2> QED
    BY <1>0, <1>1, <2>1 DEF StoTypes, Later
<1>10. StoHeld'
  <2> SUFFICES ASSUME NEW d \in StoIds, copy[d] # None, copy[d].st \in {"held", "suspect"}
               PROVE  d \in disk'[copy[d].node]
    BY <1>1 DEF StoHeld
  <2>1. d \in disk[copy[d].node] /\ copy[d].node \in StoNodes
    BY <1>0, RowFields DEF StoInv, StoHeld, StoTypes
  <2> QED
    BY <1>3, <2>1
<1>11. StoSched'
  <2>1. \A m \in StoNodes : agent[m].pc = "sched" => agent'[m].pc = "sched"
    BY <1>0, <1>1 DEF StoInv, StoAgents
  <2>2. \A d \in StoIds : copy[d] # None => copy[d].node \in StoNodes
    BY <1>0, RowFields DEF StoTypes
  <2> QED
    BY <1>1, <2>1, <2>2 DEF StoInv, StoSched
<1>12. \A d \in disk'[n] : MineOf(d, n)' /\ (n \notin forgot => copy'[d] # None)
  BY <1>0, <1>1, <1>3, <1>4 DEF StoInv, DiskMine
<1> QED
  BY <1>1, <1>2, <1>3, <1>8, <1>9, <1>10, <1>11, <1>12, AgentStep

\* The next entry of the report.
LEMMA NextReportSound ==
  ASSUME StoInv, NEW n \in StoNodes, agent[n].pc \in {"report", "sched"}, agent[n].sent < Len(agent[n].out)
  PROVE  \E h \in AgentRecord : /\ h = [agent[n] EXCEPT !.pc = "report", !.sent = @ + 1] /\ h.pc = "report"
                                /\ AgentKnows(n, h)
<1> PICK o : o = agent[n]
  OBVIOUS
<1>0. o \in AgentRecord /\ AgentKnows(n, o)
  BY DEF StoInv, StoAgents
<1> DEFINE h == [o EXCEPT !.pc = "report", !.sent = @ + 1]
<1>1. /\ h = [x \in DOMAIN h |-> h[x]] /\ DOMAIN h = DOMAIN o /\ h.pc = "report" /\ h.fetch = o.fetch
      /\ h.drop = o.drop /\ h.copy = o.copy /\ h.out = o.out /\ h.sent = o.sent + 1
  BY <1>0 DEF AgentRecord
<1>2. h = [agent[n] EXCEPT !.pc = "report", !.sent = @ + 1]
  OBVIOUS
<1> HIDE DEF h
<1>3. h \in AgentRecord
  BY <1>0, <1>1, AgentFields, AgentIs DEF AgentPhases
<1>4. AgentKnows(n, h)
  BY <1>0, <1>1, SMTT(60) DEF AgentKnows
<1> QED
  BY <1>1, <1>2, <1>3, <1>4

\* What a report says of the copy that comes next.
LEMMA SendingSound ==
  ASSUME StoInv, NEW n \in StoNodes, NEW s, Sto!Sending(n, s), NEW c, c = Sto!Reported(n)
  PROVE  /\ agent[n] \in AgentRecord /\ AgentKnows(n, agent[n]) /\ agent[n].pc = "report"
         /\ agent[n].sent < Len(agent[n].out) /\ c \in StoIds /\ MineOf(c, n)
         /\ s = "held" => c \in disk[n] \/ Ended(c)
         /\ s = "deleted" => Ended(c) /\ c \notin disk[n]
<1> PICK o : o = agent[n]
  OBVIOUS
<1>0. o \in AgentRecord /\ AgentKnows(n, o) /\ o.pc = "report" /\ o.sent < Len(o.out) /\ o.out[o.sent + 1][2] = s
      /\ c = o.out[o.sent + 1][1]
  BY DEF StoInv, StoAgents, Sto!Sending, Sto!Reported
<1>1. o.out \in Seq(Told) /\ o.sent \in Nat /\ Len(o.out) \in Nat
  BY <1>0, AgentFields, LenProperties
<1>2. PICK i \in 1..Len(o.out) : i = o.sent + 1
  <2>1. \A k, l \in Nat : k < l => k + 1 \in 1..l
    OBVIOUS
  <2> QED
    BY <1>0, <1>1, <2>1
<1>3. o.out[i] \in Told /\ Tells(n, o.out[i])
  BY <1>0, <1>1, ElementOfSeq DEF AgentKnows
<1>4. PICK t \in Told : t = o.out[i]
  BY <1>3
<1>5. Tells(n, t) /\ t[1] = c /\ t[2] = s /\ t[1] \in StoIds
  BY <1>0, <1>2, <1>3, <1>4 DEF Told
<1> QED
  BY <1>0, <1>5 DEF Tells


\* Steps of one agent that leave the disks as they are, and rows to move on.
LEMMA ReportMoves ==
  ASSUME StoInv, UNCHANGED <<used, forgot, run, disk>>, want' \in BOOLEAN, retired' \in BOOLEAN,
         sched' \in [StoNodes -> BOOLEAN], copy' \in [StoIds -> {None} \cup Sto!Row],
         NEW n \in StoNodes, NEW a \in AgentRecord, agent' = [agent EXCEPT ![n] = a], AgentKnows(n, a), a.pc # "body",
         \A c \in StoIds : copy'[c] # None => copy[c] # None /\ copy'[c].node = copy[c].node
                                              /\ (copy[c].st = "dropping" => copy'[c].st = "dropping"),
         \A c \in StoIds : copy[c] # None /\ copy'[c] = None => copy[c].node = n /\ c \notin disk[n],
         \A c \in StoIds : copy'[c] # None /\ copy'[c].st \in {"held", "suspect"} => c \in disk[copy[c].node],
         \A c \in StoIds : copy'[c] # None /\ copy'[c].st = "held" =>
           copy[c].st = "held" \/ (copy[c].node = n /\ a.pc = "sched"),
         \A m \in StoNodes : sched[m] => sched'[m],
         agent[n].pc = "sched" => a.pc = "sched" \/ sched'[n]
  PROVE  StoInv'
<1>1. StoTypes'
  BY DEF StoInv, StoTypes
<1>2. Later
  BY DEF StoInv, StoTypes, Later
<1>3. \A c, m : /\ MineOf(c, m) => MineOf(c, m)'
                /\ Ended(c) => Ended(c)'
  BY <1>2, LaterSound
<1>4. AgentKnows(n, a)'
  BY <1>2, AgentKept
<1>5. \A c \in StoIds : copy'[c] # None => copy[c] # None /\ copy'[c].node = copy[c].node /\ copy[c].node \in StoNodes
  BY RowFields DEF StoInv, StoTypes
<1>6. StoHeld'
  BY <1>5 DEF StoHeld
<1>7. agent'[n] = a /\ \A m \in StoNodes \ {n} : agent'[m] = agent[m]
  BY DEF StoInv, StoAgents
<1>8. StoSched'
  <2> SUFFICES ASSUME NEW c \in StoIds, copy'[c] # None, copy'[c].st = "held"
               PROVE  sched'[copy[c].node] \/ agent'[copy[c].node].pc = "sched"
    BY <1>5 DEF StoSched
  <2> PICK m : m = copy[c].node
    OBVIOUS
  <2>1. m \in StoNodes /\ copy[c] # None
    BY <1>5
  <2>2. CASE copy[c].st = "held"
    <3>1. sched[m] \/ agent[m].pc = "sched"
      BY <2>1, <2>2 DEF StoInv, StoSched
    <3> QED
      BY <1>7, <2>1, <3>1
  <2>3. CASE copy[c].st # "held"
    BY <1>7, <2>1, <2>3
  <2> QED
    BY <2>2, <2>3
<1>9. \A c \in disk'[n] : MineOf(c, n)' /\ (n \notin forgot => copy'[c] # None)
  <2>1. \A c \in disk[n] : c \in StoIds /\ MineOf(c, n) /\ (n \notin forgot => copy[c] # None)
    BY DEF StoInv, StoTypes, DiskMine
  <2> QED
    BY <1>3, <2>1
<1> QED
  BY <1>1, <1>2, <1>4, <1>6, <1>8, <1>9, AgentStep

\* A held report: the copy is held if it waits for it, and then its node is scheduled.
LEMMA ReportHeldSound ==
  ASSUME StoInv, NEW n \in StoNodes, Sto!ReportHeld(n)
  PROVE  StoInv'
<1> PICK o : o = agent[n]
  OBVIOUS
<1> PICK c : c = Sto!Reported(n)
  OBVIOUS
<1>0. /\ o \in AgentRecord /\ AgentKnows(n, o) /\ o.pc = "report" /\ o.sent < Len(o.out)
      /\ c \in StoIds /\ MineOf(c, n) /\ (c \in disk[n] \/ Ended(c)) /\ StoTypes
  BY SendingSound DEF Sto!ReportHeld, StoInv
<1>1. UNCHANGED <<used, want, retired, sched, forgot, run, disk>>
  BY DEF Sto!ReportHeld, Sto!object
<1>2. CASE ~Sto!MayHold(c)
  <2>1. UNCHANGED copy /\ agent' = [agent EXCEPT ![n] = [agent[n] EXCEPT !.pc = "report", !.sent = @ + 1]]
    BY <1>2 DEF Sto!ReportHeld, Sto!NextReport, Sto!Agent
  <2> QED
    BY <1>0, <1>1, <2>1, NextReportSound, AgentAlone
<1>3. CASE Sto!MayHold(c)
  <2>1. copy[c] # None /\ copy[c] \in Sto!Row /\ copy[c].st = "pending"
    BY <1>0, <1>3 DEF Sto!MayHold, Sto!In, Sto!Rows, StoTypes
  <2>2. copy' = [copy EXCEPT ![c].st = "held"] /\ agent' = [agent EXCEPT ![n] = [agent[n] EXCEPT !.pc = "sched"]]
    BY <1>3 DEF Sto!ReportHeld, Sto!Agent
  <2>3. PICK w : w = [copy[c] EXCEPT !.st = "held"]
    OBVIOUS
  <2>4. w \in Sto!Row /\ w.node = copy[c].node /\ w.st = "held"
    BY <2>1, <2>3 DEF Sto!Row
  <2>5. copy'[c] = w /\ (\A d \in StoIds \ {c} : copy'[d] = copy[d]) /\ copy' \in [StoIds -> {None} \cup Sto!Row]
    BY <1>0, <2>2, <2>3, <2>4 DEF StoTypes
  <2> DEFINE h == [o EXCEPT !.pc = "sched"]
  <2>6. /\ h = [x \in DOMAIN h |-> h[x]] /\ DOMAIN h = DOMAIN o /\ h.pc = "sched" /\ h.fetch = o.fetch
        /\ h.drop = o.drop /\ h.copy = o.copy /\ h.out = o.out /\ h.sent = o.sent
    BY <1>0 DEF AgentRecord
  <2>7. agent' = [agent EXCEPT ![n] = h]
    BY <2>2
  <2> HIDE DEF h
  <2>8. h \in AgentRecord
    BY <1>0, <2>6, AgentFields, AgentIs DEF AgentPhases
  <2>9. AgentKnows(n, h)
    BY <1>0, <2>6 DEF AgentKnows
  <2>10. copy[c].node = n /\ c \in disk[n]
    BY <1>0, <2>1 DEF MineOf, Ended
  <2>11. \A d \in StoIds : copy[d] # None /\ copy[d].st \in {"held", "suspect"} => d \in disk[copy[d].node]
    BY DEF StoInv, StoHeld
  <2>12. \A d \in StoIds : copy'[d] # None => copy[d] # None /\ copy'[d].node = copy[d].node
                                               /\ (copy[d].st = "dropping" => copy'[d].st = "dropping")
    BY <2>1, <2>4, <2>5
  <2>13. \A d \in StoIds : copy[d] # None /\ copy'[d] = None => copy[d].node = n /\ d \notin disk[n]
    BY <2>4, <2>5, StoNumbers
  <2>14. \A d \in StoIds : copy'[d] # None /\ copy'[d].st \in {"held", "suspect"} => d \in disk[copy[d].node]
    BY <2>5, <2>10, <2>11
  <2>15. \A d \in StoIds : copy'[d] # None /\ copy'[d].st = "held" =>
           copy[d].st = "held" \/ (copy[d].node = n /\ h.pc = "sched")
    BY <2>5, <2>6, <2>10
  <2>16. /\ want' \in BOOLEAN /\ retired' \in BOOLEAN /\ sched' \in [StoNodes -> BOOLEAN]
         /\ \A m \in StoNodes : sched[m] => sched'[m]
    BY <1>0, <1>1 DEF StoTypes
  <2>17. h.pc # "body" /\ agent[n].pc # "sched"
    BY <1>0, <2>6
  <2> QED
    BY <1>1, <2>5, <2>7, <2>8, <2>9, <2>12, <2>13, <2>14, <2>15, <2>16, <2>17, ReportMoves, ZenonT(60)
<1> QED
  BY <1>2, <1>3

\* The second half of a held report: the node is scheduled.
LEMMA ReportScheduleSound ==
  ASSUME StoInv, NEW n \in StoNodes, Sto!ReportSchedule(n)
  PROVE  StoInv'
<1> PICK o : o = agent[n]
  OBVIOUS
<1>0. o \in AgentRecord /\ AgentKnows(n, o) /\ o.pc = "sched" /\ StoTypes
  BY DEF StoInv, StoAgents, Sto!ReportSchedule
<1>1. /\ UNCHANGED <<copy, used, want, retired, forgot, run, disk>> /\ sched' = [sched EXCEPT ![n] = TRUE]
      /\ agent' = [agent EXCEPT ![n] = [agent[n] EXCEPT !.pc = "report", !.sent = @ + 1]]
  BY DEF Sto!ReportSchedule, Sto!NextReport, Sto!Agent, Sto!object
<1>2. PICK h \in AgentRecord : agent' = [agent EXCEPT ![n] = h] /\ h.pc = "report" /\ AgentKnows(n, h)
  <2>1. o.sent < Len(o.out)
    BY <1>0 DEF AgentKnows
  <2> QED
    BY <1>0, <1>1, <2>1, NextReportSound
<1>3. sched' \in [StoNodes -> BOOLEAN] /\ sched'[n] /\ \A m \in StoNodes : sched[m] => sched'[m]
  BY <1>0, <1>1 DEF StoTypes
<1>4. want' \in BOOLEAN /\ retired' \in BOOLEAN /\ copy' \in [StoIds -> {None} \cup Sto!Row]
  BY <1>0, <1>1 DEF StoTypes
<1>5. \A c \in StoIds : copy[c] # None /\ copy[c].st \in {"held", "suspect"} => c \in disk[copy[c].node]
  BY DEF StoInv, StoHeld
<1>6. \A c \in StoIds : copy'[c] = copy[c]
  BY <1>1
<1>7. h.pc # "body" /\ (agent[n].pc = "sched" => h.pc = "sched" \/ sched'[n])
  BY <1>2, <1>3
<1> QED
  BY <1>1, <1>2, <1>3, <1>4, <1>5, <1>6, <1>7, ReportMoves

\* A deleted report: the row of a copy that is dropped goes.
LEMMA ReportDeletedSound ==
  ASSUME StoInv, NEW n \in StoNodes, Sto!ReportDeleted(n)
  PROVE  StoInv'
<1> PICK c : c = Sto!Reported(n)
  OBVIOUS
<1>0. /\ agent[n].pc = "report" /\ agent[n].sent < Len(agent[n].out)
      /\ c \in StoIds /\ MineOf(c, n) /\ c \notin disk[n] /\ StoTypes
  BY SendingSound DEF Sto!ReportDeleted, StoInv
<1>1. /\ UNCHANGED <<used, want, retired, sched, forgot, run, disk>>
      /\ copy' = [d \in StoIds |-> IF d = c /\ Sto!MayForget(d) THEN None ELSE copy[d]]
      /\ agent' = [agent EXCEPT ![n] = [agent[n] EXCEPT !.pc = "report", !.sent = @ + 1]]
  BY DEF Sto!ReportDeleted, Sto!NextReport, Sto!Agent, Sto!object
<1>2. PICK h \in AgentRecord : agent' = [agent EXCEPT ![n] = h] /\ h.pc = "report" /\ AgentKnows(n, h)
  BY <1>0, <1>1, NextReportSound
<1>3. \A d \in StoIds : copy'[d] = copy[d] \/ (d = c /\ copy'[d] = None)
  <2> SUFFICES ASSUME NEW d \in StoIds PROVE copy'[d] = copy[d] \/ (d = c /\ copy'[d] = None)
    OBVIOUS
  <2>1. copy'[d] = IF d = c /\ Sto!MayForget(d) THEN None ELSE copy[d]
    BY <1>1
  <2> QED
    BY <2>1
<1>4. copy' \in [StoIds -> {None} \cup Sto!Row]
  BY <1>0, <1>1 DEF StoTypes
<1>5. want' \in BOOLEAN /\ retired' \in BOOLEAN /\ sched' \in [StoNodes -> BOOLEAN]
  BY <1>0, <1>1 DEF StoTypes
<1>6. \A d \in StoIds : copy[d] # None /\ copy[d].st \in {"held", "suspect"} => d \in disk[copy[d].node]
  BY DEF StoInv, StoHeld
<1>7. \A d \in StoIds : copy[d] # None /\ copy'[d] = None => copy[d].node = n /\ d \notin disk[n]
  BY <1>0, <1>3 DEF MineOf
<1> QED
  BY <1>0, <1>1, <1>2, <1>3, <1>4, <1>5, <1>6, <1>7, ReportMoves

\* A failed report: a pending copy is dropped.
LEMMA ReportFailedSound ==
  ASSUME StoInv, NEW n \in StoNodes, Sto!ReportFailed(n)
  PROVE  StoInv'
<1> PICK c : c = Sto!Reported(n)
  OBVIOUS
<1>0. agent[n].pc = "report" /\ agent[n].sent < Len(agent[n].out) /\ StoTypes
  BY SendingSound DEF Sto!ReportFailed, StoInv
<1>1. /\ UNCHANGED <<used, retired, sched, forgot, run, disk>>
      /\ copy' = Sto!Move({c}, {"pending"}, "dropping") /\ want' = (want \/ c \in Sto!In({"pending"}))
      /\ agent' = [agent EXCEPT ![n] = [agent[n] EXCEPT !.pc = "report", !.sent = @ + 1]]
  BY DEF Sto!ReportFailed, Sto!NextReport, Sto!Agent
<1>2. PICK h \in AgentRecord : agent' = [agent EXCEPT ![n] = h] /\ h.pc = "report" /\ AgentKnows(n, h)
  BY <1>0, <1>1, NextReportSound
<1>3. RowsStep /\ copy' = [d \in StoIds |-> copy'[d]]
  BY <1>0, <1>1, MoveRows
<1>4. copy' \in [StoIds -> {None} \cup Sto!Row] /\ \A d \in StoIds : (copy[d] # None <=> copy'[d] # None)
  BY <1>0, <1>1, <1>3, RowsLater
<1>5. want' \in BOOLEAN /\ retired' \in BOOLEAN /\ sched' \in [StoNodes -> BOOLEAN]
  BY <1>0, <1>1 DEF StoTypes
<1>6. \A d \in StoIds : copy[d] # None /\ copy[d].st \in {"held", "suspect"} => d \in disk[copy[d].node]
  BY DEF StoInv, StoHeld
<1>7. \A d \in StoIds : copy'[d] # None => /\ copy[d] # None /\ copy'[d].node = copy[d].node
                                           /\ copy[d].st = "dropping" => copy'[d].st = "dropping"
                                           /\ copy'[d].st \in {"held", "suspect"} => copy[d].st \in {"held", "suspect"}
                                           /\ copy'[d].st = "held" => copy[d].st = "held"
  BY <1>3, <1>4 DEF RowsStep
<1>8. h.pc # "body" /\ agent[n].pc # "sched" /\ \A m \in StoNodes : sched[m] => sched'[m]
  BY <1>0, <1>1, <1>2
<1>9. \A d \in StoIds : copy'[d] # None /\ copy'[d].st \in {"held", "suspect"} => d \in disk[copy[d].node]
  BY <1>6, <1>7
<1> QED
  BY <1>1, <1>2, <1>4, <1>5, <1>7, <1>8, <1>9, ReportMoves

\* A step of a node's agent.
LEMMA ServeSound ==
  ASSUME StoInv, ~Torn, NEW n \in StoNodes, Sto!Serve(n) \/ Sto!BodyLost(n) \/ Sto!Undelivered(n) \/ Sto!Crash(n)
  PROVE  StoInv'
BY InstructSound, DeleteSound, FetchKnownSound, DownloadSound, KeepSound, BodyLostSound, ReportHeldSound,
   ReportScheduleSound, ReportDeletedSound, ReportFailedSound, StartsOver, UndeliveredSound DEF Sto!Serve

\* The invariant holds at the start.
LEMMA StoInit == Sto!Init => StoInv
<1> SUFFICES ASSUME Sto!Init PROVE StoInv
  OBVIOUS
<1>1. /\ copy = [c \in StoIds |-> None] /\ used = {} /\ want = TRUE /\ retired = FALSE
      /\ sched = [n \in StoNodes |-> FALSE] /\ forgot = {} /\ run = [r \in Runs |-> Sto!IdleRun]
      /\ agent = [n \in StoNodes |-> Sto!IdleAgent] /\ disk = [n \in StoNodes |-> {}]
  BY DEF Sto!Init
<1>2. StoTypes
  BY <1>1 DEF StoTypes
<1>3. StoRuns
  BY <1>1, IdleRunSound DEF StoRuns
<1>4. StoAgents
  BY <1>1, IdleAgentSound DEF StoAgents
<1>5. DiskMine /\ StoHeld /\ StoSched
  BY <1>1 DEF DiskMine, StoHeld, StoSched
<1> QED
  BY <1>2, <1>3, <1>4, <1>5 DEF StoInv

\* The other components leave it.
LEMMA StoSame == ASSUME StoInv, UNCHANGED stoVars PROVE StoInv'
<1> USE DEF stoVars
<1>1. StoTypes' BY DEF StoInv, StoTypes
<1>2. StoRuns' BY SMTT(60) DEF StoInv, StoRuns, RunKnows, MineOf
<1>3. StoAgents' BY DEF StoInv, StoAgents, AgentKnows, Tells, MineOf, Ended
<1>4. DiskMine' /\ StoHeld' /\ StoSched' BY DEF StoInv, DiskMine, StoHeld, StoSched, MineOf
<1> QED
  BY <1>1, <1>2, <1>3, <1>4 DEF StoInv

\* Every step keeps it.
LEMMA StoNext == ASSUME StoInv, ~Torn, Sto!Next PROVE StoInv'
BY RunStepSound, ServeSound DEF Sto!Next

\* What the invariant says of the copies.
LEMMA StoIs == StoInv => Sto!TypeOK /\ Sto!HeldIsOnDisk /\ Sto!DiskIsKnown /\ Sto!HeldIsScheduled
<1> SUFFICES ASSUME StoInv PROVE Sto!TypeOK /\ Sto!HeldIsOnDisk /\ Sto!DiskIsKnown /\ Sto!HeldIsScheduled
  OBVIOUS
<1>1. Sto!TypeOK
  BY DEF StoInv, StoTypes, Sto!TypeOK
<1>2. Sto!HeldIsOnDisk
  BY DEF StoInv, StoHeld, Sto!HeldIsOnDisk, Sto!In, Sto!Rows
<1>3. Sto!DiskIsKnown
  BY DEF StoInv, StoTypes, DiskMine, MineOf, Sto!DiskIsKnown, Sto!Of, Sto!Rows
<1>4. Sto!HeldIsScheduled
  BY DEF StoInv, StoSched, Sto!HeldIsScheduled, Sto!In, Sto!Rows
<1> QED
  BY <1>1, <1>2, <1>3, <1>4

-----------------------------------------------------------------------------
(* The copies of a stored object: where they are. *)

RunKeys == {"pc", "live", "held", "pick", "since", "done", "copy"}
PlacePhases == {"held", "pick", "insert", "end"}

SprTypes ==
  /\ copy \in [SprIds -> {None} \cup Spr!Row] /\ used \subseteq SprIds /\ \A c \in SprIds : copy[c] # None => c \in used
  /\ run = [r \in Runs |-> run[r]] /\ \A r \in Runs : DOMAIN run[r] = RunKeys

\* A run that places knows every live copy; the node it has picked shares no network with any it knows.
SprKnows(o) ==
  o.pc \in PlacePhases =>
    /\ o.live \subseteq (0..(Copies - 1)) \X SprNodes /\ IsFiniteSet(o.live)
    /\ \A c \in Spr!Live : <<copy[c].idx, copy[c].node>> \in o.live
    /\ o.pc = "insert" => /\ o.pick \in (0..(Copies - 1)) \X SprNodes
                          /\ \A l \in o.live, net \in SprNetworks : ~ {o.pick[2], l[2]} \subseteq net

SprInv == SprTypes /\ (\A r \in Runs : SprKnows(run[r])) /\ Spr!Spread

\* What the assumption says of the constants.
LEMMA SprNumbers ==
  /\ None \notin SprIds /\ None \notin Spr!Row /\ IsFiniteSet(SprIds) /\ Copies \in Nat \ {0} /\ Fetches \in Nat \ {0}
<1>1. /\ None \notin SprNodes \cup SprIds \cup Spr!Row /\ UNION SprNetworks = SprNodes /\ IsFiniteSet(SprIds)
      /\ Copies \in Nat \ {0} /\ Fetches \in Nat \ {0}
  BY SharingAssumption DEF Spr!StorageAssumption, Spr!IsFiniteSet, IsFiniteSet
<1> QED
  BY <1>1

\* The cardinality of the instance is that of the library.
LEMMA SprCard == \A S : Spr!Cardinality(S) = Cardinality(S)
BY DEF Spr!Cardinality, Cardinality

\* The fields of a row.
LEMMA SprFields ==
  ASSUME NEW w \in Spr!Row
  PROVE  /\ w.idx \in 0..(Copies - 1) /\ w.node \in SprNodes /\ w.st \in CopyPhases /\ w.fetches \in 0..Fetches
         /\ w.checked \in BOOLEAN /\ w # None
BY SprNumbers DEF Spr!Row, CopyPhases

\* A copy is live when its row is not being dropped.
LEMMA SprLive ==
  ASSUME SprTypes
  PROVE  \A c : c \in Spr!Live <=> c \in SprIds /\ copy[c] # None /\ copy[c].st # "dropping"
BY SprFields DEF SprTypes, Spr!Live, Spr!In, Spr!Rows, CopyPhases

\* No copy is new or revived, and none moves.
SprRows ==
  /\ used' = used /\ copy' = [c \in SprIds |-> copy'[c]]
  /\ \A c \in SprIds :
       \/ copy'[c] = copy[c]
       \/ copy'[c] = None
       \/ /\ copy[c] # None /\ copy'[c] \in Spr!Row /\ copy'[c].idx = copy[c].idx /\ copy'[c].node = copy[c].node
          /\ copy[c].st = "dropping" => copy'[c].st = "dropping"

\* Such a step only takes copies away, and the live ones keep their place.
LEMMA SprShrinks ==
  ASSUME SprInv, SprRows
  PROVE  /\ copy' \in [SprIds -> {None} \cup Spr!Row] /\ \A c \in SprIds : copy'[c] # None => c \in used'
         /\ (SprTypes' => \A c \in Spr!Live' : /\ c \in Spr!Live /\ copy'[c].idx = copy[c].idx
                                               /\ copy'[c].node = copy[c].node)
<1>1. /\ copy' \in [SprIds -> {None} \cup Spr!Row]
      /\ \A c \in SprIds : copy'[c] # None => /\ c \in used' /\ copy[c] # None
                                              /\ copy'[c].idx = copy[c].idx /\ copy'[c].node = copy[c].node
                                              /\ copy'[c].st # "dropping" => copy[c].st # "dropping"
  BY SprNumbers DEF SprInv, SprTypes, SprRows
<1>2. \A c : c \in Spr!Live <=> c \in SprIds /\ copy[c] # None /\ copy[c].st # "dropping"
  BY SprLive DEF SprInv
<1>3. ASSUME SprTypes' PROVE \A c : c \in Spr!Live' <=> c \in SprIds /\ copy'[c] # None /\ copy'[c].st # "dropping"
  <2>1. \A c \in SprIds : copy'[c] # None => copy'[c].st \in CopyPhases
    BY <1>1, SprFields
  <2> QED
    BY <2>1 DEF Spr!Live, Spr!In, Spr!Rows, CopyPhases
<1> QED
  BY <1>1, <1>2, <1>3

\* A step that leaves the runs alone, but for one that is not placing.
LEMMA SprStep ==
  ASSUME SprInv, SprRows, run' = [r \in Runs |-> run'[r]],
         \A r \in Runs : run'[r] = run[r] \/ (DOMAIN run'[r] = RunKeys /\ run'[r].pc \notin PlacePhases)
  PROVE  SprInv'
<1>1. SprTypes'
  BY SprShrinks DEF SprInv, SprTypes, SprRows
<1>2. \A c \in Spr!Live' : c \in Spr!Live /\ copy'[c].idx = copy[c].idx /\ copy'[c].node = copy[c].node
  BY <1>1, SprShrinks
<1>3. ASSUME NEW r \in Runs PROVE SprKnows(run[r])'
  <2>1. CASE run'[r].pc \notin PlacePhases
    BY <2>1 DEF SprKnows
  <2>2. CASE run'[r] = run[r] /\ run[r].pc \in PlacePhases
    <3>1. /\ run[r].live \subseteq (0..(Copies - 1)) \X SprNodes /\ IsFiniteSet(run[r].live)
          /\ \A c \in Spr!Live : <<copy[c].idx, copy[c].node>> \in run[r].live
          /\ run[r].pc = "insert" => /\ run[r].pick \in (0..(Copies - 1)) \X SprNodes
                                     /\ \A l \in run[r].live, net \in SprNetworks : ~ {run[r].pick[2], l[2]} \subseteq net
      BY <2>2 DEF SprInv, SprKnows
    <3> QED
      BY <1>2, <2>2, <3>1 DEF SprKnows
  <2> QED
    BY <2>1, <2>2
<1>4. Spr!Spread'
  BY <1>2 DEF SprInv, Spr!Spread
<1> QED
  BY <1>1, <1>3, <1>4 DEF SprInv

\* Moving rows to another state is such a step, unless it revives one.
LEMMA SprMoves ==
  ASSUME SprInv, NEW cs, NEW from, NEW st \in CopyPhases, st = "dropping" \/ "dropping" \notin from,
         copy' = Spr!Move(cs, from, st), used' = used
  PROVE  SprRows
<1> SUFFICES ASSUME NEW c \in SprIds, c \in cs \cap Spr!In(from)
             PROVE  /\ copy[c] # None /\ copy'[c] \in Spr!Row /\ copy'[c].idx = copy[c].idx /\ copy'[c].node = copy[c].node
                    /\ copy[c].st = "dropping" => copy'[c].st = "dropping"
  BY DEF SprRows, Spr!Move
<1>1. copy[c] # None /\ copy[c] \in Spr!Row /\ copy[c].st \in from
  BY DEF Spr!In, Spr!Rows, SprInv, SprTypes
<1>2. copy'[c] = [copy[c] EXCEPT !.st = st]
  BY DEF Spr!Move
<1> QED
  BY <1>1, <1>2 DEF Spr!Row, CopyPhases

\* One row changes.
LEMMA SprOne ==
  ASSUME SprInv, NEW c \in SprIds, copy[c] # None, used' = used, NEW w, copy' = [copy EXCEPT ![c] = w],
         w \in Spr!Row, w.idx = copy[c].idx, w.node = copy[c].node, copy[c].st = "dropping" => w.st = "dropping"
  PROVE  SprRows
BY DEF SprInv, SprTypes, SprRows

\* So is leaving them.
LEMMA SprSame == ASSUME SprInv, UNCHANGED <<copy, used>> PROVE SprRows
BY DEF SprInv, SprTypes, SprRows

\* A run that has not begun has every field.
LEMMA IdleHas == DOMAIN Spr!IdleRun = RunKeys /\ Spr!IdleRun.pc = "idle"
BY DEF Spr!IdleRun, RunKeys

\* One run's record becomes that of a run that does not place.
LEMMA SprTurn ==
  ASSUME SprInv, NEW r \in Runs, NEW h, run' = [run EXCEPT ![r] = h], DOMAIN h = RunKeys, h.pc \notin PlacePhases
  PROVE  /\ run' = [q \in Runs |-> run'[q]]
         /\ \A q \in Runs : run'[q] = run[q] \/ (DOMAIN run'[q] = RunKeys /\ run'[q].pc \notin PlacePhases)
BY DEF SprInv, SprTypes

\* The statements of expireCopies.
LEMMA SprExpires ==
  ASSUME SprInv, NEW r \in Runs, Spr!ExpireStale(r) \/ Spr!ExpireOffline(r) \/ Spr!ExpireObject(r) \/ Spr!Forget(r)
  PROVE  SprInv'
<1>1. UNCHANGED <<used, run>>
  BY DEF Spr!ExpireStale, Spr!ExpireOffline, Spr!ExpireObject, Spr!Forget, Spr!object
<1>2. SprRows
  <2>1. CASE \E cs, from : copy' = Spr!Move(cs, from, "dropping")
    BY <1>1, <2>1, SprMoves DEF CopyPhases
  <2>2. CASE Spr!Forget(r)
    <3>1. PICK n : copy' = [c \in SprIds |-> IF c \in Spr!Of(n) \cap Spr!In({"dropping"}) THEN None ELSE copy[c]]
      BY <2>2 DEF Spr!Forget
    <3> QED
      BY <1>1, <3>1 DEF SprRows
  <2> QED
    BY <2>1, <2>2 DEF Spr!ExpireStale, Spr!ExpireOffline, Spr!ExpireObject
<1> QED
  BY <1>1, <1>2, SprStep DEF SprInv, SprTypes


\* A run that is placing: its record changes and the copies do not.
LEMMA SprTakes ==
  ASSUME SprInv, NEW r \in Runs, NEW h, run' = [run EXCEPT ![r] = h], DOMAIN h = RunKeys, SprKnows(h),
         UNCHANGED <<copy, used>>
  PROVE  SprInv'
<1>1. SprTypes'
  BY DEF SprInv, SprTypes
<1>2. Spr!Live' = Spr!Live
  BY DEF Spr!Live, Spr!In, Spr!Rows
<1>3. ASSUME NEW q \in Runs PROVE SprKnows(run[q])'
  <2> PICK v : v = run'[q]
    OBVIOUS
  <2>1. SprKnows(v)
    BY DEF SprInv, SprTypes
  <2> QED
    BY <1>2, <2>1 DEF SprKnows
<1>4. Spr!Spread'
  BY <1>2 DEF SprInv, Spr!Spread
<1> QED
  BY <1>1, <1>3, <1>4 DEF SprInv

\* A turn of placeCopies up to its insert: what it reads is every live copy.
LEMMA SprPlaces ==
  ASSUME SprInv, NEW r \in Runs, Spr!PlaceBegin(r) \/ Spr!PlaceHeld(r) \/ Spr!PlacePick(r)
  PROVE  SprInv'
<1>0. PICK o : o = run[r]
  OBVIOUS
<1>1. DOMAIN o = RunKeys /\ SprKnows(o)
  BY <1>0 DEF SprInv, SprTypes
<1>2. UNCHANGED <<copy, used>>
  BY DEF Spr!PlaceBegin, Spr!PlaceHeld, Spr!PlacePick, Spr!api, Spr!object
<1>3. CASE Spr!PlaceBegin(r)
  <2>1. PICK P : P = {<<copy[c].idx, copy[c].node>> : c \in Spr!Live}
    OBVIOUS
  <2>2. PICK h : h = [Spr!IdleRun EXCEPT !.pc = "held", !.live = P]
    OBVIOUS
  <2>3. DOMAIN h = RunKeys /\ h.pc = "held" /\ h.live = P
    BY <2>2, IdleHas DEF RunKeys
  <2>4. run' = [run EXCEPT ![r] = h]
    BY <1>3, <2>1, <2>2 DEF Spr!PlaceBegin
  <2>5. P \subseteq (0..(Copies - 1)) \X SprNodes /\ IsFiniteSet(P)
    <3>1. Spr!Live \subseteq SprIds /\ \A c \in Spr!Live : copy[c] \in Spr!Row
      BY SprLive DEF SprInv, SprTypes
    <3>2. P \subseteq (0..(Copies - 1)) \X SprNodes
      BY <2>1, <3>1, SprFields
    <3>3. IsFiniteSet(Spr!Live)
      BY <3>1, SprNumbers, FS_Subset
    <3> QED
      BY <2>1, <3>2, <3>3, PairsFinite
  <2>6. SprKnows(h)
    BY <2>1, <2>3, <2>5 DEF SprKnows
  <2> QED
    BY <1>2, <2>3, <2>4, <2>6, SprTakes
<1>4. CASE Spr!PlaceHeld(r)
  <2>1. PICK H : H = {copy[c].node : c \in Spr!Rows}
    OBVIOUS
  <2>2. PICK h : h = [o EXCEPT !.pc = "pick", !.held = H]
    OBVIOUS
  <2>3. DOMAIN h = RunKeys /\ h.pc = "pick" /\ h.live = o.live
    BY <1>1, <2>2 DEF RunKeys
  <2>4. run' = [run EXCEPT ![r] = h]
    BY <1>0, <1>4, <2>1, <2>2 DEF Spr!PlaceHeld
  <2>5. SprKnows(h)
    BY <1>0, <1>1, <1>4, <2>3 DEF SprKnows, Spr!PlaceHeld, PlacePhases
  <2> QED
    BY <1>2, <2>3, <2>4, <2>5, SprTakes
<1>5. CASE Spr!PlacePick(r)
  <2>0. o.pc = "pick"
    BY <1>0, <1>5 DEF Spr!PlacePick
  <2>1. CASE run' = [run EXCEPT ![r].pc = "end"]
    <3>2. PICK h : h = [o EXCEPT !.pc = "end"]
      OBVIOUS
    <3>3. DOMAIN h = RunKeys /\ h.pc = "end" /\ h.live = o.live
      BY <1>1, <3>2 DEF RunKeys
    <3>4. run' = [run EXCEPT ![r] = h]
      BY <1>0, <2>1, <3>2
    <3>5. SprKnows(h)
      BY <1>1, <2>0, <3>3 DEF SprKnows, PlacePhases
    <3> QED
      BY <1>2, <3>3, <3>4, <3>5, SprTakes
  <2>2. ASSUME NEW n \in SprNodes, Spr!Eligible(n, o.live, o.held), NEW i, i = Spr!FreeIdx(o.live),
               run' = [run EXCEPT ![r].pc = "insert", ![r].pick = <<i, n>>]
        PROVE  SprInv'
    <3>1. i \in 0..(Copies - 1)
      <4>1. Cardinality(o.live) < Copies
        BY <1>0, <1>5, SprCard DEF Spr!PlacePick
      <4>2. i = Sto!FreeIdx(o.live)
        BY <2>2 DEF Sto!FreeIdx, Spr!FreeIdx
      <4> QED
        BY <1>1, <2>0, <4>1, <4>2, FreeIndex DEF SprKnows, PlacePhases
    <3>2. PICK h : h = [o EXCEPT !.pc = "insert", !.pick = <<i, n>>]
      OBVIOUS
    <3>3. DOMAIN h = RunKeys /\ h.pc = "insert" /\ h.live = o.live /\ h.pick = <<i, n>>
      BY <1>1, <3>2 DEF RunKeys
    <3>4. run' = [run EXCEPT ![r] = h]
      BY <1>0, <2>2, <3>2
    <3>5. SprKnows(h)
      BY <1>1, <2>0, <2>2, <3>1, <3>3 DEF SprKnows, PlacePhases, Spr!Eligible
    <3> QED
      BY <1>2, <3>3, <3>4, <3>5, SprTakes
  <2> QED
    BY <1>0, <1>5, <2>1, <2>2 DEF Spr!PlacePick
<1> QED
  BY <1>3, <1>4, <1>5

\* The insert, by the only run there is.
LEMMA SprInserts ==
  ASSUME SprInv, \A q, s \in Runs : q = s, NEW r \in Runs, Spr!PlaceInsert(r)
  PROVE  SprInv'
<1>0. PICK o : o = run[r]
  OBVIOUS
<1>1. DOMAIN o = RunKeys /\ SprKnows(o) /\ o.pc = "insert"
  BY <1>0 DEF SprInv, SprTypes, Spr!PlaceInsert
<1>2. PICK p : p = o.pick
  OBVIOUS
<1>3. CASE run' = [run EXCEPT ![r].pc = "end"] /\ UNCHANGED <<copy, used>>
  <2>1. PICK h : h = [o EXCEPT !.pc = "end"]
    OBVIOUS
  <2>2. DOMAIN h = RunKeys /\ h.pc = "end" /\ h.live = o.live
    BY <1>1, <2>1 DEF RunKeys
  <2>3. run' = [run EXCEPT ![r] = h]
    BY <1>0, <1>3, <2>1
  <2>4. SprKnows(h)
    BY <1>1, <2>2 DEF SprKnows, PlacePhases
  <2> QED
    BY <1>3, <2>2, <2>3, <2>4, SprTakes
<1>4. p \in (0..(Copies - 1)) \X SprNodes /\ o.live \subseteq (0..(Copies - 1)) \X SprNodes /\ IsFiniteSet(o.live)
  BY <1>1, <1>2 DEF SprKnows, PlacePhases
<1>5. ASSUME NEW c \in SprIds \ used, p[1] \notin {copy[d].idx : d \in Spr!Live}, used' = used \cup {c},
             copy' = [copy EXCEPT ![c] = [idx |-> p[1], node |-> p[2], st |-> "pending", fetches |-> 0, checked |-> FALSE]],
             run'[r] = [o EXCEPT !.pc = "pick", !.live = @ \cup {p}, !.held = @ \cup {p[2]}, !.since = @ \cup {c}],
             run' = [q \in Runs |-> run'[q]]
      PROVE  SprInv'
  <2>1. PICK w : w = [idx |-> p[1], node |-> p[2], st |-> "pending", fetches |-> 0, checked |-> FALSE]
    OBVIOUS
  <2>2. w \in Spr!Row /\ w.st = "pending" /\ w.idx = p[1] /\ w.node = p[2]
    BY <1>5, <1>4, <2>1, SprNumbers DEF Spr!Row
  <2>3. copy'[c] = w /\ (\A d \in SprIds \ {c} : copy'[d] = copy[d]) /\ copy' \in [SprIds -> {None} \cup Spr!Row]
    BY <1>5, <2>1, <2>2 DEF SprInv, SprTypes
  <2>4. DOMAIN run'[r] = RunKeys /\ run'[r].pc = "pick" /\ run'[r].live = o.live \cup {p}
    BY <1>1, <1>5 DEF RunKeys
  <2>5. SprTypes'
    BY <1>5, <2>3, <2>4, ZenonT(60) DEF SprInv, SprTypes
  <2>6. \A d \in Spr!Live' : d = c \/ (d \in Spr!Live /\ copy'[d] = copy[d])
    <3>1. \A d \in SprIds : copy'[d] # None => copy'[d].st \in CopyPhases
      BY <2>3, SprFields
    <3>2. \A d : d \in Spr!Live' => d \in SprIds /\ copy'[d] # None /\ copy'[d].st # "dropping"
      BY <3>1 DEF Spr!Live, Spr!In, Spr!Rows, CopyPhases
    <3> QED
      BY <2>3, <3>2, SprLive DEF SprInv
  <2>7. /\ \A d \in Spr!Live : <<copy[d].idx, copy[d].node>> \in o.live
        /\ \A l \in o.live, net \in SprNetworks : ~ {p[2], l[2]} \subseteq net
    BY <1>1, <1>2 DEF SprKnows, PlacePhases
  <2>8. SprKnows(run[r])'
    <3>1. IsFiniteSet(o.live \cup {p}) /\ o.live \cup {p} \subseteq (0..(Copies - 1)) \X SprNodes
      BY <1>4, FS_AddElement
    <3>2. p = <<p[1], p[2]>>
      BY <1>4
    <3>3. \A d \in Spr!Live' : <<copy'[d].idx, copy'[d].node>> \in o.live \cup {p}
      BY <2>2, <2>3, <2>6, <2>7, <3>2
    <3> QED
      BY <2>4, <3>1, <3>3 DEF SprKnows
  <2>9. ASSUME NEW d \in Spr!Live
        PROVE  /\ p[1] # copy[d].idx
               /\ \A net \in SprNetworks : ~ {p[2], copy[d].node} \subseteq net /\ ~ {copy[d].node, p[2]} \subseteq net
    <3>1. <<copy[d].idx, copy[d].node>> \in o.live
      BY <2>7
    <3> QED
      BY <1>5, <1>4, <2>7, <3>1
  <2>10. Spr!Spread'
    <3> SUFFICES ASSUME NEW d \in Spr!Live', NEW e \in Spr!Live', d # e
                 PROVE  /\ copy'[d].idx # copy'[e].idx
                        /\ \A net \in SprNetworks : ~ {copy'[d].node, copy'[e].node} \subseteq net
      BY DEF Spr!Spread
    <3>1. CASE d \in Spr!Live /\ copy'[d] = copy[d] /\ e \in Spr!Live /\ copy'[e] = copy[e]
      BY <3>1 DEF SprInv, Spr!Spread
    <3>2. CASE d = c /\ e \in Spr!Live /\ copy'[e] = copy[e]
      BY <2>2, <2>3, <2>9, <3>2
    <3>3. CASE e = c /\ d \in Spr!Live /\ copy'[d] = copy[d]
      BY <2>2, <2>3, <2>9, <3>3
    <3> QED
      BY <2>6, <3>1, <3>2, <3>3
  <2>11. \A q \in Runs : q = r
    OBVIOUS
  <2> QED
    BY <2>5, <2>8, <2>10, <2>11 DEF SprInv
<1> QED
  <2>1. CASE p[1] \in {copy[d].idx : d \in Spr!Live}
    BY <1>0, <1>2, <1>3, <2>1 DEF Spr!PlaceInsert
  <2>2. CASE p[1] \notin {copy[d].idx : d \in Spr!Live}
    <3>1. PICK c \in SprIds \ used :
            /\ used' = used \cup {c}
            /\ copy' = [copy EXCEPT ![c] = [idx |-> p[1], node |-> p[2], st |-> "pending", fetches |-> 0, checked |-> FALSE]]
            /\ run' = [q \in Runs |->
                 IF q = r THEN [run[r] EXCEPT !.pc = "pick", !.live = @ \cup {p}, !.held = @ \cup {p[2]}, !.since = @ \cup {c}]
                 ELSE IF Spr!Placing(q) THEN [run[q] EXCEPT !.since = @ \cup {c}] ELSE run[q]]
      BY <1>0, <1>2, <2>2, ZenonT(60) DEF Spr!PlaceInsert
    <3>2. /\ run'[r] = [o EXCEPT !.pc = "pick", !.live = @ \cup {p}, !.held = @ \cup {p[2]}, !.since = @ \cup {c}]
          /\ run' = [q \in Runs |-> run'[q]]
      BY <1>0, <3>1
    <3> QED
      BY <1>5, <2>2, <3>1, <3>2
  <2> QED
    BY <2>1, <2>2


\* A run that ends its turn, checks or audits.
LEMMA SprEnds ==
  ASSUME SprInv, NEW r \in Runs,
         \/ Spr!PlaceEnd(r) \/ Spr!RunEnd(r) \/ Spr!CheckBegin(r) \/ Spr!CheckNothing(r)
         \/ Spr!CheckPass(r) \/ Spr!CheckFail(r) \/ Spr!AuditBegin(r) \/ Spr!AuditPass(r) \/ Spr!AuditFail(r)
  PROVE  SprInv'
<1>1. PICK h : run' = [run EXCEPT ![r] = h] /\ DOMAIN h = RunKeys /\ h.pc \notin PlacePhases
  <2>0. DOMAIN run[r] = RunKeys
    BY DEF SprInv, SprTypes
  <2>1. CASE run' = [run EXCEPT ![r] = Spr!IdleRun]
    BY <2>1, IdleHas DEF PlacePhases
  <2>2. CASE run' = [run EXCEPT ![r] = [Spr!IdleRun EXCEPT !.done = @]]
    <3>1. PICK h : h = [Spr!IdleRun EXCEPT !.done = @]
      OBVIOUS
    <3>2. DOMAIN h = RunKeys /\ h.pc = "idle"
      BY <3>1, IdleHas DEF RunKeys
    <3> QED
      BY <2>2, <3>1, <3>2 DEF PlacePhases
  <2>3. ASSUME NEW pc \in {"check", "audit"}, NEW p, NEW c, NEW n,
               run' = [run EXCEPT ![r].pc = pc, ![r].pick = p, ![r].copy = c, ![r].done = @ \cup {n}]
        PROVE  \E h : run' = [run EXCEPT ![r] = h] /\ DOMAIN h = RunKeys /\ h.pc \notin PlacePhases
    <3>1. PICK h : h = [run[r] EXCEPT !.pc = pc, !.pick = p, !.copy = c, !.done = @ \cup {n}]
      OBVIOUS
    <3>2. DOMAIN h = RunKeys /\ h.pc = pc
      BY <2>0, <3>1 DEF RunKeys
    <3>3. run' = [run EXCEPT ![r] = h]
      BY <2>3, <3>1
    <3> QED
      BY <2>3, <3>2, <3>3 DEF PlacePhases
  <2>4. CASE Spr!PlaceEnd(r) \/ Spr!RunEnd(r)
    BY <2>1, <2>4 DEF Spr!PlaceEnd, Spr!RunEnd
  <2>5. CASE Spr!CheckNothing(r) \/ Spr!CheckPass(r) \/ Spr!CheckFail(r) \/ Spr!AuditPass(r) \/ Spr!AuditFail(r)
    BY <2>2, <2>5, ZenonT(60) DEF Spr!CheckNothing, Spr!CheckPass, Spr!CheckFail, Spr!AuditPass, Spr!AuditFail
  <2>6. CASE Spr!CheckBegin(r)
    BY <2>3, <2>6, ZenonT(60) DEF Spr!CheckBegin
  <2>7. CASE Spr!AuditBegin(r)
    <3>1. PICK c, n : run' = [run EXCEPT ![r].pc = "audit", ![r].pick = <<0, n>>, ![r].copy = c, ![r].done = @ \cup {n}]
      BY <2>7, ZenonT(60) DEF Spr!AuditBegin
    <3> QED
      BY <2>3, <3>1, ZenonT(60)
  <2> QED
    BY <2>4, <2>5, <2>6, <2>7
<1>2. used' = used
  BY DEF Spr!PlaceEnd, Spr!RunEnd, Spr!CheckBegin, Spr!CheckNothing, Spr!CheckPass, Spr!CheckFail, Spr!AuditBegin,
         Spr!AuditPass, Spr!AuditFail, Spr!api, Spr!object
<1>3. SprRows
  <2>1. CASE UNCHANGED copy
    BY <1>2, <2>1, SprSame
  <2>2. ASSUME NEW c \in Spr!Rows, copy' = [copy EXCEPT ![c].checked = TRUE] PROVE SprRows
    <3>1. c \in SprIds /\ copy[c] # None /\ copy[c] \in Spr!Row
      BY DEF Spr!Rows, SprInv, SprTypes
    <3>2. PICK w : w = [copy[c] EXCEPT !.checked = TRUE]
      OBVIOUS
    <3>3. w \in Spr!Row /\ w.idx = copy[c].idx /\ w.node = copy[c].node /\ w.st = copy[c].st
      BY <3>1, <3>2 DEF Spr!Row
    <3>4. copy' = [copy EXCEPT ![c] = w]
      BY <2>2, <3>2
    <3> QED
      BY <1>2, <3>1, <3>3, <3>4, SprOne
  <2>3. CASE \E cs, from : copy' = Spr!Move(cs, from, "dropping")
    BY <1>2, <2>3, SprMoves DEF CopyPhases
  <2>4. CASE \E cs : copy' = Spr!Move(cs, {"suspect"}, "held")
    BY <1>2, <2>4, SprMoves DEF CopyPhases
  <2>5. CASE Spr!CheckFail(r)
    <3>1. copy' = [c \in SprIds |->
            IF c = run[r].copy /\ c \in Spr!In({"held", "suspect"}) THEN [copy[c] EXCEPT !.st = "dropping", !.checked = TRUE]
            ELSE IF c \in Spr!Of(run[r].pick[2]) \cap Spr!In({"held"}) THEN [copy[c] EXCEPT !.st = "suspect", !.checked = FALSE]
            ELSE copy[c]]
      BY <2>5 DEF Spr!CheckFail
    <3>2. ASSUME NEW c \in SprIds, copy'[c] # copy[c]
          PROVE  /\ copy[c] # None /\ copy'[c] \in Spr!Row /\ copy'[c].idx = copy[c].idx /\ copy'[c].node = copy[c].node
                 /\ copy[c].st # "dropping"
      <4>1. copy[c] # None /\ copy[c] \in Spr!Row /\ copy[c].st \in {"held", "suspect"}
        BY <3>1, <3>2 DEF Spr!In, Spr!Rows, SprInv, SprTypes
      <4>2. copy'[c] = [copy[c] EXCEPT !.st = "dropping", !.checked = TRUE]
            \/ copy'[c] = [copy[c] EXCEPT !.st = "suspect", !.checked = FALSE]
        BY <3>1, <3>2
      <4> QED
        BY <4>1, <4>2 DEF Spr!Row
    <3>3. copy' = [c \in SprIds |-> copy'[c]]
      BY <3>1, ZenonT(60)
    <3> QED
      BY <1>2, <3>2, <3>3 DEF SprRows
  <2>6. CASE Spr!PlaceEnd(r) \/ Spr!RunEnd(r) \/ Spr!CheckBegin(r) \/ Spr!CheckNothing(r)
    BY <2>1, <2>6 DEF Spr!PlaceEnd, Spr!RunEnd, Spr!CheckBegin, Spr!CheckNothing, Spr!api
  <2>7. CASE Spr!CheckPass(r)
    BY <2>1, <2>2, <2>7, SMTT(60) DEF Spr!CheckPass
  <2>8. CASE Spr!AuditBegin(r)
    BY <2>2, <2>8 DEF Spr!AuditBegin, Spr!In
  <2>9. CASE Spr!AuditPass(r) \/ Spr!AuditFail(r)
    BY <2>3, <2>4, <2>9 DEF Spr!AuditPass, Spr!AuditFail
  <2> QED
    BY <2>5, <2>6, <2>7, <2>8, <2>9
<1> QED
  BY <1>1, <1>3, SprTurn, SprStep

\* A step of an agent touches one row at most, and no run.
LEMMA SprServes ==
  ASSUME SprInv, NEW n \in SprNodes, Spr!Serve(n) \/ Spr!BodyLost(n) \/ Spr!Undelivered(n) \/ Spr!Crash(n)
  PROVE  SprInv'
<1>1. UNCHANGED <<used, run>>
  BY DEF Spr!Serve, Spr!BodyLost, Spr!Undelivered, Spr!Crash, Spr!Instruct, Spr!Handle, Spr!Delete, Spr!FetchKnown,
         Spr!Download, Spr!Keep, Spr!Send, Spr!ReportHeld, Spr!ReportSchedule, Spr!ReportDeleted, Spr!ReportFailed,
         Spr!Delivered, Spr!Restart, Spr!api, Spr!object
<1>2. SprRows
  <2>1. CASE UNCHANGED copy
    BY <1>1, <2>1, SprSame
  <2>2. CASE Spr!Download(n)
    <3>1. UNCHANGED copy \/ \E c : Spr!MayDownload(c) /\ copy' = [copy EXCEPT ![c].fetches = @ + 1]
      BY <2>2 DEF Spr!Download
    <3>2. ASSUME NEW c, Spr!MayDownload(c), copy' = [copy EXCEPT ![c].fetches = @ + 1] PROVE SprRows
      <4>1. c \in SprIds /\ copy[c] # None /\ copy[c] \in Spr!Row /\ copy[c].fetches < Fetches
        BY <3>2 DEF Spr!MayDownload, Spr!In, Spr!Rows, SprInv, SprTypes
      <4>2. PICK w : w = [copy[c] EXCEPT !.fetches = @ + 1]
        OBVIOUS
      <4>3. copy[c].fetches + 1 \in 0..Fetches
        BY <4>1, SprFields, SprNumbers
      <4>4. w \in Spr!Row /\ w.idx = copy[c].idx /\ w.node = copy[c].node /\ w.st = copy[c].st
        BY <4>1, <4>2, <4>3 DEF Spr!Row
      <4>5. copy' = [copy EXCEPT ![c] = w]
        BY <3>2, <4>2
      <4> QED
        BY <1>1, <4>1, <4>4, <4>5, SprOne
    <3> QED
      BY <2>1, <3>1, <3>2
  <2>3. CASE Spr!ReportHeld(n)
    <3>1. PICK c : c = Spr!Reported(n)
      OBVIOUS
    <3>2. UNCHANGED copy \/ (Spr!MayHold(c) /\ copy' = [copy EXCEPT ![c].st = "held"])
      BY <2>3, <3>1 DEF Spr!ReportHeld
    <3>3. ASSUME Spr!MayHold(c), copy' = [copy EXCEPT ![c].st = "held"] PROVE SprRows
      <4>1. c \in SprIds /\ copy[c] # None /\ copy[c] \in Spr!Row /\ copy[c].st = "pending"
        BY <3>3 DEF Spr!MayHold, Spr!In, Spr!Rows, SprInv, SprTypes
      <4>2. PICK w : w = [copy[c] EXCEPT !.st = "held"]
        OBVIOUS
      <4>3. w \in Spr!Row /\ w.idx = copy[c].idx /\ w.node = copy[c].node
        BY <4>1, <4>2 DEF Spr!Row
      <4>4. copy' = [copy EXCEPT ![c] = w]
        BY <3>3, <4>2
      <4> QED
        BY <1>1, <4>1, <4>3, <4>4, SprOne
    <3> QED
      BY <2>1, <3>2, <3>3
  <2>4. CASE Spr!ReportDeleted(n)
    <3>1. copy' = [c \in SprIds |-> IF c = Spr!Reported(n) /\ Spr!MayForget(c) THEN None ELSE copy[c]]
      BY <2>4 DEF Spr!ReportDeleted
    <3>2. ASSUME NEW c \in SprIds PROVE copy'[c] = copy[c] \/ copy'[c] = None
      BY <3>1
    <3>3. copy' = [c \in SprIds |-> copy'[c]]
      BY <3>1
    <3> QED
      BY <1>1, <3>2, <3>3 DEF SprRows
  <2>5. CASE Spr!ReportFailed(n)
    <3>1. copy' = Spr!Move({Spr!Reported(n)}, {"pending"}, "dropping")
      BY <2>5, SMTT(60) DEF Spr!ReportFailed
    <3> QED
      BY <1>1, <3>1, SprMoves DEF CopyPhases
  <2>6. UNCHANGED copy \/ Spr!Download(n) \/ Spr!ReportHeld(n) \/ Spr!ReportDeleted(n) \/ Spr!ReportFailed(n)
    BY DEF Spr!Serve, Spr!BodyLost, Spr!Undelivered, Spr!Crash, Spr!Instruct, Spr!Handle, Spr!Delete, Spr!FetchKnown,
           Spr!Keep, Spr!Send, Spr!ReportSchedule, Spr!Delivered, Spr!Restart, Spr!api
  <2> QED
    BY <2>1, <2>2, <2>3, <2>4, <2>5, <2>6
<1> QED
  BY <1>1, <1>2, SprStep, SMTT(60) DEF SprInv, SprTypes

\* The invariant holds at the start.
LEMMA SprInit == Spr!Init => SprInv
<1> SUFFICES ASSUME Spr!Init PROVE SprInv
  OBVIOUS
<1>1. copy = [c \in SprIds |-> None] /\ used = {} /\ run = [r \in Runs |-> Spr!IdleRun]
  BY DEF Spr!Init
<1>2. SprTypes
  BY <1>1, IdleHas DEF SprTypes
<1>3. \A r \in Runs : SprKnows(run[r])
  BY <1>1, IdleHas DEF SprKnows, PlacePhases
<1>4. Spr!Spread
  BY <1>1, <1>2, SprLive DEF Spr!Spread
<1> QED
  BY <1>2, <1>3, <1>4 DEF SprInv

\* The other components leave it.
LEMMA SprStays == ASSUME SprInv, UNCHANGED stoVars PROVE SprInv'
<1>1. UNCHANGED <<copy, used, run>>
  BY DEF stoVars
<1> QED
  BY <1>1, SprSame, SprStep DEF SprInv, SprTypes

\* Every step keeps it, while no two runs overlap.
LEMMA SprNext == ASSUME SprInv, \A q, s \in Runs : q = s, Spr!Next PROVE SprInv'
<1>1. ASSUME NEW r \in Runs, Spr!RunStep(r) PROVE SprInv'
  BY <1>1, SprExpires, SprPlaces, SprInserts, SprEnds DEF Spr!RunStep
<1> QED
  BY <1>1, SprServes DEF Spr!Next

-----------------------------------------------------------------------------
\* The runs' invariants: of the copies of an object whose nodes fail, and of one whose nodes share networks.
FailingInv == part \in {"placement", "storage", "spread"} /\ (part = "storage" => StoInv)
SharingInv == part \in {"placement", "storage", "spread"} /\ (part = "spread" => SprInv)

\* Every step of the composition keeps the first,
LEMMA FailingStep ==
  ASSUME FailingInv, ~Torn, [NetworkNext]_all
  PROVE  FailingInv'
<1>1. CASE UNCHANGED all \/ (PlacementOnly /\ Next)
  <2>1. UNCHANGED <<part, stoVars>>
    BY <1>1 DEF all, PlacementOnly
  <2>2. part = "storage" => StoInv'
    BY <2>1, StoSame DEF FailingInv
  <2> QED
    BY <2>1, <2>2 DEF FailingInv
<1>2. CASE StorageOnly /\ Sto!Next
  <2>1. part = "storage" /\ part' = part
    BY <1>2 DEF StorageOnly
  <2>2. StoInv'
    BY <1>2, <2>1, StoNext DEF FailingInv
  <2> QED
    BY <2>1, <2>2 DEF FailingInv
<1>3. CASE SpreadOnly
  BY <1>3 DEF SpreadOnly, FailingInv
<1> QED
  BY <1>1, <1>2, <1>3 DEF NetworkNext

\* and the second.
LEMMA SharingStep ==
  ASSUME SharingInv, \A q, s \in Runs : q = s, [NetworkNext]_all
  PROVE  SharingInv'
<1>1. CASE UNCHANGED all \/ (PlacementOnly /\ Next)
  <2>1. UNCHANGED <<part, stoVars>>
    BY <1>1 DEF all, PlacementOnly
  <2>2. part = "spread" => SprInv'
    BY <2>1, SprStays DEF SharingInv
  <2> QED
    BY <2>1, <2>2 DEF SharingInv
<1>2. CASE StorageOnly
  BY <1>2 DEF StorageOnly, SharingInv
<1>3. CASE SpreadOnly /\ Spr!Next
  <2>1. part = "spread" /\ part' = part
    BY <1>3 DEF SpreadOnly
  <2>2. SprInv'
    BY <1>3, <2>1, SprNext DEF SharingInv
  <2> QED
    BY <2>1, <2>2 DEF SharingInv
<1> QED
  BY <1>1, <1>2, <1>3 DEF NetworkNext

\* A copy the API counts is on its node's disk, whatever is on a disk is known to the API, and every held copy is
\* probed, however many cron runs overlap and whatever is lost, while a report is applied whole (~Torn).
THEOREM CopiesStayHeld ==
  ASSUME ~Torn
  PROVE  NetworkSpec => [](part = "storage" => Sto!TypeOK /\ Sto!HeldIsOnDisk /\ Sto!DiskIsKnown /\ Sto!HeldIsScheduled)
<1>1. NetworkInit => FailingInv
  BY StoInit DEF NetworkInit, FailingInv
<1>2. FailingInv /\ [NetworkNext]_all => FailingInv'
  BY FailingStep
<1>3. FailingInv => (part = "storage" => Sto!TypeOK /\ Sto!HeldIsOnDisk /\ Sto!DiskIsKnown /\ Sto!HeldIsScheduled)
  BY StoIs DEF FailingInv
<1> QED
  BY <1>1, <1>2, <1>3, PTL DEF NetworkSpec

\* And the copies of an object are on different nodes, networks and indices, while the cron runs do not overlap:
\* a run that places knows every live copy, for no other run places one.
THEOREM StorageStaysSound ==
  ASSUME ~Torn, \A q, s \in Runs : q = s
  PROVE  NetworkSpec => []StorageSound
<1>1. NetworkInit => FailingInv /\ SharingInv
  BY StoInit, SprInit DEF NetworkInit, FailingInv, SharingInv
<1>2. FailingInv /\ SharingInv /\ [NetworkNext]_all => FailingInv' /\ SharingInv'
  BY FailingStep, SharingStep
<1>3. FailingInv /\ SharingInv => StorageSound
  BY StoIs DEF FailingInv, SharingInv, StorageSound, SprInv
<1> QED
  BY <1>1, <1>2, <1>3, PTL DEF NetworkSpec
=============================================================================
