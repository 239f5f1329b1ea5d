----------------------------- MODULE Placement -----------------------------
(***************************************************************************)
(* Which node runs which deployment: the assign step of a node's heartbeat, *)
(* the preemption step of the duties cron, and the operator's suspension    *)
(* and draining of nodes (deployment-duties.service.ts, nodes.service.ts).  *)
(*                                                                         *)
(* Every await separates two steps: a heartbeat reads the node's load, then *)
(* the queue, and claims one row at a time; the cron decides from lists it  *)
(* read at the start.  GPUs, CPU and memory are one quantity (Need, Size);  *)
(* what never changes for a node and a deployment (capabilities, relay,     *)
(* agent version, image, fleet) is Serves.                                  *)
(***************************************************************************)
EXTENDS Naturals, FiniteSets, FiniteSetsExt

CONSTANTS
  Nodes, None,
  Deps,           \* deployments, numbered in the order they were created
  Static,         \* static sites; the rest are containers
  Interruptible,  \* workstations of the interruptible tier
  Parent,         \* per deployment: its endpoint, or None
  Need,           \* per deployment: what it takes of a node
  Size,           \* per node: what it has
  Slots, StaticSlots,   \* NODE_CAPACITY
  Serves,         \* per node: the deployments it is able to serve
  Beats,          \* heartbeats under way
  Overlap,        \* whether two heartbeats of one node may be under way
  Reports,        \* whether a node reports "running" while it is being suspended
  MaxChanges      \* bound: re-queues, refusals, suspensions and drains

ASSUME PlacementAssumption ==
  /\ Deps \subseteq Nat /\ IsFiniteSet(Deps) /\ Static \subseteq Deps /\ Interruptible \subseteq Deps \ Static
  /\ Need \in [Deps -> Nat] /\ Size \in [Nodes -> Nat] /\ Serves \in [Nodes -> SUBSET Deps]
  /\ Slots \in Nat /\ StaticSlots \in Nat /\ Overlap \in BOOLEAN /\ Reports \in BOOLEAN
  /\ None \notin Nodes \cup Deps /\ MaxChanges \in Nat
  /\ \A d \in Static : Need[d] = 0 /\ Parent[d] = None

VARIABLES
  dep,     \* per deployment: status, node, the node that just refused it
  state,   \* per node: its administrative state
  hb,      \* per heartbeat: what its assign step knows
  cron,    \* the cron's preemption step
  admin,   \* a suspension: the node, and the rows it read
  changes

vars == <<dep, state, hb, cron, admin, changes>>

Live == {"assigned", "running"}
IdleHb    == [pc |-> "idle", node |-> None, mine |-> {}, todo |-> {}]
IdleCron  == [pc |-> "idle", todo |-> {}, at |-> [d \in Deps |-> None], was |-> [d \in Deps |-> "queued"],
              nodes |-> {}, victim |-> None]
IdleAdmin == [node |-> None, todo |-> {}, was |-> [d \in Deps |-> "queued"]]

Init ==
  /\ dep = [d \in Deps |-> [st |-> "queued", node |-> None, refused |-> None]]
  /\ state = [n \in Nodes |-> "active"]
  /\ hb = [b \in Beats |-> IdleHb] /\ cron = IdleCron /\ admin = IdleAdmin
  /\ changes = 0

-----------------------------------------------------------------------------
(* Capacity. *)

Queued == {d \in Deps : dep[d].st = "queued"}
LiveOn(n) == {d \in Deps : dep[d].st \in Live /\ dep[d].node = n}
SumNeed(S) == SumFunctionOnSet(Need, S)
Capacity(phase) == IF phase = "static" THEN StaticSlots ELSE Slots
Class(phase) == IF phase = "static" THEN Static ELSE Deps \ Static

\* Mutant: only the number of containers is compared.
fitsSlots(q, n, mine, phase) == Cardinality(mine) < Capacity(phase)

\* fits(): the deployments in mine are on the node already.
fits(q, n, mine, phase) == Cardinality(mine) < Capacity(phase) /\ SumNeed(mine) + Need[q] <= Size[n]

-----------------------------------------------------------------------------
(* assign(), on a heartbeat: static sites first, then containers. *)

Beat(b, n) ==
  /\ hb[b].pc = "idle" /\ state[n] = "active" /\ Queued # {}
  /\ Overlap \/ \A c \in Beats : hb[c].node # n
  /\ hb' = [hb EXCEPT ![b] = [IdleHb EXCEPT !.pc = "static", !.node = n]]
  /\ UNCHANGED <<dep, state, cron, admin, changes>>

NextPhase(b) == IF hb[b].pc \in {"static", "staticQueue"} THEN [hb[b] EXCEPT !.pc = "container", !.todo = {}] ELSE IdleHb

ReadLoad(b) ==
  /\ hb[b].pc \in {"static", "container"}
  /\ LET mine == LiveOn(hb[b].node) \cap Class(hb[b].pc)
     IN hb' = [hb EXCEPT ![b] =
          IF Cardinality(mine) >= Capacity(hb[b].pc) THEN NextPhase(b)
          ELSE [hb[b] EXCEPT !.mine = mine, !.pc = IF @ = "static" THEN "staticList" ELSE "containerList"]]
  /\ UNCHANGED <<dep, state, cron, admin, changes>>

\* Rows this node just refused, and those it cannot serve, are passed over.
ReadQueue(b) ==
  /\ hb[b].pc \in {"staticList", "containerList"}
  /\ hb' = [hb EXCEPT ![b].todo = {q \in Queued \cap Serves[hb[b].node] :
                                      dep[q].refused # hb[b].node /\ (q \in Static <=> hb[b].pc = "staticList")},
                      ![b].pc = IF @ = "staticList" THEN "staticQueue" ELSE "containerQueue"]
  /\ UNCHANGED <<dep, state, cron, admin, changes>>

\* Mutant: replicas of one endpoint may share a node.
SiblingOnNone(q, n) == FALSE

\* replicaFits: a live sibling on this node
SiblingOn(q, n) == Parent[q] # None /\ \E d \in LiveOn(n) : Parent[d] = Parent[q]

Phase(b) == IF hb[b].pc \in {"staticQueue", "staticClaim"} THEN "static" ELSE "container"

\* The next queued row in order of arrival: passed over, or about to be claimed.
Consider(b) ==
  /\ hb[b].pc \in {"staticQueue", "containerQueue"}
  /\ IF hb[b].todo = {} \/ Cardinality(hb[b].mine) >= Capacity(Phase(b)) THEN hb' = [hb EXCEPT ![b] = NextPhase(b)]
     ELSE LET q == Min(hb[b].todo)   n == hb[b].node
              takes == ~SiblingOn(q, n) /\ fits(q, n, hb[b].mine, Phase(b))
          IN hb' = IF takes THEN [hb EXCEPT ![b].pc = IF @ = "staticQueue" THEN "staticClaim" ELSE "containerClaim"]
                   ELSE [hb EXCEPT ![b].todo = @ \ {q}]
  /\ UNCHANGED <<dep, state, cron, admin, changes>>

\* Mutant: the claim does not look at the node's state again.
MayClaimAnyState(q, n) == dep[q].st = "queued"

\* The claim's WHERE clause
MayClaim(q, n) == dep[q].st = "queued" /\ state[n] = "active"

claim(b) ==
  /\ hb[b].pc \in {"staticClaim", "containerClaim"}
  /\ LET q == Min(hb[b].todo)   n == hb[b].node   won == MayClaim(q, n)
     IN /\ dep' = IF won THEN [dep EXCEPT ![q].st = "assigned", ![q].node = n] ELSE dep
        /\ hb' = [hb EXCEPT ![b].mine = IF won THEN @ \cup {q} ELSE @, ![b].todo = @ \ {q},
                            ![b].pc = IF @ = "staticClaim" THEN "staticQueue" ELSE "containerQueue"]
  /\ UNCHANGED <<state, cron, admin, changes>>

-----------------------------------------------------------------------------
(* preemptForOnDemand, on the cron. *)

OnDemand == {d \in Deps \ (Static \cup Interruptible) : Parent[d] = None}

PreemptQueue ==
  /\ cron.pc = "idle" /\ Queued \cap OnDemand # {}
  /\ cron' = [IdleCron EXCEPT !.pc = "nodes", !.todo = Queued \cap OnDemand]
  /\ UNCHANGED <<dep, state, hb, admin, changes>>

PreemptNodes ==
  /\ cron.pc = "nodes"
  /\ cron' = [cron EXCEPT !.pc = "live", !.nodes = {n \in Nodes : state[n] = "active"}]
  /\ UNCHANGED <<dep, state, hb, admin, changes>>

PreemptLive ==
  /\ cron.pc = "live"
  /\ cron' = [cron EXCEPT !.pc = "loop", !.was = [d \in Deps |-> dep[d].st],
                          !.at = [d \in Deps |-> IF dep[d].st \in Live /\ d \notin Static THEN dep[d].node ELSE None]]
  /\ UNCHANGED <<dep, state, hb, admin, changes>>

At(n) == {d \in Deps : cron.at[d] = n}
canTake(q, n) == q \in Serves[n]
Roomy(q) == {n \in cron.nodes : canTake(q, n) /\ fits(q, n, At(n), "container")}

\* Mutant: the victim is still counted when the room is computed.
VictimsStillCounted(q) ==
  {v \in Interruptible : cron.at[v] \in cron.nodes /\ canTake(q, cron.at[v]) /\ fits(q, cron.at[v], At(cron.at[v]), "container")}

\* Interruptible workstations without which q would fit; the code takes the
\* youngest of them.
Victims(q) ==
  {v \in Interruptible : /\ cron.at[v] \in cron.nodes /\ canTake(q, cron.at[v])
                         /\ fits(q, cron.at[v], At(cron.at[v]) \ {v}, "container")}

\* The next on-demand row: it gets room that is free, or a victim, or nothing.
PreemptNext ==
  /\ cron.pc = "loop"
  /\ \/ /\ cron.todo = {}
        /\ cron' = IdleCron
     \/ /\ cron.todo # {}
        /\ LET q == Min(cron.todo)
           IN \/ \E n \in Roomy(q) : cron' = [cron EXCEPT !.at[q] = n, !.todo = @ \ {q}]
              \/ /\ Roomy(q) = {}
                 /\ \E v \in Victims(q) : cron' = [cron EXCEPT !.victim = v, !.pc = "end"]
              \/ /\ Roomy(q) = {} /\ Victims(q) = {}
                 /\ cron' = [cron EXCEPT !.todo = @ \ {q}]
  /\ UNCHANGED <<dep, state, hb, admin, changes>>

\* endDeployment: only while the victim's status is the one that was read.
PreemptEnd ==
  /\ cron.pc = "end"
  /\ LET v == cron.victim   q == Min(cron.todo)   n == cron.at[v]
     IN IF dep[v].st = cron.was[v]
        THEN /\ dep' = [dep EXCEPT ![v].st = "ended"]
             /\ cron' = [cron EXCEPT !.pc = "loop", !.victim = None, !.todo = @ \ {q}, !.at[v] = None, !.at[q] = n]
        ELSE /\ cron' = [cron EXCEPT !.pc = "loop", !.victim = None, !.todo = @ \ {q}]
             /\ UNCHANGED dep
  /\ UNCHANGED <<state, hb, admin, changes>>

-----------------------------------------------------------------------------
(* Nodes and operators. *)

\* Mutant: the UPDATE does not ask for the status it expects.
ReportRunningAny(d) ==
  /\ dep[d].st \in {"assigned", "queued"}
  /\ dep' = [dep EXCEPT ![d].st = "running"]
  /\ UNCHANGED <<state, hb, cron, admin, changes>>

\* A status report: it runs.
ReportRunning(d) ==
  /\ dep[d].st = "assigned" /\ (Reports \/ admin.node = None)
  /\ dep' = [dep EXCEPT ![d].st = "running"]
  /\ UNCHANGED <<state, hb, cron, admin, changes>>

\* A status report: it failed or stopped.
ReportEnded(d) ==
  /\ dep[d].st \in Live /\ changes < MaxChanges /\ changes' = changes + 1
  /\ dep' = [dep EXCEPT ![d].st = "ended"]
  /\ UNCHANGED <<state, hb, cron, admin>>

\* A refusal (no free GPUs, cannot serve, never started) or a node gone offline.
Requeue(d) ==
  /\ dep[d].st \in Live /\ changes < MaxChanges /\ changes' = changes + 1
  /\ \E refused \in {None, dep[d].node} : dep' = [dep EXCEPT ![d] = [st |-> "queued", node |-> None, refused |-> refused]]
  /\ UNCHANGED <<state, hb, cron, admin>>

\* setOwnNodeDraining and its resume; a suspension is not the owner's to lift.
Drain(n) ==
  /\ state[n] # "suspended" /\ changes < MaxChanges /\ changes' = changes + 1
  /\ state' = [state EXCEPT ![n] = IF @ = "active" THEN "draining" ELSE "active"]
  /\ UNCHANGED <<dep, hb, cron, admin>>

\* setNodeSuspended: the node row
Suspend(n) ==
  /\ admin.node = None /\ state[n] # "suspended" /\ changes < MaxChanges /\ changes' = changes + 1
  /\ state' = [state EXCEPT ![n] = "suspended"]
  /\ admin' = [IdleAdmin EXCEPT !.node = n, !.todo = {None}]
  /\ UNCHANGED <<dep, hb, cron>>

Unsuspend(n) ==
  /\ state[n] = "suspended" /\ admin.node # n
  /\ state' = [state EXCEPT ![n] = "active"]
  /\ UNCHANGED <<dep, hb, cron, admin, changes>>

\* requeueNodeDeployments: the rows are read ...
SuspendRead ==
  /\ admin.todo = {None}
  /\ LET rows == LiveOn(admin.node)
     IN admin' = IF rows = {} THEN IdleAdmin
                 ELSE [admin EXCEPT !.todo = rows, !.was = [d \in Deps |-> IF d \in rows THEN dep[d].st ELSE "queued"]]
  /\ UNCHANGED <<dep, state, hb, cron, changes>>

\* ... and re-queued one by one, each only if its status and node are unchanged.
SuspendRow ==
  /\ admin.node # None /\ admin.todo # {None}
  /\ LET d == Min(admin.todo)
         same == dep[d].st = admin.was[d] /\ dep[d].node = admin.node
     IN /\ dep' = IF same THEN [dep EXCEPT ![d] = [st |-> "queued", node |-> None, refused |-> None]] ELSE dep
        /\ admin' = IF admin.todo = {d} THEN IdleAdmin ELSE [admin EXCEPT !.todo = @ \ {d}]
  /\ UNCHANGED <<state, hb, cron, changes>>

-----------------------------------------------------------------------------

Assign(b) == ReadLoad(b) \/ ReadQueue(b) \/ Consider(b) \/ claim(b)
Preempt == PreemptQueue \/ PreemptNodes \/ PreemptLive \/ PreemptNext \/ PreemptEnd
Operate == SuspendRead \/ SuspendRow \/ \E n \in Nodes : Drain(n) \/ Suspend(n) \/ Unsuspend(n)
Report == \E d \in Deps : ReportRunning(d) \/ ReportEnded(d) \/ Requeue(d)

Next ==
  \/ \E b \in Beats : Assign(b) \/ \E n \in Nodes : Beat(b, n)
  \/ Preempt \/ Operate \/ Report

Spec == Init /\ [][Next]_vars

\* Nodes beat, the API answers, and the cron runs every minute.
Fairness ==
  /\ \A b \in Beats : WF_vars(Assign(b)) /\ \A n \in Nodes : SF_vars(Beat(b, n))
  /\ WF_vars(Preempt) /\ WF_vars(SuspendRead \/ SuspendRow)

FairSpec == Spec /\ Fairness

-----------------------------------------------------------------------------
(* Properties. *)

TypeOK ==
  /\ \A d \in Deps : /\ dep[d].st \in Live \cup {"queued", "ended"}
                     /\ dep[d].node \in Nodes \cup {None} /\ dep[d].refused \in Nodes \cup {None}
                     /\ (dep[d].st \in Live) => dep[d].node # None
  /\ state \in [Nodes -> {"active", "draining", "suspended"}]
  /\ \A b \in Beats : hb[b].mine \subseteq Deps /\ hb[b].todo \subseteq Deps
  /\ cron.nodes \subseteq Nodes /\ cron.victim \in Deps \cup {None}
  /\ changes \in 0..MaxChanges

\* No node is ever given more than it has: at most NODE_CAPACITY deployments
\* of each kind, and no more GPUs, CPU and memory than its manifest announces.
WithinCapacity ==
  \A n \in Nodes : /\ Cardinality(LiveOn(n) \cap Static) <= StaticSlots
                   /\ Cardinality(LiveOn(n) \ Static) <= Slots
                   /\ SumNeed(LiveOn(n)) <= Size[n]

\* Two replicas of an endpoint are never on the same node.
SiblingsApart == \A c, d \in Deps : c # d /\ Parent[c] # None /\ Parent[c] = Parent[d] /\ {dep[c].st, dep[d].st} \subseteq Live
                                      => dep[c].node # dep[d].node

\* Once a suspension is done nothing is live on the node, whatever heartbeats
\* were in the middle of an assignment.
SuspendedIsEmpty == \A n \in Nodes : state[n] = "suspended" /\ admin.node # n => LiveOn(n) = {}

\* Nothing is preempted for work its node cannot take: the node did not just
\* refuse the on-demand work (assign would skip it there).
NotInVain == [][PreemptEnd /\ dep' # dep => dep[Min(cron.todo)].refused # cron.at[cron.victim]]_vars

\* On-demand work that some active node could take, if need be in the place of
\* an interruptible workstation, is placed (or ends).
OnDemandPlaced == \A q \in OnDemand : (dep[q].st = "queued") ~> (dep[q].st # "queued")
=============================================================================
