------------------------------- MODULE Fleets -------------------------------
(***************************************************************************)
(* Fleets and pinned deployments (fleets.service.ts, nodes.service.ts and   *)
(* deployment-duties.service.ts): nodes announce with a fleet token, owners *)
(* evict nodes, let them go and revoke fleets, deployments pinned to a      *)
(* fleet are created, claimed by its nodes and taken back.                  *)
(*                                                                         *)
(* Every await separates two steps.  A request that takes rows back reads   *)
(* them first and then updates one at a time, each only if it is unchanged. *)
(* All fleets have one owner, so a node bound to it may move between them.  *)
(***************************************************************************)
EXTENDS Naturals, FiniteSets

CONSTANTS
  Nodes, FleetIds, Deps, None,
  Pin,            \* per deployment: the fleet it is pinned to, or None
  Requests,       \* requests under way
  MaxAnnounces,   \* bound: announces with a fleet token
  MaxEvictions,   \* bound: evictions and unbindings
  MaxFlips        \* bound: status changes a node reports

VARIABLES
  revoked,  \* fleets whose revoked_at is set
  node,     \* per node: bound to a payout, its fleet
  dep,      \* the deployments rows
  hb,       \* per node: the node row its heartbeat read, while it assigns
  req,      \* requests and cron passes under way
  announces, evictions, flips

bounds == <<announces, evictions, flips>>
vars == <<revoked, node, dep, hb, req, bounds>>

Live == {"assigned", "running", "unreachable"}
Open == Live \cup {"queued"}
Away == [st |-> "queued", node |-> None]
AnyRow == [st : Open \cup {"none", "ended"}, node : Nodes \cup {None}]

FleetsAssumption ==
  /\ None \notin Nodes \cup FleetIds \cup Deps \cup AnyRow /\ Pin \in [Deps -> FleetIds \cup {None}]
  /\ MaxAnnounces \in Nat /\ MaxEvictions \in Nat /\ MaxFlips \in Nat

NoRows == [d \in Deps |-> None]
Idle == [pc |-> "idle", fleet |-> None, node |-> {}, rows |-> NoRows, dep |-> None]

\* Every node is in a fleet; no deployment has been created.
Init ==
  /\ revoked = {}
  /\ node \in [Nodes -> [bound : {TRUE}, fleet : FleetIds]]
  /\ dep = [d \in Deps |-> [st |-> "none", node |-> None]]
  /\ hb = [n \in Nodes |-> None]
  /\ req = [p \in Requests |-> Idle]
  /\ announces = 0 /\ evictions = 0 /\ flips = 0

Unbound == [bound |-> FALSE, fleet |-> None]
Rows(S) == [d \in Deps |-> IF d \in S THEN dep[d] ELSE None]

-----------------------------------------------------------------------------
(* Deployments. *)

Finish(p) == req' = [req EXCEPT ![p] = Idle]
To(p, pc) == req' = [req EXCEPT ![p].pc = pc]

\* createDeployment: the fleet is live.
CreateCheck(p, d) ==
  /\ req[p].pc = "idle" /\ dep[d].st = "none" /\ Pin[d] \notin revoked
  /\ \A q \in Requests : req[q].dep # d
  /\ req' = [req EXCEPT ![p] = [Idle EXCEPT !.pc = "insert", !.dep = d]]
  /\ UNCHANGED <<revoked, node, dep, hb, bounds>>

CreateInsert(p) ==
  /\ req[p].pc = "insert"
  /\ dep' = [dep EXCEPT ![req[p].dep].st = "queued"]
  /\ IF Pin[req[p].dep] = None THEN Finish(p) ELSE To(p, "recheck")
  /\ UNCHANGED <<revoked, node, hb, bounds>>

\* Mutant: the fleet is not read again after the insert.
pinRevokedSinceNever(p) == FALSE

pinRevokedSince(p) == Pin[req[p].dep] \in revoked

CreateRecheck(p) ==
  /\ req[p].pc = "recheck"
  /\ IF pinRevokedSince(p) THEN req' = [req EXCEPT ![p].pc = "fail", ![p].rows = Rows({req[p].dep})] ELSE Finish(p)
  /\ UNCHANGED <<revoked, node, dep, hb, bounds>>

\* A heartbeat reads the node row; only a bound node goes on to assign.
Beat(n) ==
  /\ hb[n] = None /\ node[n].bound
  /\ hb' = [hb EXCEPT ![n] = node[n]]
  /\ UNCHANGED <<revoked, node, dep, req, bounds>>

\* claim's WHERE clause
MayClaim(n, d) == dep[d].st = "queued" /\ (Pin[d] = None \/ node[n].fleet = Pin[d])

claim(n, d) ==
  /\ hb[n] # None /\ (Pin[d] = None \/ hb[n].fleet = Pin[d]) /\ MayClaim(n, d)
  /\ dep' = [dep EXCEPT ![d] = [st |-> "assigned", node |-> n]]
  /\ UNCHANGED <<revoked, node, hb, req, bounds>>

BeatDone(n) ==
  /\ hb[n] # None
  /\ hb' = [hb EXCEPT ![n] = None]
  /\ UNCHANGED <<revoked, node, dep, req, bounds>>

\* Mutant: the UPDATE does not ask for the status it expects.
FlipAny(d) ==
  /\ dep[d].st # "none" /\ flips < MaxFlips /\ flips' = flips + 1
  /\ dep' = [dep EXCEPT ![d].st = "running"]
  /\ UNCHANGED <<revoked, node, hb, req, announces, evictions>>

\* A status report or a probe.
Flip(d) ==
  /\ dep[d].st \in Live /\ flips < MaxFlips /\ flips' = flips + 1
  /\ dep' = [dep EXCEPT ![d].st = IF @ = "running" THEN "unreachable" ELSE "running"]
  /\ UNCHANGED <<revoked, node, hb, req, announces, evictions>>

-----------------------------------------------------------------------------
(* Taking rows back: each row only if its status and node are as read. *)

\* endDeployment compares the status only.
SweepRow(p, d) ==
  /\ req[p].pc \in {"requeue", "fail"} /\ req[p].rows[d] # None
  /\ LET was == req[p].rows[d]   fail == req[p].pc = "fail"
         hit == dep[d].st = was.st /\ (fail \/ dep[d].node = was.node)
     IN dep' = IF ~hit THEN dep ELSE [dep EXCEPT ![d] = IF fail THEN [@ EXCEPT !.st = "ended"] ELSE Away]
  /\ req' = [req EXCEPT ![p].rows[d] = None]
  /\ UNCHANGED <<revoked, node, hb, bounds>>

\* After the last row a revocation goes on to failPinnedTo; others are done.
SweepDone(p) ==
  /\ req[p].pc \in {"requeue", "fail"} /\ req[p].rows = NoRows
  /\ IF req[p].pc = "requeue" /\ req[p].fleet # None THEN To(p, "failPinned") ELSE Finish(p)
  /\ UNCHANGED <<revoked, node, dep, hb, bounds>>

\* requeueNodeDeployments
RequeueRead(p) ==
  /\ req[p].pc = "requeueRead"
  /\ req' = [req EXCEPT ![p].pc = "requeue", ![p].rows = Rows({d \in Deps : dep[d].st \in Live /\ dep[d].node \in req[p].node})]
  /\ UNCHANGED <<revoked, node, dep, hb, bounds>>

PinnedTo(f) == {d \in Deps : Pin[d] = f /\ dep[d].st \in Open}

failPinnedTo(p) ==
  /\ req[p].pc = "failPinned"
  /\ req' = [req EXCEPT ![p].pc = "fail", ![p].rows = Rows(PinnedTo(req[p].fleet))]
  /\ UNCHANGED <<revoked, node, dep, hb, bounds>>

\* Mutant: only a node in no fleet at all.
MispinnedNone == {d \in Deps : Pin[d] # None /\ dep[d].st \in Live /\ node[dep[d].node].fleet = None}

Mispinned == {d \in Deps : Pin[d] # None /\ dep[d].st \in Live /\ node[dep[d].node].fleet # Pin[d]}

\* requeueMispinned, on every cron tick
Sweep(p) ==
  /\ req[p].pc = "idle" /\ Mispinned # {}
  /\ req' = [req EXCEPT ![p].pc = "requeue", ![p].rows = Rows(Mispinned)]
  /\ UNCHANGED <<revoked, node, dep, hb, bounds>>

-----------------------------------------------------------------------------
(* Fleets and nodes. *)

\* revokeFleet; a second call only fails what is pinned.
revokeFleet(p, f) ==
  /\ req[p].pc = "idle" /\ f \notin revoked
  /\ revoked' = revoked \cup {f}
  /\ req' = [req EXCEPT ![p] = [Idle EXCEPT !.pc = "unbindRead", !.fleet = f]]
  /\ UNCHANGED <<node, dep, hb, bounds>>

revokeAgain(p, f) ==
  /\ req[p].pc = "idle" /\ f \in revoked /\ PinnedTo(f) # {} /\ evictions < MaxEvictions /\ evictions' = evictions + 1
  /\ req' = [req EXCEPT ![p] = [Idle EXCEPT !.pc = "failPinned", !.fleet = f]]
  /\ UNCHANGED <<revoked, node, dep, hb, announces, flips>>

\* unbindFleetNodes: the addresses, and then the nodes
UnbindRead(p) ==
  /\ req[p].pc = "unbindRead"
  /\ req' = [req EXCEPT ![p].pc = "unbind", ![p].node = {n \in Nodes : node[n].fleet = req[p].fleet}]
  /\ UNCHANGED <<revoked, node, dep, hb, bounds>>

UnbindWrite(p) ==
  /\ req[p].pc = "unbind"
  /\ node' = [n \in Nodes |-> IF req[p].node # {} /\ node[n].fleet = req[p].fleet THEN Unbound ELSE node[n]]
  /\ To(p, "requeueRead")
  /\ UNCHANGED <<revoked, dep, hb, bounds>>

\* evictFleetNode and unbindOwnNode
Unbind(p, n) ==
  /\ req[p].pc = "idle" /\ node[n].bound /\ evictions < MaxEvictions /\ evictions' = evictions + 1
  /\ node' = [node EXCEPT ![n] = Unbound]
  /\ req' = [req EXCEPT ![p] = [Idle EXCEPT !.pc = "requeueRead", !.node = {n}]]
  /\ UNCHANGED <<revoked, dep, hb, announces, flips>>

\* announce with a fleet token: the token is of a live fleet, ...
fleetForToken(p, n, f) ==
  /\ req[p].pc = "idle" /\ f \notin revoked /\ node[n].fleet # f /\ announces < MaxAnnounces /\ announces' = announces + 1
  /\ req' = [req EXCEPT ![p] = [Idle EXCEPT !.pc = "bind", !.node = {n}, !.fleet = f]]
  /\ UNCHANGED <<revoked, node, dep, hb, evictions, flips>>

\* ... the node is bound to it, ...
bindNodeToFleet(p) ==
  /\ req[p].pc = "bind"
  /\ node' = [n \in Nodes |-> IF n \in req[p].node THEN [bound |-> TRUE, fleet |-> req[p].fleet] ELSE node[n]]
  /\ To(p, "offFleet")
  /\ UNCHANGED <<revoked, dep, hb, bounds>>

\* ... and hands back what is pinned to another one.
requeuePinnedOffFleet(p) ==
  /\ req[p].pc = "offFleet"
  /\ req' = [req EXCEPT ![p].pc = "requeue", ![p].fleet = None,
               ![p].rows = Rows({d \in Deps : dep[d].st \in Live /\ dep[d].node \in req[p].node /\ Pin[d] \notin {None, req[p].fleet}})]
  /\ UNCHANGED <<revoked, node, dep, hb, bounds>>

-----------------------------------------------------------------------------

Step(p) ==
  \/ CreateInsert(p) \/ CreateRecheck(p) \/ SweepDone(p) \/ RequeueRead(p) \/ failPinnedTo(p)
  \/ UnbindRead(p) \/ UnbindWrite(p) \/ bindNodeToFleet(p) \/ requeuePinnedOffFleet(p)
  \/ \E d \in Deps : SweepRow(p, d)

Begin(p) ==
  \/ Sweep(p)
  \/ \E d \in Deps : CreateCheck(p, d)
  \/ \E f \in FleetIds : revokeFleet(p, f) \/ revokeAgain(p, f)
  \/ \E n \in Nodes : Unbind(p, n) \/ \E f \in FleetIds : fleetForToken(p, n, f)

Next ==
  \/ \E p \in Requests : Step(p) \/ Begin(p)
  \/ \E n \in Nodes : Beat(n) \/ BeatDone(n) \/ \E d \in Deps : claim(n, d)
  \/ \E d \in Deps : Flip(d)

Spec == Init /\ [][Next]_vars

\* A request that began goes on, heartbeats end, and the cron comes again.
Fairness ==
  /\ \A p \in Requests : WF_vars(Step(p)) /\ SF_vars(Sweep(p))
  /\ \A n \in Nodes : WF_vars(BeatDone(n))

FairSpec == Spec /\ Fairness

-----------------------------------------------------------------------------
(* Properties. *)

TypeOK ==
  /\ revoked \subseteq FleetIds
  /\ node \in [Nodes -> [bound : BOOLEAN, fleet : FleetIds \cup {None}]]
  /\ \A n \in Nodes : node[n].fleet # None => node[n].bound
  /\ dep \in [Deps -> AnyRow]
  /\ \A d \in Deps : dep[d].st \in Live => dep[d].node # None
  /\ announces \in 0..MaxAnnounces /\ evictions \in 0..MaxEvictions /\ flips \in 0..MaxFlips

Quiet == \A p \in Requests : req[p].pc = "idle"

\* Once a fleet's revocation is done nothing pinned to it waits or runs, also
\* when it was being created meanwhile: the owner's hold came back.
NothingWaitsOnRevoked == Quiet => \A d \in Deps : Pin[d] \in revoked => dep[d].st \notin Open

\* failPinnedTo's premise: once a fleet is revoked (and its nodes unbound), no
\* node is in it again.
RevokedStaysEmpty == Quiet => \A n \in Nodes : node[n].fleet \notin revoked

\* A node that was let go or evicted has nothing to run: unbound nodes get no
\* new work, and what was live on them was re-queued.
UnboundIsIdle == Quiet /\ (\A n \in Nodes : hb[n] = None) => \A d \in Deps : dep[d].st \in Live => node[dep[d].node].bound

AtHome(d) == dep[d].st \in Live => Pin[d] \in {None, node[dep[d].node].fleet}

\* A pinned deployment leaves a node that is no longer in its fleet.
PinnedGoesHome == \A d \in Deps : ~AtHome(d) ~> AtHome(d)
=============================================================================
