----------------------------- MODULE MCNetwork -----------------------------
(***************************************************************************)
(* Where things are put: placement of deployments on nodes and the copies  *)
(* of stored objects. They share no state, so a behaviour exercises one of *)
(* them and the rest stay as they start.                                   *)
(***************************************************************************)
EXTENDS Placement, TLC

CONSTANTS
  Replicas, Large,                                                       \* of the instance below
  StoNodes, StoNetworks, StoIds, StoFaults,                              \* of a stored object whose nodes fail
  SprNodes, SprNetworks, SprIds, SprFaults,                              \* of one whose nodes share networks
  Runs, Copies, Fetches, Torn                                            \* of both

VARIABLES
  part,  \* the component this behaviour exercises
  copy, used, want, retired, sched, run, agent, disk, forgot, faults

\* One endpoint; what runs in a container takes one GPU, and a large node has two.
Parents == [d \in Deps |-> IF d \in Replicas THEN "endpoint" ELSE None]
Needs == [d \in Deps |-> IF d \in Static THEN 0 ELSE 1]
Sizes == [n \in Nodes |-> IF n \in Large THEN 2 ELSE 1]
Able == [n \in Nodes |-> Deps]

Sto == INSTANCE Storage WITH Nodes <- StoNodes, Networks <- StoNetworks, Ids <- StoIds, MaxFaults <- StoFaults
Spr == INSTANCE Storage WITH Nodes <- SprNodes, Networks <- SprNetworks, Ids <- SprIds, MaxFaults <- SprFaults

ASSUME FailingAssumption == Sto!StorageAssumption
ASSUME SharingAssumption == Spr!StorageAssumption

stoVars == <<copy, used, want, retired, sched, run, agent, disk, forgot, faults>>

\* The components share no state: those that are not exercised stay as they start.
NetworkInit ==
  /\ part \in {"placement", "storage", "spread"}
  /\ Init
  /\ IF part = "spread" THEN Spr!Init ELSE Sto!Init

PlacementOnly == part = "placement" /\ UNCHANGED <<part, stoVars>>
StorageOnly == part = "storage" /\ UNCHANGED <<part, vars>>
SpreadOnly == part = "spread" /\ UNCHANGED <<part, vars>>

NetworkNext ==
  \/ PlacementOnly /\ Next
  \/ StorageOnly /\ Sto!Next
  \/ SpreadOnly /\ Spr!Next

all == <<part, vars, stoVars>>
NetworkSpec == NetworkInit /\ [][NetworkNext]_all

-----------------------------------------------------------------------------
\* A node never runs more than it has or two replicas of one endpoint, and a suspended node runs nothing, however
\* heartbeats overlap with re-queues, drains and suspensions.
PlacementSound == part = "placement" => TypeOK /\ WithinCapacity /\ SiblingsApart /\ SuspendedIsEmpty

\* A copy the API counts is on its node's disk, what a node keeps is known or about to be deleted, every held copy
\* is probed, and the copies of an object are on different networks.
StorageSound ==
  /\ part = "storage" => Sto!TypeOK /\ Sto!HeldIsOnDisk /\ Sto!DiskIsKnown /\ Sto!HeldIsScheduled
  /\ part = "spread" => Spr!Spread

\* Copies are alike, and so are the nodes that no network tells apart.
Symmetry == Permutations(StoIds) \cup Permutations(StoNodes)
=============================================================================
