------------------------------ MODULE MCSeals ------------------------------
(***************************************************************************)
(* Nodes and what they are trusted with: a deployment with secrets that    *)
(* moves between nodes, the calls that nodes sign, and the fleets they     *)
(* belong to. They share no state, so a behaviour exercises one of them    *)
(* and the rest stay as they start.                                        *)
(***************************************************************************)
EXTENDS Hosting, TLC

CONSTANTS
  Reqs, Copies, Isolates, Skew, WINDOW, TTL, DbFails, SigTime, MaxWait, MaxLost,        \* of the signed calls
  FleNodes, FleetIds, Deps, Pin, FleRequests, MaxAnnounces, MaxEvictions, MaxFlips      \* of the fleets

VARIABLES
  part,  \* the component this behaviour exercises
  sig_req, copy, seen, memory, accepted, offset, pending, lost, now,
  revoked, node, dep, fle_hb, fle_req, announces, evictions, flips

Sig == INSTANCE SignedCalls WITH MaxTime <- SigTime, req <- sig_req
Fle == INSTANCE Fleets WITH Nodes <- FleNodes, Requests <- FleRequests, hb <- fle_hb, req <- fle_req

ASSUME SignedAssumption == Sig!SignedCallsAssumption
ASSUME PinsAssumption == Fle!FleetsAssumption

sigVars == <<sig_req, copy, seen, memory, accepted, offset, pending, lost, now>>
fleVars == <<revoked, node, dep, fle_hb, fle_req, announces, evictions, flips>>

\* The components share no state: those that are not exercised stay as they start.
SealsInit ==
  /\ part \in {"hosting", "signed", "fleets"}
  /\ Init
  /\ Sig!Init
  /\ Fle!Init
  /\ part # "fleets" => \A n \in FleNodes : node[n].fleet = CHOOSE f \in FleetIds : TRUE

HostingOnly == part = "hosting" /\ UNCHANGED <<part, sigVars, fleVars>>
SignedOnly == part = "signed" /\ UNCHANGED <<part, vars, fleVars>>
FleetsOnly == part = "fleets" /\ UNCHANGED <<part, vars, sigVars>>

SealsNext ==
  \/ HostingOnly /\ Next
  \/ SignedOnly /\ Sig!Next
  \/ FleetsOnly /\ Fle!Next

all == <<part, vars, sigVars, fleVars>>
SealsSpec == SealsInit /\ [][SealsNext]_all

-----------------------------------------------------------------------------
\* "a (node, nonce) pair is accepted once", however often and late its copies arrive, in whatever isolates.
AcceptedOnce == Sig!TypeOK /\ Sig!AcceptedOnce

\* Once a fleet's revocation is done nothing pinned to it waits or runs, also when it was being created meanwhile:
\* the owner's hold came back.
NothingWaitsOnRevoked == Fle!TypeOK /\ Fle!NothingWaitsOnRevoked

-----------------------------------------------------------------------------
\* Every deployment is pinned to one and the same fleet.
MCPin == [d \in Deps |-> CHOOSE f \in FleetIds : TRUE]

\* Bound: a deployment claimed a second time is followed until it ends, and
\* meets no crash and no lost answer.
Bounded == row.claims < 2 \/ (faults = 0 /\ row.st \notin Ended)

Symmetry == Permutations(Nodes)
=============================================================================
