------------------------------ MODULE MCTraffic -----------------------------
(***************************************************************************)
(* How a visitor reaches a deployment: the gateway with its caches, and    *)
(* the relay's hub with the agent's streams. They share no state, so a     *)
(* behaviour exercises one of them and the rest stay as they start.        *)
(***************************************************************************)
EXTENDS Naturals, TLC

CONSTANTS
  Nobody,
  Hubs, Callers, RelSockets,                                             \* of the relay without probes
  PrbCallers, PrbProbes, PrbSockets, PrbSlots,                           \* of the relay with them
  PerNode, PerDep, Kicks, Stalls,                                        \* of both
  Sites, BadSites, EndpointKeys, Requests, ROUTE_TTL, STATIC_TTL, MaxLag, MaxTime, MaxMoves

VARIABLES
  path,  \* the component this behaviour exercises
  req, cur, hub, toNode, toHub, ws, streams, ran, kicks, row, moves, revoked, routes, static, gat_req, last

OneDep(S) == [r \in S |-> "d"]

Rel == INSTANCE Relay WITH
  Nodes <- Hubs, None <- Nobody, Visitors <- Callers, Probes <- {}, Streamed <- {}, DepOf <- OneDep(Callers),
  MAX_STREAMS <- PerNode, MAX_STREAMS_PER_DEP <- PerDep, PROBE_SLOTS <- 0, MaxSockets <- RelSockets, MaxKicks <- Kicks
Prb == INSTANCE Relay WITH
  Nodes <- Hubs, None <- Nobody, Visitors <- PrbCallers, Probes <- PrbProbes, Streamed <- {},
  DepOf <- OneDep(PrbCallers \cup PrbProbes), MAX_STREAMS <- PerNode, MAX_STREAMS_PER_DEP <- PerDep,
  PROBE_SLOTS <- PrbSlots, MaxSockets <- PrbSockets, MaxKicks <- Kicks
Gat == INSTANCE Gateway WITH
  Nodes <- Sites, None <- Nobody, Bad <- BadSites, Keys <- EndpointKeys, dep <- row, req <- gat_req

ASSUME StreamsAssumption == Rel!RelayAssumption
ASSUME ProbesAssumption == Prb!RelayAssumption
ASSUME GateAssumption == Gat!GatewayAssumption

relVars == <<req, cur, hub, toNode, toHub, ws, streams, ran, kicks>>
gatVars == <<row, moves, revoked, routes, static, gat_req, last>>

\* The components share no state: those that are not exercised stay as they start.
TrafficInit ==
  /\ path \in {"relay", "probes", "gateway"}
  /\ IF path = "probes" THEN Prb!Init ELSE Rel!Init
  /\ Gat!Init
  /\ path # "gateway" => row.kind = "direct" /\ row.node \notin BadSites

RelayOnly == path = "relay" /\ UNCHANGED <<path, gatVars>>
ProbesOnly == path = "probes" /\ UNCHANGED <<path, gatVars>>
GatewayOnly == path = "gateway" /\ UNCHANGED <<path, relVars>>

TrafficNext ==
  \/ RelayOnly /\ Rel!Next
  \/ ProbesOnly /\ Prb!Next
  \/ GatewayOnly /\ Gat!Next

traffic == <<path, relVars, gatVars>>
TrafficSpec == TrafficInit /\ [][TrafficNext]_traffic

-----------------------------------------------------------------------------
\* Every visitor gets the answer to their own request, no stream outlives its socket, each slot comes back, and
\* visitors cannot keep a probe out.
RelaySound ==
  /\ path = "relay" => Rel!TypeOK /\ Rel!OwnAnswer /\ Rel!NoOrphan /\ Rel!SlotsReturned
  /\ path = "probes" => Prb!ProbeAdmitted

\* Within the life of the caches a stopped or moved deployment is no longer answered from its old node and a
\* revoked key is no longer accepted.
GatewaySound ==
  path = "gateway" => Gat!TypeOK /\ Gat!StoppedIsGone /\ Gat!WrongIsGone /\ Gat!RevokedKeyIsOut

Alike == Permutations(Callers) \cup Permutations(EndpointKeys)
=============================================================================
