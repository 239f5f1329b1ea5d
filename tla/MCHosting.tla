------------------------------ MODULE MCHosting -----------------------------
(***************************************************************************)
(* Hosted deployments: the hour's hold and its bills, endpoints of several *)
(* replicas, and the flow control of one relayed stream. They share no     *)
(* state, so a behaviour exercises one of them and the rest stay as they   *)
(* start.                                                                  *)
(***************************************************************************)
EXTENDS HourBilling, Naturals, TLC

CONSTANTS
  N, Secrets, START_ATTEMPTS, MaxMoves, MaxThrows,       \* of the endpoints
  FRAME, WINDOW, Caps, Upload, Download, Early, Cuts     \* of the stream

VARIABLES
  part,  \* the component this behaviour exercises
  parent, ept_row, req, culprit, throws, hub, chain, toNode, toHub, node, app, caller

Ept == INSTANCE Endpoints WITH row <- ept_row
Flo == INSTANCE RelayFlow

ASSUME EndpointAssumption == Ept!EndpointsAssumption
ASSUME FlowAssumption == Flo!RelayFlowAssumption

eptVars == <<parent, ept_row, req, culprit, throws>>
floVars == <<hub, chain, toNode, toHub, node, app, caller>>

\* The components share no state: those that are not exercised stay as they start.
HostingInit ==
  /\ part \in {"billing", "endpoints", "flow"}
  /\ Init
  /\ Ept!Init
  /\ Flo!Init

BillingOnly == part = "billing" /\ UNCHANGED <<part, eptVars, floVars>>
EndpointsOnly == part = "endpoints" /\ UNCHANGED <<part, vars, floVars>>
FlowOnly == part = "flow" /\ UNCHANGED <<part, vars, eptVars>>

HostingNext ==
  \/ BillingOnly /\ Next
  \/ EndpointsOnly /\ Ept!Next
  \/ FlowOnly /\ Flo!Next

all == <<part, vars, eptVars, floVars>>
HostingSpec == HostingInit /\ [][HostingNext]_all

-----------------------------------------------------------------------------
\* A replica that outlives a finished stop or abandonment changed its status twice while that was under way: one
\* change, by whatever heartbeat, report or cron pass, is always caught. A seal that lands, however late, keeps the
\* endpoint: it is abandoned only over a replica that is unsealed after START_ATTEMPTS assignments in a row.
EndpointsWhole == Ept!TypeOK /\ Ept!SurvivorMovedTwice /\ Ept!AbandonedUnsealed

\* No side of a relayed stream holds more bytes than its window, and what was delivered is what was sent, without a
\* gap.
FlowSound == Flo!TypeOK /\ Flo!WithinWindow /\ Flo!NothingMissing

Symmetry == Permutations(Requests)
=============================================================================
