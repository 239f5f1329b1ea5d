------------------------------- MODULE MCLive -------------------------------
(***************************************************************************)
(* What must happen in the end, under the fairness each component's        *)
(* scheduling gives: the sweeper of work jobs, the keeper, the deposit     *)
(* watcher, a hosted deployment's node and the relay's requests. They      *)
(* share no state, so a behaviour exercises one of them and the rest stay  *)
(* as they start.                                                          *)
(***************************************************************************)
EXTENDS WorkJobs, Integers

CONSTANTS k1, p1, p2, d1, q1, s1, s2, c1, r1, r2

VARIABLES
  part,  \* the component this behaviour exercises
  cur, entry, row, chain, k, kee_faults, head, block, cursor, processed, credits, pass, start, reorgs, dep_faults,
  hos_row, stale, agent, hb, rep, req, hos_faults, rel_req, rel_cur, hub, toNode, toHub, ws, streams, ran, kicks

\* What a customer's job costs; protocol work costs nothing.
MCPrice == [j \in Jobs |-> IF j \in Protocol THEN 0 ELSE 2]
OneDep == [r \in {q1} |-> "d"]

Kee == INSTANCE KeeperSystem WITH
  Jobs <- {d1}, Keepers <- {k1}, LateJobs <- {d1}, MaxEpoch <- 2, MaxFaults <- 1, faults <- kee_faults
Dep == INSTANCE Deposits WITH
  Logs <- {d1}, Dust <- {}, Passes <- {p1, p2}, StartBlock <- 1, Confirmations <- 1, MaxBlocksPerRun <- 1,
  ReorgDepth <- 1, MaxHead <- 3, MaxReorgs <- 1, MaxFaults <- 1, faults <- dep_faults
Hos == INSTANCE Hosting WITH
  Nodes <- {s1}, Requests <- {p1}, Secrets <- FALSE, Purges <- FALSE, StartAttempts <- 1, MaxClaims <- 1,
  MaxFaults <- 1, Stops <- TRUE, row <- hos_row, faults <- hos_faults
Rel == INSTANCE Relay WITH
  Nodes <- {s1, s2}, Visitors <- {q1}, Probes <- {}, Streamed <- {}, DepOf <- OneDep, MAX_STREAMS <- 2,
  MAX_STREAMS_PER_DEP <- 1, PROBE_SLOTS <- 0, MaxSockets <- 1, MaxKicks <- 0, Stalls <- FALSE, req <- rel_req,
  cur <- rel_cur

ASSUME Rel!RelayAssumption

keeVars == <<cur, entry, row, chain, k, kee_faults>>
depVars == <<head, block, cursor, processed, credits, pass, start, reorgs, dep_faults>>
hosVars == <<hos_row, stale, agent, hb, rep, req, hos_faults>>
relVars == <<rel_req, rel_cur, hub, toNode, toHub, ws, streams, ran, kicks>>

\* The components share no state: those that are not exercised stay as they start.
LiveInit ==
  /\ part \in {"sweep", "keeper", "deposits", "hosting", "relay"}
  /\ Init
  /\ Kee!Init
  /\ Dep!Init
  /\ Hos!Init
  /\ Rel!Init

SweepOnly == part = "sweep" /\ UNCHANGED <<part, keeVars, depVars, hosVars, relVars>>
KeeperOnly == part = "keeper" /\ UNCHANGED <<part, vars, depVars, hosVars, relVars>>
DepositsOnly == part = "deposits" /\ UNCHANGED <<part, vars, keeVars, hosVars, relVars>>
HostingOnly == part = "hosting" /\ UNCHANGED <<part, vars, keeVars, depVars, relVars>>
RelayOnly == part = "relay" /\ UNCHANGED <<part, vars, keeVars, depVars, hosVars>>

LiveNext ==
  \/ SweepOnly /\ Next
  \/ KeeperOnly /\ Kee!Next
  \/ DepositsOnly /\ Dep!Next
  \/ HostingOnly /\ Hos!Next
  \/ RelayOnly /\ Rel!Next

all == <<part, vars, keeVars, depVars, hosVars, relVars>>
LiveSpec == LiveInit /\ [][LiveNext]_all

\* part never changes, so the fairness of a disjunction over the parts is that of the exercised part's own action.
LiveFairSpec ==
  /\ LiveSpec
  /\ WF_all(\/ SweepOnly /\ HandlerStep(r1)
            \/ KeeperOnly /\ Kee!KeeperStep(k1)
            \/ DepositsOnly /\ Dep!PassStep(p1)
            \/ HostingOnly /\ Hos!Work(s1)
            \/ RelayOnly /\ (\E n \in {s1, s2} : Rel!Proxy(q1, n)))
  /\ WF_all(\/ SweepOnly /\ HandlerStep(r2)
            \/ KeeperOnly /\ Kee!Ripen(1)
            \/ DepositsOnly /\ Dep!PassStep(p2)
            \/ HostingOnly /\ Hos!Commands(s1)
            \/ RelayOnly /\ (\E st \in hub[s1].open : Rel!Timeout(s1, st)))
  /\ WF_all(\/ SweepOnly /\ Tick
            \/ KeeperOnly /\ Kee!Ripen(2)
            \/ HostingOnly /\ Hos!HbInstr(s1)
            \/ RelayOnly /\ (\E st \in hub[s2].open : Rel!Timeout(s2, st)))
  /\ WF_all(\/ KeeperOnly /\ Kee!Vest(1)
            \/ HostingOnly /\ Hos!HbLost(s1) /\ hb[s1].dead)
  /\ WF_all(\/ KeeperOnly /\ Kee!Vest(2)
            \/ HostingOnly /\ Hos!Post(s1))
  /\ WF_all(\/ KeeperOnly /\ Kee!NextEpoch
            \/ HostingOnly /\ Hos!RepStep(s1))
  /\ WF_all(HostingOnly /\ Hos!ReqStep(p1))
  /\ SF_all(SweepOnly /\ (\E r \in Handlers : SweepRead(r, c1)))

-----------------------------------------------------------------------------
\* A closed epoch that pays someone is settled or vetoed in the end.
ClosedEnds == Kee!ClosedEnds

\* A deposit made after the watcher was started is credited once it is confirmed, whatever failed on the way.
EveryDepositCredited == Dep!EveryDepositCredited

\* A node that serves a deployment no longer its own is made to stop it (deployment_stale_nodes, stop_acked_at, a
\* refused report), whatever was lost and whoever crashed.
OrphanStops == Hos!OrphanStops

\* Every request ends: with an answer, an error, or a body that is cut short.
AlwaysEnds == Rel!AlwaysEnds
=============================================================================
