------------------------------ MODULE Hosting ------------------------------
(***************************************************************************)
(* One deployment and the nodes that may serve it: the API's row            *)
(* (deployment-duties.service.ts, deployments.service.ts) and the           *)
(* DeploymentManager of every agent (node-agent/src/deployments.ts), joined *)
(* by heartbeats (commands down) and status reports (up).                   *)
(*                                                                         *)
(* Agents crash and restart, any answer may be lost, and a request reads    *)
(* the row before the statement that acts on it.  An answer that is not     *)
(* lost arrives at once, except a heartbeat's commands, which may be late.  *)
(* Hours and probes are the business of HourBilling.                        *)
(***************************************************************************)
EXTENDS Naturals, FiniteSets

CONSTANTS
  Nodes,
  Requests,       \* cron passes and owner requests that may overlap
  None,
  Secrets,        \* expectsSecrets: the start waits for the owner's seal
  Purges,         \* a workstation, whose owner may ask for a purge
  StartAttempts,  \* DEPLOY_START_ATTEMPTS
  MaxClaims,      \* bound: times the row is claimed
  MaxFaults,      \* bound: crashes and lost answers
  Stops           \* bound: whether the owner or the cron ends the deployment

ASSUME HostingAssumption ==
  /\ None \notin Nodes /\ Secrets \in BOOLEAN /\ Purges \in BOOLEAN
  /\ StartAttempts \in Nat \ {0} /\ MaxClaims \in Nat /\ MaxFaults \in Nat /\ Stops \in BOOLEAN

VARIABLES
  row,     \* the deployments row
  stale,   \* deployment_stale_nodes: nodes owed a stop
  agent,   \* per node: the agent, its saved record, its container
  hb,      \* per node: the heartbeat being answered
  rep,     \* per node: the status report being handled
  req,     \* other requests under way
  faults

vars == <<row, stale, agent, hb, rep, req, faults>>

Live  == {"assigned", "running", "unreachable"}
Ended == {"stopped", "failed"}

Elsewhere == [st |-> "queued", node |-> None]   \* a report on another node's row
IdleHb  == [pc |-> "idle", cmds |-> {}, key |-> None, dead |-> FALSE]
IdleRep == [pc |-> "idle", body |-> "none", s |-> None, mine |-> FALSE]
IdleReq == [pc |-> "idle", s |-> None, refusal |-> FALSE]

\* claims stands for assigned_at: a later placement has a later one.
\* stopReport: a node's report of a stop ended the row.
Init ==
  /\ row = [st |-> "queued", node |-> None, key |-> None, ep |-> None, acked |-> FALSE, purge |-> FALSE,
            refused |-> None, tries |-> 0, claims |-> 0, stopReport |-> FALSE]
  /\ stale = {} /\ faults = 0
  /\ agent = [n \in Nodes |-> [up |-> TRUE, rec |-> FALSE, ctr |-> FALSE, busy |-> "no", cancel |-> FALSE, pend |-> "none"]]
  /\ hb = [n \in Nodes |-> IdleHb]
  /\ rep = [n \in Nodes |-> IdleRep]
  /\ req = [p \in Requests |-> IdleReq]

Awaiting(r) == Secrets /\ r.key = None

\* What a request uses of the row it read.
Snapshot(pc) == [st |-> row.st, node |-> row.node, acked |-> row.acked,
                 tries |-> IF pc = "stuck" THEN row.tries ELSE 0, claims |-> IF pc = "unsealed" THEN row.claims ELSE 0]

-----------------------------------------------------------------------------
(* The agent (DeploymentManager). *)

Done(a) == [a EXCEPT !.busy = "no", !.cancel = FALSE]

\* pending.set: a report not yet delivered is replaced.
Queue(n, body, a) ==
  /\ agent' = [agent EXCEPT ![n] = [a EXCEPT !.pend = body]]
  /\ rep' = [rep EXCEPT ![n].mine = FALSE]

\* send(): the command stays busy until the report was tried once, unless a
\* flush is already under way.
Send(n, body, a) ==
  Queue(n, body, IF rep[n].pc = "idle" THEN [a EXCEPT !.busy = "reporting"] ELSE Done(a))

\* handle(stop | purge); while a start is under way it only cancels it.
HandleStop(n, a) ==
  IF a.busy # "no" THEN [a EXCEPT !.cancel = TRUE]
  ELSE [a EXCEPT !.busy = IF "purge" \in hb[n].cmds THEN "purging" ELSE "stopping"]

\* handle(start); the secrets are opened with this node's key.
HandleStart(n, a) ==
  IF a.busy # "no" THEN a ELSE [a EXCEPT !.busy = IF Secrets /\ ~a.rec /\ hb[n].key # n THEN "locked" ELSE "starting"]

\* The heartbeat's answer: stops come before starts, each handled in turn.
Commands(n) ==
  /\ hb[n].pc = "reply" /\ ~hb[n].dead
  /\ LET a == IF hb[n].cmds \cap {"stop", "purge"} = {} THEN agent[n] ELSE HandleStop(n, agent[n])
         b == IF "start" \in hb[n].cmds THEN HandleStart(n, a) ELSE a
     IN agent' = [agent EXCEPT ![n] = b]
  /\ hb' = [hb EXCEPT ![n] = IdleHb]
  /\ UNCHANGED <<row, stale, rep, req, faults>>

\* docker run
StartRun(n) ==
  /\ agent[n].busy = "starting" /\ ~agent[n].rec /\ ~agent[n].ctr
  /\ agent' = [agent EXCEPT ![n].ctr = TRUE]
  /\ UNCHANGED <<row, stale, hb, rep, req, faults>>

\* Recorded, saved and reported; a start of what is already recorded only
\* reports again.
StartDone(n) ==
  /\ agent[n].busy = "starting" /\ (agent[n].ctr \/ agent[n].rec)
  /\ Send(n, "running", [agent[n] EXCEPT !.rec = TRUE])
  /\ UNCHANGED <<row, stale, hb, req, faults>>

\* The start fails, or the node cannot serve it, or a stop cancels the wait for
\* health; what was started is cleaned up.
StartFail(n) ==
  /\ agent[n].busy \in {"starting", "locked"} /\ ~agent[n].rec
  /\ \E body \in {"failed", "cannot"} \cup (IF agent[n].cancel /\ agent[n].ctr THEN {"stopped"} ELSE {}) :
       Send(n, body, [agent[n] EXCEPT !.ctr = FALSE])
  /\ UNCHANGED <<row, stale, hb, req, faults>>

\* stop: cleanup, the record deleted and saved
StopDone(n) ==
  /\ agent[n].busy = "stopping"
  /\ Send(n, "stopped", [agent[n] EXCEPT !.ctr = FALSE, !.rec = FALSE])
  /\ UNCHANGED <<row, stale, hb, req, faults>>

\* purge: only what had a record is reported.
PurgeDone(n) ==
  /\ agent[n].busy = "purging"
  /\ IF agent[n].rec
     THEN Send(n, "stopped", [agent[n] EXCEPT !.ctr = FALSE, !.rec = FALSE])
     ELSE agent' = [agent EXCEPT ![n] = [Done(@) EXCEPT !.ctr = FALSE]] /\ rep' = rep
  /\ UNCHANGED <<row, stale, hb, req, faults>>

\* The process dies: what it knew is gone, the record and the container stay
\* (or the machine went down with the container).
Crash(n) ==
  /\ agent[n].up /\ faults < MaxFaults
  /\ faults' = faults + 1
  /\ \E ctr \in {agent[n].ctr, FALSE} :
       agent' = [agent EXCEPT ![n] = [up |-> FALSE, rec |-> @.rec, ctr |-> ctr, busy |-> "no", cancel |-> FALSE, pend |-> "none"]]
  /\ rep' = [rep EXCEPT ![n].mine = FALSE]
  /\ hb' = IF hb[n].pc = "idle" THEN hb ELSE [hb EXCEPT ![n].dead = TRUE]
  /\ UNCHANGED <<row, stale, req>>

\* resume()
Restart(n) ==
  /\ ~agent[n].up /\ hb[n].pc = "idle" /\ rep[n].pc = "idle"
  /\ LET a == [agent[n] EXCEPT !.up = TRUE]
     IN IF a.rec THEN IF a.ctr THEN Queue(n, "running", a) ELSE Queue(n, "failed", [a EXCEPT !.rec = FALSE])
        ELSE agent' = [agent EXCEPT ![n] = a] /\ rep' = rep
  /\ UNCHANGED <<row, stale, hb, req, faults>>

-----------------------------------------------------------------------------
(* The heartbeat at the API (runDeploymentDuties: assign, then instructions). *)

\* assign and claim: a queued row this node did not just refuse; back on the
\* node that lost it, no stop is owed any more.  (The refusal stays on the row but
\* is not read again: every way back to the queue writes its own.)
Claim(n) ==
  /\ agent[n].up /\ hb[n].pc = "idle"
  /\ row.st = "queued" /\ row.refused # n /\ row.claims < MaxClaims
  /\ row' = [row EXCEPT !.st = "assigned", !.node = n, !.refused = None, !.claims = @ + 1]
  /\ stale' = stale \ {n}
  /\ UNCHANGED <<agent, hb, rep, req, faults>>

Starts(n) == row.node = n /\ row.st = "assigned" /\ ~Awaiting(row)

\* Mutant of Instructions: only a node that lost the row is told to stop.
InstructionsStaleOnly(n) == (IF Starts(n) THEN {"start"} ELSE {}) \cup (IF n \in stale THEN {"stop"} ELSE {})

Instructions(n) ==
  (IF Starts(n) THEN {"start"} ELSE {})
  \cup (IF row.node = n /\ row.st \in Ended /\ ~row.acked THEN {IF row.purge THEN "purge" ELSE "stop"} ELSE {})
  \cup (IF n \in stale THEN {"stop"} ELSE {})

\* instructions(), whether or not the beat could place anything; one that finds
\* nothing to do has no effect.
HbInstr(n) ==
  /\ agent[n].up /\ hb[n].pc = "idle" /\ Instructions(n) # {}
  /\ hb' = [hb EXCEPT ![n] = [@ EXCEPT !.pc = "reply", !.cmds = Instructions(n), !.key = row.key]]
  /\ UNCHANGED <<row, stale, agent, rep, req, faults>>

\* The answer never reaches the agent, or reaches one that restarted since.
HbLost(n) ==
  /\ hb[n].pc = "reply"
  /\ hb[n].dead \/ faults < MaxFaults
  /\ faults' = IF hb[n].dead THEN faults ELSE faults + 1
  /\ hb' = [hb EXCEPT ![n] = IdleHb]
  /\ UNCHANGED <<row, stale, agent, rep, req>>

-----------------------------------------------------------------------------
(* A status report: flush() at the agent, reportDeploymentStatus at the API. *)

\* The API reads the row.
Post(n) ==
  /\ agent[n].up /\ agent[n].pend # "none" /\ rep[n].pc = "idle"
  /\ rep' = [rep EXCEPT ![n] = [pc |-> "act", body |-> agent[n].pend, s |-> IF row.node = n THEN Snapshot("act") ELSE Elsewhere, mine |-> TRUE]]
  /\ UNCHANGED <<row, stale, agent, hb, req, faults>>

\* The answer reaches the agent, and the report leaves pending unless a newer
\* one took its place; a refused running tears the deployment down (refuse).
\* Or it is lost, and the report is sent again.
Answer(n, ok) ==
  LET r == rep[n]
      a == IF agent[n].busy = "reporting" THEN Done(agent[n]) ELSE agent[n]
      delivered == IF r.mine THEN [a EXCEPT !.pend = "none"] ELSE a
  IN /\ rep' = [rep EXCEPT ![n] = IdleRep]
     /\ \/ /\ agent' = [agent EXCEPT ![n] =
                IF ~ok /\ r.body = "running" /\ a.up /\ a.rec
                THEN [a EXCEPT !.rec = FALSE, !.ctr = FALSE, !.pend = "cannot"] ELSE delivered]
           /\ faults' = faults
        \/ faults < MaxFaults /\ faults' = faults + 1 /\ agent' = [agent EXCEPT ![n] = a]

\* Not this node's row: running is refused, anything else confirms the stop the
\* node was owed.
RepElsewhere(n) ==
  LET r == rep[n]
  IN /\ r.pc = "act" /\ r.s.node # n
     /\ stale' = IF r.body = "running" THEN stale ELSE stale \ {n}
     /\ Answer(n, r.body # "running" /\ n \in stale)
     /\ UNCHANGED <<row, hb, req>>

\* back to the queue; what was sealed to the old node is useless to the next
Unplaced(refused) ==
  [row EXCEPT !.st = "queued", !.node = None, !.ep = None, !.key = None, !.refused = refused]

\* endDeployment: UPDATE ... WHERE status = ? (the snapshot's)
EndRow(s, acked, byStop) == [row EXCEPT !.st = "stopped", !.acked = acked \/ s.node = None, !.stopReport = byStop]

\* running: stop again what has ended; else the row runs at this endpoint (or
\* the endpoint is not the node's announced host, and the report is refused)
RepRunning(n) ==
  LET s == rep[n].s
      running == [row EXCEPT !.st = "running", !.ep = n, !.tries = 0]
  IN /\ rep[n].pc = "act" /\ s.node = n /\ rep[n].body = "running"
     /\ \/ s.st \in Ended /\ row' = (IF s.acked THEN [row EXCEPT !.acked = FALSE] ELSE row) /\ Answer(n, TRUE)
        \/ s.st = "assigned" /\ row' = (IF row.st = "assigned" THEN running ELSE row) /\ Answer(n, TRUE)
        \/ s.st = "running" /\ row' \in {row, [row EXCEPT !.ep = n]} /\ Answer(n, TRUE)
        \/ s.st = "assigned" /\ row' = row /\ Answer(n, FALSE)
     /\ UNCHANGED <<stale, hb, req>>

\* failed or stopped: confirmed; or queued for another node; or the row ends
RepEnded(n) ==
  LET s == rep[n].s
      body == rep[n].body
  IN /\ rep[n].pc = "act" /\ s.node = n /\ body # "running"
     /\ row' = IF s.st \in Ended THEN IF s.acked THEN row ELSE [row EXCEPT !.acked = TRUE, !.purge = FALSE]
               ELSE IF body = "cannot" /\ s.st = "assigned"
               THEN IF row.st = s.st /\ row.node = n THEN Unplaced(n) ELSE row
               ELSE IF row.st = s.st THEN EndRow(s, TRUE, body = "stopped") ELSE row
     /\ Answer(n, TRUE)
     /\ UNCHANGED <<stale, hb, req>>

-----------------------------------------------------------------------------
(* The cron's duties and the owner's requests. *)

\* The row as read by a re-queue (dead, evicted or moved node, failed probes),
\* a start timeout, a hand-back of an unsealed row, or a stop.
ReqBegin(p) ==
  /\ req[p].pc = "idle"
  /\ \E pc \in {"requeue", "stuck", "unsealed", "end", "purge"} :
       /\ pc = "requeue" => row.st \in Live
       /\ pc = "stuck" => row.st = "assigned" /\ ~Awaiting(row)
       /\ pc = "unsealed" => row.st = "assigned" /\ Awaiting(row)
       /\ pc = "end" => Stops /\ row.st \notin Ended
       /\ pc = "purge" => Purges /\ row.st \in Ended /\ row.node # None
       /\ req' = [req EXCEPT ![p] = [IdleReq EXCEPT !.pc = pc, !.s = Snapshot(pc)]]
  /\ UNCHANGED <<row, stale, agent, hb, rep, faults>>

\* Mutant of GivesUp: one start more than allowed.
GivesUpLate(s) == s.tries >= StartAttempts

\* this was the last attempt
GivesUp(s) == s.tries + 1 >= StartAttempts

\* requeueStuckAssigned: one more attempt spent, or the deployment fails
Stuck(p) ==
  LET s == req[p].s
  IN /\ req[p].pc = "stuck"
     /\ IF GivesUp(s)
        THEN row' = row /\ req' = [req EXCEPT ![p].pc = "end"]
        ELSE IF row.st = "assigned" /\ row.node = s.node /\ row.tries = s.tries
        THEN row' = [row EXCEPT !.tries = @ + 1] /\ req' = [req EXCEPT ![p].pc = "requeue", ![p].refusal = TRUE]
        ELSE row' = row /\ req' = [req EXCEPT ![p] = IdleReq]
     /\ UNCHANGED <<stale, agent, hb, rep, faults>>

\* Mutant of StillUnsealed: a seal that just landed is thrown away.
StillUnsealedAlways(s) == TRUE

StillUnsealed(s) == row.key = None /\ row.claims = s.claims

\* requeueRows: the UPDATE, and (a statement later) the stop owed by the old node
Requeue(p) ==
  LET s == req[p].s
  IN /\ req[p].pc \in {"requeue", "unsealed"}
     /\ IF row.st = s.st /\ row.node = s.node /\ (req[p].pc = "unsealed" => StillUnsealed(s))
        THEN row' = Unplaced(IF req[p].refusal THEN s.node ELSE None) /\ req' = [req EXCEPT ![p].pc = "owe"]
        ELSE row' = row /\ req' = [req EXCEPT ![p] = IdleReq]
     /\ UNCHANGED <<stale, agent, hb, rep, faults>>

\* Mutant of OwesStop: the old node is owed nothing.
OwesStopNone(s) == {}

OwesStop(s) == {s.node}

OweStop(p) ==
  /\ req[p].pc = "owe"
  /\ stale' = stale \cup OwesStop(req[p].s)
  /\ req' = [req EXCEPT ![p] = IdleReq]
  /\ UNCHANGED <<row, agent, hb, rep, faults>>

\* A stop by the owner, an admin, auto-stop or preemption, or the last start
\* timeout; the owner of a workstation may go on to purge it.
End(p) ==
  LET s == req[p].s
  IN /\ req[p].pc = "end"
     /\ row' = IF row.st = s.st THEN EndRow(s, FALSE, FALSE) ELSE row
     /\ \E pc \in {"idle"} \cup (IF Purges /\ row.st = s.st /\ s.node # None THEN {"purge"} ELSE {}) :
          req' = [req EXCEPT ![p] = IF pc = "idle" THEN IdleReq ELSE [@ EXCEPT !.pc = pc]]
     /\ UNCHANGED <<stale, agent, hb, rep, faults>>

Purge(p) ==
  /\ req[p].pc = "purge"
  /\ row' = IF row.purge THEN row ELSE [row EXCEPT !.purge = TRUE, !.acked = FALSE]
  /\ req' = [req EXCEPT ![p] = IdleReq]
  /\ UNCHANGED <<stale, agent, hb, rep, faults>>

\* Mutant of SealFits: the row may have moved since the key was fetched.
SealFitsMoved(n) == row.st = "assigned"

SealFits(n) == row.st = "assigned" /\ row.node = n

\* setSealedEnv: sealed for node n's key, on to the row while it is n's
Seal(n) ==
  /\ Secrets /\ SealFits(n) /\ row.key = None
  /\ row' = [row EXCEPT !.key = n]
  /\ UNCHANGED <<stale, agent, hb, rep, req, faults>>

-----------------------------------------------------------------------------

Work(n) ==
  \/ StartRun(n) \/ StartDone(n) \/ StartFail(n) \/ StopDone(n) \/ PurgeDone(n) \/ Restart(n)

RepStep(n) == RepElsewhere(n) \/ RepRunning(n) \/ RepEnded(n)

ReqStep(p) == Stuck(p) \/ Requeue(p) \/ OweStop(p) \/ End(p) \/ Purge(p)

Next ==
  \/ \E n \in Nodes :
       Work(n) \/ Commands(n) \/ Crash(n) \/ Claim(n) \/ HbInstr(n) \/ HbLost(n) \/ Post(n) \/ RepStep(n) \/ Seal(n)
  \/ \E p \in Requests : ReqBegin(p) \/ ReqStep(p)

Spec == Init /\ [][Next]_vars

\* Agents work (a start gives up at its grace), restart, beat every HEARTBEAT_MS and flush on every beat; the API
\* answers.  Faults are finite, and nothing forces the owner or the cron to act.
Fairness ==
  /\ \A n \in Nodes : WF_vars(Work(n)) /\ WF_vars(Commands(n)) /\ WF_vars(HbInstr(n)) /\ WF_vars(HbLost(n) /\ hb[n].dead)
                      /\ WF_vars(Post(n)) /\ WF_vars(RepStep(n))
  /\ \A p \in Requests : WF_vars(ReqStep(p))

FairSpec == Spec /\ Fairness

-----------------------------------------------------------------------------
(* Properties. *)

TypeOK ==
  /\ row.st \in {"queued"} \cup Live \cup Ended
  /\ {row.node, row.key, row.ep, row.refused} \subseteq Nodes \cup {None}
  /\ row.tries \in 0..(StartAttempts - 1) /\ row.claims \in 0..MaxClaims
  /\ stale \subseteq Nodes /\ faults \in 0..MaxFaults
  /\ \A n \in Nodes :
       /\ agent[n].busy \in {"no", "starting", "locked", "stopping", "purging", "reporting"}
       /\ agent[n].pend \in {"none", "running", "stopped", "failed", "cannot"}
       /\ hb[n].cmds \subseteq {"start", "stop", "purge"}

\* Secrets on a row are sealed to the node that holds it, and no start goes out
\* for a node whose key does not open them, however re-queues, seals, claims and
\* heartbeats interleave (requeueRows, setSealedEnv, instructions).
SealedToItsNode ==
  /\ row.key # None => row.key = row.node
  /\ \A n \in Nodes : Secrets /\ hb[n].pc = "reply" /\ "start" \in hb[n].cmds => hb[n].key = n

\* A seal stays on the row until the deployment leaves the node it was for:
\* no hand-back of an unsealed row throws it away.
SealSurvives ==
  [][\A p \in Requests : Requeue(p) /\ req[p].pc = "unsealed" => row.key = None \/ row'.key = row.key]_vars

\* A node that serves a deployment no longer its own is made to stop it
\* (deployment_stale_nodes, stop_acked_at, a refused report), whatever was lost
\* and whoever crashed.
OrphanStops ==
  \A n \in Nodes : (agent[n].rec /\ (row.node # n \/ row.st \in Ended)) ~> (~agent[n].rec \/ (row.node = n /\ row.st \in Live))

\* What has ended is confirmed by its node sooner or later: the stop is sent
\* again on every heartbeat until then.
StopConfirmed == (row.st \in Ended /\ ~row.acked /\ ~row.purge) ~> (row.acked \/ row.purge)

\* routes/v1/deployments: the node gets the purge "on its heartbeats until it
\* confirms", on an already stopped workstation too.
PurgeConfirmed == row.purge ~> ~row.purge

\* "endpoints must live on the host the node announced, never on some other
\* live site": a running row is reached at its own node.
EndpointIsItsNodes == row.st = "running" => row.ep = row.node

\* claim: 'Back on the node that lost it: its "start" replaces the owed stop';
\* the confirmation of that stop does not end the new placement.
OldStopEndsNothing == ~row.stopReport
=============================================================================
