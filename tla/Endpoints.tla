----------------------------- MODULE Endpoints -----------------------------
(***************************************************************************)
(* A GPU endpoint: a parent row that is never placed and one row per        *)
(* replica (deployments.service.ts, deployment-duties.service.ts).  Stopping *)
(* it, or abandoning it when one replica's secrets never come, goes over the *)
(* replicas one statement at a time while heartbeats, reports and the cron   *)
(* move them.  Holds and bills are the business of HourBilling.             *)
(***************************************************************************)
EXTENDS Naturals, FiniteSets, FiniteSetsExt

CONSTANTS
  N,                \* replicas
  Requests,         \* owner stops and cron passes that may overlap
  Secrets,          \* expectsSecrets
  START_ATTEMPTS,   \* DEPLOY_START_ATTEMPTS
  MaxMoves,         \* bound: how often one replica changes its status
  MaxThrows         \* bound: statements that fail

EndpointsAssumption ==
  N \in Nat \ {0} /\ Secrets \in BOOLEAN /\ START_ATTEMPTS \in Nat \ {0} /\ {MaxMoves, MaxThrows} \subseteq Nat

VARIABLES
  parent,    \* the parent's status
  row,       \* per replica: status, whether sealed, seal_timeouts, and how often it moved (which tells assignments apart)
  req,       \* requests under way
  culprit,   \* the replica whose missing secrets ended the endpoint (0: none)
  throws

vars == <<parent, row, req, culprit, throws>>

Replicas == 1 .. N
Ended == {"stopped", "failed"}

IdleReq == [pc |-> "idle", to |-> "stopped", parent |-> "queued", r |-> 0, at |-> 0, snap |-> [r \in Replicas |-> "queued"],
            todo |-> {}, moved |-> [r \in Replicas |-> 0]]

\* createDeployment(): parent and replicas in one batch
Init ==
  /\ parent = "queued" /\ req = [q \in Requests |-> IdleReq] /\ culprit = 0 /\ throws = 0
  /\ row = [r \in Replicas |-> [st |-> "queued", sealed |-> FALSE, cycles |-> 0, moves |-> 0]]

\* Mutant: unreachable, assigned and queued replicas are not looked at.
endpointStatusOf == IF parent \in Ended THEN parent ELSE IF \E r \in Replicas : row[r].st = "running" THEN "running" ELSE "stopped"

\* The visible status: the most advanced of its replicas', unless the parent itself has ended.
endpointStatus ==
  IF parent \in Ended THEN parent
  ELSE LET order == <<"running", "unreachable", "assigned", "queued", "failed", "stopped">>
       IN order[Min({i \in 1 .. 6 : order[i] = "stopped" \/ \E r \in Replicas : row[r].st = order[i]})]

\* A statement sets replica r; requests past their list count it (moved), up to two.
Becomes(r, new, reqs) ==
  /\ row' = [row EXCEPT ![r] = [new EXCEPT !.moves = @ + 1]]
  /\ req' = [q \in Requests |->
              IF reqs[q].pc \in {"each", "reread", "again"} THEN [reqs[q] EXCEPT !.moved[r] = Min({@ + 1, 2})] ELSE reqs[q]]

-----------------------------------------------------------------------------
(* A replica's own life; replicas are replaced, never "unreachable". *)

Moves(r) == row[r].moves < MaxMoves /\ UNCHANGED <<parent, culprit, throws>>

Claim(r) == row[r].st = "queued" /\ Moves(r) /\ Becomes(r, [row[r] EXCEPT !.st = "assigned"], req)

setSealedEnv(r) ==
  /\ Secrets /\ row[r].st = "assigned" /\ ~row[r].sealed
  /\ row' = [row EXCEPT ![r].sealed = TRUE]
  /\ UNCHANGED <<parent, req, culprit, throws>>

ReportRunning(r) ==
  /\ row[r].st = "assigned" /\ (Secrets => row[r].sealed)
  /\ Moves(r) /\ Becomes(r, [row[r] EXCEPT !.st = "running", !.cycles = 0], req)

\* The node ends it, or it was not started by START_ATTEMPTS nodes.
ReportEnded(r, s) == row[r].st \in {"assigned", "running"} /\ Moves(r) /\ Becomes(r, [row[r] EXCEPT !.st = s], req)

\* Its node is gone, cannot serve it, or its probes fail.
Requeue(r) ==
  /\ row[r].st \in {"assigned", "running"} /\ Moves(r)
  /\ Becomes(r, [row[r] EXCEPT !.st = "queued", !.sealed = FALSE], req)

-----------------------------------------------------------------------------
(* The end of the endpoint. *)

\* stopDeployment() or adminStop(): the parent's row
StopReads(q) ==
  /\ req[q].pc = "idle" /\ req' = [req EXCEPT ![q] = [IdleReq EXCEPT !.pc = "list", !.parent = parent]]
  /\ UNCHANGED <<parent, row, culprit, throws>>

\* Mutant: one cycle too many.
LastCycleLate(r) == row[r].cycles >= START_ATTEMPTS

LastCycle(r) == row[r].cycles + 1 >= START_ATTEMPTS

\* requeueStuckAssigned(): a replica whose secrets were not sealed in time
TimeoutReads(q, r) ==
  /\ req[q].pc = "idle" /\ Secrets /\ row[r].st = "assigned" /\ ~row[r].sealed
  /\ req' = [req EXCEPT ![q] = [IdleReq EXCEPT !.pc = "timeout", !.to = "failed", !.r = r, !.at = row[r].moves,
                                                !.parent = IF LastCycle(r) THEN "failed" ELSE "queued"]]
  /\ UNCHANGED <<parent, row, culprit, throws>>

\* Mutant: the row is ended if it is still assigned.
StillUnsealedOf(q) == row[req[q].r].st = "assigned"

\* unsealedSince: still in that assignment, and no seal has landed.
StillUnsealed(q) == row[req[q].r].st = "assigned" /\ ~row[req[q].r].sealed /\ row[req[q].r].moves = req[q].at

\* Back to the queue, or for the last time: the replica fails first, then the endpoint.
TimeoutEnds(q) ==
  LET r == req[q].r
      last == req[q].parent = "failed"
  IN /\ req[q].pc = "timeout"
     /\ \/ /\ ~StillUnsealed(q)
           /\ req' = [req EXCEPT ![q] = IdleReq] /\ UNCHANGED <<row, culprit>>
        \/ /\ StillUnsealed(q) /\ ~last
           /\ Becomes(r, [row[r] EXCEPT !.st = "queued", !.cycles = @ + 1], [req EXCEPT ![q] = IdleReq])
           /\ UNCHANGED culprit
        \/ /\ StillUnsealed(q) /\ last
           /\ Becomes(r, [row[r] EXCEPT !.st = "failed"], [req EXCEPT ![q].pc = "list"]) /\ culprit' = r
     /\ UNCHANGED <<parent, throws>>

\* replicasOf()
Lists(q) ==
  /\ req[q].pc = "list"
  /\ req' = [req EXCEPT ![q].pc = "each", ![q].snap = [r \in Replicas |-> row[r].st], ![q].r = 0, ![q].at = 0,
                        ![q].todo = {r \in Replicas : row[r].st \notin Ended}]
  /\ UNCHANGED <<parent, row, culprit, throws>>

\* endDeployment() of the next replica against what was read of it
Ends(q, pc) ==
  LET r == Min(req[q].todo)
  IN /\ req[q].pc = pc /\ req[q].todo # {} /\ row[r].st = req[q].snap[r]
     /\ row' = [row EXCEPT ![r].st = req[q].to]
     /\ req' = [req EXCEPT ![q].pc = "each", ![q].todo = @ \ {r}]
     /\ UNCHANGED <<parent, culprit, throws>>

\* Mutant: a replica that changed meanwhile is left to its own.
MissesLeaving(q) ==
  LET r == Min(req[q].todo)
  IN /\ req[q].pc = "each" /\ req[q].todo # {} /\ row[r].st # req[q].snap[r]
     /\ req' = [req EXCEPT ![q].todo = @ \ {r}]
     /\ UNCHANGED <<parent, row, culprit, throws>>

\* The replica changed meanwhile: it is read again,
Misses(q) ==
  LET r == Min(req[q].todo)
  IN /\ req[q].pc = "each" /\ req[q].todo # {} /\ row[r].st # req[q].snap[r]
     /\ req' = [req EXCEPT ![q].pc = "reread"]
     /\ UNCHANGED <<parent, row, culprit, throws>>

Rereads(q) ==
  LET r == Min(req[q].todo)
  IN /\ req[q].pc = "reread"
     /\ req' = [req EXCEPT ![q].snap[r] = row[r].st, ![q].pc = IF row[r].st \in Ended THEN "each" ELSE "again",
                           ![q].todo = IF row[r].st \in Ended THEN @ \ {r} ELSE @]
     /\ UNCHANGED <<parent, row, culprit, throws>>

\* and after a second miss left as it is.
MissesAgain(q) ==
  LET r == Min(req[q].todo)
  IN /\ req[q].pc = "again" /\ row[r].st # req[q].snap[r]
     /\ req' = [req EXCEPT ![q].pc = "each", ![q].todo = @ \ {r}]
     /\ UNCHANGED <<parent, row, culprit, throws>>

\* The parent: a stop against what it read, an abandonment against a fresh read.
EndsParent(q) ==
  /\ req[q].pc = "each" /\ req[q].todo = {}
  /\ parent' = IF parent \in Ended THEN parent ELSE req[q].to
  /\ LET refused == req[q].to = "stopped" /\ req[q].parent \notin Ended /\ parent \in Ended
     IN req' = [req EXCEPT ![q] = [IdleReq EXCEPT !.pc = IF refused THEN "conflict" ELSE "done", !.moved = req[q].moved]]
  /\ UNCHANGED <<row, culprit, throws>>

\* A statement fails and the request with it.
Throws(q) ==
  /\ throws < MaxThrows /\ req[q].pc \in {"list", "each", "reread", "again"}
  /\ throws' = throws + 1 /\ req' = [req EXCEPT ![q] = [IdleReq EXCEPT !.pc = "threw"]]
  /\ UNCHANGED <<parent, row, culprit>>

Next ==
  \/ \E r \in Replicas : \/ Claim(r) \/ setSealedEnv(r) \/ ReportRunning(r) \/ Requeue(r)
                         \/ \E s \in Ended : ReportEnded(r, s)
  \/ \E q \in Requests : \/ StopReads(q) \/ \E r \in Replicas : TimeoutReads(q, r)
                         \/ TimeoutEnds(q) \/ Lists(q) \/ Ends(q, "each") \/ Misses(q) \/ Rereads(q)
                         \/ Ends(q, "again") \/ MissesAgain(q) \/ EndsParent(q) \/ Throws(q)

Spec == Init /\ [][Next]_vars

-----------------------------------------------------------------------------
(* Properties. *)

TypeOK ==
  /\ parent \in {"queued"} \cup Ended /\ culprit \in 0 .. N
  /\ \A r \in Replicas : row[r].st \in {"queued", "assigned", "running"} \cup Ended /\ row[r].cycles < START_ATTEMPTS

\* A replica that outlives a finished stop or abandonment changed its status twice while that was under way: one
\* change, by whatever heartbeat, report or cron pass, is always caught.
SurvivorMovedTwice ==
  \A q \in Requests : req[q].pc = "done" => \A r \in Replicas : row[r].st \in Ended \/ req[q].moved[r] >= 2

\* A seal that lands, however late, keeps the endpoint: it is abandoned only over a replica that is unsealed after
\* START_ATTEMPTS assignments in a row.
AbandonedUnsealed ==
  culprit # 0 => /\ row[culprit].st = "failed" /\ ~row[culprit].sealed
                 /\ row[culprit].cycles + 1 >= START_ATTEMPTS

\* Once its owner sees the endpoint ended, it stays ended.
VisibleEndFinal == [][(endpointStatus \in Ended) => (endpointStatus' \in Ended)]_vars

\* endReplicas: "Stop every live replica of an endpoint; one that changed state meanwhile is re-read and stopped again."
StopIsWhole == \A q \in Requests : req[q].pc = "done" => \A r \in Replicas : row[r].st \in Ended

\* requeueStuckAssigned: "the endpoint is abandoned: every replica and the parent fail and the holds come back."
AbandonIsWhole ==
  culprit # 0 /\ (\A q \in Requests : req[q].pc \in {"idle", "done", "conflict", "threw"})
    => parent \in Ended

=============================================================================
