---------------------------- MODULE HourBilling ----------------------------
(***************************************************************************)
(* The money of one hosted deployment: the hour held at create, the hourly  *)
(* bill, and everything that ends or moves the deployment meanwhile         *)
(* (S/deployments.service.ts, S/deployment-duties.service.ts).              *)
(*                                                                         *)
(* A request reads the row and then acts on that snapshot; a step is one    *)
(* D1 statement.  The owner's balance holds nothing but this deployment.    *)
(* Requests last seconds and a tick is a large part of an hour, so time     *)
(* passes only between requests.                                            *)
(***************************************************************************)
EXTENDS Integers, FiniteSets, FiniteSetsExt

CONSTANTS
  Requests,    \* requests and cron passes that may overlap
  Nodes,
  None,
  Hour,        \* ticks in HOUR_MS
  Price,       \* price_ucld_per_hour
  Credits,     \* the owner's deposit
  ProbeFails,  \* DEPLOY_PROBE_FAILS
  MaxReports,  \* bound: problem reports of the owner (REPORTS_PER_DAY)
  MaxNow       \* bound on the clock

ASSUME BillingAssumption ==
  /\ IsFiniteSet(Requests)
  /\ Hour \in Nat \ {0} /\ Price \in Nat \ {0} /\ MaxNow \in Nat /\ MaxReports \in Nat
  /\ ProbeFails \in Nat \ {0}
  /\ Credits \in Nat /\ Credits >= Price
  /\ None \notin Nodes

VARIABLES
  now,
  row,       \* the deployments row: st, node, held (held_ucld), lb (last_billed_at),
             \* ok (last_ok_at), lp (last_probe_at), fails (probe_fail)
  pool,      \* the owner's balance: avail, held
  charged,   \* captured so far
  served,    \* ticks the row was running
  reports,   \* deployment_reports
  k          \* requests under way

vars == <<now, row, pool, charged, served, reports, k>>

Live  == {"assigned", "running", "unreachable"}
Ended == {"stopped", "failed"}
Never == -1      \* a NULL time

Idle == [pc |-> "idle", s |-> [st |-> "none"], tries |-> 0]

\* createDeployment: the first hour is held, then the row is inserted.
Init ==
  /\ now = 0 /\ charged = 0 /\ served = 0 /\ reports = 0
  /\ row = [st |-> "queued", node |-> None, held |-> Price, lb |-> Never, ok |-> Never,
            lp |-> Never, fails |-> 0]
  /\ pool = [avail |-> Credits - Price, held |-> Price]
  /\ k = [p \in Requests |-> Idle]

Go(p, pc) == k' = [k EXCEPT ![p].pc = pc]
Finish(p) == k' = [k EXCEPT ![p] = Idle]
Snapshot(p, pc) == k' = [k EXCEPT ![p] = [pc |-> pc, s |-> row, tries |-> 0]]
Later(a, b) == IF a > b THEN a ELSE b

-----------------------------------------------------------------------------
(* balance.service, as the code below calls it. *)

CanHold(x) == pool.avail >= x
Held(x)     == [avail |-> pool.avail - x, held |-> pool.held + x]
Released(x) == [avail |-> pool.avail + x, held |-> pool.held - x]

\* chargeHour: no bill without a captured fee.
Charge(x) ==
  IF pool.held >= x
  THEN pool' = [pool EXCEPT !.held = @ - x] /\ charged' = charged + x
  ELSE UNCHANGED <<pool, charged>>

-----------------------------------------------------------------------------
(* N4, the hourly bill. *)

BillBegin(p) ==
  /\ k[p].pc = "idle" /\ row.st = "running" /\ row.lb # Never /\ row.lb + Hour <= now
  /\ Snapshot(p, "bill")
  /\ UNCHANGED <<now, row, pool, charged, served, reports>>

\* Mutant of HourIsMine: the claim does not look at the clock.
HourIsMineAnyClock(s) == row.st = "running" /\ row.held = Price

\* The claim of an hour: the clock and the held hour are still the snapshot's.
HourIsMine(s) == row.st = "running" /\ row.lb = s.lb /\ row.held = Price

BillClaim(p) ==
  /\ k[p].pc = "bill"
  /\ IF HourIsMine(k[p].s)
     THEN row' = [row EXCEPT !.held = 0, !.lb = k[p].s.lb + Hour] /\ Go(p, "charge")
     ELSE row' = row /\ Go(p, "backstop")
  /\ UNCHANGED <<now, pool, charged, served, reports>>

BillCharge(p) ==
  /\ k[p].pc = "charge"
  /\ Charge(Price)
  /\ Go(p, "rehold")
  /\ UNCHANGED <<now, row, served, reports>>

\* hold for the next hour; an owner without credits ends the row from a fresh read.
BillRehold(p) ==
  /\ k[p].pc = "rehold"
  /\ IF CanHold(Price)
     THEN pool' = Held(Price) /\ Go(p, "put")
     ELSE pool' = pool /\ Go(p, "endFresh")
  /\ UNCHANGED <<now, row, charged, served, reports>>

\* Mutant of MayCarry: an hour is put on a row that has one.
MayCarryTwice(sts) == row.st \in sts

\* The row still takes the hour just held.
MayCarry(sts) == row.held = 0 /\ row.st \in sts

\* Onto the row while it is live, else back; then the next due hour.
BillPut(p) ==
  LET s == k[p].s
  IN /\ k[p].pc = "put"
     /\ IF MayCarry({"running", "queued", "assigned"})
        THEN /\ row' = [row EXCEPT !.held = Price] /\ pool' = pool
             /\ IF s.lb + 2 * Hour <= now
                THEN k' = [k EXCEPT ![p].pc = "bill", ![p].s = [s EXCEPT !.lb = @ + Hour, !.held = Price]]
                ELSE Finish(p)
        ELSE row' = row /\ pool' = Released(Price) /\ Finish(p)
     /\ UNCHANGED <<now, charged, served, reports>>

\* Nothing held for a due hour: hold it now, or end the row.
Backstop(p) ==
  LET s == k[p].s
  IN /\ k[p].pc = "backstop"
     /\ IF row.st = "running" /\ row.node = s.node /\ row.held = 0 /\ row.lb = s.lb
        THEN IF CanHold(Price) THEN pool' = Held(Price) /\ Go(p, "putBack")
                               ELSE pool' = pool /\ Go(p, "endFresh")
        ELSE pool' = pool /\ Finish(p)
     /\ UNCHANGED <<now, row, charged, served, reports>>

BackstopPut(p) ==
  /\ k[p].pc = "putBack"
  /\ IF MayCarry({"running"})
     THEN row' = [row EXCEPT !.held = Price] /\ pool' = pool
     ELSE row' = row /\ pool' = Released(Price)
  /\ Finish(p)
  /\ UNCHANGED <<now, charged, served, reports>>

-----------------------------------------------------------------------------
(* endDeployment and settleHold: owner and admin stop, auto-stop, preemption,
   a node's report that it failed or stopped, a revoked fleet, timeouts. *)

EndBegin(p) ==
  /\ k[p].pc = "idle" /\ row.st \notin Ended
  /\ Snapshot(p, "end")
  /\ UNCHANGED <<now, row, pool, charged, served, reports>>

EndFresh(p) ==
  /\ k[p].pc = "endFresh"
  /\ IF row.st \in Ended THEN Finish(p) ELSE Snapshot(p, "end")
  /\ UNCHANGED <<now, row, pool, charged, served, reports>>

\* UPDATE ... WHERE status = ?; settleHold returns at once for a snapshot with
\* nothing held.  A pass that found no credits tries again from a fresh read.
End(p) ==
  /\ k[p].pc \in {"end", "endBroke"}
  /\ IF row.st = k[p].s.st
     THEN /\ row' = [row EXCEPT !.st = "stopped"]
          /\ IF k[p].s.held <= 0 THEN Finish(p) ELSE Go(p, "settle")
     ELSE row' = row /\ IF k[p].pc = "end" THEN Finish(p) ELSE Go(p, "endFresh")
  /\ UNCHANGED <<now, pool, charged, served, reports>>

\* Mutant of Settleable: the UPDATE claims the hold without a condition.
SettleableAlways(s) == TRUE

\* The hold is claimed against the amount and the clock.
Settleable(s) == row.held = s.held /\ row.lb = s.lb

Settle(p) ==
  /\ k[p].pc = "settle"
  /\ IF Settleable(k[p].s)
     THEN row' = [row EXCEPT !.held = 0] /\ Go(p, "settleCharge")
     ELSE row' = row /\ IF k[p].tries >= 3 THEN Finish(p) ELSE Go(p, "resnap")
  /\ UNCHANGED <<now, pool, charged, served, reports>>

Resnap(p) ==
  /\ k[p].pc = "resnap"
  /\ IF row.held <= 0 THEN Finish(p)
     ELSE k' = [k EXCEPT ![p] = [pc |-> "settle", tries |-> @.tries + 1,
                                 s |-> [@.s EXCEPT !.held = row.held, !.lb = row.lb]]]
  /\ UNCHANGED <<now, row, pool, charged, served, reports>>

\* ticks of the hour the snapshot was in
Elapsed(s) == LET d == Later(0, now - s.lb) IN IF d > Hour THEN Hour ELSE d

\* A running deployment pays the elapsed part of its hour.
Due(s) == IF s.st = "running" /\ s.lb # Never
          THEN LET x == (Price * Elapsed(s)) \div Hour IN IF x > s.held THEN s.held ELSE x
          ELSE 0

SettleCharge(p) ==
  /\ k[p].pc = "settleCharge"
  /\ Charge(Due(k[p].s))
  /\ Go(p, "settleRelease")
  /\ UNCHANGED <<now, row, served, reports>>

SettleRelease(p) ==
  /\ k[p].pc = "settleRelease"
  /\ pool' = Released(k[p].s.held - Due(k[p].s))
  /\ Finish(p)
  /\ UNCHANGED <<now, row, charged, served, reports>>

-----------------------------------------------------------------------------
(* requeueRows: a dead, evicted or stuck node, a node that left the fleet, a
   refusal; and a replica that failed its probes, which settles its hour. *)

RequeueBegin(p) ==
  /\ k[p].pc = "idle" /\ row.st \in Live
  /\ Snapshot(p, "requeue")
  /\ UNCHANGED <<now, row, pool, charged, served, reports>>

Requeued(held) == [row EXCEPT !.st = "queued", !.node = None, !.lb = Never, !.held = held,
                                !.lp = Never, !.fails = 0]

Requeue(p) ==
  LET s == k[p].s
  IN /\ k[p].pc = "requeue"
     /\ row' = IF row.st = s.st /\ row.node = s.node THEN Requeued(row.held) ELSE row
     /\ Finish(p)
     /\ UNCHANGED <<now, pool, charged, served, reports>>

RequeueSettling(p) ==
  LET s == k[p].s
      settle == s.st = "running" /\ s.lb # Never /\ s.held > 0
  IN /\ k[p].pc = "requeueSettling"
     /\ IF row.st = s.st /\ row.node = s.node /\ (settle => Settleable(s))
        THEN /\ row' = Requeued(IF settle THEN 0 ELSE row.held)
             /\ IF settle THEN Go(p, "partCharge") ELSE Finish(p)
        ELSE row' = row /\ Finish(p)
     /\ UNCHANGED <<now, pool, charged, served, reports>>

PartCharge(p) ==
  /\ k[p].pc = "partCharge"
  /\ Charge(Due(k[p].s))
  /\ Go(p, "topUp")
  /\ UNCHANGED <<now, row, served, reports>>

\* The hold is topped up to a full hour, or the row ends.
TopUp(p) ==
  /\ k[p].pc = "topUp"
  /\ IF CanHold(Due(k[p].s))
     THEN pool' = Held(Due(k[p].s)) /\ Go(p, "putFull")
     ELSE pool' = pool /\ Go(p, "putRest")
  /\ UNCHANGED <<now, row, charged, served, reports>>

PutFull(p) ==
  LET full == k[p].s.held
  IN /\ k[p].pc = "putFull"
     /\ IF MayCarry({"queued", "assigned", "running"})
        THEN row' = [row EXCEPT !.held = full] /\ pool' = pool
        ELSE row' = row /\ pool' = Released(full)
     /\ Finish(p)
     /\ UNCHANGED <<now, charged, served, reports>>

PutRest(p) ==
  LET rest == k[p].s.held - Due(k[p].s)
  IN /\ k[p].pc = "putRest"
     /\ IF MayCarry({"queued"})
        THEN /\ row' = [row EXCEPT !.held = rest] /\ pool' = pool
             /\ k' = [k EXCEPT ![p].pc = "endBroke",
                       ![p].s = [@ EXCEPT !.st = "queued", !.node = None, !.held = rest, !.lb = Never]]
        ELSE row' = row /\ pool' = Released(rest) /\ Go(p, "endFresh")
     /\ UNCHANGED <<now, charged, served, reports>>

-----------------------------------------------------------------------------
(* Placement, reports and probes, as far as they move the clock. *)

Claim(n) ==
  /\ row.st = "queued"
  /\ row' = [row EXCEPT !.st = "assigned", !.node = n]
  /\ UNCHANGED <<now, pool, charged, served, reports, k>>

\* The node reports it running: the clock starts.
ReportRunning ==
  /\ row.st = "assigned"
  /\ row' = [row EXCEPT !.st = "running", !.lb = now, !.fails = 0]
  /\ UNCHANGED <<now, pool, charged, served, reports, k>>

ProbeBegin(p) ==
  /\ k[p].pc = "idle" /\ row.st \in {"running", "unreachable"} /\ row.lp < now
  /\ \E pc \in {"probeOk", "probeFail", "probeNone"} : Snapshot(p, pc)
  /\ UNCHANGED <<now, row, pool, charged, served, reports>>

\* reportProblem, with a probe that passes or fails
ReportBegin(p) ==
  /\ k[p].pc = "idle" /\ row.st \in {"running", "unreachable"} /\ reports < MaxReports
  /\ reports' = reports + 1
  /\ \E pc \in {"probeOk", "forgive"} : Snapshot(p, pc)
  /\ UNCHANGED <<now, row, pool, charged, served>>

\* Mutant of Unserved: an outage is charged like any other time.
UnservedNothing(s) == 0

\* Mutant of Unserved: the time since the epoch.
UnservedSinceZero(s) == now

\* time since the last passing probe, or the last bill if later
Unserved(s) == IF s.lb = Never THEN 0 ELSE Later(0, now - Later(s.lb, s.ok))

\* Mutant of StillDown: a probe revives a row that has ended.
StillDownOrEnded == row.st \notin {"queued", "assigned"}

StillDown == row.st = "unreachable"

\* A passing probe: billing resumes where the outage began.
ProbeOk(p) ==
  LET s == k[p].s
  IN /\ k[p].pc = "probeOk"
     /\ row' = IF s.st = "running" THEN [row EXCEPT !.ok = now, !.lp = now, !.fails = 0]
               ELSE IF StillDown
                    THEN [row EXCEPT !.st = "running", !.ok = now, !.lp = now, !.fails = 0,
                                     !.lb = IF s.lb = Never THEN now ELSE s.lb + Unserved(s)]
                    ELSE row
     /\ Finish(p)
     /\ UNCHANGED <<now, pool, charged, served, reports>>

\* Inconclusive (at most INCONCLUSIVE_MAX - 1 in a row, a count the model drops).
ProbeNone(p) ==
  /\ k[p].pc = "probeNone"
  /\ row' = [row EXCEPT !.lp = now]
  /\ Finish(p)
  /\ UNCHANGED <<now, pool, charged, served, reports>>

\* A failure; one too many makes it unreachable, or sends it (a replica) back
\* to the queue.
ProbeFail(p) ==
  LET s == k[p].s
      tooMany == s.st = "running" /\ s.fails + 1 >= ProbeFails
      failed == [row EXCEPT !.lp = now, !.fails = s.fails + 1, !.st = IF tooMany THEN "unreachable" ELSE @]
  IN /\ k[p].pc = "probeFail"
     /\ \/ row' = (IF row.st = s.st THEN failed ELSE row) /\ Finish(p)
        \/ tooMany /\ row' = row /\ Go(p, "requeueSettling")
     /\ UNCHANGED <<now, pool, charged, served, reports>>

\* reportProblem: a failing check now, so the time since the last good one is
\* not charged; then it counts as a failure.
Forgive(p) ==
  LET s == k[p].s
      lb == s.lb + Unserved(s)
  IN /\ k[p].pc = "forgive"
     /\ IF s.st = "running" /\ row.st = "running" /\ row.lb = s.lb
        THEN row' = [row EXCEPT !.lb = lb] /\ k' = [k EXCEPT ![p].pc = "probeFail", ![p].s = [s EXCEPT !.lb = lb]]
        ELSE row' = row /\ Go(p, "probeFail")
     /\ UNCHANGED <<now, pool, charged, served, reports>>

Tick ==
  /\ now < MaxNow /\ \A p \in Requests : k[p].pc = "idle"
  /\ now' = now + 1
  /\ served' = served + IF row.st = "running" THEN 1 ELSE 0
  /\ UNCHANGED <<row, pool, charged, reports, k>>

Step(p) ==
  \/ BillBegin(p) \/ BillClaim(p) \/ BillCharge(p) \/ BillRehold(p) \/ BillPut(p) \/ Backstop(p) \/ BackstopPut(p)
  \/ EndBegin(p) \/ EndFresh(p) \/ End(p) \/ Settle(p) \/ Resnap(p) \/ SettleCharge(p) \/ SettleRelease(p)
  \/ RequeueBegin(p) \/ Requeue(p) \/ RequeueSettling(p) \/ PartCharge(p) \/ TopUp(p) \/ PutFull(p) \/ PutRest(p)
  \/ ProbeBegin(p) \/ ReportBegin(p) \/ ProbeOk(p) \/ ProbeNone(p) \/ ProbeFail(p) \/ Forgive(p)

Next == (\E p \in Requests : Step(p)) \/ (\E n \in Nodes : Claim(n)) \/ ReportRunning \/ Tick

Spec == Init /\ [][Next]_vars

-----------------------------------------------------------------------------
(* Properties. *)

Rows == [st : {"queued"} \cup Live \cup Ended, node : Nodes \cup {None}, held : 0..Price,
         lb : -1..MaxNow, ok : -1..MaxNow, lp : -1..MaxNow, fails : Nat]

TypeOK ==
  /\ now \in 0..MaxNow /\ served \in 0..MaxNow /\ charged \in 0..Credits
  /\ row \in Rows /\ reports \in 0..MaxReports
  /\ pool \in [avail : 0..Credits, held : 0..Credits]

\* what a request at pc has taken off the row, or holds and has not yet put on it
InHand(pc, s) ==
  CASE pc \in {"charge", "put", "putBack"} -> Price
    [] pc \in {"settleCharge", "partCharge", "putFull"} -> s.held
    [] pc \in {"settleRelease", "topUp", "putRest"} -> s.held - Due(s)
    [] OTHER -> 0

inHand == [p \in Requests |-> InHand(k[p].pc, k[p].s)]

\* held_ucld and the owner's pool agree, whatever is under way: no hold is
\* settled twice, and no credit appears or is lost (settleHold, bill, settleElapsed).
MoneyExact ==
  /\ pool.held = row.held + SumFunctionOnSet(inHand, Requests)
  /\ pool.avail + pool.held + charged = Credits

\* The owner never pays for more time than the deployment was running, however
\* bills, settlements, outages and re-queues interleave.
NeverOvercharged == charged * Hour <= served * Price

\* What has ended stays ended: no late probe, report or re-queue revives it.
EndedIsFinal == [][row.st \in Ended => row'.st \in Ended]_vars

\* deployments.service: held_ucld tracks what is held "so a hold is settled
\* exactly once"; nothing is left on a row that has ended.
EndedHoldsNothing ==
  row.st \in Ended /\ (\A p \in Requests : k[p].pc = "idle") => row.held = 0
=============================================================================
