------------------------------ MODULE WorkJobs ------------------------------
(***************************************************************************)
(* The paid work jobs of the orchestrator (jobs.service.ts), the customer's *)
(* hold that pays for them (balance.service.ts), the reward entries and     *)
(* claws they leave (ledger.service.ts) and the node binding and state they *)
(* depend on (nodes.service.ts).                                           *)
(*                                                                         *)
(* Every D1 statement, and every D1 batch, is one atomic step: D1 runs a    *)
(* batch as a transaction.  A handler that awaits between two statements    *)
(* keeps what it has read in h[r] and other handlers run in between.  The   *)
(* column value NULL is 0 (times and sigmas start at 1) or None.  One       *)
(* customer owns all jobs.                                                  *)
(***************************************************************************)
EXTENDS Integers, FiniteSetsExt

CONSTANTS
  None,          \* NULL where a job, a node or a wallet could be
  Jobs,          \* job ids
  Challenge,     \* the jobs of a challenge-mode work type (int8-mlp, int8-model)
  Protocol,      \* the jobs issueProtocolWork creates: matmul, price 0
  Misfit,        \* challenge jobs whose own data does not fit their plan
  Price,         \* Price[j]: the fee of job j
  Nodes,
  Cheaters,      \* the nodes that may submit work they did not do
  FleetNodes,    \* the nodes bound through a fleet token
  Wallets,
  Handlers,      \* request slots: handlers in flight at the same time
  Operator,      \* what owners and operators do in this instance
  Credits,       \* what the customer has deposited
  MaxAttempts,   \* MAX_JOB_ATTEMPTS
  AssignTTL,     \* ASSIGNMENT_TTL_SECONDS
  ChallengeTTL,  \* CHALLENGE_TTL_SECONDS
  Grace,         \* SWEEP_GRACE_MS
  EpochLen,      \* EPOCH_SECONDS
  PayHold,       \* PAY_HOLD_SECONDS
  MaxNow,        \* bound: the clock stops here
  MaxDraws,      \* bound: assignments of one job
  MaxFaults      \* bound: handlers lost half-way

ASSUME WorkJobsAssumption ==
  /\ IsFiniteSet(Jobs) /\ IsFiniteSet(Handlers)
  /\ Challenge \subseteq Jobs /\ Protocol \subseteq Jobs \ Challenge
  /\ Misfit \subseteq Challenge
  /\ Price \in [Jobs -> Nat] /\ \A j \in Protocol : Price[j] = 0
  /\ Cheaters \subseteq Nodes /\ FleetNodes \subseteq Nodes
  /\ None \notin Jobs \cup Nodes \cup Wallets
  /\ Operator \subseteq {"unbind", "bind", "drain", "suspend", "lift", "claw", "reverse"}
  /\ Credits \in Nat /\ MaxAttempts \in Nat \ {0}
  /\ AssignTTL \in Nat /\ ChallengeTTL \in Nat /\ Grace \in Nat
  /\ EpochLen \in Nat \ {0} /\ PayHold \in Nat
  /\ PayHold = 0 \/ PayHold >= EpochLen           \* checked by config/env.ts
  /\ MaxNow \in Nat /\ MaxDraws \in Nat /\ MaxFaults \in Nat

VARIABLES
  now,      \* the wall clock
  job,      \* work_jobs
  bal,      \* the customer's balances row: spendable and held
  node,     \* nodes: state and payout wallet
  pay,      \* reward_entries: the provider's A and B entries of a job, as one
  claws,    \* reward_claws: <<entry's job, failed job>>
  opClaw,   \* history: the entries an operator's clawEntry took
  closed,   \* epochs: the ids of the closed epochs
  draws,    \* assignments so far of a job: the next one's sigma is fresh
  given,    \* history: <<node, job, sigma>> handed out by a heartbeat
  h,        \* what each handler in flight has read
  faults    \* handlers lost so far

vars == <<now, job, bal, node, pay, claws, opClaw, closed, draws, given, h, faults>>

-----------------------------------------------------------------------------
(* Rows and types. *)

NoJob == [st |-> "absent", node |-> None, sigma |-> 0, exp |-> 0,
          committed |-> FALSE, z |-> 0, chal |-> 0, cpay |-> None,
          attempts |-> 0, cap |-> 0, sample |-> "none"]

NoPay == [st |-> "none", to |-> None, epoch |-> 0]

Free == [pc |-> "idle", job |-> None, node |-> None, now |-> 0, work |-> 0,
         row |-> NoJob, payout |-> None, queue |-> {}, pool |-> {}]

JobRows ==
  [st : {"absent", "queued", "assigned", "done", "failed"},
   node : Nodes \cup {None},
   sigma : Nat,                      \* the nonce of the assignment
   exp : Nat,                        \* expires_at
   committed : BOOLEAN,              \* commitment_json IS NOT NULL
   z : Nat,                          \* cert_z, as the sigma it binds
   chal : Nat,                       \* challenge_expires_at
   cpay : Wallets \cup {None},       \* commit_payout
   attempts : Nat,
   cap : Nat,                        \* fee_captured_at
   sample : {"none", "passed", "failed", "reversed"}]

PayRows == [st : {"none", "pending", "clawed", "posted"},
            to : Wallets \cup {None}, epoch : Nat]

NodeRows == [state : {"active", "draining", "suspended"},
             payout : Wallets \cup {None}]

HandlerRows ==
  [pc : {"idle", "insert", "assign", "read", "draw", "load", "verify",
         "answer", "sweep", "refund"},
   job : Jobs \cup {None}, node : Nodes \cup {None}, now : Nat, work : Nat,
   row : JobRows, payout : Wallets \cup {None},
   queue : SUBSET Jobs, pool : SUBSET Nodes]

Init ==
  /\ now = 1
  /\ job = [j \in Jobs |-> NoJob]
  /\ bal = [spend |-> Credits, held |-> 0]
  /\ node \in [Nodes -> [state : {"active"}, payout : Wallets]]
  /\ pay = [j \in Jobs |-> NoPay]
  /\ claws = {} /\ opClaw = {} /\ closed = {}
  /\ draws = [j \in Jobs |-> 0]
  /\ given = {}
  /\ h = [r \in Handlers |-> Free]
  /\ faults = 0

-----------------------------------------------------------------------------
(* Balances: each is one UPDATE with its condition. *)

CanHold(x) == bal.spend >= x
Hold(x) == bal' = [spend |-> bal.spend - x, held |-> bal.held + x]

\* Mutant of Refunded: the refund is forgotten.
RefundForgotten(x) == bal

\* release, and the refund statement of caughtChallenge: nothing if not held.
Refunded(x) ==
  IF bal.held >= x THEN [spend |-> bal.spend + x, held |-> bal.held - x] ELSE bal

-----------------------------------------------------------------------------
(* Guards the statements share. *)

\* WHERE id = ? AND status = 'assigned' AND node = ?
StillAssigned(j, n) == job[j].st = "assigned" /\ job[j].node = n

\* Mutant of Cleared: a status no reader of work_jobs knows.
ClearedToUnknown(row) ==
  [row EXCEPT !.st = "expired", !.node = None, !.sigma = 0, !.exp = 0]

\* CLEAR_ASSIGNMENT
Cleared(row) ==
  [row EXCEPT !.st = "queued", !.node = None, !.sigma = 0, !.exp = 0]

End(r) == h' = [h EXCEPT ![r] = Free]
ThenRefund(r, j) == h' = [h EXCEPT ![r] = [Free EXCEPT !.pc = "refund", !.job = j]]

epochOf(t) == t \div EpochLen

\* jobBooking
BookingEpoch(t) == IF PayHold = 0 THEN epochOf(t) ELSE epochOf(t + PayHold) + 1

-----------------------------------------------------------------------------
(* enqueueWorkJob: the hold, the INSERT, then an assignment pass. *)

EnqueueHold(r, j) ==
  /\ h[r].pc = "idle"
  /\ j \notin Protocol /\ job[j].st = "absent"
  /\ \A s \in Handlers : h[s].job # j
  /\ CanHold(Price[j])
  /\ Hold(Price[j])
  /\ h' = [h EXCEPT ![r] = [Free EXCEPT !.pc = "insert", !.job = j]]
  /\ UNCHANGED <<now, job, node, pay, claws, opClaw, closed, draws, given, faults>>

EnqueueInsert(r) ==
  /\ h[r].pc = "insert"
  /\ job' = [job EXCEPT ![h[r].job].st = "queued"]
  /\ h' = [h EXCEPT ![r] = [Free EXCEPT !.pc = "assign"]]
  /\ UNCHANGED <<now, bal, node, pay, claws, opClaw, closed, draws, given, faults>>

\* The INSERT (or the artifact put) throws: challenge mode gives the hold back,
\* matmul has no handler for it and the hold stays.
EnqueueFails(r) ==
  /\ h[r].pc = "insert" /\ faults < MaxFaults
  /\ faults' = faults + 1
  /\ IF h[r].job \in Challenge THEN ThenRefund(r, h[r].job) ELSE End(r)
  /\ UNCHANGED <<now, job, bal, node, pay, claws, opClaw, closed, draws, given>>

\* The nodes that could be drawn: bound, active and without an assignment.
Idle == {n \in Nodes : /\ node[n].state = "active" /\ node[n].payout # None
                       /\ \A j \in Jobs : ~ StillAssigned(j, n)}

\* issueProtocolWork: while no user job is queued, a free job for each idle node
\* that has none queued for it; one nobody took is dropped.
IssueProtocol(j) ==
  /\ j \in Protocol /\ job[j].st = "absent" /\ draws[j] = 0
  /\ \A k \in Jobs \ Protocol : job[k].st # "queued"
  /\ Cardinality(Idle) > Cardinality({k \in Protocol : job[k].st = "queued"})
  /\ job' = [job EXCEPT ![j].st = "queued"]
  /\ UNCHANGED <<now, bal, node, pay, claws, opClaw, closed, draws, given, h, faults>>

DropProtocol(j) ==
  /\ j \in Protocol /\ job[j].st = "queued"
  /\ job' = [job EXCEPT ![j] = NoJob]
  /\ UNCHANGED <<now, bal, node, pay, claws, opClaw, closed, draws, given, h, faults>>

-----------------------------------------------------------------------------
(* runAssignment, after an enqueue or from the duties cron. *)

\* Expire stale assignments; a job with an open challenge is not re-queued.
AssignExpire(r) ==
  /\ h[r].pc \in {"idle", "assign"}
  /\ job' = [j \in Jobs |->
               IF /\ job[j].st = "assigned" /\ job[j].exp < now
                  /\ job[j].chal = 0
               THEN Cleared(job[j]) ELSE job[j]]
  /\ h' = [h EXCEPT ![r] = [Free EXCEPT !.pc = "read", !.now = now]]
  /\ UNCHANGED <<now, bal, node, pay, claws, opClaw, closed, draws, given, faults>>

\* The queued jobs and the idle live nodes. Which of them were seen lately and
\* run the work type is left open: any subset may be the pool.
AssignRead(r) ==
  /\ h[r].pc = "read"
  /\ LET queued == {j \in Jobs : job[j].st = "queued"}
     IN \E pool \in SUBSET Idle :
          IF queued = {} \/ pool = {}
          THEN End(r)
          ELSE h' = [h EXCEPT ![r].pc = "draw", ![r].queue = queued,
                              ![r].pool = pool]
  /\ UNCHANGED <<now, job, bal, node, pay, claws, opClaw, closed, draws, given, faults>>

\* Mutant of CanAssign: without NOT EXISTS (another assignment of the node).
CanAssignBusy(j, n) == job[j].st = "queued"

\* The conditional UPDATE: still queued, and the node has no other assignment.
CanAssign(j, n) ==
  job[j].st = "queued" /\ \A k \in Jobs : ~ StillAssigned(k, n)

\* One job of the pass, in any order of the queue: a node of the pool is drawn,
\* with a fresh sigma.
AssignDraw(r) ==
  /\ h[r].pc = "draw"
  /\ \E j \in h[r].queue, n \in h[r].pool :
       LET queue == h[r].queue \ {j}
           pool == h[r].pool \ {n}
       IN /\ IF CanAssign(j, n)
             THEN /\ draws[j] < MaxDraws
                  /\ draws' = [draws EXCEPT ![j] = @ + 1]
                  /\ job' = [job EXCEPT ![j].st = "assigned", ![j].node = n,
                                        ![j].sigma = draws[j] + 1,
                                        ![j].exp = h[r].now + AssignTTL]
             ELSE UNCHANGED <<draws, job>>
          /\ IF queue = {} \/ pool = {}
             THEN End(r)
             ELSE h' = [h EXCEPT ![r].queue = queue, ![r].pool = pool]
  /\ UNCHANGED <<now, bal, node, pay, claws, opClaw, closed, given, faults>>

\* No node of the pool fits the job: it stays queued.
AssignSkip(r) ==
  /\ h[r].pc = "draw"
  /\ \E j \in h[r].queue :
       IF h[r].queue = {j} THEN End(r)
       ELSE h' = [h EXCEPT ![r].queue = @ \ {j}]
  /\ UNCHANGED <<now, job, bal, node, pay, claws, opClaw, closed, draws, given, faults>>

\* getActiveAssignment: the heartbeat hands the node its assignment.
Deliver(n, j) ==
  /\ StillAssigned(j, n) /\ job[j].exp >= now /\ job[j].chal = 0
  /\ given' = given \cup {<<n, j, job[j].sigma>>}
  /\ UNCHANGED <<now, job, bal, node, pay, claws, opClaw, closed, draws, h, faults>>

-----------------------------------------------------------------------------
(* The claw of a failed check (caughtStatements), on the entries as the      *)
(* statements before it in the batch left them.                              *)

\* Mutant of Covered: an entry clawed another way is covered too.
CoveredAny(j, n, wallet, t, entries) ==
  {e \in Jobs :
     /\ entries[e].st # "none" /\ entries[e].epoch > epochOf(t)
     /\ entries[e].to = wallet \/ e = j \/ (job[e].node = n /\ job[e].st = "done")
     /\ entries[e].st \in {"pending", "clawed"}}

Covered(j, n, wallet, t, entries) ==
  {e \in Jobs :
     /\ entries[e].st # "none" /\ entries[e].epoch > epochOf(t)
     /\ \/ entries[e].to = wallet
        \/ e = j
        \/ job[e].node = n /\ job[e].st = "done"
     /\ \/ entries[e].st = "pending"
        \/ e = j
        \/ entries[e].st = "clawed" /\ \E c \in Jobs : <<e, c>> \in claws}

ClawsWith(j, n, wallet, t, entries) ==
  claws \cup {<<e, j>> : e \in Covered(j, n, wallet, t, entries)}

\* Pending entries with a claw row of this job are clawed.
ClawedBy(j, n, wallet, t, entries) ==
  [e \in Jobs |->
     IF /\ entries[e].st = "pending"
        /\ <<e, j>> \in ClawsWith(j, n, wallet, t, entries)
     THEN [entries[e] EXCEPT !.st = "clawed"] ELSE entries[e]]

Suspend(n) == node' = [node EXCEPT ![n].state = "suspended"]

-----------------------------------------------------------------------------
(* submitWork *)

\* The guard columns: a job already committed, finished, expired or someone
\* else's is refused here (or its stored challenge returned) and nothing changes.
SubmitGuard(n, j) ==
  /\ ~ job[j].committed
  /\ StillAssigned(j, n) /\ job[j].exp >= now

\* A node submits work it did for a sigma it was given, now or earlier: a
\* repeated or delayed request submits an old one.
Submit(r, n, j, w) ==
  /\ h[r].pc = "idle"
  /\ <<n, j, w>> \in given
  /\ SubmitGuard(n, j)
  /\ h' = [h EXCEPT ![r] = [Free EXCEPT !.pc = "load", !.job = j, !.node = n,
                                        !.now = now, !.work = w]]
  /\ UNCHANGED <<now, job, bal, node, pay, claws, opClaw, closed, draws, given, faults>>

\* getNode and getWorkJob: the rows the rest of the handler works from.
SubmitLoad(r) ==
  LET j == h[r].job
      p == node[h[r].node].payout
  IN /\ h[r].pc = "load"
     /\ IF p = None \/ job[j].st = "absent" THEN End(r)
        ELSE h' = [h EXCEPT ![r].pc = "verify", ![r].row = job[j], ![r].payout = p]
     /\ UNCHANGED <<now, job, bal, node, pay, claws, opClaw, closed, draws, given, faults>>

\* The work binds the sigma of the row that was read.
Binds(r) == h[r].work = h[r].row.sigma

\* Mutants of Refuse: the refund does not look at what the UPDATE changed; the
\* UPDATE does not look at the job's status.
RefuseAlwaysRefunds(r) ==
  LET j == h[r].job
      giveUp == h[r].row.attempts + 1 >= MaxAttempts
      row == [job[j] EXCEPT !.attempts = @ + 1]
      next == IF giveUp THEN [row EXCEPT !.st = "failed", !.exp = 0] ELSE Cleared(row)
  IN /\ job' = IF StillAssigned(j, h[r].node) THEN [job EXCEPT ![j] = next] ELSE job
     /\ IF giveUp THEN ThenRefund(r, j) ELSE End(r)

RefuseAnyStatus(r) ==
  LET j == h[r].job
      row == [job[j] EXCEPT !.attempts = @ + 1]
  IN job' = [job EXCEPT ![j] = Cleared(row)] /\ End(r)

\* refuse: re-queued, or failed for good at MaxAttempts; the refund is a
\* statement of its own, after the batch.
Refuse(r) ==
  LET j == h[r].job
      giveUp == h[r].row.attempts + 1 >= MaxAttempts
      row == [job[j] EXCEPT !.attempts = @ + 1]
  IN IF StillAssigned(j, h[r].node)
     THEN IF giveUp
          THEN /\ job' = [job EXCEPT ![j] = [row EXCEPT !.st = "failed", !.exp = 0]]
               /\ ThenRefund(r, j)
          ELSE /\ job' = [job EXCEPT ![j] = Cleared(row)]
               /\ End(r)
     ELSE End(r) /\ UNCHANGED job

\* Mutants of BookVerified: the entries without the guard on the capture;
\* the capture of the fee without the guard on the assignment.
BookVerifiedAnyway(r, to, z, sample, caught) ==
  LET j == h[r].job
      still == StillAssigned(j, h[r].node)
      auth == still /\ job[j].cap = 0 /\ bal.held >= Price[j]
      entry == [st |-> "pending", to |-> to, epoch |-> BookingEpoch(h[r].now)]
  IN /\ bal' = IF auth THEN [bal EXCEPT !.held = @ - Price[j]] ELSE bal
     /\ pay' = [pay EXCEPT ![j] = entry]
     /\ job' = IF still THEN [job EXCEPT ![j].st = "done", ![j].z = z,
                                         ![j].cap = IF auth THEN h[r].now ELSE @]
               ELSE job
     /\ End(r) /\ UNCHANGED <<claws, node>>

BookVerifiedCaptureTwice(r, to, z, sample, caught) ==
  LET j == h[r].job
      still == StillAssigned(j, h[r].node)
      auth == still /\ job[j].cap = 0 /\ bal.held >= Price[j]
      cap == IF auth THEN h[r].now ELSE job[j].cap
      entry == [st |-> "pending", to |-> to, epoch |-> BookingEpoch(h[r].now)]
  IN /\ bal' = IF cap = h[r].now /\ bal.held >= Price[j]
               THEN [bal EXCEPT !.held = @ - Price[j]] ELSE bal
     /\ pay' = IF auth THEN [pay EXCEPT ![j] = entry] ELSE pay
     /\ job' = IF still THEN [job EXCEPT ![j].st = "done", ![j].cap = cap, ![j].z = z]
               ELSE job
     /\ End(r) /\ UNCHANGED <<claws, node>>

\* bookVerified, one batch: authorise the fee on the row, capture it and write
\* the entries only if that happened at this instant and the job is still the
\* node's, then (caught) claw and suspend, then done.
BookVerified(r, to, z, sample, caught) ==
  LET j == h[r].job
      n == h[r].node
      t == h[r].now
      still == StillAssigned(j, n)
      auth == still /\ job[j].cap = 0 /\ bal.held >= Price[j]
      cap == IF auth THEN t ELSE job[j].cap
      paid == still /\ cap = t
      entry == [st |-> IF caught THEN "clawed" ELSE "pending",
                to |-> to, epoch |-> BookingEpoch(t)]
      entries == IF paid THEN [pay EXCEPT ![j] = entry] ELSE pay
  IN /\ bal' = IF paid /\ bal.held >= Price[j]
               THEN [bal EXCEPT !.held = @ - Price[j]] ELSE bal
     /\ IF caught /\ still
        THEN /\ claws' = ClawsWith(j, n, to, t, entries)
             /\ pay' = ClawedBy(j, n, to, t, entries)
             /\ Suspend(n)
        ELSE pay' = entries /\ UNCHANGED <<claws, node>>
     /\ job' = IF still
               THEN [job EXCEPT ![j].st = "done", ![j].cap = cap, ![j].z = z,
                                ![j].sample = sample]
               ELSE job
     /\ End(r)

\* submitInline: the cheap checks on every job, the transcript on a sampled one.
\* Work for another sigma, and a cheater's wrong result, is refused; a cheater's
\* right result with a wrong transcript is caught when sampled.
SubmitInline(r) ==
  /\ h[r].pc = "verify" /\ h[r].job \notin Challenge
  /\ \/ /\ Binds(r)
        /\ \E sample \in {"none", "passed"} :
             BookVerified(r, h[r].payout, h[r].work, sample, FALSE)
     \/ /\ Binds(r) /\ h[r].node \in Cheaters
        /\ BookVerified(r, h[r].payout, h[r].work, "failed", TRUE)
     \/ /\ ~ Binds(r) \/ h[r].node \in Cheaters
        /\ Refuse(r)
        /\ UNCHANGED <<bal, node, pay, claws>>
  /\ UNCHANGED <<now, opClaw, closed, draws, given, faults>>

\* submitCommitment: bound, the commitment, the draw and the deadline land in
\* one conditional write; not bound, it is refused.
StoreCommitment(r) ==
  LET j == h[r].job
      deadline == h[r].now + ChallengeTTL
  IN job' = IF /\ StillAssigned(j, h[r].node) /\ ~ job[j].committed
               /\ job[j].sigma = h[r].row.sigma /\ job[j].exp >= h[r].now
            THEN [job EXCEPT ![j].committed = TRUE, ![j].z = h[r].work,
                             ![j].chal = deadline, ![j].exp = deadline,
                             ![j].cpay = h[r].payout]
            ELSE job

SubmitCommitment(r) ==
  /\ h[r].pc = "verify" /\ h[r].job \in Challenge
  /\ \/ Binds(r) /\ StoreCommitment(r) /\ End(r)
     \/ (~ Binds(r) \/ h[r].node \in Cheaters) /\ Refuse(r)
  /\ UNCHANGED <<now, bal, node, pay, claws, opClaw, closed, draws, given, faults>>

-----------------------------------------------------------------------------
(* answerChallenge and sweepChallenges *)

\* The guard and the row: the node that did the committed work answers.
Answer(r, n, j) ==
  /\ h[r].pc = "idle"
  /\ StillAssigned(j, n) /\ job[j].committed
  /\ <<n, j, job[j].z>> \in given
  /\ h' = [h EXCEPT ![r] = [Free EXCEPT !.pc = "answer", !.job = j, !.node = n,
                              !.now = now, !.row = job[j],
                              !.payout = node[n].payout]]
  /\ UNCHANGED <<now, job, bal, node, pay, claws, opClaw, closed, draws, given, faults>>

\* The wallet a challenge is paid to or clawed from: the one stored with the
\* commitment, else the one the node is bound to.  Mutant: the node's only.
CurrentWallet(r) == h[r].payout
ChallengeWallet(r) == IF h[r].row.cpay # None THEN h[r].row.cpay ELSE h[r].payout

\* caughtChallenge, one batch: claw, suspend, refund, fail.
CaughtChallenge(r) ==
  LET j == h[r].job
      n == h[r].node
      wallet == ChallengeWallet(r)
  IN /\ IF StillAssigned(j, n)
        THEN /\ IF wallet # None
                THEN /\ claws' = ClawsWith(j, n, wallet, h[r].now, pay)
                     /\ pay' = ClawedBy(j, n, wallet, h[r].now, pay)
                ELSE UNCHANGED <<claws, pay>>
             /\ Suspend(n)
             /\ bal' = Refunded(Price[j])
             /\ job' = [job EXCEPT ![j].st = "failed", ![j].sample = "failed",
                                   ![j].exp = 0, ![j].chal = 0]
        ELSE UNCHANGED <<claws, pay, node, bal, job>>
     /\ End(r)

\* The job does not fit its own plan: failed, then refunded, nobody blamed.
AnswerMisfit(r) ==
  LET j == h[r].job
  IN IF StillAssigned(j, h[r].node)
     THEN /\ job' = [job EXCEPT ![j].st = "failed", ![j].exp = 0, ![j].chal = 0]
          /\ ThenRefund(r, j)
     ELSE End(r) /\ UNCHANGED job

AnswerChallenge(r) ==
  LET late == h[r].row.chal < h[r].now
      to == ChallengeWallet(r)
  IN /\ h[r].pc = "answer"
     /\ \/ /\ late \/ h[r].node \in Cheaters
           /\ CaughtChallenge(r)
        \/ /\ ~ late /\ h[r].job \in Misfit
           /\ AnswerMisfit(r)
           /\ UNCHANGED <<bal, node, pay, claws>>
        \/ /\ ~ late /\ h[r].job \notin Misfit
           /\ IF to = None THEN End(r) /\ UNCHANGED <<bal, node, pay, claws, job>>
              ELSE BookVerified(r, to, h[r].row.z, "passed", FALSE)
     /\ UNCHANGED <<now, opClaw, closed, draws, given, faults>>

\* sweepChallenges, cron: a row it selects, then its catch.
\* Mutant of Overdue: the challenge of a node that has been unbound is not swept.
OverdueBound(j) ==
  /\ job[j].st = "assigned" /\ job[j].chal # 0 /\ job[j].chal + Grace < now
  /\ node[job[j].node].payout # None

Overdue(j) == job[j].st = "assigned" /\ job[j].chal # 0 /\ job[j].chal + Grace < now

SweepRead(r, j) ==
  /\ h[r].pc = "idle" /\ Overdue(j)
  /\ h' = [h EXCEPT ![r] = [Free EXCEPT !.pc = "sweep", !.job = j,
                              !.node = job[j].node, !.now = now, !.row = job[j],
                              !.payout = node[job[j].node].payout]]
  /\ UNCHANGED <<now, job, bal, node, pay, claws, opClaw, closed, draws, given, faults>>

SweepCatch(r) ==
  /\ h[r].pc = "sweep"
  /\ CaughtChallenge(r)
  /\ UNCHANGED <<now, opClaw, closed, draws, given, faults>>

\* The release that follows a batch which failed a job for good.
ReleaseHold(r) ==
  /\ h[r].pc = "refund"
  /\ bal' = Refunded(Price[h[r].job])
  /\ End(r)
  /\ UNCHANGED <<now, job, node, pay, claws, opClaw, closed, draws, given, faults>>

\* The isolate is evicted or a statement throws: the handler goes no further.
Lose(r) ==
  /\ h[r].pc # "idle" /\ faults < MaxFaults
  /\ faults' = faults + 1
  /\ End(r)
  /\ UNCHANGED <<now, job, bal, node, pay, claws, opClaw, closed, draws, given>>

-----------------------------------------------------------------------------
(* Nodes, operators, epochs and the clock. *)

\* unbindFleetNodes at any time; unbindOwnNode not while a challenge is open.
Unbind(n) ==
  /\ "unbind" \in Operator /\ node[n].payout # None
  /\ \/ n \in FleetNodes
     \/ \A j \in Jobs : ~ (StillAssigned(j, n) /\ job[j].chal # 0)
  /\ node' = [node EXCEPT ![n].payout = None]
  /\ UNCHANGED <<now, job, bal, pay, claws, opClaw, closed, draws, given, h, faults>>

\* bindNode, bindNodeToFleet: only an unbound node.
Bind(n, w) ==
  /\ "bind" \in Operator /\ node[n].payout = None
  /\ node' = [node EXCEPT ![n].payout = w]
  /\ UNCHANGED <<now, job, bal, pay, claws, opClaw, closed, draws, given, h, faults>>

\* setOwnNodeDraining: one conditional write that never lifts a suspension.
Drain(n, s) ==
  /\ "drain" \in Operator /\ s \in {"active", "draining"}
  /\ node[n].payout # None /\ node[n].state # "suspended"
  /\ node' = [node EXCEPT ![n].state = s]
  /\ UNCHANGED <<now, job, bal, pay, claws, opClaw, closed, draws, given, h, faults>>

\* setNodeSuspended, by an admin.
AdminSuspend(n) ==
  /\ "suspend" \in Operator
  /\ Suspend(n)
  /\ UNCHANGED <<now, job, bal, pay, claws, opClaw, closed, draws, given, h, faults>>

AdminLift(n) ==
  /\ "lift" \in Operator
  /\ node' = [node EXCEPT ![n].state = "active"]
  /\ UNCHANGED <<now, job, bal, pay, claws, opClaw, closed, draws, given, h, faults>>

\* clawEntry: an operator claws one pending entry.
ClawEntry(e) ==
  /\ "claw" \in Operator /\ pay[e].st = "pending"
  /\ pay' = [pay EXCEPT ![e].st = "clawed"]
  /\ opClaw' = opClaw \cup {e}
  /\ UNCHANGED <<now, job, bal, node, claws, closed, draws, given, h, faults>>

\* reverseSampleClaw: what this failed check alone took goes back to pending,
\* unless its epoch has opened; its claw rows go.
\* Mutant of Restorable: another failed check's claim on the entry is ignored.
RestorableAlways(e, c) ==
  pay[e].st = "clawed" /\ pay[e].epoch > epochOf(now) /\ <<e, c>> \in claws

Restorable(e, c) ==
  /\ pay[e].st = "clawed" /\ pay[e].epoch > epochOf(now)
  /\ <<e, c>> \in claws /\ \A d \in Jobs \ {c} : <<e, d>> \notin claws

ReverseSampleClaw(c) ==
  /\ "reverse" \in Operator /\ job[c].sample \in {"failed", "reversed"}
  /\ pay' = [e \in Jobs |->
               IF Restorable(e, c) THEN [pay[e] EXCEPT !.st = "pending"] ELSE pay[e]]
  /\ claws' = {p \in claws : p[2] # c}
  /\ job' = [job EXCEPT ![c].sample = "reversed"]
  /\ UNCHANGED <<now, bal, node, opClaw, closed, draws, given, h, faults>>

\* The past epochs with a pending entry.  A clawed job's treasury entry is still
\* pending until its epoch closes; protocol work has none.
DueEpochs ==
  {pay[e].epoch : e \in {k \in Jobs :
     /\ pay[k].epoch < epochOf(now)
     /\ \/ pay[k].st = "pending"
        \/ pay[k].st = "clawed" /\ Price[k] > 0 /\ pay[k].epoch \notin closed}}

\* closeEpochs: a past epoch is closed and its entries posted; entries that were
\* booked into one already closed move to the open epoch.
CloseEpochs ==
  /\ DueEpochs # {}
  /\ closed' = closed \cup DueEpochs
  /\ pay' = [e \in Jobs |->
               IF ~ (pay[e].st = "pending" /\ pay[e].epoch < epochOf(now)) THEN pay[e]
               ELSE IF pay[e].epoch \in closed THEN [pay[e] EXCEPT !.epoch = epochOf(now)]
               ELSE [pay[e] EXCEPT !.st = "posted"]]
  /\ UNCHANGED <<now, job, bal, node, claws, opClaw, draws, given, h, faults>>

Tick ==
  /\ now < MaxNow
  /\ now' = now + 1
  /\ UNCHANGED <<job, bal, node, pay, claws, opClaw, closed, draws, given, h, faults>>

-----------------------------------------------------------------------------
\* The next statement of a handler that is under way.
HandlerStep(r) ==
  \/ EnqueueInsert(r) \/ (h[r].pc = "assign" /\ AssignExpire(r))
  \/ AssignRead(r) \/ AssignDraw(r) \/ AssignSkip(r)
  \/ SubmitLoad(r) \/ SubmitInline(r) \/ SubmitCommitment(r)
  \/ AnswerChallenge(r) \/ SweepCatch(r) \/ ReleaseHold(r)

Next ==
  \/ \E r \in Handlers :
       \/ \E j \in Jobs : EnqueueHold(r, j)
       \/ EnqueueInsert(r) \/ EnqueueFails(r)
       \/ AssignExpire(r) \/ AssignRead(r) \/ AssignDraw(r) \/ AssignSkip(r)
       \/ \E n \in Nodes, j \in Jobs, w \in 1..MaxDraws : Submit(r, n, j, w)
       \/ SubmitLoad(r) \/ SubmitInline(r) \/ SubmitCommitment(r)
       \/ \E n \in Nodes, j \in Jobs : Answer(r, n, j)
       \/ AnswerChallenge(r)
       \/ \E j \in Jobs : SweepRead(r, j)
       \/ SweepCatch(r) \/ ReleaseHold(r) \/ Lose(r)
  \/ \E j \in Jobs : IssueProtocol(j) \/ DropProtocol(j)
  \/ \E n \in Nodes, j \in Jobs : Deliver(n, j)
  \/ \E n \in Nodes : Unbind(n) \/ AdminSuspend(n) \/ AdminLift(n)
  \/ \E n \in Nodes, w \in Wallets : Bind(n, w)
  \/ \E n \in Nodes, s \in {"active", "draining"} : Drain(n, s)
  \/ \E e \in Jobs : ClawEntry(e) \/ ReverseSampleClaw(e)
  \/ CloseEpochs
  \/ Tick

Spec == Init /\ [][Next]_vars

\* A handler that is not lost goes on; the cron selects an overdue row again
\* and again, whatever else is in flight; time passes.
Fairness ==
  /\ \A r \in Handlers : WF_vars(HandlerStep(r))
  /\ \A j \in Jobs : SF_vars(\E r \in Handlers : SweepRead(r, j))
  /\ WF_vars(Tick)

FairSpec == Spec /\ Fairness

-----------------------------------------------------------------------------
(* Properties. *)

\* Every row keeps its type: the job, balance, node, entry and handler rows.
TypeOK ==
  /\ now \in Nat
  /\ job \in [Jobs -> JobRows]
  /\ bal \in [spend : Nat, held : Nat]
  /\ node \in [Nodes -> NodeRows]
  /\ pay \in [Jobs -> PayRows]
  /\ claws \subseteq Jobs \X Jobs
  /\ opClaw \subseteq Jobs /\ closed \subseteq Nat
  /\ draws \in [Jobs -> Nat]
  /\ given \subseteq Nodes \X Jobs \X Nat
  /\ h \in [Handlers -> HandlerRows]
  /\ faults \in Nat

Live(j) == job[j].st \in {"queued", "assigned"}

\* The holds of live jobs, of enqueues not inserted yet and of refunds not made
\* yet are all still there: every capture and release of jobs.service finds the
\* hold it needs, whatever the handlers' order.
Owed == SumFunctionOnSet(Price, {j \in Jobs : Live(j)})
InFlight == {r \in Handlers : h[r].pc \in {"insert", "refund"}}
OwedInFlight == SumFunctionOnSet([r \in InFlight |-> Price[h[r].job]], InFlight)
HoldsCovered == bal.held >= Owed + OwedInFlight

\* The customer's money is spendable, held, or captured by exactly the jobs
\* whose fee_captured_at is set: no fee is captured twice, none refunded after
\* its capture.
Captured == {j \in Jobs : job[j].cap # 0}
CapturedFees == SumFunctionOnSet(Price, Captured)
MoneyConserved == bal.spend + bal.held + CapturedFees = Credits

\* When no handler is under way, what is held is exactly the live jobs' fees.
NoHoldLeftBehind == (\A r \in Handlers : h[r].pc = "idle") => bal.held = Owed

\* The customer's money and the jobs agree, whatever is under way: every hold is
\* covered, nothing stays held for a finished job, and each fee is captured once.
JobMoney == HoldsCovered /\ NoHoldLeftBehind /\ MoneyConserved

\* refuse: after MAX_JOB_ATTEMPTS "a job is failed and its hold released".
FailedJobRefunded ==
  (\E j \in Jobs : job[j].st = "failed") => NoHoldLeftBehind

\* bookVerified: "a fee is never captured without its rewards (nor minted without
\* its capture)", and only a done job's fee is captured.
PaidIffCaptured ==
  \A j \in Jobs : /\ pay[j].st # "none" <=> job[j].cap # 0
                  /\ job[j].cap # 0 => job[j].st = "done"

\* bookVerified: "a missing hold is a bug or tampering": every done job's fee was
\* captured, so no verified work goes unpaid.
DoneIsCaptured == \A j \in Jobs : job[j].st = "done" => job[j].cap # 0

\* runAssignment: overlapping passes never give a node two jobs.
OneJobPerNode ==
  \A j, k \in Jobs : \A n \in Nodes :
     StillAssigned(j, n) /\ StillAssigned(k, n) => j = k

\* A claw row stands for a failed check that has not been reversed and an entry
\* that is clawed: reversing one of two failed checks keeps what the other took.
ClawRowsStand ==
  \A p \in claws : job[p[2]].sample = "failed" /\ pay[p[1]].st = "clawed"

\* An entry an operator clawed stays clawed, whatever checks fail or are reversed.
OperatorClawStands == \A e \in opClaw : pay[e].st = "clawed"

\* However checks fail, are reversed and meet an operator's claw, each clawed entry
\* has the reason that still stands: a failed check, or the operator.
ClawsHold == ClawRowsStand /\ OperatorClawStands

\* answerChallenge: a challenge job pays the wallet its node was bound to when it
\* committed, however the node is unbound and bound while the answer is checked.
PaysCommittedWallet ==
  \A j \in Challenge : job[j].st = "done" => pay[j].to = job[j].cpay

CatchReached ==
  \A j \in Challenge :
    job[j].st = "assigned" /\ job'[j].sample = "failed" =>
      \A e \in Jobs :
        pay[e].to = job[j].cpay /\ pay[e].epoch > epochOf(now) => pay'[e].st # "pending"

\* caughtChallenge: "unbinding (or being unbound by any route) mid-challenge
\* evades nothing": a failed challenge leaves no held pay of the wallet that was
\* stored with the commitment.
CatchReachesWallet == [][CatchReached]_vars

\* nodes.service setNodeSuspended: "suspend (no new work, ...)".
SuspendedGetsNoWork ==
  [][\A j \in Jobs, n \in Nodes :
       ~ StillAssigned(j, n) /\ StillAssigned(j, n)' => node[n].state = "active"]_vars

\* balance.service assertUcld: the amount of a release is positive.
ReleasePositive ==
  \A r \in Handlers : h[r].pc = "refund" => Price[h[r].job] > 0

FinishedKept ==
  \A j \in Jobs : job[j].st \in {"done", "failed"} =>
    /\ job'[j].st = job[j].st /\ job'[j].z = job[j].z /\ job'[j].cap = job[j].cap
    /\ pay'[j].to = pay[j].to

\* A finished job stays finished and its proof, its capture and its pay's wallet
\* are never written again, whichever handlers are still under way with it.
FinishedStays == [][FinishedKept]_vars

\* submitCommitment: "a commitment can never bind a sigma that an
\* expire-and-reassign replaced in between".
CommitmentBindsSigma ==
  \A j \in Jobs :
     job[j].st = "assigned" /\ job[j].committed => job[j].z = job[j].sigma

\* sweepChallenges: an open challenge ends, answered or not, bound or not.
ChallengeEnds ==
  \A j \in Jobs :
     (/\ job[j].st = "assigned" /\ job[j].committed
      /\ job[j].exp + Grace < MaxNow) ~> job[j].st # "assigned"

-----------------------------------------------------------------------------
(* The inductive invariant of WorkJobsProofs. *)

\* What a handler under way still knows: an enqueue's id is its own until the
\* INSERT, and every other handler works on a job and a node that exist.
HandlersOK ==
  \A r \in Handlers :
    /\ h[r].pc = "insert" =>
         /\ h[r].job \in Jobs \ Protocol /\ job[h[r].job].st = "absent"
         /\ \A s \in Handlers \ {r} : h[s].pc = "insert" => h[s].job # h[r].job
    /\ h[r].pc \in {"load", "verify", "answer", "sweep"} =>
         h[r].job \in Jobs /\ h[r].node \in Nodes /\ h[r].now > 0
    /\ h[r].pc = "refund" => h[r].job \in Jobs

\* An assigned job has a node, and only a finished job has a failed check.
JobsOK ==
  \A j \in Jobs :
    /\ job[j].st = "assigned" => job[j].node \in Nodes
    /\ job[j].sample \in {"failed", "reversed"} => job[j].st \in {"done", "failed"}

\* What an operator clawed is under no failed check's claw.
OpClawUncovered == \A e \in opClaw, c \in Jobs : <<e, c>> \notin claws

ClawsOK == ClawRowsStand /\ OpClawUncovered /\ OperatorClawStands

\* The money and the rows agree at every moment; only a handler that was lost
\* leaves a hold nobody owes.
MoneyOK ==
  /\ bal.held >= Owed + OwedInFlight
  /\ faults = 0 => bal.held = Owed + OwedInFlight
  /\ MoneyConserved

\* A commitment keeps the wallet it was stored with, its job is paid to that
\* wallet, and every handler that answers or sweeps a challenge has read it.
CommitRow(j) ==
  /\ job[j].committed => job[j].cpay # None /\ j \in Challenge
  /\ job[j].chal # 0 => job[j].committed
  /\ j \in Challenge /\ job[j].st = "done" =>
       job[j].committed /\ pay[j].to = job[j].cpay

CommitOK ==
  /\ \A j \in Jobs : CommitRow(j)
  /\ \A r \in Handlers :
       /\ h[r].now <= now
       /\ h[r].pc = "verify" => h[r].payout # None
       /\ h[r].pc \in {"answer", "sweep"} =>
            job[h[r].job].committed /\ h[r].row.cpay = job[h[r].job].cpay

IInv == /\ TypeOK /\ now > 0
        /\ HandlersOK /\ JobsOK /\ PaidIffCaptured /\ OneJobPerNode /\ ClawsOK
=============================================================================
