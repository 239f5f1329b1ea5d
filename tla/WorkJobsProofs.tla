--------------------------- MODULE WorkJobsProofs ---------------------------
EXTENDS WorkJobs, Sums

\* The initial rows are rows, and clearing an assignment keeps a row one.
LEMMA Rows ==
  /\ NoJob \in JobRows /\ NoPay \in PayRows /\ Free \in HandlerRows
  /\ \A row \in JobRows : Cleared(row) \in JobRows
BY WorkJobsAssumption DEF NoJob, JobRows, NoPay, PayRows, Free, HandlerRows, Cleared

\* Epoch numbers, booking epochs included, are naturals.
LEMMA EpochNat == \A t \in Nat : epochOf(t) \in Nat /\ BookingEpoch(t) \in Nat
BY WorkJobsAssumption DEF epochOf, BookingEpoch

\* Clawing keeps the entries typed.
LEMMA ClawedType ==
  ASSUME NEW j, NEW n, NEW w, NEW t, NEW entries \in [Jobs -> PayRows]
  PROVE  ClawedBy(j, n, w, t, entries) \in [Jobs -> PayRows]
BY DEF ClawedBy, PayRows

\* The invariant holds before any job, claw or handler exists.
LEMMA InitIInv == Init => IInv
<1> SUFFICES ASSUME Init PROVE IInv
  OBVIOUS
<1>1. TypeOK
  BY Rows, WorkJobsAssumption DEF Init, TypeOK, NodeRows
<1>2. HandlersOK /\ JobsOK /\ PaidIffCaptured /\ OneJobPerNode /\ ClawsOK
  BY DEF Init, HandlersOK, Free, JobsOK, NoJob, PaidIffCaptured, NoPay,
         OneJobPerNode, StillAssigned, ClawsOK, ClawRowsStand, OpClawUncovered,
         OperatorClawStands
<1> QED
  BY <1>1, <1>2 DEF IInv, Init

\* What leaves jobs, entries and claws alone keeps what is said of them.
LEMMA JobFrame ==
  ASSUME IInv, UNCHANGED <<job, pay, claws, opClaw>>
  PROVE  JobsOK' /\ PaidIffCaptured' /\ OneJobPerNode' /\ ClawsOK'
BY DEF IInv, JobsOK, PaidIffCaptured, OneJobPerNode, ClawsOK, ClawRowsStand, OpClawUncovered,
         OperatorClawStands, StillAssigned

\* A handler's next state is typed and keeps HandlersOK unless it is an enqueue.
LEMMA HandlerFrame ==
  ASSUME IInv, NEW r \in Handlers, NEW v \in HandlerRows, h' = [h EXCEPT ![r] = v],
         \A k \in Jobs \ Protocol : job[k].st = "absent" => job'[k].st = "absent",
         v.pc # "insert", v.pc = "refund" => v.job \in Jobs,
         v.pc \in {"load", "verify", "answer", "sweep"} =>
           v.job \in Jobs /\ v.node \in Nodes /\ v.now > 0
  PROVE  h' \in [Handlers -> HandlerRows] /\ HandlersOK'
<1>1. h \in [Handlers -> HandlerRows] /\ HandlersOK
  BY DEF IInv, TypeOK
<1>2. h' \in [Handlers -> HandlerRows] /\ h'[r] = v
      /\ \A s \in Handlers \ {r} : h'[s] = h[s]
  BY <1>1
<1> QED
  BY <1>1, <1>2 DEF HandlersOK

\* A handler that ends disturbs no other.
LEMMA EndFrame ==
  ASSUME IInv, NEW r \in Handlers, End(r),
         \A k \in Jobs \ Protocol : job[k].st = "absent" => job'[k].st = "absent"
  PROVE  h' \in [Handlers -> HandlerRows] /\ HandlersOK'
<1>1. Free.pc = "idle" /\ h' = [h EXCEPT ![r] = Free]
  BY DEF Free, End
<1> QED
  BY <1>1, Rows, HandlerFrame

\* A handler that goes on to a release names a job.
LEMMA RefundFrame ==
  ASSUME IInv, NEW r \in Handlers, NEW j \in Jobs, ThenRefund(r, j),
         \A k \in Jobs \ Protocol : job[k].st = "absent" => job'[k].st = "absent"
  PROVE  h' \in [Handlers -> HandlerRows] /\ HandlersOK'
<1> DEFINE v == [Free EXCEPT !.pc = "refund", !.job = j]
<1>1. v \in HandlerRows
  BY Rows DEF HandlerRows
<1>2. v.pc = "refund" /\ v.job = j
  BY DEF Free
<1>3. h' = [h EXCEPT ![r] = v]
  BY DEF ThenRefund
<1> QED
  BY <1>1, <1>2, <1>3, HandlerFrame

\* One row of a live job changes without touching its node, pay or check.
LEMMA RowChange ==
  ASSUME IInv, NEW j \in Jobs, NEW row \in JobRows, job' = [job EXCEPT ![j] = row],
         UNCHANGED <<pay, claws, opClaw>>, job[j].st \in {"queued", "assigned"},
         row.cap = job[j].cap, row.sample = job[j].sample,
         row.st = "assigned" => job[j].st = "assigned" /\ row.node = job[j].node
  PROVE  /\ job' \in [Jobs -> JobRows]
         /\ JobsOK' /\ PaidIffCaptured' /\ OneJobPerNode' /\ ClawsOK'
         /\ \A k \in Jobs : job[k].st = "absent" => job'[k].st = "absent"
<1>1. job \in [Jobs -> JobRows]
  BY DEF IInv, TypeOK
<1>2. job' \in [Jobs -> JobRows] /\ job'[j] = row /\ \A k \in Jobs \ {j} : job'[k] = job[k]
  BY <1>1
<1>3. job[j].cap = 0 /\ job[j].sample \notin {"failed", "reversed"}
  BY DEF IInv, PaidIffCaptured, JobsOK
<1>4. JobsOK' /\ PaidIffCaptured'
  BY <1>2, <1>3 DEF IInv, JobsOK, PaidIffCaptured
<1>5. OneJobPerNode'
  BY <1>2 DEF IInv, OneJobPerNode, StillAssigned
<1>6. ClawsOK'
  BY <1>2, <1>3 DEF IInv, TypeOK, ClawsOK, ClawRowsStand, OpClawUncovered, OperatorClawStands
<1> QED
  BY <1>2, <1>4, <1>5, <1>6

\* enqueueWorkJob's hold takes no more than is spendable, for a fresh id.
LEMMA EnqueueHoldStep ==
  ASSUME IInv, NEW r \in Handlers, NEW j \in Jobs, EnqueueHold(r, j)
  PROVE  IInv'
<1>1. bal' \in [spend : Nat, held : Nat]
  BY WorkJobsAssumption DEF IInv, TypeOK, EnqueueHold, CanHold, Hold
<1>2. [Free EXCEPT !.pc = "insert", !.job = j] \in HandlerRows
  BY Rows DEF HandlerRows
<1>3. h' \in [Handlers -> HandlerRows]
  BY <1>2 DEF IInv, TypeOK, EnqueueHold
<1>4. HandlersOK'
  BY DEF IInv, TypeOK, EnqueueHold, HandlersOK, Free
<1> QED
  BY <1>1, <1>3, <1>4, JobFrame DEF IInv, TypeOK, EnqueueHold

\* enqueueWorkJob's INSERT adds an unassigned, unpaid job.
LEMMA EnqueueInsertStep ==
  ASSUME IInv, NEW r \in Handlers, EnqueueInsert(r)
  PROVE  IInv'
<1> DEFINE j == h[r].job
<1>j. j \in Jobs /\ job[j] \in JobRows /\ job[j].st = "absent"
  BY DEF IInv, TypeOK, EnqueueInsert, HandlersOK
<1>1. [job[j] EXCEPT !.st = "queued"] \in JobRows
  BY <1>j DEF JobRows
<1>2. [Free EXCEPT !.pc = "assign"] \in HandlerRows
  BY Rows DEF HandlerRows
<1>3. job' \in [Jobs -> JobRows] /\ h' \in [Handlers -> HandlerRows]
  BY <1>1, <1>2, <1>j DEF IInv, TypeOK, EnqueueInsert
<1>4. HandlersOK'
  BY <1>j DEF IInv, TypeOK, EnqueueInsert, HandlersOK, Free, JobRows
<1>5. JobsOK' /\ PaidIffCaptured' /\ OneJobPerNode' /\ ClawsOK'
  BY <1>j DEF IInv, TypeOK, EnqueueInsert, HandlersOK, JobRows, JobsOK, PaidIffCaptured, OneJobPerNode, ClawsOK, ClawRowsStand, OpClawUncovered,
         OperatorClawStands, StillAssigned
<1> QED
  BY <1>3, <1>4, <1>5 DEF IInv, TypeOK, EnqueueInsert
\* A failed INSERT leaves no job behind.
LEMMA EnqueueFailsStep ==
  ASSUME IInv, NEW r \in Handlers, EnqueueFails(r)
  PROVE  IInv'
<1>1. h[r].job \in Jobs
  BY DEF IInv, HandlersOK, EnqueueFails
<1>2. h' \in [Handlers -> HandlerRows] /\ HandlersOK'
  BY <1>1, EndFrame, RefundFrame DEF EnqueueFails
<1> QED
  BY <1>2, JobFrame DEF IInv, TypeOK, EnqueueFails

\* issueProtocolWork adds an unassigned, unpaid job.
LEMMA IssueProtocolStep ==
  ASSUME IInv, NEW j \in Jobs, IssueProtocol(j)
  PROVE  IInv'
<1>1. job[j] \in JobRows /\ job[j].st = "absent" /\ j \in Protocol
  BY DEF IInv, TypeOK, IssueProtocol
<1>2. [job[j] EXCEPT !.st = "queued"] \in JobRows
  BY <1>1 DEF JobRows
<1>3. job' \in [Jobs -> JobRows]
  BY <1>2 DEF IInv, TypeOK, IssueProtocol
<1>4. HandlersOK'
  BY <1>1 DEF IInv, TypeOK, IssueProtocol, HandlersOK
<1>5. JobsOK' /\ PaidIffCaptured' /\ OneJobPerNode' /\ ClawsOK'
  BY <1>1 DEF IInv, TypeOK, IssueProtocol, JobRows, JobsOK, PaidIffCaptured,
       OneJobPerNode, StillAssigned, ClawsOK, ClawRowsStand, OpClawUncovered,
       OperatorClawStands
<1> QED
  BY <1>3, <1>4, <1>5 DEF IInv, TypeOK, IssueProtocol

\* Dropping a queued protocol job loses no pay: it has none.
LEMMA DropProtocolStep ==
  ASSUME IInv, NEW j \in Jobs, DropProtocol(j)
  PROVE  IInv'
<1>1. job[j].st = "queued" /\ job' = [job EXCEPT ![j] = NoJob] /\ job[j] \in JobRows
  BY DEF DropProtocol, IInv, TypeOK
<1>2. job[j].cap = 0 /\ job[j].sample \notin {"failed", "reversed"}
  BY <1>1 DEF IInv, PaidIffCaptured, JobsOK
<1>3. NoJob.cap = 0 /\ NoJob.st = "absent" /\ NoJob.sample = "none"
  BY DEF NoJob
<1>4. job' \in [Jobs -> JobRows]
  BY <1>1, Rows DEF IInv, TypeOK
<1>5. HandlersOK'
  BY <1>1, <1>3 DEF IInv, TypeOK, DropProtocol, HandlersOK
<1>6. JobsOK' /\ PaidIffCaptured' /\ OneJobPerNode' /\ ClawsOK'
  BY <1>1, <1>2, <1>3 DEF IInv, TypeOK, DropProtocol, JobsOK, PaidIffCaptured,
       OneJobPerNode, StillAssigned, ClawsOK, ClawRowsStand, OpClawUncovered,
       OperatorClawStands
<1> QED
  BY <1>4, <1>5, <1>6 DEF IInv, TypeOK, DropProtocol

-----------------------------------------------------------------------------
(* runAssignment *)

\* Expiry re-queues assignments and touches nothing else.
LEMMA AssignExpireStep ==
  ASSUME IInv, NEW r \in Handlers, AssignExpire(r)
  PROVE  IInv'
<1> DEFINE v == [Free EXCEPT !.pc = "read", !.now = now]
<1>1. v \in HandlerRows /\ v.pc = "read" /\ h' = [h EXCEPT ![r] = v]
  <2>1. v \in HandlerRows
    BY Rows DEF HandlerRows, IInv, TypeOK
  <2>2. v.pc = "read"
    BY DEF Free
  <2> QED
    BY <2>1, <2>2 DEF AssignExpire
<1>2. job' \in [Jobs -> JobRows]
  BY Rows DEF IInv, TypeOK, AssignExpire
<1>3. \A k \in Jobs : \/ job'[k] = job[k]
                      \/ job[k].st = "assigned" /\ job'[k] = Cleared(job[k])
  BY DEF AssignExpire
<1>4. \A k \in Jobs : LET c == Cleared(job[k])
                      IN c.st = "queued" /\ c.cap = job[k].cap /\ c.sample = job[k].sample
  BY DEF IInv, TypeOK, JobRows, Cleared
<1>5. h' \in [Handlers -> HandlerRows] /\ HandlersOK'
  <2>1. \A k \in Jobs \ Protocol : job[k].st = "absent" => job'[k].st = "absent"
    BY <1>3
  <2> QED
    BY <1>1, <2>1, HandlerFrame
<1>6. JobsOK' /\ PaidIffCaptured' /\ OneJobPerNode' /\ ClawsOK'
  BY <1>3, <1>4 DEF IInv, TypeOK, AssignExpire, JobsOK, PaidIffCaptured,
       OneJobPerNode, StillAssigned, ClawsOK, ClawRowsStand, OpClawUncovered,
       OperatorClawStands
<1> QED
  BY <1>2, <1>5, <1>6 DEF IInv, TypeOK, AssignExpire

\* A pass's reads change no row.
LEMMA AssignReadStep ==
  ASSUME IInv, NEW r \in Handlers, AssignRead(r)
  PROVE  IInv'
<1> DEFINE queued == {j \in Jobs : job[j].st = "queued"}
<1>1. PICK pool \in SUBSET Idle :
        \/ End(r)
        \/ h' = [h EXCEPT ![r].pc = "draw", ![r].queue = queued, ![r].pool = pool]
  BY DEF AssignRead
<1> HIDE DEF queued
<1>q. queued \in SUBSET Jobs /\ pool \in SUBSET Nodes
  BY DEF queued, Idle
<1> DEFINE v == [h[r] EXCEPT !.pc = "draw", !.queue = queued, !.pool = pool]
<1>2. v \in HandlerRows /\ v.pc = "draw"
  BY ZenonT(60), <1>q DEF IInv, TypeOK, HandlerRows
<1>3. UNCHANGED job
  BY DEF AssignRead
<1>4. h' \in [Handlers -> HandlerRows] /\ HandlersOK'
  <2>1. CASE End(r)
    BY <2>1, <1>3, EndFrame
  <2>2. CASE h' = [h EXCEPT ![r].pc = "draw", ![r].queue = queued, ![r].pool = pool]
    <3>1. h' = [h EXCEPT ![r] = v]
      BY <2>2 DEF IInv, TypeOK, HandlerRows
    <3> QED
      BY <3>1, <1>2, <1>3, HandlerFrame
  <2> QED
    BY <1>1, <2>1, <2>2
<1> QED
  BY <1>4, JobFrame DEF IInv, TypeOK, AssignRead

\* A job that no node fits stays as it is.
LEMMA AssignSkipStep ==
  ASSUME IInv, NEW r \in Handlers, AssignSkip(r)
  PROVE  IInv'
<1>1. PICK j \in h[r].queue : End(r) \/ h' = [h EXCEPT ![r].queue = @ \ {j}]
  BY DEF AssignSkip
<1> DEFINE v == [h[r] EXCEPT !.queue = @ \ {j}]
<1>2. v \in HandlerRows /\ v.pc = "draw"
  BY SMTT(60) DEF IInv, TypeOK, HandlerRows, AssignSkip
<1>3. UNCHANGED job
  BY DEF AssignSkip
<1>4. h' \in [Handlers -> HandlerRows] /\ HandlersOK'
  <2>1. CASE End(r)
    BY <2>1, <1>3, EndFrame
  <2>2. CASE h' = [h EXCEPT ![r].queue = @ \ {j}]
    <3>1. h' = [h EXCEPT ![r] = v]
      BY <2>2
    <3> QED
      BY <3>1, <1>2, <1>3, HandlerFrame
  <2> QED
    BY <1>1, <2>1, <2>2
<1> QED
  BY <1>4, JobFrame DEF IInv, TypeOK, AssignSkip

\* The draw gives a queued job to a node that has no other assignment.
LEMMA AssignDrawStep ==
  ASSUME IInv, NEW r \in Handlers, AssignDraw(r)
  PROVE  IInv'
<1>1. PICK j \in h[r].queue, n \in h[r].pool :
        /\ IF CanAssign(j, n)
           THEN /\ draws' = [draws EXCEPT ![j] = @ + 1]
                /\ job' = [job EXCEPT ![j].st = "assigned", ![j].node = n,
                                      ![j].sigma = draws[j] + 1,
                                      ![j].exp = h[r].now + AssignTTL]
           ELSE UNCHANGED <<draws, job>>
        /\ \/ End(r)
           \/ h' = [h EXCEPT ![r].queue = h[r].queue \ {j}, ![r].pool = h[r].pool \ {n}]
  BY ZenonT(60) DEF AssignDraw
<1>2. j \in Jobs /\ n \in Nodes /\ job[j] \in JobRows /\ h[r] \in HandlerRows
  BY DEF IInv, TypeOK, HandlerRows
<1> DEFINE row == [job[j] EXCEPT !.st = "assigned", !.node = n,
                                 !.sigma = draws[j] + 1, !.exp = h[r].now + AssignTTL]
           v == [h[r] EXCEPT !.queue = h[r].queue \ {j}, !.pool = h[r].pool \ {n}]
<1>t. draws[j] + 1 \in Nat /\ h[r].now + AssignTTL \in Nat
  BY <1>2, WorkJobsAssumption DEF HandlerRows, IInv, TypeOK
<1>3. /\ row \in JobRows /\ row.st = "assigned" /\ row.node = n
      /\ row.cap = job[j].cap /\ row.sample = job[j].sample
  BY <1>2, <1>t DEF JobRows
<1>4. v \in HandlerRows /\ v.pc = "draw"
  BY <1>2 DEF HandlerRows, AssignDraw
<1>5. \/ UNCHANGED <<draws, job>>
      \/ /\ CanAssign(j, n) /\ job' = [job EXCEPT ![j] = row]
         /\ draws' = [draws EXCEPT ![j] = @ + 1]
  BY <1>1
<1>6. \A k \in Jobs \ Protocol : job[k].st = "absent" => job'[k].st = "absent"
  BY <1>2, <1>3, <1>5 DEF CanAssign, IInv, TypeOK
<1>7. h' \in [Handlers -> HandlerRows] /\ HandlersOK'
  <2>1. CASE End(r)
    BY <2>1, <1>6, EndFrame
  <2>2. CASE h' = [h EXCEPT ![r].queue = h[r].queue \ {j}, ![r].pool = h[r].pool \ {n}]
    <3>1. h' = [h EXCEPT ![r] = v]
      BY <2>2, <1>2 DEF IInv, TypeOK, HandlerRows
    <3> QED
      BY <3>1, <1>4, <1>6, HandlerFrame
  <2> QED
    BY <1>1, <2>1, <2>2
<1>8. /\ job' \in [Jobs -> JobRows] /\ draws' \in [Jobs -> Nat]
      /\ JobsOK' /\ PaidIffCaptured' /\ OneJobPerNode' /\ ClawsOK'
  <2>1. CASE UNCHANGED <<draws, job>>
    BY <2>1, JobFrame DEF IInv, TypeOK, AssignDraw
  <2>2. CASE /\ CanAssign(j, n) /\ job' = [job EXCEPT ![j] = row]
             /\ draws' = [draws EXCEPT ![j] = @ + 1]
    <3> HIDE DEF row
    <3>1. job' \in [Jobs -> JobRows] /\ draws' \in [Jobs -> Nat]
      BY <2>2, <1>2, <1>3 DEF IInv, TypeOK
    <3>2. job'[j] = row /\ \A k \in Jobs \ {j} : job'[k] = job[k]
      BY <2>2, <1>2 DEF IInv, TypeOK
    <3>3. job[j].st = "queued" /\ \A k \in Jobs : ~ StillAssigned(k, n)
      BY <2>2 DEF CanAssign
    <3>4. job[j].cap = 0 /\ job[j].sample \notin {"failed", "reversed"}
      BY <3>3, <1>2 DEF IInv, PaidIffCaptured, JobsOK
    <3>5. JobsOK' /\ PaidIffCaptured'
      BY <3>2, <3>4, <1>2, <1>3 DEF IInv, JobsOK, PaidIffCaptured, AssignDraw
    <3>6. OneJobPerNode'
      BY <3>2, <3>3, <1>2, <1>3 DEF IInv, OneJobPerNode, StillAssigned
    <3>7. ClawsOK'
      BY <3>2, <3>4, <1>3 DEF IInv, TypeOK, AssignDraw, ClawsOK, ClawRowsStand,
         OpClawUncovered, OperatorClawStands
    <3> QED
      BY <3>1, <3>5, <3>6, <3>7
  <2> QED
    BY <1>5, <2>1, <2>2
<1> QED
  BY <1>7, <1>8 DEF IInv, TypeOK, AssignDraw

-----------------------------------------------------------------------------
(* What caughtStatements does to the entries and the claw rows. *)

\* The rows C and entries P after a claw for job j: rows of j only are new, each on
\* an entry left clawed that was pending, j's own or under a failed check already.
ClawSound(j, entries, C, P) ==
  /\ C \subseteq Jobs \X Jobs
  /\ P \in [Jobs -> PayRows]
  /\ \A p \in C : p \in claws \/ (p[2] = j /\ P[p[1]].st = "clawed")
  /\ \A e \in Jobs :
       /\ entries[e].st = "clawed" => P[e].st = "clawed"
       /\ P[e].st = "none" <=> entries[e].st = "none"
       /\ P[e].to = entries[e].to /\ P[e].epoch = entries[e].epoch
  /\ \A e \in Jobs, c \in Jobs :
       <<e, c>> \in C => \/ <<e, c>> \in claws
                         \/ e = j /\ entries[e].st # "none"
                         \/ entries[e].st = "pending"
                         \/ \E d \in Jobs : <<e, d>> \in claws

\* caughtStatements is such a claw, whatever the wallet, the node and the time.
LEMMA ClawFacts ==
  ASSUME NEW j \in Jobs, NEW n, NEW w, NEW t, NEW entries \in [Jobs -> PayRows],
         entries[j].st \in {"none", "clawed"}, claws \subseteq Jobs \X Jobs
  PROVE  ClawSound(j, entries, ClawsWith(j, n, w, t, entries), ClawedBy(j, n, w, t, entries))
<1> DEFINE K == Covered(j, n, w, t, entries)
           C == ClawsWith(j, n, w, t, entries)
           P == ClawedBy(j, n, w, t, entries)
<1>1. C = claws \cup {<<e, j>> : e \in K} /\ K \subseteq Jobs
  BY DEF ClawsWith, Covered
<1>2. \A e \in K : /\ entries[e].st # "none"
                   /\ \/ entries[e].st = "pending"
                      \/ e = j
                      \/ entries[e].st = "clawed" /\ \E d \in Jobs : <<e, d>> \in claws
  BY DEF Covered
<1>3. P \in [Jobs -> PayRows]
  BY ClawedType
<1>4. \A e \in Jobs :
        P[e] = IF entries[e].st = "pending" /\ <<e, j>> \in C
               THEN [entries[e] EXCEPT !.st = "clawed"] ELSE entries[e]
  BY DEF ClawedBy
<1> HIDE DEF K, C, P
<1>5. \A e \in Jobs : /\ [entries[e] EXCEPT !.st = "clawed"].st = "clawed"
                      /\ [entries[e] EXCEPT !.st = "clawed"].to = entries[e].to
                      /\ [entries[e] EXCEPT !.st = "clawed"].epoch = entries[e].epoch
  BY DEF PayRows
<1>6. \A p \in C : p \in claws \/ (p[2] = j /\ P[p[1]].st = "clawed")
  <2> SUFFICES ASSUME NEW e \in K PROVE P[e].st = "clawed"
    BY <1>1
  <2>1. e \in Jobs /\ <<e, j>> \in C /\ entries[e].st \in {"pending", "clawed"}
    BY <1>1, <1>2
  <2>2. CASE entries[e].st = "pending"
    BY <1>4, <1>5, <2>1, <2>2
  <2>3. CASE entries[e].st = "clawed"
    BY <1>4, <2>1, <2>3
  <2> QED
    BY <2>1, <2>2, <2>3
<1>7. \A e \in Jobs : /\ entries[e].st = "clawed" => P[e].st = "clawed"
                      /\ P[e].st = "none" <=> entries[e].st = "none"
                      /\ P[e].to = entries[e].to /\ P[e].epoch = entries[e].epoch
  BY <1>4, <1>5
<1>8. \A e \in Jobs, c \in Jobs :
        <<e, c>> \in C => \/ <<e, c>> \in claws
                          \/ e = j /\ entries[e].st # "none"
                          \/ entries[e].st = "pending"
                          \/ \E d \in Jobs : <<e, d>> \in claws
  BY <1>1, <1>2
<1>9. C \subseteq Jobs \X Jobs
  BY <1>1
<1> QED
  BY <1>3, <1>6, <1>7, <1>8, <1>9 DEF C, P, ClawSound

-----------------------------------------------------------------------------
(* submitWork, answerChallenge, sweepChallenges *)

\* submitWork's guard changes no row.
LEMMA SubmitStep ==
  ASSUME IInv, NEW r \in Handlers, NEW n \in Nodes, NEW j \in Jobs,
         NEW w \in 1..MaxDraws, Submit(r, n, j, w)
  PROVE  IInv'
<1> DEFINE v == [Free EXCEPT !.pc = "load", !.job = j, !.node = n, !.now = now, !.work = w]
<1>1. now \in Nat /\ now > 0 /\ w \in Nat
  BY WorkJobsAssumption DEF IInv, TypeOK
<1>2. v \in HandlerRows
  BY <1>1, Rows DEF HandlerRows
<1>3. v.pc = "load" /\ v.job = j /\ v.node = n /\ v.now = now
  BY DEF Free
<1>4. h' = [h EXCEPT ![r] = v] /\ UNCHANGED job
  BY DEF Submit
<1> HIDE DEF v
<1>5. h' \in [Handlers -> HandlerRows] /\ HandlersOK'
  BY <1>1, <1>2, <1>3, <1>4, HandlerFrame
<1> QED
  BY <1>5, JobFrame DEF IInv, TypeOK, Submit

\* submitWork's reads change no row.
LEMMA SubmitLoadStep ==
  ASSUME IInv, NEW r \in Handlers, SubmitLoad(r)
  PROVE  IInv'
<1> DEFINE j == h[r].job
           p == node[h[r].node].payout
           v == [h[r] EXCEPT !.pc = "verify", !.row = job[j], !.payout = p]
<1>1. h[r] \in HandlerRows /\ j \in Jobs /\ h[r].node \in Nodes /\ h[r].now > 0
  BY DEF IInv, TypeOK, HandlersOK, SubmitLoad
<1>2. job[j] \in JobRows /\ p \in Wallets \cup {None}
  BY <1>1 DEF IInv, TypeOK, NodeRows
<1>3. v \in HandlerRows /\ v.pc = "verify" /\ v.job = j /\ v.node = h[r].node /\ v.now = h[r].now
  BY <1>1, <1>2 DEF HandlerRows
<1>4. UNCHANGED job /\ (End(r) \/ h' = [h EXCEPT ![r] = v])
  BY <1>1 DEF SubmitLoad, IInv, TypeOK, HandlerRows
<1> HIDE DEF v
<1>5. h' \in [Handlers -> HandlerRows] /\ HandlersOK'
  BY <1>1, <1>3, <1>4, EndFrame, HandlerFrame
<1> QED
  BY <1>5, JobFrame DEF IInv, TypeOK, SubmitLoad

\* refuse re-queues or fails a job that is still assigned, and captures nothing.
LEMMA RefuseStep ==
  ASSUME IInv, NEW r \in Handlers, h[r].pc = "verify", Refuse(r),
         UNCHANGED <<now, bal, node, pay, claws, opClaw, closed, draws, given, faults>>
  PROVE  IInv'
<1> DEFINE j == h[r].job
           row == [job[j] EXCEPT !.attempts = @ + 1]
           gone == [row EXCEPT !.st = "failed", !.exp = 0]
<1>1. j \in Jobs /\ job[j] \in JobRows
  BY DEF IInv, TypeOK, HandlersOK
<1>2. row \in JobRows /\ row.cap = job[j].cap /\ row.sample = job[j].sample
  BY SMTT(60), <1>1 DEF JobRows
<1>3. gone \in JobRows /\ gone.st = "failed" /\ gone.cap = row.cap /\ gone.sample = row.sample
  BY <1>2 DEF JobRows
<1>4. /\ Cleared(row) \in JobRows /\ Cleared(row).st = "queued"
      /\ Cleared(row).cap = row.cap /\ Cleared(row).sample = row.sample
  BY ZenonT(60), <1>2, Rows DEF Cleared, JobRows
<1>5. \/ UNCHANGED job /\ End(r)
      \/ job[j].st = "assigned" /\ job' = [job EXCEPT ![j] = gone] /\ ThenRefund(r, j)
      \/ job[j].st = "assigned" /\ job' = [job EXCEPT ![j] = Cleared(row)] /\ End(r)
  BY DEF Refuse, StillAssigned
<1> HIDE DEF row, gone
<1>6. CASE UNCHANGED job /\ End(r)
  BY <1>6, EndFrame, JobFrame DEF IInv, TypeOK
<1>7. CASE job[j].st = "assigned" /\ job' = [job EXCEPT ![j] = gone] /\ ThenRefund(r, j)
  <2>1. /\ job' \in [Jobs -> JobRows]
        /\ JobsOK' /\ PaidIffCaptured' /\ OneJobPerNode' /\ ClawsOK'
        /\ \A k \in Jobs : job[k].st = "absent" => job'[k].st = "absent"
    BY <1>7, <1>1, <1>2, <1>3, RowChange
  <2> QED
    BY <1>7, <1>1, <2>1, RefundFrame DEF IInv, TypeOK
<1>8. CASE job[j].st = "assigned" /\ job' = [job EXCEPT ![j] = Cleared(row)] /\ End(r)
  <2>1. /\ job' \in [Jobs -> JobRows]
        /\ JobsOK' /\ PaidIffCaptured' /\ OneJobPerNode' /\ ClawsOK'
        /\ \A k \in Jobs : job[k].st = "absent" => job'[k].st = "absent"
    BY <1>8, <1>1, <1>2, <1>4, RowChange
  <2> QED
    BY <1>8, <2>1, EndFrame DEF IInv, TypeOK
<1> QED
  BY <1>5, <1>6, <1>7, <1>8

\* bookVerified keeps the invariant: a fee is captured once, with its entries.
LEMMA BookStep ==
  ASSUME IInv, NEW r \in Handlers, h[r].pc \in {"verify", "answer"},
         NEW to \in Wallets \cup {None}, NEW z \in Nat,
         NEW sample \in {"none", "passed", "failed"}, NEW caught \in BOOLEAN,
         caught <=> sample = "failed", BookVerified(r, to, z, sample, caught),
         UNCHANGED <<now, opClaw, closed, draws, given, faults>>
  PROVE  IInv'
<1> DEFINE j == h[r].job
           n == h[r].node
           t == h[r].now
           still == StillAssigned(j, n)
           auth == still /\ job[j].cap = 0 /\ bal.held >= Price[j]
           cap == IF auth THEN t ELSE job[j].cap
           paid == still /\ cap = t
           entry == [st |-> IF caught THEN "clawed" ELSE "pending",
                     to |-> to, epoch |-> BookingEpoch(t)]
           entries == IF paid THEN [pay EXCEPT ![j] = entry] ELSE pay
           row == [job[j] EXCEPT !.st = "done", !.cap = cap, !.z = z, !.sample = sample]
<1>1. /\ j \in Jobs /\ n \in Nodes /\ t \in Nat /\ t > 0 /\ job[j] \in JobRows
      /\ pay \in [Jobs -> PayRows] /\ job \in [Jobs -> JobRows]
      /\ node \in [Nodes -> NodeRows] /\ claws \subseteq Jobs \X Jobs
  BY DEF IInv, TypeOK, HandlersOK, HandlerRows
<1>2. /\ bal' = IF paid /\ bal.held >= Price[j]
                THEN [bal EXCEPT !.held = @ - Price[j]] ELSE bal
      /\ IF caught /\ still
         THEN /\ claws' = ClawsWith(j, n, to, t, entries)
              /\ pay' = ClawedBy(j, n, to, t, entries)
              /\ Suspend(n)
         ELSE pay' = entries /\ UNCHANGED <<claws, node>>
      /\ job' = IF still THEN [job EXCEPT ![j] = row] ELSE job
      /\ End(r)
  BY <1>1 DEF BookVerified
<1>3. bal' \in [spend : Nat, held : Nat]
  BY SMTT(60), <1>1, <1>2, WorkJobsAssumption DEF IInv, TypeOK
<1>4. node' \in [Nodes -> NodeRows]
  <2>1. [node[n] EXCEPT !.state = "suspended"] \in NodeRows
    BY SMTT(60), <1>1 DEF NodeRows
  <2> QED
    BY <1>1, <1>2, <2>1 DEF Suspend
<1>5. CASE ~ still
  <2>1. UNCHANGED <<job, pay, claws, opClaw>>
    BY <1>2, <1>5
  <2> QED
    BY <1>2, <1>3, <1>4, <2>1, EndFrame, JobFrame DEF IInv, TypeOK
<1>6. CASE still
  <2>1. /\ job[j].st = "assigned" /\ job[j].cap = 0 /\ pay[j].st = "none"
        /\ job[j].sample \notin {"failed", "reversed"}
    BY <1>1, <1>6 DEF IInv, PaidIffCaptured, JobsOK, StillAssigned
  <2>2. cap \in Nat /\ (paid <=> cap # 0)
    BY SMTT(60), <1>1, <1>6, <2>1
  <2>3. row \in JobRows /\ row.st = "done" /\ row.cap = cap /\ row.sample = sample
    BY ZenonT(60), <1>1, <2>2 DEF JobRows
  <2>4. entry \in PayRows /\ (caught => entry.st = "clawed") /\ (~ caught => entry.st = "pending")
    BY <1>1, EpochNat DEF PayRows
  <2>5. /\ entries \in [Jobs -> PayRows]
        /\ paid => entries[j] = entry
        /\ ~ paid => entries[j] = pay[j]
        /\ \A e \in Jobs \ {j} : entries[e] = pay[e]
    BY <1>1, <2>4
  <2>6. job' = [job EXCEPT ![j] = row]
    BY SMTT(60), <1>2, <1>6
  <2>7. /\ caught => claws' = ClawsWith(j, n, to, t, entries)
                     /\ pay' = ClawedBy(j, n, to, t, entries)
        /\ ~ caught => pay' = entries /\ claws' = claws
    BY <1>2, <1>6
  <2> HIDE DEF entry, entries, row, cap, paid, auth, still
  <2>8. /\ job' \in [Jobs -> JobRows] /\ job'[j] = row
        /\ \A k \in Jobs \ {j} : job'[k] = job[k]
    BY <1>1, <2>3, <2>6
  <2>9. /\ pay' \in [Jobs -> PayRows] /\ claws' \subseteq Jobs \X Jobs
        /\ \A e \in Jobs : /\ entries[e].st = "clawed" => pay'[e].st = "clawed"
                           /\ pay'[e].st = "none" <=> entries[e].st = "none"
        /\ \A p \in claws' : \/ p \in claws
                             \/ p[2] = j /\ pay'[p[1]].st = "clawed" /\ caught
        /\ \A e \in Jobs, c \in Jobs :
             <<e, c>> \in claws' => \/ <<e, c>> \in claws
                                    \/ e = j /\ entries[e].st # "none"
                                    \/ entries[e].st = "pending"
                                    \/ \E d \in Jobs : <<e, d>> \in claws
    <3>1. CASE caught
      <4>1. entries[j].st \in {"none", "clawed"}
        BY <3>1, <2>1, <2>4, <2>5
      <4> DEFINE C == ClawsWith(j, n, to, t, entries)
                 P == ClawedBy(j, n, to, t, entries)
      <4>2. ClawSound(j, entries, C, P)
        BY <4>1, <1>1, <2>5, ClawFacts
      <4>3. claws' = C /\ pay' = P
        BY <3>1, <2>7
      <4> HIDE DEF C, P
      <4> QED
        BY <3>1, <4>2, <4>3 DEF ClawSound
    <3>2. CASE ~ caught
      BY <3>2, <1>1, <2>5, <2>7
    <3> QED
      BY <3>1, <3>2
  <2>10. JobsOK'
    BY <2>3, <2>8 DEF IInv, JobsOK
  <2>11. PaidIffCaptured'
    BY <2>1, <2>2, <2>3, <2>4, <2>5, <2>8, <2>9 DEF IInv, PaidIffCaptured
  <2>12. OneJobPerNode'
    BY <2>3, <2>8 DEF IInv, OneJobPerNode, StillAssigned
  <2>13. \A p \in claws : p[1] \in Jobs \ {j} /\ p[2] \in Jobs \ {j}
    BY <1>1, <2>1 DEF IInv, ClawsOK, ClawRowsStand
  <2>14. ClawRowsStand'
    BY <1>1, <2>3, <2>5, <2>8, <2>9, <2>13 DEF IInv, ClawsOK, ClawRowsStand
  <2>15. \A e \in opClaw : e \in Jobs \ {j} /\ pay[e].st = "clawed"
    BY <2>1 DEF IInv, TypeOK, ClawsOK, OperatorClawStands
  <2>16. OperatorClawStands' /\ OpClawUncovered'
    <3>1. OperatorClawStands'
      BY <2>5, <2>9, <2>15 DEF OperatorClawStands
    <3>2. \A e \in opClaw : entries[e].st = "clawed" /\ e # j
      BY <2>5, <2>15
    <3>3. \A e \in opClaw, d \in Jobs : <<e, d>> \notin claws
      BY DEF IInv, ClawsOK, OpClawUncovered
    <3>4. \A e \in opClaw, c \in Jobs : <<e, c>> \notin claws'
      BY <2>9, <2>15, <3>2, <3>3
    <3> QED
      BY <3>1, <3>4 DEF OpClawUncovered
  <2>17. h' \in [Handlers -> HandlerRows] /\ HandlersOK'
    <3>1. \A k \in Jobs \ Protocol : job[k].st = "absent" => job'[k].st = "absent"
      BY <2>1, <2>8
    <3> QED
      BY <1>2, <3>1, EndFrame
  <2> QED
    BY <1>3, <1>4, <2>8, <2>9, <2>10, <2>11, <2>12, <2>14, <2>16, <2>17
       DEF IInv, TypeOK, ClawsOK
<1> QED
  BY <1>5, <1>6

\* submitInline books, catches or refuses.
LEMMA SubmitInlineStep ==
  ASSUME IInv, NEW r \in Handlers, SubmitInline(r)
  PROVE  IInv'
<1>1. h[r] \in HandlerRows /\ h[r].pc = "verify"
  BY DEF IInv, TypeOK, SubmitInline
<1>2. h[r].payout \in Wallets \cup {None} /\ h[r].work \in Nat
  BY <1>1 DEF HandlerRows
<1>3. UNCHANGED <<now, opClaw, closed, draws, given, faults>>
  BY DEF SubmitInline
<1>4. ASSUME NEW sample \in {"none", "passed"},
             BookVerified(r, h[r].payout, h[r].work, sample, FALSE)
      PROVE  IInv'
  BY <1>1, <1>2, <1>3, <1>4, BookStep
<1>5. ASSUME BookVerified(r, h[r].payout, h[r].work, "failed", TRUE)
      PROVE  IInv'
  BY <1>1, <1>2, <1>3, <1>5, BookStep
<1>6. ASSUME Refuse(r), UNCHANGED <<bal, node, pay, claws>>
      PROVE  IInv'
  BY <1>1, <1>3, <1>6, RefuseStep
<1> QED
  BY <1>4, <1>5, <1>6 DEF SubmitInline

\* submitCommitment stores a commitment on an assigned job, or refuses it.
LEMMA SubmitCommitmentStep ==
  ASSUME IInv, NEW r \in Handlers, SubmitCommitment(r)
  PROVE  IInv'
<1> DEFINE j == h[r].job
           deadline == h[r].now + ChallengeTTL
           row == [job[j] EXCEPT !.committed = TRUE, !.z = h[r].work,
                                 !.chal = deadline, !.exp = deadline,
                                 !.cpay = h[r].payout]
<1>1. h[r] \in HandlerRows /\ h[r].pc = "verify" /\ j \in Jobs /\ job[j] \in JobRows
  BY DEF IInv, TypeOK, HandlersOK, SubmitCommitment
<1>2. UNCHANGED <<now, bal, node, pay, claws, opClaw, closed, draws, given, faults>>
  BY DEF SubmitCommitment
<1>3. ASSUME StoreCommitment(r), End(r)
      PROVE  IInv'
  <2>1. deadline \in Nat /\ h[r].work \in Nat /\ h[r].payout \in Wallets \cup {None}
    BY <1>1, WorkJobsAssumption DEF HandlerRows
  <2>2. /\ row \in JobRows /\ row.cap = job[j].cap /\ row.sample = job[j].sample
        /\ row.node = job[j].node
    BY <1>1, <2>1 DEF JobRows
  <2>3. \/ UNCHANGED job
        \/ job[j].st = "assigned" /\ job' = [job EXCEPT ![j] = row]
    BY <1>3, <1>1 DEF StoreCommitment, StillAssigned
  <2> HIDE DEF row
  <2>4. CASE UNCHANGED job
    BY <2>4, <1>2, <1>3, EndFrame, JobFrame DEF IInv, TypeOK
  <2>5. CASE job[j].st = "assigned" /\ job' = [job EXCEPT ![j] = row]
    <3>1. /\ job' \in [Jobs -> JobRows]
          /\ JobsOK' /\ PaidIffCaptured' /\ OneJobPerNode' /\ ClawsOK'
          /\ \A k \in Jobs : job[k].st = "absent" => job'[k].st = "absent"
      BY <2>5, <1>1, <1>2, <2>2, RowChange
    <3> QED
      BY <1>2, <1>3, <3>1, EndFrame DEF IInv, TypeOK
  <2> QED
    BY <2>3, <2>4, <2>5
<1>4. ASSUME Refuse(r)
      PROVE  IInv'
  BY <1>1, <1>2, <1>4, RefuseStep
<1> QED
  BY <1>3, <1>4 DEF SubmitCommitment

\* answerChallenge's reads change no row.
LEMMA AnswerStep ==
  ASSUME IInv, NEW r \in Handlers, NEW n \in Nodes, NEW j \in Jobs, Answer(r, n, j)
  PROVE  IInv'
<1> DEFINE v == [Free EXCEPT !.pc = "answer", !.job = j, !.node = n, !.now = now,
                             !.row = job[j], !.payout = node[n].payout]
<1>1. /\ now \in Nat /\ now > 0 /\ job[j] \in JobRows
      /\ node[n].payout \in Wallets \cup {None}
  BY DEF IInv, TypeOK, NodeRows
<1>2. v \in HandlerRows
  BY <1>1, Rows DEF HandlerRows
<1>3. v.pc = "answer" /\ v.job = j /\ v.node = n /\ v.now = now
  BY DEF Free
<1>4. h' = [h EXCEPT ![r] = v] /\ UNCHANGED job
  BY DEF Answer
<1> HIDE DEF v
<1>5. h' \in [Handlers -> HandlerRows] /\ HandlersOK'
  BY <1>1, <1>2, <1>3, <1>4, HandlerFrame
<1> QED
  BY <1>5, JobFrame DEF IInv, TypeOK, Answer

\* sweepChallenges' SELECT changes no row.
LEMMA SweepReadStep ==
  ASSUME IInv, NEW r \in Handlers, NEW j \in Jobs, SweepRead(r, j)
  PROVE  IInv'
<1> DEFINE n == job[j].node
           v == [Free EXCEPT !.pc = "sweep", !.job = j, !.node = n, !.now = now,
                             !.row = job[j], !.payout = node[n].payout]
<1>1. now \in Nat /\ now > 0 /\ job[j] \in JobRows /\ n \in Nodes
  BY DEF IInv, TypeOK, JobsOK, SweepRead, Overdue
<1>2. node[n].payout \in Wallets \cup {None}
  BY <1>1 DEF IInv, TypeOK, NodeRows
<1>3. v \in HandlerRows
  BY <1>1, <1>2, Rows DEF HandlerRows
<1>4. v.pc = "sweep" /\ v.job = j /\ v.node = n /\ v.now = now
  BY DEF Free
<1>5. h' = [h EXCEPT ![r] = v] /\ UNCHANGED job
  BY DEF SweepRead
<1> HIDE DEF v
<1>6. h' \in [Handlers -> HandlerRows] /\ HandlersOK'
  BY <1>1, <1>3, <1>4, <1>5, HandlerFrame
<1> QED
  BY <1>6, JobFrame DEF IInv, TypeOK, SweepRead

\* A refund keeps both balances natural.
LEMMA RefundedType ==
  ASSUME bal \in [spend : Nat, held : Nat], NEW x \in Nat
  PROVE  Refunded(x) \in [spend : Nat, held : Nat]
BY DEF Refunded

\* A catch fails the job, claws and suspends; a racing second catch does nothing.
LEMMA CatchStep ==
  ASSUME IInv, NEW r \in Handlers, h[r].pc \in {"answer", "sweep"}, CaughtChallenge(r),
         UNCHANGED <<now, opClaw, closed, draws, given, faults>>
  PROVE  IInv'
<1> DEFINE j == h[r].job
           n == h[r].node
           w == ChallengeWallet(r)
           t == h[r].now
           row == [job[j] EXCEPT !.st = "failed", !.sample = "failed", !.exp = 0, !.chal = 0]
           C == ClawsWith(j, n, w, t, pay)
           P == ClawedBy(j, n, w, t, pay)
<1>1. /\ j \in Jobs /\ n \in Nodes /\ job[j] \in JobRows
      /\ pay \in [Jobs -> PayRows] /\ job \in [Jobs -> JobRows]
      /\ node \in [Nodes -> NodeRows] /\ claws \subseteq Jobs \X Jobs
      /\ bal \in [spend : Nat, held : Nat]
  BY SMTT(60) DEF IInv, TypeOK, HandlersOK
<1>2. End(r)
  BY DEF CaughtChallenge
<1>3. CASE ~ StillAssigned(j, n)
  <2>1. UNCHANGED <<claws, pay, node, bal, job>>
    BY <1>3 DEF CaughtChallenge
  <2> QED
    BY <1>2, <2>1, EndFrame, JobFrame DEF IInv, TypeOK
<1>4. CASE StillAssigned(j, n)
  <2>1. /\ job[j].st = "assigned" /\ job[j].cap = 0 /\ pay[j].st = "none"
        /\ job[j].sample \notin {"failed", "reversed"}
    BY SMTT(60), <1>1, <1>4 DEF IInv, PaidIffCaptured, JobsOK, StillAssigned
  <2>2. /\ (claws' = C /\ pay' = P) \/ UNCHANGED <<claws, pay>>
        /\ Suspend(n) /\ bal' = Refunded(Price[j]) /\ job' = [job EXCEPT ![j] = row]
    BY <1>1, <1>4 DEF CaughtChallenge
  <2>3. bal' \in [spend : Nat, held : Nat]
    BY <1>1, <2>2, RefundedType, WorkJobsAssumption
  <2>4. node' \in [Nodes -> NodeRows]
    <3>1. [node[n] EXCEPT !.state = "suspended"] \in NodeRows
      BY <1>1 DEF NodeRows
    <3> QED
      BY <1>1, <2>2, <3>1 DEF Suspend
  <2>5. row \in JobRows /\ row.st = "failed" /\ row.cap = 0 /\ row.sample = "failed"
    BY <1>1, <2>1 DEF JobRows
  <2>6. ClawSound(j, pay, C, P)
    <3>1. pay[j].st \in {"none", "clawed"}
      BY <2>1
    <3> HIDE DEF j, n, w, t
    <3> QED
      BY <1>1, <3>1, ClawFacts
  <2> HIDE DEF row, C, P
  <2>7. /\ job' \in [Jobs -> JobRows] /\ job'[j] = row
        /\ \A k \in Jobs \ {j} : job'[k] = job[k]
    BY <1>1, <2>2, <2>5
  <2>8. /\ pay' \in [Jobs -> PayRows] /\ claws' \subseteq Jobs \X Jobs
        /\ \A e \in Jobs : /\ pay[e].st = "clawed" => pay'[e].st = "clawed"
                           /\ pay'[e].st = "none" <=> pay[e].st = "none"
        /\ \A p \in claws' : p \in claws \/ (p[2] = j /\ pay'[p[1]].st = "clawed")
        /\ \A e \in Jobs, c \in Jobs :
             <<e, c>> \in claws' => \/ <<e, c>> \in claws
                                    \/ e = j /\ pay[e].st # "none"
                                    \/ pay[e].st = "pending"
                                    \/ \E d \in Jobs : <<e, d>> \in claws
    <3>1. CASE claws' = C /\ pay' = P
      BY <3>1, <2>6 DEF ClawSound
    <3>2. CASE UNCHANGED <<claws, pay>>
      BY <3>2, <1>1
    <3> QED
      BY <2>2, <3>1, <3>2
  <2>9. JobsOK'
    BY <2>5, <2>7 DEF IInv, JobsOK
  <2>10. PaidIffCaptured'
    BY <2>1, <2>5, <2>7, <2>8 DEF IInv, PaidIffCaptured
  <2>11. OneJobPerNode'
    BY <2>5, <2>7 DEF IInv, OneJobPerNode, StillAssigned
  <2>12. \A p \in claws : p[1] \in Jobs \ {j} /\ p[2] \in Jobs \ {j}
    BY <1>1, <2>1 DEF IInv, ClawsOK, ClawRowsStand
  <2>13. ClawRowsStand'
    BY <1>1, <2>5, <2>7, <2>8, <2>12 DEF IInv, ClawsOK, ClawRowsStand
  <2>14. \A e \in opClaw : e \in Jobs \ {j} /\ pay[e].st = "clawed"
    BY <2>1 DEF IInv, TypeOK, ClawsOK, OperatorClawStands
  <2>15. OperatorClawStands'
    BY <2>8, <2>14 DEF OperatorClawStands
  <2>16. OpClawUncovered'
    <3>1. \A e \in opClaw, d \in Jobs : <<e, d>> \notin claws
      BY DEF IInv, ClawsOK, OpClawUncovered
    <3>2. \A e \in opClaw, c \in Jobs : <<e, c>> \notin claws'
      BY <2>8, <2>14, <3>1
    <3> QED
      BY <3>2 DEF OpClawUncovered
  <2>17. h' \in [Handlers -> HandlerRows] /\ HandlersOK'
    <3>1. \A k \in Jobs \ Protocol : job[k].st = "absent" => job'[k].st = "absent"
      BY <2>1, <2>7
    <3> QED
      BY <1>2, <3>1, EndFrame
  <2> QED
    BY <2>3, <2>4, <2>7, <2>8, <2>9, <2>10, <2>11, <2>13, <2>15, <2>16, <2>17
       DEF IInv, TypeOK, ClawsOK
<1> QED
  BY <1>3, <1>4

\* A job that does not fit its plan fails without blame, once.
LEMMA MisfitStep ==
  ASSUME IInv, NEW r \in Handlers, h[r].pc = "answer", AnswerMisfit(r),
         UNCHANGED <<now, bal, node, pay, claws, opClaw, closed, draws, given, faults>>
  PROVE  IInv'
<1> DEFINE j == h[r].job
           row == [job[j] EXCEPT !.st = "failed", !.exp = 0, !.chal = 0]
<1>1. j \in Jobs /\ job[j] \in JobRows
  BY DEF IInv, TypeOK, HandlersOK
<1>2. row \in JobRows /\ row.st = "failed" /\ row.cap = job[j].cap /\ row.sample = job[j].sample
  BY <1>1 DEF JobRows
<1>3. \/ UNCHANGED job /\ End(r)
      \/ job[j].st = "assigned" /\ job' = [job EXCEPT ![j] = row] /\ ThenRefund(r, j)
  BY <1>1 DEF AnswerMisfit, StillAssigned
<1> HIDE DEF row
<1>4. CASE UNCHANGED job /\ End(r)
  BY <1>4, EndFrame, JobFrame DEF IInv, TypeOK
<1>5. CASE job[j].st = "assigned" /\ job' = [job EXCEPT ![j] = row] /\ ThenRefund(r, j)
  <2>1. /\ job' \in [Jobs -> JobRows]
        /\ JobsOK' /\ PaidIffCaptured' /\ OneJobPerNode' /\ ClawsOK'
        /\ \A k \in Jobs : job[k].st = "absent" => job'[k].st = "absent"
    BY <1>5, <1>1, <1>2, RowChange
  <2> QED
    BY <1>5, <1>1, <2>1, RefundFrame DEF IInv, TypeOK
<1> QED
  BY <1>3, <1>4, <1>5

\* An answer is late or wrong (caught), does not fit, has no wallet, or is booked.
LEMMA AnswerChallengeStep ==
  ASSUME IInv, NEW r \in Handlers, AnswerChallenge(r)
  PROVE  IInv'
<1> DEFINE to == ChallengeWallet(r)
<1>1. h[r] \in HandlerRows /\ h[r].pc = "answer"
  BY DEF IInv, TypeOK, AnswerChallenge
<1>2. h[r].row \in JobRows /\ h[r].payout \in Wallets \cup {None}
  BY <1>1 DEF HandlerRows
<1>3. to \in Wallets \cup {None} /\ h[r].row.z \in Nat
  BY <1>2 DEF ChallengeWallet, JobRows
<1>4. UNCHANGED <<now, opClaw, closed, draws, given, faults>>
  BY DEF AnswerChallenge
<1>5. \/ CaughtChallenge(r)
      \/ AnswerMisfit(r) /\ UNCHANGED <<bal, node, pay, claws>>
      \/ End(r) /\ UNCHANGED <<bal, node, pay, claws, job>>
      \/ BookVerified(r, to, h[r].row.z, "passed", FALSE)
  BY DEF AnswerChallenge
<1> HIDE DEF to
<1>6. CASE CaughtChallenge(r)
  BY <1>1, <1>4, <1>6, CatchStep
<1>7. CASE AnswerMisfit(r) /\ UNCHANGED <<bal, node, pay, claws>>
  BY <1>1, <1>4, <1>7, MisfitStep
<1>8. CASE End(r) /\ UNCHANGED <<bal, node, pay, claws, job>>
  BY <1>4, <1>8, EndFrame, JobFrame DEF IInv, TypeOK
<1>9. CASE BookVerified(r, to, h[r].row.z, "passed", FALSE)
  BY <1>1, <1>3, <1>4, <1>9, BookStep
<1> QED
  BY <1>5, <1>6, <1>7, <1>8, <1>9

\* The sweep's catch is the same batch.
LEMMA SweepCatchStep ==
  ASSUME IInv, NEW r \in Handlers, SweepCatch(r)
  PROVE  IInv'
BY CatchStep DEF SweepCatch

\* release changes the balance only.
LEMMA ReleaseHoldStep ==
  ASSUME IInv, NEW r \in Handlers, ReleaseHold(r)
  PROVE  IInv'
<1>1. h[r].job \in Jobs /\ bal \in [spend : Nat, held : Nat]
  BY DEF IInv, TypeOK, HandlersOK, ReleaseHold
<1>2. bal' \in [spend : Nat, held : Nat]
  BY <1>1, RefundedType, WorkJobsAssumption DEF ReleaseHold
<1>3. End(r) /\ UNCHANGED <<job, pay, claws, opClaw>>
  BY DEF ReleaseHold
<1> QED
  BY <1>2, <1>3, EndFrame, JobFrame DEF IInv, TypeOK, ReleaseHold

\* A lost handler changes no row.
LEMMA LoseStep ==
  ASSUME IInv, NEW r \in Handlers, Lose(r)
  PROVE  IInv'
<1>1. End(r) /\ UNCHANGED <<job, pay, claws, opClaw>>
  BY DEF Lose
<1> QED
  BY <1>1, EndFrame, JobFrame DEF IInv, TypeOK, Lose

-----------------------------------------------------------------------------
(* Deliveries, nodes, operators, epochs and the clock. *)

\* Handlers under way are not disturbed by a step that leaves the jobs alone.
LEMMA IdleFrame ==
  ASSUME IInv, UNCHANGED <<job, h>>
  PROVE  HandlersOK'
BY DEF IInv, HandlersOK

\* A heartbeat hands out an assignment and changes no row.
LEMMA DeliverStep ==
  ASSUME IInv, NEW n \in Nodes, NEW j \in Jobs, Deliver(n, j)
  PROVE  IInv'
<1>1. job[j].sigma \in Nat
  BY DEF IInv, TypeOK, JobRows
<1>2. given' \subseteq Nodes \X Jobs \X Nat
  BY <1>1 DEF IInv, TypeOK, Deliver
<1> QED
  BY <1>2, IdleFrame, JobFrame DEF IInv, TypeOK, Deliver

\* A node row that stays typed is all the invariant asks of the node operations.
LEMMA NodeFrame ==
  ASSUME IInv, node' \in [Nodes -> NodeRows],
         UNCHANGED <<now, job, bal, pay, claws, opClaw, closed, draws, given, h, faults>>
  PROVE  IInv'
BY IdleFrame, JobFrame DEF IInv, TypeOK

\* Binding, unbinding, draining, suspending and lifting change the node row only.
LEMMA NodeSteps ==
  ASSUME IInv, NEW n \in Nodes,
         \/ Unbind(n) \/ AdminSuspend(n) \/ AdminLift(n)
         \/ \E w \in Wallets : Bind(n, w)
         \/ \E s \in {"active", "draining"} : Drain(n, s)
  PROVE  IInv'
<1>1. node \in [Nodes -> NodeRows] /\ node[n] \in NodeRows
  BY DEF IInv, TypeOK
<1>2. \A w \in Wallets \cup {None} : [node[n] EXCEPT !.payout = w] \in NodeRows
  BY <1>1 DEF NodeRows
<1>3. \A s \in {"active", "draining", "suspended"} : [node[n] EXCEPT !.state = s] \in NodeRows
  BY <1>1 DEF NodeRows
<1>4. node' \in [Nodes -> NodeRows]
  BY <1>1, <1>2, <1>3 DEF Unbind, AdminSuspend, AdminLift, Bind, Drain, Suspend
<1>5. UNCHANGED <<now, job, bal, pay, claws, opClaw, closed, draws, given, h, faults>>
  BY DEF Unbind, AdminSuspend, AdminLift, Bind, Drain
<1> QED
  BY <1>4, <1>5, NodeFrame

\* An operator claws only a pending entry, so one that no failed check holds.
LEMMA ClawEntryStep ==
  ASSUME IInv, NEW e \in Jobs, ClawEntry(e)
  PROVE  IInv'
<1> DEFINE v == [pay[e] EXCEPT !.st = "clawed"]
<1>1. pay \in [Jobs -> PayRows] /\ pay[e] \in PayRows /\ pay[e].st = "pending"
  BY DEF IInv, TypeOK, ClawEntry
<1>2. v \in PayRows /\ v.st = "clawed"
  BY <1>1 DEF PayRows
<1>3. pay' = [pay EXCEPT ![e] = v] /\ opClaw' = opClaw \cup {e} /\ UNCHANGED <<job, h, claws>>
  BY <1>1 DEF ClawEntry
<1> HIDE DEF v
<1>4. /\ pay' \in [Jobs -> PayRows] /\ pay'[e].st = "clawed"
      /\ \A k \in Jobs \ {e} : pay'[k] = pay[k]
  BY <1>1, <1>2, <1>3
<1>5. PaidIffCaptured'
  BY <1>1, <1>3, <1>4 DEF IInv, PaidIffCaptured
<1>6. JobsOK' /\ OneJobPerNode'
  BY <1>3 DEF IInv, JobsOK, OneJobPerNode, StillAssigned
<1>7. \A p \in claws : p[1] \in Jobs \ {e}
  BY <1>1 DEF IInv, TypeOK, ClawsOK, ClawRowsStand
<1>8. ClawRowsStand'
  BY <1>3, <1>4, <1>7 DEF IInv, TypeOK, ClawsOK, ClawRowsStand
<1>9. \A c \in Jobs : <<e, c>> \notin claws
  BY <1>7
<1>10. OpClawUncovered' /\ OperatorClawStands'
  BY <1>3, <1>4, <1>9 DEF IInv, TypeOK, ClawsOK, OpClawUncovered, OperatorClawStands
<1> QED
  BY <1>3, <1>4, <1>5, <1>6, <1>8, <1>10, IdleFrame DEF IInv, TypeOK, ClawsOK, ClawEntry

\* A reversal restores only what no other failed check and no operator holds.
LEMMA ReverseStep ==
  ASSUME IInv, NEW c \in Jobs, ReverseSampleClaw(c)
  PROVE  IInv'
<1> DEFINE row == [job[c] EXCEPT !.sample = "reversed"]
<1>1. /\ job \in [Jobs -> JobRows] /\ job[c] \in JobRows /\ pay \in [Jobs -> PayRows]
      /\ claws \subseteq Jobs \X Jobs /\ opClaw \subseteq Jobs
      /\ job[c].sample \in {"failed", "reversed"} /\ job[c].st \in {"done", "failed"}
  BY DEF IInv, TypeOK, ReverseSampleClaw, JobsOK
<1>2. /\ row \in JobRows /\ row.st = job[c].st /\ row.sample = "reversed"
      /\ row.node = job[c].node /\ row.cap = job[c].cap
  BY <1>1 DEF JobRows
<1>3. job' = [job EXCEPT ![c] = row] /\ claws' = {p \in claws : p[2] # c} /\ UNCHANGED opClaw
  BY <1>1 DEF ReverseSampleClaw
<1> HIDE DEF row
<1>4. /\ job' \in [Jobs -> JobRows] /\ job'[c] = row
      /\ \A k \in Jobs \ {c} : job'[k] = job[k]
  BY <1>1, <1>2, <1>3
<1>5. \A e \in Jobs : /\ [pay[e] EXCEPT !.st = "pending"] \in PayRows
                      /\ [pay[e] EXCEPT !.st = "pending"].st = "pending"
  BY <1>1 DEF PayRows
<1>6. \A e \in Jobs :
        pay'[e] = IF Restorable(e, c) THEN [pay[e] EXCEPT !.st = "pending"] ELSE pay[e]
  BY DEF ReverseSampleClaw
<1>7. pay' \in [Jobs -> PayRows]
  BY <1>1, <1>5 DEF ReverseSampleClaw
<1>8. \A e \in Jobs : Restorable(e, c) =>
        /\ pay[e].st = "clawed" /\ <<e, c>> \in claws
        /\ \A d \in Jobs \ {c} : <<e, d>> \notin claws
  BY DEF Restorable
<1>9. \A e \in Jobs : pay'[e].st = "none" <=> pay[e].st = "none"
  BY <1>5, <1>6, <1>8
<1>10. JobsOK'
  BY <1>1, <1>2, <1>4 DEF IInv, JobsOK
<1>11. PaidIffCaptured'
  BY <1>1, <1>2, <1>4, <1>9 DEF IInv, PaidIffCaptured
<1>12. OneJobPerNode'
  BY <1>2, <1>4 DEF IInv, OneJobPerNode, StillAssigned
<1>13. ClawRowsStand'
  <2> SUFFICES ASSUME NEW e \in Jobs, NEW d \in Jobs, <<e, d>> \in claws, d # c
               PROVE  job'[d].sample = "failed" /\ pay'[e].st = "clawed"
    BY <1>1, <1>3 DEF ClawRowsStand
  <2>1. job[d].sample = "failed" /\ pay[e].st = "clawed"
    BY DEF IInv, ClawsOK, ClawRowsStand
  <2>2. ~ Restorable(e, c)
    BY <1>8
  <2> QED
    BY <1>4, <1>6, <2>1, <2>2
<1>14. OpClawUncovered'
  BY <1>3 DEF IInv, ClawsOK, OpClawUncovered
<1>15. OperatorClawStands'
  BY <1>1, <1>3, <1>6, <1>8 DEF IInv, ClawsOK, OpClawUncovered, OperatorClawStands
<1>16. HandlersOK'
  <2>1. \A k \in Jobs : job'[k].st = job[k].st
    BY <1>2, <1>4
  <2>2. UNCHANGED h
    BY DEF ReverseSampleClaw
  <2> QED
    BY <2>1, <2>2 DEF IInv, HandlersOK
<1> QED
  BY <1>3, <1>4, <1>7, <1>10, <1>11, <1>12, <1>13, <1>14, <1>15, <1>16
     DEF IInv, TypeOK, ClawsOK, ReverseSampleClaw

\* Closing posts or moves pending entries only: no clawed one is revived.
LEMMA CloseStep ==
  ASSUME IInv, CloseEpochs
  PROVE  IInv'
<1>1. pay \in [Jobs -> PayRows] /\ claws \subseteq Jobs \X Jobs /\ opClaw \subseteq Jobs
  BY DEF IInv, TypeOK
<1>2. epochOf(now) \in Nat
  BY EpochNat DEF IInv, TypeOK
<1>a. \A e \in Jobs : /\ [pay[e] EXCEPT !.st = "posted"] \in PayRows
                      /\ [pay[e] EXCEPT !.st = "posted"].st = "posted"
                      /\ [pay[e] EXCEPT !.epoch = epochOf(now)] \in PayRows
                      /\ [pay[e] EXCEPT !.epoch = epochOf(now)].st = pay[e].st
  BY <1>1, <1>2 DEF PayRows
<1>b. closed' \subseteq Nat
  BY <1>1 DEF IInv, TypeOK, PayRows, CloseEpochs, DueEpochs
<1>3. pay' \in [Jobs -> PayRows]
  BY <1>1, <1>a DEF CloseEpochs
<1>4. \A e \in Jobs : /\ pay'[e].st = "none" <=> pay[e].st = "none"
                      /\ pay[e].st = "clawed" => pay'[e].st = "clawed"
  BY <1>a DEF CloseEpochs
<1>5. UNCHANGED <<job, claws, opClaw, h>>
  BY DEF CloseEpochs
<1>6. PaidIffCaptured'
  BY <1>4, <1>5 DEF IInv, PaidIffCaptured
<1>7. JobsOK' /\ OneJobPerNode'
  BY <1>5 DEF IInv, JobsOK, OneJobPerNode, StillAssigned
<1>8. ClawsOK'
  BY <1>1, <1>4, <1>5 DEF IInv, ClawsOK, ClawRowsStand, OpClawUncovered, OperatorClawStands
<1> QED
  BY <1>b, <1>3, <1>5, <1>6, <1>7, <1>8, IdleFrame DEF IInv, TypeOK, CloseEpochs

\* Time passing changes no row.
LEMMA TickStep ==
  ASSUME IInv, Tick
  PROVE  IInv'
BY IdleFrame, JobFrame DEF IInv, TypeOK, Tick

-----------------------------------------------------------------------------
(* The theorems. *)

\* Every step of every handler, node and operator keeps the invariant.
LEMMA StepIInv == IInv /\ [Next]_vars => IInv'
<1> SUFFICES ASSUME IInv, [Next]_vars PROVE IInv'
  OBVIOUS
<1>1. CASE UNCHANGED vars
  BY <1>1, IdleFrame, JobFrame DEF vars, IInv, TypeOK
<1>2. ASSUME NEW r \in Handlers,
             \/ \E j \in Jobs : EnqueueHold(r, j)
             \/ EnqueueInsert(r) \/ EnqueueFails(r)
             \/ AssignExpire(r) \/ AssignRead(r) \/ AssignDraw(r) \/ AssignSkip(r)
      PROVE  IInv'
  BY <1>2, EnqueueHoldStep, EnqueueInsertStep, EnqueueFailsStep, AssignExpireStep,
     AssignReadStep, AssignDrawStep, AssignSkipStep
<1>3. ASSUME NEW r \in Handlers,
             \/ \E n \in Nodes, j \in Jobs, w \in 1..MaxDraws : Submit(r, n, j, w)
             \/ SubmitLoad(r) \/ SubmitInline(r) \/ SubmitCommitment(r)
             \/ \E n \in Nodes, j \in Jobs : Answer(r, n, j)
             \/ AnswerChallenge(r)
             \/ \E j \in Jobs : SweepRead(r, j)
             \/ SweepCatch(r) \/ ReleaseHold(r) \/ Lose(r)
      PROVE  IInv'
  BY <1>3, SubmitStep, SubmitLoadStep, SubmitInlineStep, SubmitCommitmentStep, AnswerStep,
     AnswerChallengeStep, SweepReadStep, SweepCatchStep, ReleaseHoldStep, LoseStep
<1>4. ASSUME NEW j \in Jobs,
             \/ IssueProtocol(j) \/ DropProtocol(j)
             \/ \E n \in Nodes : Deliver(n, j)
             \/ ClawEntry(j) \/ ReverseSampleClaw(j)
      PROVE  IInv'
  BY <1>4, IssueProtocolStep, DropProtocolStep, DeliverStep, ClawEntryStep, ReverseStep
<1>5. ASSUME NEW n \in Nodes,
             \/ Unbind(n) \/ AdminSuspend(n) \/ AdminLift(n)
             \/ \E w \in Wallets : Bind(n, w)
             \/ \E s \in {"active", "draining"} : Drain(n, s)
      PROVE  IInv'
  BY <1>5, NodeSteps
<1>6. CASE CloseEpochs \/ Tick
  BY <1>6, CloseStep, TickStep
<1> QED
  BY <1>1, <1>2, <1>3, <1>4, <1>5, <1>6 DEF Next

\* The inductive invariant holds of every behaviour of the orchestrator's jobs.
THEOREM Invariance == Spec => []IInv
<1>1. Init => IInv
  BY InitIInv
<1>2. IInv /\ [Next]_vars => IInv'
  BY StepIInv
<1> QED
  BY <1>1, <1>2, PTL DEF Spec

\* Every row keeps its type, whatever jobs, nodes, handlers and bounds there are.
THEOREM TypeCorrect == Spec => []TypeOK
<1>1. IInv => TypeOK
  BY DEF IInv
<1> QED
  BY <1>1, Invariance, PTL

\* runAssignment: overlapping passes never give one node two jobs.
THEOREM OneJob == Spec => []OneJobPerNode
<1>1. IInv => OneJobPerNode
  BY DEF IInv
<1> QED
  BY <1>1, Invariance, PTL

\* bookVerified: reward entries exist exactly for the captured fees of done jobs.
THEOREM CaptureAndPay == Spec => []PaidIffCaptured
<1>1. IInv => PaidIffCaptured
  BY DEF IInv
<1> QED
  BY <1>1, Invariance, PTL

\* caughtStatements, reverseSampleClaw: what stands clawed for one failed check
\* is not given back by the reversal of another.
THEOREM ClawsStand == Spec => []ClawRowsStand
<1>1. IInv => ClawRowsStand
  BY DEF IInv, ClawsOK
<1> QED
  BY <1>1, Invariance, PTL

\* clawEntry: an operator's claw is final, whatever checks fail or are reversed.
THEOREM OperatorFinal == Spec => []OperatorClawStands
<1>1. IInv => OperatorClawStands
  BY DEF IInv, ClawsOK
<1> QED
  BY <1>1, Invariance, PTL

-----------------------------------------------------------------------------
(* A finished job stays finished. *)

\* A step that changes one row of an unfinished job, and no entry's wallet or
\* epoch but that job's, keeps every finished job.
LEMMA KeptFrame ==
  ASSUME IInv, NEW j \in Jobs, NEW row,
         job' = job \/ (job' = [job EXCEPT ![j] = row] /\ job[j].st \notin {"done", "failed"}),
         \A e \in Jobs \ {j} : pay'[e].to = pay[e].to,
         job[j].st \in {"done", "failed"} => pay'[j].to = pay[j].to
  PROVE  FinishedKept
<1>1. \A k \in Jobs : job[k].st \in {"done", "failed"} => job'[k] = job[k]
  BY DEF IInv, TypeOK
<1> QED
  BY <1>1 DEF FinishedKept

\* Jobs and entries both left alone.
LEMMA KeptSame ==
  ASSUME UNCHANGED <<job, pay>>
  PROVE  FinishedKept
BY DEF FinishedKept

\* refuse writes only a job that is still assigned.
LEMMA RefuseKept ==
  ASSUME IInv, NEW r \in Handlers, h[r].pc = "verify", Refuse(r), UNCHANGED pay
  PROVE  FinishedKept
<1> DEFINE j == h[r].job
           row == [job[j] EXCEPT !.attempts = @ + 1]
           next == IF h[r].row.attempts + 1 >= MaxAttempts
                   THEN [row EXCEPT !.st = "failed", !.exp = 0] ELSE Cleared(row)
<1>1. j \in Jobs
  BY DEF IInv, HandlersOK
<1>2. job' = job \/ (job' = [job EXCEPT ![j] = next] /\ job[j].st = "assigned")
  BY DEF Refuse, StillAssigned
<1> HIDE DEF next
<1> QED
  BY <1>1, <1>2, KeptFrame

\* bookVerified writes only a job that is still assigned, and claws keep an
\* entry's wallet and epoch.
LEMMA BookKept ==
  ASSUME IInv, NEW r \in Handlers, h[r].pc \in {"verify", "answer"},
         NEW to \in Wallets \cup {None}, NEW z, NEW sample, NEW caught \in BOOLEAN,
         BookVerified(r, to, z, sample, caught)
  PROVE  FinishedKept
<1> DEFINE j == h[r].job
           n == h[r].node
           t == h[r].now
           still == StillAssigned(j, n)
           auth == still /\ job[j].cap = 0 /\ bal.held >= Price[j]
           cap == IF auth THEN t ELSE job[j].cap
           paid == still /\ cap = t
           entry == [st |-> IF caught THEN "clawed" ELSE "pending",
                     to |-> to, epoch |-> BookingEpoch(t)]
           entries == IF paid THEN [pay EXCEPT ![j] = entry] ELSE pay
           row == [job[j] EXCEPT !.st = "done", !.cap = cap, !.z = z, !.sample = sample]
<1>1. /\ j \in Jobs /\ t \in Nat
      /\ pay \in [Jobs -> PayRows] /\ job \in [Jobs -> JobRows]
  BY DEF IInv, TypeOK, HandlersOK, HandlerRows
<1>2. /\ pay' = IF caught /\ still THEN ClawedBy(j, n, to, t, entries) ELSE entries
      /\ job' = IF still THEN [job EXCEPT ![j] = row] ELSE job
  BY <1>1 DEF BookVerified
<1>3. entry \in PayRows
  BY <1>1, EpochNat DEF PayRows
<1>4. still => job[j].st = "assigned"
  BY DEF StillAssigned
<1>5. /\ entries \in [Jobs -> PayRows] /\ \A e \in Jobs \ {j} : entries[e] = pay[e]
      /\ ~ still => entries = pay
  BY <1>1, <1>3
<1> HIDE DEF entry, entries, row, still
<1>6. \A e \in Jobs : /\ ClawedBy(j, n, to, t, entries)[e].to = entries[e].to
                      /\ ClawedBy(j, n, to, t, entries)[e].epoch = entries[e].epoch
  BY <1>5 DEF ClawedBy, PayRows
<1>7. \A e \in Jobs : pay'[e].to = entries[e].to
  BY <1>2, <1>6
<1>8. job' = job \/ (job' = [job EXCEPT ![j] = row] /\ job[j].st \notin {"done", "failed"})
  BY <1>2, <1>4
<1>9. \A e \in Jobs \ {j} : pay'[e].to = pay[e].to
  BY <1>5, <1>7
<1>10. job[j].st \in {"done", "failed"} => pay'[j].to = pay[j].to
  BY <1>1, <1>4, <1>5, <1>7
<1> HIDE DEF j
<1> QED
  BY <1>1, <1>8, <1>9, <1>10, KeptFrame

\* caughtChallenge writes only a job that is still assigned.
LEMMA CatchKept ==
  ASSUME IInv, NEW r \in Handlers, h[r].pc \in {"answer", "sweep"}, CaughtChallenge(r)
  PROVE  FinishedKept
<1> DEFINE j == h[r].job
           P == ClawedBy(j, h[r].node, ChallengeWallet(r), h[r].now, pay)
           row == [job[j] EXCEPT !.st = "failed", !.sample = "failed", !.exp = 0, !.chal = 0]
<1>1. j \in Jobs /\ pay \in [Jobs -> PayRows]
  BY SMTT(60) DEF IInv, TypeOK, HandlersOK
<1>2. /\ job' = job \/ (job' = [job EXCEPT ![j] = row] /\ job[j].st = "assigned")
      /\ pay' = pay \/ pay' = P
  BY DEF CaughtChallenge, StillAssigned
<1>3. \A e \in Jobs : P[e].to = pay[e].to
  BY <1>1 DEF ClawedBy, PayRows
<1> HIDE DEF row, P
<1>4. \A e \in Jobs : pay'[e].to = pay[e].to
  BY <1>2, <1>3
<1>5. job' = job \/ (job' = [job EXCEPT ![j] = row] /\ job[j].st \notin {"done", "failed"})
  BY <1>2
<1> HIDE DEF j
<1> QED
  BY <1>1, <1>4, <1>5, KeptFrame

\* The steps of handlers before a job's work is checked.
LEMMA EarlyKept ==
  ASSUME IInv, NEW r \in Handlers,
         \/ \E j \in Jobs : EnqueueHold(r, j)
         \/ EnqueueInsert(r) \/ EnqueueFails(r)
         \/ AssignExpire(r) \/ AssignRead(r) \/ AssignDraw(r) \/ AssignSkip(r)
  PROVE  FinishedKept
<1>1. CASE \/ \E j \in Jobs : EnqueueHold(r, j)
           \/ EnqueueFails(r) \/ AssignRead(r) \/ AssignSkip(r)
  BY <1>1, KeptSame DEF EnqueueHold, EnqueueFails, AssignRead, AssignSkip
<1>2. CASE EnqueueInsert(r)
  <2>1. h[r].job \in Jobs /\ job[h[r].job].st = "absent"
    BY <1>2 DEF IInv, HandlersOK, EnqueueInsert
  <2>2. /\ job' = [job EXCEPT ![h[r].job] = [job[h[r].job] EXCEPT !.st = "queued"]]
        /\ UNCHANGED pay
    BY <1>2 DEF EnqueueInsert
  <2> QED
    BY <2>1, <2>2, KeptFrame
<1>3. CASE AssignExpire(r)
  BY <1>3 DEF AssignExpire, FinishedKept
<1>4. CASE AssignDraw(r)
  <2>1. PICK j \in h[r].queue, n \in h[r].pool :
          IF CanAssign(j, n)
          THEN job' = [job EXCEPT ![j].st = "assigned", ![j].node = n,
                                  ![j].sigma = draws[j] + 1,
                                  ![j].exp = h[r].now + AssignTTL]
          ELSE UNCHANGED job
    BY ZenonT(60), <1>4 DEF AssignDraw
  <2>2. j \in Jobs /\ UNCHANGED pay
    BY <1>4 DEF IInv, TypeOK, HandlerRows, AssignDraw
  <2>3. \A k \in Jobs : job[k].st # "queued" => job'[k] = job[k]
    BY <2>1, <2>2 DEF CanAssign, IInv, TypeOK
  <2> QED
    BY SMTT(60), <2>2, <2>3 DEF FinishedKept
<1> QED
  BY SMTT(60), <1>1, <1>2, <1>3, <1>4

\* The steps of handlers that check a job's work.
LEMMA CheckKept ==
  ASSUME IInv, NEW r \in Handlers,
         \/ \E n \in Nodes, j \in Jobs, w \in 1..MaxDraws : Submit(r, n, j, w)
         \/ SubmitLoad(r) \/ SubmitInline(r) \/ SubmitCommitment(r)
         \/ \E n \in Nodes, j \in Jobs : Answer(r, n, j)
         \/ AnswerChallenge(r)
         \/ \E j \in Jobs : SweepRead(r, j)
         \/ SweepCatch(r) \/ ReleaseHold(r) \/ Lose(r)
  PROVE  FinishedKept
<1>1. h[r] \in HandlerRows
  BY DEF IInv, TypeOK
<1>2. h[r].payout \in Wallets \cup {None} /\ h[r].row \in JobRows
  BY <1>1 DEF HandlerRows
<1>3. ChallengeWallet(r) \in Wallets \cup {None}
  BY SMTT(60), <1>2 DEF ChallengeWallet, JobRows
<1>4. CASE \/ \E n \in Nodes, j \in Jobs, w \in 1..MaxDraws : Submit(r, n, j, w)
           \/ SubmitLoad(r)
           \/ \E n \in Nodes, j \in Jobs : Answer(r, n, j)
           \/ \E j \in Jobs : SweepRead(r, j)
           \/ ReleaseHold(r) \/ Lose(r)
  BY <1>4, KeptSame DEF Submit, SubmitLoad, Answer, SweepRead, ReleaseHold, Lose
<1>5. CASE SubmitInline(r)
  BY <1>5, <1>2, BookKept, RefuseKept DEF SubmitInline
<1>6. CASE SubmitCommitment(r)
  <2>1. h[r].pc = "verify" /\ UNCHANGED pay
    BY <1>6 DEF SubmitCommitment
  <2>2. CASE Refuse(r)
    BY <2>1, <2>2, RefuseKept
  <2>3. CASE StoreCommitment(r)
    <3> DEFINE j == h[r].job
               d == h[r].now + ChallengeTTL
               row == [job[j] EXCEPT !.committed = TRUE, !.z = h[r].work, !.chal = d,
                                     !.exp = d, !.cpay = h[r].payout]
    <3>1. job' = job \/ (job' = [job EXCEPT ![j] = row] /\ job[j].st = "assigned")
      BY <2>3 DEF StoreCommitment, StillAssigned
    <3>2. j \in Jobs
      BY <2>1 DEF IInv, HandlersOK
    <3> HIDE DEF row
    <3> QED
      BY SMTT(60), <2>1, <3>1, <3>2, KeptFrame
  <2> QED
    BY <1>6, <2>2, <2>3 DEF SubmitCommitment
<1>7. CASE AnswerChallenge(r)
  <2>1. h[r].pc = "answer"
    BY <1>7 DEF AnswerChallenge
  <2>2. CASE CaughtChallenge(r)
    BY <2>1, <2>2, CatchKept
  <2>3. CASE AnswerMisfit(r) /\ UNCHANGED pay
    <3> DEFINE j == h[r].job
               row == [job[j] EXCEPT !.st = "failed", !.exp = 0, !.chal = 0]
    <3>1. job' = job \/ (job' = [job EXCEPT ![j] = row] /\ job[j].st = "assigned")
      BY <2>3 DEF AnswerMisfit, StillAssigned
    <3>2. j \in Jobs
      BY <2>1 DEF IInv, HandlersOK
    <3> HIDE DEF row
    <3> QED
      BY <2>3, <3>1, <3>2, KeptFrame
  <2>4. CASE UNCHANGED <<job, pay>>
    BY <2>4, KeptSame
  <2>5. CASE BookVerified(r, ChallengeWallet(r), h[r].row.z, "passed", FALSE)
    BY <1>3, <2>1, <2>5, BookKept
  <2> QED
    BY <1>7, <2>2, <2>3, <2>4, <2>5 DEF AnswerChallenge
<1>8. CASE SweepCatch(r)
  BY <1>8, CatchKept DEF SweepCatch
<1> QED
  BY <1>4, <1>5, <1>6, <1>7, <1>8

\* The steps of nodes, operators, epochs and the clock.
LEMMA OtherKept ==
  ASSUME IInv,
         \/ \E j \in Jobs : IssueProtocol(j) \/ DropProtocol(j)
         \/ \E n \in Nodes, j \in Jobs : Deliver(n, j)
         \/ \E n \in Nodes : Unbind(n) \/ AdminSuspend(n) \/ AdminLift(n)
         \/ \E n \in Nodes, w \in Wallets : Bind(n, w)
         \/ \E n \in Nodes, s \in {"active", "draining"} : Drain(n, s)
         \/ \E e \in Jobs : ClawEntry(e) \/ ReverseSampleClaw(e)
         \/ CloseEpochs \/ Tick
  PROVE  FinishedKept
<1>1. job \in [Jobs -> JobRows] /\ pay \in [Jobs -> PayRows]
  BY DEF IInv, TypeOK
<1>2. CASE \/ \E n \in Nodes, j \in Jobs : Deliver(n, j)
           \/ \E n \in Nodes : Unbind(n) \/ AdminSuspend(n) \/ AdminLift(n)
           \/ \E n \in Nodes, w \in Wallets : Bind(n, w)
           \/ \E n \in Nodes, s \in {"active", "draining"} : Drain(n, s)
           \/ Tick
  BY <1>2, KeptSame DEF Deliver, Unbind, AdminSuspend, AdminLift, Bind, Drain, Tick
<1>3. ASSUME NEW j \in Jobs, IssueProtocol(j) \/ DropProtocol(j)
      PROVE  FinishedKept
  <2>1. CASE IssueProtocol(j)
    <3>1. job' = [job EXCEPT ![j] = [job[j] EXCEPT !.st = "queued"]]
      BY <2>1 DEF IssueProtocol
    <3> QED
      BY <2>1, <3>1, KeptFrame DEF IssueProtocol
  <2>2. CASE DropProtocol(j)
    BY <2>2, KeptFrame DEF DropProtocol
  <2> QED
    BY <1>3, <2>1, <2>2
<1>4. ASSUME NEW e \in Jobs, ClawEntry(e)
      PROVE  FinishedKept
  <2>1. job' = job /\ \A k \in Jobs : pay'[k].to = pay[k].to
    BY <1>1, <1>4 DEF ClawEntry, PayRows
  <2> QED
    BY <2>1 DEF FinishedKept
<1>5. ASSUME NEW c \in Jobs, ReverseSampleClaw(c)
      PROVE  FinishedKept
  <2>1. \A k \in Jobs : pay'[k].to = pay[k].to
    BY <1>1, <1>5 DEF ReverseSampleClaw, PayRows
  <2>2. \A k \in Jobs : /\ job'[k].st = job[k].st /\ job'[k].z = job[k].z
                        /\ job'[k].cap = job[k].cap
    BY <1>1, <1>5 DEF ReverseSampleClaw, JobRows
  <2> QED
    BY <2>1, <2>2 DEF FinishedKept
<1>6. CASE CloseEpochs
  <2>1. job' = job /\ \A k \in Jobs : pay'[k].to = pay[k].to
    BY <1>1, <1>6 DEF CloseEpochs, PayRows
  <2> QED
    BY <2>1 DEF FinishedKept
<1> QED
  BY <1>2, <1>3, <1>4, <1>5, <1>6

\* A step of any kind keeps what is finished.
LEMMA StepKept == IInv /\ [Next]_vars => [FinishedKept]_vars
BY EarlyKept, CheckKept, OtherKept DEF Next

\* bookVerified, refuse, caughtChallenge: a finished job stays finished and its
\* proof, capture and pay are never written again, in whatever order handlers run.
THEOREM FinishedForGood == Spec => FinishedStays
BY StepKept, Invariance, PTL DEF Spec, FinishedStays

-----------------------------------------------------------------------------
(* The customer's money: what is held, what is owed and what was captured. *)

\* What is held for a job in state st, for a handler that is to insert a job or to
\* release a hold, and what a job captured at cap has paid.
heldFor(j, st) == IF st \in {"queued", "assigned"} THEN Price[j] ELSE 0
owedBy(v) == IF v.pc \in {"insert", "refund"} THEN Price[v.job] ELSE 0
paidFor(j, cap) == IF cap # 0 THEN Price[j] ELSE 0

\* A step that touches one job's row moves what the jobs owe and what was captured
\* by that job's price, or not at all.
LEMMA JobSumsMove ==
  ASSUME NEW j \in Jobs,
         \A k \in Jobs \ {j} : job'[k].st = job[k].st /\ job'[k].cap = job[k].cap
  PROVE  /\ Owed \in Nat /\ Owed' \in Nat /\ CapturedFees \in Nat /\ CapturedFees' \in Nat
         /\ Owed' = Owed - heldFor(j, job[j].st) + heldFor(j, job'[j].st)
         /\ CapturedFees' = CapturedFees - paidFor(j, job[j].cap) + paidFor(j, job'[j].cap)
<1> DEFINE S == {k \in Jobs : Live(k)}
<1>1. /\ IsFiniteSet(S) /\ IsFiniteSet(Captured) /\ \A k \in Jobs : Price[k] \in Nat
      /\ S \subseteq Jobs /\ S' \subseteq Jobs /\ Captured \subseteq Jobs /\ Captured' \subseteq Jobs
  BY WorkJobsAssumption, FS_Subset DEF Captured
<1>2. /\ \A x : x # j => (x \in S' <=> x \in S)
      /\ \A x : x # j => (x \in Captured' <=> x \in Captured)
  BY DEF Live, Captured
<1>3. /\ j \in S <=> job[j].st \in {"queued", "assigned"}
      /\ j \in S' <=> job'[j].st \in {"queued", "assigned"}
      /\ j \in Captured <=> job[j].cap # 0
      /\ j \in Captured' <=> job'[j].cap # 0
  BY DEF Live, Captured
<1>4. /\ Owed = SumFunctionOnSet(Price, S) /\ Owed' = SumFunctionOnSet(Price, S')
      /\ CapturedFees = SumFunctionOnSet(Price, Captured)
      /\ CapturedFees' = SumFunctionOnSet(Price, Captured')
  BY DEF Owed, CapturedFees
<1> HIDE DEF S
<1>5. /\ Owed \in Nat /\ Owed' \in Nat
      /\ Owed' = Owed - (IF j \in S THEN Price[j] ELSE 0) + (IF j \in S' THEN Price[j] ELSE 0)
  BY <1>1, <1>2, <1>4, SumChange
<1>6. /\ CapturedFees \in Nat /\ CapturedFees' \in Nat
      /\ CapturedFees' = CapturedFees - (IF j \in Captured THEN Price[j] ELSE 0)
                         + (IF j \in Captured' THEN Price[j] ELSE 0)
  BY SMTT(60), <1>1, <1>2, <1>4, SumChange
<1> QED
  BY <1>3, <1>5, <1>6 DEF heldFor, paidFor

\* A step that leaves every job live or not, captured or not, moves neither sum.
LEMMA JobSumsStay ==
  ASSUME \A k \in Jobs : Live(k)' = Live(k) /\ job'[k].cap = job[k].cap
  PROVE  Owed' = Owed /\ CapturedFees' = CapturedFees /\ Owed \in Nat /\ CapturedFees \in Nat
<1> DEFINE S == {k \in Jobs : Live(k)}
<1>1. S' = S /\ Captured' = Captured
  BY DEF Captured
<1>2. Owed' = Owed /\ CapturedFees' = CapturedFees
  BY <1>1 DEF Owed, CapturedFees
<1>3. Owed \in Nat /\ CapturedFees \in Nat
  BY WorkJobsAssumption, FS_Subset, SumNat DEF Owed, CapturedFees, Captured
<1> QED
  BY <1>2, <1>3

\* A step of one handler moves what the handlers owe by what that handler owes.
LEMMA InFlightMoves ==
  ASSUME NEW r \in Handlers, \A s \in Handlers \ {r} : h'[s] = h[s],
         \A s \in InFlight : h[s].job \in Jobs, owedBy(h'[r]) \in Nat
  PROVE  /\ OwedInFlight \in Nat /\ OwedInFlight' \in Nat
         /\ OwedInFlight' = OwedInFlight - owedBy(h[r]) + owedBy(h'[r])
<1> DEFINE f == [s \in InFlight |-> Price[h[s].job]]
<1>1. /\ IsFiniteSet(InFlight) /\ \A s \in InFlight : f[s] \in Nat
      /\ InFlight \subseteq Handlers /\ InFlight' \subseteq Handlers
  BY WorkJobsAssumption, FS_Subset DEF InFlight
<1>2. \A x : x # r => (x \in InFlight' <=> x \in InFlight)
  BY DEF InFlight
<1>3. /\ r \in InFlight <=> h[r].pc \in {"insert", "refund"}
      /\ r \in InFlight' <=> h'[r].pc \in {"insert", "refund"}
  BY DEF InFlight
<1>4. r \in InFlight => f[r] = owedBy(h[r])
  BY <1>3 DEF owedBy
<1>5. r \in InFlight' => f'[r] = owedBy(h'[r])
  BY <1>3 DEF owedBy
<1>6. \A s \in InFlight \ {r} : f'[s] = f[s]
  BY <1>1, <1>2
<1>7. OwedInFlight = SumFunctionOnSet(f, InFlight) /\ OwedInFlight' = SumFunctionOnSet(f', InFlight')
  BY DEF OwedInFlight
<1> HIDE DEF f
<1>8. /\ OwedInFlight \in Nat /\ OwedInFlight' \in Nat
      /\ OwedInFlight' = OwedInFlight - (IF r \in InFlight THEN f[r] ELSE 0)
                         + (IF r \in InFlight' THEN f'[r] ELSE 0)
  BY <1>1, <1>2, <1>5, <1>6, <1>7, SumChange
<1> QED
  BY <1>3, <1>4, <1>5, <1>8 DEF owedBy

-----------------------------------------------------------------------------
\* What the inductive invariant says of the rows the money proofs sum over.
LEMMA MoneyFacts ==
  ASSUME IInv
  PROVE  /\ \A s \in InFlight : h[s].job \in Jobs
         /\ \A j \in Jobs : Price[j] \in Nat /\ job[j] \in JobRows
         /\ \A j \in Protocol : Price[j] = 0
         /\ h \in [Handlers -> HandlerRows] /\ job \in [Jobs -> JobRows]
         /\ bal \in [spend : Nat, held : Nat] /\ faults \in Nat
         /\ Owed \in Nat /\ OwedInFlight \in Nat /\ CapturedFees \in Nat
<1>1. \A s \in InFlight : h[s].job \in Jobs
  BY DEF IInv, HandlersOK, InFlight
<1>2. /\ \A j \in Jobs : Price[j] \in Nat /\ job[j] \in JobRows
      /\ h \in [Handlers -> HandlerRows] /\ job \in [Jobs -> JobRows]
      /\ bal \in [spend : Nat, held : Nat] /\ faults \in Nat
  BY WorkJobsAssumption DEF IInv, TypeOK
<1>3. IsFiniteSet({k \in Jobs : Live(k)}) /\ IsFiniteSet(InFlight) /\ IsFiniteSet(Captured)
  BY WorkJobsAssumption, FS_Subset DEF InFlight, Captured
<1>4. \A s \in InFlight : [q \in InFlight |-> Price[h[q].job]][s] \in Nat
  BY <1>1, <1>2
<1>5. Owed \in Nat /\ OwedInFlight \in Nat /\ CapturedFees \in Nat
  BY <1>2, <1>3, <1>4, SumNat DEF Owed, OwedInFlight, CapturedFees, Captured
<1> QED
  BY <1>1, <1>2, <1>5, WorkJobsAssumption

\* A step of one handler, neither before an INSERT nor before a release, that
\* changes no balance, no capture and no job's being live, keeps the money right.
LEMMA QuietMoney ==
  ASSUME IInv, MoneyOK, NEW r \in Handlers, \A s \in Handlers \ {r} : h'[s] = h[s],
         h[r].pc \notin {"insert", "refund"}, h'[r].pc \notin {"insert", "refund"},
         \A k \in Jobs : Live(k)' = Live(k) /\ job'[k].cap = job[k].cap,
         UNCHANGED <<bal, faults>>
  PROVE  MoneyOK'
<1>1. owedBy(h[r]) = 0 /\ owedBy(h'[r]) = 0
  BY DEF owedBy
<1>2. OwedInFlight' = OwedInFlight
  BY <1>1, MoneyFacts, InFlightMoves
<1>3. Owed' = Owed /\ CapturedFees' = CapturedFees
  BY JobSumsStay
<1> QED
  BY <1>2, <1>3 DEF MoneyOK, MoneyConserved

\* A step of one handler that touches one job's row, as numbers.
LEMMA BothMove ==
  ASSUME IInv, NEW r \in Handlers, NEW j \in Jobs, NEW v, h' = [h EXCEPT ![r] = v],
         owedBy(v) \in Nat,
         \A k \in Jobs \ {j} : job'[k].st = job[k].st /\ job'[k].cap = job[k].cap
  PROVE  /\ Owed' = Owed - heldFor(j, job[j].st) + heldFor(j, job'[j].st)
         /\ CapturedFees' = CapturedFees - paidFor(j, job[j].cap) + paidFor(j, job'[j].cap)
         /\ OwedInFlight' = OwedInFlight - owedBy(h[r]) + owedBy(v)
<1>1. h'[r] = v /\ \A s \in Handlers \ {r} : h'[s] = h[s]
  BY MoneyFacts
<1> QED
  BY <1>1, MoneyFacts, InFlightMoves, JobSumsMove

\* enqueueWorkJob's hold is in flight until the INSERT.
LEMMA EnqueueHoldMoney ==
  ASSUME IInv, MoneyOK, NEW r \in Handlers, NEW j \in Jobs, EnqueueHold(r, j)
  PROVE  MoneyOK'
<1> DEFINE v == [Free EXCEPT !.pc = "insert", !.job = j]
<1>1. v.pc = "insert" /\ v.job = j
  BY DEF Free
<1>2. h' = [h EXCEPT ![r] = v] /\ h[r].pc = "idle" /\ UNCHANGED <<job, faults>>
      /\ bal' = [spend |-> bal.spend - Price[j], held |-> bal.held + Price[j]]
  BY DEF EnqueueHold, Hold
<1> HIDE DEF v
<1>3. owedBy(v) = Price[j] /\ owedBy(h[r]) = 0 /\ Price[j] \in Nat
  BY <1>1, <1>2, MoneyFacts DEF owedBy
<1>4. OwedInFlight' = OwedInFlight - owedBy(h[r]) + owedBy(v)
  BY <1>2, <1>3, BothMove
<1>5. Owed' = Owed /\ CapturedFees' = CapturedFees
  BY <1>2, JobSumsStay DEF Live
<1> QED
  BY <1>2, <1>3, <1>4, <1>5, MoneyFacts DEF MoneyOK, MoneyConserved

\* The INSERT turns the hold in flight into the hold of a queued job.
LEMMA EnqueueInsertMoney ==
  ASSUME IInv, MoneyOK, NEW r \in Handlers, EnqueueInsert(r)
  PROVE  MoneyOK'
<1> DEFINE j == h[r].job
           v == [Free EXCEPT !.pc = "assign"]
<1>1. j \in Jobs /\ job[j].st = "absent" /\ h[r].pc = "insert" /\ Price[j] \in Nat
  BY MoneyFacts DEF EnqueueInsert, IInv, HandlersOK
<1>2. v.pc = "assign"
  BY DEF Free
<1>3. h' = [h EXCEPT ![r] = v] /\ UNCHANGED <<bal, faults>>
  BY DEF EnqueueInsert
<1>4. owedBy(v) = 0 /\ owedBy(h[r]) = Price[j]
  BY <1>1, <1>2 DEF owedBy
<1>5. /\ job'[j].st = "queued" /\ job'[j].cap = job[j].cap
      /\ \A k \in Jobs \ {j} : job'[k].st = job[k].st /\ job'[k].cap = job[k].cap
  BY <1>1, MoneyFacts DEF EnqueueInsert, JobRows
<1> HIDE DEF v
<1>6. /\ OwedInFlight' = OwedInFlight - owedBy(h[r]) + owedBy(v)
      /\ Owed' = Owed - heldFor(j, job[j].st) + heldFor(j, job'[j].st)
      /\ CapturedFees' = CapturedFees - paidFor(j, job[j].cap) + paidFor(j, job'[j].cap)
  <2>1. j \in Jobs /\ owedBy(v) \in Nat
        /\ \A k \in Jobs \ {j} : job'[k].st = job[k].st /\ job'[k].cap = job[k].cap
    BY <1>1, <1>4, <1>5
  <2> HIDE DEF j
  <2> QED
    BY <2>1, <1>3, BothMove
<1>7. /\ heldFor(j, job[j].st) = 0 /\ heldFor(j, job'[j].st) = Price[j]
      /\ paidFor(j, job[j].cap) = paidFor(j, job'[j].cap) /\ paidFor(j, job[j].cap) \in Nat
  BY <1>1, <1>5 DEF heldFor, paidFor
<1> QED
  BY <1>1, <1>3, <1>4, <1>6, <1>7, MoneyFacts DEF MoneyOK, MoneyConserved

\* A handler that ends owes nothing more.
LEMMA EndMoves ==
  ASSUME IInv, NEW r \in Handlers, End(r)
  PROVE  /\ OwedInFlight' = OwedInFlight - owedBy(h[r])
         /\ OwedInFlight' \in Nat /\ owedBy(h[r]) \in Nat
<1>1. h'[r] = Free /\ \A s \in Handlers \ {r} : h'[s] = h[s]
  BY MoneyFacts DEF End
<1>2. owedBy(h'[r]) = 0
  BY <1>1 DEF owedBy, Free
<1>3. owedBy(h[r]) \in Nat
  BY MoneyFacts DEF owedBy, InFlight
<1>4. \A s \in InFlight : h[s].job \in Jobs
  BY MoneyFacts
<1>5. /\ OwedInFlight \in Nat /\ OwedInFlight' \in Nat
      /\ OwedInFlight' = OwedInFlight - owedBy(h[r]) + owedBy(h'[r])
  BY <1>1, <1>2, <1>4, InFlightMoves
<1> QED
  BY <1>2, <1>3, <1>5

\* One that goes on to a release owes that job's price.
LEMMA RefundMoves ==
  ASSUME IInv, NEW r \in Handlers, NEW j \in Jobs, ThenRefund(r, j)
  PROVE  /\ OwedInFlight' = OwedInFlight - owedBy(h[r]) + Price[j]
         /\ OwedInFlight' \in Nat /\ owedBy(h[r]) \in Nat
<1> DEFINE v == [Free EXCEPT !.pc = "refund", !.job = j]
<1>0. v.pc = "refund" /\ v.job = j
  BY DEF Free
<1>1. h'[r] = v /\ \A s \in Handlers \ {r} : h'[s] = h[s]
  BY MoneyFacts DEF ThenRefund
<1> HIDE DEF v
<1>2. owedBy(h'[r]) = Price[j] /\ Price[j] \in Nat
  BY <1>0, <1>1, MoneyFacts DEF owedBy
<1>3. owedBy(h[r]) \in Nat
  BY MoneyFacts DEF owedBy, InFlight
<1>4. \A s \in InFlight : h[s].job \in Jobs
  BY MoneyFacts
<1>5. /\ OwedInFlight \in Nat /\ OwedInFlight' \in Nat
      /\ OwedInFlight' = OwedInFlight - owedBy(h[r]) + owedBy(h'[r])
  BY <1>1, <1>2, <1>4, InFlightMoves
<1> QED
  BY <1>2, <1>3, <1>5

\* A handler lost, or an INSERT that throws, can only leave more held than owed.
LEMMA LostMoney ==
  ASSUME IInv, MoneyOK, NEW r \in Handlers, End(r), faults' = faults + 1, UNCHANGED <<bal, job>>
  PROVE  MoneyOK'
<1>1. OwedInFlight' = OwedInFlight - owedBy(h[r]) /\ owedBy(h[r]) \in Nat
  BY EndMoves
<1>2. Owed' = Owed /\ CapturedFees' = CapturedFees
  BY JobSumsStay DEF Live
<1> QED
  BY <1>1, <1>2, MoneyFacts DEF MoneyOK, MoneyConserved

\* Challenge mode gives the hold back when the INSERT throws; matmul keeps it.
LEMMA EnqueueFailsMoney ==
  ASSUME IInv, MoneyOK, NEW r \in Handlers, EnqueueFails(r)
  PROVE  MoneyOK'
<1>1. /\ h[r].job \in Jobs /\ h[r].pc = "insert"
      /\ faults' = faults + 1 /\ UNCHANGED <<bal, job>>
      /\ ThenRefund(r, h[r].job) \/ End(r)
  BY DEF EnqueueFails, IInv, HandlersOK
<1>2. CASE End(r)
  BY <1>1, <1>2, LostMoney
<1>3. CASE ThenRefund(r, h[r].job)
  <2>1. OwedInFlight' = OwedInFlight
    BY <1>1, <1>3, RefundMoves, MoneyFacts DEF owedBy
  <2>2. Owed' = Owed /\ CapturedFees' = CapturedFees
    BY <1>1, JobSumsStay DEF Live
  <2> QED
    BY <1>1, <2>1, <2>2, MoneyFacts DEF MoneyOK, MoneyConserved
<1> QED
  BY <1>1, <1>2, <1>3

\* The release that follows a failed job finds its hold: it is covered.
LEMMA ReleaseHoldMoney ==
  ASSUME IInv, MoneyOK, NEW r \in Handlers, ReleaseHold(r)
  PROVE  MoneyOK'
<1> DEFINE j == h[r].job
<1>1. /\ j \in Jobs /\ h[r].pc = "refund" /\ Price[j] \in Nat
      /\ bal' = Refunded(Price[j]) /\ End(r) /\ UNCHANGED <<job, faults>>
  BY MoneyFacts DEF ReleaseHold, IInv, HandlersOK
<1>3. owedBy(h[r]) = Price[j]
  BY <1>1 DEF owedBy
<1>4. OwedInFlight' = OwedInFlight - Price[j] /\ OwedInFlight' \in Nat
  BY <1>1, <1>3, EndMoves
<1>5. Owed' = Owed /\ CapturedFees' = CapturedFees
  BY <1>1, JobSumsStay DEF Live
<1>6. bal.held >= Price[j]
  BY <1>1, <1>4, MoneyFacts DEF MoneyOK
<1>7. bal'.held = bal.held - Price[j] /\ bal'.spend = bal.spend + Price[j]
  BY <1>1, <1>6, MoneyFacts DEF Refunded
<1> QED
  BY <1>1, <1>4, <1>5, <1>7, MoneyFacts DEF MoneyOK, MoneyConserved

\* A free protocol job changes no sum.
LEMMA ProtocolMoney ==
  ASSUME IInv, MoneyOK, NEW j \in Jobs, IssueProtocol(j) \/ DropProtocol(j)
  PROVE  MoneyOK'
<1>1. /\ Price[j] = 0 /\ job[j].cap = 0 /\ job'[j].cap = 0 /\ UNCHANGED <<bal, h, faults>>
      /\ \A k \in Jobs \ {j} : job'[k] = job[k]
  BY MoneyFacts DEF IssueProtocol, DropProtocol, NoJob, IInv, PaidIffCaptured, JobRows
<1>2. Owed' = Owed /\ CapturedFees' = CapturedFees
  <2>1. \A st : heldFor(j, st) = 0
    BY <1>1 DEF heldFor
  <2>2. \A cap : paidFor(j, cap) = 0
    BY <1>1 DEF paidFor
  <2> QED
    BY <1>1, <2>1, <2>2, JobSumsMove
<1>3. OwedInFlight' = OwedInFlight
  BY <1>1 DEF OwedInFlight, InFlight
<1> QED
  BY <1>1, <1>2, <1>3 DEF MoneyOK, MoneyConserved

\* What changes no balance, no capture, no job's being live and no handler.
LEMMA OutsideMoney ==
  ASSUME IInv, MoneyOK, UNCHANGED <<bal, h, faults>>,
         \A k \in Jobs : job'[k].st = job[k].st /\ job'[k].cap = job[k].cap
  PROVE  MoneyOK'
<1>1. Owed' = Owed /\ CapturedFees' = CapturedFees
  BY JobSumsStay DEF Live
<1>2. OwedInFlight' = OwedInFlight
  BY DEF OwedInFlight, InFlight
<1> QED
  BY <1>1, <1>2 DEF MoneyOK, MoneyConserved

\* A live job's price is part of what is owed, so it is held.
LEMMA LiveIsHeld ==
  ASSUME IInv, MoneyOK, NEW j \in Jobs, Live(j), job'[j].st \notin {"queued", "assigned"},
         \A k \in Jobs \ {j} : job'[k].st = job[k].st /\ job'[k].cap = job[k].cap
  PROVE  /\ Owed' = Owed - Price[j] /\ Owed' \in Nat /\ bal.held >= Price[j]
         /\ CapturedFees' = CapturedFees + paidFor(j, job'[j].cap)
<1>1. heldFor(j, job[j].st) = Price[j] /\ heldFor(j, job'[j].st) = 0 /\ paidFor(j, job[j].cap) = 0
  BY DEF heldFor, paidFor, Live, IInv, PaidIffCaptured
<1>2. /\ Owed' = Owed - heldFor(j, job[j].st) + heldFor(j, job'[j].st) /\ Owed' \in Nat
      /\ CapturedFees' = CapturedFees - paidFor(j, job[j].cap) + paidFor(j, job'[j].cap)
      /\ CapturedFees' \in Nat
  BY JobSumsMove
<1>3. Price[j] \in Nat /\ paidFor(j, job'[j].cap) \in Nat
  BY MoneyFacts DEF paidFor
<1>4. Owed' = Owed - Price[j]
  BY <1>1, <1>2, <1>3, MoneyFacts
<1>5. CapturedFees' = CapturedFees + paidFor(j, job'[j].cap)
  BY <1>1, <1>2, <1>3, MoneyFacts
<1>6. bal.held >= Price[j]
  BY <1>2, <1>3, <1>4, MoneyFacts DEF MoneyOK
<1> QED
  BY <1>2, <1>4, <1>5, <1>6

\* A refused job keeps its hold, or its refund is what is owed.
LEMMA RefuseMoney ==
  ASSUME IInv, MoneyOK, NEW r \in Handlers, h[r].pc = "verify", Refuse(r),
         UNCHANGED <<bal, faults>>
  PROVE  MoneyOK'
<1> DEFINE j == h[r].job
           row == [job[j] EXCEPT !.attempts = @ + 1]
<1>1. j \in Jobs /\ owedBy(h[r]) = 0 /\ job[j] \in JobRows /\ Price[j] \in Nat
  BY MoneyFacts DEF IInv, HandlersOK, owedBy
<1>2. CASE End(r) /\ UNCHANGED job
  <2>1. Owed' = Owed /\ CapturedFees' = CapturedFees
    BY <1>2, JobSumsStay DEF Live
  <2>2. OwedInFlight' = OwedInFlight
    BY <1>1, <1>2, EndMoves, MoneyFacts
  <2> QED
    BY <2>1, <2>2 DEF MoneyOK, MoneyConserved
<1>3. CASE /\ StillAssigned(j, h[r].node) /\ ThenRefund(r, j)
           /\ job' = [job EXCEPT ![j] = [row EXCEPT !.st = "failed", !.exp = 0]]
  <2>1. job[j].st = "assigned" /\ job[j].cap = 0
    BY <1>1, <1>3 DEF StillAssigned, IInv, PaidIffCaptured
  <2>2. /\ job'[j].st = "failed" /\ job'[j].cap = 0
        /\ \A k \in Jobs \ {j} : job'[k].st = job[k].st /\ job'[k].cap = job[k].cap
    BY <1>1, <1>3, <2>1, MoneyFacts DEF JobRows
  <2>3. Owed' = Owed - Price[j] /\ CapturedFees' = CapturedFees
    BY <1>1, <2>1, <2>2, LiveIsHeld, MoneyFacts DEF Live, paidFor
  <2>4. OwedInFlight' = OwedInFlight + Price[j]
    BY <1>1, <1>3, RefundMoves, MoneyFacts
  <2> QED
    BY <1>1, <2>3, <2>4, MoneyFacts DEF MoneyOK, MoneyConserved
<1>4. CASE /\ StillAssigned(j, h[r].node) /\ End(r)
           /\ job' = [job EXCEPT ![j] = Cleared(row)]
  <2>1. Cleared(row).st = "queued" /\ Cleared(row).cap = job[j].cap
    BY SMTT(60), <1>1 DEF Cleared, JobRows
  <2>2. Owed' = Owed /\ CapturedFees' = CapturedFees
    BY <1>1, <1>4, <2>1, MoneyFacts, JobSumsStay DEF StillAssigned, Live
  <2>3. OwedInFlight' = OwedInFlight
    BY <1>1, <1>4, EndMoves, MoneyFacts
  <2> QED
    BY <2>2, <2>3 DEF MoneyOK, MoneyConserved
<1> QED
  BY <1>2, <1>3, <1>4 DEF Refuse

\* bookVerified captures exactly the hold of the job it finishes.
LEMMA BookMoney ==
  ASSUME IInv, MoneyOK, NEW r \in Handlers, h[r].pc \in {"verify", "answer"},
         NEW to, NEW z, NEW sample, NEW caught, BookVerified(r, to, z, sample, caught),
         UNCHANGED faults
  PROVE  MoneyOK'
<1> DEFINE j == h[r].job
<1>1. /\ j \in Jobs /\ owedBy(h[r]) = 0 /\ job[j] \in JobRows /\ Price[j] \in Nat
      /\ h[r].now > 0 /\ h[r].now \in Nat
  BY SMTT(60), MoneyFacts DEF IInv, HandlersOK, owedBy, HandlerRows
<1>2. End(r)
  BY DEF BookVerified
<1>3. OwedInFlight' = OwedInFlight
  BY <1>1, <1>2, EndMoves, MoneyFacts
<1>4. CASE ~ StillAssigned(j, h[r].node)
  <2>1. UNCHANGED <<bal, job>>
    BY <1>4 DEF BookVerified
  <2>2. Owed' = Owed /\ CapturedFees' = CapturedFees
    BY <2>1, JobSumsStay DEF Live
  <2> QED
    BY <1>3, <2>1, <2>2 DEF MoneyOK, MoneyConserved
<1>5. CASE StillAssigned(j, h[r].node)
  <2>1. job[j].st = "assigned" /\ job[j].cap = 0 /\ Live(j)
    BY SMTT(60), <1>1, <1>5 DEF StillAssigned, IInv, PaidIffCaptured, Live
  <2>2. PICK cap : /\ job' = [job EXCEPT ![j].st = "done", ![j].cap = cap, ![j].z = z,
                                         ![j].sample = sample]
                   /\ bal.held >= Price[j] => cap = h[r].now
    BY <1>5, <2>1 DEF BookVerified
  <2>3. /\ job'[j].st = "done" /\ job'[j].cap = cap
        /\ \A k \in Jobs \ {j} : job'[k].st = job[k].st /\ job'[k].cap = job[k].cap
    BY <1>1, <2>2, MoneyFacts DEF JobRows
  <2>4. bal.held >= Price[j] /\ Owed' = Owed - Price[j] /\ Owed' \in Nat
        /\ CapturedFees' = CapturedFees + paidFor(j, cap)
    BY SMTT(60), <1>1, <2>1, <2>3, LiveIsHeld
  <2>5. paidFor(j, cap) = Price[j]
    BY SMTT(60), <1>1, <2>2, <2>4 DEF paidFor
  <2>6. bal' = [bal EXCEPT !.held = @ - Price[j]]
    BY <1>5, <2>1, <2>4 DEF BookVerified
  <2>7. bal'.held = bal.held - Price[j] /\ bal'.spend = bal.spend
    BY <2>6, MoneyFacts
  <2> QED
    BY <1>1, <1>3, <2>4, <2>5, <2>7, MoneyFacts DEF MoneyOK, MoneyConserved
<1> QED
  BY <1>4, <1>5

\* caughtChallenge gives back exactly the hold of the job it fails.
LEMMA CatchMoney ==
  ASSUME IInv, MoneyOK, NEW r \in Handlers, h[r].pc \in {"answer", "sweep"},
         CaughtChallenge(r), UNCHANGED faults
  PROVE  MoneyOK'
<1> DEFINE j == h[r].job
<1>1. j \in Jobs /\ owedBy(h[r]) = 0 /\ job[j] \in JobRows /\ Price[j] \in Nat
  BY SMTT(60), MoneyFacts DEF IInv, HandlersOK, owedBy
<1>2. End(r)
  BY DEF CaughtChallenge
<1>3. OwedInFlight' = OwedInFlight
  BY <1>1, <1>2, EndMoves, MoneyFacts
<1>4. CASE ~ StillAssigned(j, h[r].node)
  <2>1. UNCHANGED <<bal, job>>
    BY <1>4 DEF CaughtChallenge
  <2>2. Owed' = Owed /\ CapturedFees' = CapturedFees
    BY <2>1, JobSumsStay DEF Live
  <2> QED
    BY <1>3, <2>1, <2>2 DEF MoneyOK, MoneyConserved
<1>5. CASE StillAssigned(j, h[r].node)
  <2>1. job[j].st = "assigned" /\ job[j].cap = 0 /\ Live(j)
    BY SMTT(60), <1>1, <1>5 DEF StillAssigned, IInv, PaidIffCaptured, Live
  <2>2. /\ job' = [job EXCEPT ![j].st = "failed", ![j].sample = "failed",
                              ![j].exp = 0, ![j].chal = 0]
        /\ bal' = Refunded(Price[j])
    BY SMTT(60), <1>5 DEF CaughtChallenge
  <2>3. /\ job'[j].st = "failed" /\ job'[j].cap = 0
        /\ \A k \in Jobs \ {j} : job'[k].st = job[k].st /\ job'[k].cap = job[k].cap
    BY <1>1, <2>1, <2>2, MoneyFacts DEF JobRows
  <2>4. bal.held >= Price[j] /\ Owed' = Owed - Price[j] /\ CapturedFees' = CapturedFees
    BY <1>1, <2>1, <2>3, LiveIsHeld, MoneyFacts DEF paidFor
  <2>5. bal'.held = bal.held - Price[j] /\ bal'.spend = bal.spend + Price[j]
    BY <2>2, <2>4, MoneyFacts DEF Refunded
  <2> QED
    BY <1>1, <1>3, <2>4, <2>5, MoneyFacts DEF MoneyOK, MoneyConserved
<1> QED
  BY <1>4, <1>5

\* A job that does not fit its plan is failed, and its refund is owed.
LEMMA MisfitMoney ==
  ASSUME IInv, MoneyOK, NEW r \in Handlers, h[r].pc = "answer", AnswerMisfit(r),
         UNCHANGED <<bal, faults>>
  PROVE  MoneyOK'
<1> DEFINE j == h[r].job
<1>1. j \in Jobs /\ owedBy(h[r]) = 0 /\ job[j] \in JobRows /\ Price[j] \in Nat
  BY MoneyFacts DEF IInv, HandlersOK, owedBy
<1>2. CASE ~ StillAssigned(j, h[r].node)
  <2>1. End(r) /\ UNCHANGED job
    BY <1>2 DEF AnswerMisfit
  <2>2. Owed' = Owed /\ CapturedFees' = CapturedFees
    BY <2>1, JobSumsStay DEF Live
  <2>3. OwedInFlight' = OwedInFlight
    BY <1>1, <2>1, EndMoves, MoneyFacts
  <2> QED
    BY <2>2, <2>3 DEF MoneyOK, MoneyConserved
<1>3. CASE StillAssigned(j, h[r].node)
  <2>1. job[j].st = "assigned" /\ job[j].cap = 0
    BY <1>1, <1>3 DEF StillAssigned, IInv, PaidIffCaptured
  <2>2. /\ job' = [job EXCEPT ![j].st = "failed", ![j].exp = 0, ![j].chal = 0]
        /\ ThenRefund(r, j)
    BY SMTT(60), <1>3 DEF AnswerMisfit
  <2>3. /\ job'[j].st = "failed" /\ job'[j].cap = 0
        /\ \A k \in Jobs \ {j} : job'[k].st = job[k].st /\ job'[k].cap = job[k].cap
    BY <1>1, <2>1, <2>2, MoneyFacts DEF JobRows
  <2>4. Owed' = Owed - Price[j] /\ CapturedFees' = CapturedFees
    BY <1>1, <2>1, <2>3, LiveIsHeld, MoneyFacts DEF Live, paidFor
  <2>5. OwedInFlight' = OwedInFlight + Price[j]
    BY <1>1, <2>2, RefundMoves, MoneyFacts
  <2> QED
    BY <1>1, <2>4, <2>5, MoneyFacts DEF MoneyOK, MoneyConserved
<1> QED
  BY <1>2, <1>3

\* The steps of an assignment pass: queued or assigned, a job's price is held.
LEMMA AssignMoney ==
  ASSUME IInv, MoneyOK, NEW r \in Handlers,
         AssignExpire(r) \/ AssignRead(r) \/ AssignDraw(r) \/ AssignSkip(r)
  PROVE  MoneyOK'
<1>1. /\ h \in [Handlers -> HandlerRows] /\ job \in [Jobs -> JobRows]
      /\ \A k \in Jobs : job[k] \in JobRows
      /\ UNCHANGED <<bal, faults>>
  BY MoneyFacts DEF AssignExpire, AssignRead, AssignDraw, AssignSkip
<1>2. /\ h[r].pc \notin {"insert", "refund"} /\ h'[r].pc \notin {"insert", "refund"}
      /\ \A s \in Handlers \ {r} : h'[s] = h[s]
  <2>0. Free.pc = "idle"
    BY DEF Free
  <2>1. CASE AssignExpire(r)
    BY SMTT(60), <1>1, <2>1 DEF AssignExpire, Free
  <2>2. CASE AssignRead(r)
    <3>1. PICK queue, pool : End(r) \/ h' = [h EXCEPT ![r].pc = "draw", ![r].queue = queue, ![r].pool = pool]
      BY ZenonT(60), <2>2, Zenon DEF AssignRead
    <3>2. h[r].pc = "read" /\ h[r] \in HandlerRows
      BY <1>1, <2>2 DEF AssignRead
    <3> QED
      BY <1>1, <2>0, <3>1, <3>2 DEF End, HandlerRows
  <2>3. CASE AssignDraw(r)
    BY ZenonT(60), <1>1, <2>0, <2>3 DEF AssignDraw, End, HandlerRows
  <2>4. CASE AssignSkip(r)
    BY <1>1, <2>0, <2>4 DEF AssignSkip, End, HandlerRows
  <2> QED
    BY <2>1, <2>2, <2>3, <2>4
<1>3. \A k \in Jobs : Live(k)' = Live(k) /\ job'[k].cap = job[k].cap
  <2>1. CASE AssignExpire(r)
    <3>1. \A k \in Jobs : \/ job'[k] = job[k]
                          \/ job[k].st = "assigned" /\ job'[k] = Cleared(job[k])
      BY <2>1 DEF AssignExpire
    <3>2. \A k \in Jobs : Cleared(job[k]).st = "queued" /\ Cleared(job[k]).cap = job[k].cap
      BY SMTT(60), <1>1 DEF Cleared, JobRows
    <3> QED
      BY <3>1, <3>2 DEF Live
  <2>2. CASE AssignRead(r) \/ AssignSkip(r)
    BY <2>2 DEF AssignRead, AssignSkip, Live
  <2>3. CASE AssignDraw(r)
    <3>1. PICK j \in h[r].queue, n \in h[r].pool :
            IF CanAssign(j, n)
            THEN job' = [job EXCEPT ![j].st = "assigned", ![j].node = n,
                                    ![j].sigma = draws[j] + 1,
                                    ![j].exp = h[r].now + AssignTTL]
            ELSE UNCHANGED job
      BY <2>3 DEF AssignDraw
    <3>2. CASE ~ CanAssign(j, n)
      BY <3>1, <3>2 DEF Live
    <3>3. CASE CanAssign(j, n)
      <4>1. job[j].st = "queued" /\ j \in Jobs
        BY <1>1, <3>3 DEF CanAssign, HandlerRows
      <4>2. /\ \A k \in Jobs \ {j} : job'[k] = job[k]
            /\ job'[j].st = "assigned" /\ job'[j].cap = job[j].cap
        BY <1>1, <3>1, <3>3, <4>1 DEF JobRows
      <4> QED
        BY <4>1, <4>2 DEF Live
    <3> QED
      BY SMTT(60), <3>2, <3>3
  <2> QED
    BY <2>1, <2>2, <2>3
<1> QED
  BY SMTT(60), <1>1, <1>2, <1>3, QuietMoney

\* The steps that only read: a submission, an answer, an overdue challenge.
LEMMA ReadMoney ==
  ASSUME IInv, MoneyOK, NEW r \in Handlers,
         \/ \E n \in Nodes, j \in Jobs, w \in 1..MaxDraws : Submit(r, n, j, w)
         \/ SubmitLoad(r)
         \/ \E n \in Nodes, j \in Jobs : Answer(r, n, j)
         \/ \E j \in Jobs : SweepRead(r, j)
  PROVE  MoneyOK'
<1>1. h \in [Handlers -> HandlerRows] /\ UNCHANGED <<job, bal, faults>>
  BY MoneyFacts DEF Submit, SubmitLoad, Answer, SweepRead
<1>2. /\ h[r].pc \notin {"insert", "refund"} /\ h'[r].pc \notin {"insert", "refund"}
      /\ \A s \in Handlers \ {r} : h'[s] = h[s]
  <2>1. CASE \E n \in Nodes, j \in Jobs, w \in 1..MaxDraws : Submit(r, n, j, w)
    BY ZenonT(60), <1>1, <2>1 DEF Submit, Free
  <2>2. CASE SubmitLoad(r)
    BY <1>1, <2>2 DEF SubmitLoad, End, Free, HandlerRows
  <2>3. CASE \E n \in Nodes, j \in Jobs : Answer(r, n, j)
    <3>1. PICK n \in Nodes, j \in Jobs : Answer(r, n, j)
      BY <2>3
    <3> DEFINE v == [Free EXCEPT !.pc = "answer", !.job = j, !.node = n, !.now = now,
                                 !.row = job[j], !.payout = node[n].payout]
    <3>2. v.pc = "answer"
      BY DEF Free
    <3>3. h[r].pc = "idle" /\ h' = [h EXCEPT ![r] = v]
      BY <3>1 DEF Answer
    <3> HIDE DEF v
    <3> QED
      BY <1>1, <3>2, <3>3
  <2>4. CASE \E j \in Jobs : SweepRead(r, j)
    BY ZenonT(60), <1>1, <2>4 DEF SweepRead, Free
  <2> QED
    BY <2>1, <2>2, <2>3, <2>4
<1> QED
  BY <1>1, <1>2, QuietMoney DEF Live

\* A stored commitment captures nothing yet.
LEMMA StoreMoney ==
  ASSUME IInv, MoneyOK, NEW r \in Handlers, h[r].pc = "verify",
         StoreCommitment(r), End(r), UNCHANGED <<bal, faults>>
  PROVE  MoneyOK'
<1>1. /\ h[r].pc \notin {"insert", "refund"} /\ h'[r].pc \notin {"insert", "refund"}
      /\ \A s \in Handlers \ {r} : h'[s] = h[s]
  BY MoneyFacts DEF End, Free
<1>2. \A k \in Jobs : job'[k].st = job[k].st /\ job'[k].cap = job[k].cap
  BY MoneyFacts DEF StoreCommitment, JobRows
<1> QED
  BY <1>1, <1>2, QuietMoney DEF Live

\* The customer's money at the start, and after each step.
LEMMA MoneyInit == Init => MoneyOK
<1> SUFFICES ASSUME Init PROVE MoneyOK
  OBVIOUS
<1>1. {j \in Jobs : Live(j)} = {} /\ InFlight = {} /\ Captured = {}
  BY DEF Init, Live, InFlight, Captured, NoJob, Free
<1>2. Owed = 0 /\ OwedInFlight = 0 /\ CapturedFees = 0
  BY <1>1, SumEmpty DEF Owed, OwedInFlight, CapturedFees
<1> QED
  BY <1>2, WorkJobsAssumption DEF Init, MoneyOK, MoneyConserved

\* Every step keeps the money right.
LEMMA MoneyStep == IInv /\ MoneyOK /\ [Next]_vars => MoneyOK'
<1> SUFFICES ASSUME IInv, MoneyOK, [Next]_vars PROVE MoneyOK'
  OBVIOUS
<1>1. ASSUME NEW r \in Handlers,
             \/ \E j \in Jobs : EnqueueHold(r, j)
             \/ EnqueueInsert(r) \/ EnqueueFails(r)
             \/ ReleaseHold(r) \/ Lose(r)
      PROVE  MoneyOK'
  BY <1>1, EnqueueHoldMoney, EnqueueInsertMoney, EnqueueFailsMoney, ReleaseHoldMoney, LostMoney
     DEF Lose
<1>2. ASSUME NEW r \in Handlers, SubmitInline(r)
      PROVE  MoneyOK'
  BY <1>2, BookMoney, RefuseMoney DEF SubmitInline
<1>3. ASSUME NEW r \in Handlers, SubmitCommitment(r)
      PROVE  MoneyOK'
  BY <1>3, StoreMoney, RefuseMoney DEF SubmitCommitment
<1>4. ASSUME NEW r \in Handlers, AnswerChallenge(r)
      PROVE  MoneyOK'
  <2>1. h[r].pc = "answer" /\ UNCHANGED faults
    BY <1>4 DEF AnswerChallenge
  <2>2. CASE CaughtChallenge(r)
    BY <2>1, <2>2, CatchMoney
  <2>3. CASE AnswerMisfit(r) /\ UNCHANGED bal
    BY <2>1, <2>3, MisfitMoney
  <2>4. CASE End(r) /\ UNCHANGED <<bal, job>>
    <3>1. /\ h[r].pc \notin {"insert", "refund"} /\ h'[r].pc \notin {"insert", "refund"}
          /\ \A s \in Handlers \ {r} : h'[s] = h[s]
      BY <2>1, <2>4, MoneyFacts DEF End, Free
    <3> QED
      BY <2>1, <2>4, <3>1, QuietMoney DEF Live
  <2>5. CASE BookVerified(r, ChallengeWallet(r), h[r].row.z, "passed", FALSE)
    BY <2>1, <2>5, BookMoney
  <2> QED
    BY <1>4, <2>2, <2>3, <2>4, <2>5 DEF AnswerChallenge
<1>5. ASSUME NEW r \in Handlers, SweepCatch(r)
      PROVE  MoneyOK'
  BY <1>5, CatchMoney DEF SweepCatch
<1>6. CASE \/ \E n \in Nodes, j \in Jobs : Deliver(n, j)
           \/ \E n \in Nodes : Unbind(n) \/ AdminSuspend(n) \/ AdminLift(n)
           \/ \E n \in Nodes, w \in Wallets : Bind(n, w)
           \/ \E n \in Nodes, s \in {"active", "draining"} : Drain(n, s)
           \/ \E e \in Jobs : ClawEntry(e)
           \/ CloseEpochs \/ Tick \/ UNCHANGED vars
  BY <1>6, OutsideMoney
     DEF Deliver, Unbind, AdminSuspend, AdminLift, Bind, Drain, ClawEntry, CloseEpochs, Tick, vars
<1>7. ASSUME NEW c \in Jobs, ReverseSampleClaw(c)
      PROVE  MoneyOK'
  <2>1. \A k \in Jobs : job'[k].st = job[k].st /\ job'[k].cap = job[k].cap
    BY <1>7, MoneyFacts DEF ReverseSampleClaw, JobRows
  <2> QED
    BY <1>7, <2>1, OutsideMoney DEF ReverseSampleClaw
<1> QED
  BY <1>1, <1>2, <1>3, <1>4, <1>5, <1>6, <1>7, AssignMoney, ReadMoney, ProtocolMoney DEF Next

\* JobMoney says nothing of the handlers that were lost; this does.
LEMMA MoneyHere == IInv /\ MoneyOK => HoldsCovered /\ MoneyConserved /\ (faults = 0 => JobMoney)
<1> SUFFICES ASSUME IInv, MoneyOK
             PROVE  HoldsCovered /\ MoneyConserved /\ (faults = 0 => NoHoldLeftBehind)
  BY DEF JobMoney
<1>1. HoldsCovered /\ MoneyConserved
  BY DEF MoneyOK, HoldsCovered
<1>2. ASSUME faults = 0, \A r \in Handlers : h[r].pc = "idle"
      PROVE  bal.held = Owed
  <2>1. InFlight = {}
    BY <1>2 DEF InFlight
  <2>2. OwedInFlight = 0
    BY <2>1, SumEmpty DEF OwedInFlight
  <2> QED
    BY <1>2, <2>2, MoneyFacts DEF MoneyOK
<1> QED
  BY <1>1, <1>2 DEF NoHoldLeftBehind

-----------------------------------------------------------------------------
(* Challenges: the wallet stored with a commitment, and the claw of a catch. *)

\* No commitment is written or forgotten, no challenge begins, no challenge job
\* is finished and none fails its check.
Quiet(k) ==
  /\ job'[k].committed = job[k].committed
  /\ job[k].committed => job'[k].cpay = job[k].cpay
  /\ job'[k].chal = job[k].chal \/ job'[k].chal = 0
  /\ k \in Challenge /\ job'[k].st = "done" => job[k].st = "done"
  /\ k \in Challenge /\ job[k].st = "assigned" /\ job'[k].sample = "failed" =>
       job[k].sample = "failed"

RowsQuiet == \A k \in Jobs : Quiet(k)

\* A failed check of job j reaches the held pay of the wallet it committed with.
Reached(j) ==
  \A e \in Jobs :
    pay[e].to = job[j].cpay /\ pay[e].epoch > epochOf(now) => pay'[e].st # "pending"

\* What a handler may have read of a commitment.
KnowsCommitment(v) ==
  /\ v.now \in Nat /\ v.now <= now
  /\ v.pc = "verify" => v.payout # None
  /\ v.pc \in {"answer", "sweep"} =>
       /\ v.job \in Jobs
       /\ job[v.job].committed /\ v.row.cpay = job[v.job].cpay

\* An idle handler has read no commitment.
LEMMA FreeKnows == IInv => KnowsCommitment(Free)
BY DEF KnowsCommitment, Free, IInv, TypeOK

\* Every handler knows what the invariant says it does.
LEMMA OthersKnow ==
  IInv /\ CommitOK => \A s \in Handlers : KnowsCommitment(h[s])
BY DEF KnowsCommitment, IInv, TypeOK, HandlersOK, CommitOK, HandlerRows

\* Commitments are kept, so what a handler knows of one stays true.
LEMMA KnowsStill ==
  ASSUME IInv, \A k \in Jobs : job[k].committed => job'[k].committed /\ job'[k].cpay = job[k].cpay,
         now' \in Nat, now' >= now, NEW s \in Handlers, KnowsCommitment(h'[s])
  PROVE  /\ h'[s].now <= now'
         /\ h'[s].pc = "verify" => h'[s].payout # None
         /\ h'[s].pc \in {"answer", "sweep"} =>
              job'[h'[s].job].committed /\ h'[s].row.cpay = job'[h'[s].job].cpay
<1> DEFINE v == h'[s]
<1>1. KnowsCommitment(v)
  OBVIOUS
<1>2. now \in Nat
  BY DEF IInv, TypeOK
<1> HIDE DEF v
<1>3. v.now <= now' /\ (v.pc = "verify" => v.payout # None)
  BY <1>1, <1>2 DEF KnowsCommitment
<1>4. v.pc \in {"answer", "sweep"} => job'[v.job].committed /\ v.row.cpay = job'[v.job].cpay
  BY <1>1 DEF KnowsCommitment
<1> QED
  BY <1>3, <1>4 DEF v

\* A step that changes one challenge's row keeps the invariant if that row does, and
\* reaches the held pay if that row's check failed.
LEMMA OneRow ==
  ASSUME IInv, CommitOK, FinishedKept, NEW j \in Jobs, \A k \in Jobs \ {j} : Quiet(k),
         CommitRow(j)', job[j].committed => job'[j].committed /\ job'[j].cpay = job[j].cpay,
         j \in Challenge /\ job[j].st = "assigned" /\ job'[j].sample = "failed" => Reached(j),
         now' \in Nat, now' >= now,
         \A s \in Handlers : KnowsCommitment(h'[s])
  PROVE  CommitOK' /\ CatchReached
<1>1. CatchReached
  BY WorkJobsAssumption DEF CatchReached, Reached, Quiet, IInv, JobsOK
<1>2. \A k \in Jobs : CommitRow(k)'
  BY DEF Quiet, CommitOK, CommitRow, FinishedKept
<1>3. \A k \in Jobs : job[k].committed => job'[k].committed /\ job'[k].cpay = job[k].cpay
  BY DEF Quiet
<1> QED
  BY <1>1, <1>2, <1>3, KnowsStill DEF CommitOK

\* A step that changes no commitment keeps the invariant.
LEMMA QuietCommit ==
  ASSUME IInv, CommitOK, FinishedKept, RowsQuiet, now' \in Nat, now' >= now,
         \A s \in Handlers : KnowsCommitment(h'[s])
  PROVE  CommitOK' /\ CatchReached
<1>1. CASE Jobs = {}
  BY <1>1, WorkJobsAssumption, KnowsStill DEF CommitOK, CatchReached
<1>2. ASSUME NEW j \in Jobs
      PROVE  CommitOK' /\ CatchReached
  <2>1. Quiet(j)
    BY DEF RowsQuiet, Quiet
  <2>2. CommitRow(j)'
    BY <2>1 DEF Quiet, CommitOK, CommitRow, FinishedKept
  <2>3. job[j].st = "assigned" => job[j].sample # "failed"
    BY DEF IInv, JobsOK
  <2> QED
    BY <2>1, <2>2, <2>3, OneRow DEF RowsQuiet, Quiet
<1> QED
  BY <1>1, <1>2

\* The steps of an enqueue, of an assignment pass, of a release and of a loss.
LEMMA EarlyCommit ==
  ASSUME IInv, CommitOK, FinishedKept, NEW r \in Handlers,
         \/ \E j \in Jobs : EnqueueHold(r, j)
         \/ EnqueueInsert(r) \/ EnqueueFails(r)
         \/ AssignExpire(r) \/ AssignRead(r) \/ AssignDraw(r) \/ AssignSkip(r)
         \/ ReleaseHold(r) \/ Lose(r)
  PROVE  CommitOK' /\ CatchReached
<1>1. now \in Nat /\ now' = now
  BY DEF IInv, TypeOK, EnqueueHold, EnqueueInsert, EnqueueFails, AssignExpire, AssignRead,
         AssignDraw, AssignSkip, ReleaseHold, Lose
<1>2. \A s \in Handlers : KnowsCommitment(h'[s])
  <2>1. h \in [Handlers -> HandlerRows] /\ \A s \in Handlers : KnowsCommitment(h[s])
    BY OthersKnow DEF IInv, TypeOK
  <2>2. KnowsCommitment(Free) /\ Free.now = 0
    BY FreeKnows DEF Free
  <2>3. ASSUME NEW j \in Jobs, EnqueueHold(r, j)
        PROVE  \A s \in Handlers : KnowsCommitment(h'[s])
    <3> DEFINE v == [Free EXCEPT !.pc = "insert", !.job = j]
    <3>1. v.pc = "insert" /\ v.now = 0
      BY DEF Free
    <3>2. h' = [h EXCEPT ![r] = v]
      BY <2>3 DEF EnqueueHold
    <3> HIDE DEF v
    <3> QED
      BY <1>1, <2>1, <3>1, <3>2 DEF KnowsCommitment
  <2>4. CASE EnqueueInsert(r)
    <3> DEFINE v == [Free EXCEPT !.pc = "assign"]
    <3>1. v.pc = "assign" /\ v.now = 0
      BY DEF Free
    <3>2. h' = [h EXCEPT ![r] = v]
      BY <2>4 DEF EnqueueInsert
    <3> HIDE DEF v
    <3> QED
      BY <1>1, <2>1, <3>1, <3>2 DEF KnowsCommitment
  <2>5. CASE End(r)
    BY <2>1, <2>2, <2>5 DEF End
  <2>6. CASE EnqueueFails(r) /\ ThenRefund(r, h[r].job)
    <3> DEFINE v == [Free EXCEPT !.pc = "refund", !.job = h[r].job]
    <3>1. v.pc = "refund" /\ v.now = 0
      BY DEF Free
    <3>2. h' = [h EXCEPT ![r] = v]
      BY <2>6 DEF ThenRefund
    <3> HIDE DEF v
    <3> QED
      BY <1>1, <2>1, <3>1, <3>2 DEF KnowsCommitment
  <2>7. CASE AssignExpire(r)
    <3> DEFINE v == [Free EXCEPT !.pc = "read", !.now = now]
    <3>1. v.pc = "read" /\ v.now = now
      BY DEF Free
    <3>2. h' = [h EXCEPT ![r] = v]
      BY <2>7 DEF AssignExpire
    <3> HIDE DEF v
    <3> QED
      BY <1>1, <2>1, <3>1, <3>2 DEF KnowsCommitment
  <2>8. CASE /\ h[r].pc \in {"read", "draw"}
             /\ h'[r].pc = "draw" /\ h'[r].now = h[r].now
             /\ \A s \in Handlers \ {r} : h'[s] = h[s]
    BY <2>1, <2>8 DEF KnowsCommitment
  <2>9. ASSUME AssignRead(r) \/ AssignDraw(r) \/ AssignSkip(r)
        PROVE  \/ End(r)
               \/ /\ h[r].pc \in {"read", "draw"}
                  /\ h'[r].pc = "draw" /\ h'[r].now = h[r].now
                  /\ \A s \in Handlers \ {r} : h'[s] = h[s]
    <3>1. CASE AssignRead(r)
      <4>1. PICK pool \in SUBSET Idle :
              \/ End(r)
              \/ h' = [h EXCEPT ![r].pc = "draw",
                                ![r].queue = {j \in Jobs : job[j].st = "queued"},
                                ![r].pool = pool]
        BY <3>1 DEF AssignRead
      <4>2. h[r].pc = "read" /\ h[r] \in HandlerRows
        BY <2>1, <3>1 DEF AssignRead
      <4> DEFINE q == {j \in Jobs : job[j].st = "queued"}
                 v == [h[r] EXCEPT !.pc = "draw", !.queue = q, !.pool = pool]
      <4>3. v.pc = "draw" /\ v.now = h[r].now
        BY <4>2 DEF HandlerRows
      <4>4. End(r) \/ h' = [h EXCEPT ![r] = v]
        BY ZenonT(60), <2>1, <4>1
      <4> HIDE DEF v
      <4> QED
        BY <2>1, <4>2, <4>3, <4>4
    <3>2. CASE AssignDraw(r)
      BY ZenonT(60), <2>1, <3>2 DEF AssignDraw, HandlerRows
    <3>3. CASE AssignSkip(r)
      BY <2>1, <3>3 DEF AssignSkip, HandlerRows
    <3> QED
      BY <2>9, <3>1, <3>2, <3>3
  <2> QED
    BY <2>3, <2>4, <2>5, <2>6, <2>7, <2>8, <2>9 DEF EnqueueFails, ReleaseHold, Lose
<1>3. RowsQuiet
  <2>1. job \in [Jobs -> JobRows] /\ \A k \in Jobs : job[k] \in JobRows
    BY DEF IInv, TypeOK
  <2>2. CASE UNCHANGED job
    BY <2>2 DEF RowsQuiet, Quiet
  <2>3. CASE EnqueueInsert(r)
    BY <2>1, <2>3 DEF EnqueueInsert, RowsQuiet, Quiet, JobRows
  <2>4. CASE AssignExpire(r)
    <3>1. \A k \in Jobs : job'[k] = job[k] \/ job'[k] = Cleared(job[k])
      BY <2>4 DEF AssignExpire
    <3>2. \A k \in Jobs : LET c == Cleared(job[k])
                          IN /\ c.st = "queued" /\ c.committed = job[k].committed
                             /\ c.cpay = job[k].cpay /\ c.chal = job[k].chal
                             /\ c.sample = job[k].sample
      BY <2>1 DEF Cleared, JobRows
    <3> QED
      BY <3>1, <3>2 DEF RowsQuiet, Quiet
  <2>5. CASE AssignDraw(r)
    <3>1. PICK j, n :
            \/ job' = [job EXCEPT ![j].st = "assigned", ![j].node = n,
                                  ![j].sigma = draws[j] + 1,
                                  ![j].exp = h[r].now + AssignTTL]
            \/ UNCHANGED job
      BY ZenonT(60), <2>5 DEF AssignDraw
    <3> QED
      BY <2>1, <3>1 DEF RowsQuiet, Quiet, JobRows
  <2> QED
    BY <2>2, <2>3, <2>4, <2>5
       DEF EnqueueHold, EnqueueFails, AssignRead, AssignSkip, ReleaseHold, Lose
<1> QED
  BY SMTT(60), <1>1, <1>2, <1>3, QuietCommit

\* The reads of a submission, of an answer and of the sweep.
LEMMA ReadCommit ==
  ASSUME IInv, CommitOK, FinishedKept, NEW r \in Handlers,
         \/ \E n \in Nodes, j \in Jobs, w \in 1..MaxDraws : Submit(r, n, j, w)
         \/ SubmitLoad(r)
         \/ \E n \in Nodes, j \in Jobs : Answer(r, n, j)
         \/ \E j \in Jobs : SweepRead(r, j)
  PROVE  CommitOK' /\ CatchReached
<1>1. /\ now \in Nat /\ UNCHANGED <<now, job>> /\ RowsQuiet
      /\ h \in [Handlers -> HandlerRows] /\ \A s \in Handlers : KnowsCommitment(h[s])
  BY OthersKnow DEF IInv, TypeOK, Submit, SubmitLoad, Answer, SweepRead, RowsQuiet, Quiet
<1>2. ASSUME NEW n \in Nodes, NEW j \in Jobs, NEW w \in 1..MaxDraws, Submit(r, n, j, w)
      PROVE  \A s \in Handlers : KnowsCommitment(h'[s])
  <2> DEFINE v == [Free EXCEPT !.pc = "load", !.job = j, !.node = n, !.now = now, !.work = w]
  <2>1. v.pc = "load" /\ v.now = now
    BY DEF Free
  <2>2. h' = [h EXCEPT ![r] = v]
    BY <1>2 DEF Submit
  <2> HIDE DEF v
  <2> QED
    BY <1>1, <2>1, <2>2 DEF KnowsCommitment
<1>3. ASSUME SubmitLoad(r)
      PROVE  \A s \in Handlers : KnowsCommitment(h'[s])
  <2> DEFINE p == node[h[r].node].payout
             v == [h[r] EXCEPT !.pc = "verify", !.row = job[h[r].job], !.payout = p]
  <2>1. v.pc = "verify" /\ v.now = h[r].now /\ v.payout = p
    BY <1>1 DEF HandlerRows
  <2>2. h' = [h EXCEPT ![r] = Free] \/ (p # None /\ h' = [h EXCEPT ![r] = v])
    BY <1>1, <1>3 DEF SubmitLoad, End
  <2> HIDE DEF v, p
  <2> QED
    BY <1>1, <2>1, <2>2, FreeKnows DEF KnowsCommitment
<1>4. ASSUME NEW n \in Nodes, NEW j \in Jobs, Answer(r, n, j)
      PROVE  \A s \in Handlers : KnowsCommitment(h'[s])
  <2> DEFINE v == [Free EXCEPT !.pc = "answer", !.job = j, !.node = n, !.now = now,
                               !.row = job[j], !.payout = node[n].payout]
  <2>1. v.pc = "answer" /\ v.now = now /\ v.job = j /\ v.row = job[j]
    BY DEF Free
  <2>2. h' = [h EXCEPT ![r] = v] /\ job[j].committed
    BY <1>4 DEF Answer
  <2> HIDE DEF v
  <2> QED
    BY <1>1, <2>1, <2>2 DEF KnowsCommitment
<1>5. ASSUME NEW j \in Jobs, SweepRead(r, j)
      PROVE  \A s \in Handlers : KnowsCommitment(h'[s])
  <2> DEFINE v == [Free EXCEPT !.pc = "sweep", !.job = j, !.node = job[j].node, !.now = now,
                               !.row = job[j], !.payout = node[job[j].node].payout]
  <2>1. v.pc = "sweep" /\ v.now = now /\ v.job = j /\ v.row = job[j]
    BY DEF Free
  <2>2. h' = [h EXCEPT ![r] = v] /\ job[j].chal # 0
    BY <1>5 DEF SweepRead, Overdue
  <2>3. job[j].committed
    BY <2>2 DEF CommitOK, CommitRow
  <2> HIDE DEF v
  <2> QED
    BY <1>1, <2>1, <2>2, <2>3 DEF KnowsCommitment
<1> QED
  BY <1>1, <1>2, <1>3, <1>4, <1>5, QuietCommit

\* refuse touches no commitment.
LEMMA RefuseCommit ==
  ASSUME IInv, CommitOK, FinishedKept, NEW r \in Handlers, h[r].pc = "verify", Refuse(r),
         UNCHANGED now
  PROVE  CommitOK' /\ CatchReached
<1> DEFINE j == h[r].job
           row == [job[j] EXCEPT !.attempts = @ + 1]
           v == [Free EXCEPT !.pc = "refund", !.job = j]
<1>1. /\ now \in Nat /\ h \in [Handlers -> HandlerRows] /\ job \in [Jobs -> JobRows]
      /\ \A s \in Handlers : KnowsCommitment(h[s])
      /\ j \in Jobs /\ job[j] \in JobRows
  BY OthersKnow DEF IInv, TypeOK, HandlersOK
<1>2. v.pc = "refund" /\ v.now = 0
  BY DEF Free
<1>3. h' = [h EXCEPT ![r] = Free] \/ h' = [h EXCEPT ![r] = v]
  BY DEF Refuse, End, ThenRefund
<1>4. \/ job' = [job EXCEPT ![j] = [row EXCEPT !.st = "failed", !.exp = 0]]
      \/ job' = [job EXCEPT ![j] = Cleared(row)]
      \/ job' = job
  BY DEF Refuse
<1> HIDE DEF v
<1>5. \A s \in Handlers : KnowsCommitment(h'[s])
  BY <1>1, <1>2, <1>3, FreeKnows DEF KnowsCommitment
<1>6. RowsQuiet
  <2>1. \/ job' = job
        \/ /\ \A k \in Jobs \ {j} : job'[k] = job[k]
           /\ job'[j].committed = job[j].committed /\ job'[j].cpay = job[j].cpay
           /\ job'[j].chal = job[j].chal /\ job'[j].sample = job[j].sample
           /\ job'[j].st \in {"failed", "queued"}
    <3>1. row.committed = job[j].committed /\ row.cpay = job[j].cpay /\ row.chal = job[j].chal
          /\ row.sample = job[j].sample /\ row \in JobRows
      BY <1>1 DEF JobRows
    <3> HIDE DEF row
    <3>2. CASE job' = [job EXCEPT ![j] = [row EXCEPT !.st = "failed", !.exp = 0]]
      BY <1>1, <3>1, <3>2 DEF JobRows
    <3>3. CASE job' = [job EXCEPT ![j] = Cleared(row)]
      BY <1>1, <3>1, <3>3 DEF JobRows, Cleared
    <3> QED
      BY <1>4, <3>2, <3>3 DEF row
  <2> QED
    BY SMTT(60), <2>1 DEF RowsQuiet, Quiet
<1> QED
  BY <1>1, <1>5, <1>6, QuietCommit

\* A handler that ends leaves the others what they know.
LEMMA EndKnows ==
  ASSUME IInv, CommitOK, NEW r \in Handlers, End(r)
  PROVE  \A s \in Handlers : KnowsCommitment(h'[s])
BY OthersKnow, FreeKnows DEF End, IInv, TypeOK

\* An inline job's work, paid or caught, touches no challenge.
LEMMA InlineCommit ==
  ASSUME IInv, CommitOK, FinishedKept, NEW r \in Handlers, SubmitInline(r)
  PROVE  CommitOK' /\ CatchReached
<1>1. h[r].pc = "verify" /\ h[r].job \in Jobs \ Challenge /\ UNCHANGED now /\ now \in Nat
      /\ job \in [Jobs -> JobRows]
  BY DEF SubmitInline, IInv, TypeOK, HandlersOK
<1>2. ASSUME NEW to, NEW z, NEW sample, NEW caught, BookVerified(r, to, z, sample, caught)
      PROVE  CommitOK' /\ CatchReached
  <2>1. End(r)
    BY SMTT(60), <1>2 DEF BookVerified
  <2>2. \E cap : \/ job' = job
                 \/ job' = [job EXCEPT ![h[r].job].st = "done", ![h[r].job].cap = cap,
                                       ![h[r].job].z = z, ![h[r].job].sample = sample]
    BY <1>2 DEF BookVerified
  <2>3. RowsQuiet
    BY <1>1, <2>2 DEF RowsQuiet, Quiet, JobRows
  <2> QED
    BY <1>1, <2>1, <2>3, EndKnows, QuietCommit
<1> QED
  BY <1>1, <1>2, RefuseCommit DEF SubmitInline

\* A commitment is stored once, with the wallet the handler read.
LEMMA StoreCommit ==
  ASSUME IInv, CommitOK, FinishedKept, NEW r \in Handlers, SubmitCommitment(r)
  PROVE  CommitOK' /\ CatchReached
<1>0. PICK j \in Jobs : j = h[r].job
  BY DEF SubmitCommitment, IInv, HandlersOK
<1> USE <1>0
<1>1. /\ h[r].pc = "verify" /\ j \in Challenge /\ j \in Jobs /\ UNCHANGED now
      /\ now \in Nat /\ job \in [Jobs -> JobRows] /\ job[j] \in JobRows
      /\ h[r].payout # None
  BY DEF SubmitCommitment, IInv, TypeOK, HandlersOK, CommitOK
<1>2. CASE StoreCommitment(r) /\ End(r)
  <2> DEFINE row == [job[j] EXCEPT !.committed = TRUE, !.z = h[r].work, !.chal = h[r].now + ChallengeTTL,
                                   !.exp = h[r].now + ChallengeTTL, !.cpay = h[r].payout]
  <2>1. \/ job' = job
        \/ job[j].st = "assigned" /\ ~ job[j].committed /\ job' = [job EXCEPT ![j] = row]
    BY Zenon, <1>2 DEF StoreCommitment, StillAssigned
  <2>2. row.committed /\ row.cpay = h[r].payout /\ row.st = job[j].st /\ row.sample = job[j].sample
    BY <1>1 DEF JobRows
  <2> HIDE DEF row
  <2>3. CASE job' = job
    <3>1. RowsQuiet
      BY <2>3 DEF RowsQuiet, Quiet
    <3>2. \A s \in Handlers : KnowsCommitment(h'[s])
      BY <1>2, EndKnows
    <3>3. now' \in Nat /\ now' >= now
      BY <1>1
    <3> QED
      BY <3>1, <3>2, <3>3, QuietCommit
  <2>4. CASE job' # job
    <3>1. /\ job'[j].committed /\ job'[j].cpay # None
          /\ job'[j].st = "assigned" /\ job'[j].sample = job[j].sample
          /\ ~ job[j].committed /\ job[j].st = "assigned"
          /\ \A k \in Jobs \ {j} : job'[k] = job[k]
      <4>1. job'[j] = row /\ \A k \in Jobs \ {j} : job'[k] = job[k]
        BY <1>1, <2>1, <2>4
      <4> QED
        BY <1>1, <2>1, <2>4, <2>2, <4>1
    <3>2. CommitRow(j)'
      BY <1>1, <3>1 DEF CommitRow
    <3>3. job'[j].sample # "failed"
      BY <1>1, <3>1 DEF IInv, JobsOK
    <3>4. \A k \in Jobs \ {j} : Quiet(k)
      BY <3>1 DEF Quiet
    <3>5. \A s \in Handlers : KnowsCommitment(h'[s])
      BY <1>2, EndKnows
    <3>6. j \in Jobs /\ now' \in Nat /\ now' >= now
      BY <1>1
    <3>7. job[j].committed => job'[j].committed /\ job'[j].cpay = job[j].cpay
      BY <3>1
    <3> QED
      BY SMTT(60), <3>2, <3>3, <3>4, <3>5, <3>6, <3>7, OneRow
  <2> QED
    BY SMTT(60), <2>3, <2>4
<1> QED
  BY <1>1, <1>2, RefuseCommit DEF SubmitCommitment

\* caughtChallenge: the claw is made at a time no later than now, from the wallet
\* stored with the commitment, so it reaches all the pay still held.
LEMMA CatchCommit ==
  ASSUME IInv, CommitOK, FinishedKept, NEW r \in Handlers, h[r].pc \in {"answer", "sweep"},
         CaughtChallenge(r), UNCHANGED now
  PROVE  CommitOK' /\ CatchReached
<1>0. PICK j \in Jobs : j = h[r].job
  BY DEF IInv, HandlersOK
<1> USE <1>0
<1> DEFINE n == h[r].node
           w == ChallengeWallet(r)
           t == h[r].now
<1>1. /\ j \in Jobs /\ now \in Nat /\ job \in [Jobs -> JobRows] /\ job[j] \in JobRows
      /\ pay \in [Jobs -> PayRows] /\ t \in Nat /\ t <= now
      /\ job[j].committed /\ h[r].row.cpay = job[j].cpay /\ job[j].cpay # None
  BY DEF IInv, TypeOK, HandlersOK, CommitOK, CommitRow, HandlerRows
<1>2. w = job[j].cpay /\ w # None
  BY SMTT(60), <1>1 DEF ChallengeWallet
<1>3. \A s \in Handlers : KnowsCommitment(h'[s])
  BY EndKnows DEF CaughtChallenge
<1>4. CASE ~ StillAssigned(j, n)
  <2>1. RowsQuiet
    BY <1>4 DEF CaughtChallenge, RowsQuiet, Quiet
  <2> QED
    BY <1>1, <1>3, <2>1, QuietCommit
<1>5. CASE StillAssigned(j, n)
  <2>1. /\ job' = [job EXCEPT ![j].st = "failed", ![j].sample = "failed",
                              ![j].exp = 0, ![j].chal = 0]
        /\ claws' = ClawsWith(j, n, w, t, pay) /\ pay' = ClawedBy(j, n, w, t, pay)
    BY SMTT(60), <1>2, <1>5 DEF CaughtChallenge
  <2>2. /\ job'[j].st = "failed" /\ job'[j].chal = 0
        /\ job'[j].committed = job[j].committed /\ job'[j].cpay = job[j].cpay
        /\ \A k \in Jobs \ {j} : job'[k] = job[k]
    BY <1>1, <2>1 DEF JobRows
  <2>3. CommitRow(j)' /\ \A k \in Jobs \ {j} : Quiet(k)
    BY <1>1, <2>2 DEF CommitRow, CommitOK, Quiet
  <2>4. Reached(j)
    <3> SUFFICES ASSUME NEW e \in Jobs, pay[e].to = job[j].cpay, pay[e].epoch > epochOf(now)
                 PROVE  pay'[e].st # "pending"
      BY DEF Reached
    <3>1. pay[e] \in PayRows /\ pay[e].epoch \in Nat
      BY <1>1 DEF PayRows
    <3>2. epochOf(t) <= epochOf(now) /\ epochOf(t) \in Nat /\ epochOf(now) \in Nat
      BY <1>1, WorkJobsAssumption DEF epochOf
    <3>3. pay[e].epoch > epochOf(t)
      BY <3>1, <3>2
    <3>4. CASE pay[e].st = "pending"
      <4>1. e \in Covered(j, n, w, t, pay)
        BY <1>2, <3>3, <3>4 DEF Covered
      <4>2. <<e, j>> \in ClawsWith(j, n, w, t, pay)
        BY SMTT(60), <4>1 DEF ClawsWith
      <4>3. pay'[e] = [pay[e] EXCEPT !.st = "clawed"]
        BY SMTT(60), <2>1, <3>4, <4>2 DEF ClawedBy
      <4> QED
        BY <3>1, <4>3 DEF PayRows
    <3>5. CASE pay[e].st # "pending"
      BY <2>1, <3>5 DEF ClawedBy
    <3> QED
      BY <3>4, <3>5
  <2>5. j \in Jobs /\ now' \in Nat /\ now' >= now
    BY <1>1
  <2> QED
    BY SMTT(60), <1>3, <2>2, <2>3, <2>4, <2>5, OneRow
<1> QED
  BY <1>4, <1>5

\* answerChallenge's booking: the hold is there, so the pay is written, and to
\* the wallet stored with the commitment.
LEMMA BookCommit ==
  ASSUME IInv, MoneyOK, CommitOK, FinishedKept, NEW r \in Handlers, h[r].pc = "answer",
         NEW z, BookVerified(r, ChallengeWallet(r), z, "passed", FALSE),
         UNCHANGED now
  PROVE  CommitOK' /\ CatchReached
<1>0. PICK j \in Jobs : j = h[r].job
  BY DEF IInv, HandlersOK
<1> USE <1>0
<1> DEFINE n == h[r].node
<1>1. /\ j \in Jobs /\ now \in Nat /\ job \in [Jobs -> JobRows] /\ job[j] \in JobRows
      /\ pay \in [Jobs -> PayRows] /\ Price[j] \in Nat
      /\ job[j].committed /\ h[r].row.cpay = job[j].cpay /\ job[j].cpay # None
  BY MoneyFacts DEF IInv, TypeOK, HandlersOK, CommitOK, CommitRow, HandlerRows
<1>2. ChallengeWallet(r) = job[j].cpay
  BY SMTT(60), <1>1 DEF ChallengeWallet
<1>3. \A s \in Handlers : KnowsCommitment(h'[s])
  BY EndKnows DEF BookVerified
<1>4. CASE ~ StillAssigned(j, n)
  <2>1. RowsQuiet
    BY <1>4 DEF BookVerified, RowsQuiet, Quiet
  <2> QED
    BY <1>1, <1>3, <2>1, QuietCommit
<1>5. CASE StillAssigned(j, n)
  <2>1. PICK cap : job' = [job EXCEPT ![j].st = "done", ![j].cap = cap, ![j].z = z,
                                      ![j].sample = "passed"]
    BY ZenonT(60), <1>5 DEF BookVerified
  <2>2. /\ job'[j].st = "done" /\ job'[j].chal = job[j].chal /\ job'[j].sample = "passed"
        /\ job'[j].committed = job[j].committed /\ job'[j].cpay = job[j].cpay
        /\ \A k \in Jobs \ {j} : job'[k] = job[k]
    BY ZenonT(60), <1>1, <2>1 DEF JobRows
  <2>3. job[j].st = "assigned" /\ job[j].cap = 0 /\ Live(j)
    BY <1>1, <1>5 DEF StillAssigned, IInv, PaidIffCaptured, Live
  <2>4. bal.held >= Price[j]
    BY <1>1, <2>2, <2>3, LiveIsHeld
  <2>5. pay' = [pay EXCEPT ![j] = [st |-> "pending", to |-> ChallengeWallet(r),
                                  epoch |-> BookingEpoch(h[r].now)]]
    BY <1>5, <2>3, <2>4 DEF BookVerified
  <2>6. pay'[j].to = job'[j].cpay
    BY SMTT(60), <1>1, <1>2, <2>2, <2>5
  <2>7. CommitRow(j)' /\ \A k \in Jobs \ {j} : Quiet(k)
    BY <1>1, <2>2, <2>6 DEF CommitRow, CommitOK, Quiet
  <2>8. j \in Jobs /\ now' \in Nat /\ now' >= now
    BY <1>1
  <2> QED
    BY SMTT(60), <1>3, <2>2, <2>7, <2>8, OneRow
<1> QED
  BY <1>4, <1>5

\* The steps that no job's commitment is in.
LEMMA OtherCommit ==
  ASSUME IInv, CommitOK, FinishedKept,
         \/ \E j \in Jobs : IssueProtocol(j) \/ DropProtocol(j)
         \/ \E n \in Nodes, j \in Jobs : Deliver(n, j)
         \/ \E n \in Nodes : Unbind(n) \/ AdminSuspend(n) \/ AdminLift(n)
         \/ \E n \in Nodes, w \in Wallets : Bind(n, w)
         \/ \E n \in Nodes, s \in {"active", "draining"} : Drain(n, s)
         \/ \E e \in Jobs : ClawEntry(e) \/ ReverseSampleClaw(e)
         \/ CloseEpochs \/ Tick \/ UNCHANGED vars
  PROVE  CommitOK' /\ CatchReached
<1>1. now \in Nat /\ job \in [Jobs -> JobRows] /\ \A k \in Jobs : job[k] \in JobRows
  BY DEF IInv, TypeOK
<1>2. now' \in Nat /\ now' >= now /\ UNCHANGED h
  <2>1. CASE Tick
    BY <1>1, <2>1 DEF Tick
  <2>2. CASE ~ Tick
    <3>1. UNCHANGED <<now, h>>
      BY <2>2 DEF IssueProtocol, DropProtocol, Deliver, Unbind, AdminSuspend, AdminLift, Bind,
                  Drain, ClawEntry, ReverseSampleClaw, CloseEpochs, vars
    <3> QED
      BY <1>1, <3>1
  <2> QED
    BY <2>1, <2>2
<1>3. \A s \in Handlers : KnowsCommitment(h'[s])
  BY <1>2, OthersKnow
<1>4. RowsQuiet
  <2>1. ASSUME NEW j \in Jobs, IssueProtocol(j)
        PROVE  RowsQuiet
    BY <1>1, <2>1, WorkJobsAssumption DEF IssueProtocol, RowsQuiet, Quiet, JobRows
  <2>2. ASSUME NEW j \in Jobs, DropProtocol(j)
        PROVE  RowsQuiet
    <3>1. j \notin Challenge /\ ~ job[j].committed /\ job[j].committed = FALSE
      BY <1>1, <2>2, WorkJobsAssumption DEF DropProtocol, CommitOK, CommitRow, JobRows
    <3>2. job' = [job EXCEPT ![j] = NoJob]
      BY <2>2 DEF DropProtocol
    <3>3. NoJob.committed = FALSE /\ NoJob.chal = 0
      BY DEF NoJob
    <3> QED
      BY <1>1, <3>1, <3>2, <3>3 DEF RowsQuiet, Quiet
  <2>3. ASSUME NEW c \in Jobs, ReverseSampleClaw(c)
        PROVE  RowsQuiet
    BY <1>1, <2>3 DEF ReverseSampleClaw, RowsQuiet, Quiet, JobRows
  <2>4. CASE UNCHANGED job
    BY <2>4 DEF RowsQuiet, Quiet
  <2> QED
    BY <2>1, <2>2, <2>3, <2>4
       DEF Deliver, Unbind, AdminSuspend, AdminLift, Bind, Drain, ClawEntry, CloseEpochs, Tick, vars
<1> QED
  BY <1>2, <1>3, <1>4, QuietCommit

\* The checks of a submitted job and of an answered or overdue challenge.
LEMMA CheckCommit ==
  ASSUME IInv, MoneyOK, CommitOK, FinishedKept, NEW r \in Handlers,
         AnswerChallenge(r) \/ SweepCatch(r)
  PROVE  CommitOK' /\ CatchReached
<1>1. UNCHANGED now /\ h[r].pc \in {"answer", "sweep"} /\ now \in Nat
  BY DEF AnswerChallenge, SweepCatch, IInv, TypeOK
<1>2. CASE CaughtChallenge(r)
  BY <1>1, <1>2, CatchCommit
<1>3. CASE h[r].pc = "answer" /\ BookVerified(r, ChallengeWallet(r), h[r].row.z, "passed", FALSE)
  BY <1>1, <1>3, BookCommit
<1>4. CASE End(r) /\ UNCHANGED job
  BY <1>1, <1>4, EndKnows, QuietCommit DEF RowsQuiet, Quiet
<1>5. CASE AnswerMisfit(r)
  <2>0. PICK j \in Jobs : j = h[r].job
    BY <1>1 DEF IInv, HandlersOK
  <2> DEFINE v == [Free EXCEPT !.pc = "refund", !.job = j]
  <2>1. v.pc = "refund" /\ v.now = 0
    BY DEF Free
  <2>2. \/ End(r) /\ UNCHANGED job
        \/ /\ h' = [h EXCEPT ![r] = v]
           /\ job' = [job EXCEPT ![j].st = "failed", ![j].exp = 0, ![j].chal = 0]
    BY <1>5, <2>0 DEF AnswerMisfit, ThenRefund
  <2> HIDE DEF v
  <2>3. CASE /\ h' = [h EXCEPT ![r] = v]
             /\ job' = [job EXCEPT ![j].st = "failed", ![j].exp = 0, ![j].chal = 0]
    <3>1. job \in [Jobs -> JobRows] /\ h \in [Handlers -> HandlerRows]
      BY DEF IInv, TypeOK
    <3>2. RowsQuiet
      BY <2>3, <3>1 DEF RowsQuiet, Quiet, JobRows
    <3>3. KnowsCommitment(v)
      BY <1>1, <2>1 DEF KnowsCommitment
    <3>4. \A s \in Handlers : KnowsCommitment(h'[s])
      BY <2>3, <3>1, <3>3, OthersKnow
    <3> QED
      BY <1>1, <3>2, <3>4, QuietCommit
  <2> QED
    BY <1>4, <2>2, <2>3
<1> QED
  BY <1>2, <1>3, <1>4, <1>5 DEF AnswerChallenge, SweepCatch

\* No job is committed at the start.
LEMMA CommitInit == Init => CommitOK
BY DEF Init, CommitOK, CommitRow, NoJob, Free

\* Every step keeps the commitments, and each failed challenge reaches the held pay.
LEMMA StepCommit == IInv /\ MoneyOK /\ CommitOK /\ [Next]_vars => CommitOK' /\ CatchReached
<1> SUFFICES ASSUME IInv, MoneyOK, CommitOK, [Next]_vars PROVE CommitOK' /\ CatchReached
  OBVIOUS
<1>1. FinishedKept
  <2>1. FinishedKept \/ UNCHANGED vars
    BY StepKept
  <2> QED
    BY <2>1, KeptSame DEF vars
<1> QED
  BY <1>1, EarlyCommit, ReadCommit, InlineCommit, StoreCommit, CheckCommit, OtherCommit DEF Next

\* balance.service and jobs.service: the customer's money, the holds of the jobs
\* and of the handlers under way, and the captured fees always add up, for any
\* number of jobs, nodes and handlers: every statement finds the hold it needs, no
\* fee is captured twice or refunded after its capture, and only a handler that was
\* lost half-way can leave a hold behind.
THEOREM MoneyAddsUp ==
  Spec => [](HoldsCovered /\ MoneyConserved /\ (faults = 0 => JobMoney))
<1>1. Init => MoneyOK
  BY MoneyInit
<1>2. IInv /\ MoneyOK /\ [Next]_vars => MoneyOK'
  BY MoneyStep
<1>3. IInv /\ MoneyOK => HoldsCovered /\ MoneyConserved /\ (faults = 0 => JobMoney)
  BY MoneyHere
<1> QED
  BY <1>1, <1>2, <1>3, Invariance, PTL DEF Spec

\* Money and commitments agree with the rows at every moment: CommitOK rests on the
\* holds, since a verified challenge whose hold were missing would go unpaid.
THEOREM CommitInvariance == Spec => [](MoneyOK /\ CommitOK)
<1>1. Init => MoneyOK /\ CommitOK
  BY MoneyInit, CommitInit
<1>2. IInv /\ MoneyOK /\ CommitOK /\ [Next]_vars => MoneyOK' /\ CommitOK'
  BY MoneyStep, StepCommit
<1> QED
  BY <1>1, <1>2, Invariance, PTL DEF Spec

\* answerChallenge: a challenge job that is done has paid the wallet its node was
\* bound to when it committed, however the node was unbound and bound since.
THEOREM CommittedWalletPaid == Spec => []PaysCommittedWallet
<1>1. MoneyOK /\ CommitOK => PaysCommittedWallet
  BY WorkJobsAssumption DEF CommitOK, CommitRow, PaysCommittedWallet
<1> QED
  BY <1>1, CommitInvariance, PTL

\* caughtChallenge: a failed challenge, answered or swept, leaves no held pay of
\* the wallet that was stored with the commitment.
THEOREM CatchReachesPay == Spec => CatchReachesWallet
<1>1. IInv /\ MoneyOK /\ CommitOK /\ [Next]_vars => [CatchReached]_vars
  BY StepCommit
<1> QED
  BY <1>1, Invariance, CommitInvariance, PTL DEF Spec, CatchReachesWallet

\* caughtStatements, reverseSampleClaw, clawEntry: every claw row stands for a
\* failed check that still stands, and what an operator clawed stays clawed.
THEOREM ClawsForGood == Spec => []ClawsHold
<1>1. IInv => ClawsHold
  BY DEF IInv, ClawsOK, ClawsHold
<1> QED
  BY <1>1, Invariance, PTL
=============================================================================
