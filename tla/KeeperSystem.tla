---------------------------- MODULE KeeperSystem ----------------------------
(***************************************************************************)
(* An epoch from booking to payment: the API's ledger                      *)
(* (S/ledger.service.ts), keeper passes (keeper/src/run.ts) and the epochs  *)
(* of the settlement contract, as the two use them.                         *)
(*                                                                         *)
(* A step is one D1 statement or batch, one transaction, or one round of    *)
(* chain reads.  A job's lane A and B entries are one entry, its treasury   *)
(* entry is tre.  A root is the set of jobs whose pay its leaves hold (no   *)
(* two sets of jobs are taken to have the same leaves), and the fees of an  *)
(* epoch are the set of jobs whose fees they are.                           *)
(***************************************************************************)
EXTENDS Integers, FiniteSets, FiniteSetsExt

CONSTANTS
  Jobs,        \* verified jobs and hosting bills
  Keepers,     \* keeper passes that may overlap (one per isolate)
  LateJobs,    \* jobs that may be booked in the epoch that has just ended
  MaxEpoch,    \* bound: the open epoch stops here
  MaxFaults    \* bound: passes that die on their way

ASSUME KeeperAssumption ==
  MaxEpoch \in Nat \ {0} /\ MaxFaults \in Nat /\ LateJobs \subseteq Jobs

VARIABLES
  cur,      \* the open epoch
  entry,    \* reward_entries
  row,      \* epochs
  chain,    \* the contract's epochs and lane flags
  k,        \* passes under way
  faults

vars == <<cur, entry, row, chain, k, faults>>

Epochs == 1..MaxEpoch

Booked(j) == entry[j].epoch

\* status = 'pending' entries, of any lane, of epoch e
PendingIn(e) == {j \in Jobs : Booked(j) = e /\ "pending" \in {entry[j].st, entry[j].tre}}

\* jobs of e whose provider entries have status s
PayIn(e, s) == {j \in Jobs : Booked(j) = e /\ entry[j].st = s}

NoPayload == [st |-> "none", root |-> {}, fees |-> {}]

Payload(e) == [st |-> row[e].st, root |-> row[e].root, fees |-> row[e].fees]

Idle == [pc |-> "idle", todo |-> {}, e |-> 0, leaves |-> {}, fees |-> {}, work |-> [e \in Epochs |-> NoPayload],
         claims |-> {}, vesting |-> FALSE, then |-> "next", now |-> 0, old |-> {}]

Init ==
  /\ cur = 1
  /\ entry = [j \in Jobs |-> [st |-> "none", tre |-> "none", epoch |-> 0]]
  /\ row = [e \in Epochs |-> [st |-> "open", root |-> {}, fees |-> {}, vetoedRoot |-> {}]]
  /\ chain = [e \in Epochs |-> [st |-> "None", root |-> {}, ripe |-> FALSE, vested |-> FALSE,
                                 paidA |-> {}, paidB |-> {}, voidB |-> {}]]
  /\ k = [p \in Keepers |-> Idle]
  /\ faults = 0

\* The pass p goes on at pc, with the fields of g changed.
Go(p, g) == k' = [k EXCEPT ![p] = g]
At(p, pc) == [k[p] EXCEPT !.pc = pc]

-----------------------------------------------------------------------------
(* closeEpochs, called at the start of a pass. *)

CloseStart(p) ==
  /\ k[p].pc = "idle"
  /\ Go(p, [At(p, "look") EXCEPT !.now = cur,
               !.todo = {e \in Epochs : e < cur /\ PendingIn(e) # {}}])
  /\ UNCHANGED <<cur, entry, row, chain, faults>>

\* SELECT status, vetoed_root FROM epochs: a row that is not vetoed is not closed again.
CloseLook(p) ==
  /\ k[p].pc = "look" /\ k[p].todo # {}
  /\ LET e == Min(k[p].todo)
     IN Go(p, [At(p, IF row[e].st \in {"open", "vetoed"} THEN "sum" ELSE "move") EXCEPT
               !.e = e, !.todo = @ \ {e}, !.then = row[e].st, !.old = row[e].vetoedRoot])
  /\ UNCHANGED <<cur, entry, row, chain, faults>>

\* Mutant of LateTo: late entries go to the epoch after the open one.
LateToNext(p) == k[p].now + 1

\* Entries that committed after their epoch closed move to the epoch that was
\* open when the close began.
LateTo(p) == k[p].now

CloseMove(p) ==
  /\ k[p].pc = "move"
  /\ entry' = [j \in Jobs |-> IF j \in PendingIn(k[p].e)
                              THEN [entry[j] EXCEPT !.epoch = LateTo(p)] ELSE entry[j]]
  /\ Go(p, At(p, "look"))
  /\ UNCHANGED <<cur, row, chain, faults>>

\* leafRows
CloseSum(p) ==
  /\ k[p].pc = "sum"
  /\ Go(p, [At(p, "totals") EXCEPT !.leaves = PayIn(k[p].e, "pending")])
  /\ UNCHANGED <<cur, entry, row, chain, faults>>

\* Mutant of FeeJobs: a job's fee is left out once its provider entries are clawed.
FeeJobsPaid(e) == PayIn(e, "pending") \ PayIn(e, "clawed")

\* The jobs whose fees the totals count: any pending entry, the treasury's too.
FeeJobs(e) == PendingIn(e)

CloseTotals(p) ==
  /\ k[p].pc = "totals"
  /\ Go(p, [At(p, "write") EXCEPT !.fees = FeeJobs(k[p].e)])
  /\ UNCHANGED <<cur, entry, row, chain, faults>>

\* Mutant of AllPosted: only the treasury lane is moved on.
TreasuryPosted(e) == [j \in Jobs |->
  IF Booked(j) # e THEN entry[j]
  ELSE [entry[j] EXCEPT !.tre = IF @ = "pending" THEN "posted" ELSE @]]

\* status = 'posted' for what is pending in e now
AllPosted(e) == [j \in Jobs |->
  IF Booked(j) # e THEN entry[j]
  ELSE [entry[j] EXCEPT !.st = IF @ = "pending" THEN "posted" ELSE @,
                        !.tre = IF @ = "pending" THEN "posted" ELSE @]]

\* The last batch.  An epoch whose vetoed root would be rebuilt is parked; an
\* INSERT of a row that is there by now fails with its batch and ends the pass;
\* an UPDATE of a row no longer vetoed is without effect, the entries' is not.
CloseWrite(p) ==
  LET h == k[p]
      e == h.e
      done == [At(p, "look") EXCEPT !.work[e] = [st |-> "closed", root |-> h.leaves, fees |-> h.fees]]
      closedRow == [row[e] EXCEPT !.st = "closed", !.root = h.leaves, !.fees = h.fees]
  IN /\ h.pc = "write"
     /\ \/ /\ h.then = "vetoed" /\ h.leaves \in h.old
           /\ Go(p, At(p, "look"))
           /\ UNCHANGED <<entry, row>>
        \/ /\ h.then = "open" /\ row[e].st # "open"
           /\ Go(p, Idle)
           /\ UNCHANGED <<entry, row>>
        \/ /\ h.then = "open" => row[e].st = "open"
           /\ h.then = "vetoed" => h.leaves \notin h.old
           /\ row' = [row EXCEPT ![e] = IF row[e].st = h.then THEN closedRow ELSE row[e]]
           /\ entry' = AllPosted(e)
           /\ Go(p, done)
     /\ UNCHANGED <<cur, chain, faults>>

-----------------------------------------------------------------------------
(* The rest of a pass: list, then processEpoch for each payload. *)

List(p) ==
  /\ k[p].pc = "look" /\ k[p].todo = {}
  /\ Go(p, [At(p, "next") EXCEPT !.work = [e \in Epochs |->
        IF row[e].st \in {"closed", "posted"} THEN Payload(e) ELSE k[p].work[e]]])
  /\ UNCHANGED <<cur, entry, row, chain, faults>>

\* The epoch is done with in this pass.
Done(p) == [k[p] EXCEPT !.pc = "next", !.work[k[p].e] = NoPayload, !.claims = {}]

\* Mutant of SameVetoedRoot: the guardian's veto is not looked at again.
SameVetoedRootIgnored(e, q) == FALSE

\* Mutant of SameVetoedRoot: the epoch's status is not looked at.
SameRoot(e, q) == chain[e].st # "None" /\ chain[e].root = q.root

\* Vetoed on-chain with this very root
SameVetoedRoot(e, q) == chain[e].st = "Vetoed" /\ chain[e].root = q.root

\* What processEpoch does next, from the payload q and the chain read now
Decision(e, q) ==
  IF q.root = {} /\ q.fees = {} THEN "skip"
  ELSE IF SameVetoedRoot(e, q) THEN IF q.root = {} THEN "skip" ELSE "tellVeto"
  ELSE IF chain[e].st \in {"None", "Vetoed"} THEN IF q.st = "posted" THEN "skip" ELSE "post"
  ELSE IF chain[e].root # q.root THEN "skip"
  ELSE IF chain[e].st = "Posted" THEN IF chain[e].ripe THEN "finalize" ELSE "wait"
  ELSE "flags"

\* Mutant of MustReport: a post of an earlier pass is not reported.
MustReportNever(q) == FALSE

\* The pass that posted failed to tell the API.
MustReport(q) == q.st = "closed"

\* The reads at the top of processEpoch; an epoch the API still has as closed
\* though it is live is reported first.
ReadChain(p) ==
  /\ k[p].pc = "next" /\ \E e \in Epochs : k[p].work[e].st # "none"
  /\ LET e == Min({x \in Epochs : k[p].work[x].st # "none"})
         q == k[p].work[e]
         d == Decision(e, q)
         g == [k[p] EXCEPT !.e = e]
     IN Go(p, IF d = "skip" \/ (d = "wait" /\ ~MustReport(q))
              THEN [g EXCEPT !.work[e] = NoPayload]
              ELSE IF d \in {"wait", "finalize", "flags"} /\ MustReport(q)
                   THEN [g EXCEPT !.pc = "tellPosted", !.then = d]
                   ELSE [g EXCEPT !.pc = d])
  /\ UNCHANGED <<cur, entry, row, chain, faults>>

PassEnds(p) ==
  /\ k[p].pc = "next" /\ \A e \in Epochs : k[p].work[e].st = "none"
  /\ Go(p, Idle)
  /\ UNCHANGED <<cur, entry, row, chain, faults>>

\* chain.postEpoch; the contract refuses a live epoch and pay beyond the fees.
PostTx(p) ==
  LET e == k[p].e
      q == k[p].work[e]
  IN /\ k[p].pc = "post"
     /\ IF chain[e].st \in {"None", "Vetoed"} /\ q.root \subseteq q.fees
        THEN /\ chain' = [chain EXCEPT ![e].st = "Posted", ![e].root = q.root, ![e].ripe = FALSE]
             /\ Go(p, [At(p, "tellPosted") EXCEPT !.then = "wait"])
        ELSE chain' = chain /\ Go(p, Done(p))
     /\ UNCHANGED <<cur, entry, row, faults>>

\* markEpochPosted: check, then an UPDATE without condition.
TellPosted(p) ==
  LET e == k[p].e
  IN /\ k[p].pc = "tellPosted"
     /\ Go(p, IF row[e].st = "closed" /\ row[e].root = k[p].work[e].root
              THEN At(p, "markPosted") ELSE Done(p))
     /\ UNCHANGED <<cur, entry, row, chain, faults>>

MarkPosted(p) ==
  LET e == k[p].e
  IN /\ k[p].pc = "markPosted"
     /\ row' = [row EXCEPT ![e].st = "posted", ![e].root = k[p].work[e].root]
     /\ Go(p, IF k[p].then = "wait" THEN Done(p) ELSE At(p, k[p].then))
     /\ UNCHANGED <<cur, entry, chain, faults>>

FinalizeTx(p) ==
  LET e == k[p].e
  IN /\ k[p].pc = "finalize"
     /\ IF chain[e].st = "Posted" /\ chain[e].ripe
        THEN chain' = [chain EXCEPT ![e].st = "Finalized"] /\ Go(p, At(p, "flags"))
        ELSE chain' = chain /\ Go(p, Done(p))
     /\ UNCHANGED <<cur, entry, row, faults>>

\* lanes of e not yet paid or void
OpenA(e) == chain[e].root \ chain[e].paidA
OpenB(e) == chain[e].root \ (chain[e].paidB \cup chain[e].voidB)

\* Mutant of StillVesting: lane B is not waited for.
StillVestingNot(e) == FALSE

\* some lane B is neither paid nor void, and not vested
StillVesting(e) == ~chain[e].vested /\ OpenB(e) # {}

\* claimAll reads the flags once, then claims in chunks.
ReadFlags(p) ==
  LET e == k[p].e
  IN /\ k[p].pc = "flags"
     /\ Go(p, [At(p, "claim") EXCEPT !.vesting = StillVesting(e),
               !.claims = OpenA(e) \cup (IF chain[e].vested THEN OpenB(e) ELSE {})])
     /\ UNCHANGED <<cur, entry, row, chain, faults>>

\* _claim: what is claimable of j's leaf now; a claim of nothing reverts.
Claimable(e, j) ==
  /\ chain[e].st = "Finalized"
  /\ j \in OpenA(e) \/ (chain[e].vested /\ j \in OpenB(e))

Claimed(e, j) ==
  [chain EXCEPT ![e].paidA = @ \cup {j},
                ![e].paidB = IF chain[e].vested /\ j \in OpenB(e) THEN @ \cup {j} ELSE @]

ClaimTx(p) ==
  /\ k[p].pc = "claim" /\ k[p].claims # {}
  /\ \E j \in k[p].claims :
       IF Claimable(k[p].e, j)
       THEN chain' = Claimed(k[p].e, j) /\ Go(p, [k[p] EXCEPT !.claims = @ \ {j}])
       ELSE chain' = chain /\ Go(p, Done(p))
  /\ UNCHANGED <<cur, entry, row, faults>>

ClaimsDone(p) ==
  /\ k[p].pc = "claim" /\ k[p].claims = {}
  /\ Go(p, IF k[p].vesting THEN Done(p) ELSE At(p, "tellSettled"))
  /\ UNCHANGED <<cur, entry, row, chain, faults>>

\* markEpochSettled: check, then a batch without condition.
TellSettled(p) ==
  /\ k[p].pc = "tellSettled"
  /\ Go(p, IF row[k[p].e].st = "posted" THEN At(p, "markSettled") ELSE Done(p))
  /\ UNCHANGED <<cur, entry, row, chain, faults>>

MarkSettled(p) ==
  LET e == k[p].e
  IN /\ k[p].pc = "markSettled"
     /\ row' = [row EXCEPT ![e].st = "settled"]
     /\ entry' = [j \in Jobs |-> IF Booked(j) # e THEN entry[j]
                   ELSE [entry[j] EXCEPT !.st = IF @ = "posted" THEN "settled" ELSE @,
                                         !.tre = IF @ = "posted" THEN "settled" ELSE @]]
     /\ Go(p, Done(p))
     /\ UNCHANGED <<cur, chain, faults>>

\* markEpochVetoed's batch: the row's part is conditional, the entries' is not.
Vetoing(e) ==
  /\ row' = [row EXCEPT ![e] = IF row[e].st \in {"closed", "posted"}
                THEN [row[e] EXCEPT !.st = "vetoed", !.vetoedRoot = {row[e].root}, !.root = {}, !.fees = {}]
                ELSE row[e]]
  /\ entry' = [j \in Jobs |-> IF Booked(j) # e THEN entry[j]
                ELSE [entry[j] EXCEPT !.st = IF @ = "posted" THEN "pending" ELSE @,
                                      !.tre = IF @ = "posted" THEN "pending" ELSE @]]

TellVeto(p) ==
  /\ k[p].pc = "tellVeto"
  /\ Go(p, IF row[k[p].e].st \in {"closed", "posted"} THEN At(p, "markVeto") ELSE Done(p))
  /\ UNCHANGED <<cur, entry, row, chain, faults>>

MarkVeto(p) ==
  /\ k[p].pc = "markVeto"
  /\ Vetoing(k[p].e)
  /\ Go(p, Done(p))
  /\ UNCHANGED <<cur, chain, faults>>

\* The isolate ends, or the pass fails outside its epochs' try blocks.
Crash(p) ==
  /\ k[p].pc # "idle" /\ faults < MaxFaults
  /\ Go(p, Idle)
  /\ faults' = faults + 1
  /\ UNCHANGED <<cur, entry, row, chain>>

-----------------------------------------------------------------------------
(* Everybody else. *)

\* A verified job's entries; a late job's are for the epoch that just ended.
Book(j) ==
  /\ entry[j].st = "none"
  /\ \E e \in {cur} \cup (IF j \in LateJobs /\ cur > 1 THEN {cur - 1} ELSE {}) :
       entry' = [entry EXCEPT ![j] = [st |-> "pending", tre |-> "pending", epoch |-> e]]
  /\ UNCHANGED <<cur, row, chain, k, faults>>

\* An operator claws a pending entry.
ClawEntry(j) ==
  /\ entry[j].st = "pending"
  /\ entry' = [entry EXCEPT ![j].st = "clawed"]
  /\ UNCHANGED <<cur, row, chain, k, faults>>

\* The guardian vetoes on-chain; an operator may report it before the keeper
\* does (in one step: operators act rarely, keepers all the time).
GuardianVeto(e) ==
  /\ chain[e].st = "Posted" /\ ~chain[e].ripe
  /\ chain' = [chain EXCEPT ![e].st = "Vetoed"]
  /\ UNCHANGED <<cur, entry, row, k, faults>>

OperatorReportsVeto(e) ==
  /\ chain[e].st = "Vetoed" /\ row[e].st \in {"closed", "posted"} /\ row[e].root = chain[e].root
  /\ Vetoing(e)
  /\ UNCHANGED <<cur, chain, k, faults>>

OwnClaim(e, j) ==
  /\ Claimable(e, j)
  /\ chain' = Claimed(e, j)
  /\ UNCHANGED <<cur, entry, row, k, faults>>

ClawLaneB(e, j) ==
  /\ chain[e].st = "Finalized" /\ ~chain[e].vested /\ j \in OpenB(e)
  /\ chain' = [chain EXCEPT ![e].voidB = @ \cup {j}]
  /\ UNCHANGED <<cur, entry, row, k, faults>>

\* Time: the veto window ends, lane B vests, the next epoch opens.
Ripen(e) ==
  /\ chain[e].st = "Posted" /\ ~chain[e].ripe
  /\ chain' = [chain EXCEPT ![e].ripe = TRUE]
  /\ UNCHANGED <<cur, entry, row, k, faults>>

Vest(e) ==
  /\ chain[e].st = "Finalized" /\ ~chain[e].vested
  /\ chain' = [chain EXCEPT ![e].vested = TRUE]
  /\ UNCHANGED <<cur, entry, row, k, faults>>

NextEpoch ==
  /\ cur < MaxEpoch
  /\ cur' = cur + 1
  /\ UNCHANGED <<entry, row, chain, k, faults>>

KeeperStep(p) ==
  \/ CloseStart(p) \/ CloseLook(p) \/ CloseMove(p) \/ CloseSum(p) \/ CloseTotals(p) \/ CloseWrite(p)
  \/ List(p) \/ ReadChain(p) \/ PassEnds(p) \/ PostTx(p) \/ TellPosted(p) \/ MarkPosted(p)
  \/ FinalizeTx(p) \/ ReadFlags(p) \/ ClaimTx(p) \/ ClaimsDone(p)
  \/ TellSettled(p) \/ MarkSettled(p) \/ TellVeto(p) \/ MarkVeto(p)

Next ==
  \/ \E p \in Keepers : KeeperStep(p) \/ Crash(p)
  \/ \E j \in Jobs : Book(j) \/ ClawEntry(j)
  \/ \E e \in Epochs : \/ GuardianVeto(e) \/ OperatorReportsVeto(e) \/ Ripen(e) \/ Vest(e)
                       \/ \E j \in Jobs : OwnClaim(e, j) \/ ClawLaneB(e, j)
  \/ NextEpoch

Spec == Init /\ [][Next]_vars

\* The keeper's cron starts a pass every five minutes, and a pass goes on;
\* chain time passes.
Fairness ==
  /\ \A p \in Keepers : WF_vars(KeeperStep(p))
  /\ \A e \in Epochs : WF_vars(Ripen(e)) /\ WF_vars(Vest(e))
  /\ WF_vars(NextEpoch)

FairSpec == Spec /\ Fairness

-----------------------------------------------------------------------------
(* Properties. *)

Pcs == {"idle", "look", "move", "sum", "totals", "write", "next", "post", "tellPosted", "markPosted",
        "finalize", "flags", "claim", "tellSettled", "markSettled", "tellVeto", "markVeto"}

TypeOK ==
  /\ cur \in Epochs /\ faults \in 0..MaxFaults
  /\ entry \in [Jobs -> [st : {"none", "pending", "posted", "settled", "clawed"},
                         tre : {"none", "pending", "posted", "settled"}, epoch : 0..MaxEpoch]]
  /\ row \in [Epochs -> [st : {"open", "closed", "posted", "settled", "vetoed"}, root : SUBSET Jobs,
                          fees : SUBSET Jobs, vetoedRoot : SUBSET SUBSET Jobs]]
  /\ chain \in [Epochs -> [st : {"None", "Posted", "Vetoed", "Finalized"}, root : SUBSET Jobs,
                            ripe : BOOLEAN, vested : BOOLEAN, paidA : SUBSET Jobs,
                            paidB : SUBSET Jobs, voidB : SUBSET Jobs]]
  /\ \A p \in Keepers : k[p].pc \in Pcs

\* No job's pay is opened to claims by two epochs, whatever is vetoed, clawed,
\* booked late and moved, and wherever a pass dies (closeEpochs, run.ts).
NoDoublePay == \A e, f \in Epochs :
  e # f /\ chain[e].st = "Finalized" /\ chain[f].st = "Finalized" => chain[e].root \cap chain[f].root = {}

\* /settled is only sent once every lane is paid or void (run.ts, header).
SettledIsPaid == \A e \in Epochs :
  row[e].st = "settled" => /\ chain[e].st = "Finalized"
                           /\ chain[e].root = row[e].root
                           /\ OpenA(e) = {} /\ OpenB(e) = {}

\* What is live on-chain is what the API has closed: a pass that died before
\* reporting is caught up with, never contradicted.
LiveAgrees == \A e \in Epochs :
  chain[e].st \in {"Posted", "Finalized"} =>
    row[e].st \in {"closed", "posted", "settled"} /\ row[e].root = chain[e].root

\* The pay an epoch posts is covered by fees it burns, so that the contract
\* never refuses it (clawEntry's comment on the treasury bound).
FeesCoverPay == \A e \in Epochs : row[e].st = "closed" => row[e].root \subseteq row[e].fees

\* The API's ledger never contradicts the chain and never promises it more pay
\* than it burns fees, wherever a pass dies and whoever reports a veto.
ApiAgrees == LiveAgrees /\ SettledIsPaid /\ FeesCoverPay

\* KeeperSystem implements EpochLife.
Life == INSTANCE EpochLife WITH life <- [e \in Epochs |-> [st |-> chain[e].st, jobs |-> chain[e].root]]
ImplementsEpochLife == Life!Spec

\* A closed epoch that pays someone is settled or vetoed in the end.
ClosedEnds == \A e \in Epochs :
  (row[e].st \in {"closed", "posted"} /\ row[e].root # {}) ~> (row[e].st \in {"settled", "vetoed"})

\* epochJobs: "counted exactly as closeEpochs counted them: once closed, the
\* entries it posted".
LeavesArePosted == \A e \in Epochs :
  row[e].st \in {"closed", "posted", "settled"} =>
    row[e].root = PayIn(e, "posted") \cup PayIn(e, "settled")

\* clawEntry: a clawed entry "is left out of the epoch's next close".
ClawedIsLeftOut == \A e \in Epochs :
  row[e].st \in {"closed", "posted", "settled"} => row[e].root \cap PayIn(e, "clawed") = {}

\* run.ts: "Never re-post the identical vetoed root."
NeverRepostVetoed == [][\A e \in Epochs :
  chain[e].st = "Vetoed" /\ chain'[e].st = "Posted" => chain'[e].root # chain[e].root]_vars

\* schema.ts: vetoed_root is "the root the guardian vetoed".
ParkedWasVetoed == [][\A e \in Epochs :
  row'[e].vetoedRoot # row[e].vetoedRoot => chain[e].root \in row'[e].vetoedRoot]_vars
=============================================================================
