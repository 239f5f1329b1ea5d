--------------------------- MODULE WorkloadEscrow ---------------------------
(***************************************************************************)
(* RewardContract.sol with the fee burn of RewardContract_v2_burn.sol       *)
(* (Burns = FALSE: without it): users fund workloads, the orchestrator      *)
(* moves deposits to providers, one at a time or in a batch that takes      *)
(* effect as a whole, providers withdraw, and what is left is refunded.     *)
(***************************************************************************)
EXTENDS Naturals, FiniteSets, Functions, Sequences, SequencesExt

CONSTANTS
  Workloads, Providers,
  Payments,                \* amounts a user pays
  Rewards,                 \* amounts the orchestrator names
  Burns,
  BURN_BPS, TREASURY_BPS, BPS_DENOM,
  HasTreasury,             \* whether the treasury address is set
  MaxPaid, MaxBatch        \* bounds: what users pay in all, rewards in a batch

WorkloadEscrowAssumption ==
  /\ IsFiniteSet(Workloads) /\ IsFiniteSet(Providers) /\ {BURN_BPS, TREASURY_BPS, MaxBatch} \subseteq Nat
  /\ Payments \subseteq Nat \ {0} /\ Rewards \subseteq Nat /\ MaxPaid \in Nat /\ Burns \in BOOLEAN
  /\ HasTreasury \in BOOLEAN /\ BPS_DENOM \in Nat \ {0} /\ BURN_BPS + TREASURY_BPS <= BPS_DENOM

VARIABLES
  deposits,   \* workloadDeposits
  pending,    \* providerPendingRewards
  credited,   \* providerWorkloadPayments: per provider and workload
  bal,        \* the contract's CLD
  paid, burned, treasury, withdrawn, refunded

vars == <<deposits, pending, credited, bal, paid, burned, treasury, withdrawn, refunded>>

Init ==
  /\ deposits = [w \in Workloads |-> 0] /\ pending = [p \in Providers |-> 0]
  /\ credited = [p \in Providers |-> [w \in Workloads |-> 0]]
  /\ bal = 0 /\ paid = 0 /\ burned = 0 /\ treasury = 0 /\ withdrawn = 0 /\ refunded = 0

Burned(a) == IF Burns THEN (a * BURN_BPS) \div BPS_DENOM ELSE 0
ToTreasury(a) == IF Burns THEN (a * TREASURY_BPS) \div BPS_DENOM ELSE 0

\* Mutant: the whole payment is escrowed.
EscrowedAll(a) == a

Escrowed(a) == a - Burned(a) - ToTreasury(a)

\* fundWorkload() and _fundWorkloadV2(): without a treasury address its share stays in the contract.
fundWorkload(w, a) ==
  LET t == IF HasTreasury THEN ToTreasury(a) ELSE 0
  IN /\ paid + a <= MaxPaid /\ paid' = paid + a
     /\ burned' = burned + Burned(a) /\ treasury' = treasury + t
     /\ bal' = bal + a - Burned(a) - t
     /\ deposits' = [deposits EXCEPT ![w] = @ + Escrowed(a)]
     /\ UNCHANGED <<pending, credited, withdrawn, refunded>>

Books == [d |-> deposits, p |-> pending, c |-> credited, ok |-> TRUE]

\* Mutant: the deposit is compared before the batch, not as it is used up.
RewardUnguarded(b, x) ==
  [b EXCEPT !.ok = @ /\ x.a > 0 /\ deposits[x.w] >= x.a,
            !.d[x.w] = @ - x.a, !.p[x.p] = @ + x.a, !.c[x.p][x.w] = @ + x.a]

\* One reward; a failed requirement fails the transaction.
Reward(b, x) ==
  IF b.ok /\ x.a > 0 /\ b.d[x.w] >= x.a
  THEN [b EXCEPT !.d[x.w] = @ - x.a, !.p[x.p] = @ + x.a, !.c[x.p][x.w] = @ + x.a]
  ELSE [b EXCEPT !.ok = FALSE]

\* rewardProvider() is a batch of one, batchRewardProviders() a longer one.
rewardProviders(batch) ==
  LET b == FoldLeft(Reward, Books, batch)
  IN /\ b.ok
     /\ deposits' = b.d /\ pending' = b.p /\ credited' = b.c
     /\ UNCHANGED <<bal, paid, burned, treasury, withdrawn, refunded>>

\* Mutant: what is pending is not cleared.
withdrawEarningsTwice(p) ==
  /\ pending[p] > 0 /\ pending[p] <= bal
  /\ withdrawn' = withdrawn + pending[p] /\ bal' = bal - pending[p]
  /\ UNCHANGED <<deposits, pending, credited, paid, burned, treasury, refunded>>

withdrawEarnings(p) ==
  /\ pending[p] > 0 /\ pending[p] <= bal
  /\ withdrawn' = withdrawn + pending[p] /\ bal' = bal - pending[p]
  /\ pending' = [pending EXCEPT ![p] = 0]
  /\ UNCHANGED <<deposits, credited, paid, burned, treasury, refunded>>

refundWorkload(w) ==
  /\ deposits[w] > 0 /\ deposits[w] <= bal
  /\ refunded' = refunded + deposits[w] /\ bal' = bal - deposits[w]
  /\ deposits' = [deposits EXCEPT ![w] = 0]
  /\ UNCHANGED <<pending, credited, paid, burned, treasury, withdrawn>>

Entries == [p : Providers, w : Workloads, a : Rewards]

Next ==
  \/ \E w \in Workloads, a \in Payments : fundWorkload(w, a)
  \/ \E n \in 1..MaxBatch : \E batch \in [1..n -> Entries] : rewardProviders(batch)
  \/ \E p \in Providers : withdrawEarnings(p)
  \/ \E w \in Workloads : refundWorkload(w)

Spec == Init /\ [][Next]_vars

-----------------------------------------------------------------------------
(* Properties. *)

creditedTo == [p \in Providers |-> SumFunctionOnSet(credited[p], Workloads)]
Deposited == SumFunctionOnSet(deposits, Workloads)
Pending == SumFunctionOnSet(pending, Providers)
Owed == Deposited + Pending

TypeOK ==
  /\ deposits \in [Workloads -> Nat] /\ pending \in [Providers -> Nat] /\ credited \in [Providers -> [Workloads -> Nat]]
  /\ bal \in Nat /\ burned + treasury + withdrawn + refunded <= paid

\* Whatever order deposits, batches, withdrawals and refunds come in, the contract holds all it owes, so no
\* withdrawal and no refund can fail for want of tokens.
CoversAll == bal >= Owed

\* Providers are credited exactly what was moved out of deposits: an entry of a batch that names a workload twice
\* cannot use a deposit twice.
CreditsMatch ==
  LET escrow == paid - burned - (IF HasTreasury THEN treasury ELSE 0)
      all == SumFunctionOnSet(creditedTo, Providers)
  IN all = Pending + withdrawn /\ all + Deposited + refunded <= escrow

\* The patch's split: "escrowed = remainder -> paid to provider on completion", the rest burned or with the treasury:
\* every token is owed to someone.
NothingKept == bal = Owed

=============================================================================
