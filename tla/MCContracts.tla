----------------------------- MODULE MCContracts ----------------------------
(***************************************************************************)
(* The settlement contract with its token, and the contracts of the first  *)
(* generation: StakingManager, RewardContract (the escrow of workloads),   *)
(* WorkloadRegistry with ProviderRegistry and ProviderMinter,              *)
(* EmissionController and CloudanaSettlement. They share no state, so a    *)
(* behaviour exercises one of them and the rest stay as they start.        *)
(***************************************************************************)
EXTENDS Settlement

CONSTANTS
  StakeAmounts, TIER1_MIN_STAKE, UNSTAKE_COOLDOWN, Challenged, MaxStaked, StakeTime, MaxChallenges,         \* staking
  Workloads, Payments, Rewards, Burns, BURN_BPS, TREASURY_BPS, BPS_DENOM, HasTreasury, MaxPaid, MaxBatch,   \* escrow
  None, MaxWorkloads, Devices, Base, HALVING_INTERVAL,                                           \* registries, minter
  EmiSupply, INITIAL_RATE_BPS, TERMINAL_RATE_BPS, DECAY_NUM, DECAY_DEN, EmiYear, BurnAmount, EmiTime, MaxBurns,
  V1Epochs, V1Posts, V1Deposits, V1Supply, V1Tail, V1Seconds, V1Year, V1Genesis, V1Delay, V1Time, MaxPosts,
  p1, p2                                                                              \* accounts of the instance below

VARIABLES
  part,  \* the component this behaviour exercises
  stakes, bal, burned, rewarded, mvpMode, stk_now, deposits, pending, credited, esc_bal, paid, esc_burned, treasury,
  withdrawn, refunded, work, list, index, owned, nextId, device, devices, claims, totalClaims, supply, last, total,
  emi_now, burns, v1_ep, totalEscrow, v1_pendingBurn, subsidyByYear, claimed, v1_supply, v1_bal, burnt, posts, v1_now

\* Two providers, or one of them: a re-post after a veto may commit to the other.
Leaf(x, y) == [a |-> x, b |-> y]
TreeBoth == [acc \in {p1, p2} |-> IF acc = p1 THEN Leaf(130, 10) ELSE Leaf(60, 10)]
TreeOne == [acc \in {p1} |-> Leaf(130, 10)]
MCTrees == {TreeBoth, TreeOne}

Args(r, ta, tb, tr, f) == [root |-> r, totA |-> ta, totB |-> tb, treas |-> tr, fees |-> f]

\* A right post; one whose totals are below its tree's; one whose lane A and
\* treasury share exceed 98% of the fees.
MCPosts == {Args(TreeOne, 130, 10, 6, 200), Args(TreeBoth, 130, 10, 66, 200),
            Args(TreeBoth, 190, 20, 12, 200)}

\* A tree within its post's caps, one whose leaves exceed them, and one with two leaves for an account; all have a
\* leaf in common.
MCV1Posts ==
  LET V1Leaf(a, x) == [account |-> a, amount |-> x]
      one == V1Leaf(p1, 49)
  IN {[root |-> {one}, mintA |-> 49, mintB |-> 0, fees |-> 50],
      [root |-> {one, V1Leaf(p2, 49)}, mintA |-> 49, mintB |-> 9, fees |-> 50],
      [root |-> {one, V1Leaf(p1, 6)}, mintA |-> 49, mintB |-> 6, fees |-> 60]}

Stk == INSTANCE Staking WITH
  Providers <- Accounts, Amounts <- StakeAmounts, MaxTime <- StakeTime, now <- stk_now
Esc == INSTANCE WorkloadEscrow WITH
  Providers <- Accounts, bal <- esc_bal, burned <- esc_burned
Reg == INSTANCE Registries WITH
  Devices <- {}, Base <- {}
Mnt == INSTANCE Registries WITH
  MaxWorkloads <- 0
Emi == INSTANCE Emission WITH
  Supply0 <- EmiSupply, YEAR <- EmiYear, MaxTime <- EmiTime, now <- emi_now
V1 == INSTANCE SettlementV1 WITH
  Epochs <- V1Epochs, Posts <- V1Posts, Deposits <- V1Deposits, Supply0 <- V1Supply, TERMINAL_RATE_BPS <- V1Tail,
  epochSeconds <- V1Seconds, YEAR <- V1Year, genesisTimestamp <- V1Genesis, vetoDelaySeconds <- V1Delay,
  MaxNow <- V1Time, ep <- v1_ep, pendingBurn <- v1_pendingBurn, supply <- v1_supply, bal <- v1_bal, now <- v1_now

ASSUME StakesAssumption == Stk!StakingAssumption
ASSUME WorkloadsAssumption == Esc!WorkloadEscrowAssumption
ASSUME ListsAssumption == Reg!RegistriesAssumption
ASSUME MinterAssumption == Mnt!RegistriesAssumption
ASSUME ScheduleAssumption == Emi!EmissionAssumption
ASSUME V1Assumption == V1!SettlementV1Assumption

stkVars == <<stakes, bal, burned, rewarded, mvpMode, stk_now>>
escVars == <<deposits, pending, credited, esc_bal, paid, esc_burned, treasury, withdrawn, refunded>>
regVars == <<work, list, index, owned, nextId, device, devices, claims, totalClaims>>
emiVars == <<supply, last, total, emi_now, burns>>
v1Vars == <<v1_ep, totalEscrow, v1_pendingBurn, subsidyByYear, claimed, v1_supply, v1_bal, burnt, posts, v1_now>>

\* The components share no state: those that are not exercised stay as they start.
ContractsInit ==
  /\ part \in {"v2", "staking", "escrow", "registries", "minter", "emission", "v1"}
  /\ Init
  /\ Stk!Init
  /\ Esc!Init
  /\ CASE part = "minter" -> Mnt!Init
       [] OTHER -> Reg!Init
  /\ Emi!Init
  /\ V1!Init

V2Only == part = "v2" /\ UNCHANGED <<part, stkVars, escVars, regVars, emiVars, v1Vars>>
StakingOnly == part = "staking" /\ UNCHANGED <<part, vars, escVars, regVars, emiVars, v1Vars>>
EscrowOnly == part = "escrow" /\ UNCHANGED <<part, vars, stkVars, regVars, emiVars, v1Vars>>
RegistriesOnly == part = "registries" /\ UNCHANGED <<part, vars, stkVars, escVars, emiVars, v1Vars>>
MinterOnly == part = "minter" /\ UNCHANGED <<part, vars, stkVars, escVars, emiVars, v1Vars>>
EmissionOnly == part = "emission" /\ UNCHANGED <<part, vars, stkVars, escVars, regVars, v1Vars>>
V1Only == part = "v1" /\ UNCHANGED <<part, vars, stkVars, escVars, regVars, emiVars>>

ContractsNext ==
  \/ V2Only /\ Next
  \/ StakingOnly /\ Stk!Next
  \/ EscrowOnly /\ Esc!Next
  \/ RegistriesOnly /\ Reg!Next
  \/ MinterOnly /\ Mnt!Next
  \/ EmissionOnly /\ Emi!Next
  \/ V1Only /\ V1!Next

all == <<part, vars, stkVars, escVars, regVars, emiVars, v1Vars>>
ContractsSpec == ContractsInit /\ [][ContractsNext]_all

-----------------------------------------------------------------------------
\* The contracts of the first generation: stakes are conserved and exits covered, the escrow covers every open
\* workload and what it credits, the registries' lists match their owners, rewards only fall at halvings, the
\* emission stays within its schedule and never stops, and the first settlement contract mints only what final
\* epochs posted against burned fees and pool funds.
LegacySound ==
  /\ Stk!TypeOK /\ Stk!Conserved /\ Stk!Solvent
  /\ Esc!TypeOK /\ Esc!CoversAll /\ Esc!CreditsMatch
  /\ Emi!TypeOK /\ Emi!BoundedBySchedule /\ Emi!PermanentTail
  /\ V1!TypeOK /\ V1!PostsBacked /\ V1!SubsidyExact /\ V1!NothingBeforeFinal /\ V1!MintsBounded
  /\ part = "registries" => (Reg!ListExact /\ Reg!OwnersExact)
  /\ part = "minter" => (Mnt!TypeOK /\ Mnt!RewardsFall)
=============================================================================
