------------------------------ MODULE Staking ------------------------------
(***************************************************************************)
(* StakingManager.sol: providers stake CLD, leave after a cooldown unless   *)
(* challenged, and are slashed.  One action per transaction; time passes    *)
(* between them.  Tiers and roles do not move money and are left out.       *)
(***************************************************************************)
EXTENDS Naturals, FiniteSets, Functions

CONSTANTS
  Providers,
  Amounts,             \* amounts a caller may name
  TIER1_MIN_STAKE,
  UNSTAKE_COOLDOWN,    \* in ticks
  Challenged,          \* whether every slash names a challenger
  MaxStaked, MaxTime, MaxChallenges   \* bounds

StakingAssumption ==
  /\ IsFiniteSet(Providers) /\ Amounts \subseteq Nat /\ TIER1_MIN_STAKE \in Nat /\ UNSTAKE_COOLDOWN \in Nat
  /\ Challenged \in BOOLEAN /\ MaxStaked \in Nat /\ MaxTime \in Nat /\ MaxChallenges \in Nat

VARIABLES
  stakes,   \* StakeInfo per provider, with what came in and went out
  bal,      \* the contract's CLD
  burned, rewarded,
  mvpMode, now

vars == <<stakes, bal, burned, rewarded, mvpMode, now>>

Init ==
  /\ stakes = [p \in Providers |-> [amount |-> 0, requestedAt |-> 0, pending |-> 0, challenges |-> 0,
                                    slashed |-> 0, in |-> 0, out |-> 0]]
  /\ bal = 0 /\ burned = 0 /\ rewarded = 0 /\ mvpMode = TRUE /\ now = 1

stake(p, a) ==
  /\ mvpMode \/ a >= TIER1_MIN_STAKE
  /\ stakes[p].in + a <= MaxStaked
  /\ stakes' = [stakes EXCEPT ![p].amount = @ + a, ![p].in = @ + a]
  /\ bal' = bal + a
  /\ UNCHANGED <<burned, rewarded, mvpMode, now>>

requestUnstake(p, a) ==
  /\ stakes[p].amount >= a /\ stakes[p].challenges = 0 /\ stakes[p].requestedAt = 0
  /\ stakes' = [stakes EXCEPT ![p].requestedAt = now, ![p].pending = a]
  /\ UNCHANGED <<bal, burned, rewarded, mvpMode, now>>

\* Mutant: the request is not cleared.
unstakeAgain(p) ==
  LET s == stakes[p]
  IN /\ s.requestedAt > 0 /\ now >= s.requestedAt + UNSTAKE_COOLDOWN /\ s.challenges = 0
     /\ s.pending <= bal
     /\ stakes' = [stakes EXCEPT ![p].amount = IF s.pending <= @ THEN @ - s.pending ELSE @, ![p].out = @ + s.pending]
     /\ bal' = bal - s.pending
     /\ UNCHANGED <<burned, rewarded, mvpMode, now>>

\* The subtraction is checked: it reverts when the stake is smaller than the amount asked for.
unstake(p) ==
  LET s == stakes[p]
  IN /\ s.requestedAt > 0 /\ now >= s.requestedAt + UNSTAKE_COOLDOWN /\ s.challenges = 0
     /\ s.pending <= s.amount /\ s.pending <= bal
     /\ stakes' = [stakes EXCEPT ![p].amount = @ - s.pending, ![p].requestedAt = 0, ![p].pending = 0,
                                 ![p].out = @ + s.pending]
     /\ bal' = bal - s.pending
     /\ UNCHANGED <<burned, rewarded, mvpMode, now>>

\* Mutant: the slash is not capped at the stake.
SlashOfUncapped(p, a) == a

SlashOf(p, a) == IF a > stakes[p].amount THEN stakes[p].amount ELSE a

Reward(x) == (x * 25) \div 100

\* Mutant: the reward is paid on top of the burn.
BurnOfAll(x) == x

BurnOf(x) == x - Reward(x)

\* A quarter goes to the challenger, if there is one; the rest to the burn address.
slash(p, a, challenger) ==
  LET x == SlashOf(p, a)
      paid == IF challenger THEN Reward(x) ELSE 0
  IN /\ stakes[p].amount > 0 /\ paid + BurnOf(x) <= bal
     /\ stakes' = [stakes EXCEPT ![p].amount = @ - x, ![p].slashed = @ + x]
     /\ rewarded' = rewarded + paid /\ burned' = burned + BurnOf(x)
     /\ bal' = bal - paid - BurnOf(x)
     /\ UNCHANGED <<mvpMode, now>>

incrementChallengeCount(p) ==
  /\ stakes[p].challenges < MaxChallenges
  /\ stakes' = [stakes EXCEPT ![p].challenges = @ + 1]
  /\ UNCHANGED <<bal, burned, rewarded, mvpMode, now>>

decrementChallengeCount(p) ==
  /\ stakes' = [stakes EXCEPT ![p].challenges = IF @ > 0 THEN @ - 1 ELSE 0]
  /\ UNCHANGED <<bal, burned, rewarded, mvpMode, now>>

disableMvpMode == mvpMode' = FALSE /\ UNCHANGED <<stakes, bal, burned, rewarded, now>>

Tick == now < MaxTime /\ now' = now + 1 /\ UNCHANGED <<stakes, bal, burned, rewarded, mvpMode>>

Next ==
  \/ \E p \in Providers :
       \/ \E a \in Amounts : stake(p, a) \/ requestUnstake(p, a)
       \/ unstake(p) \/ incrementChallengeCount(p) \/ decrementChallengeCount(p)
       \/ \E a \in Amounts, c \in {Challenged, TRUE} : slash(p, a, c)
  \/ disableMvpMode \/ Tick

Spec == Init /\ [][Next]_vars

-----------------------------------------------------------------------------
(* Properties. *)

amounts == [p \in Providers |-> stakes[p].amount]
Staked == SumFunctionOnSet(amounts, Providers)

TypeOK ==
  /\ \A p \in Providers : stakes[p].amount \in Nat /\ stakes[p].pending \in Nat /\ stakes[p].requestedAt \in 0 .. now
  /\ bal \in Nat /\ burned \in Nat /\ rewarded \in Nat /\ mvpMode \in BOOLEAN

\* What a provider put in is still staked, was slashed or came back: a slash during the cooldown is not paid out, and
\* nothing is paid out twice.
Conserved == \A p \in Providers : stakes[p].in = stakes[p].amount + stakes[p].slashed + stakes[p].out

\* The contract always holds every stake it owes, whatever the order of slashes and exits of several providers.
Solvent == bal >= Staked

\* The slash's split: "25% of slashed amount goes to challenger, 75% burned", so the contract keeps nothing but stakes.
NothingStranded == bal = Staked

\* "Complete unstake after cooldown period": a request can still be completed when its cooldown is over.
ExitStaysOpen == \A p \in Providers : stakes[p].requestedAt > 0 => stakes[p].pending <= stakes[p].amount

=============================================================================
