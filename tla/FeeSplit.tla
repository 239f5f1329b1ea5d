------------------------------ MODULE FeeSplit ------------------------------
(***************************************************************************)
(* How an epoch's fees become lanes (S/ledger.service.ts): splitFee when a  *)
(* job or a hosting hour is booked; fitLaneB and fitProtocolB when the      *)
(* epoch closes, and again when it is closed after a veto; operators' claws *)
(* in between.  Amounts are micro-CLD; the numeric details are those of the *)
(* code, since the contract's bounds are exact.                             *)
(***************************************************************************)
EXTENDS Integers, FiniteSets, FiniteSetsExt

CONSTANTS
  Slots,      \* reward entries of the epoch, one slot per job
  Wallets,    \* payout wallets
  Fees,       \* fees of paid jobs
  Units,      \* verified units of protocol jobs
  Budgets,    \* what laneBBudget may return at a close
  Rho,        \* SUBSIDY_RHO in parts per million
  NMin,       \* CLUSTER_N_MIN
  SCapPct,    \* CLUSTER_S_CAP in percent
  MaxCloses   \* bound: closes of the epoch

ASSUME FeeSplitAssumption ==
  /\ IsFiniteSet(Slots) /\ Fees \subseteq Nat \ {0, 1}   \* every price holds the base fee
  /\ Units \subseteq Nat \ {0} /\ Budgets \subseteq Nat
  /\ Rho \in Nat /\ NMin \in Nat /\ SCapPct \in 0..100 /\ MaxCloses \in Nat

VARIABLES
  entry,      \* the entries booked so far
  budget,     \* the lane B budget of the last close
  closed,     \* the epoch is closed
  closes

splitVars == <<entry, budget, closed, closes>>

Least(x, y) == IF x < y THEN x ELSE y
AtLeast0(x) == IF x < 0 THEN 0 ELSE x

RhoMax == 40000

\* Mutant of TreasuryShare: rounded down.
TreasuryFloor(F) == (F * 30) \div 1000

\* ceil(0.030F)
TreasuryShare(F) == (F * 30 + 999) \div 1000

\* Mutant of LaneA: not trimmed.
LaneAUntrimmed(F) == (F * 950) \div 1000

\* lane A, trimmed so that with the treasury it stays within floor(0.980F)
LaneA(F) == Least((F * 950) \div 1000, AtLeast0((F * 980) \div 1000 - TreasuryShare(F)))

\* Mutant of Subsidy: RHO_MAX is not enforced.
SubsidyUncapped(F, ok) == IF ok THEN (F * Rho) \div 1000000 ELSE 0

\* what splitFee wants of lane B; the epoch's budget comes at close
Subsidy(F, ok) == IF ok THEN (F * Least(Rho, RhoMax)) \div 1000000 ELSE 0

NoEntry == [kind |-> "none", w |-> CHOOSE w \in Wallets : TRUE, fee |-> 0, a |-> 0, t |-> 0, b |-> 0,
         units |-> 0, clawed |-> FALSE]

SplitInit ==
  /\ entry = [s \in Slots |-> NoEntry]
  /\ budget = 0 /\ closed = FALSE /\ closes = 0

\* A verified job, with or without subsidy (jobRewardStatements), or a hosting
\* hour, which has none (recordHostingRewards).
BookFee(s, w, F, ok) ==
  /\ ~closed /\ closes = 0 /\ entry[s].kind = "none"
  /\ entry' = [entry EXCEPT ![s] = [kind |-> "paid", w |-> w, fee |-> F, a |-> LaneA(F),
       t |-> TreasuryShare(F), b |-> Subsidy(F, ok), units |-> 0, clawed |-> FALSE]]
  /\ UNCHANGED <<budget, closed, closes>>

\* A protocol job: no fee, a lane B entry whose amount waits for the close.
BookProtocol(s, w, u) ==
  /\ ~closed /\ closes = 0 /\ entry[s].kind = "none"
  /\ entry' = [entry EXCEPT ![s] = [kind |-> "protocol", w |-> w, fee |-> 0, a |-> 0, t |-> 0, b |-> 0,
       units |-> u, clawed |-> FALSE]]
  /\ UNCHANGED <<budget, closed, closes>>

Pending == {s \in Slots : entry[s].kind # "none" /\ ~entry[s].clawed}

\* fitLaneB's UPDATE over all pending lane B entries
LaneB == [s \in Slots |-> entry[s].b]
TotalB == SumFunctionOnSet(LaneB, Pending)

\* Mutant of Scaled: rounded up.
ScaledUp(b, bud, tot) == IF tot <= bud THEN b ELSE (b * bud + tot - 1) \div tot

Scaled(b, bud, tot) == IF tot <= bud THEN b ELSE (b * bud) \div tot

VerifiedUnits == [s \in Slots |-> entry[s].units]

\* fitProtocolB, after fitLaneB: the rest of the budget, by verified units
Share(left, u, wu, tot) ==
  (Least((left * wu) \div tot, (left * SCapPct) \div 100) * u) \div wu

Fitted(bud) ==
  LET tot == TotalB
      scaled == [s \in Slots |-> IF s \in Pending THEN Scaled(entry[s].b, bud, tot) ELSE entry[s].b]
      Prot == {s \in Pending : entry[s].kind = "protocol"}
      left == AtLeast0(bud - SumFunctionOnSet(scaled, Pending \ Prot))
      units == SumFunctionOnSet(VerifiedUnits, Prot)
      walletUnits(w) == SumFunctionOnSet(VerifiedUnits, {s \in Prot : entry[s].w = w})
      enough == left > 0 /\ Cardinality({entry[s].w : s \in Prot}) >= NMin
  IN [s \in Slots |-> [entry[s] EXCEPT !.b =
        IF s \in Prot /\ enough THEN Share(left, entry[s].units, walletUnits(entry[s].w), units) ELSE scaled[s]]]

Close(bud) ==
  /\ ~closed /\ closes < MaxCloses /\ Pending # {}
  /\ entry' = Fitted(bud)
  /\ budget' = bud /\ closed' = TRUE /\ closes' = closes + 1

\* markEpochVetoed
Reopen ==
  /\ closed
  /\ closed' = FALSE
  /\ UNCHANGED <<entry, budget, closes>>

\* clawEntry: the provider's entries of a slot; the treasury's stay.
Claw(s) ==
  /\ ~closed /\ s \in Pending
  /\ entry' = [entry EXCEPT ![s].clawed = TRUE]
  /\ UNCHANGED <<budget, closed, closes>>

SplitNext ==
  \/ \E s \in Slots, w \in Wallets, F \in Fees, ok \in BOOLEAN : BookFee(s, w, F, ok)
  \/ \E s \in Slots, w \in Wallets, u \in Units : BookProtocol(s, w, u)
  \/ \E bud \in Budgets : Close(bud)
  \/ Reopen
  \/ \E s \in Slots : Claw(s)

SplitSpec == SplitInit /\ [][SplitNext]_splitVars

-----------------------------------------------------------------------------
(* Properties. *)

\* Every booked job keeps both bounds of the contract by itself, so that any
\* set of them does: treasury >= 3% and lane A + treasury <= 98% of its fee
\* (splitFee's rounding).
BoundsPerJob == \A s \in Slots : entry[s].kind = "paid" =>
  /\ entry[s].t * 10000 >= entry[s].fee * 300
  /\ (entry[s].a + entry[s].t) * 10000 <= entry[s].fee * 9800

\* Paying for one's own job always loses: lane A and the subsidy stay below the
\* fee, whatever SUBSIDY_RHO says (RHO_MAX).
SelfDealingLoses == \A s \in Slots :
  entry[s].kind = "paid" => entry[s].a + entry[s].b < entry[s].fee

\* A closed epoch's lane B is within the budget of that close, through vetoes,
\* claws and a budget that shrank (fitLaneB, fitProtocolB): the contract takes
\* the whole post or nothing.
LaneBFits == closed => TotalB <= budget

\* fitProtocolB: "nothing unless at least `nMin` distinct payout wallets took
\* part".
ClusterGate == closed =>
  LET Prot == {s \in Pending : entry[s].kind = "protocol"}
  IN Cardinality({entry[s].w : s \in Prot}) < NMin => \A s \in Prot : entry[s].b = 0
=============================================================================
