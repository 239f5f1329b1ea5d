---------------------------- MODULE SettlementV1 ----------------------------
(***************************************************************************)
(* The first settlement contract, contracts/CloudanaSettlement.sol: fees    *)
(* are escrowed, an epoch commits to burn some and to mint at most mintA    *)
(* and mintB, and leaves of its root are minted lazily.  One action per     *)
(* transaction.  A root is the set of its leaves (account, amount); an      *)
(* account may have several, and a claim is remembered by its leaf.         *)
(***************************************************************************)
EXTENDS Integers, FiniteSets, Functions, FiniteSetsExt

CONSTANTS
  Epochs,
  Posts,                \* what the poster may post: root, mintA, mintB, fees
  Deposits,             \* amounts of depositFor()
  Supply0,              \* tokens the users hold at genesis
  INITIAL_RATE_BPS, TERMINAL_RATE_BPS,
  epochSeconds, YEAR, genesisTimestamp, vetoDelaySeconds,
  MaxNow, MaxPosts      \* bounds

SettlementV1Assumption ==
  /\ Epochs \subseteq Nat /\ IsFiniteSet(Epochs) /\ Deposits \subseteq Nat \ {0}
  /\ {Supply0, INITIAL_RATE_BPS, TERMINAL_RATE_BPS, genesisTimestamp, vetoDelaySeconds, MaxNow, MaxPosts} \subseteq Nat
  /\ {epochSeconds, YEAR} \subseteq Nat \ {0}
  /\ \A p \in Posts : {p.mintA, p.mintB, p.fees} \subseteq Nat /\ \A l \in p.root : l.amount \in Nat

VARIABLES
  ep,             \* epochs: status, root, mintA, mintB, fees, minted, postedAt
  totalEscrow, pendingBurn, subsidyByYear,
  claimed,        \* leaf hashes: <<epoch, leaf>>
  supply, bal,    \* the token: total supply, and what this contract holds
  burnt,          \* what finalize() burned
  posts, now

vars == <<ep, totalEscrow, pendingBurn, subsidyByYear, claimed, supply, bal, burnt, posts, now>>

NoEpoch == [st |-> "None", root |-> {}, mintA |-> 0, mintB |-> 0, fees |-> 0, minted |-> 0, postedAt |-> 0]

genesisEpoch == genesisTimestamp \div epochSeconds

\* yearOf(), which rateBpsAt() counts by as well
yearOf(e) ==
  LET t == e * epochSeconds IN IF t > genesisTimestamp THEN (t - genesisTimestamp) \div YEAR ELSE 0

Init ==
  /\ ep = [e \in Epochs |-> NoEpoch] /\ subsidyByYear = [y \in {yearOf(e) : e \in Epochs} |-> 0]
  /\ totalEscrow = 0 /\ pendingBurn = 0 /\ claimed = {} /\ burnt = 0
  /\ supply = Supply0 /\ bal = 0 /\ posts = 0 /\ now = 0

depositFor(x) ==
  /\ x <= supply - bal
  /\ bal' = bal + x /\ totalEscrow' = totalEscrow + x
  /\ UNCHANGED <<ep, pendingBurn, subsidyByYear, claimed, supply, burnt, posts, now>>

\* The loop of rateBpsAt(): the rate after y years
rate[y \in Nat] ==
  IF y = 0 THEN INITIAL_RATE_BPS
  ELSE LET r == (rate[y - 1] * 85) \div 100 IN IF r <= TERMINAL_RATE_BPS THEN TERMINAL_RATE_BPS ELSE r

annualSubsidyCap(e) == (supply * rate[yearOf(e)]) \div 10000

allowance(e) ==
  LET annual == annualSubsidyCap(e)
  IN Min({(annual * epochSeconds) \div YEAR, Max({0, annual - subsidyByYear[yearOf(e)]})})

\* Mutant: fees promised by other posted epochs count as available.
availableAll == totalEscrow

available == totalEscrow - pendingBurn

postEpoch(e, p) ==
  /\ posts < MaxPosts /\ posts' = posts + 1
  /\ ep[e].st \in {"None", "Vetoed"} /\ e >= genesisEpoch /\ (e + 1) * epochSeconds <= now
  /\ p.mintA * 10000 <= p.fees * 9800 /\ p.mintB <= allowance(e) /\ p.fees <= available
  /\ pendingBurn' = pendingBurn + p.fees
  /\ subsidyByYear' = [subsidyByYear EXCEPT ![yearOf(e)] = @ + p.mintB]
  /\ ep' = [ep EXCEPT ![e] = [st |-> "Posted", root |-> p.root, mintA |-> p.mintA, mintB |-> p.mintB,
                              fees |-> p.fees, minted |-> @.minted, postedAt |-> now]]
  /\ UNCHANGED <<totalEscrow, claimed, supply, bal, burnt, now>>

\* Mutant: a vetoed epoch can be vetoed again.
vetoAgain(e) ==
  /\ ep[e].st \in {"Posted", "Vetoed"} /\ now < ep[e].postedAt + vetoDelaySeconds
  /\ pendingBurn' = pendingBurn - ep[e].fees
  /\ subsidyByYear' = [subsidyByYear EXCEPT ![yearOf(e)] = @ - ep[e].mintB]
  /\ ep' = [ep EXCEPT ![e].st = "Vetoed"]
  /\ UNCHANGED <<totalEscrow, claimed, supply, bal, burnt, posts, now>>

\* Mutant: the subsidy of a vetoed epoch stays committed.
vetoKeeping(e) ==
  /\ ep[e].st = "Posted" /\ now < ep[e].postedAt + vetoDelaySeconds
  /\ pendingBurn' = pendingBurn - ep[e].fees
  /\ ep' = [ep EXCEPT ![e].st = "Vetoed"]
  /\ UNCHANGED <<totalEscrow, subsidyByYear, claimed, supply, bal, burnt, posts, now>>

veto(e) ==
  /\ ep[e].st = "Posted" /\ now < ep[e].postedAt + vetoDelaySeconds
  /\ pendingBurn' = pendingBurn - ep[e].fees
  /\ subsidyByYear' = [subsidyByYear EXCEPT ![yearOf(e)] = @ - ep[e].mintB]
  /\ ep' = [ep EXCEPT ![e].st = "Vetoed"]
  /\ UNCHANGED <<totalEscrow, claimed, supply, bal, burnt, posts, now>>

finalize(e) ==
  /\ ep[e].st = "Posted" /\ now >= ep[e].postedAt + vetoDelaySeconds
  /\ ep[e].fees <= totalEscrow /\ ep[e].fees <= bal
  /\ pendingBurn' = pendingBurn - ep[e].fees /\ totalEscrow' = totalEscrow - ep[e].fees
  /\ ep' = [ep EXCEPT ![e].st = "Finalized"]
  /\ supply' = supply - ep[e].fees /\ bal' = bal - ep[e].fees /\ burnt' = burnt + ep[e].fees
  /\ UNCHANGED <<subsidyByYear, claimed, posts, now>>

\* Mutant: a posted epoch can be claimed.
ClaimableAny(e) == ep[e].st \in {"Posted", "Finalized"}

Claimable(e) == ep[e].st = "Finalized"

\* Mutant: what the epoch may mint is not compared.
InCapAny(e, l) == TRUE

InCap(e, l) == ep[e].minted + l.amount <= ep[e].mintA + ep[e].mintB

\* claim(), and claimFor() as a series of claims
claim(e, l) ==
  /\ Claimable(e) /\ <<e, l>> \notin claimed /\ l \in ep[e].root /\ InCap(e, l)
  /\ claimed' = claimed \cup {<<e, l>>}
  /\ ep' = [ep EXCEPT ![e].minted = @ + l.amount]
  /\ supply' = supply + l.amount
  /\ UNCHANGED <<totalEscrow, pendingBurn, subsidyByYear, bal, burnt, posts, now>>

Tick == now < MaxNow /\ now' = now + 1
        /\ UNCHANGED <<ep, totalEscrow, pendingBurn, subsidyByYear, claimed, supply, bal, burnt, posts>>

Next ==
  \/ \E x \in Deposits : depositFor(x)
  \/ \E e \in Epochs : \/ \E p \in Posts : postEpoch(e, p)
                       \/ veto(e) \/ finalize(e)
                       \/ \E l \in ep[e].root : claim(e, l)
  \/ Tick

Spec == Init /\ [][Next]_vars

-----------------------------------------------------------------------------
(* Properties. *)

Live == {e \in Epochs : ep[e].st \in {"Posted", "Finalized"}}
feesOf == [e \in Epochs |-> ep[e].fees]
subsidyOf == [e \in Epochs |-> ep[e].mintB]
mintedOf == [e \in Epochs |-> ep[e].minted]

TypeOK ==
  /\ \A e \in Epochs : ep[e].st \in {"None", "Posted", "Vetoed", "Finalized"} /\ ep[e].postedAt \in 0 .. now
  /\ totalEscrow \in Nat /\ pendingBurn \in Nat /\ supply \in Nat /\ bal \in 0 .. supply
  /\ \A y \in DOMAIN subsidyByYear : subsidyByYear[y] \in Nat

\* The escrow holds what every posted epoch will burn, so a post is never blocked at finalize() by another one.
PostsBacked ==
  /\ pendingBurn = SumFunctionOnSet(feesOf, {e \in Epochs : ep[e].st = "Posted"})
  /\ pendingBurn <= totalEscrow /\ totalEscrow = bal

\* What a year has committed is what its live epochs may mint: a veto gives it back, once, also when the epoch is
\* posted again with another subsidy.
SubsidyExact ==
  \A y \in DOMAIN subsidyByYear : subsidyByYear[y] = SumFunctionOnSet(subsidyOf, {e \in Live : yearOf(e) = y})

\* An epoch that was vetoed, or may still be, has minted nothing; a leaf left over from a vetoed root is worthless.
NothingBeforeFinal == \A e \in Epochs : ep[e].st # "Finalized" => ep[e].minted = 0 /\ \A x \in claimed : x[1] # e

\* All ever minted is 98% of what was burned, and the years' subsidies, whatever roots were posted.
MintsBounded ==
  (SumFunctionOnSet(mintedOf, Epochs) - SumFunctionOnSet(subsidyByYear, DOMAIN subsidyByYear)) * 10000 <= burnt * 9800

=============================================================================
