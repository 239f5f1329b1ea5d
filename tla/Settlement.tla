----------------------------- MODULE Settlement -----------------------------
(***************************************************************************)
(* The settlement contract (contracts/v2/CloudanaSettlementV2.sol): pooled  *)
(* escrow, epochs posted, vetoed and finalized, lazy lane A and lane B      *)
(* claims and the guardian's claw, on the token of CLDTokenV2.              *)
(*                                                                         *)
(* A transaction is one step and one that reverts is none.  A Merkle root   *)
(* is the tree it commits to, a function from the accounts that have a leaf *)
(* to its lanes: a proof verifies exactly for such a leaf.  claimFor        *)
(* runs _claim for each of its accounts; a batch that does not revert       *)
(* leaves what its claims leave one after another.                          *)
(***************************************************************************)
EXTENDS CLDTokenV2, FiniteSetsExt

CONSTANTS
  Epochs,         \* the epochs the poster may post
  Accounts,       \* payout wallets
  Trees,          \* the leaf maps a root may commit to
  Posts,          \* postEpoch's other arguments
  Deposits,       \* amounts of depositFor and of a holder's burn
  EpochSecs,      \* epochSeconds
  VetoDelay,      \* vetoDelaySeconds
  VestB,          \* vestBSeconds
  Genesis,        \* genesisTimestamp
  MaxNow          \* bound: the block time stops here

ASSUME SettlementAssumption ==
  /\ Epochs \subseteq Nat /\ IsFiniteSet(Epochs) /\ IsFiniteSet(Accounts)
  /\ \A t \in Trees : DOMAIN t \subseteq Accounts /\ t \in [DOMAIN t -> [a : Nat, b : Nat]]
  /\ Posts \subseteq [root : Trees, totA : Nat, totB : Nat, treas : Nat, fees : Nat]
  /\ Deposits \subseteq Nat \ {0}
  /\ EpochSecs \in Nat \ {0} /\ VetoDelay \in Nat /\ VestB \in Nat /\ Genesis \in Nat
  /\ MaxNow \in Nat

VARIABLES
  vault,          \* the contract's own CLD
  escrow,         \* totalEscrow
  pendingBurn,
  committed,      \* totalSubsidyCommitted
  byYear,         \* subsidyByYear
  ep,             \* epochs
  flags           \* laneFlags

chain == <<now, tok>>
vars == <<now, tok, vault, escrow, pendingBurn, committed, byYear, ep, flags>>

\* bytes32(0), for which no proof verifies
NoRoot == [acc \in {} |-> [a |-> 0, b |-> 0]]

NoEpoch == [st |-> "None", root |-> NoRoot, totA |-> 0, totB |-> 0, treas |-> 0,
            fees |-> 0, mintedA |-> 0, mintedB |-> 0, postedAt |-> 0, finalizedAt |-> 0]

EpochRows ==
  [st : {"None", "Posted", "Vetoed", "Finalized"}, root : Trees \cup {NoRoot},
   totA : Nat, totB : Nat, treas : Nat, fees : Nat, mintedA : Nat, mintedB : Nat,
   postedAt : Nat, finalizedAt : Nat]

Max0(x) == IF x > 0 THEN x ELSE 0

\* yearOf
yearOf(e) == Max0(e * EpochSecs - Genesis) \div YearLen

Years == {yearOf(e) : e \in Epochs}

Init ==
  /\ TokenInit
  /\ vault = 0 /\ escrow = 0 /\ pendingBurn = 0 /\ committed = 0
  /\ byYear = [y \in Years |-> 0]
  /\ ep = [e \in Epochs |-> NoEpoch]
  /\ flags = [e \in Epochs |-> [acc \in Accounts |-> {}]]

-----------------------------------------------------------------------------
(* The emission schedule. *)

\* rateBpsAt after n full years: 8%, times 0.85 each year, not below 1.5%.
rateBps[n \in Nat] ==
  IF n = 0 THEN 800
  ELSE LET r == (rateBps[n - 1] * 85) \div 100 IN IF r <= 150 THEN 150 ELSE r

annualSubsidyCap(e) == (tok.supply * rateBps[yearOf(e)]) \div 10000

allowance(e) ==
  LET perEpoch == (annualSubsidyCap(e) * EpochSecs) \div YearLen
      left == Max0(annualSubsidyCap(e) - byYear[yearOf(e)])
  IN IF perEpoch < left THEN perEpoch ELSE left

-----------------------------------------------------------------------------
(* Escrow. *)

depositFor(x) ==
  /\ x <= tok.supply - vault
  /\ vault' = vault + x
  /\ escrow' = escrow + x
  /\ UNCHANGED <<chain, pendingBurn, committed, byYear, ep, flags>>

\* ERC20Burnable: any holder burns some of its own.
HolderBurn(x) ==
  /\ x <= tok.supply - vault
  /\ tok' = Burn(tok, x)
  /\ UNCHANGED <<now, vault, escrow, pendingBurn, committed, byYear, ep, flags>>

-----------------------------------------------------------------------------
(* The life of an epoch. *)

\* Mutant of Affordable: fees of epochs not yet finalized are not set aside.
AffordableTwice(p) == p.fees <= escrow

\* feesBurned is covered by the escrow no other posted epoch has claimed.
Affordable(p) == p.fees <= escrow - pendingBurn

\* Mutant of FeeSplit: the treasury share does not count towards the 98%.
FeeSplitLaneAOnly(p) ==
  /\ p.treas * 10000 >= p.fees * 300
  /\ p.totA * 10000 <= p.fees * 9800

\* TREASURY_MIN_BPS and LANE_A_MAX_BPS
FeeSplit(p) ==
  /\ p.treas * 10000 >= p.fees * 300
  /\ (p.totA + p.treas) * 10000 <= p.fees * 9800

\* The row a post writes; what the epoch has minted is left alone.
PostedRow(row, p) ==
  [row EXCEPT !.st = "Posted", !.root = p.root, !.totA = p.totA, !.totB = p.totB,
              !.treas = p.treas, !.fees = p.fees, !.postedAt = now]

\* Mutant of postEpoch: a finalized epoch may be posted again.
PostAgain(e, p) ==
  /\ ep[e].st # "Posted"
  /\ (e + 1) * EpochSecs <= now
  /\ FeeSplit(p) /\ p.totB <= allowance(e) /\ Affordable(p)
  /\ pendingBurn' = pendingBurn + p.fees
  /\ byYear' = [byYear EXCEPT ![yearOf(e)] = @ + p.totB]
  /\ committed' = committed + p.totB
  /\ ep' = [ep EXCEPT ![e] = PostedRow(ep[e], p)]
  /\ UNCHANGED <<chain, vault, escrow, flags>>

postEpoch(e, p) ==
  /\ ep[e].st \in {"None", "Vetoed"}
  /\ e >= Genesis \div EpochSecs /\ (e + 1) * EpochSecs <= now
  /\ FeeSplit(p) /\ p.totB <= allowance(e) /\ Affordable(p)
  /\ pendingBurn' = pendingBurn + p.fees
  /\ byYear' = [byYear EXCEPT ![yearOf(e)] = @ + p.totB]
  /\ committed' = committed + p.totB
  /\ ep' = [ep EXCEPT ![e] = PostedRow(ep[e], p)]
  /\ UNCHANGED <<chain, vault, escrow, flags>>

\* Mutant of veto: the year's share of the schedule is not given back.
VetoKeepsYear(e) ==
  /\ ep[e].st = "Posted" /\ now < ep[e].postedAt + VetoDelay
  /\ pendingBurn' = pendingBurn - ep[e].fees
  /\ committed' = committed - ep[e].totB
  /\ ep' = [ep EXCEPT ![e].st = "Vetoed"]
  /\ UNCHANGED <<chain, vault, escrow, byYear, flags>>

\* Mutant of veto: a vetoed epoch may be vetoed again.
VetoTwice(e) ==
  /\ ep[e].st \in {"Posted", "Vetoed"} /\ now < ep[e].postedAt + VetoDelay
  /\ pendingBurn' = pendingBurn - ep[e].fees
  /\ byYear' = [byYear EXCEPT ![yearOf(e)] = @ - ep[e].totB]
  /\ committed' = committed - ep[e].totB
  /\ ep' = [ep EXCEPT ![e].st = "Vetoed"]
  /\ UNCHANGED <<chain, vault, escrow, flags>>

veto(e) ==
  /\ ep[e].st = "Posted" /\ now < ep[e].postedAt + VetoDelay
  /\ pendingBurn' = pendingBurn - ep[e].fees
  /\ byYear' = [byYear EXCEPT ![yearOf(e)] = @ - ep[e].totB]
  /\ committed' = committed - ep[e].totB
  /\ ep' = [ep EXCEPT ![e].st = "Vetoed"]
  /\ UNCHANGED <<chain, vault, escrow, flags>>

\* Nothing is burned or minted, and no year rolled, for an amount of 0.
Burned(t, x) == IF x > 0 THEN Burn(t, x) ELSE t
Minted(t, x) == IF x > 0 THEN Mint(t, x) ELSE t

\* Mutant of Settles: the treasury share is minted before the fees are burned.
SettlesMintFirst(e) ==
  /\ pendingBurn >= ep[e].fees /\ escrow >= ep[e].fees /\ vault >= ep[e].fees
  /\ ep[e].treas > 0 => CanMint(tok, ep[e].treas)

\* What finalize needs not to revert: its subtractions, its burn and its mint.
Settles(e) ==
  /\ pendingBurn >= ep[e].fees /\ escrow >= ep[e].fees /\ vault >= ep[e].fees
  /\ ep[e].treas > 0 => CanMint(Burned(tok, ep[e].fees), ep[e].treas)

finalize(e) ==
  /\ ep[e].st = "Posted" /\ now >= ep[e].postedAt + VetoDelay
  /\ Settles(e)
  /\ pendingBurn' = pendingBurn - ep[e].fees
  /\ escrow' = escrow - ep[e].fees
  /\ vault' = vault - ep[e].fees
  /\ tok' = Minted(Burned(tok, ep[e].fees), ep[e].treas)
  /\ ep' = [ep EXCEPT ![e].st = "Finalized", ![e].finalizedAt = now]
  /\ UNCHANGED <<now, committed, byYear, flags>>

-----------------------------------------------------------------------------
(* Claims. *)

Vested(e) == now >= ep[e].finalizedAt + VestB

payA(e, acc) ==
  IF "A" \in flags[e][acc] THEN 0 ELSE ep[e].root[acc].a

\* Mutant of payB: a clawed lane B is paid all the same.
PayBThoughVoid(e, acc) ==
  IF "B" \in flags[e][acc] \/ ~ Vested(e) THEN 0 ELSE ep[e].root[acc].b

payB(e, acc) ==
  IF flags[e][acc] \cap {"B", "void"} # {} \/ ~ Vested(e) THEN 0
  ELSE ep[e].root[acc].b

\* Mutant of WithinTotals: the cap on a lane's mints is off.
WithinAnything(e, a, b) == TRUE

\* MintCapExceeded
WithinTotals(e, a, b) ==
  /\ a > 0 => ep[e].mintedA + a <= ep[e].totA
  /\ b > 0 => ep[e].mintedB + b <= ep[e].totB

\* Mutant of Marked: a claim does not record its lane B.
MarkedA(a, b) == IF a > 0 THEN {"A"} ELSE {}

Marked(a, b) == (IF a > 0 THEN {"A"} ELSE {}) \cup (IF b > 0 THEN {"B"} ELSE {})

\* _claim
claim(e, acc) ==
  /\ ep[e].st = "Finalized"
  /\ acc \in DOMAIN ep[e].root
  /\ LET a == payA(e, acc)
         b == payB(e, acc)
     IN
     /\ a + b > 0
     /\ WithinTotals(e, a, b)
     /\ CanMint(tok, a + b)
     /\ flags' = [flags EXCEPT ![e][acc] = @ \cup Marked(a, b)]
     /\ ep' = [ep EXCEPT ![e].mintedA = @ + a, ![e].mintedB = @ + b]
     /\ tok' = Mint(tok, a + b)
     /\ UNCHANGED <<now, vault, escrow, pendingBurn, committed, byYear>>

clawLaneB(e, acc) ==
  /\ ep[e].st = "Finalized" /\ ~ Vested(e)
  /\ acc \in DOMAIN ep[e].root
  /\ flags[e][acc] \cap {"B", "void"} = {}
  /\ flags' = [flags EXCEPT ![e][acc] = @ \cup {"void"}]
  /\ UNCHANGED <<chain, vault, escrow, pendingBurn, committed, byYear, ep>>

Tick ==
  /\ now < MaxNow
  /\ now' = now + 1
  /\ UNCHANGED <<tok, vault, escrow, pendingBurn, committed, byYear, ep, flags>>

Next ==
  \/ \E x \in Deposits : depositFor(x) \/ HolderBurn(x)
  \/ \E e \in Epochs :
       \/ \E p \in Posts : postEpoch(e, p)
       \/ veto(e) \/ finalize(e)
       \/ \E acc \in Accounts : claim(e, acc) \/ clawLaneB(e, acc)
  \/ Tick

Spec == Init /\ [][Next]_vars

\* Anyone may finalize and the keeper tries on every pass; time passes.
Fairness == WF_vars(Tick) /\ \A e \in Epochs : WF_vars(finalize(e))

FairSpec == Spec /\ Fairness

-----------------------------------------------------------------------------
(* Properties. *)

\* Every storage slot keeps its type; no unsigned counter goes below 0.
TypeOK ==
  /\ now \in Nat /\ tok \in Tokens
  /\ vault \in Nat /\ escrow \in Nat /\ pendingBurn \in Nat /\ committed \in Nat
  /\ byYear \in [Years -> Nat]
  /\ ep \in [Epochs -> EpochRows]
  /\ flags \in [Epochs -> [Accounts -> SUBSET {"A", "B", "void"}]]

InStates(sts) == {e \in Epochs : ep[e].st \in sts}

feesOf == [e \in Epochs |-> ep[e].fees]
subsidyOf == [e \in Epochs |-> ep[e].totB]

\* pendingBurn, totalSubsidyCommitted and subsidyByYear are exactly what the
\* posted and the live epochs hold, through any post, veto and re-post.
CommitmentsExact ==
  /\ pendingBurn = SumFunctionOnSet(feesOf, InStates({"Posted"}))
  /\ committed = SumFunctionOnSet(subsidyOf, InStates({"Posted", "Finalized"}))
  /\ \A y \in Years :
       byYear[y] = SumFunctionOnSet(subsidyOf,
                     {e \in InStates({"Posted", "Finalized"}) : yearOf(e) = y})

\* The contract holds the CLD it counts as escrow and has not promised more of it.
EscrowCovers == pendingBurn <= escrow /\ escrow = vault

\* Once its veto window has passed a posted epoch can be finalized: no other
\* epoch, claim, burn or new year takes the escrow or the ceiling it needs.
FinalizeNeverBlocked ==
  \A e \in InStates({"Posted"}) : now >= ep[e].postedAt + VetoDelay => Settles(e)

\* What an epoch mints against its fees stays within 98% of what it burned, and
\* its subsidy within what it posted, however its accounts claim.
MintsBacked ==
  \A e \in Epochs :
    /\ ep[e].mintedA > 0 => ep[e].st = "Finalized"
    /\ ep[e].st = "Finalized" =>
         /\ (ep[e].mintedA + ep[e].treas) * 10000 <= ep[e].fees * 9800
         /\ ep[e].mintedB <= ep[e].totB

With(e, f) == {acc \in Accounts : f \in flags[e][acc]}
minted(e, f) == [acc \in With(e, f) |-> IF f = "A" THEN ep[e].root[acc].a ELSE ep[e].root[acc].b]

\* Each lane of an account is minted at most once and nothing else is: what an
\* epoch has minted is the sum of the leaves _claim has marked.
MintsAreMarked ==
  \A e \in Epochs : /\ ep[e].mintedA = SumFunctionOnSet(minted(e, "A"), With(e, "A"))
                    /\ ep[e].mintedB = SumFunctionOnSet(minted(e, "B"), With(e, "B"))

\* clawLaneB: a voided lane B is "never minted afterwards", and one that was
\* minted is never voided, whichever of claim, claw and vest comes first.
VoidedNeverMinted ==
  \A e \in Epochs, acc \in Accounts : ~ ({"B", "void"} \subseteq flags[e][acc])

\* Each lane mints what was posted for it and no more, and a voided lane B nothing.
LanesSound == MintsBacked /\ VoidedNeverMinted

\* The running totals are exact, every leaf is minted at most once, and no posted
\* epoch is left without the escrow and the ceiling its finalize needs.
PendingExact == CommitmentsExact /\ MintsAreMarked /\ FinalizeNeverBlocked

FinalizedKept ==
  \A e \in Epochs : ep[e].st = "Finalized" =>
    /\ ep'[e].st = "Finalized" /\ ep'[e].root = ep[e].root
    /\ ep'[e].fees = ep[e].fees /\ ep'[e].finalizedAt = ep[e].finalizedAt
    /\ \A acc \in Accounts : flags[e][acc] \subseteq flags'[e][acc]

\* A finalized epoch keeps its root, its fees and its vest, and no lane is ever
\* unmarked: "a vetoed epoch may be re-posted", a finalized one may not.
FinalizedIsFinal == [][FinalizedKept]_vars

\* A posted epoch is vetoed or finalized in the end.
PostedEnds ==
  \A e \in Epochs :
    (ep[e].st = "Posted" /\ ep[e].postedAt + VetoDelay <= MaxNow) ~> ep[e].st # "Posted"
=============================================================================
