----------------------------- MODULE CLDTokenV2 -----------------------------
(***************************************************************************)
(* The CLD token (contracts/v2/CLDTokenV2.sol): its supply and the ceiling  *)
(* on what may be minted, net of burns, in one year after deployment.       *)
(* Amounts are whole numbers; a call that reverts is no step.               *)
(***************************************************************************)
EXTENDS Integers

CONSTANTS
  YearLen,        \* YEAR
  Deployed,       \* mintYearStart, the block time of the constructor
  InitialSupply,
  MaxMintBps      \* maxMintBpsPerYear

ASSUME TokenAssumption ==
  /\ YearLen \in Nat \ {0} /\ Deployed \in Nat
  /\ InitialSupply \in Nat /\ MaxMintBps \in Nat

VARIABLES
  now,            \* block.timestamp
  tok             \* totalSupply and the counters of the ceiling

Tokens == [supply : Nat, year : Nat, start : Nat, minted : Nat, burned : Nat]

TokenInit ==
  /\ now = Deployed
  /\ tok = [supply |-> InitialSupply, year |-> 0, start |-> InitialSupply,
            minted |-> 0, burned |-> 0]

currentMintYear == (now - Deployed) \div YearLen

\* Mutant of RollYear: burns of the year before still credit the ceiling.
RollYearKeepingBurns(t) ==
  IF t.year = currentMintYear THEN t
  ELSE [t EXCEPT !.year = currentMintYear, !.start = t.supply, !.minted = 0]

\* _rollYear: the first mint or burn of a year takes the snapshot.
RollYear(t) ==
  IF t.year = currentMintYear THEN t
  ELSE [t EXCEPT !.year = currentMintYear, !.start = t.supply,
                 !.minted = 0, !.burned = 0]

\* What a year that started with s may add to the supply.
Issuance(s) == (s * MaxMintBps) \div 10000

CanMint(t, x) ==
  RollYear(t).minted + x <= Issuance(RollYear(t).start) + RollYear(t).burned

Mint(t, x) == [RollYear(t) EXCEPT !.supply = @ + x, !.minted = @ + x]

\* _update on a burn: credited to the year's ceiling.
Burn(t, x) == [RollYear(t) EXCEPT !.supply = @ - x, !.burned = @ + x]

\* mint's ceiling: the supply exceeds what it was when the ceiling's year was
\* entered by at most that year's issuance, however mints, burns credited back
\* and the roll into a new year interleave.
NetIssuanceBounded == tok.supply <= tok.start + Issuance(tok.start)
=============================================================================
