-------------------------- MODULE SettlementProofs --------------------------
(***************************************************************************)
(* The settlement contract, and the ledger that computes what is posted to  *)
(* it: what the contract mints is backed, its totals are exact, every fee   *)
(* the ledger splits keeps the contract's bounds, a provider that pays for  *)
(* its own job always loses, and lane B of a closed epoch stays within its  *)
(* budget. The contracts of the first generation follow, one invariant for  *)
(* each of them, which LegacyStaysSound combines.                           *)
(***************************************************************************)
EXTENDS MCContracts, FeeSplit, Sums, SequenceTheorems

(***************************************************************************)
(* The inductive invariant.  Of the running totals it only says that they   *)
(* are whole numbers; that they are sums over epochs and accounts is proved *)
(* from it below (TotalsOK).                                                *)
(***************************************************************************)
Shape ==
  /\ now \in Nat /\ now >= Deployed /\ tok \in Tokens
  /\ vault \in Nat /\ escrow \in Nat /\ pendingBurn \in Int /\ committed \in Int
  /\ byYear \in [Years -> Int]
  /\ ep \in [Epochs -> EpochRows]
  /\ flags \in [Epochs -> [Accounts -> SUBSET {"A", "B", "void"}]]

\* The ceiling's counters account for the supply and have not been overrun.
CeilingOK(t) ==
  /\ t.supply = t.start + t.minted - t.burned
  /\ t.minted <= Issuance(t.start) + t.burned

\* An epoch mints nothing before it is finalized, and never more than it posted.
EpochOK(row) ==
  /\ row.st # "Finalized" => row.mintedA = 0 /\ row.mintedB = 0
  /\ row.st \in {"Posted", "Finalized"} => FeeSplit(row)
  /\ row.st = "Finalized" => row.mintedA <= row.totA /\ row.mintedB <= row.totB

IInv ==
  /\ Shape
  /\ CeilingOK(tok)
  /\ EscrowCovers /\ vault <= tok.supply
  /\ \A e \in Epochs : EpochOK(ep[e])
  /\ VoidedNeverMinted

-----------------------------------------------------------------------------
(* The token. *)

\* A year's issuance is a natural number.
LEMMA IssuanceNat == \A s \in Nat : Issuance(s) \in Nat
<1> SUFFICES ASSUME NEW s \in Nat PROVE Issuance(s) \in Nat
  OBVIOUS
<1>1. s * MaxMintBps \in Nat
  BY TokenAssumption
<1> DEFINE p == s * MaxMintBps
<1> HIDE DEF p
<1>2. p \in Nat => p \div 10000 \in Nat
  OBVIOUS
<1> QED
  BY <1>1, <1>2 DEF Issuance, p

\* The mint year is a natural number once the token is deployed.
LEMMA YearNat == now \in Nat /\ now >= Deployed => currentMintYear \in Nat
BY TokenAssumption DEF currentMintYear

\* _rollYear keeps the counters' accounts and the supply.
LEMMA RollKeeps ==
  ASSUME Shape, NEW t \in Tokens, CeilingOK(t)
  PROVE  /\ RollYear(t) \in Tokens /\ CeilingOK(RollYear(t))
         /\ RollYear(t).supply = t.supply
<1>1. currentMintYear \in Nat
  BY YearNat DEF Shape
<1>2. Issuance(t.supply) \in Nat
  BY IssuanceNat DEF Tokens
<1>3. CASE t.year = currentMintYear
  BY <1>3 DEF RollYear
<1>4. CASE t.year # currentMintYear
  <2> DEFINE u == RollYear(t)
  <2>1. u \in Tokens
    BY <1>1, <1>4 DEF RollYear, Tokens
  <2>2. u.supply = t.supply /\ u.start = t.supply /\ u.minted = 0 /\ u.burned = 0
    BY <1>4 DEF RollYear, Tokens
  <2> HIDE DEF u
  <2>3. CeilingOK(u) /\ u.supply = t.supply
    BY <1>2, <2>2 DEF CeilingOK, Tokens
  <2> QED
    BY <2>1, <2>3 DEF u
<1> QED
  BY <1>3, <1>4

\* Two counters set to naturals leave a token state one.
LEMMA TokenUpdate ==
  ASSUME NEW u \in Tokens, NEW a \in Nat, NEW b \in Nat
  PROVE  /\ [u EXCEPT !.supply = a, !.minted = b] \in Tokens
         /\ [u EXCEPT !.supply = a, !.burned = b] \in Tokens
BY DEF Tokens

\* A mint under the ceiling adds its amount and keeps the accounts.
LEMMA MintKeeps ==
  ASSUME Shape, NEW t \in Tokens, CeilingOK(t), NEW x \in Nat, CanMint(t, x)
  PROVE  Mint(t, x) \in Tokens /\ CeilingOK(Mint(t, x)) /\ Mint(t, x).supply = t.supply + x
<1> DEFINE u == RollYear(t)
<1>1. u \in Tokens /\ CeilingOK(u) /\ u.supply = t.supply
  BY RollKeeps
<1>2. u.minted + x <= Issuance(u.start) + u.burned
  BY DEF CanMint
<1>3. Issuance(u.start) \in Nat
  BY <1>1, IssuanceNat DEF Tokens
<1>4. Mint(t, x) = [u EXCEPT !.supply = @ + x, !.minted = @ + x]
  BY SMTT(60) DEF Mint
<1> HIDE DEF u
<1> DEFINE v == Mint(t, x)
<1>5. v \in Tokens
  <2> DEFINE a == u.supply + x
             b == u.minted + x
  <2>1. a \in Nat /\ b \in Nat
    BY <1>1 DEF Tokens
  <2>2. v = [u EXCEPT !.supply = a, !.minted = b]
    BY <1>4
  <2> HIDE DEF a, b, v
  <2> QED
    BY <1>1, <2>1, <2>2, TokenUpdate
<1>6. v.supply = u.supply + x /\ v.minted = u.minted + x
      /\ v.start = u.start /\ v.burned = u.burned
  BY <1>1, <1>4 DEF Tokens
<1> HIDE DEF v
<1>7. CeilingOK(v) /\ v.supply = t.supply + x
  BY <1>1, <1>2, <1>3, <1>6 DEF CeilingOK, Tokens
<1> QED
  BY <1>5, <1>7 DEF v

\* A burn of what there is takes its amount and credits the ceiling with it.
LEMMA BurnKeeps ==
  ASSUME Shape, NEW t \in Tokens, CeilingOK(t), NEW x \in Nat, x <= t.supply
  PROVE  Burn(t, x) \in Tokens /\ CeilingOK(Burn(t, x)) /\ Burn(t, x).supply = t.supply - x
<1> DEFINE u == RollYear(t)
<1>1. u \in Tokens /\ CeilingOK(u) /\ u.supply = t.supply
  BY RollKeeps
<1>2. Issuance(u.start) \in Nat
  BY <1>1, IssuanceNat DEF Tokens
<1>3. Burn(t, x) = [u EXCEPT !.supply = @ - x, !.burned = @ + x]
  BY SMTT(60) DEF Burn
<1> HIDE DEF u
<1> DEFINE v == Burn(t, x)
<1>4. v \in Tokens
  <2> DEFINE a == u.supply - x
             b == u.burned + x
  <2>1. a \in Nat /\ b \in Nat
    BY <1>1 DEF Tokens
  <2>2. v = [u EXCEPT !.supply = a, !.burned = b]
    BY <1>3
  <2> HIDE DEF a, b, v
  <2> QED
    BY <1>1, <2>1, <2>2, TokenUpdate
<1>5. v.supply = u.supply - x /\ v.burned = u.burned + x
      /\ v.start = u.start /\ v.minted = u.minted
  BY <1>1, <1>3 DEF Tokens
<1> HIDE DEF v
<1>6. CeilingOK(v) /\ v.supply = t.supply - x
  BY <1>1, <1>2, <1>5 DEF CeilingOK, Tokens
<1> QED
  BY <1>4, <1>6 DEF v

\* What is burned makes room for a mint of no more than that, in any year.
LEMMA BurnMakesRoom ==
  ASSUME Shape, NEW t \in Tokens, CeilingOK(t), NEW x \in Nat, x <= t.supply,
         NEW y \in Nat, y <= x
  PROVE  CanMint(Burned(t, x), y)
<1> DEFINE u == RollYear(t)
<1>1. u \in Tokens /\ CeilingOK(u) /\ u.year = currentMintYear
  BY RollKeeps DEF RollYear, Tokens
<1>2. Issuance(u.start) \in Nat
  BY <1>1, IssuanceNat DEF Tokens
<1>3. CASE x = 0
  <2>1. Burned(t, x) = t /\ y = 0
    BY <1>3 DEF Burned
  <2> QED
    BY <1>1, <1>2, <2>1 DEF CanMint, CeilingOK, Tokens
<1>4. CASE x > 0
  <2> DEFINE v == [u EXCEPT !.supply = @ - x, !.burned = @ + x]
  <2>1. Burned(t, x) = v
    BY <1>4 DEF Burned, Burn
  <2>2. v.year = currentMintYear /\ v.minted = u.minted /\ v.start = u.start
        /\ v.burned = u.burned + x
    BY <1>1 DEF Tokens
  <2> HIDE DEF u, v
  <2>3. RollYear(v) = v
    BY <2>2 DEF RollYear
  <2> QED
    BY <1>1, <1>2, <2>1, <2>2, <2>3 DEF CanMint, CeilingOK, Tokens
<1> QED
  BY <1>3, <1>4

-----------------------------------------------------------------------------
(* The invariant is inductive. *)

\* The contract is deployed with nothing posted and nothing escrowed.
LEMMA InitIInv == Init => IInv
<1> SUFFICES ASSUME Init PROVE IInv
  OBVIOUS
<1>1. NoEpoch \in EpochRows /\ EpochOK(NoEpoch)
  BY DEF NoEpoch, EpochRows, EpochOK
<1>2. tok \in Tokens /\ tok.supply \in Nat /\ now \in Nat /\ now >= Deployed
  BY TokenAssumption DEF Init, TokenInit, Tokens
<1>3. Shape
  BY <1>1, <1>2 DEF Init, Shape
<1>4. Issuance(InitialSupply) \in Nat
  BY IssuanceNat, TokenAssumption
<1>5. CeilingOK(tok)
  BY <1>4, TokenAssumption DEF Init, TokenInit, CeilingOK
<1>6. EscrowCovers /\ vault <= tok.supply
  BY <1>2 DEF Init, EscrowCovers
<1> QED
  BY <1>1, <1>3, <1>5, <1>6 DEF IInv, Init, VoidedNeverMinted

\* depositFor moves CLD the caller has into the vault.
LEMMA DepositStep ==
  ASSUME IInv, NEW x \in Deposits, depositFor(x)
  PROVE  IInv'
<1>1. x \in Nat /\ tok.supply \in Nat
  BY SettlementAssumption DEF IInv, Shape, Tokens
<1>2. Shape'
  BY <1>1 DEF IInv, Shape, depositFor, chain
<1>3. EscrowCovers' /\ (vault <= tok.supply)'
  BY <1>1 DEF IInv, Shape, EscrowCovers, depositFor, chain
<1>4. CeilingOK(tok)'
  BY DEF IInv, CeilingOK, depositFor, chain
<1> QED
  BY <1>2, <1>3, <1>4 DEF IInv, EpochOK, VoidedNeverMinted, depositFor

\* A holder burns only what is not in the vault.
LEMMA HolderBurnStep ==
  ASSUME IInv, NEW x \in Deposits, HolderBurn(x)
  PROVE  IInv'
<1>1. x \in Nat /\ tok \in Tokens /\ tok.supply \in Nat /\ vault \in Nat
  BY SettlementAssumption DEF IInv, Shape, Tokens
<1>2. x <= tok.supply /\ tok' = Burn(tok, x)
  BY <1>1 DEF HolderBurn
<1>3. tok' \in Tokens /\ CeilingOK(tok') /\ tok'.supply = tok.supply - x
  BY <1>1, <1>2, BurnKeeps DEF IInv
<1>4. Shape'
  BY <1>3 DEF IInv, Shape, HolderBurn
<1>5. EscrowCovers' /\ (vault <= tok.supply)'
  BY <1>1, <1>3 DEF IInv, EscrowCovers, HolderBurn
<1> QED
  BY <1>3, <1>4, <1>5 DEF IInv, EpochOK, VoidedNeverMinted, HolderBurn

\* A posted row is a row and keeps what the epoch has minted.
LEMMA PostedRowFields ==
  ASSUME now \in Nat, NEW row \in EpochRows, NEW p \in Posts
  PROVE  /\ PostedRow(row, p) \in EpochRows /\ PostedRow(row, p).st = "Posted"
         /\ PostedRow(row, p).totA = p.totA /\ PostedRow(row, p).treas = p.treas
         /\ PostedRow(row, p).fees = p.fees /\ PostedRow(row, p).totB = p.totB
         /\ PostedRow(row, p).root = p.root
         /\ PostedRow(row, p).mintedA = row.mintedA /\ PostedRow(row, p).mintedB = row.mintedB
<1>1. /\ p.root \in Trees /\ p.totA \in Nat /\ p.totB \in Nat
      /\ p.treas \in Nat /\ p.fees \in Nat
  BY SettlementAssumption
<1> QED
  BY <1>1 DEF PostedRow, EpochRows

\* postEpoch sets aside escrow no other epoch has, for a split it has checked.
LEMMA PostStep ==
  ASSUME IInv, NEW e \in Epochs, NEW p \in Posts, postEpoch(e, p)
  PROVE  IInv'
<1>1. p.totA \in Nat /\ p.totB \in Nat /\ p.treas \in Nat /\ p.fees \in Nat
  BY SettlementAssumption
<1>2. ep \in [Epochs -> EpochRows] /\ ep[e] \in EpochRows /\ now \in Nat
  BY DEF IInv, Shape
<1> DEFINE new == PostedRow(ep[e], p)
<1>3. /\ new \in EpochRows /\ new.st = "Posted"
      /\ new.totA = p.totA /\ new.treas = p.treas /\ new.fees = p.fees
      /\ new.mintedA = ep[e].mintedA /\ new.mintedB = ep[e].mintedB
  BY <1>2, PostedRowFields
<1>4. ep' = [ep EXCEPT ![e] = new]
  BY DEF postEpoch
<1> HIDE DEF new
<1>5. ep[e].st # "Finalized" /\ EpochOK(ep[e]) /\ FeeSplit(p)
  BY DEF IInv, postEpoch
<1>6. EpochOK(new)
  BY <1>3, <1>5 DEF EpochOK, FeeSplit
<1>7. ep' \in [Epochs -> EpochRows] /\ \A k \in Epochs : EpochOK(ep'[k])
  BY <1>2, <1>3, <1>4, <1>6 DEF IInv
<1>8. byYear' \in [Years -> Int] /\ pendingBurn' \in Int /\ committed' \in Int
  <2>1. yearOf(e) \in Years
    BY DEF Years
  <2>2. byYear \in [Years -> Int] /\ pendingBurn \in Int /\ committed \in Int
    BY DEF IInv, Shape
  <2> QED
    BY <1>1, <2>1, <2>2 DEF postEpoch
<1>9. UNCHANGED <<now, tok, vault, escrow, flags>>
  BY DEF postEpoch, chain
<1>10. Shape'
  BY <1>7, <1>8, <1>9 DEF IInv, Shape
<1>11. EscrowCovers' /\ (vault <= tok.supply)' /\ CeilingOK(tok)'
  BY <1>1, <1>9 DEF IInv, Shape, EscrowCovers, postEpoch, Affordable, CeilingOK
<1> QED
  BY <1>7, <1>9, <1>10, <1>11 DEF IInv, VoidedNeverMinted

\* veto gives back what the epoch's post set aside.
LEMMA VetoStep ==
  ASSUME IInv, NEW e \in Epochs, veto(e)
  PROVE  IInv'
<1>1. ep \in [Epochs -> EpochRows] /\ ep[e].fees \in Nat /\ ep[e].totB \in Nat
  BY DEF IInv, Shape, EpochRows
<1>2. ep' \in [Epochs -> EpochRows]
  BY <1>1 DEF veto, EpochRows
<1>3. \A k \in Epochs : EpochOK(ep'[k])
  <2>1. \A k \in Epochs \ {e} : ep'[k] = ep[k]
    BY <1>1 DEF veto
  <2>2. ep'[e].st = "Vetoed" /\ ep'[e].mintedA = ep[e].mintedA /\ ep'[e].mintedB = ep[e].mintedB
    BY <1>1 DEF veto, EpochRows
  <2>3. ep[e].mintedA = 0 /\ ep[e].mintedB = 0
    BY DEF IInv, EpochOK, veto
  <2> QED
    BY <2>1, <2>2, <2>3 DEF IInv, EpochOK
<1>4. byYear' \in [Years -> Int] /\ pendingBurn' \in Int /\ committed' \in Int
  <2>1. yearOf(e) \in Years
    BY DEF Years
  <2>2. byYear \in [Years -> Int] /\ pendingBurn \in Int /\ committed \in Int
    BY DEF IInv, Shape
  <2> QED
    BY <1>1, <2>1, <2>2 DEF veto
<1>5. UNCHANGED <<now, tok, vault, escrow, flags>>
  BY DEF veto, chain
<1>6. Shape'
  BY <1>2, <1>4, <1>5 DEF IInv, Shape
<1>7. EscrowCovers' /\ (vault <= tok.supply)' /\ CeilingOK(tok)'
  BY <1>1, <1>5 DEF IInv, Shape, EscrowCovers, veto, CeilingOK
<1> QED
  BY <1>3, <1>5, <1>6, <1>7 DEF IInv, VoidedNeverMinted

\* finalize burns what is in the vault and mints what the burn makes room for.
LEMMA FinalizeStep ==
  ASSUME IInv, NEW e \in Epochs, finalize(e)
  PROVE  IInv'
<1> DEFINE f == ep[e].fees
           g == ep[e].treas
           t == Burned(tok, f)
<1>1. ep \in [Epochs -> EpochRows] /\ f \in Nat /\ g \in Nat
  BY DEF IInv, Shape, EpochRows
<1>2. tok \in Tokens /\ CeilingOK(tok) /\ tok.supply \in Nat /\ vault \in Nat /\ Shape
  BY DEF IInv, Shape, Tokens
<1>3. f <= vault /\ f <= tok.supply /\ f <= escrow /\ (g > 0 => CanMint(t, g))
  BY <1>1, <1>2 DEF IInv, finalize, Settles
<1> HIDE DEF f, g
<1>4. t \in Tokens /\ CeilingOK(t) /\ t.supply = tok.supply - f
  BY <1>1, <1>2, <1>3, BurnKeeps DEF Burned, Tokens
<1>5. tok' = Minted(t, g)
  BY DEF finalize, f, g
<1> HIDE DEF t
<1>6. tok' \in Tokens /\ CeilingOK(tok') /\ tok'.supply = tok.supply - f + g
  <2>1. CASE g > 0
    BY <1>1, <1>2, <1>3, <1>4, <1>5, <2>1, MintKeeps DEF Minted
  <2>2. CASE g = 0
    BY <1>1, <1>2, <1>4, <1>5, <2>2 DEF Minted
  <2> QED
    BY <1>1, <2>1, <2>2
<1>7. ep' \in [Epochs -> EpochRows]
  <2> DEFINE row == [ep[e] EXCEPT !.st = "Finalized", !.finalizedAt = now]
  <2>1. row \in EpochRows
    BY ZenonT(60), <1>1, <1>2 DEF EpochRows, Shape
  <2>2. ep' = [ep EXCEPT ![e] = row]
    BY <1>1 DEF finalize
  <2> HIDE DEF row
  <2> QED
    BY <1>1, <2>1, <2>2
<1>8. \A k \in Epochs : EpochOK(ep'[k])
  <2>1. \A k \in Epochs \ {e} : ep'[k] = ep[k]
    BY <1>1 DEF finalize
  <2>2. /\ ep'[e].st = "Finalized" /\ ep'[e].mintedA = ep[e].mintedA
        /\ ep'[e].mintedB = ep[e].mintedB /\ ep'[e].totA = ep[e].totA
        /\ ep'[e].totB = ep[e].totB /\ ep'[e].treas = ep[e].treas /\ ep'[e].fees = ep[e].fees
    BY <1>1 DEF finalize, EpochRows
  <2>3. ep[e].mintedA = 0 /\ ep[e].mintedB = 0 /\ FeeSplit(ep[e])
    BY DEF IInv, EpochOK, finalize
  <2>4. ep[e].totA \in Nat /\ ep[e].totB \in Nat
    BY <1>1 DEF EpochRows
  <2> QED
    BY <2>1, <2>2, <2>3, <2>4 DEF IInv, EpochOK, FeeSplit
<1>9. /\ escrow' = escrow - f /\ vault' = vault - f /\ pendingBurn' = pendingBurn - f
      /\ UNCHANGED <<now, committed, byYear, flags>>
  BY DEF finalize, f
<1>10. Shape'
  BY <1>1, <1>2, <1>3, <1>6, <1>7, <1>9 DEF Shape
<1>11. EscrowCovers' /\ (vault <= tok.supply)'
  BY <1>1, <1>2, <1>6, <1>9 DEF IInv, Shape, EscrowCovers
<1> QED
  BY <1>6, <1>8, <1>9, <1>10, <1>11 DEF IInv, VoidedNeverMinted

\* What a leaf can pay is a natural number.
LEMMA PaysNat ==
  ASSUME Shape, NEW e \in Epochs, NEW acc \in Accounts, acc \in DOMAIN ep[e].root
  PROVE  payA(e, acc) \in Nat /\ payB(e, acc) \in Nat
<1> DEFINE r == ep[e].root
<1>1. r \in Trees \cup {NoRoot}
  BY DEF Shape, EpochRows
<1>2. r \in Trees
  BY <1>1 DEF NoRoot
<1>3. r[acc] \in [a : Nat, b : Nat]
  BY <1>2, SettlementAssumption
<1> QED
  BY <1>3 DEF payA, payB

\* The row of an epoch that has minted a and b more.
Counted(row, a, b) == [row EXCEPT !.mintedA = @ + a, !.mintedB = @ + b]

\* A row whose mints are counted up is a row, otherwise unchanged.
LEMMA CountedFields ==
  ASSUME NEW row \in EpochRows, NEW a \in Nat, NEW b \in Nat
  PROVE  LET new == Counted(row, a, b)
         IN /\ new \in EpochRows /\ new.st = row.st /\ new.fees = row.fees
            /\ new.treas = row.treas /\ new.totA = row.totA /\ new.totB = row.totB
            /\ new.mintedA = row.mintedA + a /\ new.mintedB = row.mintedB + b
<1> DEFINE x == row.mintedA + a
           y == row.mintedB + b
           new == [row EXCEPT !.mintedA = x, !.mintedB = y]
<1>1. x \in Nat /\ y \in Nat
  BY DEF EpochRows
<1>2. Counted(row, a, b) = new
  BY DEF Counted
<1> HIDE DEF x, y
<1>3. /\ new \in EpochRows /\ new.st = row.st /\ new.fees = row.fees
      /\ new.treas = row.treas /\ new.totA = row.totA /\ new.totB = row.totB
      /\ new.mintedA = x /\ new.mintedB = y
  BY <1>1 DEF EpochRows
<1> QED
  BY <1>2, <1>3 DEF x, y

\* _claim mints under the lane's total and under the ceiling.
LEMMA ClaimStep ==
  ASSUME IInv, NEW e \in Epochs, NEW acc \in Accounts, claim(e, acc)
  PROVE  IInv'
<1> DEFINE a == payA(e, acc)
           b == payB(e, acc)
           row == Counted(ep[e], a, b)
<1>1. a \in Nat /\ b \in Nat
  BY PaysNat DEF IInv, claim
<1>2. /\ ep \in [Epochs -> EpochRows] /\ ep[e] \in EpochRows
      /\ tok \in Tokens /\ CeilingOK(tok) /\ Shape
  BY DEF IInv, Shape
<1>3. /\ ep[e].st = "Finalized" /\ WithinTotals(e, a, b) /\ CanMint(tok, a + b)
      /\ tok' = Mint(tok, a + b)
      /\ UNCHANGED <<now, vault, escrow, pendingBurn, committed, byYear>>
  BY DEF claim
<1>4. flags' = [flags EXCEPT ![e][acc] = @ \cup Marked(a, b)]
  BY DEF claim
<1>5. ep' = [ep EXCEPT ![e] = row]
  BY <1>2 DEF claim, Counted
<1> HIDE DEF a, b
<1>6. /\ row \in EpochRows /\ row.st = "Finalized" /\ row.fees = ep[e].fees
      /\ row.treas = ep[e].treas /\ row.totA = ep[e].totA /\ row.totB = ep[e].totB
      /\ row.mintedA = ep[e].mintedA + a /\ row.mintedB = ep[e].mintedB + b
  BY <1>1, <1>2, <1>3, CountedFields
<1> HIDE DEF row
<1>7. EpochOK(row)
  <2>1. EpochOK(ep[e])
    BY DEF IInv
  <2>2. /\ ep[e].mintedA \in Nat /\ ep[e].mintedB \in Nat
        /\ ep[e].totA \in Nat /\ ep[e].totB \in Nat
    BY <1>2 DEF EpochRows
  <2> QED
    BY <1>1, <1>3, <1>6, <2>1, <2>2 DEF EpochOK, WithinTotals, FeeSplit
<1>8. ep' \in [Epochs -> EpochRows] /\ \A k \in Epochs : EpochOK(ep'[k])
  BY <1>2, <1>5, <1>6, <1>7 DEF IInv
<1>9. tok' \in Tokens /\ CeilingOK(tok') /\ tok'.supply = tok.supply + (a + b)
  <2>1. a + b \in Nat
    BY <1>1
  <2> QED
    BY <1>2, <1>3, <2>1, MintKeeps
<1>10. flags' \in [Epochs -> [Accounts -> SUBSET {"A", "B", "void"}]]
  <2>1. Marked(a, b) \subseteq {"A", "B", "void"}
    BY DEF Marked
  <2> QED
    BY <1>2, <1>4, <2>1 DEF Shape
<1>11. Shape'
  BY <1>2, <1>3, <1>8, <1>9, <1>10 DEF Shape
<1>12. EscrowCovers' /\ (vault <= tok.supply)'
  BY <1>1, <1>2, <1>3, <1>9 DEF IInv, Shape, EscrowCovers, Tokens
<1>13. VoidedNeverMinted'
  <2>1. b > 0 => "void" \notin flags[e][acc]
    BY DEF b, payB
  <2>2. "void" \notin Marked(a, b) /\ (~ b > 0 => "B" \notin Marked(a, b))
    BY DEF Marked
  <2> QED
    BY <1>2, <1>4, <2>1, <2>2 DEF IInv, Shape, VoidedNeverMinted
<1> QED
  BY <1>8, <1>9, <1>11, <1>12, <1>13 DEF IInv

\* clawLaneB only marks, and the clock only advances.
LEMMA MarkStep ==
  ASSUME IInv, Tick \/ \E e \in Epochs, acc \in Accounts : clawLaneB(e, acc)
  PROVE  IInv'
<1>1. UNCHANGED <<tok, vault, escrow, pendingBurn, committed, byYear, ep>>
  BY DEF Tick, clawLaneB, chain
<1>2. now' \in Nat /\ now' >= Deployed
  BY TokenAssumption DEF IInv, Shape, Tick, clawLaneB, chain
<1>3. flags' \in [Epochs -> [Accounts -> SUBSET {"A", "B", "void"}]]
  <2>1. flags \in [Epochs -> [Accounts -> SUBSET {"A", "B", "void"}]]
    BY DEF IInv, Shape
  <2>2. CASE Tick
    BY <2>1, <2>2 DEF Tick
  <2>3. ASSUME NEW e \in Epochs, NEW acc \in Accounts, clawLaneB(e, acc)
        PROVE  flags' \in [Epochs -> [Accounts -> SUBSET {"A", "B", "void"}]]
    <3>1. flags' = [flags EXCEPT ![e][acc] = flags[e][acc] \cup {"void"}]
      BY <2>3 DEF clawLaneB
    <3>2. flags[e][acc] \cup {"void"} \in SUBSET {"A", "B", "void"}
      BY <2>1
    <3> QED
      BY <2>1, <3>1, <3>2
  <2> QED
    BY <2>2, <2>3
<1>4. VoidedNeverMinted'
  BY DEF IInv, Shape, VoidedNeverMinted, Tick, clawLaneB
<1> QED
  BY <1>1, <1>2, <1>3, <1>4 DEF IInv, Shape, CeilingOK, EscrowCovers, EpochOK

\* The inductive invariant holds throughout.
THEOREM Invariance == Spec => []IInv
<1>1. IInv /\ [Next]_vars => IInv'
  <2> SUFFICES ASSUME IInv, [Next]_vars PROVE IInv'
    OBVIOUS
  <2>1. CASE Next
    BY <2>1, DepositStep, HolderBurnStep, PostStep, VetoStep, FinalizeStep, ClaimStep,
       MarkStep DEF Next
  <2>2. CASE UNCHANGED vars
    BY <2>2 DEF vars, IInv, Shape, CeilingOK, EscrowCovers, EpochOK, VoidedNeverMinted
  <2> QED
    BY <2>1, <2>2
<1> QED
  BY <1>1, InitIInv, PTL DEF Spec

-----------------------------------------------------------------------------
(* What it gives. *)

\* mint, _rollYear: no interleaving of mints, burns and years takes the supply
\* over the year's start plus its issuance.
THEOREM CeilingHolds == Spec => []NetIssuanceBounded
<1>1. IInv => NetIssuanceBounded
  <2> SUFFICES ASSUME IInv PROVE NetIssuanceBounded
    OBVIOUS
  <2>1. tok \in Tokens /\ CeilingOK(tok)
    BY DEF IInv, Shape
  <2>2. Issuance(tok.start) \in Nat
    BY <2>1, IssuanceNat DEF Tokens
  <2> QED
    BY <2>1, <2>2 DEF NetIssuanceBounded, CeilingOK, Tokens
<1> QED
  BY <1>1, Invariance, PTL

\* postEpoch, veto, finalize: the vault always holds what posted epochs will burn.
THEOREM EscrowSolvent == Spec => []EscrowCovers
<1>1. IInv => EscrowCovers
  BY DEF IInv
<1> QED
  BY <1>1, Invariance, PTL

\* postEpoch, _claim: an epoch never mints more against fees than 98% of what it
\* burned, nor more subsidy than it posted.
THEOREM EpochsBacked == Spec => []MintsBacked
<1>1. IInv => MintsBacked
  <2> SUFFICES ASSUME IInv, NEW e \in Epochs
               PROVE  /\ ep[e].mintedA > 0 => ep[e].st = "Finalized"
                      /\ ep[e].st = "Finalized" =>
                           /\ (ep[e].mintedA + ep[e].treas) * 10000 <= ep[e].fees * 9800
                           /\ ep[e].mintedB <= ep[e].totB
    BY DEF MintsBacked
  <2>1. EpochOK(ep[e])
    BY DEF IInv
  <2>2. /\ ep[e].mintedA \in Nat /\ ep[e].totA \in Nat /\ ep[e].treas \in Nat
        /\ ep[e].fees \in Nat
    BY DEF IInv, Shape, EpochRows
  <2> QED
    BY <2>1, <2>2 DEF EpochOK, FeeSplit
<1> QED
  BY <1>1, Invariance, PTL

\* finalize: "burn the epoch's fees, mint the treasury share".  The burn always
\* makes room for the mint, so the ceiling never blocks a posted epoch.
THEOREM CeilingNeverBlocksFinalize ==
  Spec => [](\A e \in Epochs : ep[e].st = "Posted" /\ ep[e].fees <= vault =>
               CanMint(Burned(tok, ep[e].fees), ep[e].treas))
<1> DEFINE Room == \A e \in Epochs : ep[e].st = "Posted" /\ ep[e].fees <= vault =>
                     CanMint(Burned(tok, ep[e].fees), ep[e].treas)
<1>1. IInv => Room
  <2> SUFFICES ASSUME IInv, NEW e \in Epochs, ep[e].st = "Posted", ep[e].fees <= vault
               PROVE  CanMint(Burned(tok, ep[e].fees), ep[e].treas)
    OBVIOUS
  <2> DEFINE f == ep[e].fees
             g == ep[e].treas
  <2>1. f \in Nat /\ g \in Nat /\ ep[e].totA \in Nat
    BY DEF IInv, Shape, EpochRows
  <2>2. FeeSplit(ep[e])
    BY DEF IInv, EpochOK
  <2>3. g <= f
    BY <2>1, <2>2 DEF FeeSplit
  <2>4. tok \in Tokens /\ CeilingOK(tok) /\ Shape /\ f <= tok.supply
    BY <2>1 DEF IInv, Shape, Tokens
  <2> HIDE DEF f, g
  <2>5. CanMint(Burned(tok, f), g)
    BY <2>1, <2>3, <2>4, BurnMakesRoom
  <2> QED
    BY <2>5 DEF f, g
<1> QED
  BY <1>1, Invariance, PTL

\* clawLaneB, _claim: of an account's lane B in an epoch at most one of "minted"
\* and "voided" ever happens.
THEOREM ClawOrMint == Spec => []VoidedNeverMinted
<1>1. IInv => VoidedNeverMinted
  BY DEF IInv
<1> QED
  BY <1>1, Invariance, PTL

\* postEpoch, veto, finalize and _claim leave the terms of a finalized epoch alone
\* and never clear a lane's flag.
THEOREM FinalizedForGood == Spec => FinalizedIsFinal
<1>1. ASSUME IInv, Next PROVE FinalizedKept
  <2>1. ep \in [Epochs -> EpochRows]
        /\ flags \in [Epochs -> [Accounts -> SUBSET {"A", "B", "void"}]]
    BY <1>1 DEF IInv, Shape
  <2>2. ASSUME UNCHANGED <<ep, flags>> PROVE FinalizedKept
    BY <2>2 DEF FinalizedKept
  <2>3. CASE Tick \/ \E x \in Deposits : depositFor(x) \/ HolderBurn(x)
    BY <2>2, <2>3 DEF Tick, depositFor, HolderBurn
  <2>4. ASSUME NEW e \in Epochs, veto(e) \/ finalize(e) \/ \E p \in Posts : postEpoch(e, p)
        PROVE  FinalizedKept
    <3>1. ep[e].st # "Finalized" /\ flags' = flags
      BY <2>4 DEF veto, finalize, postEpoch
    <3>2. \A k \in Epochs \ {e} : ep'[k] = ep[k]
      BY <2>1, <2>4 DEF veto, finalize, postEpoch
    <3> QED
      BY <3>1, <3>2 DEF FinalizedKept
  <2>5. ASSUME NEW e \in Epochs, NEW acc \in Accounts, claim(e, acc)
        PROVE  FinalizedKept
    <3>1. \A k \in Epochs : /\ ep'[k].st = ep[k].st /\ ep'[k].root = ep[k].root
                            /\ ep'[k].fees = ep[k].fees
                            /\ ep'[k].finalizedAt = ep[k].finalizedAt
      BY <2>1, <2>5 DEF claim, EpochRows
    <3>2. \A k \in Epochs, q \in Accounts : flags[k][q] \subseteq flags'[k][q]
      BY <2>1, <2>5 DEF claim
    <3> QED
      BY <3>1, <3>2 DEF FinalizedKept
  <2>6. ASSUME NEW e \in Epochs, NEW acc \in Accounts, clawLaneB(e, acc)
        PROVE  FinalizedKept
    <3>1. \A k \in Epochs, q \in Accounts : flags[k][q] \subseteq flags'[k][q]
      BY <2>1, <2>6 DEF clawLaneB
    <3> QED
      BY <2>6, <3>1 DEF FinalizedKept, clawLaneB
  <2> QED
    BY <1>1, <2>3, <2>4, <2>5, <2>6 DEF Next
<1>2. IInv /\ [Next]_vars => [FinalizedKept]_vars
  BY <1>1
<1> QED
  BY <1>2, Invariance, PTL DEF Spec, FinalizedIsFinal

-----------------------------------------------------------------------------
\* Only leaves of a finalized epoch's tree are marked.
MarksOK ==
  \A e \in Epochs :
    /\ ep[e].st # "Finalized" => \A acc \in Accounts : flags[e][acc] = {}
    /\ \A acc \in Accounts : flags[e][acc] # {} => acc \in DOMAIN ep[e].root

TotalsOK == CommitmentsExact /\ MintsAreMarked /\ MarksOK

\* What a row adds to pendingBurn, and to the committed subsidy.
feeOf(row) == IF row.st = "Posted" THEN row.fees ELSE 0
subOf(row) == IF row.st \in {"Posted", "Finalized"} THEN row.totB ELSE 0

Promised == SumFunctionOnSet(feesOf, InStates({"Posted"}))
Subsidised == SumFunctionOnSet(subsidyOf, InStates({"Posted", "Finalized"}))
OfYear(y) ==
  SumFunctionOnSet(subsidyOf, {e \in InStates({"Posted", "Finalized"}) : yearOf(e) = y})

\* A step of one epoch moves the three sums by what its row adds.
LEMMA EpochMoves ==
  ASSUME Shape, NEW e \in Epochs, \A k \in Epochs \ {e} : ep'[k] = ep[k], ep'[e] \in EpochRows
  PROVE  /\ Promised \in Nat /\ Promised' = Promised - feeOf(ep[e]) + feeOf(ep'[e])
         /\ Subsidised' = Subsidised - subOf(ep[e]) + subOf(ep'[e])
         /\ \A y \in Years :
              OfYear(y)' = IF yearOf(e) = y THEN OfYear(y) - subOf(ep[e]) + subOf(ep'[e])
                           ELSE OfYear(y)
<1> DEFINE P == InStates({"Posted"})
           L == InStates({"Posted", "Finalized"})
           f == feesOf
           g == subsidyOf
           Y(y) == {k \in L : yearOf(k) = y}
<1>1. /\ IsFiniteSet(P) /\ IsFiniteSet(L) /\ \A y : IsFiniteSet(Y(y))
      /\ P \subseteq Epochs /\ L \subseteq Epochs /\ P' \subseteq Epochs /\ L' \subseteq Epochs
  BY SettlementAssumption, FS_Subset DEF InStates
<1>2. \A k \in Epochs : f[k] = ep[k].fees /\ g[k] = ep[k].totB /\ f[k] \in Nat /\ g[k] \in Nat
  BY DEF Shape, EpochRows, feesOf, subsidyOf
<1>3. /\ f'[e] = ep'[e].fees /\ g'[e] = ep'[e].totB /\ f'[e] \in Nat /\ g'[e] \in Nat
      /\ \A k \in Epochs \ {e} : f'[k] = f[k] /\ g'[k] = g[k]
  BY DEF EpochRows, feesOf, subsidyOf
<1>4. /\ e \in P <=> ep[e].st = "Posted"
      /\ e \in P' <=> ep'[e].st = "Posted"
      /\ e \in L <=> ep[e].st \in {"Posted", "Finalized"}
      /\ e \in L' <=> ep'[e].st \in {"Posted", "Finalized"}
      /\ \A k : k # e => (k \in P' <=> k \in P) /\ (k \in L' <=> k \in L)
  BY DEF InStates
<1>5. /\ Promised = SumFunctionOnSet(f, P) /\ Promised' = SumFunctionOnSet(f', P')
      /\ Subsidised = SumFunctionOnSet(g, L) /\ Subsidised' = SumFunctionOnSet(g', L')
      /\ \A y : OfYear(y) = SumFunctionOnSet(g, Y(y))
      /\ \A y \in Years : OfYear(y)' = SumFunctionOnSet(g', {k \in L' : yearOf(k) = y})
  BY DEF Promised, Subsidised, OfYear
<1> HIDE DEF P, L, f, g
<1>6. /\ Promised \in Nat
      /\ Promised' = Promised - (IF e \in P THEN f[e] ELSE 0) + (IF e \in P' THEN f'[e] ELSE 0)
  BY <1>1, <1>2, <1>3, <1>4, <1>5, SumChange
<1>7. Subsidised' = Subsidised - (IF e \in L THEN g[e] ELSE 0) + (IF e \in L' THEN g'[e] ELSE 0)
  <2>1. IsFiniteSet(L) /\ \A k \in L : g[k] \in Nat
    BY <1>1, <1>2
  <2>2. /\ \A k : k # e => (k \in L' <=> k \in L)
        /\ g'[e] \in Nat /\ \A k \in L \ {e} : g'[k] = g[k]
    BY <1>1, <1>3, <1>4
  <2>3. SumFunctionOnSet(g', L') = SumFunctionOnSet(g, L)
          - (IF e \in L THEN g[e] ELSE 0) + (IF e \in L' THEN g'[e] ELSE 0)
    BY <2>1, <2>2, SumChange
  <2> QED
    BY <1>5, <2>3
<1>8. ASSUME NEW y \in Years
      PROVE  OfYear(y)' = IF yearOf(e) = y THEN OfYear(y) - subOf(ep[e]) + subOf(ep'[e])
                          ELSE OfYear(y)
  <2> DEFINE S == Y(y)
             T == {k \in L' : yearOf(k) = y}
  <2>1. /\ IsFiniteSet(S) /\ \A k \in S : g[k] \in Nat
        /\ \A k : k # e => (k \in T <=> k \in S)
        /\ \A k \in S \ {e} : g'[k] = g[k]
    BY <1>1, <1>2, <1>3, <1>4
  <2>2. /\ e \in S <=> e \in L /\ yearOf(e) = y
        /\ e \in T <=> e \in L' /\ yearOf(e) = y
    OBVIOUS
  <2>3. OfYear(y) = SumFunctionOnSet(g, S) /\ OfYear(y)' = SumFunctionOnSet(g', T)
    BY <1>5
  <2> HIDE DEF S, T
  <2>4. /\ OfYear(y) \in Nat
        /\ OfYear(y)' = OfYear(y) - (IF e \in S THEN g[e] ELSE 0) + (IF e \in T THEN g'[e] ELSE 0)
    BY <1>3, <2>1, <2>3, SumChange
  <2> QED
    BY <1>2, <1>3, <1>4, <2>2, <2>4 DEF subOf
<1> QED
  BY <1>2, <1>3, <1>4, <1>6, <1>7, <1>8 DEF feeOf, subOf

\* Marking an account in one epoch moves a lane's sum by the leaf, once.
LEMMA MarksMove ==
  ASSUME Shape, MarksOK, NEW e \in Epochs, NEW acc \in Accounts, acc \in DOMAIN ep[e].root,
         NEW f \in {"A", "B"}, NEW M, M \subseteq {"A", "B", "void"},
         ep'[e].root = ep[e].root, flags' = [flags EXCEPT ![e][acc] = @ \cup M]
  PROVE  LET leaf == IF f = "A" THEN ep[e].root[acc].a ELSE ep[e].root[acc].b
             new == f \in M /\ f \notin flags[e][acc]
         IN /\ leaf \in Nat
            /\ SumFunctionOnSet(minted(e, f), With(e, f))' =
                 SumFunctionOnSet(minted(e, f), With(e, f)) + (IF new THEN leaf ELSE 0)
<1> DEFINE r == ep[e].root
           of(x) == IF f = "A" THEN r[x].a ELSE r[x].b
           S == With(e, f)
           T == S'
           g == minted(e, f)
<1>1. \A x \in DOMAIN r : of(x) \in Nat
  <2>1. r \in Trees \cup {NoRoot}
    BY DEF Shape, EpochRows
  <2>2. CASE r = NoRoot
    BY <2>2 DEF NoRoot
  <2>3. CASE r \in Trees
    <3>1. r \in [DOMAIN r -> [a : Nat, b : Nat]]
      BY <2>3, SettlementAssumption
    <3> QED
      BY <3>1
  <2> QED
    BY <2>1, <2>2, <2>3
<1>2. S \subseteq Accounts /\ S \subseteq DOMAIN r /\ IsFiniteSet(S)
  BY SettlementAssumption, FS_Subset DEF With, MarksOK
<1>3. /\ flags'[e] = [flags[e] EXCEPT ![acc] = flags[e][acc] \cup M]
      /\ flags[e] \in [Accounts -> SUBSET {"A", "B", "void"}]
  BY DEF Shape
<1>4. T = {x \in Accounts : f \in flags'[e][x]}
  BY DEF With
<1>5. /\ \A x : x # acc => (x \in T <=> x \in S)
      /\ acc \in S <=> f \in flags[e][acc]
      /\ acc \in T <=> f \in flags[e][acc] \/ f \in M
  BY <1>3, <1>4 DEF With
<1>6. /\ \A x \in S : g[x] = of(x) /\ g[x] \in Nat
      /\ \A x \in T : g'[x] = of(x)
  BY <1>1, <1>2 DEF minted
<1>7. of(acc) \in Nat
  BY <1>1
<1>8. (SumFunctionOnSet(minted(e, f), With(e, f)))' = SumFunctionOnSet(g', T)
  OBVIOUS
<1>9. \A x \in S \ {acc} : g'[x] = g[x]
  BY <1>5, <1>6
<1> HIDE DEF g, S, T, of
<1>10. /\ SumFunctionOnSet(g, S) \in Nat
       /\ SumFunctionOnSet(g', T) = SumFunctionOnSet(g, S)
            - (IF acc \in S THEN g[acc] ELSE 0) + (IF acc \in T THEN g'[acc] ELSE 0)
  BY <1>2, <1>5, <1>6, <1>7, <1>9, SumChange
<1>11. SumFunctionOnSet(g', T) = SumFunctionOnSet(g, S)
         + (IF f \in M /\ f \notin flags[e][acc] THEN of(acc) ELSE 0)
  BY <1>5, <1>6, <1>7, <1>10
<1> QED
  BY <1>7, <1>8, <1>11 DEF g, S, of

-----------------------------------------------------------------------------
\* A step that leaves every row and every mark alone.
LEMMA TotalsStay ==
  ASSUME TotalsOK, UNCHANGED <<ep, flags, pendingBurn, committed, byYear>>
  PROVE  TotalsOK'
BY DEF TotalsOK, CommitmentsExact, MintsAreMarked, MarksOK, feesOf, subsidyOf, InStates,
       minted, With

\* A step of one epoch that adds to the running totals what its row adds, and marks
\* and mints nothing.
LEMMA TotalsMove ==
  ASSUME Shape, TotalsOK, NEW e \in Epochs, \A k \in Epochs \ {e} : ep'[k] = ep[k],
         ep'[e] \in EpochRows, UNCHANGED flags,
         pendingBurn' = pendingBurn - feeOf(ep[e]) + feeOf(ep'[e]),
         committed' = committed - subOf(ep[e]) + subOf(ep'[e]),
         byYear' = [byYear EXCEPT ![yearOf(e)] = @ - subOf(ep[e]) + subOf(ep'[e])],
         ep'[e].mintedA = ep[e].mintedA, ep'[e].mintedB = ep[e].mintedB,
         ep'[e].root = ep[e].root \/ \A acc \in Accounts : flags[e][acc] = {},
         ep'[e].st # "Finalized" => \A acc \in Accounts : flags[e][acc] = {}
  PROVE  TotalsOK'
<1>1. /\ pendingBurn = Promised /\ committed = Subsidised
      /\ \A y \in Years : byYear[y] = OfYear(y)
      /\ byYear \in [Years -> Int] /\ yearOf(e) \in Years
  BY DEF TotalsOK, CommitmentsExact, Promised, Subsidised, OfYear, Shape, Years
<1>2. /\ pendingBurn' = Promised' /\ committed' = Subsidised'
  BY <1>1, EpochMoves
<1>3. \A y \in Years : byYear'[y] = OfYear(y)'
  BY <1>1, EpochMoves
<1>4. CommitmentsExact'
  BY <1>2, <1>3 DEF CommitmentsExact, Promised, Subsidised, OfYear
<1>5. MarksOK'
  BY DEF TotalsOK, MarksOK
<1>6. MintsAreMarked'
  <2> SUFFICES ASSUME NEW k \in Epochs
               PROVE  /\ ep'[k].mintedA = SumFunctionOnSet(minted(k, "A"), With(k, "A"))'
                      /\ ep'[k].mintedB = SumFunctionOnSet(minted(k, "B"), With(k, "B"))'
    BY DEF MintsAreMarked
  <2>1. ep'[k].mintedA = ep[k].mintedA /\ ep'[k].mintedB = ep[k].mintedB
    BY EpochMoves
  <2>2. \A f : With(k, f)' = With(k, f)
    BY DEF With
  <2>3. \A f \in {"A", "B"} : minted(k, f)' = minted(k, f)
    <3>1. CASE ep'[k].root = ep[k].root
      BY <2>2, <3>1 DEF minted
    <3>2. CASE \A acc \in Accounts : flags[k][acc] = {}
      <4>1. \A f : With(k, f) = {}
        BY <3>2 DEF With
      <4> QED
        BY <2>2, <4>1 DEF minted
    <3> QED
      BY <3>1, <3>2
  <2> QED
    BY <2>1, <2>2, <2>3 DEF TotalsOK, MintsAreMarked
<1> QED
  BY <1>4, <1>5, <1>6 DEF TotalsOK

\* postEpoch sets the row's fees and subsidy aside.
LEMMA PostTotals ==
  ASSUME IInv, TotalsOK, NEW e \in Epochs, NEW p \in Posts, postEpoch(e, p)
  PROVE  TotalsOK'
<1>1. p.totB \in Nat /\ p.fees \in Nat /\ now \in Nat /\ ep \in [Epochs -> EpochRows] /\ Shape
  BY SettlementAssumption DEF IInv, Shape
<1> DEFINE new == PostedRow(ep[e], p)
<1>2. /\ new \in EpochRows /\ new.st = "Posted" /\ new.fees = p.fees /\ new.totB = p.totB
      /\ new.mintedA = ep[e].mintedA /\ new.mintedB = ep[e].mintedB
  BY <1>1, PostedRowFields
<1>3. /\ ep' = [ep EXCEPT ![e] = new] /\ ep[e].st \in {"None", "Vetoed"}
      /\ UNCHANGED flags /\ pendingBurn' = pendingBurn + p.fees /\ committed' = committed + p.totB
      /\ byYear' = [byYear EXCEPT ![yearOf(e)] = @ + p.totB]
  BY DEF postEpoch
<1> HIDE DEF new
<1>4. \A acc \in Accounts : flags[e][acc] = {}
  BY <1>3 DEF TotalsOK, MarksOK
<1>5. ep'[e] = new /\ \A k \in Epochs \ {e} : ep'[k] = ep[k]
  BY <1>1, <1>3
<1>6. feeOf(ep[e]) = 0 /\ subOf(ep[e]) = 0 /\ feeOf(ep'[e]) = p.fees /\ subOf(ep'[e]) = p.totB
  BY <1>2, <1>3, <1>5 DEF feeOf, subOf
<1>7. /\ pendingBurn' = pendingBurn - feeOf(ep[e]) + feeOf(ep'[e])
      /\ committed' = committed - subOf(ep[e]) + subOf(ep'[e])
  BY <1>1, <1>3, <1>6 DEF Shape
<1>8. byYear' = [byYear EXCEPT ![yearOf(e)] = @ - subOf(ep[e]) + subOf(ep'[e])]
  <2>1. byYear \in [Years -> Int] /\ yearOf(e) \in Years
    BY <1>1 DEF Shape, Years
  <2>2. byYear[yearOf(e)] + p.totB = byYear[yearOf(e)] - subOf(ep[e]) + subOf(ep'[e])
    BY <1>1, <1>6, <2>1
  <2> QED
    BY <1>3, <2>2
<1> QED
  BY <1>1, <1>2, <1>3, <1>4, <1>5, <1>7, <1>8, TotalsMove

\* veto gives exactly that back.
LEMMA VetoTotals ==
  ASSUME IInv, TotalsOK, NEW e \in Epochs, veto(e)
  PROVE  TotalsOK'
<1>1. /\ ep \in [Epochs -> EpochRows] /\ ep[e] \in EpochRows /\ Shape
      /\ ep[e].fees \in Nat /\ ep[e].totB \in Nat
  BY DEF IInv, Shape, EpochRows
<1>2. /\ ep' = [ep EXCEPT ![e].st = "Vetoed"] /\ ep[e].st = "Posted"
      /\ UNCHANGED flags /\ pendingBurn' = pendingBurn - ep[e].fees
      /\ committed' = committed - ep[e].totB
      /\ byYear' = [byYear EXCEPT ![yearOf(e)] = @ - ep[e].totB]
  BY DEF veto
<1>3. /\ ep'[e] \in EpochRows /\ ep'[e].st = "Vetoed" /\ ep'[e].root = ep[e].root
      /\ ep'[e].mintedA = ep[e].mintedA /\ ep'[e].mintedB = ep[e].mintedB
      /\ \A k \in Epochs \ {e} : ep'[k] = ep[k]
  BY <1>1, <1>2 DEF EpochRows
<1>4. \A acc \in Accounts : flags[e][acc] = {}
  BY <1>2 DEF TotalsOK, MarksOK
<1>5. /\ feeOf(ep[e]) = ep[e].fees /\ subOf(ep[e]) = ep[e].totB
      /\ feeOf(ep'[e]) = 0 /\ subOf(ep'[e]) = 0
  BY <1>2, <1>3 DEF feeOf, subOf
<1>6. /\ pendingBurn' = pendingBurn - feeOf(ep[e]) + feeOf(ep'[e])
      /\ committed' = committed - subOf(ep[e]) + subOf(ep'[e])
  BY <1>1, <1>2, <1>5 DEF Shape
<1>7. byYear' = [byYear EXCEPT ![yearOf(e)] = @ - subOf(ep[e]) + subOf(ep'[e])]
  <2>1. byYear \in [Years -> Int] /\ yearOf(e) \in Years
    BY <1>1 DEF Shape, Years
  <2>2. byYear[yearOf(e)] - ep[e].totB = byYear[yearOf(e)] - subOf(ep[e]) + subOf(ep'[e])
    BY <1>1, <1>5, <2>1
  <2> QED
    BY <1>2, <2>2
<1> QED
  BY <1>1, <1>2, <1>3, <1>4, <1>6, <1>7, TotalsMove

\* finalize burns the fees; the subsidy stays committed.
LEMMA FinalizeTotals ==
  ASSUME IInv, TotalsOK, NEW e \in Epochs, finalize(e)
  PROVE  TotalsOK'
<1>1. /\ ep \in [Epochs -> EpochRows] /\ ep[e] \in EpochRows /\ Shape /\ now \in Nat
      /\ ep[e].fees \in Nat /\ ep[e].totB \in Nat
  BY DEF IInv, Shape, EpochRows
<1> DEFINE new == [ep[e] EXCEPT !.st = "Finalized", !.finalizedAt = now]
<1>2. /\ ep' = [ep EXCEPT ![e] = new] /\ ep[e].st = "Posted"
      /\ UNCHANGED <<flags, committed, byYear>> /\ pendingBurn' = pendingBurn - ep[e].fees
  BY <1>1 DEF finalize
<1>3. /\ new \in EpochRows /\ new.st = "Finalized" /\ new.root = ep[e].root
      /\ new.mintedA = ep[e].mintedA /\ new.mintedB = ep[e].mintedB /\ new.totB = ep[e].totB
  BY <1>1 DEF EpochRows
<1> HIDE DEF new
<1>4. ep'[e] = new /\ \A k \in Epochs \ {e} : ep'[k] = ep[k]
  BY <1>1, <1>2
<1>5. /\ feeOf(ep[e]) = ep[e].fees /\ feeOf(ep'[e]) = 0
      /\ subOf(ep[e]) = ep[e].totB /\ subOf(ep'[e]) = ep[e].totB
  BY <1>2, <1>3, <1>4 DEF feeOf, subOf
<1>6. /\ pendingBurn' = pendingBurn - feeOf(ep[e]) + feeOf(ep'[e])
      /\ committed' = committed - subOf(ep[e]) + subOf(ep'[e])
  BY <1>1, <1>2, <1>5 DEF Shape
<1>7. byYear' = [byYear EXCEPT ![yearOf(e)] = @ - subOf(ep[e]) + subOf(ep'[e])]
  <2>1. byYear \in [Years -> Int] /\ yearOf(e) \in Years
    BY <1>1 DEF Shape, Years
  <2>2. byYear[yearOf(e)] = byYear[yearOf(e)] - subOf(ep[e]) + subOf(ep'[e])
    BY <1>1, <1>5, <2>1
  <2>3. byYear = [byYear EXCEPT ![yearOf(e)] = byYear[yearOf(e)]]
    BY <2>1
  <2> QED
    BY <1>2, <2>2, <2>3
<1> QED
  BY <1>1, <1>2, <1>3, <1>4, <1>6, <1>7, TotalsMove

\* _claim mints exactly the leaves it marks.
LEMMA ClaimTotals ==
  ASSUME IInv, TotalsOK, NEW e \in Epochs, NEW acc \in Accounts, claim(e, acc)
  PROVE  TotalsOK'
<1> DEFINE a == payA(e, acc)
           b == payB(e, acc)
           row == Counted(ep[e], a, b)
           M == Marked(a, b)
           r == ep[e].root
<1>1. a \in Nat /\ b \in Nat
  BY PaysNat DEF IInv, claim
<1>2. /\ ep \in [Epochs -> EpochRows] /\ ep[e] \in EpochRows /\ Shape /\ MarksOK
      /\ flags \in [Epochs -> [Accounts -> SUBSET {"A", "B", "void"}]]
      /\ byYear \in [Years -> Int] /\ pendingBurn \in Int /\ committed \in Int
  BY DEF IInv, Shape, TotalsOK
<1>3. /\ ep[e].st = "Finalized" /\ acc \in DOMAIN r
      /\ UNCHANGED <<pendingBurn, committed, byYear>>
      /\ flags' = [flags EXCEPT ![e][acc] = @ \cup M]
      /\ ep' = [ep EXCEPT ![e] = row]
  BY <1>2 DEF claim, Counted
<1>4. /\ row \in EpochRows /\ row.st = "Finalized" /\ row.fees = ep[e].fees
      /\ row.totB = ep[e].totB /\ row.root = r
      /\ row.mintedA = ep[e].mintedA + a /\ row.mintedB = ep[e].mintedB + b
  <2>1. row.root = r
    BY <1>2 DEF Counted, EpochRows
  <2> HIDE DEF a, b, r
  <2> QED
    BY <1>1, <1>2, <1>3, <2>1, CountedFields
<1>5. M \subseteq {"A", "B", "void"} /\ ("A" \in M <=> a > 0) /\ ("B" \in M <=> b > 0)
  BY DEF Marked
<1>6. /\ "A" \in flags[e][acc] => a = 0
      /\ "A" \notin flags[e][acc] => a = r[acc].a
      /\ "B" \in flags[e][acc] => b = 0
      /\ b # 0 => b = r[acc].b
  BY DEF payA, payB
<1> HIDE DEF a, b, row, M
<1>7. ep'[e] = row /\ \A k \in Epochs \ {e} : ep'[k] = ep[k]
  BY <1>2, <1>3
<1>8. feeOf(ep'[e]) = feeOf(ep[e]) /\ subOf(ep'[e]) = subOf(ep[e])
      /\ feeOf(ep[e]) \in Nat /\ subOf(ep[e]) \in Nat
  BY <1>2, <1>3, <1>4, <1>7 DEF feeOf, subOf, EpochRows
<1>9. CommitmentsExact'
  <2>1. /\ Promised \in Nat /\ Promised' = Promised - feeOf(ep[e]) + feeOf(ep'[e])
        /\ Subsidised' = Subsidised - subOf(ep[e]) + subOf(ep'[e])
        /\ \A y \in Years : OfYear(y)' = IF yearOf(e) = y
                                         THEN OfYear(y) - subOf(ep[e]) + subOf(ep'[e])
                                         ELSE OfYear(y)
    BY <1>2, <1>4, <1>7, EpochMoves
  <2>2. /\ pendingBurn = Promised /\ committed = Subsidised
        /\ \A y \in Years : byYear[y] = OfYear(y)
    BY DEF TotalsOK, CommitmentsExact, Promised, Subsidised, OfYear
  <2>3. pendingBurn' = Promised' /\ committed' = Subsidised'
    BY <1>2, <1>3, <1>8, <2>1, <2>2
  <2>4. \A y \in Years : byYear'[y] = OfYear(y)'
    BY <1>2, <1>3, <1>8, <2>1, <2>2
  <2> QED
    BY <2>3, <2>4 DEF CommitmentsExact, Promised, Subsidised, OfYear
<1>10. MarksOK'
  BY <1>2, <1>3, <1>4, <1>7 DEF MarksOK
<1>11. MintsAreMarked'
  <2> SUFFICES ASSUME NEW k \in Epochs
               PROVE  /\ ep'[k].mintedA = SumFunctionOnSet(minted(k, "A"), With(k, "A"))'
                      /\ ep'[k].mintedB = SumFunctionOnSet(minted(k, "B"), With(k, "B"))'
    BY DEF MintsAreMarked
  <2>1. /\ ep[k].mintedA = SumFunctionOnSet(minted(k, "A"), With(k, "A"))
        /\ ep[k].mintedB = SumFunctionOnSet(minted(k, "B"), With(k, "B"))
    BY DEF TotalsOK, MintsAreMarked
  <2>2. CASE k # e
    <3>1. flags'[k] = flags[k] /\ ep'[k] = ep[k]
      BY <1>2, <1>3, <1>7, <2>2
    <3>2. \A f : With(k, f)' = With(k, f) /\ minted(k, f)' = minted(k, f)
      BY <3>1 DEF With, minted
    <3> QED
      BY <2>1, <3>1, <3>2
  <2>3. CASE k = e
    <3>1. ep'[e].root = ep[e].root
      BY <1>4, <1>7
    <3>2. /\ r[acc].a \in Nat
          /\ SumFunctionOnSet(minted(e, "A"), With(e, "A"))' =
               SumFunctionOnSet(minted(e, "A"), With(e, "A"))
               + (IF "A" \in M /\ "A" \notin flags[e][acc] THEN r[acc].a ELSE 0)
      BY <1>2, <1>3, <1>5, <3>1, MarksMove
    <3>3. /\ r[acc].b \in Nat
          /\ SumFunctionOnSet(minted(e, "B"), With(e, "B"))' =
               SumFunctionOnSet(minted(e, "B"), With(e, "B"))
               + (IF "B" \in M /\ "B" \notin flags[e][acc] THEN r[acc].b ELSE 0)
      BY <1>2, <1>3, <1>5, <3>1, MarksMove
    <3>4. ep[e].mintedA \in Nat /\ ep[e].mintedB \in Nat
      BY <1>2 DEF EpochRows
    <3>5. (IF "A" \in M /\ "A" \notin flags[e][acc] THEN r[acc].a ELSE 0) = a
      BY <1>1, <1>5, <1>6, <3>2
    <3>6. (IF "B" \in M /\ "B" \notin flags[e][acc] THEN r[acc].b ELSE 0) = b
      BY <1>1, <1>5, <1>6, <3>3
    <3> QED
      BY <1>4, <1>7, <2>1, <2>3, <3>2, <3>3, <3>5, <3>6
  <2> QED
    BY <2>2, <2>3
<1> QED
  BY <1>9, <1>10, <1>11 DEF TotalsOK

\* clawLaneB marks a leaf that was not minted, and mints nothing.
LEMMA ClawTotals ==
  ASSUME IInv, TotalsOK, NEW e \in Epochs, NEW acc \in Accounts, clawLaneB(e, acc)
  PROVE  TotalsOK'
<1>1. /\ flags' = [flags EXCEPT ![e][acc] = @ \cup {"void"}]
      /\ ep[e].st = "Finalized" /\ acc \in DOMAIN ep[e].root
      /\ UNCHANGED <<ep, pendingBurn, committed, byYear>>
      /\ flags \in [Epochs -> [Accounts -> SUBSET {"A", "B", "void"}]]
  BY DEF clawLaneB, IInv, Shape
<1>2. \A k \in Epochs, f \in {"A", "B"} : With(k, f)' = With(k, f)
  BY <1>1 DEF With
<1>3. \A k \in Epochs, f \in {"A", "B"} : minted(k, f)' = minted(k, f)
  BY <1>1, <1>2 DEF minted
<1>4. MintsAreMarked'
  <2> SUFFICES ASSUME NEW k \in Epochs
               PROVE  /\ ep'[k].mintedA = SumFunctionOnSet(minted(k, "A"), With(k, "A"))'
                      /\ ep'[k].mintedB = SumFunctionOnSet(minted(k, "B"), With(k, "B"))'
    BY DEF MintsAreMarked
  <2> QED
    BY <1>1, <1>2, <1>3 DEF TotalsOK, MintsAreMarked
<1>5. MarksOK'
  BY <1>1 DEF TotalsOK, MarksOK
<1>6. CommitmentsExact'
  BY <1>1 DEF TotalsOK, CommitmentsExact, feesOf, subsidyOf, InStates
<1> QED
  BY <1>4, <1>5, <1>6 DEF TotalsOK

\* The accounts agree at the genesis: nothing is posted, nothing is marked.
LEMMA TotalsInit == Init => TotalsOK
<1> SUFFICES ASSUME Init PROVE TotalsOK
  OBVIOUS
<1>1. \A e \in Epochs : /\ ep[e].st = "None" /\ ep[e].mintedA = 0 /\ ep[e].mintedB = 0
                        /\ \A acc \in Accounts : flags[e][acc] = {}
  BY DEF Init, NoEpoch
<1>2. InStates({"Posted"}) = {} /\ InStates({"Posted", "Finalized"}) = {}
  BY <1>1 DEF InStates
<1>3. \A e \in Epochs, f \in {"A", "B"} : With(e, f) = {}
  BY <1>1 DEF With
<1>4. CommitmentsExact
  <2>1. \A y \in Years : {e \in InStates({"Posted", "Finalized"}) : yearOf(e) = y} = {}
    BY <1>2
  <2> QED
    BY <1>2, <2>1, SumEmpty DEF CommitmentsExact, Init
<1>5. MintsAreMarked
  BY <1>1, <1>3, SumEmpty DEF MintsAreMarked
<1> QED
  BY <1>1, <1>4, <1>5 DEF TotalsOK, MarksOK

\* The counters kept in storage and the marks on the leaves agree with the rows after every call.
THEOREM TotalsInvariance == Spec => []TotalsOK
<1>1. IInv /\ TotalsOK /\ [Next]_vars => TotalsOK'
  <2> SUFFICES ASSUME IInv, TotalsOK, [Next]_vars PROVE TotalsOK'
    OBVIOUS
  <2>1. CASE Tick \/ (\E x \in Deposits : depositFor(x) \/ HolderBurn(x)) \/ UNCHANGED vars
    BY <2>1, TotalsStay DEF Tick, depositFor, HolderBurn, vars
  <2> QED
    BY <2>1, PostTotals, VetoTotals, FinalizeTotals, ClaimTotals, ClawTotals DEF Next
<1> QED
  BY <1>1, TotalsInit, Invariance, PTL DEF Spec

\* A posted epoch's fees are within what is promised, promised within the escrow.
LEMMA FeesCovered ==
  ASSUME IInv, TotalsOK, NEW e \in Epochs, ep[e].st = "Posted"
  PROVE  ep[e].fees <= pendingBurn /\ pendingBurn <= escrow /\ escrow = vault
<1> DEFINE P == InStates({"Posted"})
           f == feesOf
<1>1. /\ IsFiniteSet(P) /\ e \in P /\ P \ {e} \subseteq P /\ IsFiniteSet(P \ {e})
  BY SettlementAssumption, FS_Subset DEF InStates
<1>2. \A k \in P : f[k] \in Nat
  BY DEF IInv, Shape, EpochRows, feesOf, InStates
<1>3. pendingBurn = SumFunctionOnSet(f, P) /\ f[e] = ep[e].fees
  BY DEF TotalsOK, CommitmentsExact, feesOf
<1> HIDE DEF P, f
<1>4. SumFunctionOnSet(f, P) = f[e] + SumFunctionOnSet(f, P \ {e})
  BY <1>1, <1>2, SumTake
<1>5. SumFunctionOnSet(f, P \ {e}) \in Nat /\ f[e] \in Nat
  BY <1>1, <1>2, SumNat
<1> QED
  BY <1>3, <1>4, <1>5 DEF IInv, Shape, EscrowCovers

\* Every unsigned counter of the contract stays one: pendingBurn, committed and
\* subsidyByYear are sums of naturals, so no subtraction of a veto goes below 0.
THEOREM TypeCorrect == Spec => []TypeOK
<1>1. IInv /\ TotalsOK => TypeOK
  <2> SUFFICES ASSUME IInv, TotalsOK PROVE pendingBurn \in Nat /\ committed \in Nat /\ byYear \in [Years -> Nat]
    BY DEF IInv, Shape, TypeOK
  <2> DEFINE L == InStates({"Posted", "Finalized"})
  <2>1. /\ \A k \in Epochs : feesOf[k] \in Nat /\ subsidyOf[k] \in Nat
        /\ IsFiniteSet(InStates({"Posted"})) /\ IsFiniteSet(L)
        /\ InStates({"Posted"}) \subseteq Epochs /\ L \subseteq Epochs
    BY SettlementAssumption, FS_Subset DEF IInv, Shape, EpochRows, feesOf, subsidyOf, InStates
  <2>2. pendingBurn \in Nat
    BY <2>1, SumNat DEF TotalsOK, CommitmentsExact
  <2>3. committed \in Nat
    BY <2>1, SumNat DEF TotalsOK, CommitmentsExact
  <2>4. ASSUME NEW y \in Years PROVE byYear[y] \in Nat
    <3> DEFINE Y == {k \in L : yearOf(k) = y}
    <3>1. Y \subseteq L /\ IsFiniteSet(Y)
      BY <2>1, FS_Subset
    <3>2. byYear[y] = SumFunctionOnSet(subsidyOf, Y)
      BY DEF TotalsOK, CommitmentsExact
    <3> HIDE DEF Y, L
    <3> QED
      BY <2>1, <3>1, <3>2, SumNat
  <2> QED
    BY <2>2, <2>3, <2>4 DEF IInv, Shape
<1> QED
  BY <1>1, Invariance, TotalsInvariance, PTL

\* _claim, clawLaneB: each lane mints what was posted for it and no more, and of an
\* account's lane B at most one of "minted" and "voided" ever happens.
THEOREM LanesAreSound == Spec => []LanesSound
BY EpochsBacked, ClawOrMint, PTL DEF LanesSound

\* postEpoch, veto, finalize, _claim: the running totals are the sums of what the
\* posted and live epochs hold, what an epoch has minted is the sum of the leaves
\* it has marked, and every posted epoch past its veto window can be finalized.
THEOREM TotalsExact == Spec => []PendingExact
<1> DEFINE Room == \A e \in Epochs : ep[e].st = "Posted" /\ ep[e].fees <= vault =>
                     CanMint(Burned(tok, ep[e].fees), ep[e].treas)
<1>1. IInv /\ TotalsOK /\ Room => PendingExact
  <2> SUFFICES ASSUME IInv, TotalsOK, Room, NEW e \in Epochs, ep[e].st = "Posted"
               PROVE  Settles(e)
    BY DEF TotalsOK, PendingExact, FinalizeNeverBlocked, InStates
  <2>1. ep[e].fees <= pendingBurn /\ pendingBurn <= escrow /\ escrow = vault
    BY FeesCovered
  <2>2. ep[e].fees \in Nat /\ pendingBurn \in Int /\ escrow \in Nat
    BY DEF IInv, Shape, EpochRows
  <2>3. ep[e].fees <= vault
    BY <2>1, <2>2
  <2> QED
    BY <2>1, <2>2, <2>3 DEF Settles
<1> QED
  BY <1>1, Invariance, TotalsInvariance, CeilingNeverBlocksFinalize, PTL

-----------------------------------------------------------------------------
(* The ledger's split of fees (FeeSplit). *)

\* splitFee on any fee above 1: the treasury gets at least 3%, and with lane A
\* at most 98%.
LEMMA SplitBounds ==
  ASSUME NEW F \in Nat, F > 1
  PROVE  /\ LaneA(F) \in Nat /\ TreasuryShare(F) \in Nat
         /\ TreasuryShare(F) * 10000 >= F * 300
         /\ (LaneA(F) + TreasuryShare(F)) * 10000 <= F * 9800
  BY SMT DEF LaneA, TreasuryShare, Least, AtLeast0

\* lane A alone leaves 5% of the fee
LEMMA LaneABelow ==
  ASSUME NEW F \in Nat, F > 1
  PROVE  LaneA(F) * 1000 <= F * 950
  BY SMT DEF LaneA, TreasuryShare, Least, AtLeast0

\* the subsidy is at most 4% of the fee, whatever SUBSIDY_RHO is
LEMMA SubsidyBelow ==
  ASSUME NEW F \in Nat, NEW ok \in BOOLEAN
  PROVE  Subsidy(F, ok) \in Nat /\ Subsidy(F, ok) * 1000000 <= F * 40000
  <1> DEFINE r == Least(Rho, RhoMax)
  <1>1. r \in Nat /\ r <= 40000
    BY FeeSplitAssumption DEF Least, RhoMax
  <1>2. F * r \in Nat /\ F * r <= F * 40000
    <2> HIDE DEF r
    <2> QED BY <1>1
  <1>3. CASE ok
    <2> DEFINE x == F * r
    <2>1. Subsidy(F, ok) = x \div 1000000
      BY <1>3 DEF Subsidy
    <2>2. x \in Nat /\ x <= F * 40000
      BY <1>2
    <2> HIDE DEF x
    <2> QED BY <2>1, <2>2
  <1>4. CASE ~ok
    BY <1>4 DEF Subsidy
  <1> QED BY <1>3, <1>4

\* Paying for one's own job: what comes back is less than the fee, even when
\* the epoch's budget takes nothing off (RHO_MAX).
THEOREM OwnJobLoses ==
  ASSUME NEW F \in Nat, F > 1, NEW ok \in BOOLEAN
  PROVE  LaneA(F) + Subsidy(F, ok) < F
  BY LaneABelow, SubsidyBelow, SplitBounds

-----------------------------------------------------------------------------
\* entry is a function to records of these fields; a close may put any value in b.
Rec(r) == r = [kind |-> r.kind, w |-> r.w, fee |-> r.fee, a |-> r.a, t |-> r.t, b |-> r.b,
               units |-> r.units, clawed |-> r.clawed]

Fn == entry = [s \in Slots |-> entry[s]] /\ \A s \in Slots : Rec(entry[s])

SplitInv == Fn /\ BoundsPerJob

\* The empty entry is a record like the others.
LEMMA NoneShape ==
  \E w0 : NoEntry = [kind |-> "none", w |-> w0, fee |-> 0, a |-> 0, t |-> 0, b |-> 0, units |-> 0, clawed |-> FALSE]
  BY Zenon DEF NoEntry

\* A fee is booked into an empty slot.
LEMMA BooksKeep ==
  ASSUME SplitInv, NEW s \in Slots, NEW w \in Wallets, NEW F \in Fees, NEW ok \in BOOLEAN, BookFee(s, w, F, ok)
  PROVE  SplitInv'
  <1>1. F \in Nat /\ F > 1
    BY FeeSplitAssumption
  <1> DEFINE new == [kind |-> "paid", w |-> w, fee |-> F, a |-> LaneA(F),
       t |-> TreasuryShare(F), b |-> Subsidy(F, ok), units |-> 0, clawed |-> FALSE]
  <1>2. /\ new.t * 10000 >= new.fee * 300
        /\ (new.a + new.t) * 10000 <= new.fee * 9800
    BY <1>1, SplitBounds
  <1>3. entry' = [entry EXCEPT ![s] = new]
    BY DEF BookFee
  <1> HIDE DEF new
  <1>4. \A x \in Slots : entry'[x] = IF x = s THEN new ELSE entry[x]
    BY <1>3 DEF SplitInv, Fn
  <1>5. Fn'
    <2>1. Rec(new)
      BY DEF Rec, new
    <2> QED BY <1>3, <1>4, <2>1 DEF SplitInv, Fn
  <1> QED BY <1>2, <1>4, <1>5 DEF SplitInv, BoundsPerJob

\* A protocol job is booked into an empty slot.
LEMMA ProtocolKeeps ==
  ASSUME SplitInv, NEW s \in Slots, NEW w \in Wallets, NEW u \in Units, BookProtocol(s, w, u)
  PROVE  SplitInv'
  <1> DEFINE new == [kind |-> "protocol", w |-> w, fee |-> 0, a |-> 0, t |-> 0, b |-> 0,
       units |-> u, clawed |-> FALSE]
  <1>1. new.kind = "protocol" /\ Rec(new)
    BY DEF Rec
  <1>2. entry' = [entry EXCEPT ![s] = new]
    BY DEF BookProtocol
  <1> HIDE DEF new
  <1>3. \A x \in Slots : entry'[x] = IF x = s THEN new ELSE entry[x]
    BY <1>2 DEF SplitInv, Fn
  <1>4. Fn'
    BY <1>1, <1>2, <1>3 DEF SplitInv, Fn
  <1> QED BY <1>1, <1>3, <1>4 DEF SplitInv, BoundsPerJob

\* A close changes lane B only.
LEMMA CloseKeeps ==
  ASSUME SplitInv, NEW bud \in Budgets, Close(bud)
  PROVE  SplitInv'
  <1>1. entry' = Fitted(bud)
    BY DEF Close
  <1>2. PICK f : entry' = [s \in Slots |-> [entry[s] EXCEPT !.b = f[s]]]
    <2> DEFINE
      tot == TotalB
      scaled == [s \in Slots |-> IF s \in Pending THEN Scaled(entry[s].b, bud, tot) ELSE entry[s].b]
      Prot == {s \in Pending : entry[s].kind = "protocol"}
      left == AtLeast0(bud - SumFunctionOnSet(scaled, Pending \ Prot))
      units == SumFunctionOnSet(VerifiedUnits, Prot)
      walletUnits(w) == SumFunctionOnSet(VerifiedUnits, {s \in Prot : entry[s].w = w})
      enough == left > 0 /\ Cardinality({entry[s].w : s \in Prot}) >= NMin
      g == [s \in Slots |-> IF s \in Prot /\ enough THEN Share(left, entry[s].units, walletUnits(entry[s].w), units) ELSE scaled[s]]
    <2>1. Fitted(bud) = [s \in Slots |-> [entry[s] EXCEPT !.b =
            IF s \in Prot /\ enough THEN Share(left, entry[s].units, walletUnits(entry[s].w), units) ELSE scaled[s]]]
      BY DEF Fitted
    <2>2. \A s \in Slots : g[s] = IF s \in Prot /\ enough THEN Share(left, entry[s].units, walletUnits(entry[s].w), units) ELSE scaled[s]
      OBVIOUS
    <2> HIDE DEF g, scaled, Prot, left, units, walletUnits, enough
    <2>3. Fitted(bud) = [s \in Slots |-> [entry[s] EXCEPT !.b = g[s]]]
      BY <2>1, <2>2
    <2> QED BY <1>1, <2>3
  <1>3. \A s \in Slots : entry'[s] = [entry[s] EXCEPT !.b = f[s]]
    BY <1>2
  <1>4. \A s \in Slots : /\ entry'[s].kind = entry[s].kind /\ entry'[s].t = entry[s].t
                         /\ entry'[s].a = entry[s].a /\ entry'[s].fee = entry[s].fee
                         /\ Rec(entry'[s])
    BY ZenonT(60), <1>3 DEF SplitInv, Fn, Rec
  <1>5. Fn'
    BY <1>2, <1>4 DEF Fn
  <1> QED BY <1>4, <1>5 DEF SplitInv, BoundsPerJob

\* A claw changes one entry's flag and no amount.
LEMMA ClawKeeps ==
  ASSUME SplitInv, NEW s \in Slots, Claw(s)
  PROVE  SplitInv'
  <1>1. entry' = [entry EXCEPT ![s].clawed = TRUE]
    BY DEF Claw
  <1>2. \A x \in Slots : entry'[x] = IF x = s THEN [entry[s] EXCEPT !.clawed = TRUE] ELSE entry[x]
    BY <1>1 DEF SplitInv, Fn
  <1>3. \A x \in Slots : /\ entry'[x].kind = entry[x].kind /\ entry'[x].t = entry[x].t
                         /\ entry'[x].a = entry[x].a /\ entry'[x].fee = entry[x].fee
                         /\ Rec(entry'[x])
    BY <1>2 DEF SplitInv, Fn, Rec
  <1>4. Fn'
    BY <1>1, <1>3 DEF SplitInv, Fn
  <1> QED BY <1>3, <1>4 DEF SplitInv, BoundsPerJob

\* Every paid entry keeps the contract's treasury and lane A bounds, through
\* closes, vetoes and claws.
THEOREM SplitAcceptable == SplitSpec => []BoundsPerJob
  <1>1. SplitInit => SplitInv
    <2> SUFFICES ASSUME SplitInit PROVE SplitInv
      OBVIOUS
    <2>1. PICK w0 : NoEntry = [kind |-> "none", w |-> w0, fee |-> 0, a |-> 0, t |-> 0, b |-> 0, units |-> 0, clawed |-> FALSE]
      BY NoneShape
    <2>2. Rec(NoEntry) /\ NoEntry.kind = "none"
      BY <2>1 DEF Rec
    <2>3. entry = [s \in Slots |-> NoEntry] /\ \A s \in Slots : entry[s] = NoEntry
      BY DEF SplitInit
    <2> QED BY <2>2, <2>3 DEF SplitInv, Fn, BoundsPerJob
  <1>2. SplitInv /\ [SplitNext]_splitVars => SplitInv'
    <2> SUFFICES ASSUME SplitInv, [SplitNext]_splitVars PROVE SplitInv'
      OBVIOUS
    <2>1. CASE \E s \in Slots, w \in Wallets, F \in Fees, ok \in BOOLEAN : BookFee(s, w, F, ok)
      BY <2>1, BooksKeep
    <2>2. CASE \E s \in Slots, w \in Wallets, u \in Units : BookProtocol(s, w, u)
      BY <2>2, ProtocolKeeps
    <2>3. CASE \E bud \in Budgets : Close(bud)
      BY <2>3, CloseKeeps
    <2>4. CASE \E s \in Slots : Claw(s)
      BY <2>4, ClawKeeps
    <2>5. CASE Reopen \/ UNCHANGED splitVars
      BY <2>5 DEF Reopen, splitVars, SplitInv, Fn, Rec, BoundsPerJob
    <2> QED BY <2>1, <2>2, <2>3, <2>4, <2>5 DEF SplitNext
  <1>3. SplitInv => BoundsPerJob
    BY DEF SplitInv
  <1> QED BY <1>1, <1>2, <1>3, PTL DEF SplitSpec

-----------------------------------------------------------------------------
(* Lane B of a closed epoch stays within its budget. *)

\* Every entry's lane B amount and units are naturals; protocol work has units.
Amounts ==
  /\ budget \in Nat
  /\ \A s \in Slots : /\ entry[s].b \in Nat /\ entry[s].units \in Nat
                      /\ entry[s].kind = "protocol" => entry[s].units > 0

\* A quotient that is rounded down.
LEMMA DivBelow ==
  ASSUME NEW a \in Nat, NEW b \in Nat \ {0}
  PROVE  a \div b \in Nat /\ (a \div b) * b <= a
  OBVIOUS

\* A factor on both sides.
LEMMA Cancels ==
  ASSUME NEW x \in Int, NEW y \in Int, NEW t \in Nat \ {0}, x * t <= y * t
  PROVE  x <= y
  OBVIOUS

\* fitLaneB: the entries scaled down to the budget, or as they are when they fit.
LEMMA ScaledFits ==
  ASSUME Amounts, NEW bud \in Nat, NEW f, \A s \in Pending : f[s] = Scaled(entry[s].b, bud, TotalB)
  PROVE  /\ \A s \in Pending : f[s] \in Nat
         /\ SumFunctionOnSet(f, Pending) <= bud
  <1>1. IsFiniteSet(Pending) /\ Pending \subseteq Slots
    <2>1. Pending \subseteq Slots
      BY DEF Pending
    <2> QED
      BY <2>1, FeeSplitAssumption, FS_Subset
  <1>2. \A s \in Pending : LaneB[s] = entry[s].b /\ LaneB[s] \in Nat
    <2> SUFFICES ASSUME NEW s \in Pending PROVE LaneB[s] = entry[s].b /\ LaneB[s] \in Nat
      OBVIOUS
    <2>1. s \in Slots
      BY <1>1
    <2>2. entry[s].b \in Nat
      BY <2>1 DEF Amounts
    <2>3. LaneB[s] = entry[s].b
      BY <2>1 DEF LaneB
    <2> QED
      BY <2>2, <2>3
  <1>3. TotalB \in Nat
    BY <1>1, <1>2, SumNat DEF TotalB
  <1>4. CASE TotalB <= bud
    <2>1. \A s \in Pending : f[s] = LaneB[s]
      BY <1>2, <1>4 DEF Scaled
    <2>2. SumFunctionOnSet(f, Pending) = TotalB
      BY <1>1, <2>1, SumSame DEF TotalB
    <2> QED
      BY <1>2, <1>4, <2>1, <2>2
  <1>5. CASE ~ (TotalB <= bud)
    <2>1. TotalB \in Nat \ {0}
      BY <1>3, <1>5
    <2>2. ASSUME NEW s \in Pending PROVE f[s] \in Nat /\ f[s] * TotalB <= bud * LaneB[s]
      <3> DEFINE x == LaneB[s] * bud
      <3>1. x \in Nat /\ x = bud * LaneB[s]
        BY <1>2
      <3>2. f[s] = x \div TotalB
        BY <1>2, <1>5 DEF Scaled
      <3> HIDE DEF x
      <3> QED
        BY <2>1, <3>1, <3>2, DivBelow
    <2>3. SumFunctionOnSet(f, Pending) * TotalB <= bud * TotalB
      BY <1>1, <1>2, <1>3, <2>2, SumScaled DEF TotalB
    <2>4. SumFunctionOnSet(f, Pending) \in Nat
      BY <1>1, <2>2, SumNat
    <2> QED
      BY <2>1, <2>2, <2>3, <2>4, Cancels
  <1> QED
    BY <1>4, <1>5

\* fitProtocolB: a wallet's part of what is left, by units, and an entry's part of
\* its wallet's, is at most what the entry's units are of all.
LEMMA ShareBelow ==
  ASSUME NEW left \in Nat, NEW u \in Nat \ {0}, NEW wu \in Nat, u <= wu, NEW tot \in Nat, wu <= tot
  PROVE  Share(left, u, wu, tot) \in Nat /\ Share(left, u, wu, tot) * tot <= left * u
  <1> DEFINE x == (left * wu) \div tot
             m == Least(x, (left * SCapPct) \div 100)
             q == (m * u) \div wu
  <1>1. wu \in Nat \ {0} /\ tot \in Nat \ {0} /\ left * wu \in Nat /\ left * SCapPct \in Nat
    BY FeeSplitAssumption
  <1>2. x \in Nat /\ x * tot <= left * wu
    BY <1>1, DivBelow
  <1>3. m \in Nat /\ m <= x
    <2>1. (left * SCapPct) \div 100 \in Nat
      BY <1>1, DivBelow
    <2> HIDE DEF x
    <2> QED
      BY <1>2, <2>1 DEF Least
  <1>4. Share(left, u, wu, tot) = q
    BY DEF Share
  <1> HIDE DEF x, m
  <1>5. m * u \in Nat
    BY <1>3
  <1>6. q \in Nat /\ q * wu <= m * u
    BY <1>1, <1>5, DivBelow
  <1> HIDE DEF q
  <1>7. m * tot <= x * tot
    BY <1>1, <1>2, <1>3
  <1>8. m * tot <= left * wu
    BY <1>1, <1>2, <1>3, <1>7
  <1>9. (q * wu) * tot <= (m * u) * tot
    BY <1>1, <1>5, <1>6
  <1>10. (m * tot) * u <= (left * wu) * u
    BY <1>1, <1>3, <1>8
  <1>11. (m * u) * tot = (m * tot) * u /\ (q * wu) * tot = (q * tot) * wu /\ (left * wu) * u = (left * u) * wu
    BY <1>1, <1>3, <1>6
  <1>12. q * tot \in Int /\ left * u \in Int
    BY <1>1, <1>6
  <1>13. (q * tot) * wu <= (left * u) * wu
    BY <1>1, <1>3, <1>6, <1>9, <1>10, <1>11
  <1> QED
    BY <1>1, <1>4, <1>6, <1>12, <1>13, Cancels

\* fitProtocolB: together the shares stay within what is left.
LEMMA SharesFit ==
  ASSUME Amounts, NEW P, P \subseteq Slots, \A s \in P : entry[s].kind = "protocol", NEW left \in Nat, NEW f,
         \A s \in P : f[s] = Share(left, entry[s].units,
                                   SumFunctionOnSet(VerifiedUnits, {x \in P : entry[x].w = entry[s].w}),
                                   SumFunctionOnSet(VerifiedUnits, P))
  PROVE  /\ \A s \in P : f[s] \in Nat
         /\ SumFunctionOnSet(f, P) <= left
  <1> DEFINE tot == SumFunctionOnSet(VerifiedUnits, P)
             Of(w) == {x \in P : entry[x].w = w}
             wu(w) == SumFunctionOnSet(VerifiedUnits, Of(w))
  <1>1. IsFiniteSet(P) /\ \A w : IsFiniteSet(Of(w)) /\ Of(w) \subseteq P
    BY FeeSplitAssumption, FS_Subset
  <1>2. \A s \in P : VerifiedUnits[s] = entry[s].units /\ entry[s].units \in Nat \ {0}
    <2> SUFFICES ASSUME NEW s \in P PROVE VerifiedUnits[s] = entry[s].units /\ entry[s].units \in Nat \ {0}
      OBVIOUS
    <2>1. entry[s].units \in Nat /\ entry[s].units > 0
      BY DEF Amounts
    <2>2. VerifiedUnits[s] = entry[s].units
      BY DEF VerifiedUnits
    <2> QED
      BY <2>1, <2>2
  <1>3. tot \in Nat /\ \A w : wu(w) \in Nat
    BY <1>1, <1>2, SumNat
  <1>4. ASSUME NEW s \in P PROVE f[s] \in Nat /\ f[s] * tot <= left * VerifiedUnits[s]
    <2> DEFINE w == entry[s].w
    <2>1. s \in Of(w)
      OBVIOUS
    <2>2. entry[s].units <= wu(w)
      BY <1>1, <1>2, <2>1, SumCovers
    <2>3. wu(w) <= tot
      <3>1. tot = wu(w) + SumFunctionOnSet(VerifiedUnits, P \ Of(w))
        BY <1>1, <1>2, SumSplit
      <3>2. SumFunctionOnSet(VerifiedUnits, P \ Of(w)) \in Nat
        BY <1>1, <1>2, SumNat, FS_Subset
      <3> HIDE DEF tot, wu, w, Of
      <3> QED
        BY <1>3, <3>1, <3>2
    <2>4. f[s] = Share(left, entry[s].units, wu(w), tot)
      OBVIOUS
    <2> HIDE DEF tot, wu, w, Of
    <2>5. wu(w) \in Nat /\ entry[s].units \in Nat \ {0} /\ VerifiedUnits[s] = entry[s].units
      BY <1>2, <1>3
    <2>6. /\ Share(left, entry[s].units, wu(w), tot) \in Nat
          /\ Share(left, entry[s].units, wu(w), tot) * tot <= left * entry[s].units
      BY <1>3, <2>2, <2>3, <2>5, ShareBelow
    <2> QED
      BY <2>4, <2>5, <2>6
  <1>5. SumFunctionOnSet(f, P) \in Nat
    BY <1>1, <1>4, SumNat
  <1>6. CASE P = {}
    BY <1>4, <1>6, SumEmpty
  <1>7. CASE P # {}
    <2>1. PICK s \in P : TRUE
      BY <1>7
    <2>2. entry[s].units <= tot
      BY <1>1, <1>2, SumCovers
    <2>3. tot \in Nat \ {0}
      BY <1>2, <1>3, <2>2
    <2>4. SumFunctionOnSet(f, P) * tot <= left * tot
      BY <1>1, <1>2, <1>3, <1>4, SumScaled
    <2> HIDE DEF tot
    <2> QED
      BY <1>4, <1>5, <2>3, <2>4, Cancels
  <1> QED
    BY <1>6, <1>7

\* The amounts of a close: a natural for every entry, within the budget for the
\* pending ones.
LEMMA CloseFits ==
  ASSUME SplitInv, Amounts, NEW bud \in Budgets, Close(bud)
  PROVE  Amounts' /\ LaneBFits'
  <1> DEFINE
    tot == TotalB
    scaled == [s \in Slots |-> IF s \in Pending THEN Scaled(entry[s].b, bud, tot) ELSE entry[s].b]
    Prot == {s \in Pending : entry[s].kind = "protocol"}
    Rest == Pending \ Prot
    left == AtLeast0(bud - SumFunctionOnSet(scaled, Rest))
    units == SumFunctionOnSet(VerifiedUnits, Prot)
    walletUnits(w) == SumFunctionOnSet(VerifiedUnits, {s \in Prot : entry[s].w = w})
    enough == left > 0 /\ Cardinality({entry[s].w : s \in Prot}) >= NMin
    g == [s \in Slots |-> IF s \in Prot /\ enough THEN Share(left, entry[s].units, walletUnits(entry[s].w), units) ELSE scaled[s]]
  <1>1. bud \in Nat /\ IsFiniteSet(Pending) /\ Pending \subseteq Slots
    <2>1. Pending \subseteq Slots
      BY DEF Pending
    <2> QED
      BY <2>1, FeeSplitAssumption, FS_Subset
  <1>2. entry' = [s \in Slots |-> [entry[s] EXCEPT !.b = g[s]]]
    <2>1. entry' = [s \in Slots |-> [entry[s] EXCEPT !.b =
            IF s \in Prot /\ enough THEN Share(left, entry[s].units, walletUnits(entry[s].w), units) ELSE scaled[s]]]
      BY DEF Close, Fitted
    <2>2. \A s \in Slots : g[s] = IF s \in Prot /\ enough THEN Share(left, entry[s].units, walletUnits(entry[s].w), units) ELSE scaled[s]
      OBVIOUS
    <2> HIDE DEF g, scaled, Prot, Rest, left, units, walletUnits, enough
    <2> QED
      BY <2>1, <2>2
  <1>3. /\ \A s \in Pending : scaled[s] = Scaled(entry[s].b, bud, TotalB)
        /\ \A s \in Slots \ Pending : g[s] = entry[s].b
        /\ \A s \in Pending : g[s] = IF s \in Prot /\ enough THEN Share(left, entry[s].units, walletUnits(entry[s].w), units) ELSE scaled[s]
        /\ Prot \subseteq Pending /\ \A s \in Prot : entry[s].kind = "protocol"
    BY <1>1
  <1>4. (\A s \in Pending : scaled[s] \in Nat) /\ SumFunctionOnSet(scaled, Pending) <= bud
    <2> HIDE DEF scaled, g, enough, Prot
    <2> QED
      BY <1>1, <1>3, ScaledFits
  <1>5. SumFunctionOnSet(scaled, Rest) \in Nat /\ IsFiniteSet(Rest) /\ IsFiniteSet(Prot)
    <2> HIDE DEF scaled
    <2>1. IsFiniteSet(Rest) /\ IsFiniteSet(Prot)
      BY <1>1, FS_Subset
    <2> QED
      BY <1>4, <2>1, SumNat
  <1>6. (\A s \in Pending : g[s] \in Nat) /\ SumFunctionOnSet(g, Pending) <= bud
    <2>1. CASE ~enough
      <3>1. \A s \in Pending : g[s] = scaled[s]
        BY <1>3, <2>1
      <3> HIDE DEF g, scaled, enough
      <3> QED
        BY <1>1, <1>4, <3>1, SumSame
    <2>2. CASE enough
      <3>1. left \in Nat /\ left + SumFunctionOnSet(scaled, Rest) = bud
        <4> DEFINE r == SumFunctionOnSet(scaled, Rest)
        <4>1. left = AtLeast0(bud - r) /\ left > 0 /\ r \in Nat
          BY <1>5, <2>2
        <4>2. left \in Nat /\ left + r = bud
          <5> HIDE DEF r, left
          <5> QED
            BY <1>1, <4>1 DEF AtLeast0
        <4> QED
          BY <4>2
      <3>2. \A s \in Prot : g[s] = Share(left, entry[s].units, walletUnits(entry[s].w), units)
        BY <1>3, <2>2
      <3>3. \A s \in Rest : g[s] = scaled[s]
        BY <1>3
      <3>4. (\A s \in Prot : g[s] \in Nat) /\ SumFunctionOnSet(g, Prot) <= left
        <4>1. Prot \subseteq Slots
          BY <1>1
        <4> HIDE DEF g, left, Prot
        <4> QED
          BY <1>3, <3>1, <3>2, <4>1, SharesFit
      <3>5. SumFunctionOnSet(g, Rest) = SumFunctionOnSet(scaled, Rest)
        <4> HIDE DEF g, scaled, Rest
        <4> QED
          BY <1>5, <3>3, SumSame
      <3> HIDE DEF g, scaled, left, enough
      <3>6. \A s \in Pending : g[s] \in Nat
        BY <1>4, <3>3, <3>4
      <3> HIDE DEF Prot
      <3>7. SumFunctionOnSet(g, Pending) = SumFunctionOnSet(g, Prot) + SumFunctionOnSet(g, Rest)
        BY <1>1, <1>3, <3>6, SumSplit
      <3>8. SumFunctionOnSet(g, Prot) \in Nat
        BY <1>3, <1>5, <3>6, SumNat
      <3> HIDE DEF Rest
      <3>9. SumFunctionOnSet(g, Pending) <= bud
        BY <1>1, <1>5, <3>1, <3>4, <3>5, <3>7, <3>8
      <3> QED
        BY <3>6, <3>9
    <2> QED
      BY <2>1, <2>2
  <1> HIDE DEF tot, scaled, Prot, Rest, left, units, walletUnits, enough, g
  <1>7. \A s \in Slots : /\ entry'[s].b = g[s] /\ entry'[s].units = entry[s].units
                         /\ entry'[s].kind = entry[s].kind /\ entry'[s].clawed = entry[s].clawed
    <2> SUFFICES ASSUME NEW s \in Slots
                 PROVE  /\ entry'[s].b = g[s] /\ entry'[s].units = entry[s].units
                        /\ entry'[s].kind = entry[s].kind /\ entry'[s].clawed = entry[s].clawed
      OBVIOUS
    <2>1. entry'[s] = [entry[s] EXCEPT !.b = g[s]] /\ Rec(entry[s])
      BY <1>2 DEF SplitInv, Fn
    <2> DEFINE r == entry[s]
               n == entry'[s]
    <2>2. n = [r EXCEPT !.b = g[s]] /\ Rec(r)
      BY <2>1
    <2> HIDE DEF r, n
    <2>3. n.b = g[s] /\ n.units = r.units /\ n.kind = r.kind /\ n.clawed = r.clawed
      BY <2>2 DEF Rec
    <2> QED
      BY <2>3 DEF r, n
  <1>8. budget' = bud
    BY DEF Close
  <1>9. Amounts'
    <2> SUFFICES ASSUME NEW s \in Slots
                 PROVE  /\ entry'[s].b \in Nat /\ entry'[s].units \in Nat
                        /\ entry'[s].kind = "protocol" => entry'[s].units > 0
      BY <1>1, <1>8 DEF Amounts
    <2>1. g[s] \in Nat
      BY <1>3, <1>6 DEF Amounts
    <2> QED
      BY <1>7, <2>1 DEF Amounts
  <1>10. Pending' = Pending
    BY <1>7 DEF Pending
  <1>11. LaneBFits'
    <2>1. \A s \in Pending : LaneB'[s] = g[s]
      BY <1>1, <1>7 DEF LaneB
    <2>2. SumFunctionOnSet(LaneB', Pending) = SumFunctionOnSet(g, Pending)
      BY <1>1, <2>1, SumSame
    <2>3. TotalB' = SumFunctionOnSet(LaneB', Pending)
      BY <1>10 DEF TotalB
    <2> QED
      BY <1>6, <1>8, <2>2, <2>3 DEF LaneBFits
  <1> QED
    BY <1>9, <1>11

\* A booking puts naturals into an empty slot, of an epoch that is open.
LEMMA BookingsFit ==
  ASSUME SplitInv, Amounts, NEW s \in Slots, NEW w \in Wallets,
         \/ \E F \in Fees, ok \in BOOLEAN : BookFee(s, w, F, ok)
         \/ \E u \in Units : BookProtocol(s, w, u)
  PROVE  Amounts' /\ LaneBFits'
  <1>1. \E new : /\ entry' = [entry EXCEPT ![s] = new]
                 /\ new.b \in Nat /\ new.units \in Nat /\ (new.kind = "protocol" => new.units > 0)
    <2>1. CASE \E F \in Fees, ok \in BOOLEAN : BookFee(s, w, F, ok)
      <3>1. PICK F \in Fees, ok \in BOOLEAN : BookFee(s, w, F, ok)
        BY <2>1
      <3>2. Subsidy(F, ok) \in Nat
        BY FeeSplitAssumption, SubsidyBelow
      <3> DEFINE new == [kind |-> "paid", w |-> w, fee |-> F, a |-> LaneA(F),
             t |-> TreasuryShare(F), b |-> Subsidy(F, ok), units |-> 0, clawed |-> FALSE]
      <3>3. new.b \in Nat /\ new.units \in Nat /\ (new.kind = "protocol" => new.units > 0)
        BY <3>2
      <3>4. entry' = [entry EXCEPT ![s] = new]
        BY <3>1 DEF BookFee
      <3> HIDE DEF new
      <3> QED
        BY <3>3, <3>4
    <2>2. CASE \E u \in Units : BookProtocol(s, w, u)
      <3>1. PICK u \in Units : BookProtocol(s, w, u)
        BY <2>2
      <3>2. u \in Nat /\ u > 0
        BY FeeSplitAssumption
      <3> DEFINE new == [kind |-> "protocol", w |-> w, fee |-> 0, a |-> 0, t |-> 0, b |-> 0,
             units |-> u, clawed |-> FALSE]
      <3>3. new.b \in Nat /\ new.units \in Nat /\ (new.kind = "protocol" => new.units > 0)
        BY <3>2
      <3>4. entry' = [entry EXCEPT ![s] = new]
        BY <3>1 DEF BookProtocol
      <3> HIDE DEF new
      <3> QED
        BY <3>3, <3>4
    <2> QED
      BY <2>1, <2>2
  <1>2. PICK new : /\ entry' = [entry EXCEPT ![s] = new]
                   /\ new.b \in Nat /\ new.units \in Nat /\ (new.kind = "protocol" => new.units > 0)
    BY <1>1
  <1>3. \A x \in Slots : entry'[x] = IF x = s THEN new ELSE entry[x]
    BY <1>2 DEF SplitInv, Fn
  <1>4. budget' = budget /\ ~closed'
    BY DEF BookFee, BookProtocol
  <1> QED
    BY <1>2, <1>3, <1>4 DEF Amounts, LaneBFits

\* A claw is of an open epoch, and of no amount.
LEMMA ClawFits ==
  ASSUME SplitInv, Amounts, NEW s \in Slots, Claw(s)
  PROVE  Amounts' /\ LaneBFits'
  <1>1. \A x \in Slots : entry'[x] = IF x = s THEN [entry[s] EXCEPT !.clawed = TRUE] ELSE entry[x]
    BY DEF Claw, SplitInv, Fn
  <1>2. \A x \in Slots : /\ entry'[x].kind = entry[x].kind /\ entry'[x].b = entry[x].b
                         /\ entry'[x].units = entry[x].units
    BY <1>1 DEF SplitInv, Fn, Rec
  <1>3. budget' = budget /\ ~closed'
    BY DEF Claw
  <1> QED
    BY <1>2, <1>3 DEF Amounts, LaneBFits

\* A closed epoch's lane B is within the budget of that close, through vetoes,
\* claws and a budget that shrank (fitLaneB, fitProtocolB).
THEOREM LaneBWithinBudget == SplitSpec => []LaneBFits
  <1> DEFINE Inv == SplitInv /\ Amounts /\ LaneBFits
  <1>1. SplitInit => Inv
    <2> SUFFICES ASSUME SplitInit PROVE Inv
      OBVIOUS
    <2>1. PICK w0 : NoEntry = [kind |-> "none", w |-> w0, fee |-> 0, a |-> 0, t |-> 0, b |-> 0, units |-> 0, clawed |-> FALSE]
      BY NoneShape
    <2>2. Rec(NoEntry) /\ NoEntry.kind = "none" /\ NoEntry.b = 0 /\ NoEntry.units = 0
      BY <2>1 DEF Rec
    <2>3. entry = [s \in Slots |-> NoEntry] /\ \A s \in Slots : entry[s] = NoEntry
      BY DEF SplitInit
    <2>4. SplitInv
      BY <2>2, <2>3 DEF SplitInv, Fn, BoundsPerJob
    <2>5. Amounts
      BY <2>2, <2>3 DEF SplitInit, Amounts
    <2> QED
      BY <2>4, <2>5 DEF SplitInit, LaneBFits
  <1>2. Inv /\ [SplitNext]_splitVars => Inv'
    <2> SUFFICES ASSUME Inv, [SplitNext]_splitVars PROVE Inv'
      OBVIOUS
    <2>1. CASE \E s \in Slots, w \in Wallets, F \in Fees, ok \in BOOLEAN : BookFee(s, w, F, ok)
      BY <2>1, BooksKeep, BookingsFit
    <2>2. CASE \E s \in Slots, w \in Wallets, u \in Units : BookProtocol(s, w, u)
      BY <2>2, ProtocolKeeps, BookingsFit
    <2>3. CASE \E bud \in Budgets : Close(bud)
      BY <2>3, CloseKeeps, CloseFits
    <2>4. CASE \E s \in Slots : Claw(s)
      BY <2>4, ClawKeeps, ClawFits
    <2>5. CASE Reopen
      <3>1. entry' = entry /\ budget' = budget /\ ~closed'
        BY <2>5 DEF Reopen
      <3> QED
        BY <3>1 DEF SplitInv, Fn, Rec, BoundsPerJob, Amounts, LaneBFits
    <2>6. CASE UNCHANGED splitVars
      <3>1. entry' = entry /\ budget' = budget /\ closed' = closed
        BY <2>6 DEF splitVars
      <3>2. TotalB' = TotalB
        BY <3>1 DEF TotalB, LaneB, Pending
      <3> QED
        BY <3>1, <3>2 DEF SplitInv, Fn, Rec, BoundsPerJob, Amounts, LaneBFits
    <2> QED BY <2>1, <2>2, <2>3, <2>4, <2>5, <2>6 DEF SplitNext
  <1>3. Inv => LaneBFits
    OBVIOUS
  <1> QED BY <1>1, <1>2, <1>3, PTL DEF SplitSpec

-----------------------------------------------------------------------------
(* Functions that are defined by recursion over the naturals. *)

\* A non-empty set of naturals has a least element.
LEMMA NatLeast ==
  ASSUME NEW Bad, Bad \subseteq Nat, Bad # {}
  PROVE  \E n \in Bad : \A m \in Bad : n <= m
<1>1. PICK n \in Bad : \A m \in Bad : ~ (<<m, n>> \in OpToRel(<, Nat))
  BY NatLessThanWellFounded, WFMin
<1>2. \A m \in Bad : ~ (m < n)
  BY <1>1 DEF OpToRel
<1> QED
  BY <1>2

\* What holds of 0 and of the next of each natural it holds of, holds of all.
LEMMA NatSteps ==
  ASSUME NEW Good, 0 \in Good, \A n \in Nat : n \in Good => n + 1 \in Good
  PROVE  Nat \subseteq Good
<1> DEFINE Bad == {n \in Nat : n \notin Good}
<1> SUFFICES ASSUME Bad # {} PROVE FALSE
  OBVIOUS
<1>1. PICK n \in Bad : \A m \in Bad : n <= m
  BY NatLeast
<1>2. n \in Nat /\ n # 0 /\ n - 1 \in Nat /\ n - 1 \notin Bad /\ (n - 1) + 1 = n
  BY <1>1
<1> QED
  BY <1>2

\* f starts at c and follows g as far as n.
Follows(f, c, g, n) ==
  f \in [0..n -> Nat] /\ f[0] = c /\ \A m \in 0..n : m # n => f[m + 1] = g[<<m, f[m]>>]

\* Each next value follows from the last one, so there is such a function, as far as one likes, ...
LEMMA FollowsExist ==
  ASSUME NEW c \in Nat, NEW g, \A n \in Nat : \A x \in Nat : g[<<n, x>>] \in Nat
  PROVE  \A n \in Nat : \E f : Follows(f, c, g, n)
<1> DEFINE Good == {n \in Nat : \E f : Follows(f, c, g, n)}
<1>1. 0 \in Good
  <2>1. Follows([m \in 0..0 |-> c], c, g, 0)
    BY DEF Follows
  <2> QED
    BY <2>1
<1>2. ASSUME NEW n \in Nat, n \in Good PROVE n + 1 \in Good
  <2>1. PICK f : Follows(f, c, g, n)
    BY <1>2
  <2> DEFINE h == [m \in 0..(n + 1) |-> IF m = n + 1 THEN g[<<n, f[n]>>] ELSE f[m]]
  <2>2. f[n] \in Nat /\ g[<<n, f[n]>>] \in Nat
    BY <2>1 DEF Follows
  <2>3. h \in [0..(n + 1) -> Nat]
    BY <2>1, <2>2 DEF Follows
  <2>4. h[0] = c
    BY <2>1 DEF Follows
  <2>5. ASSUME NEW m \in 0..(n + 1), m # n + 1 PROVE h[m + 1] = g[<<m, h[m]>>]
    <3>1. m \in 0..n /\ h[m] = f[m] /\ m + 1 \in 0..(n + 1)
      BY <2>5
    <3>2. CASE m = n
      BY <3>1, <3>2
    <3>3. CASE m # n
      BY <2>1, <3>1, <3>3 DEF Follows
    <3> QED
      BY <3>2, <3>3
  <2>6. Follows(h, c, g, n + 1)
    BY <2>3, <2>4, <2>5 DEF Follows
  <2> QED
    BY <2>6
<1> HIDE DEF Good
<1>3. Nat \subseteq Good
  BY <1>1, <1>2, NatSteps
<1> QED
  BY <1>3 DEF Good

\* ... and two of them agree.
LEMMA FollowsAgree ==
  ASSUME NEW c, NEW g, NEW a \in Nat, NEW b \in Nat, NEW f, NEW h,
         Follows(f, c, g, a), Follows(h, c, g, b), a <= b
  PROVE  \A n \in 0..a : f[n] = h[n]
<1> DEFINE Good == {n \in Nat : n <= a => f[n] = h[n]}
<1>1. 0 \in Good
  BY DEF Follows
<1>2. ASSUME NEW n \in Nat, n \in Good PROVE n + 1 \in Good
  <2> SUFFICES ASSUME n + 1 <= a PROVE f[n + 1] = h[n + 1]
    OBVIOUS
  <2>1. n \in 0..a /\ n # a /\ n \in 0..b /\ n # b /\ f[n] = h[n]
    BY <1>2
  <2> QED
    BY <2>1 DEF Follows
<1> HIDE DEF Good
<1>3. Nat \subseteq Good
  BY <1>1, <1>2, NatSteps
<1> QED
  BY <1>3 DEF Good

\* A function on the naturals is given by where it starts and how each next value follows.
LEMMA NatRecursion ==
  ASSUME NEW c \in Nat, NEW g \in [Nat \X Nat -> Nat]
  PROVE  \E f \in [Nat -> Nat] : f[0] = c /\ \A n \in Nat : f[n + 1] = g[<<n, f[n]>>]
<1> DEFINE to(n) == CHOOSE f : Follows(f, c, g, n)
           f == [n \in Nat |-> to(n)[n]]
<1>1. \A n \in Nat : Follows(to(n), c, g, n)
  BY FollowsExist
<1> HIDE DEF to
<1>2. f \in [Nat -> Nat]
  BY <1>1 DEF Follows
<1>3. f[0] = c
  BY <1>1 DEF Follows
<1>4. ASSUME NEW n \in Nat PROVE f[n + 1] = g[<<n, f[n]>>]
  <2>1. to(n + 1)[n] = to(n)[n]
    BY <1>1, FollowsAgree
  <2>2. Follows(to(n + 1), c, g, n + 1) /\ n \in 0..(n + 1) /\ n # n + 1
    BY <1>1
  <2>3. to(n + 1)[n + 1] = g[<<n, to(n + 1)[n]>>]
    BY <2>2 DEF Follows
  <2> QED
    BY <2>1, <2>3
<1> QED
  BY <1>2, <1>3, <1>4

\* base >> n, one place at a time.
LEMMA HalvedSteps ==
  ASSUME NEW base \in Nat
  PROVE  /\ Mnt!Halved(base) \in [Nat -> Nat] /\ Mnt!Halved(base)[0] = base
         /\ \A n \in Nat : Mnt!Halved(base)[n + 1] = Mnt!Halved(base)[n] \div 2
<1> DEFINE g == [p \in Nat \X Nat |-> p[2] \div 2]
           F(f) == [n \in Nat |-> IF n = 0 THEN base ELSE f[n - 1] \div 2]
<1>0. \A n \in Nat, x \in Nat : g[<<n, x>>] = x \div 2 /\ g[<<n, x>>] \in Nat
  OBVIOUS
<1>1. PICK f \in [Nat -> Nat] : f[0] = base /\ \A n \in Nat : f[n + 1] = g[<<n, f[n]>>]
  <2>1. g \in [Nat \X Nat -> Nat]
    OBVIOUS
  <2> HIDE DEF g
  <2> QED
    BY <2>1, NatRecursion
<1>2. \A n \in Nat : f[n + 1] = f[n] \div 2
  BY <1>0, <1>1
<1>3. f = F(f)
  <2>1. ASSUME NEW n \in Nat PROVE f[n] = F(f)[n]
    <3>1. CASE n = 0
      BY <1>1, <3>1
    <3>2. CASE n # 0
      <4>1. n - 1 \in Nat /\ (n - 1) + 1 = n
        BY <3>2
      <4> QED
        BY <1>2, <3>2, <4>1
    <3> QED
      BY <3>1, <3>2
  <2> QED
    BY <1>1, <2>1
<1>4. Mnt!Halved(base) = F(Mnt!Halved(base))
  BY <1>3 DEF Mnt!Halved
<1>5. ASSUME NEW h, h = F(h) PROVE h[0] = base /\ \A n \in Nat : h[n + 1] = h[n] \div 2
  BY <1>5
<1> HIDE DEF F
<1>6. \A n \in Nat : Mnt!Halved(base)[n] \in Nat
  <2> DEFINE Good == {n \in Nat : Mnt!Halved(base)[n] \in Nat}
  <2>1. 0 \in Good /\ \A n \in Nat : n \in Good => n + 1 \in Good
    BY <1>4, <1>5
  <2> HIDE DEF Good
  <2>2. Nat \subseteq Good
    BY <2>1, NatSteps
  <2> QED
    BY <2>2 DEF Good
<1> QED
  BY <1>4, <1>5, <1>6 DEF F

-----------------------------------------------------------------------------
(* The emission. *)

\* Dividing keeps an order, ...
LEMMA DivKeepsOrder ==
  ASSUME NEW a \in Nat, NEW b \in Nat, NEW d \in Nat \ {0}, a <= b
  PROVE  a \div d \in Nat /\ a \div d <= b \div d
  OBVIOUS

\* ... and so does multiplying.
LEMMA TimesKeepsOrder ==
  ASSUME NEW a \in Nat, NEW b \in Nat, NEW c \in Nat, NEW d \in Nat, a <= b, c <= d
  PROVE  a * c \in Nat /\ b * d \in Nat /\ a * c <= b * d
<1>1. a * c \in Nat /\ a * d \in Nat /\ b * d \in Nat
  OBVIOUS
<1>2. a * c <= a * d
  <2>1. PICK e \in Nat : d = c + e
    BY d - c \in Nat
  <2>2. a * d = a * c + a * e /\ a * e \in Nat
    BY <2>1
  <2> QED
    BY <1>1, <2>2
<1>3. a * d <= b * d
  <2>1. PICK e \in Nat : b = a + e
    BY b - a \in Nat
  <2>2. b * d = a * d + e * d /\ e * d \in Nat
    BY <2>1
  <2> QED
    BY <1>1, <2>2
<1> QED
  BY <1>1, <1>2, <1>3

\* A part of a number is no more than the number.
LEMMA PartBelow ==
  ASSUME NEW x \in Nat, NEW a \in Nat, NEW d \in Nat \ {0}, a <= d
  PROVE  (x * a) \div d \in Nat /\ (x * a) \div d <= x
<1>1. x * a \in Nat /\ x * d \in Nat /\ x * a <= x * d
  BY TimesKeepsOrder
<1>2. (x * a) \div d \in Nat /\ (x * a) \div d <= (x * d) \div d
  BY <1>1, DivKeepsOrder
<1>3. (x * d) \div d = x
  OBVIOUS
<1> QED
  BY <1>2, <1>3

\* What follows a year's rate.
NextRate(prev) ==
  LET r == (prev * DECAY_NUM) \div DECAY_DEN
  IN IF prev = TERMINAL_RATE_BPS \/ r <= TERMINAL_RATE_BPS THEN TERMINAL_RATE_BPS ELSE r

\* What the assumption says of the constants.
LEMMA ScheduleNumbers ==
  /\ EmiSupply \in Nat /\ INITIAL_RATE_BPS \in Nat /\ TERMINAL_RATE_BPS \in Nat /\ DECAY_NUM \in Nat /\ BurnAmount \in Nat
  /\ EmiTime \in Nat /\ EmiYear \in Nat \ {0} /\ DECAY_DEN \in Nat \ {0} /\ DECAY_NUM < DECAY_DEN
  /\ TERMINAL_RATE_BPS <= INITIAL_RATE_BPS
BY ScheduleAssumption DEF Emi!EmissionAssumption

\* A rate falls, to the floor at most.
LEMMA NextRateFalls ==
  ASSUME NEW x \in Nat, x >= TERMINAL_RATE_BPS
  PROVE  NextRate(x) \in Nat /\ NextRate(x) >= TERMINAL_RATE_BPS /\ NextRate(x) <= x
<1>1. (x * DECAY_NUM) \div DECAY_DEN \in Nat /\ (x * DECAY_NUM) \div DECAY_DEN <= x
  BY ScheduleNumbers, PartBelow
<1> QED
  BY <1>1, ScheduleNumbers DEF NextRate

\* The loop of currentRateBps(), year by year.
LEMMA RatesSteps ==
  /\ Emi!Rates[0] = INITIAL_RATE_BPS
  /\ \A n \in Nat : Emi!Rates[n + 1] = NextRate(Emi!Rates[n])
<1> DEFINE next(x) == IF x >= TERMINAL_RATE_BPS THEN NextRate(x) ELSE TERMINAL_RATE_BPS
           g == [p \in Nat \X Nat |-> next(p[2])]
           F(f) == [n \in Nat |-> IF n = 0 THEN INITIAL_RATE_BPS ELSE NextRate(f[n - 1])]
<1>1. \A x \in Nat : next(x) \in Nat
  BY NextRateFalls, ScheduleNumbers
<1> HIDE DEF next
<1>2. g \in [Nat \X Nat -> Nat] /\ \A n \in Nat, x \in Nat : g[<<n, x>>] = next(x)
  BY <1>1
<1>3. PICK f \in [Nat -> Nat] : f[0] = INITIAL_RATE_BPS /\ \A n \in Nat : f[n + 1] = g[<<n, f[n]>>]
  <2>1. g \in [Nat \X Nat -> Nat] /\ INITIAL_RATE_BPS \in Nat
    BY <1>2, ScheduleNumbers
  <2> HIDE DEF g
  <2> QED
    BY <2>1, NatRecursion
<1>4. \A n \in Nat : f[n + 1] = next(f[n])
  BY <1>2, <1>3
<1>5. \A n \in Nat : f[n] >= TERMINAL_RATE_BPS
  <2> DEFINE Good == {n \in Nat : f[n] >= TERMINAL_RATE_BPS}
  <2>1. 0 \in Good
    BY <1>3, ScheduleNumbers
  <2>2. ASSUME NEW n \in Nat, n \in Good PROVE n + 1 \in Good
    BY <1>3, <1>4, <2>2, NextRateFalls DEF next
  <2> HIDE DEF Good
  <2>3. Nat \subseteq Good
    BY <2>1, <2>2, NatSteps
  <2> QED
    BY <2>3 DEF Good
<1>6. \A n \in Nat : f[n + 1] = NextRate(f[n])
  BY <1>4, <1>5 DEF next
<1>7. f = F(f)
  <2>1. ASSUME NEW n \in Nat PROVE f[n] = F(f)[n]
    <3>1. CASE n = 0
      BY <1>3, <3>1
    <3>2. CASE n # 0
      <4>1. n - 1 \in Nat /\ (n - 1) + 1 = n
        BY <3>2
      <4> QED
        BY <1>6, <3>2, <4>1
    <3> QED
      BY <3>1, <3>2
  <2> QED
    BY <1>3, <2>1
<1>8. Emi!Rates = F(Emi!Rates)
  BY <1>7 DEF Emi!Rates, NextRate
<1>9. ASSUME NEW h, h = F(h) PROVE h[0] = INITIAL_RATE_BPS /\ \A n \in Nat : h[n + 1] = NextRate(h[n])
  BY <1>9
<1> HIDE DEF F
<1> QED
  BY <1>8, <1>9

\* The rate is a natural number, falls from year to year and keeps the floor.
LEMMA RatesFall ==
  /\ \A n \in Nat : Emi!Rates[n] \in Nat /\ Emi!Rates[n] >= TERMINAL_RATE_BPS
  /\ \A m, n \in Nat : m <= n => Emi!Rates[n] <= Emi!Rates[m]
<1>1. \A n \in Nat : Emi!Rates[n] \in Nat /\ Emi!Rates[n] >= TERMINAL_RATE_BPS
  <2> DEFINE Good == {n \in Nat : Emi!Rates[n] \in Nat /\ Emi!Rates[n] >= TERMINAL_RATE_BPS}
  <2>1. 0 \in Good
    BY RatesSteps, ScheduleNumbers
  <2>2. ASSUME NEW n \in Nat, n \in Good PROVE n + 1 \in Good
    BY RatesSteps, <2>2, NextRateFalls
  <2> HIDE DEF Good
  <2>3. Nat \subseteq Good
    BY <2>1, <2>2, NatSteps
  <2> QED
    BY <2>3 DEF Good
<1>2. \A n \in Nat : Emi!Rates[n + 1] <= Emi!Rates[n]
  BY <1>1, RatesSteps, NextRateFalls
<1>3. ASSUME NEW m \in Nat PROVE \A k \in Nat : Emi!Rates[m + k] <= Emi!Rates[m]
  <2> DEFINE Good == {k \in Nat : Emi!Rates[m + k] <= Emi!Rates[m]}
  <2>1. 0 \in Good
    BY <1>1
  <2>2. ASSUME NEW k \in Nat, k \in Good PROVE k + 1 \in Good
    <3>1. m + k \in Nat /\ m + (k + 1) = (m + k) + 1 /\ (m + k) + 1 \in Nat
      OBVIOUS
    <3>2. Emi!Rates[(m + k) + 1] <= Emi!Rates[m + k] /\ Emi!Rates[m + k] <= Emi!Rates[m]
      BY <1>2, <2>2, <3>1
    <3>3. Emi!Rates[(m + k) + 1] \in Nat /\ Emi!Rates[m + k] \in Nat /\ Emi!Rates[m] \in Nat
      BY <1>1, <3>1
    <3> QED
      BY <3>1, <3>2, <3>3
  <2> HIDE DEF Good
  <2>3. Nat \subseteq Good
    BY <2>1, <2>2, NatSteps
  <2> QED
    BY <2>3 DEF Good
<1>4. ASSUME NEW m \in Nat, NEW n \in Nat, m <= n PROVE Emi!Rates[n] <= Emi!Rates[m]
  <2>1. n - m \in Nat /\ m + (n - m) = n
    BY <1>4
  <2> QED
    BY <1>3, <2>1
<1> QED
  BY <1>1, <1>4

\* The rate at a time, likewise.
LEMMA RateFalls ==
  ASSUME NEW t \in Nat, NEW u \in Nat, t <= u
  PROVE  /\ Emi!currentRateBps(t) \in Nat /\ Emi!currentRateBps(t) >= TERMINAL_RATE_BPS
         /\ Emi!currentRateBps(u) \in Nat /\ Emi!currentRateBps(u) <= Emi!currentRateBps(t)
<1>1. t \div EmiYear \in Nat /\ u \div EmiYear \in Nat /\ t \div EmiYear <= u \div EmiYear
  BY DivKeepsOrder, ScheduleNumbers
<1> QED
  BY <1>1, RatesFall DEF Emi!currentRateBps

\* What an epoch at time t adds to a supply s.
PerEpoch(s, t) == ((s * Emi!currentRateBps(t)) \div 10000) \div EmiYear

\* A smaller supply later on adds no more.
LEMMA PerEpochFalls ==
  ASSUME NEW s \in Nat, NEW r \in Nat, NEW t \in Nat, NEW u \in Nat, s <= r, t <= u
  PROVE  PerEpoch(s, u) \in Nat /\ PerEpoch(r, t) \in Nat /\ PerEpoch(s, u) <= PerEpoch(r, t)
<1> DEFINE a == s * Emi!currentRateBps(u)
           b == r * Emi!currentRateBps(t)
<1>1. a \in Nat /\ b \in Nat /\ a <= b
  BY RateFalls, TimesKeepsOrder
<1> HIDE DEF a, b
<1>2. a \div 10000 \in Nat /\ b \div 10000 \in Nat /\ a \div 10000 <= b \div 10000
  BY <1>1, DivKeepsOrder
<1>3. (a \div 10000) \div EmiYear \in Nat /\ (b \div 10000) \div EmiYear \in Nat
      /\ (a \div 10000) \div EmiYear <= (b \div 10000) \div EmiYear
  BY <1>2, DivKeepsOrder, ScheduleNumbers
<1> QED
  BY <1>3 DEF PerEpoch, a, b

\* What an epoch adds is a natural number.
LEMMA PerEpochNat == \A s, t \in Nat : PerEpoch(s, t) \in Nat
BY PerEpochFalls

\* The prompt schedule, epoch by epoch.
LEMMA PromptSteps ==
  /\ Emi!Prompt[0] = EmiSupply
  /\ \A n \in Nat : Emi!Prompt[n] \in Nat /\ Emi!Prompt[n + 1] = Emi!Prompt[n] + PerEpoch(Emi!Prompt[n], n) + 1
<1> DEFINE g == [p \in Nat \X Nat |-> p[2] + PerEpoch(p[2], p[1]) + 1]
           F(f) == [n \in Nat |-> IF n = 0 THEN EmiSupply ELSE f[n - 1] + PerEpoch(f[n - 1], n - 1) + 1]
<1>1. \A n \in Nat, x \in Nat : PerEpoch(x, n) \in Nat
  BY PerEpochNat
<1>2. g \in [Nat \X Nat -> Nat]
  <2>1. ASSUME NEW p \in Nat \X Nat PROVE p[2] + PerEpoch(p[2], p[1]) + 1 \in Nat
    <3>1. p[1] \in Nat /\ p[2] \in Nat
      OBVIOUS
    <3>2. PerEpoch(p[2], p[1]) \in Nat
      BY <1>1, <3>1
    <3> QED
      BY <3>1, <3>2
  <2> QED
    BY <2>1
<1>3. \A n \in Nat, x \in Nat : g[<<n, x>>] = x + PerEpoch(x, n) + 1
  OBVIOUS
<1>4. PICK f \in [Nat -> Nat] : f[0] = EmiSupply /\ \A n \in Nat : f[n + 1] = g[<<n, f[n]>>]
  <2>1. EmiSupply \in Nat
    BY ScheduleNumbers
  <2> HIDE DEF g
  <2> QED
    BY <1>2, <2>1, NatRecursion
<1>5. \A n \in Nat : f[n + 1] = f[n] + PerEpoch(f[n], n) + 1
  BY <1>3, <1>4
<1>6. f = F(f)
  <2>1. ASSUME NEW n \in Nat PROVE f[n] = F(f)[n]
    <3>1. CASE n = 0
      BY <1>4, <3>1
    <3>2. CASE n # 0
      <4>1. n - 1 \in Nat /\ (n - 1) + 1 = n
        BY <3>2
      <4> QED
        BY <1>5, <3>2, <4>1
    <3> QED
      BY <3>1, <3>2
  <2> QED
    BY <1>4, <2>1
<1>7. Emi!Prompt = F(Emi!Prompt)
  BY <1>6 DEF Emi!Prompt, PerEpoch
<1>8. ASSUME NEW h, h = F(h)
      PROVE  h[0] = EmiSupply /\ \A n \in Nat : h[n + 1] = h[n] + PerEpoch(h[n], n) + 1
  BY <1>8
<1> HIDE DEF F
<1>9. Emi!Prompt[0] = EmiSupply /\ \A n \in Nat : Emi!Prompt[n + 1] = Emi!Prompt[n] + PerEpoch(Emi!Prompt[n], n) + 1
  BY <1>7, <1>8
<1>10. \A n \in Nat : Emi!Prompt[n] \in Nat
  <2> DEFINE Good == {n \in Nat : Emi!Prompt[n] \in Nat}
  <2>1. 0 \in Good
    BY <1>9, ScheduleNumbers
  <2>2. ASSUME NEW n \in Nat, n \in Good PROVE n + 1 \in Good
    <3>1. Emi!Prompt[n] \in Nat /\ PerEpoch(Emi!Prompt[n], n) \in Nat
      BY <1>1, <2>2
    <3> QED
      BY <1>9, <3>1
  <2> HIDE DEF Good
  <2>3. Nat \subseteq Good
    BY <2>1, <2>2, NatSteps
  <2> QED
    BY <2>3 DEF Good
<1> QED
  BY <1>9, <1>10

\* What is emitted if all epochs up to now are emitted now, rounded up epoch by epoch.
Owing == (emi_now - last) * (PerEpoch(supply, emi_now) + 1)

EmiInv ==
  /\ supply \in Nat /\ total \in Nat /\ emi_now \in 0..EmiTime /\ last \in 0..emi_now
  /\ supply + Owing <= Emi!Prompt[emi_now]
  /\ EmiSupply + total + Owing <= Emi!Prompt[emi_now]

\* What is owing and the schedule's prompt supply are naturals.
LEMMA OwingNat ==
  ASSUME EmiInv
  PROVE  PerEpoch(supply, emi_now) \in Nat /\ emi_now \in Nat /\ emi_now - last \in Nat /\ Owing \in Nat
         /\ Emi!Prompt[emi_now] \in Nat
<1>1. PerEpoch(supply, emi_now) \in Nat /\ emi_now \in Nat /\ emi_now - last \in Nat
  BY PerEpochFalls, ScheduleNumbers DEF EmiInv
<1>2. (emi_now - last) * (PerEpoch(supply, emi_now) + 1) \in Nat
  BY <1>1
<1> QED
  BY <1>1, <1>2, PromptSteps DEF Owing

\* At genesis nothing is owing.
LEMMA EmiInit == Emi!Init => EmiInv
<1> SUFFICES ASSUME Emi!Init PROVE EmiInv
  OBVIOUS
<1>1. PerEpoch(supply, emi_now) \in Nat
  BY PerEpochFalls, ScheduleNumbers DEF Emi!Init
<1>2. Owing = 0
  BY <1>1 DEF Emi!Init, Owing
<1> QED
  BY <1>2, ScheduleNumbers, PromptSteps DEF Emi!Init, EmiInv

\* The gap is emitted at once, at the present rate and supply: no more than was owing.
LEMMA EmiEmits == ASSUME EmiInv, Emi!emit_ PROVE EmiInv'
<1> DEFINE a == (supply * Emi!currentRateBps(emi_now)) \div 10000
           q == PerEpoch(supply, emi_now)
           g == emi_now - last
<1>1. a \in Nat /\ q = a \div EmiYear /\ q \in Nat /\ g \in Nat /\ emi_now \in Nat
  <2>1. supply \in Nat /\ emi_now \in Nat /\ Emi!currentRateBps(emi_now) \in Nat
    BY OwingNat, RateFalls DEF EmiInv
  <2>2. supply * Emi!currentRateBps(emi_now) \in Nat
    BY <2>1
  <2> QED
    BY <2>1, <2>2, OwingNat, DivKeepsOrder DEF PerEpoch
<1>2. Emi!pendingEmission = (a * g) \div EmiYear
  BY DEF Emi!pendingEmission
<1> HIDE DEF a, q, g
<1>3. a <= EmiYear * (q + 1) /\ EmiYear * (q + 1) \in Nat
  BY <1>1, ScheduleNumbers
<1>4. (a * g) \div EmiYear \in Nat /\ (a * g) \div EmiYear <= g * (q + 1) /\ g * (q + 1) \in Nat
  <2>1. a * g \in Nat /\ a * g <= (EmiYear * (q + 1)) * g /\ (EmiYear * (q + 1)) * g \in Nat
    BY <1>1, <1>3, TimesKeepsOrder
  <2>2. (EmiYear * (q + 1)) * g = (g * (q + 1)) * EmiYear /\ g * (q + 1) \in Nat
    BY <1>1, ScheduleNumbers
  <2>3. ((g * (q + 1)) * EmiYear) \div EmiYear = g * (q + 1)
    BY <2>2, ScheduleNumbers
  <2> QED
    BY <2>1, <2>2, <2>3, DivKeepsOrder, ScheduleNumbers
<1>5. Owing = g * (q + 1)
  BY DEF Owing, g, q
<1>6. Owing' = 0
  <2>1. supply' \in Nat /\ emi_now' = emi_now /\ last' = emi_now
    BY <1>2, <1>4, OwingNat DEF Emi!emit_, Emi!LastAfter, EmiInv
  <2>2. PerEpoch(supply', emi_now) \in Nat
    BY <2>1, <1>1, PerEpochNat
  <2> QED
    BY <2>1, <2>2, <1>1 DEF Owing
<1>7. /\ emi_now' = emi_now /\ last' = emi_now
      /\ supply' = supply + (a * g) \div EmiYear /\ total' = total + (a * g) \div EmiYear
  BY <1>2 DEF Emi!emit_, Emi!LastAfter
<1>8. (a * g) \div EmiYear <= Owing
  BY <1>4, <1>5
<1>9. /\ supply \in Nat /\ total \in Nat /\ supply + Owing <= Emi!Prompt[emi_now]
      /\ EmiSupply + total + Owing <= Emi!Prompt[emi_now] /\ emi_now \in 0..EmiTime
  BY DEF EmiInv
<1> DEFINE x == (a * g) \div EmiYear
<1> HIDE DEF x
<1>10. /\ supply' \in Nat /\ total' \in Nat /\ supply' + Owing' <= Emi!Prompt[emi_now]
       /\ EmiSupply + total' + Owing' <= Emi!Prompt[emi_now]
  <2>1. x \in Nat /\ x <= Owing /\ supply' = supply + x /\ total' = total + x
    BY <1>4, <1>7, <1>8 DEF x
  <2> QED
    BY <2>1, <1>6, <1>9, OwingNat, ScheduleNumbers
<1> QED
  BY <1>1, <1>7, <1>9, <1>10 DEF EmiInv

\* Burning lowers what is owing.
LEMMA EmiBurns == ASSUME EmiInv, Emi!burn PROVE EmiInv'
<1>1. supply' \in Nat /\ supply' <= supply /\ UNCHANGED <<emi_now, last, total>>
  BY ScheduleNumbers DEF EmiInv, Emi!burn
<1>2. PerEpoch(supply', emi_now) \in Nat /\ PerEpoch(supply', emi_now) <= PerEpoch(supply, emi_now)
  BY <1>1, OwingNat, PerEpochFalls DEF EmiInv
<1>3. Owing' \in Nat /\ Owing' <= Owing
  <2>1. (emi_now - last) * (PerEpoch(supply', emi_now) + 1) \in Nat
        /\ (emi_now - last) * (PerEpoch(supply', emi_now) + 1) <= (emi_now - last) * (PerEpoch(supply, emi_now) + 1)
    BY <1>2, OwingNat, TimesKeepsOrder
  <2> QED
    BY <1>1, <2>1 DEF Owing
<1>4. supply' + Owing' <= Emi!Prompt[emi_now] /\ EmiSupply + total + Owing' <= Emi!Prompt[emi_now]
  <2>1. /\ supply \in Nat /\ total \in Nat /\ supply + Owing <= Emi!Prompt[emi_now]
        /\ EmiSupply + total + Owing <= Emi!Prompt[emi_now]
    BY DEF EmiInv
  <2> QED
    BY <1>1, <1>3, <2>1, OwingNat, ScheduleNumbers
<1> QED
  BY <1>1, <1>4 DEF EmiInv

\* An epoch more is owing, of what the prompt schedule has by then.
LEMMA EmiTicks == ASSUME EmiInv, Emi!Tick PROVE EmiInv'
<1> DEFINE q == PerEpoch(supply, emi_now)
           r == PerEpoch(supply, emi_now + 1)
           s == PerEpoch(Emi!Prompt[emi_now], emi_now)
           g == emi_now - last
<1>1. /\ emi_now' = emi_now + 1 /\ UNCHANGED <<supply, total, last>> /\ emi_now + 1 \in 0..EmiTime /\ supply \in Nat
      /\ emi_now \in Nat /\ emi_now + 1 \in Nat
  BY ScheduleNumbers DEF EmiInv, Emi!Tick
<1>2. supply <= Emi!Prompt[emi_now]
  BY <1>1, OwingNat DEF EmiInv
<1>3. q \in Nat /\ r \in Nat /\ s \in Nat /\ r <= q /\ q <= s
  <2>1. emi_now <= emi_now + 1 /\ supply <= supply /\ emi_now <= emi_now /\ Emi!Prompt[emi_now] \in Nat
    BY <1>1, OwingNat
  <2>2. PerEpoch(supply, emi_now + 1) \in Nat /\ PerEpoch(supply, emi_now + 1) <= PerEpoch(supply, emi_now)
    BY <1>1, <2>1, PerEpochFalls
  <2>3. PerEpoch(supply, emi_now) <= PerEpoch(Emi!Prompt[emi_now], emi_now)
        /\ PerEpoch(Emi!Prompt[emi_now], emi_now) \in Nat
    BY <1>1, <1>2, <2>1, PerEpochFalls
  <2> QED
    BY <2>2, <2>3, OwingNat
<1>4. Owing' = (g + 1) * (r + 1) /\ Owing = g * (q + 1) /\ g \in Nat
  <2>1. emi_now' - last' = g + 1
    BY <1>1, OwingNat DEF EmiInv
  <2> QED
    BY <1>1, <2>1, OwingNat DEF Owing
<1>5. Emi!Prompt[emi_now'] = Emi!Prompt[emi_now] + s + 1
  BY <1>1, PromptSteps
<1> HIDE DEF q, r, s, g
<1>6. (g + 1) * (r + 1) \in Nat /\ (g + 1) * (r + 1) <= g * (q + 1) + q + 1
  <2>1. (g + 1) * (r + 1) \in Nat /\ (g + 1) * (r + 1) <= (g + 1) * (q + 1)
    BY <1>3, <1>4, TimesKeepsOrder
  <2>2. (g + 1) * (q + 1) = g * (q + 1) + q + 1
    BY <1>3, <1>4
  <2> QED
    BY <2>1, <2>2
<1>7. supply + Owing' <= Emi!Prompt[emi_now'] /\ EmiSupply + total + Owing' <= Emi!Prompt[emi_now']
  <2>1. /\ supply \in Nat /\ total \in Nat /\ supply + Owing <= Emi!Prompt[emi_now]
        /\ EmiSupply + total + Owing <= Emi!Prompt[emi_now]
    BY DEF EmiInv
  <2>2. Owing' \in Nat /\ Owing' <= Owing + s + 1
    BY <1>3, <1>4, <1>6, OwingNat
  <2> QED
    BY <1>3, <1>5, <2>1, <2>2, OwingNat, ScheduleNumbers
<1> QED
  BY <1>1, <1>7 DEF EmiInv

\* The emission controller's steps.
LEMMA EmiSteps == ASSUME EmiInv, [Emi!Next]_emiVars PROVE EmiInv'
<1>1. CASE UNCHANGED emiVars
  BY <1>1 DEF emiVars, EmiInv, Owing, PerEpoch, Emi!currentRateBps
<1> QED
  BY <1>1, EmiEmits, EmiBurns, EmiTicks DEF Emi!Next

\* What the emission controller promises follows.
LEMMA EmiSound == EmiInv => Emi!TypeOK /\ Emi!BoundedBySchedule /\ Emi!PermanentTail
<1> SUFFICES ASSUME EmiInv PROVE Emi!TypeOK /\ Emi!BoundedBySchedule /\ Emi!PermanentTail
  OBVIOUS
<1>1. Emi!TypeOK
  BY DEF EmiInv, Emi!TypeOK
<1>2. Emi!BoundedBySchedule
  BY OwingNat, ScheduleNumbers DEF EmiInv, Emi!BoundedBySchedule
<1>3. Emi!PermanentTail
  BY OwingNat, RateFalls DEF Emi!PermanentTail
<1> QED
  BY <1>1, <1>2, <1>3

-----------------------------------------------------------------------------
(* The registries: lists beside their mappings. *)

\* What swapping with the last entry and popping leaves: each place holds what it held, but the one swapped.
LEMMA SwapPlaces ==
  ASSUME NEW S, NEW s \in Seq(S), NEW k \in 1..Len(s)
  PROVE  LET t == Reg!SwapRemove(s, k)
         IN /\ t \in Seq(S) /\ Len(t) = Len(s) - 1
            /\ \A j \in 1..(Len(s) - 1) : t[j] = IF j = k THEN s[Len(s)] ELSE s[j]
<1> DEFINE r == [s EXCEPT ![k] = s[Len(s)]]
           n == Len(s)
<1>1. n \in Nat /\ n >= 1 /\ s[n] \in S
  OBVIOUS
<1>2. r \in Seq(S) /\ Len(r) = n /\ \A j \in 1..n : r[j] = IF j = k THEN s[n] ELSE s[j]
  BY <1>1, ExceptSeq
<1> HIDE DEF r
<1>3. \A j \in 1..(n - 1) : r[j] \in S
  BY <1>1, <1>2
<1>4. /\ SubSeq(r, 1, n - 1) \in Seq(S) /\ Len(SubSeq(r, 1, n - 1)) = n - 1
      /\ \A j \in 1..(n - 1) : SubSeq(r, 1, n - 1)[j] = r[j]
  <2>1. 1 \in Int /\ n - 1 \in Int
    BY <1>1
  <2>2. PICK u : u = SubSeq(r, 1, n - 1)
    OBVIOUS
  <2>3. /\ u \in Seq(S)
        /\ Len(u) = IF 1 <= n - 1 THEN n - 1 - 1 + 1 ELSE 0
        /\ \A j \in 1..(n - 1 - 1 + 1) : u[j] = r[1 + j - 1]
    BY <1>3, <2>1, <2>2, SubSeqProperties
  <2>4. (IF 1 <= n - 1 THEN n - 1 - 1 + 1 ELSE 0) = n - 1 /\ n - 1 - 1 + 1 = n - 1
        /\ \A j \in 1..(n - 1) : 1 + j - 1 = j
    <3>1. \A m \in Nat : m >= 1 =>
            (IF 1 <= m - 1 THEN m - 1 - 1 + 1 ELSE 0) = m - 1 /\ m - 1 - 1 + 1 = m - 1
              /\ \A j \in 1..(m - 1) : 1 + j - 1 = j
      OBVIOUS
    <3> HIDE DEF n
    <3> QED
      BY <1>1, <3>1
  <2>5. \A j \in 1..(n - 1) : u[j] = r[j]
    BY <2>3, <2>4
  <2> QED
    BY <2>2, <2>3, <2>4, <2>5
<1>5. Reg!SwapRemove(s, k) = SubSeq(r, 1, n - 1)
  BY <1>2 DEF Reg!SwapRemove, Reg!Front, Reg!Last, r
<1> QED
  BY <1>1, <1>2, <1>4, <1>5

\* In a list without repetition that removes the entry and nothing else.
LEMMA SwapRemoves ==
  ASSUME NEW S, NEW s \in Seq(S), NEW k \in 1..Len(s), Reg!IsInjective(s)
  PROVE  LET t == Reg!SwapRemove(s, k)
         IN t \in Seq(S) /\ Reg!IsInjective(t) /\ Reg!ToSet(t) = Reg!ToSet(s) \ {s[k]}
<1> DEFINE t == Reg!SwapRemove(s, k)
           n == Len(s)
<1>0. n \in Nat /\ k \in 1..n
  OBVIOUS
<1> HIDE DEF t
<1>1. /\ t \in Seq(S) /\ Len(t) = n - 1
      /\ \A j \in 1..(n - 1) : t[j] = IF j = k THEN s[n] ELSE s[j]
  BY SwapPlaces DEF t
<1>2. DOMAIN t = 1..(n - 1) /\ DOMAIN s = 1..n
  BY <1>0, <1>1
<1>3. \A i, j \in 1..n : s[i] = s[j] => i = j
  BY <1>2 DEF Reg!IsInjective
<1>4. Reg!IsInjective(t)
  BY <1>0, <1>1, <1>2, <1>3 DEF Reg!IsInjective
<1>5. ASSUME NEW x \in Reg!ToSet(t) PROVE x \in Reg!ToSet(s) \ {s[k]}
  <2>1. PICK j \in 1..(n - 1) : t[j] = x
    BY <1>2 DEF Reg!ToSet
  <2>2. PICK i \in 1..n : i # k /\ s[i] = x
    BY <1>0, <1>1, <2>1
  <2> QED
    BY <1>0, <1>1, <1>2, <1>3, <2>2 DEF Reg!ToSet
<1>6. ASSUME NEW x \in Reg!ToSet(s) \ {s[k]} PROVE x \in Reg!ToSet(t)
  <2>1. PICK i \in 1..n : s[i] = x /\ i # k
    BY <1>2 DEF Reg!ToSet
  <2>2. CASE i = n
    <3>1. k \in 1..(n - 1) /\ t[k] = x
      BY <1>0, <1>1, <2>1, <2>2
    <3> QED
      BY <1>2, <3>1 DEF Reg!ToSet
  <2>3. CASE i # n
    <3>1. i \in 1..(n - 1) /\ t[i] = x
      BY <1>0, <1>1, <2>1, <2>3
    <3> QED
      BY <1>2, <3>1 DEF Reg!ToSet
  <2> QED
    BY <2>2, <2>3
<1> QED
  BY <1>1, <1>4, <1>5, <1>6 DEF t

\* What appending does to a list without repetition.
LEMMA AppendsOne ==
  ASSUME NEW S, NEW s \in Seq(S), NEW x \in S, Reg!IsInjective(s), x \notin Reg!ToSet(s)
  PROVE  LET t == Append(s, x)
         IN t \in Seq(S) /\ Reg!IsInjective(t) /\ Reg!ToSet(t) = Reg!ToSet(s) \cup {x}
<1> DEFINE t == Append(s, x)
           n == Len(s)
<1>1. /\ t \in Seq(S) /\ Len(t) = n + 1 /\ n \in Nat /\ t[n + 1] = x
      /\ \A j \in 1..n : t[j] = s[j]
  BY AppendProperties
<1> HIDE DEF t
<1>2. DOMAIN t = 1..(n + 1) /\ DOMAIN s = 1..n
  BY <1>1
<1>3. \A i, j \in 1..n : s[i] = s[j] => i = j
  BY <1>2 DEF Reg!IsInjective
<1>4. \A i \in 1..n : s[i] # x
  BY <1>2 DEF Reg!ToSet
<1>5. \A i \in 1..(n + 1) : i = n + 1 \/ i \in 1..n
  BY <1>1
<1>6. Reg!IsInjective(t)
  BY <1>1, <1>2, <1>3, <1>4, <1>5 DEF Reg!IsInjective
<1>7. ASSUME NEW y \in Reg!ToSet(t) PROVE y \in Reg!ToSet(s) \cup {x}
  <2>1. PICK j \in 1..(n + 1) : t[j] = y
    BY <1>2 DEF Reg!ToSet
  <2> QED
    BY <1>1, <1>2, <1>5, <2>1 DEF Reg!ToSet
<1>8. ASSUME NEW y \in Reg!ToSet(s) \cup {x} PROVE y \in Reg!ToSet(t)
  <2>1. CASE y = x
    <3>1. n + 1 \in 1..(n + 1)
      BY <1>1
    <3> QED
      BY <1>1, <1>2, <2>1, <3>1 DEF Reg!ToSet
  <2>2. CASE y \in Reg!ToSet(s)
    <3>1. PICK j \in 1..n : s[j] = y
      BY <1>2, <2>2 DEF Reg!ToSet
    <3>2. j \in 1..(n + 1) /\ t[j] = y
      BY <1>1, <3>1
    <3> QED
      BY <1>2, <3>2 DEF Reg!ToSet
  <2> QED
    BY <2>1, <2>2
<1> QED
  BY <1>1, <1>6, <1>7, <1>8 DEF t

Works == [owner : Accounts \cup {None}, active : BOOLEAN, at : Accounts \cup {None}]
Exists(i) == work[i].owner # None

\* Nothing is registered under an id that was not given out.
RegInv ==
  /\ nextId \in 0..MaxWorkloads
  /\ work \in [Reg!Ids -> Works] /\ \A i \in Reg!Ids : Exists(i) => i < nextId
  /\ list \in Seq(Reg!Ids) /\ index \in [Reg!Ids -> Nat] /\ owned \in [Accounts -> Seq(Reg!Ids)]
  /\ Reg!ListExact /\ Reg!OwnersExact

\* What the registries' constants are.
LEMMA RegNumbers == MaxWorkloads \in Nat /\ None \notin Accounts
BY ListsAssumption DEF Reg!RegistriesAssumption

\* The registries start empty.
LEMMA RegInit == Reg!Init => RegInv
<1> SUFFICES ASSUME Reg!Init PROVE RegInv
  OBVIOUS
<1>1. Reg!NoWork \in Works /\ Reg!NoWork.owner = None
  BY DEF Reg!NoWork, Works
<1>2. /\ nextId \in 0..MaxWorkloads /\ work \in [Reg!Ids -> Works] /\ (\A i \in Reg!Ids : ~ Exists(i))
      /\ list = <<>> /\ index \in [Reg!Ids -> Nat] /\ owned \in [Accounts -> Seq(Reg!Ids)]
      /\ \A a \in Accounts : owned[a] = <<>>
  BY <1>1, RegNumbers DEF Reg!Init, Exists
<1>3. Reg!ToSet(<<>>) = {} /\ Reg!IsInjective(<<>>)
  BY DEF Reg!ToSet, Reg!IsInjective
<1>4. Reg!ListExact
  BY <1>2, <1>3 DEF Reg!ListExact, Exists
<1>5. Reg!OwnersExact
  BY <1>2, <1>3, RegNumbers DEF Reg!OwnersExact, Exists
<1> QED
  BY <1>2, <1>4, <1>5 DEF RegInv

\* The list has no repetition: its index tells each place.
LEMMA ListInjective ==
  ASSUME RegInv
  PROVE  Reg!IsInjective(list) /\ DOMAIN list = 1..Len(list) /\ Len(list) \in Nat
BY DEF RegInv, Reg!ListExact, Reg!IsInjective

\* registerWorkload(): the new number is on the list, and on its owner's.
LEMMA Registers == ASSUME RegInv, NEW a \in Accounts, Reg!registerWorkload(a) PROVE RegInv'
<1> DEFINE new == [owner |-> a, active |-> TRUE, at |-> None]
<1>1. /\ nextId < MaxWorkloads /\ work' = [work EXCEPT ![nextId] = new]
      /\ owned' = [owned EXCEPT ![a] = Append(owned[a], nextId)] /\ list' = Append(list, nextId)
      /\ index' = [index EXCEPT ![nextId] = Len(list) + 1] /\ nextId' = nextId + 1
  BY DEF Reg!registerWorkload
<1>2. /\ nextId \in Reg!Ids /\ new \in Works /\ nextId + 1 \in 0..MaxWorkloads /\ ~ Exists(nextId) /\ new.owner = a
      /\ \A i \in Reg!Ids : i \in Nat
  BY <1>1, RegNumbers DEF RegInv, Reg!Ids, Works
<1>3. work' \in [Reg!Ids -> Works] /\ \A i \in Reg!Ids : work'[i] = IF i = nextId THEN new ELSE work[i]
  BY <1>1, <1>2 DEF RegInv
<1>4. \A i \in Reg!Ids : work'[i].owner = IF i = nextId THEN a ELSE work[i].owner
  BY <1>2, <1>3
<1>5. \A i \in Reg!Ids : Exists(i)' => i < nextId'
  BY <1>1, <1>2, <1>4 DEF RegInv, Exists
<1>6. nextId \notin Reg!ToSet(list) /\ \A b \in Accounts : nextId \notin Reg!ToSet(owned[b])
  BY <1>2, RegNumbers DEF RegInv, Reg!ListExact, Reg!OwnersExact, Exists
<1>7. list' \in Seq(Reg!Ids) /\ Reg!ToSet(list') = Reg!ToSet(list) \cup {nextId}
  BY <1>1, <1>2, <1>6, ListInjective, AppendsOne DEF RegInv
<1>8. Reg!ListExact'
  <2>1. Reg!ToSet(list') = {i \in Reg!Ids : work'[i].owner # None}
    BY <1>2, <1>4, <1>7, RegNumbers DEF RegInv, Reg!ListExact
  <2>2. ASSUME NEW k \in DOMAIN list' PROVE index'[list'[k]] = k
    <3>1. /\ Len(list) \in Nat /\ Len(list') = Len(list) + 1 /\ list'[Len(list) + 1] = nextId
          /\ \A j \in 1..Len(list) : list'[j] = list[j]
      BY <1>1, <1>2, AppendProperties, ListInjective DEF RegInv
    <3>2. k = Len(list) + 1 \/ k \in 1..Len(list)
      BY <1>7, <3>1
    <3>3. CASE k = Len(list) + 1
      BY <1>1, <1>2, <3>1, <3>3 DEF RegInv
    <3>4. CASE k \in 1..Len(list)
      <4>1. k \in DOMAIN list /\ list'[k] = list[k] /\ list[k] # nextId /\ index[list[k]] = k /\ list[k] \in Reg!Ids
        BY <1>6, <3>1, <3>4, ListInjective DEF RegInv, Reg!ListExact, Reg!ToSet
      <4> QED
        BY <1>1, <4>1 DEF RegInv
    <3> QED
      BY <3>2, <3>3, <3>4
  <2> QED
    BY <2>1, <2>2 DEF Reg!ListExact, Reg!Ids
<1>9. owned' \in [Accounts -> Seq(Reg!Ids)] /\ Reg!OwnersExact'
  <2>1. Append(owned[a], nextId) \in Seq(Reg!Ids) /\ Reg!IsInjective(Append(owned[a], nextId))
        /\ Reg!ToSet(Append(owned[a], nextId)) = Reg!ToSet(owned[a]) \cup {nextId}
    <3>1. owned[a] \in Seq(Reg!Ids) /\ Reg!IsInjective(owned[a]) /\ nextId \notin Reg!ToSet(owned[a])
      BY <1>6 DEF RegInv, Reg!OwnersExact
    <3> QED
      BY <1>2, <3>1, AppendsOne
  <2>2. /\ owned' \in [Accounts -> Seq(Reg!Ids)] /\ owned'[a] = Append(owned[a], nextId)
        /\ \A b \in Accounts : b # a => owned'[b] = owned[b]
    BY <1>1, <2>1 DEF RegInv
  <2>3. ASSUME NEW b \in Accounts
        PROVE  Reg!IsInjective(owned'[b]) /\ Reg!ToSet(owned'[b]) = {i \in Reg!Ids : work'[i].owner = b}
    <3>1. Reg!IsInjective(owned[b]) /\ Reg!ToSet(owned[b]) = {i \in Reg!Ids : work[i].owner = b}
      BY DEF RegInv, Reg!OwnersExact
    <3>2. work[nextId].owner = None
      BY <1>2 DEF Exists
    <3>3. CASE b = a
      BY <1>2, <1>4, <2>1, <2>2, <3>1, <3>2, <3>3, RegNumbers
    <3>4. CASE b # a
      BY <1>2, <1>4, <2>2, <3>1, <3>2, <3>4, RegNumbers
    <3> QED
      BY <3>3, <3>4
  <2> QED
    BY <2>2, <2>3 DEF Reg!OwnersExact, Reg!Ids
<1>10. index' \in [Reg!Ids -> Nat]
  <2>1. Len(list) + 1 \in Nat
    BY ListInjective
  <2> QED
    BY <1>1, <2>1 DEF RegInv
<1> QED
  BY <1>1, <1>2, <1>3, <1>5, <1>7, <1>8, <1>9, <1>10 DEF RegInv, Reg!Ids

\* activateWorkload() changes neither list.
LEMMA Activates ==
  ASSUME RegInv, NEW a \in Accounts, NEW i \in Reg!Ids, NEW on \in BOOLEAN, Reg!setActive(a, i, on) PROVE RegInv'
<1>1. /\ work' = [work EXCEPT ![i].active = on] /\ UNCHANGED <<list, index, owned, nextId>>
  BY DEF Reg!setActive
<1>2. work' \in [Reg!Ids -> Works] /\ \A k \in Reg!Ids : work'[k].owner = work[k].owner
  BY <1>1 DEF RegInv, Works
<1> QED
  BY <1>1, <1>2 DEF RegInv, Exists, Reg!ListExact, Reg!OwnersExact, Reg!Ids

\* Where a workload stands on the list is what the index says.
LEMMA Places ==
  ASSUME RegInv, NEW i \in Reg!Ids, NEW p \in Accounts, Reg!recordPlacement(i, p) PROVE RegInv'
<1>1. /\ work' = [work EXCEPT ![i].at = p] /\ UNCHANGED <<list, index, owned, nextId>>
  BY DEF Reg!recordPlacement
<1>2. work' \in [Reg!Ids -> Works] /\ \A k \in Reg!Ids : work'[k].owner = work[k].owner
  BY <1>1 DEF RegInv, Works
<1> QED
  BY <1>1, <1>2 DEF RegInv, Exists, Reg!ListExact, Reg!OwnersExact, Reg!Ids

\* The last entry takes the place of the deleted one, and its index follows.
LEMMA Deletes ==
  ASSUME RegInv, NEW a \in Accounts, NEW i \in Reg!Ids, Reg!deleteWorkload(a, i) PROVE RegInv'
<1> DEFINE n == Len(list)
           l == list[n]
           at == CHOOSE k \in DOMAIN owned[a] : owned[a][k] = i
<1>1. /\ work[i].owner = a /\ work' = [work EXCEPT ![i] = Reg!NoWork]
      /\ list' = Reg!SwapRemove(list, index[i])
      /\ index' = [index EXCEPT ![l] = IF l # i THEN index[i] ELSE index[l], ![i] = 0]
      /\ owned' = [owned EXCEPT ![a] = Reg!SwapRemove(owned[a], at)]
      /\ UNCHANGED nextId
  BY DEF Reg!deleteWorkload, Reg!Deletable, Reg!MovedIndex, Reg!Last
<1>2. work' \in [Reg!Ids -> Works] /\ \A k \in Reg!Ids : work'[k].owner = IF k = i THEN None ELSE work[k].owner
  BY <1>1 DEF RegInv, Reg!NoWork, Works
<1>3. /\ Reg!IsInjective(list) /\ DOMAIN list = 1..n /\ n \in Nat
      /\ Reg!ToSet(list) = {k \in Reg!Ids : work[k].owner # None} /\ \A k \in 1..n : index[list[k]] = k
  BY ListInjective DEF RegInv, Reg!ListExact
<1>4. index[i] \in 1..n /\ list[index[i]] = i
  <2>1. i \in Reg!ToSet(list)
    BY <1>1, <1>3, RegNumbers
  <2>2. PICK k \in 1..n : list[k] = i
    BY <1>3, <2>1 DEF Reg!ToSet
  <2> QED
    BY <1>3, <2>2
<1>5. list' \in Seq(Reg!Ids) /\ Reg!ToSet(list') = Reg!ToSet(list) \ {i}
  <2>1. list \in Seq(Reg!Ids)
    BY DEF RegInv
  <2> QED
    BY <1>1, <1>3, <1>4, <2>1, SwapRemoves
<1>6. Len(list') = n - 1 /\ \A j \in 1..(n - 1) : list'[j] = IF j = index[i] THEN l ELSE list[j]
  <2>1. list \in Seq(Reg!Ids)
    BY DEF RegInv
  <2> QED
    BY <1>1, <1>4, <2>1, SwapPlaces
<1>7. n \in 1..n /\ l \in Reg!Ids /\ index[l] = n
  <2>1. n \in 1..n
    BY <1>3, <1>4
  <2> QED
    BY <1>3, <2>1 DEF RegInv
<1> HIDE DEF l, n
<1>8. Reg!ListExact'
  <2>1. Reg!ToSet(list') = {k \in Reg!Ids : work'[k].owner # None}
    BY <1>2, <1>3, <1>5
  <2>2. ASSUME NEW j \in DOMAIN list' PROVE index'[list'[j]] = j
    <3>1. j \in 1..(n - 1) /\ j \in 1..n /\ j # n
      BY <1>3, <1>5, <1>6
    <3>2. index \in [Reg!Ids -> Nat]
      BY DEF RegInv
    <3>3. CASE j = index[i]
      <4>1. l # i /\ list'[j] = l
        BY <1>6, <1>7, <3>1, <3>3
      <4> QED
        BY <1>1, <1>7, <3>2, <3>3, <4>1
    <3>4. CASE j # index[i]
      <4>1. list'[j] = list[j] /\ index[list[j]] = j /\ list[j] # i /\ list[j] # l
        BY <1>3, <1>6, <1>7, <3>1, <3>4
      <4>2. list[j] \in Reg!Ids
        BY <1>3, <3>1 DEF RegInv
      <4> QED
        BY <1>1, <1>7, <3>2, <4>1, <4>2
    <3> QED
      BY <3>3, <3>4
  <2> QED
    BY <2>1, <2>2 DEF Reg!ListExact, Reg!Ids
<1>9. owned' \in [Accounts -> Seq(Reg!Ids)] /\ Reg!OwnersExact'
  <2>1. owned[a] \in Seq(Reg!Ids) /\ Reg!IsInjective(owned[a]) /\ i \in Reg!ToSet(owned[a])
    BY <1>1 DEF RegInv, Reg!OwnersExact
  <2>2. at \in 1..Len(owned[a]) /\ owned[a][at] = i
    <3>1. \E k \in DOMAIN owned[a] : owned[a][k] = i
      BY <2>1 DEF Reg!ToSet
    <3>2. at \in DOMAIN owned[a] /\ owned[a][at] = i
      BY <3>1
    <3> HIDE DEF at
    <3> QED
      BY <2>1, <3>2
  <2> HIDE DEF at
  <2>3. /\ Reg!SwapRemove(owned[a], at) \in Seq(Reg!Ids) /\ Reg!IsInjective(Reg!SwapRemove(owned[a], at))
        /\ Reg!ToSet(Reg!SwapRemove(owned[a], at)) = Reg!ToSet(owned[a]) \ {i}
    BY <2>1, <2>2, SwapRemoves
  <2>4. /\ owned' \in [Accounts -> Seq(Reg!Ids)] /\ owned'[a] = Reg!SwapRemove(owned[a], at)
        /\ \A b \in Accounts : b # a => owned'[b] = owned[b]
    BY <1>1, <2>3 DEF RegInv
  <2>5. ASSUME NEW b \in Accounts
        PROVE  Reg!IsInjective(owned'[b]) /\ Reg!ToSet(owned'[b]) = {k \in Reg!Ids : work'[k].owner = b}
    <3>1. Reg!IsInjective(owned[b]) /\ Reg!ToSet(owned[b]) = {k \in Reg!Ids : work[k].owner = b}
      BY DEF RegInv, Reg!OwnersExact
    <3>2. CASE b = a
      BY <1>2, <2>3, <2>4, <3>1, <3>2, RegNumbers
    <3>3. CASE b # a
      BY <1>1, <1>2, <2>4, <3>1, <3>3, RegNumbers
    <3> QED
      BY <3>2, <3>3
  <2> QED
    BY <2>4, <2>5 DEF Reg!OwnersExact, Reg!Ids
<1>10. index' \in [Reg!Ids -> Nat]
  <2>1. index \in [Reg!Ids -> Nat] /\ (IF l # i THEN index[i] ELSE index[l]) \in Nat
    BY <1>7 DEF RegInv
  <2> QED
    BY <1>1, <2>1
<1>11. \A k \in Reg!Ids : Exists(k)' => k < nextId'
  BY <1>1, <1>2 DEF RegInv, Exists
<1> QED
  BY <1>1, <1>2, <1>5, <1>8, <1>9, <1>10, <1>11 DEF RegInv, Reg!Ids

\* The registries' steps.
LEMMA RegSteps == ASSUME RegInv, [Reg!Next]_regVars PROVE RegInv'
<1>1. CASE UNCHANGED <<work, list, index, owned, nextId>>
  BY <1>1 DEF RegInv, Exists, Reg!ListExact, Reg!OwnersExact, Reg!Ids
<1>2. CASE Reg!Next
  <2>1. ASSUME NEW a \in Accounts, NEW d \in {} PROVE FALSE
    BY <2>1
  <2> QED
    BY <1>2, Registers, Activates, Places, Deletes, Zenon DEF Reg!Next
<1> QED
  BY <1>1, <1>2 DEF regVars

-----------------------------------------------------------------------------
(* The reward per device. *)

\* What the minter's constants are.
LEMMA MinterNumbers == Base \subseteq Nat /\ HALVING_INTERVAL \in Nat \ {0} /\ None \notin Accounts
BY MinterAssumption DEF Mnt!RegistriesAssumption

\* Halving goes down only.
LEMMA HalvedFalls ==
  ASSUME NEW base \in Nat, NEW m \in Nat, NEW n \in Nat, m <= n
  PROVE  Mnt!Halved(base)[m] \in Nat /\ Mnt!Halved(base)[n] \in Nat /\ Mnt!Halved(base)[n] <= Mnt!Halved(base)[m]
<1> DEFINE h == Mnt!Halved(base)
           Good == {k \in Nat : h[m + k] <= h[m]}
<1>1. h \in [Nat -> Nat] /\ \A k \in Nat : h[k + 1] = h[k] \div 2
  BY HalvedSteps
<1> HIDE DEF h
<1>2. 0 \in Good
  BY <1>1
<1>3. ASSUME NEW k \in Nat, k \in Good PROVE k + 1 \in Good
  <2>1. m + k \in Nat /\ m + (k + 1) = (m + k) + 1
    OBVIOUS
  <2>2. h[(m + k) + 1] = h[m + k] \div 2 /\ h[m + k] \in Nat /\ h[m] \in Nat /\ h[m + k] <= h[m]
    BY <1>1, <1>3, <2>1
  <2>3. h[m + (k + 1)] <= h[m]
    BY <2>1, <2>2
  <2> QED
    BY <2>3
<1> HIDE DEF Good
<1>4. Nat \subseteq Good
  BY <1>2, <1>3, NatSteps
<1>5. n - m \in Nat /\ m + (n - m) = n
  OBVIOUS
<1>6. h[m + (n - m)] <= h[m]
  BY <1>4, <1>5 DEF Good
<1> QED
  BY <1>1, <1>5, <1>6 DEF h

\* What the claim after c claims mints.
RewardAfter(base, c) ==
  LET epoch == c \div HALVING_INTERVAL
  IN IF epoch >= 20 THEN 0 ELSE Mnt!Halved(base)[epoch]

\* Later claims of a base are worth no more than earlier ones.
LEMMA RewardFalls ==
  ASSUME NEW base \in Nat, NEW b \in Nat, NEW c \in Nat, b <= c
  PROVE  RewardAfter(base, b) \in Nat /\ RewardAfter(base, c) \in Nat /\ RewardAfter(base, c) <= RewardAfter(base, b)
<1> DEFINE x == b \div HALVING_INTERVAL
           y == c \div HALVING_INTERVAL
<1>1. x \in Nat /\ y \in Nat /\ x <= y
  BY DivKeepsOrder, MinterNumbers
<1> HIDE DEF x, y
<1>2. Mnt!Halved(base)[x] \in Nat /\ Mnt!Halved(base)[y] \in Nat /\ Mnt!Halved(base)[y] <= Mnt!Halved(base)[x]
  BY <1>1, HalvedFalls
<1> QED
  BY <1>1, <1>2 DEF RewardAfter, x, y

Claims == [device : Devices, to : Accounts, base : Base, amount : Nat]

\* Each claim has the reward of its turn.
MntInv ==
  /\ nextId = 0 /\ totalClaims = Len(claims) /\ claims \in Seq(Claims)
  /\ device \in [Devices -> [owner : Accounts \cup {None}, active : BOOLEAN]]
  /\ devices \in Seq(Devices) /\ Reg!IsInjective(devices)
  /\ Reg!ToSet(devices) = {d \in Devices : device[d].owner # None}
  /\ \A k \in 1..Len(claims) : claims[k].amount = RewardAfter(claims[k].base, k - 1)
  /\ \A j, k \in 1..Len(claims) : j < k => claims[j].device # claims[k].device

\* The minter starts with no device and no claim.
LEMMA MntInit == Mnt!Init => MntInv
<1> SUFFICES ASSUME Mnt!Init PROVE MntInv
  OBVIOUS
<1>1. Reg!ToSet(<<>>) = {} /\ Reg!IsInjective(<<>>)
  BY DEF Reg!ToSet, Reg!IsInjective
<1>2. /\ nextId = 0 /\ totalClaims = 0 /\ claims = <<>> /\ devices = <<>>
      /\ device = [d \in Devices |-> [owner |-> None, active |-> FALSE]]
  BY DEF Mnt!Init
<1>3. Len(<<>>) = 0 /\ <<>> \in Seq(Claims) /\ <<>> \in Seq(Devices) /\ 1..0 = {}
  OBVIOUS
<1>4. device \in [Devices -> [owner : Accounts \cup {None}, active : BOOLEAN]] /\ \A d \in Devices : device[d].owner = None
  BY <1>2
<1> QED
  BY <1>1, <1>2, <1>3, <1>4 DEF MntInv

\* registerProvider(): the device joins the list once.
LEMMA RegistersDevice == ASSUME MntInv, NEW a \in Accounts, NEW d \in Devices, Mnt!registerProvider(a, d) PROVE MntInv'
<1>1. /\ device[d].owner = None /\ device' = [device EXCEPT ![d] = [owner |-> a, active |-> TRUE]]
      /\ devices' = Append(devices, d) /\ UNCHANGED <<nextId, claims, totalClaims>>
  BY DEF Mnt!registerProvider, Mnt!Unregistered
<1>2. /\ device' \in [Devices -> [owner : Accounts \cup {None}, active : BOOLEAN]]
      /\ \A e \in Devices : device'[e].owner = IF e = d THEN a ELSE device[e].owner
  BY <1>1 DEF MntInv
<1>3. d \notin Reg!ToSet(devices)
  BY <1>1 DEF MntInv
<1>4. /\ devices' \in Seq(Devices) /\ Reg!IsInjective(devices')
      /\ Reg!ToSet(devices') = Reg!ToSet(devices) \cup {d}
  BY <1>1, <1>3, AppendsOne DEF MntInv
<1>5. Reg!ToSet(devices') = {e \in Devices : device'[e].owner # None}
  BY <1>2, <1>4, MinterNumbers DEF MntInv
<1> QED
  BY <1>1, <1>2, <1>4, <1>5 DEF MntInv, Reg!IsInjective, Reg!ToSet

\* Activating and deactivating a device leaves the list.
LEMMA SetsDevice ==
  ASSUME MntInv, NEW a \in Accounts, NEW d \in Devices, NEW on \in BOOLEAN, Mnt!setProvider(a, d, on) PROVE MntInv'
<1>1. device' = [device EXCEPT ![d].active = on] /\ UNCHANGED <<nextId, devices, claims, totalClaims>>
  BY DEF Mnt!setProvider
<1>2. /\ device' \in [Devices -> [owner : Accounts \cup {None}, active : BOOLEAN]]
      /\ \A e \in Devices : device'[e].owner = device[e].owner
  BY <1>1 DEF MntInv
<1> QED
  BY <1>1, <1>2 DEF MntInv, Reg!IsInjective, Reg!ToSet

\* A claim is worth what its number's halvings leave, and its device claims once.
LEMMA ClaimsReward ==
  ASSUME MntInv, NEW a \in Accounts, NEW d \in Devices, NEW b \in Base, Mnt!claimRegistrationReward(a, d, b) PROVE MntInv'
<1> DEFINE new == [device |-> d, to |-> a, base |-> b, amount |-> Mnt!calculateReward(b)]
<1>1. /\ claims' = Append(claims, new) /\ totalClaims' = totalClaims + 1 /\ UNCHANGED <<nextId, device, devices>>
      /\ \A k \in DOMAIN claims : claims[k].device # d
  BY DEF Mnt!claimRegistrationReward
<1>2. PICK n \in Nat : n = Len(claims) /\ DOMAIN claims = 1..n
  BY DEF MntInv
<1>3. Mnt!calculateReward(b) = RewardAfter(b, n)
  BY <1>2 DEF MntInv, Mnt!calculateReward, RewardAfter
<1>4. RewardAfter(b, n) \in Nat
  BY <1>2, MinterNumbers, RewardFalls
<1>5. new \in Claims /\ new.device = d /\ new.base = b /\ new.amount = RewardAfter(b, n)
  BY <1>3, <1>4 DEF Claims
<1> HIDE DEF new
<1>6. /\ claims' \in Seq(Claims) /\ Len(claims') = n + 1 /\ claims'[n + 1] = new
      /\ \A k \in 1..n : claims'[k] = claims[k]
  BY <1>1, <1>2, <1>5, AppendProperties DEF MntInv
<1>7. \A k \in 1..(n + 1) : k = n + 1 \/ k \in 1..n
  OBVIOUS
<1>8. ASSUME NEW k \in 1..(n + 1) PROVE claims'[k].amount = RewardAfter(claims'[k].base, k - 1)
  <2>1. CASE k = n + 1
    <3>1. k - 1 = n
      BY <2>1
    <3> QED
      BY <1>5, <1>6, <2>1, <3>1
  <2>2. CASE k \in 1..n
    BY <1>2, <1>6, <2>2 DEF MntInv
  <2> QED
    BY <1>7, <2>1, <2>2
<1>9. ASSUME NEW j \in 1..(n + 1), NEW k \in 1..(n + 1), j < k PROVE claims'[j].device # claims'[k].device
  <2>1. j \in 1..n
    BY <1>9
  <2>2. CASE k = n + 1
    BY <1>1, <1>2, <1>5, <1>6, <2>1, <2>2
  <2>3. CASE k \in 1..n
    BY <1>2, <1>6, <1>9, <2>1, <2>3 DEF MntInv
  <2> QED
    BY <1>7, <2>2, <2>3
<1>10. totalClaims' = n + 1
  BY <1>1, <1>2 DEF MntInv
<1>11. /\ nextId' = 0 /\ device' \in [Devices -> [owner : Accounts \cup {None}, active : BOOLEAN]]
       /\ devices' \in Seq(Devices) /\ Reg!IsInjective(devices)'
       /\ (Reg!ToSet(devices) = {e \in Devices : device[e].owner # None})'
  BY <1>1 DEF MntInv, Reg!IsInjective, Reg!ToSet
<1> QED
  BY <1>6, <1>8, <1>9, <1>10, <1>11 DEF MntInv

\* The minter's steps.
LEMMA MntSteps == ASSUME MntInv, [Mnt!Next]_regVars PROVE MntInv'
<1>1. CASE UNCHANGED regVars
  BY <1>1 DEF regVars, MntInv, Reg!IsInjective, Reg!ToSet
<1>2. CASE Mnt!Next
  <2>1. Mnt!Ids = {}
    BY DEF Mnt!Ids
  <2>2. ASSUME NEW a \in Accounts PROVE ~ Mnt!registerWorkload(a)
    BY DEF Mnt!registerWorkload, MntInv
  <2>3. \/ \E a \in Accounts, d \in Devices : Mnt!registerProvider(a, d)
        \/ \E a \in Accounts, d \in Devices, on \in BOOLEAN : Mnt!setProvider(a, d, on)
        \/ \E a \in Accounts, d \in Devices, b \in Base : Mnt!claimRegistrationReward(a, d, b)
    BY <1>2, <2>1, <2>2, Zenon DEF Mnt!Next
  <2> QED
    BY <2>3, RegistersDevice, SetsDevice, ClaimsReward
<1> QED
  BY <1>1, <1>2

\* What the minter promises follows.
LEMMA MntSound == MntInv => Mnt!TypeOK /\ Mnt!RewardsFall
<1> SUFFICES ASSUME MntInv PROVE Mnt!TypeOK /\ Mnt!RewardsFall
  OBVIOUS
<1>1. Mnt!TypeOK
  <2>1. Mnt!Ids = {}
    BY DEF Mnt!Ids
  <2>2. Mnt!IsInjective(devices) /\ Mnt!ToSet(devices) = Reg!ToSet(devices)
    BY DEF MntInv, Mnt!IsInjective, Reg!IsInjective, Mnt!ToSet, Reg!ToSet
  <2> QED
    BY <2>1, <2>2 DEF MntInv, Mnt!TypeOK
<1>2. Mnt!RewardsFall
  <2>0. PICK n \in Nat : n = Len(claims) /\ DOMAIN claims = 1..n /\ \A k \in 1..n : claims[k] \in Claims
    BY DEF MntInv
  <2>1. n = Len(claims) /\ DOMAIN claims = 1..n /\ \A k \in 1..n : claims[k].base \in Nat
    BY <2>0, MinterNumbers DEF Claims
  <2> SUFFICES ASSUME NEW j \in 1..n, NEW k \in 1..n, j < k
               PROVE  /\ claims[j].device # claims[k].device
                      /\ claims[j].base = claims[k].base => claims[j].amount >= claims[k].amount
    BY <2>1 DEF Mnt!RewardsFall
  <2>2. claims[j].amount = RewardAfter(claims[j].base, j - 1) /\ claims[k].amount = RewardAfter(claims[k].base, k - 1)
        /\ claims[j].device # claims[k].device
    BY <2>1 DEF MntInv
  <2>3. j - 1 \in Nat /\ k - 1 \in Nat /\ j - 1 <= k - 1
    OBVIOUS
  <2>4. /\ RewardAfter(claims[j].base, j - 1) \in Nat /\ RewardAfter(claims[j].base, k - 1) \in Nat
        /\ RewardAfter(claims[j].base, k - 1) <= RewardAfter(claims[j].base, j - 1)
    BY <2>1, <2>3, RewardFalls
  <2> QED
    BY <2>2, <2>4
<1> QED
  BY <1>1, <1>2

-----------------------------------------------------------------------------
(* Stakes. *)

\* What the staking contract's constants are.
LEMMA StakeNumbers ==
  /\ IsFiniteSet(Accounts) /\ StakeAmounts \subseteq Nat /\ UNSTAKE_COOLDOWN \in Nat /\ MaxStaked \in Nat
  /\ StakeTime \in Nat /\ MaxChallenges \in Nat
BY StakesAssumption DEF Stk!StakingAssumption, Stk!IsFiniteSet, IsFiniteSet

StakeRow == [amount : Nat, requestedAt : Nat, pending : Nat, challenges : Nat, slashed : Nat, in : Nat, out : Nat]
Stakes == SumFunctionOnSet([p \in Accounts |-> stakes[p].amount], Accounts)

StkInv ==
  /\ stakes \in [Accounts -> StakeRow] /\ \A p \in Accounts : stakes[p].requestedAt <= stk_now
  /\ bal \in Nat /\ burned \in Nat /\ rewarded \in Nat /\ mvpMode \in BOOLEAN /\ stk_now \in Nat
  /\ Stk!Conserved
  /\ Stakes \in Nat /\ bal >= Stakes

\* The contract's own sum of the stakes.
LEMMA StakedIs == Stk!Staked = Stakes
BY DEF Stk!Staked, Stk!amounts, Stakes, Stk!SumFunctionOnSet, Stk!FoldFunctionOnSet, Stk!MapThenFoldSet,
       SumFunctionOnSet, FoldFunctionOnSet, MapThenFoldSet

\* The staking contract starts with no stake.
LEMMA StkInit == Stk!Init => StkInv
<1> SUFFICES ASSUME Stk!Init PROVE StkInv
  OBVIOUS
<1> DEFINE none == [amount |-> 0, requestedAt |-> 0, pending |-> 0, challenges |-> 0, slashed |-> 0, in |-> 0, out |-> 0]
<1>1. /\ stakes = [p \in Accounts |-> none] /\ bal = 0 /\ burned = 0 /\ rewarded = 0 /\ mvpMode = TRUE /\ stk_now = 1
  BY DEF Stk!Init
<1>2. /\ none \in StakeRow /\ none.amount = 0 /\ none.requestedAt = 0 /\ none.slashed = 0 /\ none.in = 0 /\ none.out = 0
  BY DEF StakeRow
<1> HIDE DEF none
<1>3. \A p \in Accounts : stakes[p] = none
  BY <1>1
<1>4. Stakes = 0
  <2> DEFINE f == [p \in Accounts |-> stakes[p].amount]
  <2>1. \A p \in Accounts : f[p] = 0
    BY <1>2, <1>3
  <2> HIDE DEF f
  <2>2. SumFunctionOnSet(f, Accounts) = 0
    BY <2>1, StakeNumbers, SumZero
  <2> QED
    BY <2>2 DEF f, Stakes
<1>5. Stk!Conserved
  BY <1>2, <1>3 DEF Stk!Conserved
<1> QED
  BY <1>1, <1>2, <1>3, <1>4, <1>5 DEF StkInv

\* One provider's row is written: the others stay, and the sum of the stakes moves by what the row changes.
Writes(p) == stakes' \in [Accounts -> StakeRow] /\ \A q \in Accounts : q # p => stakes'[q] = stakes[q]

\* The sum of the stakes moves by what one provider's row changes.
LEMMA StakeMoves ==
  ASSUME StkInv, NEW p \in Accounts, Writes(p)
  PROVE  /\ Stakes' \in Nat /\ Stakes' = Stakes - stakes[p].amount + stakes'[p].amount
         /\ Stakes \in Nat /\ stakes[p].amount \in Nat /\ stakes'[p].amount \in Nat
<1> DEFINE f == [q \in Accounts |-> stakes[q].amount]
           g == [q \in Accounts |-> stakes'[q].amount]
<1>1. stakes' \in [Accounts -> StakeRow] /\ \A q \in Accounts : q # p => stakes'[q] = stakes[q]
  BY DEF Writes
<1>2. \A q \in Accounts : stakes[q].amount \in Nat /\ stakes'[q].amount \in Nat
  BY <1>1 DEF StkInv, StakeRow
<1>3. /\ \A q \in Accounts : f[q] \in Nat /\ g[q] \in Nat
      /\ \A q \in Accounts \ {p} : g[q] = f[q]
      /\ f[p] = stakes[p].amount /\ g[p] = stakes'[p].amount
  BY <1>1, <1>2
<1>4. Stakes = SumFunctionOnSet(f, Accounts) /\ Stakes' = SumFunctionOnSet(g, Accounts)
  BY DEF Stakes
<1> HIDE DEF f, g
<1>5. /\ SumFunctionOnSet(f, Accounts) \in Nat /\ SumFunctionOnSet(g, Accounts) \in Nat
      /\ SumFunctionOnSet(g, Accounts) = SumFunctionOnSet(f, Accounts) - f[p] + g[p]
  BY <1>3, StakeNumbers, SumChange
<1> QED
  BY <1>2, <1>3, <1>4, <1>5

\* A row that still conserves what came in keeps the invariant, when the contract still covers the stakes.
LEMMA StakeKept ==
  ASSUME StkInv, NEW p \in Accounts, Writes(p), stakes'[p].in = stakes'[p].amount + stakes'[p].slashed + stakes'[p].out,
         stakes'[p].requestedAt <= stk_now,
         bal' \in Nat, bal' >= Stakes - stakes[p].amount + stakes'[p].amount, UNCHANGED <<mvpMode, stk_now>>,
         burned' \in Nat, rewarded' \in Nat
  PROVE  StkInv'
<1>1. /\ stakes' \in [Accounts -> StakeRow] /\ \A q \in Accounts : q # p => stakes'[q] = stakes[q]
      /\ Stakes' \in Nat /\ Stakes' = Stakes - stakes[p].amount + stakes'[p].amount
  BY StakeMoves DEF Writes
<1>2. Stk!Conserved'
  BY <1>1 DEF StkInv, Stk!Conserved
<1>3. \A q \in Accounts : stakes'[q].requestedAt <= stk_now'
  BY <1>1 DEF StkInv
<1> QED
  BY <1>1, <1>2, <1>3 DEF StkInv

\* What a row says of itself.
LEMMA StakeFields ==
  ASSUME StkInv, NEW p \in Accounts
  PROVE  LET s == stakes[p]
         IN /\ s \in StakeRow /\ {s.amount, s.requestedAt, s.pending, s.challenges, s.slashed, s.in, s.out} \subseteq Nat
            /\ s.in = s.amount + s.slashed + s.out /\ s.requestedAt <= stk_now
BY DEF StkInv, StakeRow, Stk!Conserved

\* A record with a row's fields, all naturals, is a row.
LEMMA RowIs ==
  ASSUME NEW s \in StakeRow, NEW e, DOMAIN e = DOMAIN s, e = [k \in DOMAIN e |-> e[k]],
         e.amount \in Nat, e.requestedAt \in Nat, e.pending \in Nat, e.challenges \in Nat, e.slashed \in Nat,
         e.in \in Nat, e.out \in Nat
  PROVE  e \in StakeRow
BY DEF StakeRow

\* stake(): what comes in is staked.
LEMMA Stake == ASSUME StkInv, NEW p \in Accounts, NEW a \in StakeAmounts, Stk!stake(p, a) PROVE StkInv'
<1> DEFINE s == stakes[p]
<1>1. /\ s \in StakeRow /\ stakes \in [Accounts -> StakeRow]
      /\ {s.amount, s.requestedAt, s.pending, s.challenges, s.slashed, s.in, s.out} \subseteq Nat
      /\ s.in = s.amount + s.slashed + s.out /\ s.requestedAt <= stk_now
      /\ {bal, burned, rewarded, Stakes, stk_now} \subseteq Nat /\ bal >= Stakes
  BY StakeFields DEF StkInv
<1>2. /\ a \in Nat /\ stakes' = [stakes EXCEPT ![p].amount = s.amount + a, ![p].in = s.in + a]
      /\ bal' = bal + a /\ UNCHANGED <<burned, rewarded, mvpMode, stk_now>>
  BY <1>1, StakeNumbers DEF Stk!stake
<1>3. PICK u \in Nat, v \in Nat : u = s.amount + a /\ v = s.in + a
  BY <1>1, <1>2
<1> DEFINE e == [s EXCEPT !.amount = u, !.in = v]
<1>4. stakes' = [stakes EXCEPT ![p].amount = u, ![p].in = v]
  BY <1>2, <1>3
<1>5. /\ DOMAIN stakes' = Accounts /\ stakes' = [q \in Accounts |-> stakes'[q]]
      /\ \A q \in Accounts : q # p => stakes'[q] = stakes[q]
  BY <1>1, <1>4
<1>6. stakes'[p] = e
  BY <1>1, <1>4
<1>7. /\ e.amount = u /\ e.requestedAt = s.requestedAt /\ e.pending = s.pending /\ e.challenges = s.challenges
      /\ e.slashed = s.slashed /\ e.in = v /\ e.out = s.out
  BY <1>1 DEF StakeRow
<1>8. DOMAIN e = DOMAIN s /\ e = [k \in DOMAIN e |-> e[k]]
  BY <1>1
<1> HIDE DEF s, e
<1>9. e \in StakeRow
  BY <1>1, <1>7, <1>8, RowIs
<1>10. Writes(p)
  BY <1>1, <1>5, <1>6, <1>9 DEF Writes
<1>11. /\ bal' \in Nat /\ bal' >= Stakes - s.amount + e.amount /\ burned' \in Nat /\ rewarded' \in Nat
       /\ e.in = e.amount + e.slashed + e.out /\ e.requestedAt <= stk_now
  BY <1>1, <1>2, <1>3, <1>7
<1> QED
  BY <1>2, <1>6, <1>10, <1>11, StakeKept DEF s

\* requestUnstake(): nothing moves yet.
LEMMA RequestUnstake == ASSUME StkInv, NEW p \in Accounts, NEW a \in StakeAmounts, Stk!requestUnstake(p, a) PROVE StkInv'
<1> DEFINE s == stakes[p]
<1>1. /\ s \in StakeRow /\ stakes \in [Accounts -> StakeRow]
      /\ {s.amount, s.requestedAt, s.pending, s.challenges, s.slashed, s.in, s.out} \subseteq Nat
      /\ s.in = s.amount + s.slashed + s.out /\ s.requestedAt <= stk_now
      /\ {bal, burned, rewarded, Stakes, stk_now} \subseteq Nat /\ bal >= Stakes
  BY StakeFields DEF StkInv
<1>2. /\ a \in Nat /\ stakes' = [stakes EXCEPT ![p].requestedAt = stk_now, ![p].pending = a]
      /\ UNCHANGED <<bal, burned, rewarded, mvpMode, stk_now>>
  BY <1>1, StakeNumbers DEF Stk!requestUnstake
<1>3. PICK u \in Nat, v \in Nat : u = stk_now /\ v = a
  BY <1>1, <1>2
<1> DEFINE e == [s EXCEPT !.requestedAt = u, !.pending = v]
<1>4. stakes' = [stakes EXCEPT ![p].requestedAt = u, ![p].pending = v]
  BY <1>2, <1>3
<1>5. /\ DOMAIN stakes' = Accounts /\ stakes' = [q \in Accounts |-> stakes'[q]]
      /\ \A q \in Accounts : q # p => stakes'[q] = stakes[q]
  BY <1>1, <1>4
<1>6. stakes'[p] = e
  BY <1>1, <1>4
<1>7. /\ e.amount = s.amount /\ e.requestedAt = u /\ e.pending = v /\ e.challenges = s.challenges
      /\ e.slashed = s.slashed /\ e.in = s.in /\ e.out = s.out
  BY <1>1 DEF StakeRow
<1>8. DOMAIN e = DOMAIN s /\ e = [k \in DOMAIN e |-> e[k]]
  BY <1>1
<1> HIDE DEF s, e
<1>9. e \in StakeRow
  BY <1>1, <1>7, <1>8, RowIs
<1>10. Writes(p)
  BY <1>1, <1>5, <1>6, <1>9 DEF Writes
<1>11. /\ bal' \in Nat /\ bal' >= Stakes - s.amount + e.amount /\ burned' \in Nat /\ rewarded' \in Nat
       /\ e.in = e.amount + e.slashed + e.out /\ e.requestedAt <= stk_now
  BY <1>1, <1>2, <1>3, <1>7
<1> QED
  BY <1>2, <1>6, <1>10, <1>11, StakeKept DEF s

\* unstake(): what was asked for is still staked, and leaves.
LEMMA Unstake == ASSUME StkInv, NEW p \in Accounts, Stk!unstake(p) PROVE StkInv'
<1> DEFINE s == stakes[p]
<1>1. /\ s \in StakeRow /\ stakes \in [Accounts -> StakeRow]
      /\ {s.amount, s.requestedAt, s.pending, s.challenges, s.slashed, s.in, s.out} \subseteq Nat
      /\ s.in = s.amount + s.slashed + s.out /\ s.requestedAt <= stk_now
      /\ {bal, burned, rewarded, Stakes, stk_now} \subseteq Nat /\ bal >= Stakes
  BY StakeFields DEF StkInv
<1>2. /\ stakes' = [stakes EXCEPT ![p].amount = s.amount - s.pending, ![p].requestedAt = 0, ![p].pending = 0,
                                  ![p].out = s.out + s.pending]
      /\ s.pending <= s.amount /\ s.pending <= bal
      /\ bal' = bal - s.pending /\ UNCHANGED <<burned, rewarded, mvpMode, stk_now>>
  BY <1>1 DEF Stk!unstake
<1>3. PICK u \in Nat, v \in Nat, w \in Nat, x \in Nat : u = s.amount - s.pending /\ v = 0 /\ w = 0 /\ x = s.out + s.pending
  BY <1>1, <1>2
<1> DEFINE e == [s EXCEPT !.amount = u, !.requestedAt = v, !.pending = w, !.out = x]
<1>4. stakes' = [stakes EXCEPT ![p].amount = u, ![p].requestedAt = v, ![p].pending = w, ![p].out = x]
  BY <1>2, <1>3
<1>5. /\ DOMAIN stakes' = Accounts /\ stakes' = [q \in Accounts |-> stakes'[q]]
      /\ \A q \in Accounts : q # p => stakes'[q] = stakes[q]
  BY <1>1, <1>4
<1>6. stakes'[p] = e
  BY <1>1, <1>4
<1>7. /\ e.amount = u /\ e.requestedAt = v /\ e.pending = w /\ e.challenges = s.challenges
      /\ e.slashed = s.slashed /\ e.in = s.in /\ e.out = x
  BY <1>1 DEF StakeRow
<1>8. DOMAIN e = DOMAIN s /\ e = [k \in DOMAIN e |-> e[k]]
  BY <1>1
<1> HIDE DEF s, e
<1>9. e \in StakeRow
  BY <1>1, <1>7, <1>8, RowIs
<1>10. Writes(p)
  BY <1>1, <1>5, <1>6, <1>9 DEF Writes
<1>11. /\ bal' \in Nat /\ bal' >= Stakes - s.amount + e.amount /\ burned' \in Nat /\ rewarded' \in Nat
       /\ e.in = e.amount + e.slashed + e.out /\ e.requestedAt <= stk_now
  BY <1>1, <1>2, <1>3, <1>7
<1> QED
  BY <1>2, <1>6, <1>10, <1>11, StakeKept DEF s

\* The challenger's quarter is part of what is slashed.
LEMMA SlashParts ==
  ASSUME NEW x \in Nat
  PROVE  Stk!Reward(x) \in Nat /\ Stk!BurnOf(x) \in Nat /\ Stk!Reward(x) + Stk!BurnOf(x) = x
<1>1. (x * 25) \div 100 \in Nat /\ (x * 25) \div 100 <= x
  BY PartBelow
<1> QED
  BY <1>1 DEF Stk!Reward, Stk!BurnOf

\* slash(): no more than the stake leaves, and the challenger's part is part of it.
LEMMA Slash == ASSUME StkInv, NEW p \in Accounts, NEW a \in StakeAmounts, NEW c \in {Challenged, TRUE}, Stk!slash(p, a, c) PROVE StkInv'
<1> DEFINE s == stakes[p]
<1>1. /\ s \in StakeRow /\ stakes \in [Accounts -> StakeRow]
      /\ {s.amount, s.requestedAt, s.pending, s.challenges, s.slashed, s.in, s.out} \subseteq Nat
      /\ s.in = s.amount + s.slashed + s.out /\ s.requestedAt <= stk_now
      /\ {bal, burned, rewarded, Stakes, stk_now} \subseteq Nat /\ bal >= Stakes
  BY StakeFields DEF StkInv
<1> DEFINE x == Stk!SlashOf(p, a)
           rew == IF c THEN Stk!Reward(x) ELSE 0
           burn == Stk!BurnOf(x)
<1>a. x \in Nat /\ x <= s.amount
  BY <1>1, StakeNumbers DEF Stk!SlashOf
<1>b. /\ stakes' = [stakes EXCEPT ![p].amount = s.amount - x, ![p].slashed = s.slashed + x]
      /\ rew + burn <= bal /\ rewarded' = rewarded + rew /\ burned' = burned + burn /\ bal' = bal - rew - burn
      /\ UNCHANGED <<mvpMode, stk_now>>
  BY <1>1 DEF Stk!slash
<1>c. rew \in Nat /\ burn \in Nat /\ rew + burn <= x
  <2>1. Stk!Reward(x) \in Nat /\ burn \in Nat /\ Stk!Reward(x) + burn = x
    <3> HIDE DEF x
    <3> QED
      BY <1>a, SlashParts
  <2> HIDE DEF x, burn
  <2> QED
    BY <1>a, <2>1
<1> HIDE DEF x, rew, burn
<1>2. /\ stakes' = [stakes EXCEPT ![p].amount = s.amount - x, ![p].slashed = s.slashed + x]
      /\ {x, rew, burn} \subseteq Nat /\ x <= s.amount /\ rew + burn <= bal /\ rew + burn <= x
      /\ rewarded' = rewarded + rew /\ burned' = burned + burn /\ bal' = bal - rew - burn
      /\ UNCHANGED <<mvpMode, stk_now>>
  BY <1>a, <1>b, <1>c
<1>3. PICK u \in Nat, v \in Nat : u = s.amount - x /\ v = s.slashed + x
  BY <1>1, <1>2
<1> DEFINE e == [s EXCEPT !.amount = u, !.slashed = v]
<1>4. stakes' = [stakes EXCEPT ![p].amount = u, ![p].slashed = v]
  BY <1>2, <1>3
<1>5. /\ DOMAIN stakes' = Accounts /\ stakes' = [q \in Accounts |-> stakes'[q]]
      /\ \A q \in Accounts : q # p => stakes'[q] = stakes[q]
  BY <1>1, <1>4
<1>6. stakes'[p] = e
  BY <1>1, <1>4
<1>7. /\ e.amount = u /\ e.requestedAt = s.requestedAt /\ e.pending = s.pending /\ e.challenges = s.challenges
      /\ e.slashed = v /\ e.in = s.in /\ e.out = s.out
  BY <1>1 DEF StakeRow
<1>8. DOMAIN e = DOMAIN s /\ e = [k \in DOMAIN e |-> e[k]]
  BY <1>1
<1> HIDE DEF s, e
<1>9. e \in StakeRow
  BY <1>1, <1>7, <1>8, RowIs
<1>10. Writes(p)
  BY <1>1, <1>5, <1>6, <1>9 DEF Writes
<1>11. /\ bal' \in Nat /\ bal' >= Stakes - s.amount + e.amount /\ burned' \in Nat /\ rewarded' \in Nat
       /\ e.in = e.amount + e.slashed + e.out /\ e.requestedAt <= stk_now
  BY <1>1, <1>2, <1>3, <1>7
<1> QED
  BY <1>2, <1>6, <1>10, <1>11, StakeKept DEF s

\* incrementChallengeCount().
LEMMA Increments == ASSUME StkInv, NEW p \in Accounts, Stk!incrementChallengeCount(p) PROVE StkInv'
<1> DEFINE s == stakes[p]
<1>1. /\ s \in StakeRow /\ stakes \in [Accounts -> StakeRow]
      /\ {s.amount, s.requestedAt, s.pending, s.challenges, s.slashed, s.in, s.out} \subseteq Nat
      /\ s.in = s.amount + s.slashed + s.out /\ s.requestedAt <= stk_now
      /\ {bal, burned, rewarded, Stakes, stk_now} \subseteq Nat /\ bal >= Stakes
  BY StakeFields DEF StkInv
<1>2. stakes' = [stakes EXCEPT ![p].challenges = s.challenges + 1] /\ UNCHANGED <<bal, burned, rewarded, mvpMode, stk_now>>
  BY <1>1 DEF Stk!incrementChallengeCount
<1>3. PICK u \in Nat : u = s.challenges + 1
  BY <1>1, <1>2
<1> DEFINE e == [s EXCEPT !.challenges = u]
<1>4. stakes' = [stakes EXCEPT ![p].challenges = u]
  BY <1>2, <1>3
<1>5. /\ DOMAIN stakes' = Accounts /\ stakes' = [q \in Accounts |-> stakes'[q]]
      /\ \A q \in Accounts : q # p => stakes'[q] = stakes[q]
  BY <1>1, <1>4
<1>6. stakes'[p] = e
  BY <1>1, <1>4
<1>7. /\ e.amount = s.amount /\ e.requestedAt = s.requestedAt /\ e.pending = s.pending /\ e.challenges = u
      /\ e.slashed = s.slashed /\ e.in = s.in /\ e.out = s.out
  BY <1>1 DEF StakeRow
<1>8. DOMAIN e = DOMAIN s /\ e = [k \in DOMAIN e |-> e[k]]
  BY <1>1
<1> HIDE DEF s, e
<1>9. e \in StakeRow
  BY <1>1, <1>7, <1>8, RowIs
<1>10. Writes(p)
  BY <1>1, <1>5, <1>6, <1>9 DEF Writes
<1>11. /\ bal' \in Nat /\ bal' >= Stakes - s.amount + e.amount /\ burned' \in Nat /\ rewarded' \in Nat
       /\ e.in = e.amount + e.slashed + e.out /\ e.requestedAt <= stk_now
  BY <1>1, <1>2, <1>3, <1>7
<1> QED
  BY <1>2, <1>6, <1>10, <1>11, StakeKept DEF s

\* decrementChallengeCount().
LEMMA Decrements == ASSUME StkInv, NEW p \in Accounts, Stk!decrementChallengeCount(p) PROVE StkInv'
<1> DEFINE s == stakes[p]
<1>1. /\ s \in StakeRow /\ stakes \in [Accounts -> StakeRow]
      /\ {s.amount, s.requestedAt, s.pending, s.challenges, s.slashed, s.in, s.out} \subseteq Nat
      /\ s.in = s.amount + s.slashed + s.out /\ s.requestedAt <= stk_now
      /\ {bal, burned, rewarded, Stakes, stk_now} \subseteq Nat /\ bal >= Stakes
  BY StakeFields DEF StkInv
<1>2. /\ stakes' = [stakes EXCEPT ![p].challenges = IF s.challenges > 0 THEN s.challenges - 1 ELSE 0]
      /\ UNCHANGED <<bal, burned, rewarded, mvpMode, stk_now>>
  BY <1>1 DEF Stk!decrementChallengeCount
<1>3. PICK u \in Nat : u = IF s.challenges > 0 THEN s.challenges - 1 ELSE 0
  BY <1>1, <1>2
<1> DEFINE e == [s EXCEPT !.challenges = u]
<1>4. stakes' = [stakes EXCEPT ![p].challenges = u]
  BY <1>2, <1>3
<1>5. /\ DOMAIN stakes' = Accounts /\ stakes' = [q \in Accounts |-> stakes'[q]]
      /\ \A q \in Accounts : q # p => stakes'[q] = stakes[q]
  BY <1>1, <1>4
<1>6. stakes'[p] = e
  BY <1>1, <1>4
<1>7. /\ e.amount = s.amount /\ e.requestedAt = s.requestedAt /\ e.pending = s.pending /\ e.challenges = u
      /\ e.slashed = s.slashed /\ e.in = s.in /\ e.out = s.out
  BY <1>1 DEF StakeRow
<1>8. DOMAIN e = DOMAIN s /\ e = [k \in DOMAIN e |-> e[k]]
  BY <1>1
<1> HIDE DEF s, e
<1>9. e \in StakeRow
  BY <1>1, <1>7, <1>8, RowIs
<1>10. Writes(p)
  BY <1>1, <1>5, <1>6, <1>9 DEF Writes
<1>11. /\ bal' \in Nat /\ bal' >= Stakes - s.amount + e.amount /\ burned' \in Nat /\ rewarded' \in Nat
       /\ e.in = e.amount + e.slashed + e.out /\ e.requestedAt <= stk_now
  BY <1>1, <1>2, <1>3, <1>7
<1> QED
  BY <1>2, <1>6, <1>10, <1>11, StakeKept DEF s

\* The staking contract's steps.
LEMMA StkSteps == ASSUME StkInv, [Stk!Next]_stkVars PROVE StkInv'
<1>1. CASE Stk!disableMvpMode
  BY <1>1 DEF Stk!disableMvpMode, StkInv, Stk!Conserved, Stakes
<1>2. CASE Stk!Tick
  <2>1. /\ UNCHANGED <<stakes, bal, burned, rewarded, mvpMode>> /\ stk_now' = stk_now + 1
    BY <1>2 DEF Stk!Tick
  <2>2. \A q \in Accounts : stakes[q].requestedAt \in Nat
    BY DEF StkInv, StakeRow
  <2> QED
    BY <2>1, <2>2 DEF StkInv, Stk!Conserved, Stakes
<1>3. CASE UNCHANGED stkVars
  BY <1>3 DEF stkVars, StkInv, Stk!Conserved, Stakes
<1>4. ASSUME NEW p \in Accounts,
             \/ \E a \in StakeAmounts : Stk!stake(p, a) \/ Stk!requestUnstake(p, a)
             \/ Stk!unstake(p) \/ Stk!incrementChallengeCount(p) \/ Stk!decrementChallengeCount(p)
             \/ \E a \in StakeAmounts, c \in {Challenged, TRUE} : Stk!slash(p, a, c)
      PROVE StkInv'
  BY <1>4, Stake, RequestUnstake, Unstake, Increments, Decrements, Slash
<1> QED
  BY <1>1, <1>2, <1>3, <1>4 DEF Stk!Next

\* What the staking contract promises follows.
LEMMA StkSound == StkInv => Stk!TypeOK /\ Stk!Conserved /\ Stk!Solvent
BY StakedIs DEF StkInv, Stk!TypeOK, Stk!Solvent, StakeRow

-----------------------------------------------------------------------------
(* A batch of rewards takes effect entry by entry. *)

\* The entry the fold takes last.
Top(s) == CHOOSE x \in s : \A y \in s : x >= y

\* A non-empty set of an initial segment's numbers has a greatest, and the segment's is its end.
LEMMA TopIn ==
  ASSUME NEW n \in Nat
  PROVE  /\ \A s \in SUBSET (1..n) : s # {} => Top(s) \in s
         /\ n # 0 => Top(1..n) = n
<1>1. ASSUME NEW s \in SUBSET (1..n), s # {} PROVE \E x \in s : \A y \in s : x >= y
  <2> DEFINE down == {n - x : x \in s}
  <2>0. \A y \in s : y \in Nat /\ n - y \in Nat
    OBVIOUS
  <2>1. down \subseteq Nat /\ down # {}
    BY <1>1, <2>0
  <2>2. PICK k \in down : \A m \in down : k <= m
    <3> HIDE DEF down
    <3> QED
      BY <2>1, NatLeast
  <2>3. PICK x \in s : k = n - x
    BY <2>2
  <2>4. \A y \in s : n - x <= n - y
    BY <2>2, <2>3
  <2>5. \A y \in s : x >= y
    <3> SUFFICES ASSUME NEW y \in s PROVE x >= y
      OBVIOUS
    <3>1. n - x <= n - y /\ x \in Nat /\ y \in Nat
      BY <2>0, <2>4
    <3> QED
      BY <3>1
  <2> QED
    BY <2>5
<1>2. \A s \in SUBSET (1..n) : s # {} => Top(s) \in s /\ \A y \in s : Top(s) >= y
  BY <1>1 DEF Top
<1>3. ASSUME n # 0 PROVE Top(1..n) = n
  <2>1. n \in 1..n
    BY <1>3
  <2>2. Top(1..n) \in 1..n /\ Top(1..n) >= n
    BY <2>1, <1>2
  <2> HIDE DEF Top
  <2> QED
    BY <2>2
<1> QED
  BY <1>2, <1>3

\* q runs the batch x from the books b over every part of T, as the contract's loop does.
Runs(q, b, x, T) ==
  q = [s \in SUBSET T |-> IF s = {} THEN b ELSE Esc!Reward(q[s \ {Top(s)}], x[Top(s)])]

\* Two such functions agree wherever both are defined, ...
LEMMA RunsAgree ==
  ASSUME NEW n \in Nat, NEW b, NEW x, NEW p, NEW q, NEW A, A \subseteq 1..n, NEW B, B \subseteq 1..n,
         Runs(p, b, x, A), Runs(q, b, x, B)
  PROVE  \A s \in SUBSET (A \cap B) : p[s] = q[s]
<1> DEFINE Bad == {s \in SUBSET (A \cap B) : p[s] # q[s]}
<1> SUFFICES ASSUME Bad # {} PROVE FALSE
  OBVIOUS
<1>1. PICK T \in Bad : \A U \in Bad : U \subseteq T => U = T
  <2> DEFINE S == 1..n
  <2>1. Bad \subseteq SUBSET S
    OBVIOUS
  <2>2. IsFiniteSet(S)
    BY FS_Interval
  <2>3. Bad # {}
    OBVIOUS
  <2> HIDE DEF Bad, S
  <2> QED
    BY <2>1, <2>2, <2>3, LeastFailing
<1>2. T \in SUBSET A /\ T \in SUBSET B
  OBVIOUS
<1>3. T # {} => Top(T) \in T
  BY <1>2, TopIn
<1> HIDE DEF Top
<1>4. T # {} => p[T \ {Top(T)}] = q[T \ {Top(T)}]
  BY <1>1, <1>3
<1>5. p[T] = IF T = {} THEN b ELSE Esc!Reward(p[T \ {Top(T)}], x[Top(T)])
  BY <1>2 DEF Runs
<1>6. q[T] = IF T = {} THEN b ELSE Esc!Reward(q[T \ {Top(T)}], x[Top(T)])
  BY <1>2 DEF Runs
<1>7. p[T] # q[T]
  OBVIOUS
<1> HIDE DEF Bad
<1> QED
  BY <1>4, <1>5, <1>6, <1>7

\* ... and there is one for every batch.
LEMMA RunsExist ==
  ASSUME NEW n \in Nat, NEW b, NEW x
  PROVE  \E q : Runs(q, b, x, 1..n)
<1> DEFINE S == 1..n
           Bad == {T \in SUBSET S : \A q : ~ Runs(q, b, x, T)}
<1> SUFFICES ASSUME Bad # {} PROVE FALSE
  OBVIOUS
<1>1. PICK T \in Bad : \A U \in Bad : U \subseteq T => U = T
  <2>1. Bad \subseteq SUBSET S /\ IsFiniteSet(S)
    BY FS_Interval
  <2> HIDE DEF Bad, S
  <2> QED
    BY <2>1, LeastFailing
<1> DEFINE of(U) == CHOOSE q : Runs(q, b, x, U)
           rest(s) == s \ {Top(s)}
           g == [s \in SUBSET T |-> IF s = {} THEN b ELSE Esc!Reward(of(rest(s))[rest(s)], x[Top(s)])]
<1>2. \A U \in SUBSET T : U # T => Runs(of(U), b, x, U)
  <2> SUFFICES ASSUME NEW U \in SUBSET T, U # T PROVE \E q : Runs(q, b, x, U)
    OBVIOUS
  <2> QED
    BY <1>1
<1>3. \A s \in SUBSET T : s # {} => rest(s) \in SUBSET T /\ rest(s) # T /\ rest(s) # s
  <2>1. \A s \in SUBSET T : s \in SUBSET (1..n)
    OBVIOUS
  <2>2. \A s \in SUBSET T : s # {} => Top(s) \in s
    BY <2>1, TopIn
  <2> HIDE DEF Top
  <2> QED
    BY <2>2
<1>4. \A s \in SUBSET T : s # {} => of(rest(s))[rest(s)] = g[rest(s)]
  <2> SUFFICES ASSUME NEW s \in SUBSET T, s # {} PROVE of(rest(s))[rest(s)] = g[rest(s)]
    OBVIOUS
  <2> DEFINE u == rest(s)
  <2>1. u \in SUBSET T /\ Runs(of(u), b, x, u)
    BY <1>2, <1>3
  <2>2. CASE u = {}
    <3>1. of(u)[u] = b
      <4> HIDE DEF of
      <4> QED BY <2>1, <2>2 DEF Runs
    <3>2. g[u] = b
      BY <2>1, <2>2
    <3> QED BY <3>1, <3>2
  <2>3. CASE u # {}
    <3>1. of(u)[u] = Esc!Reward(of(u)[rest(u)], x[Top(u)])
      <4> HIDE DEF of, u
      <4> QED BY <2>1, <2>3 DEF Runs
    <3>2. g[u] = Esc!Reward(of(rest(u))[rest(u)], x[Top(u)])
      BY <2>1, <2>3
    <3>3. rest(u) \in SUBSET T /\ rest(u) # T /\ rest(u) \subseteq u
      BY <1>3, <2>1, <2>3
    <3>4. Runs(of(rest(u)), b, x, rest(u))
      BY <1>2, <3>3
    <3>5. of(u)[rest(u)] = of(rest(u))[rest(u)]
      <4>1. u \subseteq 1..n /\ rest(u) \subseteq 1..n /\ rest(u) \in SUBSET (u \cap rest(u))
        BY <2>1, <3>3
      <4> HIDE DEF of, rest
      <4> QED BY <2>1, <3>4, <4>1, RunsAgree
    <3> QED BY <3>1, <3>2, <3>5
  <2> QED BY <2>2, <2>3
<1>5. Runs(g, b, x, T)
  <2>1. \A s \in SUBSET T : s # {} => g[s] = Esc!Reward(g[s \ {Top(s)}], x[Top(s)])
    BY <1>4
  <2> DEFINE gg == [s \in SUBSET T |-> IF s = {} THEN b ELSE Esc!Reward(g[s \ {Top(s)}], x[Top(s)])]
  <2>2. \A s \in SUBSET T : gg[s] = g[s]
    BY <2>1
  <2>3. g = gg
    <3>1. g = [s \in SUBSET T |-> g[s]] OBVIOUS
    <3>2. gg = [s \in SUBSET T |-> gg[s]] OBVIOUS
    <3> HIDE DEF g, gg
    <3> QED BY <2>2, <3>1, <3>2
  <2> HIDE DEF g
  <2> QED BY <2>3 DEF Runs
<1> QED
  BY <1>5

\* The books after the batch x.
After(b, x) == Esc!FoldLeft(Esc!Reward, b, x)

\* The books after each entry of a batch of n, q[1..m] those after the first m of them.
Batched(q, n, b, x) ==
  /\ q[{}] = b /\ After(b, x) = q[1..n]
  /\ \A m \in 1..n : q[1..m] = Esc!Reward(q[1..(m - 1)], x[m])

\* The books after a batch are those after its last entry, one entry at a time from the books before it.
LEMMA BatchRuns ==
  ASSUME NEW n \in Nat, NEW b, NEW x, DOMAIN x = 1..n
  PROVE  \E q : Batched(q, n, b, x)
<1> DEFINE q == CHOOSE r : Runs(r, b, x, 1..n)
<1>1. After(b, x) = q[1..n]
  BY DEF After, Esc!FoldLeft, Esc!MapThenFoldSet, Esc!Max, Top, Runs
<1>2. Runs(q, b, x, 1..n)
  BY RunsExist
<1> HIDE DEF q
<1>3. q[{}] = b
  BY <1>2 DEF Runs
<1>4. ASSUME NEW m \in 1..n PROVE q[1..m] = Esc!Reward(q[1..(m - 1)], x[m])
  <2>a. m \in Nat /\ m # 0 /\ m <= n /\ m \in 1..m
    OBVIOUS
  <2>b. 1..m \in SUBSET (1..n)
    BY <2>a
  <2>c. \A k : k \in (1..m) \ {m} <=> k \in 1..(m - 1)
    BY <2>a
  <2>d. (1..m) \ {m} = 1..(m - 1)
    BY <2>c
  <2>1. m \in Nat /\ m # 0 /\ 1..m \in SUBSET (1..n) /\ 1..m # {} /\ (1..m) \ {m} = 1..(m - 1)
    BY <2>a, <2>b, <2>d
  <2>2. Top(1..m) = m
    BY <2>1, TopIn
  <2>3. q[1..m] = Esc!Reward(q[(1..m) \ {Top(1..m)}], x[Top(1..m)])
    BY <1>2, <2>1 DEF Runs
  <2> HIDE DEF Top
  <2> QED
    BY <2>1, <2>2, <2>3
<1> QED
  BY <1>1, <1>3, <1>4 DEF Batched

(* Books. *)

\* What the escrow's constants are: the two parts of a payment are no more than the whole.
LEMMA EscrowNumbers ==
  /\ IsFiniteSet(Workloads) /\ IsFiniteSet(Accounts) /\ Payments \subseteq Nat /\ Rewards \subseteq Nat
  /\ BURN_BPS \in Nat /\ TREASURY_BPS \in Nat /\ BPS_DENOM \in Nat \ {0} /\ BURN_BPS + TREASURY_BPS <= BPS_DENOM
  /\ MaxBatch \in Nat /\ MaxPaid \in Nat
BY WorkloadsAssumption DEF Esc!WorkloadEscrowAssumption, Esc!IsFiniteSet, IsFiniteSet

BookRow == [d : [Workloads -> Nat], p : [Accounts -> Nat], c : [Accounts -> [Workloads -> Nat]], ok : BOOLEAN]

\* What is deposited, what is pending, and what was ever credited, by the books b.
InDeposits(b) == SumFunctionOnSet(b.d, Workloads)
InPending(b) == SumFunctionOnSet(b.p, Accounts)
CreditedTo(b) == [p \in Accounts |-> SumFunctionOnSet(b.c[p], Workloads)]
InCredits(b) == SumFunctionOnSet(CreditedTo(b), Accounts)

\* The sums of books are naturals.
LEMMA BookSums ==
  ASSUME NEW b \in BookRow
  PROVE  /\ InDeposits(b) \in Nat /\ InPending(b) \in Nat /\ InCredits(b) \in Nat
         /\ CreditedTo(b) \in [Accounts -> Nat]
<1>1. b.d \in [Workloads -> Nat] /\ b.p \in [Accounts -> Nat] /\ b.c \in [Accounts -> [Workloads -> Nat]]
  BY DEF BookRow
<1>2. /\ \A w \in Workloads : b.d[w] \in Nat
      /\ \A p \in Accounts : b.p[p] \in Nat
      /\ \A p \in Accounts : \A w \in Workloads : b.c[p][w] \in Nat
  BY <1>1
<1>3. \A p \in Accounts : SumFunctionOnSet(b.c[p], Workloads) \in Nat
  BY <1>2, EscrowNumbers, SumNat
<1>4. CreditedTo(b) \in [Accounts -> Nat]
  BY <1>3 DEF CreditedTo
<1>5. \A p \in Accounts : CreditedTo(b)[p] \in Nat
  BY <1>4
<1> QED
  BY <1>2, <1>4, <1>5, EscrowNumbers, SumNat DEF InDeposits, InPending, InCredits

\* One entry moves its amount from a deposit to what is pending and to what was credited, or leaves the books.
LEMMA EntryMoves ==
  ASSUME NEW b \in BookRow, NEW x \in [p : Accounts, w : Workloads, a : Rewards]
  PROVE  LET r == Esc!Reward(b, x)
         IN /\ r \in BookRow /\ InDeposits(r) + InPending(r) = InDeposits(b) + InPending(b)
            /\ InCredits(r) + InPending(b) = InCredits(b) + InPending(r)
<1> DEFINE r == Esc!Reward(b, x)
<1>1. b.d \in [Workloads -> Nat] /\ b.p \in [Accounts -> Nat] /\ b.c \in [Accounts -> [Workloads -> Nat]] /\ b.ok \in BOOLEAN
  BY DEF BookRow
<1>2. PICK p \in Accounts, w \in Workloads, a \in Nat : x.p = p /\ x.w = w /\ x.a = a
  BY EscrowNumbers
<1>3. CASE ~ (b.ok /\ x.a > 0 /\ b.d[x.w] >= x.a)
  <2>1. r = [b EXCEPT !.ok = FALSE]
    BY <1>3 DEF Esc!Reward
  <2> HIDE DEF r
  <2>2. r \in BookRow /\ r.d = b.d /\ r.p = b.p /\ r.c = b.c
    BY <2>1 DEF BookRow
  <2>3. InDeposits(r) = InDeposits(b) /\ InPending(r) = InPending(b) /\ InCredits(r) = InCredits(b)
    BY <2>2 DEF InDeposits, InPending, InCredits, CreditedTo
  <2> QED
    BY <2>2, <2>3, BookSums DEF r
<1>4. CASE b.ok /\ x.a > 0 /\ b.d[x.w] >= x.a
  <2>1. r = [b EXCEPT !.d[w] = @ - a, !.p[p] = @ + a, !.c[p][w] = @ + a] /\ b.d[w] >= a
    BY <1>2, <1>4 DEF Esc!Reward
  <2> DEFINE d == [b.d EXCEPT ![w] = @ - a]
             q == [b.p EXCEPT ![p] = @ + a]
             row == [b.c[p] EXCEPT ![w] = @ + a]
             c == [b.c EXCEPT ![p] = row]
  <2>2. /\ b.d[w] \in Nat /\ b.d[w] - a \in Nat /\ b.p[p] \in Nat /\ b.p[p] + a \in Nat
        /\ b.c[p] \in [Workloads -> Nat] /\ b.c[p][w] \in Nat /\ b.c[p][w] + a \in Nat
    BY <1>1, <2>1
  <2>3. /\ d \in [Workloads -> Nat] /\ d[w] = b.d[w] - a /\ \A v \in Workloads \ {w} : d[v] = b.d[v]
        /\ q \in [Accounts -> Nat] /\ q[p] = b.p[p] + a /\ \A o \in Accounts \ {p} : q[o] = b.p[o]
    BY <1>1, <2>2
  <2>4. row \in [Workloads -> Nat] /\ row[w] = b.c[p][w] + a /\ \A v \in Workloads \ {w} : row[v] = b.c[p][v]
    BY <1>1, <2>2
  <2>5. c \in [Accounts -> [Workloads -> Nat]] /\ c[p] = row /\ \A o \in Accounts \ {p} : c[o] = b.c[o]
    <3> HIDE DEF row
    <3> QED
      BY <1>1, <2>4
  <2>6. r.d = d /\ r.p = q /\ r.c = c /\ r.ok = b.ok
    BY <2>1 DEF BookRow
  <2>7. DOMAIN r = DOMAIN b /\ r = [k \in DOMAIN r |-> r[k]]
    BY <2>1
  <2> HIDE DEF r, d, q, c, row
  <2>8. r \in BookRow
    BY <1>1, <2>3, <2>5, <2>6, <2>7 DEF BookRow
  <2>9. InDeposits(r) = InDeposits(b) - a
    <3>1. \A v \in Workloads : b.d[v] \in Nat /\ d[v] \in Nat
      BY <1>1, <2>3
    <3>2. SumFunctionOnSet(d, Workloads) = SumFunctionOnSet(b.d, Workloads) - b.d[w] + d[w]
          /\ SumFunctionOnSet(b.d, Workloads) \in Nat
      BY <3>1, <2>3, EscrowNumbers, SumChange
    <3> QED
      BY <2>2, <2>3, <2>6, <3>2 DEF InDeposits
  <2>10. InPending(r) = InPending(b) + a
    <3>1. \A o \in Accounts : b.p[o] \in Nat /\ q[o] \in Nat
      BY <1>1, <2>3
    <3>2. SumFunctionOnSet(q, Accounts) = SumFunctionOnSet(b.p, Accounts) - b.p[p] + q[p]
          /\ SumFunctionOnSet(b.p, Accounts) \in Nat
      BY <3>1, <2>3, EscrowNumbers, SumChange
    <3> QED
      BY <2>2, <2>3, <2>6, <3>2 DEF InPending
  <2>11. InCredits(r) = InCredits(b) + a
    <3> DEFINE to == CreditedTo(b)
               tr == CreditedTo(r)
               old == b.c[p]
    <3>1. to \in [Accounts -> Nat] /\ tr \in [Accounts -> Nat]
      BY <2>8, BookSums
    <3>2. \A v \in Workloads : old[v] \in Nat /\ row[v] \in Nat
      BY <2>2, <2>4
    <3>3. SumFunctionOnSet(row, Workloads) = SumFunctionOnSet(old, Workloads) - old[w] + row[w]
          /\ SumFunctionOnSet(old, Workloads) \in Nat
      <4>1. \A v \in Workloads \ {w} : row[v] = old[v]
        BY <2>4
      <4> HIDE DEF old
      <4> QED
        BY <3>2, <4>1, EscrowNumbers, SumChange
    <3>4. tr[p] = SumFunctionOnSet(row, Workloads) /\ to[p] = SumFunctionOnSet(old, Workloads)
      BY <2>5, <2>6 DEF CreditedTo
    <3>5. \A o \in Accounts \ {p} : tr[o] = to[o]
      BY <2>5, <2>6 DEF CreditedTo
    <3>6. tr[p] = to[p] + a
      BY <2>2, <2>4, <3>3, <3>4
    <3>7. \A o \in Accounts : to[o] \in Nat /\ tr[o] \in Nat
      BY <3>1
    <3> HIDE DEF to, tr
    <3>8. SumFunctionOnSet(tr, Accounts) = SumFunctionOnSet(to, Accounts) - to[p] + tr[p]
          /\ SumFunctionOnSet(to, Accounts) \in Nat
      BY <3>5, <3>7, EscrowNumbers, SumChange
    <3> QED
      BY <3>6, <3>7, <3>8 DEF InCredits, to, tr
  <2> QED
    BY <2>8, <2>9, <2>10, <2>11, BookSums DEF r
<1> QED
  BY <1>3, <1>4

\* A batch moves amounts from deposits to what is pending and to what was credited, however often it names one.
LEMMA BatchMoves ==
  ASSUME NEW n \in Nat, NEW b \in BookRow, NEW x \in [1..n -> [p : Accounts, w : Workloads, a : Rewards]]
  PROVE  LET r == After(b, x)
         IN /\ r \in BookRow /\ InDeposits(r) + InPending(r) = InDeposits(b) + InPending(b)
            /\ InCredits(r) + InPending(b) = InCredits(b) + InPending(r)
<1> DEFINE E == [p : Accounts, w : Workloads, a : Rewards]
<1> DEFINE Moved(r) == /\ r \in BookRow /\ InDeposits(r) + InPending(r) = InDeposits(b) + InPending(b)
                       /\ InCredits(r) + InPending(b) = InCredits(b) + InPending(r)
<1>0. PICK q : Batched(q, n, b, x)
  <2>1. DOMAIN x = 1..n
    OBVIOUS
  <2> QED
    BY <2>1, BatchRuns
<1>1. /\ q[{}] = b /\ After(b, x) = q[1..n]
      /\ \A m \in 1..n : q[1..m] = Esc!Reward(q[1..(m - 1)], x[m])
  BY <1>0 DEF Batched
<1>2. \A m \in 1..n : x[m] \in E
  OBVIOUS
<1> DEFINE Good == {m \in Nat : m <= n => Moved(q[1..m])}
<1>3. 0 \in Good
  <2>1. 1..0 = {}
    OBVIOUS
  <2>2. Moved(b)
    OBVIOUS
  <2> HIDE DEF Moved
  <2> QED
    BY <1>1, <2>1, <2>2
<1>4. ASSUME NEW m \in Nat, m \in Good PROVE m + 1 \in Good
  <2> SUFFICES ASSUME m + 1 <= n PROVE Moved(q[1..(m + 1)])
    OBVIOUS
  <2>1. m + 1 \in 1..n /\ (m + 1) - 1 = m /\ Moved(q[1..m])
    BY <1>4
  <2>2. q[1..(m + 1)] = Esc!Reward(q[1..((m + 1) - 1)], x[m + 1])
    BY <1>1, <2>1
  <2>a. PICK c : c = q[1..m]
    OBVIOUS
  <2>b. PICK y \in E : y = x[m + 1]
    BY <1>2, <2>1
  <2> DEFINE r == Esc!Reward(c, y)
  <2>3. q[1..(m + 1)] = r
    BY <2>1, <2>2, <2>a, <2>b
  <2>4. Moved(c)
    BY <2>1, <2>a
  <2>5. /\ r \in BookRow /\ InDeposits(r) + InPending(r) = InDeposits(c) + InPending(c)
        /\ InCredits(r) + InPending(c) = InCredits(c) + InPending(r)
    BY <2>4, EntryMoves
  <2>6. {InDeposits(b), InPending(b), InCredits(b), InDeposits(c), InPending(c), InCredits(c),
         InDeposits(r), InPending(r), InCredits(r)} \subseteq Nat
    BY <2>4, <2>5, BookSums
  <2> HIDE DEF r
  <2>c. /\ InDeposits(c) + InPending(c) = InDeposits(b) + InPending(b)
        /\ InCredits(c) + InPending(b) = InCredits(b) + InPending(c)
    BY <2>4
  <2>d. InDeposits(r) + InPending(r) = InDeposits(b) + InPending(b)
    BY <2>5, <2>c
  <2>e. InCredits(r) + InPending(b) = InCredits(b) + InPending(r)
    <3>1. \A u, v, w, i, j, k \in Nat : u + j = v + k /\ v + i = w + j => u + i = w + k
      OBVIOUS
    <3>2. InCredits(r) + InPending(c) = InCredits(c) + InPending(r)
      BY <2>5
    <3>3. InCredits(c) + InPending(b) = InCredits(b) + InPending(c)
      BY <2>c
    <3> DEFINE u == InCredits(r)
               v == InCredits(c)
               w == InCredits(b)
               i == InPending(b)
               j == InPending(c)
               k == InPending(r)
    <3>4. u \in Nat /\ v \in Nat /\ w \in Nat /\ i \in Nat /\ j \in Nat /\ k \in Nat
      BY <2>6
    <3>5. u + j = v + k /\ v + i = w + j
      BY <3>2, <3>3
    <3> HIDE DEF u, v, w, i, j, k
    <3>6. u + i = w + k
      BY <3>1, <3>4, <3>5
    <3> QED
      BY <3>6 DEF u, w, i, k
  <2>7. Moved(r)
    BY <2>5, <2>d, <2>e
  <2> HIDE DEF Moved
  <2> QED
    BY <2>3, <2>7
<1> HIDE DEF Good
<1>5. Nat \subseteq Good
  BY <1>3, <1>4, NatSteps
<1>6. Moved(q[1..n])
  BY <1>5 DEF Good
<1> QED
  BY <1>1, <1>6

(* The escrow. *)

Escrow == Esc!Books
EscInv ==
  /\ deposits \in [Workloads -> Nat] /\ pending \in [Accounts -> Nat] /\ credited \in [Accounts -> [Workloads -> Nat]]
  /\ {esc_bal, paid, esc_burned, treasury, withdrawn, refunded} \subseteq Nat
  /\ ~ HasTreasury => treasury = 0
  /\ esc_bal >= InDeposits(Escrow) + InPending(Escrow)
  /\ InCredits(Escrow) = InPending(Escrow) + withdrawn
  /\ InCredits(Escrow) + InDeposits(Escrow) + refunded + esc_burned + treasury <= paid

\* The books as the invariant reads them.
LEMMA EscrowBooks ==
  /\ EscInv => Escrow \in BookRow
  /\ Escrow.d = deposits /\ Escrow.p = pending /\ Escrow.c = credited
  /\ Escrow'.d = deposits' /\ Escrow'.p = pending' /\ Escrow'.c = credited'
BY DEF Escrow, Esc!Books, BookRow, EscInv

\* What the contract's own sums are.
LEMMA EscrowSums ==
  /\ Esc!Deposited = InDeposits(Escrow) /\ Esc!Pending = InPending(Escrow)
  /\ Esc!SumFunctionOnSet(Esc!creditedTo, Accounts) = InCredits(Escrow)
<1>1. \A f, S : Esc!SumFunctionOnSet(f, S) = SumFunctionOnSet(f, S)
  BY DEF Esc!SumFunctionOnSet, Esc!FoldFunctionOnSet, Esc!MapThenFoldSet,
         SumFunctionOnSet, FoldFunctionOnSet, MapThenFoldSet
<1> QED
  BY <1>1, EscrowBooks DEF Esc!Deposited, Esc!Pending, Esc!creditedTo, InDeposits, InPending, InCredits, CreditedTo

\* The escrow starts empty.
LEMMA EscInit == Esc!Init => EscInv
<1> SUFFICES ASSUME Esc!Init PROVE EscInv
  OBVIOUS
<1>1. /\ deposits = [w \in Workloads |-> 0] /\ pending = [p \in Accounts |-> 0]
      /\ credited = [p \in Accounts |-> [w \in Workloads |-> 0]]
      /\ esc_bal = 0 /\ paid = 0 /\ esc_burned = 0 /\ treasury = 0 /\ withdrawn = 0 /\ refunded = 0
  BY DEF Esc!Init
<1>2. /\ deposits \in [Workloads -> Nat] /\ pending \in [Accounts -> Nat] /\ credited \in [Accounts -> [Workloads -> Nat]]
      /\ \A w \in Workloads : deposits[w] = 0
      /\ \A p \in Accounts : pending[p] = 0
      /\ \A p \in Accounts : \A w \in Workloads : credited[p][w] = 0
  BY <1>1
<1>3. \A p \in Accounts : SumFunctionOnSet(credited[p], Workloads) = 0
  BY <1>2, EscrowNumbers, SumZero
<1>4. \A p \in Accounts : CreditedTo(Escrow)[p] = 0
  BY <1>3, EscrowBooks DEF CreditedTo
<1>5. SumFunctionOnSet(CreditedTo(Escrow), Accounts) = 0
  BY <1>4, EscrowNumbers, SumZero
<1>6. SumFunctionOnSet(deposits, Workloads) = 0 /\ SumFunctionOnSet(pending, Accounts) = 0
  BY <1>2, EscrowNumbers, SumZero
<1>7. InDeposits(Escrow) = 0 /\ InPending(Escrow) = 0 /\ InCredits(Escrow) = 0
  BY <1>5, <1>6, EscrowBooks DEF InDeposits, InPending, InCredits
<1> QED
  BY <1>1, <1>2, <1>7 DEF EscInv

\* What an invariant's sums are, of the variables.
LEMMA EscrowFacts ==
  ASSUME EscInv
  PROVE  /\ Escrow \in BookRow
         /\ InDeposits(Escrow) \in Nat /\ InPending(Escrow) \in Nat /\ InCredits(Escrow) \in Nat
         /\ InDeposits(Escrow) = SumFunctionOnSet(deposits, Workloads)
         /\ InPending(Escrow) = SumFunctionOnSet(pending, Accounts)
         /\ \A w \in Workloads : deposits[w] \in Nat
         /\ \A p \in Accounts : pending[p] \in Nat
<1>1. Escrow \in BookRow
  BY EscrowBooks
<1> QED
  BY <1>1, BookSums, EscrowBooks DEF EscInv, InDeposits, InPending

\* A payment's parts: what is burned and what the treasury gets leave a natural part for the provider.
LEMMA PaymentParts ==
  ASSUME NEW a \in Nat
  PROVE  /\ Esc!Burned(a) \in Nat /\ Esc!ToTreasury(a) \in Nat /\ Esc!Escrowed(a) \in Nat
         /\ Esc!Burned(a) + Esc!ToTreasury(a) + Esc!Escrowed(a) = a
<1> DEFINE u == (a * BURN_BPS) \div BPS_DENOM
           v == (a * TREASURY_BPS) \div BPS_DENOM
<1>1. u \in Nat /\ v \in Nat /\ u + v <= a
  <2>1. a * BURN_BPS \in Nat /\ a * TREASURY_BPS \in Nat /\ BPS_DENOM \in Nat \ {0} /\ a * BPS_DENOM \in Nat
    BY EscrowNumbers
  <2>2. a * (BURN_BPS + TREASURY_BPS) <= a * BPS_DENOM
    BY EscrowNumbers, TimesKeepsOrder
  <2>3. a * (BURN_BPS + TREASURY_BPS) = a * BURN_BPS + a * TREASURY_BPS
    BY EscrowNumbers
  <2>4. \A x, y \in Nat : \A d \in Nat \ {0} :
          /\ x \div d \in Nat /\ y \div d \in Nat
          /\ (x \div d) + (y \div d) <= (x + y) \div d
    OBVIOUS
  <2>5. (a * BURN_BPS + a * TREASURY_BPS) \div BPS_DENOM <= (a * BPS_DENOM) \div BPS_DENOM
    <3> DEFINE x == a * BURN_BPS + a * TREASURY_BPS
               y == a * BPS_DENOM
    <3>1. x \in Nat /\ y \in Nat /\ x <= y /\ BPS_DENOM \in Nat \ {0}
      BY <2>1, <2>2, <2>3
    <3> HIDE DEF x, y
    <3>2. x \div BPS_DENOM <= y \div BPS_DENOM
      BY <3>1, DivKeepsOrder
    <3> QED
      BY <3>2 DEF x, y
  <2>6. (a * BPS_DENOM) \div BPS_DENOM = a
    BY <2>1
  <2> DEFINE x == a * BURN_BPS
             y == a * TREASURY_BPS
  <2>7. u = x \div BPS_DENOM /\ v = y \div BPS_DENOM /\ x \in Nat /\ y \in Nat /\ (x + y) \div BPS_DENOM <= a
    BY <2>1, <2>5, <2>6
  <2>8. (x + y) \div BPS_DENOM \in Nat
    BY <2>1
  <2> HIDE DEF u, v, x, y
  <2> QED
    BY <2>1, <2>4, <2>7, <2>8
<1>2. /\ Esc!Burned(a) = IF Burns THEN u ELSE 0
      /\ Esc!ToTreasury(a) = IF Burns THEN v ELSE 0
      /\ Esc!Escrowed(a) = a - Esc!Burned(a) - Esc!ToTreasury(a)
  BY DEF Esc!Burned, Esc!ToTreasury, Esc!Escrowed
<1> HIDE DEF u, v
<1> QED
  BY <1>1, <1>2

\* fundWorkload(): what is escrowed is what is deposited.
LEMMA Funds ==
  ASSUME EscInv, NEW w \in Workloads, NEW a \in Payments, Esc!fundWorkload(w, a)
  PROVE  EscInv'
<1> DEFINE x == Esc!Escrowed(a)
           b == Esc!Burned(a)
           t == IF HasTreasury THEN Esc!ToTreasury(a) ELSE 0
           u == Esc!ToTreasury(a)
<1>1. b \in Nat /\ t \in Nat /\ x \in Nat /\ u \in Nat /\ b + u + x = a /\ t <= u /\ a \in Nat /\ (~ HasTreasury => t = 0)
  BY EscrowNumbers, PaymentParts
<1>2. /\ paid' = paid + a /\ esc_burned' = esc_burned + b /\ treasury' = treasury + t
      /\ esc_bal' = esc_bal + a - b - t /\ deposits' = [deposits EXCEPT ![w] = @ + x]
      /\ UNCHANGED <<pending, credited, withdrawn, refunded>>
  BY DEF Esc!fundWorkload
<1> HIDE DEF x, b, t, u
<1>3. /\ deposits' \in [Workloads -> Nat] /\ deposits'[w] = deposits[w] + x
      /\ \A v \in Workloads \ {w} : deposits'[v] = deposits[v]
  BY <1>1, <1>2 DEF EscInv
<1>4. SumFunctionOnSet(deposits', Workloads) = SumFunctionOnSet(deposits, Workloads) + x
  <2>1. \A v \in Workloads : deposits[v] \in Nat /\ deposits'[v] \in Nat
    BY <1>3, EscrowFacts
  <2>2. /\ SumFunctionOnSet(deposits', Workloads) = SumFunctionOnSet(deposits, Workloads) - deposits[w] + deposits'[w]
        /\ SumFunctionOnSet(deposits, Workloads) \in Nat
    BY <1>3, <2>1, EscrowNumbers, SumChange
  <2> QED
    BY <1>1, <1>3, <2>1, <2>2
<1>5. InDeposits(Escrow)' = InDeposits(Escrow) + x
  BY <1>4, EscrowBooks DEF InDeposits
<1>6. InPending(Escrow)' = InPending(Escrow) /\ InCredits(Escrow)' = InCredits(Escrow)
  BY <1>2, EscrowBooks DEF InPending, InCredits, CreditedTo
<1>7. {InDeposits(Escrow), InPending(Escrow), InCredits(Escrow)} \subseteq Nat
  BY EscrowFacts
<1> QED
  BY <1>1, <1>2, <1>3, <1>5, <1>6, <1>7 DEF EscInv

\* rewardProviders(): what leaves the deposits is pending, and credited.
LEMMA RewardsBatch ==
  ASSUME EscInv, NEW n \in Nat, NEW x \in [1..n -> [p : Accounts, w : Workloads, a : Rewards]], Esc!rewardProviders(x)
  PROVE  EscInv'
<1> DEFINE r == After(Escrow, x)
<1>1. /\ deposits' = r.d /\ pending' = r.p /\ credited' = r.c
      /\ UNCHANGED <<esc_bal, paid, esc_burned, treasury, withdrawn, refunded>>
  BY DEF Esc!rewardProviders, After, Escrow
<1>2. /\ r \in BookRow /\ InDeposits(r) + InPending(r) = InDeposits(Escrow) + InPending(Escrow)
      /\ InCredits(r) + InPending(Escrow) = InCredits(Escrow) + InPending(r)
  BY EscrowFacts, BatchMoves
<1> HIDE DEF r
<1>3. InDeposits(Escrow)' = InDeposits(r) /\ InPending(Escrow)' = InPending(r) /\ InCredits(Escrow)' = InCredits(r)
  BY <1>1, EscrowBooks DEF InDeposits, InPending, InCredits, CreditedTo
<1>4. /\ InDeposits(Escrow) \in Nat /\ InPending(Escrow) \in Nat /\ InCredits(Escrow) \in Nat
      /\ InDeposits(r) \in Nat /\ InPending(r) \in Nat /\ InCredits(r) \in Nat
  BY <1>2, EscrowFacts, BookSums
<1>5. /\ deposits' \in [Workloads -> Nat] /\ pending' \in [Accounts -> Nat] /\ credited' \in [Accounts -> [Workloads -> Nat]]
  BY <1>1, <1>2 DEF BookRow
<1>6. /\ {esc_bal, paid, esc_burned, treasury, withdrawn, refunded} \subseteq Nat
      /\ esc_bal >= InDeposits(Escrow) + InPending(Escrow)
      /\ InCredits(Escrow) = InPending(Escrow) + withdrawn
      /\ InCredits(Escrow) + InDeposits(Escrow) + refunded + esc_burned + treasury <= paid
  BY DEF EscInv
<1>7. /\ esc_bal >= InDeposits(r) + InPending(r)
      /\ InCredits(r) = InPending(r) + withdrawn
      /\ InCredits(r) + InDeposits(r) + refunded + esc_burned + treasury <= paid
  <2> DEFINE d == InDeposits(Escrow)
             q == InPending(Escrow)
             c == InCredits(Escrow)
             d2 == InDeposits(r)
             q2 == InPending(r)
             c2 == InCredits(r)
  <2>1. /\ {esc_bal, paid, esc_burned, treasury, withdrawn, refunded} \subseteq Nat
        /\ d \in Nat /\ q \in Nat /\ c \in Nat /\ d2 \in Nat /\ q2 \in Nat /\ c2 \in Nat
    BY <1>4, <1>6
  <2>2. d2 + q2 = d + q /\ c2 + q = c + q2
    BY <1>2
  <2>3. esc_bal >= d + q /\ c = q + withdrawn /\ c + d + refunded + esc_burned + treasury <= paid
    BY <1>6
  <2> HIDE DEF d, q, c, d2, q2, c2
  <2>4. c2 = q2 + withdrawn /\ c2 + d2 = c + d
    <3>1. withdrawn \in Nat /\ c = q + withdrawn
      BY <2>1, <2>3
    <3>2. c2 = q2 + withdrawn
      BY <2>1, <2>2, <3>1
    <3>3. c2 + d2 = withdrawn + (d2 + q2)
      BY <2>1, <3>1, <3>2
    <3>4. c + d = withdrawn + (d + q)
      BY <2>1, <3>1
    <3> QED
      BY <2>2, <3>2, <3>3, <3>4
  <2>5. esc_bal >= d2 + q2 /\ c2 = q2 + withdrawn /\ c2 + d2 + refunded + esc_burned + treasury <= paid
    BY <2>1, <2>2, <2>3, <2>4
  <2> QED
    BY <2>5 DEF d2, q2, c2
<1>8. /\ esc_bal' >= InDeposits(Escrow)' + InPending(Escrow)'
      /\ InCredits(Escrow)' = InPending(Escrow)' + withdrawn'
      /\ InCredits(Escrow)' + InDeposits(Escrow)' + refunded' + esc_burned' + treasury' <= paid'
      /\ (~ HasTreasury => treasury' = 0)
  BY <1>1, <1>3, <1>7 DEF EscInv
<1>9. {esc_bal, paid, esc_burned, treasury, withdrawn, refunded}' \subseteq Nat
  BY <1>1, <1>6
<1> QED
  BY <1>5, <1>8, <1>9 DEF EscInv

\* withdrawEarnings(): what was pending is withdrawn.
LEMMA Withdraws == ASSUME EscInv, NEW p \in Accounts, Esc!withdrawEarnings(p) PROVE EscInv'
<1>1. /\ pending[p] <= esc_bal /\ withdrawn' = withdrawn + pending[p] /\ esc_bal' = esc_bal - pending[p]
      /\ pending' = [pending EXCEPT ![p] = 0]
      /\ UNCHANGED <<deposits, credited, paid, esc_burned, treasury, refunded>>
  BY DEF Esc!withdrawEarnings
<1>2. pending' \in [Accounts -> Nat] /\ pending'[p] = 0 /\ \A v \in Accounts \ {p} : pending'[v] = pending[v]
  BY <1>1 DEF EscInv
<1>3. SumFunctionOnSet(pending', Accounts) = SumFunctionOnSet(pending, Accounts) - pending[p]
  <2>1. \A v \in Accounts : pending[v] \in Nat /\ pending'[v] \in Nat
    BY <1>2, EscrowFacts
  <2>2. /\ SumFunctionOnSet(pending', Accounts) = SumFunctionOnSet(pending, Accounts) - pending[p] + pending'[p]
        /\ SumFunctionOnSet(pending, Accounts) \in Nat
    BY <1>2, <2>1, EscrowNumbers, SumChange
  <2> QED
    BY <1>2, <2>1, <2>2
<1>4. InPending(Escrow)' = InPending(Escrow) - pending[p]
  BY <1>3, EscrowBooks DEF InPending
<1>5. InDeposits(Escrow)' = InDeposits(Escrow) /\ InCredits(Escrow)' = InCredits(Escrow)
  BY <1>1, EscrowBooks DEF InDeposits, InCredits, CreditedTo
<1>6. /\ InDeposits(Escrow) \in Nat /\ InPending(Escrow) \in Nat /\ InCredits(Escrow) \in Nat /\ pending[p] \in Nat
  BY EscrowFacts
<1> QED
  BY <1>1, <1>2, <1>4, <1>5, <1>6 DEF EscInv

\* refundWorkload(): what is left of a deposit goes back.
LEMMA Refunds == ASSUME EscInv, NEW w \in Workloads, Esc!refundWorkload(w) PROVE EscInv'
<1>1. /\ deposits[w] <= esc_bal /\ refunded' = refunded + deposits[w] /\ esc_bal' = esc_bal - deposits[w]
      /\ deposits' = [deposits EXCEPT ![w] = 0]
      /\ UNCHANGED <<pending, credited, paid, esc_burned, treasury, withdrawn>>
  BY DEF Esc!refundWorkload
<1>2. deposits' \in [Workloads -> Nat] /\ deposits'[w] = 0 /\ \A v \in Workloads \ {w} : deposits'[v] = deposits[v]
  BY <1>1 DEF EscInv
<1>3. SumFunctionOnSet(deposits', Workloads) = SumFunctionOnSet(deposits, Workloads) - deposits[w]
  <2>1. \A v \in Workloads : deposits[v] \in Nat /\ deposits'[v] \in Nat
    BY <1>2, EscrowFacts
  <2>2. /\ SumFunctionOnSet(deposits', Workloads) = SumFunctionOnSet(deposits, Workloads) - deposits[w] + deposits'[w]
        /\ SumFunctionOnSet(deposits, Workloads) \in Nat
    BY <1>2, <2>1, EscrowNumbers, SumChange
  <2> QED
    BY <1>2, <2>1, <2>2
<1>4. InDeposits(Escrow)' = InDeposits(Escrow) - deposits[w]
  BY <1>3, EscrowBooks DEF InDeposits
<1>5. InPending(Escrow)' = InPending(Escrow) /\ InCredits(Escrow)' = InCredits(Escrow)
  BY <1>1, EscrowBooks DEF InPending, InCredits, CreditedTo
<1>6. /\ InDeposits(Escrow) \in Nat /\ InPending(Escrow) \in Nat /\ InCredits(Escrow) \in Nat /\ deposits[w] \in Nat
  BY EscrowFacts
<1> QED
  BY <1>1, <1>2, <1>4, <1>5, <1>6 DEF EscInv

\* The escrow's steps.
LEMMA EscSteps == ASSUME EscInv, [Esc!Next]_escVars PROVE EscInv'
<1>1. CASE UNCHANGED escVars
  BY <1>1 DEF escVars, EscInv, Escrow, Esc!Books, InDeposits, InPending, InCredits, CreditedTo
<1>2. CASE Esc!Next
  <2>1. ASSUME NEW n \in 1..MaxBatch, NEW x \in [1..n -> Esc!Entries], Esc!rewardProviders(x) PROVE EscInv'
    <3>1. n \in Nat /\ Esc!Entries = [p : Accounts, w : Workloads, a : Rewards]
      BY EscrowNumbers DEF Esc!Entries
    <3> QED
      BY <2>1, <3>1, RewardsBatch
  <2> QED
    BY <1>2, <2>1, Funds, Withdraws, Refunds DEF Esc!Next
<1> QED
  BY <1>1, <1>2

\* What the escrow promises follows.
LEMMA EscSound == EscInv => Esc!TypeOK /\ Esc!CoversAll /\ Esc!CreditsMatch
<1> SUFFICES ASSUME EscInv PROVE Esc!TypeOK /\ Esc!CoversAll /\ Esc!CreditsMatch
  OBVIOUS
<1>1. InDeposits(Escrow) \in Nat /\ InPending(Escrow) \in Nat /\ InCredits(Escrow) \in Nat
  BY EscrowFacts
<1>2. /\ esc_bal \in Nat /\ paid \in Nat /\ esc_burned \in Nat /\ treasury \in Nat /\ withdrawn \in Nat /\ refunded \in Nat
      /\ InCredits(Escrow) = InPending(Escrow) + withdrawn /\ (~ HasTreasury => treasury = 0)
      /\ InCredits(Escrow) + InDeposits(Escrow) + refunded + esc_burned + treasury <= paid
      /\ esc_bal >= InDeposits(Escrow) + InPending(Escrow)
  BY DEF EscInv
<1>3. Esc!TypeOK
  BY <1>1, <1>2 DEF Esc!TypeOK, EscInv
<1>4. Esc!CoversAll
  BY <1>2, EscrowSums DEF Esc!CoversAll, Esc!Owed
<1>5. Esc!CreditsMatch
  BY <1>1, <1>2, EscrowSums DEF Esc!CreditsMatch
<1> QED
  BY <1>3, <1>4, <1>5

-----------------------------------------------------------------------------
(* The first settlement contract. *)

\* What the first settlement contract's constants are.
LEMMA V1Numbers ==
  /\ IsFiniteSet(V1Epochs) /\ V1Epochs \subseteq Nat /\ V1Deposits \subseteq Nat
  /\ V1Supply \in Nat /\ V1Delay \in Nat
  /\ \A p \in V1Posts : p.mintA \in Nat /\ p.mintB \in Nat /\ p.fees \in Nat
  /\ \A p \in V1Posts : \A l \in p.root : l.amount \in Nat
<1>1. V1!IsFiniteSet(V1Epochs) => IsFiniteSet(V1Epochs)
  BY DEF V1!IsFiniteSet, IsFiniteSet
<1> QED
  BY <1>1, V1Assumption DEF V1!SettlementV1Assumption

V1Roots == {{}} \cup {p.root : p \in V1Posts}
V1Row == [st : {"None", "Posted", "Vetoed", "Finalized"}, root : V1Roots, mintA : Nat, mintB : Nat, fees : Nat,
          minted : Nat, postedAt : Nat]
V1Years == {V1!yearOf(e) : e \in V1Epochs}

Waiting == {e \in V1Epochs : v1_ep[e].st = "Posted"}
Closed == {e \in V1Epochs : v1_ep[e].st = "Finalized"}
LiveIn(y) == {e \in V1!Live : V1!yearOf(e) = y}
FeesDue == SumFunctionOnSet(V1!feesOf, Waiting)
FeesBurnt == SumFunctionOnSet(V1!feesOf, Closed)
Subsidies == SumFunctionOnSet(V1!subsidyOf, V1!Live)
SubsidiesIn(y) == SumFunctionOnSet(V1!subsidyOf, LiveIn(y))
Committed == SumFunctionOnSet(subsidyByYear, V1Years)

\* What holds of an epoch's row: nothing is minted before it is final, then no more than it posted, and lane A's
\* part of that is 98% of its fees.
V1RowOK(e) ==
  /\ v1_ep[e].postedAt <= v1_now
  /\ v1_ep[e].st # "Finalized" => v1_ep[e].minted = 0 /\ \A x \in claimed : x[1] # e
  /\ v1_ep[e].minted <= v1_ep[e].mintA + v1_ep[e].mintB
  /\ v1_ep[e].mintA * 10000 <= v1_ep[e].fees * 9800

V1Inv ==
  /\ v1_ep \in [V1Epochs -> V1Row] /\ \A e \in V1Epochs : V1RowOK(e)
  /\ v1_now \in Nat /\ v1_supply \in Nat /\ v1_bal \in Nat /\ burnt \in Nat
  /\ v1_bal <= v1_supply /\ totalEscrow = v1_bal
  /\ v1_pendingBurn = FeesDue /\ v1_pendingBurn <= totalEscrow
  /\ burnt = FeesBurnt
  /\ subsidyByYear \in [V1Years -> Nat] /\ \A y \in V1Years : subsidyByYear[y] = SubsidiesIn(y)
  /\ Committed = Subsidies

\* What a row says of itself.
LEMMA V1Fields ==
  ASSUME NEW r \in V1Row
  PROVE  /\ r.mintA \in Nat /\ r.mintB \in Nat /\ r.fees \in Nat /\ r.minted \in Nat /\ r.postedAt \in Nat
         /\ r.root \in V1Roots /\ r.st \in {"None", "Posted", "Vetoed", "Finalized"}
         /\ \A l \in r.root : l.amount \in Nat
<1>1. \A l \in r.root : l.amount \in Nat
  <2>1. r.root \in V1Roots
    BY DEF V1Row
  <2>2. \A R \in V1Roots : \A l \in R : l.amount \in Nat
    BY V1Numbers DEF V1Roots
  <2> QED
    BY <2>1, <2>2
<1> QED
  BY <1>1 DEF V1Row

\* What the sums of the rows are: naturals.
LEMMA V1Sums ==
  ASSUME v1_ep \in [V1Epochs -> V1Row]
  PROVE  /\ \A e \in V1Epochs : V1!feesOf[e] = v1_ep[e].fees /\ V1!feesOf[e] \in Nat
         /\ \A e \in V1Epochs : V1!subsidyOf[e] = v1_ep[e].mintB /\ V1!subsidyOf[e] \in Nat
         /\ FeesDue \in Nat /\ FeesBurnt \in Nat /\ Subsidies \in Nat /\ \A y : SubsidiesIn(y) \in Nat
<1>1. \A e \in V1Epochs : v1_ep[e] \in V1Row
  OBVIOUS
<1>2. /\ \A e \in V1Epochs : V1!feesOf[e] = v1_ep[e].fees /\ V1!feesOf[e] \in Nat
      /\ \A e \in V1Epochs : V1!subsidyOf[e] = v1_ep[e].mintB /\ V1!subsidyOf[e] \in Nat
  BY <1>1, V1Fields DEF V1!feesOf, V1!subsidyOf
<1>3. Waiting \subseteq V1Epochs /\ Closed \subseteq V1Epochs /\ V1!Live \subseteq V1Epochs /\ \A y : LiveIn(y) \subseteq V1Epochs
  BY DEF Waiting, Closed, V1!Live, LiveIn
<1>4. \A S \in SUBSET V1Epochs : IsFiniteSet(S)
  BY V1Numbers, FS_Subset
<1>5. \A S \in SUBSET V1Epochs : SumFunctionOnSet(V1!feesOf, S) \in Nat
  BY <1>2, <1>4, SumNat
<1>6. \A S \in SUBSET V1Epochs : SumFunctionOnSet(V1!subsidyOf, S) \in Nat
  BY <1>2, <1>4, SumNat
<1> QED
  BY <1>2, <1>3, <1>5, <1>6 DEF FeesDue, FeesBurnt, Subsidies, SubsidiesIn

\* One epoch's row is written.
V1Writes(e) == v1_ep' \in [V1Epochs -> V1Row] /\ \A x \in V1Epochs : x # e => v1_ep'[x] = v1_ep[x]

\* A sum of one of the rows' fields, over the epochs in some states, moves by what the row adds to it.
LEMMA OneMoves ==
  ASSUME NEW f, NEW g, \A x \in V1Epochs : f[x] \in Nat /\ g[x] \in Nat,
         NEW S \in SUBSET V1Epochs, NEW T \in SUBSET V1Epochs, NEW e \in V1Epochs,
         \A x \in V1Epochs : x # e => (x \in T <=> x \in S) /\ g[x] = f[x]
  PROVE  /\ SumFunctionOnSet(f, S) \in Nat /\ SumFunctionOnSet(g, T) \in Nat
         /\ SumFunctionOnSet(g, T) =
              SumFunctionOnSet(f, S) - (IF e \in S THEN f[e] ELSE 0) + (IF e \in T THEN g[e] ELSE 0)
<1>1. IsFiniteSet(S) /\ \A x : x # e => (x \in T <=> x \in S)
  BY V1Numbers, FS_Subset
<1>2. \A x \in S : f[x] \in Nat
  OBVIOUS
<1>3. \A x \in S \ {e} : g[x] = f[x]
  OBVIOUS
<1>4. e \in T => g[e] \in Nat
  OBVIOUS
<1> QED
  BY <1>1, <1>2, <1>3, <1>4, SumChange

\* The sums move by what one epoch's row adds to them.
LEMMA RowMoves ==
  ASSUME v1_ep \in [V1Epochs -> V1Row], NEW e \in V1Epochs, V1Writes(e)
  PROVE  LET old == v1_ep[e]
             new == v1_ep'[e]
             live == {"Posted", "Finalized"}
         IN /\ FeesDue' = FeesDue - (IF old.st = "Posted" THEN old.fees ELSE 0)
                                  + (IF new.st = "Posted" THEN new.fees ELSE 0)
            /\ FeesBurnt' = FeesBurnt - (IF old.st = "Finalized" THEN old.fees ELSE 0)
                                      + (IF new.st = "Finalized" THEN new.fees ELSE 0)
            /\ Subsidies' = Subsidies - (IF old.st \in live THEN old.mintB ELSE 0)
                                      + (IF new.st \in live THEN new.mintB ELSE 0)
            /\ SubsidiesIn(V1!yearOf(e))' = SubsidiesIn(V1!yearOf(e)) - (IF old.st \in live THEN old.mintB ELSE 0)
                                                                      + (IF new.st \in live THEN new.mintB ELSE 0)
            /\ \A y : y # V1!yearOf(e) => SubsidiesIn(y)' = SubsidiesIn(y)
            /\ FeesDue' \in Nat /\ FeesBurnt' \in Nat /\ Subsidies' \in Nat /\ \A y : SubsidiesIn(y)' \in Nat
<1>1. v1_ep' \in [V1Epochs -> V1Row] /\ \A x \in V1Epochs : x # e => v1_ep'[x] = v1_ep[x]
  BY DEF V1Writes
<1> DEFINE f == V1!feesOf
           g == V1!feesOf'
           s == V1!subsidyOf
           t == V1!subsidyOf'
<1>2. /\ \A x \in V1Epochs : f[x] = v1_ep[x].fees /\ f[x] \in Nat /\ s[x] = v1_ep[x].mintB /\ s[x] \in Nat
  BY V1Sums
<1>3. /\ \A x \in V1Epochs : g[x] = v1_ep'[x].fees /\ g[x] \in Nat /\ t[x] = v1_ep'[x].mintB /\ t[x] \in Nat
  BY <1>1, V1Fields DEF V1!feesOf, V1!subsidyOf
<1>4. \A x \in V1Epochs : x # e => g[x] = f[x] /\ t[x] = s[x]
  BY <1>1, <1>2, <1>3
<1> HIDE DEF f, g, s, t
<1>5. /\ Waiting \in SUBSET V1Epochs /\ Waiting' \in SUBSET V1Epochs
      /\ Closed \in SUBSET V1Epochs /\ Closed' \in SUBSET V1Epochs
      /\ V1!Live \in SUBSET V1Epochs /\ V1!Live' \in SUBSET V1Epochs
      /\ \A y : LiveIn(y) \in SUBSET V1Epochs /\ LiveIn(y)' \in SUBSET V1Epochs
  BY DEF Waiting, Closed, V1!Live, LiveIn
<1>6. \A x \in V1Epochs : x # e => /\ x \in Waiting' <=> x \in Waiting
                                   /\ x \in Closed' <=> x \in Closed
                                   /\ x \in V1!Live' <=> x \in V1!Live
                                   /\ \A y : x \in LiveIn(y)' <=> x \in LiveIn(y)
  BY <1>1 DEF Waiting, Closed, V1!Live, LiveIn
<1>7. /\ e \in Waiting <=> v1_ep[e].st = "Posted"
      /\ e \in Waiting' <=> v1_ep'[e].st = "Posted"
      /\ e \in Closed <=> v1_ep[e].st = "Finalized"
      /\ e \in Closed' <=> v1_ep'[e].st = "Finalized"
      /\ e \in V1!Live <=> v1_ep[e].st \in {"Posted", "Finalized"}
      /\ e \in V1!Live' <=> v1_ep'[e].st \in {"Posted", "Finalized"}
      /\ \A y : e \in LiveIn(y) <=> v1_ep[e].st \in {"Posted", "Finalized"} /\ V1!yearOf(e) = y
      /\ \A y : e \in LiveIn(y)' <=> v1_ep'[e].st \in {"Posted", "Finalized"} /\ V1!yearOf(e) = y
  BY DEF Waiting, Closed, V1!Live, LiveIn
<1>8. FeesDue' \in Nat /\ FeesDue' = FeesDue - (IF e \in Waiting THEN f[e] ELSE 0) + (IF e \in Waiting' THEN g[e] ELSE 0)
  <2>1. FeesDue = SumFunctionOnSet(f, Waiting) /\ FeesDue' = SumFunctionOnSet(g, Waiting')
    BY DEF FeesDue, f, g
  <2> DEFINE S == Waiting
             T == Waiting'
  <2>2. S \in SUBSET V1Epochs /\ T \in SUBSET V1Epochs
    BY <1>5
  <2>3. \A x \in V1Epochs : x # e => (x \in T <=> x \in S) /\ g[x] = f[x]
    BY <1>4, <1>6
  <2>4. \A x \in V1Epochs : f[x] \in Nat /\ g[x] \in Nat
    BY <1>2, <1>3
  <2>5. FeesDue = SumFunctionOnSet(f, S) /\ FeesDue' = SumFunctionOnSet(g, T)
    BY <2>1
  <2> HIDE DEF S, T
  <2>6. /\ SumFunctionOnSet(f, S) \in Nat /\ SumFunctionOnSet(g, T) \in Nat
        /\ SumFunctionOnSet(g, T) = SumFunctionOnSet(f, S) - (IF e \in S THEN f[e] ELSE 0) + (IF e \in T THEN g[e] ELSE 0)
    BY <2>2, <2>3, <2>4, OneMoves
  <2> QED
    BY <2>5, <2>6 DEF S, T
<1>9. FeesBurnt' \in Nat /\ FeesBurnt' = FeesBurnt - (IF e \in Closed THEN f[e] ELSE 0) + (IF e \in Closed' THEN g[e] ELSE 0)
  <2>1. FeesBurnt = SumFunctionOnSet(f, Closed) /\ FeesBurnt' = SumFunctionOnSet(g, Closed')
    BY DEF FeesBurnt, f, g
  <2> DEFINE S == Closed
             T == Closed'
  <2>2. S \in SUBSET V1Epochs /\ T \in SUBSET V1Epochs
    BY <1>5
  <2>3. \A x \in V1Epochs : x # e => (x \in T <=> x \in S) /\ g[x] = f[x]
    BY <1>4, <1>6
  <2>4. \A x \in V1Epochs : f[x] \in Nat /\ g[x] \in Nat
    BY <1>2, <1>3
  <2>5. FeesBurnt = SumFunctionOnSet(f, S) /\ FeesBurnt' = SumFunctionOnSet(g, T)
    BY <2>1
  <2> HIDE DEF S, T
  <2>6. /\ SumFunctionOnSet(f, S) \in Nat /\ SumFunctionOnSet(g, T) \in Nat
        /\ SumFunctionOnSet(g, T) = SumFunctionOnSet(f, S) - (IF e \in S THEN f[e] ELSE 0) + (IF e \in T THEN g[e] ELSE 0)
    BY <2>2, <2>3, <2>4, OneMoves
  <2> QED
    BY <2>5, <2>6 DEF S, T
<1>10. Subsidies' \in Nat
       /\ Subsidies' = Subsidies - (IF e \in V1!Live THEN s[e] ELSE 0) + (IF e \in V1!Live' THEN t[e] ELSE 0)
  <2>1. Subsidies = SumFunctionOnSet(s, V1!Live) /\ Subsidies' = SumFunctionOnSet(t, V1!Live')
    BY DEF Subsidies, s, t
  <2> DEFINE S == V1!Live
             T == V1!Live'
  <2>2. S \in SUBSET V1Epochs /\ T \in SUBSET V1Epochs
    BY <1>5
  <2>3. \A x \in V1Epochs : x # e => (x \in T <=> x \in S) /\ t[x] = s[x]
    BY <1>4, <1>6
  <2>4. \A x \in V1Epochs : s[x] \in Nat /\ t[x] \in Nat
    BY <1>2, <1>3
  <2>5. Subsidies = SumFunctionOnSet(s, S) /\ Subsidies' = SumFunctionOnSet(t, T)
    BY <2>1
  <2> HIDE DEF S, T
  <2>6. /\ SumFunctionOnSet(s, S) \in Nat /\ SumFunctionOnSet(t, T) \in Nat
        /\ SumFunctionOnSet(t, T) = SumFunctionOnSet(s, S) - (IF e \in S THEN s[e] ELSE 0) + (IF e \in T THEN t[e] ELSE 0)
    BY <2>2, <2>3, <2>4, OneMoves
  <2> QED
    BY <2>5, <2>6 DEF S, T
<1>11. ASSUME NEW y
       PROVE  /\ SubsidiesIn(y) \in Nat /\ SubsidiesIn(y)' \in Nat
              /\ SubsidiesIn(y)' = SubsidiesIn(y) - (IF e \in LiveIn(y) THEN s[e] ELSE 0)
                                                  + (IF e \in LiveIn(y)' THEN t[e] ELSE 0)
  <2>1. SubsidiesIn(y) = SumFunctionOnSet(s, LiveIn(y)) /\ SubsidiesIn(y)' = SumFunctionOnSet(t, LiveIn(y)')
    BY DEF SubsidiesIn, s, t
  <2> DEFINE S == LiveIn(y)
             T == LiveIn(y)'
  <2>2. S \in SUBSET V1Epochs /\ T \in SUBSET V1Epochs
    BY <1>5
  <2>3. \A x \in V1Epochs : x # e => (x \in T <=> x \in S) /\ t[x] = s[x]
    BY <1>4, <1>6
  <2>4. \A x \in V1Epochs : s[x] \in Nat /\ t[x] \in Nat
    BY <1>2, <1>3
  <2>5. SubsidiesIn(y) = SumFunctionOnSet(s, S) /\ SubsidiesIn(y)' = SumFunctionOnSet(t, T)
    BY <2>1
  <2> HIDE DEF S, T
  <2>6. /\ SumFunctionOnSet(s, S) \in Nat /\ SumFunctionOnSet(t, T) \in Nat
        /\ SumFunctionOnSet(t, T) = SumFunctionOnSet(s, S) - (IF e \in S THEN s[e] ELSE 0) + (IF e \in T THEN t[e] ELSE 0)
    BY <2>2, <2>3, <2>4, OneMoves
  <2> QED
    BY <2>5, <2>6 DEF S, T
<1>12. \A y : y # V1!yearOf(e) => SubsidiesIn(y)' = SubsidiesIn(y)
  BY <1>7, <1>11
<1>13. SubsidiesIn(V1!yearOf(e))' = SubsidiesIn(V1!yearOf(e)) - (IF e \in V1!Live THEN s[e] ELSE 0)
                                                              + (IF e \in V1!Live' THEN t[e] ELSE 0)
  BY <1>7, <1>11
<1> QED
  BY <1>2, <1>3, <1>7, <1>8, <1>9, <1>10, <1>11, <1>12, <1>13

\* Finitely many epochs have finitely many years.
LEMMA YearsFinite == IsFiniteSet(V1Years)
<1> DEFINE f == [e \in V1Epochs |-> V1!yearOf(e)]
<1>1. f \in Surjection(V1Epochs, V1Years)
  BY DEF Surjection, V1Years
<1> HIDE DEF f
<1> QED
  BY <1>1, V1Numbers, FS_Surjection

\* What one year has committed moves what all have.
LEMMA CommitMoves ==
  ASSUME subsidyByYear \in [V1Years -> Nat], NEW y \in V1Years, NEW v \in Nat,
         subsidyByYear' = [subsidyByYear EXCEPT ![y] = v]
  PROVE  /\ subsidyByYear' \in [V1Years -> Nat] /\ subsidyByYear'[y] = v
         /\ \A z \in V1Years : z # y => subsidyByYear'[z] = subsidyByYear[z]
         /\ Committed' = Committed - subsidyByYear[y] + v
<1>1. /\ subsidyByYear' \in [V1Years -> Nat] /\ subsidyByYear'[y] = v
      /\ \A z \in V1Years : z # y => subsidyByYear'[z] = subsidyByYear[z]
  OBVIOUS
<1> DEFINE f == subsidyByYear
           g == subsidyByYear'
           S == V1Years
<1>2. \A z \in S : f[z] \in Nat /\ g[z] \in Nat
  BY <1>1
<1>3. \A z \in S \ {y} : g[z] = f[z]
  BY <1>1
<1>4. Committed = SumFunctionOnSet(f, S) /\ Committed' = SumFunctionOnSet(g, S)
  BY DEF Committed
<1>5. IsFiniteSet(S) /\ y \in S
  BY YearsFinite
<1> HIDE DEF f, g, S
<1>6. SumFunctionOnSet(g, S) = SumFunctionOnSet(f, S) - f[y] + g[y]
  BY <1>2, <1>3, <1>5, SumChange
<1> QED
  BY <1>1, <1>4, <1>6 DEF f, g

\* What a row adds to the fees that are due, to those burned, and to what its year has committed.
DueOf(r) == IF r.st = "Posted" THEN r.fees ELSE 0
BurntOf(r) == IF r.st = "Finalized" THEN r.fees ELSE 0
SubsidyIn(r) == IF r.st \in {"Posted", "Finalized"} THEN r.mintB ELSE 0

\* What a row adds is a natural.
LEMMA RowParts ==
  ASSUME NEW r \in V1Row
  PROVE  DueOf(r) \in Nat /\ BurntOf(r) \in Nat /\ SubsidyIn(r) \in Nat
BY V1Fields DEF DueOf, BurntOf, SubsidyIn

\* The invariant is kept when one row is written and the counters move by what it adds.
LEMMA V1Kept ==
  ASSUME V1Inv, NEW e \in V1Epochs, V1Writes(e), V1RowOK(e)',
         \A x \in claimed' : x \in claimed \/ x[1] = e, v1_now' = v1_now,
         v1_supply' \in Nat, v1_bal' \in Nat, v1_bal' <= v1_supply', totalEscrow' = v1_bal',
         v1_pendingBurn' = v1_pendingBurn - DueOf(v1_ep[e]) + DueOf(v1_ep'[e]), v1_pendingBurn' <= totalEscrow',
         burnt' = burnt - BurntOf(v1_ep[e]) + BurntOf(v1_ep'[e]),
         LET y == V1!yearOf(e)
         IN subsidyByYear' = [subsidyByYear EXCEPT ![y] = @ - SubsidyIn(v1_ep[e]) + SubsidyIn(v1_ep'[e])]
  PROVE  V1Inv'
<1> DEFINE y == V1!yearOf(e)
           v == SubsidiesIn(y)'
<1>1. /\ v1_ep' \in [V1Epochs -> V1Row] /\ \A x \in V1Epochs : x # e => v1_ep'[x] = v1_ep[x]
      /\ v1_ep \in [V1Epochs -> V1Row]
  BY DEF V1Writes, V1Inv
<1>2. /\ FeesDue' = FeesDue - DueOf(v1_ep[e]) + DueOf(v1_ep'[e])
      /\ FeesBurnt' = FeesBurnt - BurntOf(v1_ep[e]) + BurntOf(v1_ep'[e])
      /\ Subsidies' = Subsidies - SubsidyIn(v1_ep[e]) + SubsidyIn(v1_ep'[e])
      /\ v = SubsidiesIn(y) - SubsidyIn(v1_ep[e]) + SubsidyIn(v1_ep'[e])
      /\ \A z : z # y => SubsidiesIn(z)' = SubsidiesIn(z)
      /\ FeesDue' \in Nat /\ FeesBurnt' \in Nat /\ Subsidies' \in Nat /\ v \in Nat
  BY <1>1, RowMoves DEF DueOf, BurntOf, SubsidyIn
<1>3. y \in V1Years
  BY DEF V1Years
<1>4. subsidyByYear[y] = SubsidiesIn(y) /\ subsidyByYear \in [V1Years -> Nat]
  BY <1>3 DEF V1Inv
<1>5. subsidyByYear' = [subsidyByYear EXCEPT ![y] = v]
  BY <1>2, <1>3, <1>4
<1>6. /\ subsidyByYear' \in [V1Years -> Nat] /\ subsidyByYear'[y] = v
      /\ \A z \in V1Years : z # y => subsidyByYear'[z] = subsidyByYear[z]
      /\ Committed' = Committed - subsidyByYear[y] + v
  <2>1. v \in Nat
    BY <1>2
  <2> HIDE DEF y, v
  <2> QED
    BY <1>3, <1>4, <1>5, <2>1, CommitMoves
<1> HIDE DEF v, y
<1>7. \A z \in V1Years : subsidyByYear'[z] = SubsidiesIn(z)'
  <2> SUFFICES ASSUME NEW z \in V1Years PROVE subsidyByYear'[z] = SubsidiesIn(z)'
    OBVIOUS
  <2>1. subsidyByYear[z] = SubsidiesIn(z)
    BY DEF V1Inv
  <2>2. CASE z = y
    BY <1>6, <2>2 DEF v
  <2>3. CASE z # y
    BY <1>2, <1>6, <2>1, <2>3
  <2> QED
    BY <2>2, <2>3
<1>8. Committed' = Subsidies'
  <2>1. Committed = Subsidies /\ Subsidies \in Nat /\ SubsidiesIn(y) \in Nat
    BY <1>1, V1Sums DEF V1Inv
  <2>2. SubsidyIn(v1_ep[e]) \in Nat /\ SubsidyIn(v1_ep'[e]) \in Nat
    BY <1>1, RowParts
  <2> QED
    BY <1>2, <1>4, <1>6, <2>1, <2>2
<1>9. \A x \in V1Epochs : V1RowOK(x)'
  <2> SUFFICES ASSUME NEW x \in V1Epochs, x # e PROVE V1RowOK(x)'
    OBVIOUS
  <2>1. V1RowOK(x) /\ v1_ep'[x] = v1_ep[x]
    BY <1>1 DEF V1Inv
  <2> QED
    BY <2>1 DEF V1RowOK
<1>10. v1_pendingBurn' = FeesDue' /\ burnt' = FeesBurnt' /\ burnt' \in Nat /\ v1_now' \in Nat
  BY <1>2 DEF V1Inv
<1> QED
  BY <1>1, <1>6, <1>7, <1>8, <1>9, <1>10 DEF V1Inv

\* The first settlement contract starts with no epoch.
LEMMA V1Init == V1!Init => V1Inv
<1> SUFFICES ASSUME V1!Init PROVE V1Inv
  OBVIOUS
<1>1. /\ v1_ep = [e \in V1Epochs |-> V1!NoEpoch] /\ subsidyByYear = [y \in V1Years |-> 0]
      /\ totalEscrow = 0 /\ v1_pendingBurn = 0 /\ claimed = {} /\ burnt = 0
      /\ v1_supply = V1Supply /\ v1_bal = 0 /\ v1_now = 0
  BY DEF V1!Init, V1Years
<1>2. \A e \in V1Epochs : v1_ep[e] = V1!NoEpoch
  BY <1>1
<1>3. /\ V1!NoEpoch \in V1Row /\ V1!NoEpoch.st = "None" /\ V1!NoEpoch.minted = 0 /\ V1!NoEpoch.mintA = 0
      /\ V1!NoEpoch.mintB = 0 /\ V1!NoEpoch.fees = 0 /\ V1!NoEpoch.postedAt = 0
  BY DEF V1!NoEpoch, V1Row, V1Roots
<1>4. v1_ep \in [V1Epochs -> V1Row] /\ \A e \in V1Epochs : V1RowOK(e)
  BY <1>1, <1>2, <1>3 DEF V1RowOK
<1>5. Waiting = {} /\ Closed = {} /\ V1!Live = {} /\ \A y : LiveIn(y) = {}
  BY <1>2, <1>3 DEF Waiting, Closed, V1!Live, LiveIn
<1>6. FeesDue = 0 /\ FeesBurnt = 0 /\ Subsidies = 0 /\ \A y : SubsidiesIn(y) = 0
  BY <1>5, SumEmpty DEF FeesDue, FeesBurnt, Subsidies, SubsidiesIn
<1>7. Committed = 0
  <2>1. \A y \in V1Years : subsidyByYear[y] = 0
    BY <1>1
  <2> QED
    BY <2>1, YearsFinite, SumZero DEF Committed
<1>8. subsidyByYear \in [V1Years -> Nat] /\ \A y \in V1Years : subsidyByYear[y] = 0
  BY <1>1
<1> QED
  BY <1>1, <1>4, <1>6, <1>7, <1>8, V1Numbers DEF V1Inv

\* One field of an epoch's row is written.
LEMMA V1FieldWrites ==
  ASSUME V1Inv, NEW e \in V1Epochs, NEW r, r \in V1Row, v1_ep' = [v1_ep EXCEPT ![e] = r]
  PROVE  V1Writes(e) /\ v1_ep'[e] = r
BY DEF V1Inv, V1Writes

\* Writing a row's status leaves its numbers, ...
LEMMA StatusWrites ==
  ASSUME NEW r \in V1Row, NEW st \in {"None", "Posted", "Vetoed", "Finalized"}
  PROVE  LET n == [r EXCEPT !.st = st]
         IN /\ n \in V1Row /\ n.st = st /\ n.mintA = r.mintA /\ n.mintB = r.mintB /\ n.fees = r.fees
            /\ n.minted = r.minted /\ n.postedAt = r.postedAt
BY DEF V1Row

\* ... and writing what it minted leaves the others.
LEMMA MintedWrites ==
  ASSUME NEW r \in V1Row, NEW m \in Nat
  PROVE  LET n == [r EXCEPT !.minted = m]
         IN /\ n \in V1Row /\ n.st = r.st /\ n.mintA = r.mintA /\ n.mintB = r.mintB /\ n.fees = r.fees
            /\ n.minted = m /\ n.postedAt = r.postedAt
BY DEF V1Row

\* A year's counter that gets what it had.
LEMMA SameYear ==
  ASSUME V1Inv, NEW e \in V1Epochs, NEW a \in Nat
  PROVE  LET y == V1!yearOf(e)
         IN subsidyByYear = [subsidyByYear EXCEPT ![y] = @ - a + a]
<1> DEFINE y == V1!yearOf(e)
<1>1. y \in V1Years /\ subsidyByYear \in [V1Years -> Nat]
  BY DEF V1Inv, V1Years
<1> HIDE DEF y
<1>2. subsidyByYear[y] - a + a = subsidyByYear[y]
  BY <1>1
<1>3. subsidyByYear = [subsidyByYear EXCEPT ![y] = subsidyByYear[y]]
  BY <1>1
<1> QED
  BY <1>2, <1>3 DEF y

\* What the invariant says of an epoch.
LEMMA V1Facts ==
  ASSUME V1Inv, NEW e \in V1Epochs
  PROVE  LET r == v1_ep[e]
         IN /\ r \in V1Row /\ r.mintA \in Nat /\ r.mintB \in Nat /\ r.fees \in Nat /\ r.minted \in Nat /\ r.postedAt \in Nat
            /\ r.postedAt <= v1_now /\ r.minted <= r.mintA + r.mintB /\ r.mintA * 10000 <= r.fees * 9800
            /\ r.st # "Finalized" => r.minted = 0 /\ \A x \in claimed : x[1] # e
            /\ v1_now \in Nat /\ v1_supply \in Nat /\ v1_bal \in Nat /\ burnt \in Nat /\ v1_pendingBurn \in Nat
            /\ totalEscrow = v1_bal /\ v1_bal <= v1_supply /\ v1_pendingBurn <= totalEscrow
<1>1. v1_ep[e] \in V1Row /\ v1_ep \in [V1Epochs -> V1Row] /\ V1RowOK(e)
  BY DEF V1Inv
<1>2. FeesDue \in Nat
  BY <1>1, V1Sums
<1> QED
  BY <1>1, <1>2, V1Fields DEF V1Inv, V1RowOK

\* postEpoch(): the fees are covered, and nothing was minted yet.
LEMMA V1Post == ASSUME V1Inv, NEW e \in V1Epochs, NEW p \in V1Posts, V1!postEpoch(e, p) PROVE V1Inv'
<1> DEFINE old == v1_ep[e]
           new == [st |-> "Posted", root |-> p.root, mintA |-> p.mintA, mintB |-> p.mintB, fees |-> p.fees,
                   minted |-> old.minted, postedAt |-> v1_now]
<1>1. p.mintA \in Nat /\ p.mintB \in Nat /\ p.fees \in Nat /\ p.root \in V1Roots
  BY V1Numbers DEF V1Roots
<1>2. /\ old.st \in {"None", "Vetoed"} /\ p.mintA * 10000 <= p.fees * 9800 /\ p.fees <= totalEscrow - v1_pendingBurn
      /\ v1_pendingBurn' = v1_pendingBurn + p.fees
      /\ subsidyByYear' = [subsidyByYear EXCEPT ![V1!yearOf(e)] = @ + p.mintB]
      /\ v1_ep' = [v1_ep EXCEPT ![e] = new]
      /\ UNCHANGED <<totalEscrow, claimed, v1_supply, v1_bal, burnt, v1_now>>
  BY DEF V1!postEpoch, V1!available, V1Inv
<1>3. /\ old \in V1Row /\ old.minted = 0 /\ \A x \in claimed : x[1] # e
      /\ v1_now \in Nat /\ v1_supply \in Nat /\ v1_bal \in Nat /\ burnt \in Nat /\ v1_pendingBurn \in Nat
      /\ totalEscrow = v1_bal /\ v1_bal <= v1_supply
  BY <1>2, V1Facts
<1>4. new \in V1Row
  BY <1>1, <1>3 DEF V1Row
<1>5. /\ new.st = "Posted" /\ new.mintA = p.mintA /\ new.mintB = p.mintB /\ new.fees = p.fees /\ new.minted = 0
      /\ new.postedAt = v1_now
  BY <1>3
<1> HIDE DEF old, new
<1>6. V1Writes(e) /\ v1_ep'[e] = new
  <2>1. v1_ep' = [v1_ep EXCEPT ![e] = new]
    BY <1>2
  <2> QED
    BY <2>1, <1>4, V1FieldWrites
<1>7. V1RowOK(e)'
  BY <1>1, <1>2, <1>3, <1>5, <1>6 DEF V1RowOK
<1>8. /\ DueOf(old) = 0 /\ DueOf(new) = p.fees /\ BurntOf(old) = 0 /\ BurntOf(new) = 0
      /\ SubsidyIn(old) = 0 /\ SubsidyIn(new) = p.mintB
  BY <1>2, <1>5 DEF DueOf, BurntOf, SubsidyIn
<1>9. subsidyByYear' = [subsidyByYear EXCEPT ![V1!yearOf(e)] = @ - SubsidyIn(old) + SubsidyIn(new)]
  <2>1. subsidyByYear[V1!yearOf(e)] \in Nat
    BY DEF V1Inv, V1Years
  <2>2. subsidyByYear[V1!yearOf(e)] - SubsidyIn(old) + SubsidyIn(new) = subsidyByYear[V1!yearOf(e)] + p.mintB
    BY <1>1, <1>8, <2>1
  <2>3. subsidyByYear' = [subsidyByYear EXCEPT ![V1!yearOf(e)] = subsidyByYear[V1!yearOf(e)] + p.mintB]
    BY <1>2
  <2> QED
    BY <2>2, <2>3
<1>10. /\ v1_pendingBurn' = v1_pendingBurn - DueOf(old) + DueOf(new) /\ v1_pendingBurn' <= totalEscrow'
       /\ burnt' = burnt - BurntOf(old) + BurntOf(new)
  BY <1>1, <1>2, <1>3, <1>8
<1>11. /\ v1_supply' \in Nat /\ v1_bal' \in Nat /\ v1_bal' <= v1_supply' /\ totalEscrow' = v1_bal' /\ v1_now' = v1_now
       /\ \A x \in claimed' : x \in claimed \/ x[1] = e
  BY <1>2, <1>3
<1> QED
  BY <1>6, <1>7, <1>9, <1>10, <1>11, V1Kept DEF old

\* veto(): the post's fees and its subsidy are given back.
LEMMA V1Veto == ASSUME V1Inv, NEW e \in V1Epochs, V1!veto(e) PROVE V1Inv'
<1> DEFINE old == v1_ep[e]
           new == [old EXCEPT !.st = "Vetoed"]
<1>1. /\ old.st = "Posted" /\ v1_pendingBurn' = v1_pendingBurn - old.fees
      /\ subsidyByYear' = [subsidyByYear EXCEPT ![V1!yearOf(e)] = @ - old.mintB]
      /\ v1_ep' = [v1_ep EXCEPT ![e] = new]
      /\ UNCHANGED <<totalEscrow, claimed, v1_supply, v1_bal, burnt, v1_now>>
  BY DEF V1!veto
<1>2. /\ old \in V1Row /\ old.mintA \in Nat /\ old.mintB \in Nat /\ old.fees \in Nat /\ old.minted = 0
      /\ old.postedAt <= v1_now /\ old.mintA * 10000 <= old.fees * 9800 /\ \A x \in claimed : x[1] # e
      /\ v1_now \in Nat /\ v1_supply \in Nat /\ v1_bal \in Nat /\ burnt \in Nat /\ v1_pendingBurn \in Nat
      /\ totalEscrow = v1_bal /\ v1_bal <= v1_supply /\ v1_pendingBurn <= totalEscrow
  BY <1>1, V1Facts
<1>3. /\ new \in V1Row /\ new.st = "Vetoed" /\ new.mintA = old.mintA /\ new.mintB = old.mintB /\ new.fees = old.fees
      /\ new.minted = old.minted /\ new.postedAt = old.postedAt
  <2>1. old \in V1Row
    BY <1>2
  <2> HIDE DEF old
  <2> DEFINE st == "Vetoed"
  <2>2. st \in {"None", "Posted", "Vetoed", "Finalized"}
    OBVIOUS
  <2>3. new = [old EXCEPT !.st = st]
    OBVIOUS
  <2> HIDE DEF st, new
  <2>4. /\ new \in V1Row /\ new.st = st /\ new.mintA = old.mintA /\ new.mintB = old.mintB /\ new.fees = old.fees
        /\ new.minted = old.minted /\ new.postedAt = old.postedAt
    BY <2>1, <2>2, <2>3, StatusWrites
  <2> QED
    BY <2>4 DEF st
<1> HIDE DEF old, new
<1>4. V1Writes(e) /\ v1_ep'[e] = new
  BY <1>1, <1>3, V1FieldWrites
<1>5. V1RowOK(e)'
  BY <1>1, <1>2, <1>3, <1>4 DEF V1RowOK
<1>6. /\ DueOf(old) = old.fees /\ DueOf(new) = 0 /\ BurntOf(old) = 0 /\ BurntOf(new) = 0
      /\ SubsidyIn(old) = old.mintB /\ SubsidyIn(new) = 0
  BY <1>1, <1>3 DEF DueOf, BurntOf, SubsidyIn
<1>7. subsidyByYear' = [subsidyByYear EXCEPT ![V1!yearOf(e)] = @ - SubsidyIn(old) + SubsidyIn(new)]
  <2>1. subsidyByYear[V1!yearOf(e)] \in Nat
    BY DEF V1Inv, V1Years
  <2>2. subsidyByYear[V1!yearOf(e)] - SubsidyIn(old) + SubsidyIn(new) = subsidyByYear[V1!yearOf(e)] - old.mintB
    BY <1>2, <1>6, <2>1
  <2> QED
    BY <1>1, <2>2
<1>8. /\ v1_pendingBurn' = v1_pendingBurn - DueOf(old) + DueOf(new) /\ v1_pendingBurn' <= totalEscrow'
      /\ burnt' = burnt - BurntOf(old) + BurntOf(new)
  BY <1>1, <1>2, <1>6
<1>9. /\ v1_supply' \in Nat /\ v1_bal' \in Nat /\ v1_bal' <= v1_supply' /\ totalEscrow' = v1_bal' /\ v1_now' = v1_now
      /\ \A x \in claimed' : x \in claimed \/ x[1] = e
  BY <1>1, <1>2
<1> QED
  BY <1>4, <1>5, <1>7, <1>8, <1>9, V1Kept DEF old

\* finalize(): the fees that were due are burned.
LEMMA V1Finalize == ASSUME V1Inv, NEW e \in V1Epochs, V1!finalize(e) PROVE V1Inv'
<1> DEFINE old == v1_ep[e]
           new == [old EXCEPT !.st = "Finalized"]
<1>1. /\ old.st = "Posted" /\ old.fees <= totalEscrow /\ v1_pendingBurn' = v1_pendingBurn - old.fees
      /\ totalEscrow' = totalEscrow - old.fees /\ v1_supply' = v1_supply - old.fees /\ v1_bal' = v1_bal - old.fees
      /\ burnt' = burnt + old.fees /\ v1_ep' = [v1_ep EXCEPT ![e] = new]
      /\ UNCHANGED <<subsidyByYear, claimed, v1_now>>
  BY DEF V1!finalize
<1>2. /\ old \in V1Row /\ old.mintA \in Nat /\ old.mintB \in Nat /\ old.fees \in Nat /\ old.minted = 0
      /\ old.postedAt <= v1_now /\ old.mintA * 10000 <= old.fees * 9800
      /\ v1_now \in Nat /\ v1_supply \in Nat /\ v1_bal \in Nat /\ burnt \in Nat /\ v1_pendingBurn \in Nat
      /\ totalEscrow = v1_bal /\ v1_bal <= v1_supply /\ v1_pendingBurn <= totalEscrow
  BY <1>1, V1Facts
<1>3. /\ new \in V1Row /\ new.st = "Finalized" /\ new.mintA = old.mintA /\ new.mintB = old.mintB
      /\ new.fees = old.fees /\ new.minted = old.minted /\ new.postedAt = old.postedAt
  <2>1. old \in V1Row
    BY <1>2
  <2> HIDE DEF old
  <2> DEFINE st == "Finalized"
  <2>2. st \in {"None", "Posted", "Vetoed", "Finalized"}
    OBVIOUS
  <2>3. new = [old EXCEPT !.st = st]
    OBVIOUS
  <2> HIDE DEF st, new
  <2>4. /\ new \in V1Row /\ new.st = st /\ new.mintA = old.mintA /\ new.mintB = old.mintB /\ new.fees = old.fees
        /\ new.minted = old.minted /\ new.postedAt = old.postedAt
    BY <2>1, <2>2, <2>3, StatusWrites
  <2> QED
    BY <2>4 DEF st
<1> HIDE DEF old, new
<1>4. V1Writes(e) /\ v1_ep'[e] = new
  BY <1>1, <1>3, V1FieldWrites
<1>5. V1RowOK(e)'
  BY <1>1, <1>2, <1>3, <1>4 DEF V1RowOK
<1>6. /\ DueOf(old) = old.fees /\ DueOf(new) = 0 /\ BurntOf(old) = 0 /\ BurntOf(new) = old.fees
      /\ SubsidyIn(old) = old.mintB /\ SubsidyIn(new) = old.mintB
  BY <1>1, <1>3 DEF DueOf, BurntOf, SubsidyIn
<1>7. subsidyByYear' = [subsidyByYear EXCEPT ![V1!yearOf(e)] = @ - SubsidyIn(old) + SubsidyIn(new)]
  BY <1>1, <1>2, <1>6, SameYear
<1>8. /\ v1_pendingBurn' = v1_pendingBurn - DueOf(old) + DueOf(new) /\ v1_pendingBurn' <= totalEscrow'
      /\ burnt' = burnt - BurntOf(old) + BurntOf(new) /\ v1_supply' \in Nat /\ v1_bal' \in Nat /\ v1_bal' <= v1_supply'
      /\ totalEscrow' = v1_bal'
  BY <1>1, <1>2, <1>6
<1>9. /\ v1_supply' \in Nat /\ v1_bal' \in Nat /\ v1_bal' <= v1_supply' /\ totalEscrow' = v1_bal' /\ v1_now' = v1_now
      /\ \A x \in claimed' : x \in claimed \/ x[1] = e
  BY <1>1, <1>2, <1>8
<1> QED
  BY <1>4, <1>5, <1>7, <1>8, <1>9, V1Kept DEF old

\* claim(): what was posted is not exceeded.
LEMMA V1Claim == ASSUME V1Inv, NEW e \in V1Epochs, NEW l \in v1_ep[e].root, V1!claim(e, l) PROVE V1Inv'
<1> DEFINE old == v1_ep[e]
           m == old.minted + l.amount
           new == [old EXCEPT !.minted = m]
<1>1. /\ old.st = "Finalized" /\ m <= old.mintA + old.mintB /\ claimed' = claimed \cup {<<e, l>>}
      /\ v1_ep' = [v1_ep EXCEPT ![e] = new] /\ v1_supply' = v1_supply + l.amount
      /\ UNCHANGED <<totalEscrow, v1_pendingBurn, subsidyByYear, v1_bal, burnt, v1_now>>
  BY DEF V1!claim, V1!Claimable, V1!InCap
<1>2. /\ old \in V1Row /\ old.mintA \in Nat /\ old.mintB \in Nat /\ old.fees \in Nat /\ old.minted \in Nat
      /\ old.postedAt <= v1_now /\ old.mintA * 10000 <= old.fees * 9800
      /\ v1_now \in Nat /\ v1_supply \in Nat /\ v1_bal \in Nat /\ burnt \in Nat /\ v1_pendingBurn \in Nat
      /\ totalEscrow = v1_bal /\ v1_bal <= v1_supply /\ v1_pendingBurn <= totalEscrow
  BY V1Facts
<1>3. l.amount \in Nat /\ m \in Nat
  BY <1>2, V1Fields
<1>4. /\ new \in V1Row /\ new.st = old.st /\ new.mintA = old.mintA /\ new.mintB = old.mintB
      /\ new.fees = old.fees /\ new.minted = m /\ new.postedAt = old.postedAt
  <2> HIDE DEF m, old
  <2> QED
    BY <1>2, <1>3, MintedWrites
<1> HIDE DEF old, new, m
<1>5. V1Writes(e) /\ v1_ep'[e] = new
  BY <1>1, <1>4, V1FieldWrites
<1>6. V1RowOK(e)'
  BY <1>1, <1>2, <1>4, <1>5 DEF V1RowOK
<1>7. DueOf(old) = 0 /\ DueOf(new) = 0 /\ BurntOf(new) = BurntOf(old) /\ SubsidyIn(new) = SubsidyIn(old)
      /\ BurntOf(old) \in Nat /\ SubsidyIn(old) \in Nat
  BY <1>1, <1>2, <1>4, RowParts DEF DueOf, BurntOf, SubsidyIn
<1>8. subsidyByYear' = [subsidyByYear EXCEPT ![V1!yearOf(e)] = @ - SubsidyIn(old) + SubsidyIn(new)]
  BY <1>1, <1>7, SameYear
<1>9. /\ v1_pendingBurn' = v1_pendingBurn - DueOf(old) + DueOf(new) /\ v1_pendingBurn' <= totalEscrow'
      /\ burnt' = burnt - BurntOf(old) + BurntOf(new) /\ v1_supply' \in Nat /\ v1_bal' \in Nat /\ v1_bal' <= v1_supply'
      /\ totalEscrow' = v1_bal'
  BY <1>1, <1>2, <1>3, <1>7
<1>10. \A x \in claimed' : x \in claimed \/ x[1] = e
  BY <1>1
<1> QED
  BY <1>1, <1>5, <1>6, <1>8, <1>9, <1>10, V1Kept DEF old

\* The contract's steps.
LEMMA V1Steps == ASSUME V1Inv, [V1!Next]_v1Vars PROVE V1Inv'
<1>1. ASSUME NEW x \in V1Deposits, V1!depositFor(x) PROVE V1Inv'
  <2>1. /\ x \in Nat /\ x <= v1_supply - v1_bal /\ v1_bal' = v1_bal + x /\ totalEscrow' = totalEscrow + x
        /\ UNCHANGED <<v1_ep, v1_pendingBurn, subsidyByYear, claimed, v1_supply, burnt, v1_now>>
    BY <1>1, V1Numbers DEF V1!depositFor
  <2>2. /\ FeesDue' = FeesDue /\ FeesBurnt' = FeesBurnt /\ Subsidies' = Subsidies /\ Committed' = Committed
        /\ \A y : SubsidiesIn(y)' = SubsidiesIn(y)
    BY <2>1 DEF FeesDue, FeesBurnt, Subsidies, Committed, SubsidiesIn, LiveIn, Waiting, Closed, V1!Live,
                V1!feesOf, V1!subsidyOf
  <2>3. \A e \in V1Epochs : V1RowOK(e)'
    BY <2>1 DEF V1Inv, V1RowOK
  <2>4. /\ v1_bal \in Nat /\ v1_supply \in Nat /\ totalEscrow = v1_bal /\ v1_pendingBurn <= totalEscrow
        /\ v1_pendingBurn = FeesDue /\ FeesDue \in Nat
    BY V1Sums DEF V1Inv
  <2>5. /\ v1_bal' \in Nat /\ v1_bal' <= v1_supply' /\ totalEscrow' = v1_bal' /\ v1_pendingBurn' <= totalEscrow'
    BY <2>1, <2>4
  <2> QED
    BY <2>1, <2>2, <2>3, <2>5 DEF V1Inv
<1>2. CASE V1!Tick
  <2>1. /\ v1_now' = v1_now + 1
        /\ UNCHANGED <<v1_ep, totalEscrow, v1_pendingBurn, subsidyByYear, claimed, v1_supply, v1_bal, burnt>>
    BY <1>2 DEF V1!Tick
  <2>2. /\ FeesDue' = FeesDue /\ FeesBurnt' = FeesBurnt /\ Subsidies' = Subsidies /\ Committed' = Committed
        /\ \A y : SubsidiesIn(y)' = SubsidiesIn(y)
    BY <2>1 DEF FeesDue, FeesBurnt, Subsidies, Committed, SubsidiesIn, LiveIn, Waiting, Closed, V1!Live,
                V1!feesOf, V1!subsidyOf
  <2>3. \A e \in V1Epochs : V1RowOK(e)'
    <3> SUFFICES ASSUME NEW e \in V1Epochs PROVE V1RowOK(e)'
      OBVIOUS
    <3>1. V1RowOK(e) /\ v1_ep[e].postedAt \in Nat /\ v1_now \in Nat
      BY V1Fields DEF V1Inv
    <3> QED
      BY <2>1, <3>1 DEF V1RowOK
  <2> QED
    BY <2>1, <2>2, <2>3 DEF V1Inv
<1>3. CASE UNCHANGED v1Vars
  <2>1. UNCHANGED <<v1_ep, totalEscrow, v1_pendingBurn, subsidyByYear, claimed, v1_supply, v1_bal, burnt, v1_now>>
    BY <1>3 DEF v1Vars
  <2>2. /\ FeesDue' = FeesDue /\ FeesBurnt' = FeesBurnt /\ Subsidies' = Subsidies /\ Committed' = Committed
        /\ \A y : SubsidiesIn(y)' = SubsidiesIn(y)
    BY <2>1 DEF FeesDue, FeesBurnt, Subsidies, Committed, SubsidiesIn, LiveIn, Waiting, Closed, V1!Live,
                V1!feesOf, V1!subsidyOf
  <2>3. \A e \in V1Epochs : V1RowOK(e)'
    BY <2>1 DEF V1Inv, V1RowOK
  <2> QED
    BY <2>1, <2>2, <2>3 DEF V1Inv
<1> QED
  BY <1>1, <1>2, <1>3, V1Post, V1Veto, V1Finalize, V1Claim DEF V1!Next

\* What was minted is bounded, epoch by epoch, by what was burned for it and by its subsidy.
LEMMA V1Bounded == V1Inv => V1!MintsBounded
<1> SUFFICES ASSUME V1Inv PROVE V1!MintsBounded
  OBVIOUS
<1> DEFINE E == V1Epochs
           C == Closed
           L == V1!Live
           m == V1!mintedOf
           f == V1!feesOf
           s == V1!subsidyOf
           u == [x \in E |-> f[x] * 9800]
           v == [x \in E |-> s[x] * 10000]
           h == [x \in E |-> u[x] + v[x]]
<1>1. \A x \in E : V1!mintedOf[x] = v1_ep[x].minted /\ f[x] = v1_ep[x].fees /\ s[x] = v1_ep[x].mintB
  BY DEF V1!mintedOf, V1!feesOf, V1!subsidyOf
<1>2. \A x \in E : m[x] \in Nat /\ f[x] \in Nat /\ s[x] \in Nat
  BY <1>1, V1Facts
<1>3. /\ C \subseteq E /\ L \subseteq E /\ C \subseteq L /\ IsFiniteSet(E) /\ IsFiniteSet(C) /\ IsFiniteSet(L)
      /\ IsFiniteSet(E \ C)
  <2>1. C \subseteq E /\ L \subseteq E /\ C \subseteq L /\ E \ C \subseteq E
    BY DEF Closed, V1!Live
  <2> HIDE DEF C, L, E
  <2>2. IsFiniteSet(E)
    BY V1Numbers DEF E
  <2> QED
    BY <2>1, <2>2, FS_Subset
<1>4. \A x \in E \ C : m[x] = 0
  <2> SUFFICES ASSUME NEW x \in E, x \notin C PROVE m[x] = 0
    OBVIOUS
  <2>1. v1_ep[x].st # "Finalized"
    BY DEF Closed
  <2>2. v1_ep[x].minted = 0
    BY <2>1, V1Facts
  <2> QED
    BY <1>1, <2>2
<1>5. ASSUME NEW x \in C PROVE m[x] * 10000 <= 1 * h[x] /\ h[x] = u[x] + v[x] /\ u[x] \in Nat /\ v[x] \in Nat /\ h[x] \in Nat
  <2>1. x \in E
    BY <1>3
  <2>2. /\ m[x] <= v1_ep[x].mintA + s[x] /\ v1_ep[x].mintA * 10000 <= f[x] * 9800 /\ v1_ep[x].mintA \in Nat
    BY <1>1, <2>1, V1Facts
  <2>3. u[x] = f[x] * 9800 /\ v[x] = s[x] * 10000 /\ h[x] = u[x] + v[x]
    BY <2>1
  <2> HIDE DEF m, f, s, u, v, h
  <2> QED
    BY <1>2, <2>1, <2>2, <2>3
<1>6. \A x \in C : u[x] * 1 <= 9800 * f[x] /\ v[x] * 1 <= 10000 * s[x]
  BY <1>2, <1>3
<1> DEFINE Z(g, T) == SumFunctionOnSet(g, T)
<1> HIDE DEF m, f, s, u, v, h, C, L, E
<1>7. Z(m, E) = Z(m, C) + Z(m, E \ C) /\ Z(m, E \ C) = 0 /\ Z(m, C) \in Nat
  <2>1. Z(m, E) = Z(m, C) + Z(m, E \ C)
    BY <1>2, <1>3, SumSplit
  <2>2. Z(m, E \ C) = 0
    BY <1>3, <1>4, SumZero
  <2>3. Z(m, C) \in Nat
    BY <1>2, <1>3, SumNat
  <2> QED
    BY <2>1, <2>2, <2>3
<1>8. Z(m, C) * 10000 <= 1 * Z(h, C)
  <2>1. \A x \in C : m[x] \in Nat /\ h[x] \in Nat /\ m[x] * 10000 <= 1 * h[x]
    BY <1>2, <1>3, <1>5
  <2> QED
    BY <2>1, <1>3, SumScaled
<1>9. Z(h, C) = Z(u, C) + Z(v, C) /\ Z(u, C) \in Nat /\ Z(v, C) \in Nat
  <2>1. \A x \in C : u[x] \in Nat /\ v[x] \in Nat /\ h[x] = u[x] + v[x]
    BY <1>5
  <2>2. Z(h, C) = Z(u, C) + Z(v, C)
    BY <2>1, <1>3, SumPlus
  <2>3. Z(u, C) \in Nat /\ Z(v, C) \in Nat
    BY <2>1, <1>3, SumNat
  <2> QED
    BY <2>2, <2>3
<1>10. Z(u, C) * 1 <= 9800 * Z(f, C)
  <2>1. \A x \in C : u[x] \in Nat /\ f[x] \in Nat /\ u[x] * 1 <= 9800 * f[x]
    BY <1>2, <1>3, <1>5, <1>6
  <2> QED
    BY <2>1, <1>3, SumScaled
<1>11. Z(v, C) * 1 <= 10000 * Z(s, C)
  <2>1. \A x \in C : v[x] \in Nat /\ s[x] \in Nat /\ v[x] * 1 <= 10000 * s[x]
    BY <1>2, <1>3, <1>5, <1>6
  <2> QED
    BY <2>1, <1>3, SumScaled
<1>12. Z(s, L) = Z(s, C) + Z(s, L \ C) /\ Z(s, L \ C) \in Nat /\ Z(s, C) \in Nat /\ Z(f, C) \in Nat
  <2>1. Z(s, L) = Z(s, C) + Z(s, L \ C)
    <3>1. \A x \in L : s[x] \in Nat
      BY <1>2, <1>3
    <3> QED
      BY <1>3, <3>1, SumSplit
  <2>2. Z(s, L \ C) \in Nat
    <3>1. \A x \in L \ C : s[x] \in Nat
      BY <1>2, <1>3
    <3>2. IsFiniteSet(L \ C)
      <4>1. L \ C \subseteq L
        OBVIOUS
      <4> QED
        BY <1>3, <4>1, FS_Subset
    <3> QED
      BY <3>1, <3>2, SumNat
  <2>3. Z(s, C) \in Nat /\ Z(f, C) \in Nat
    BY <1>2, <1>3, SumNat
  <2> QED
    BY <2>1, <2>2, <2>3
<1>13. burnt = Z(f, C) /\ Committed = Z(s, L)
  BY DEF V1Inv, FeesBurnt, Subsidies, f, s, C, L
<1>14. (Z(m, E) - Committed) * 10000 <= burnt * 9800
  <2> DEFINE a == Z(m, E)
             b == Z(s, L)
             c == Z(f, C)
  <2>1. a \in Nat /\ b \in Nat /\ c \in Nat /\ a * 10000 <= c * 9800 + b * 10000
    BY <1>7, <1>8, <1>9, <1>10, <1>11, <1>12
  <2> HIDE DEF a, b, c
  <2>2. (a - b) * 10000 <= c * 9800
    BY <2>1
  <2> QED
    BY <1>13, <2>2 DEF a, b, c
<1>15. V1!SumFunctionOnSet(V1!mintedOf, E) = Z(m, E)
  BY DEF V1!SumFunctionOnSet, V1!FoldFunctionOnSet, V1!MapThenFoldSet,
         SumFunctionOnSet, FoldFunctionOnSet, MapThenFoldSet, m
<1>16. V1!SumFunctionOnSet(subsidyByYear, DOMAIN subsidyByYear) = Committed
  <2>1. DOMAIN subsidyByYear = V1Years
    BY DEF V1Inv
  <2> QED
    BY <2>1 DEF V1!SumFunctionOnSet, V1!FoldFunctionOnSet, V1!MapThenFoldSet,
                SumFunctionOnSet, FoldFunctionOnSet, MapThenFoldSet, Committed
<1> QED
  BY <1>14, <1>15, <1>16 DEF V1!MintsBounded, E

\* What the first settlement contract promises follows.
LEMMA V1Sound ==
  V1Inv => V1!TypeOK /\ V1!PostsBacked /\ V1!SubsidyExact /\ V1!NothingBeforeFinal /\ V1!MintsBounded
<1> SUFFICES ASSUME V1Inv
             PROVE  V1!TypeOK /\ V1!PostsBacked /\ V1!SubsidyExact /\ V1!NothingBeforeFinal /\ V1!MintsBounded
  OBVIOUS
<1>1. \A f, S : V1!SumFunctionOnSet(f, S) = SumFunctionOnSet(f, S)
  BY DEF V1!SumFunctionOnSet, V1!FoldFunctionOnSet, V1!MapThenFoldSet,
         SumFunctionOnSet, FoldFunctionOnSet, MapThenFoldSet
<1>2. FeesDue \in Nat /\ DOMAIN subsidyByYear = V1Years
  BY V1Sums DEF V1Inv
<1>3. V1!TypeOK
  <2>1. \A e \in V1Epochs : v1_ep[e].st \in {"None", "Posted", "Vetoed", "Finalized"} /\ v1_ep[e].postedAt \in 0 .. v1_now
    <3> SUFFICES ASSUME NEW e \in V1Epochs
                 PROVE  v1_ep[e].st \in {"None", "Posted", "Vetoed", "Finalized"} /\ v1_ep[e].postedAt \in 0 .. v1_now
      OBVIOUS
    <3>1. v1_ep[e] \in V1Row /\ v1_ep[e].postedAt \in Nat /\ v1_ep[e].postedAt <= v1_now /\ v1_now \in Nat
      BY V1Facts
    <3>2. v1_ep[e].st \in {"None", "Posted", "Vetoed", "Finalized"}
      BY <3>1, V1Fields
    <3> QED
      BY <3>1, <3>2
  <2>2. /\ totalEscrow \in Nat /\ v1_pendingBurn \in Nat /\ v1_supply \in Nat /\ v1_bal \in 0 .. v1_supply
        /\ \A y \in V1Years : subsidyByYear[y] \in Nat
    BY <1>2 DEF V1Inv
  <2> QED
    BY <1>2, <2>1, <2>2 DEF V1!TypeOK
<1>4. V1!PostsBacked
  BY <1>1 DEF V1!PostsBacked, V1Inv, FeesDue, Waiting
<1>5. V1!SubsidyExact
  BY <1>1, <1>2 DEF V1!SubsidyExact, V1Inv, SubsidiesIn, LiveIn
<1>6. V1!NothingBeforeFinal
  BY DEF V1!NothingBeforeFinal, V1Inv, V1RowOK
<1> QED
  BY <1>3, <1>4, <1>5, <1>6, V1Bounded

\* The registries' lists are those of one deployment or of the other: the variables are shared.
LegacyInv ==
  /\ StkInv /\ EscInv /\ EmiInv /\ V1Inv
  /\ part = "registries" => RegInv
  /\ part = "minter" => MntInv

\* Every contract starts sound.
LEMMA LegacyInit == ContractsInit => LegacyInv
<1> SUFFICES ASSUME ContractsInit PROVE LegacyInv
  OBVIOUS
<1>1. Stk!Init /\ Esc!Init /\ Emi!Init /\ V1!Init
  BY DEF ContractsInit
<1>2. (CASE part = "minter" -> Mnt!Init [] OTHER -> Reg!Init)
  BY DEF ContractsInit
<1>3. part = "registries" => Reg!Init
  BY <1>2
<1>4. part = "minter" => Mnt!Init
  BY <1>2
<1> QED
  BY <1>1, <1>3, <1>4, StkInit, EscInit, EmiInit, V1Init, RegInit, MntInit DEF LegacyInv

\* A step of one contract leaves the others where they are.
LEMMA LegacySteps == ASSUME LegacyInv, [ContractsNext]_all PROVE LegacyInv'
<1>1. /\ [Stk!Next]_stkVars /\ [Esc!Next]_escVars /\ [Emi!Next]_emiVars /\ [V1!Next]_v1Vars /\ part' = part
      /\ part = "registries" => [Reg!Next]_regVars
      /\ part = "minter" => [Mnt!Next]_regVars
  <2>1. CASE V2Only
    BY <2>1 DEF V2Only
  <2>2. CASE StakingOnly /\ Stk!Next
    BY <2>2 DEF StakingOnly
  <2>3. CASE EscrowOnly /\ Esc!Next
    BY <2>3 DEF EscrowOnly
  <2>4. CASE RegistriesOnly /\ Reg!Next
    BY <2>4 DEF RegistriesOnly
  <2>5. CASE MinterOnly /\ Mnt!Next
    BY <2>5 DEF MinterOnly
  <2>6. CASE EmissionOnly /\ Emi!Next
    BY <2>6 DEF EmissionOnly
  <2>7. CASE V1Only /\ V1!Next
    BY <2>7 DEF V1Only
  <2>8. CASE UNCHANGED all
    BY <2>8 DEF all
  <2> QED
    BY <2>1, <2>2, <2>3, <2>4, <2>5, <2>6, <2>7, <2>8 DEF ContractsNext
<1>2. StkInv'
  BY <1>1, StkSteps DEF LegacyInv
<1>3. EscInv'
  BY <1>1, EscSteps DEF LegacyInv
<1>4. EmiInv'
  BY <1>1, EmiSteps DEF LegacyInv
<1>5. V1Inv'
  BY <1>1, V1Steps DEF LegacyInv
<1>6. part' = "registries" => RegInv'
  BY <1>1, RegSteps DEF LegacyInv
<1>7. part' = "minter" => MntInv'
  BY <1>1, MntSteps DEF LegacyInv
<1> QED
  BY <1>2, <1>3, <1>4, <1>5, <1>6, <1>7 DEF LegacyInv

\* The contracts of the first generation hold what they promise.
THEOREM LegacyStaysSound == ContractsSpec => []LegacySound
<1>1. LegacyInv => LegacySound
  BY StkSound, EscSound, EmiSound, V1Sound, MntSound DEF LegacyInv, LegacySound, RegInv
<1> QED
  BY <1>1, LegacyInit, LegacySteps, PTL DEF ContractsSpec
=============================================================================
