--------------------------- MODULE DepositsProofs ---------------------------
(***************************************************************************)
(* What the deposit watcher promises, for every number of passes, depth of  *)
(* confirmation, block window and history of the chain.                     *)
(***************************************************************************)
EXTENDS MCPayments, FiniteSetTheorems, TLAPS

\* Reorganisations are bounded by the confirmations, so a block this old stays as it is.
Buried(b) == b + Confirmations =< head

\* A marker and its credit are one write, and a log is marked only when it is buried.
Marked ==
  /\ CreditedOnce
  /\ \A d \in processed : block[d] # 0 /\ Buried(block[d])

\* Per pass: what it scans is buried, and what it has still to credit is in the range it scanned.
PassSound(p) ==
  LET s == pass[p]
  IN  /\ s.latest # 0 => Buried(s.latest)
      /\ s.pc \notin {"idle", "cursor"} => s.from # 0
      /\ s.pc \in {"credit", "batch"} =>
           /\ s.from =< s.to /\ s.to =< s.latest
           /\ \A d \in s.todo : block[d] # 0 /\ block[d] =< s.to
      /\ s.pc = "batch" => s.log \in s.todo

IInv == TypeOK /\ Marked /\ \A p \in Passes : PassSound(p)

-----------------------------------------------------------------------------

\* The cursor a pass starts from is a natural number, whether it was stored or is the first.
LEMMA FirstCursorNat == \A latest \in Nat : FirstCursor(latest) \in Nat
  BY DepositsAssumption DEF FirstCursor

\* A scan ends no later than the newest buried block, and at the block it starts from at the earliest.
LEMMA LastBlockBounds ==
  ASSUME NEW from \in Nat, NEW latest \in Nat, from =< latest
  PROVE  LastBlock(from, latest) \in from..latest
  BY DepositsAssumption DEF LastBlock

\* Nothing is credited before the first pass.
LEMMA InitIInv == Init => IInv
<1> SUFFICES ASSUME Init PROVE IInv
  OBVIOUS
<1>1. TypeOK
  BY DEF Init, TypeOK, PassType, Idle
<1>2. Marked
  BY DEF Init, Marked, CreditedOnce
<1>3. \A p \in Passes : PassSound(p)
  BY DEF Init, PassSound, Idle
<1> QED
  BY <1>1, <1>2, <1>3 DEF IInv

\* A new block buries nothing less, and holds only logs that no pass has seen.
LEMMA MineStep == ASSUME IInv, Mine PROVE IInv'
<1> USE DEF Mine, IInv, chain, ledger, Buried
<1>1. PICK new \in SUBSET {d \in Logs : block[d] = 0} :
        block' = [d \in Logs |-> IF d \in new THEN head' ELSE block[d]]
  OBVIOUS
<1>2. head \in Nat /\ head' = head + 1 /\ block \in [Logs -> Nat] /\ Confirmations \in Nat
  BY DepositsAssumption DEF TypeOK
<1>3. \A d \in Logs : block[d] # 0 => block'[d] = block[d]
  BY <1>1
<1>4. TypeOK'
  BY <1>1, <1>2 DEF TypeOK
<1>5. Marked'
  BY <1>2, <1>3 DEF Marked, CreditedOnce, TypeOK
<1>6. ASSUME NEW p \in Passes PROVE PassSound(p)'
  <2>1. PassSound(p) /\ UNCHANGED pass /\ pass[p] \in PassType
    BY DEF TypeOK
  <2> QED
    BY <1>2, <1>3, <2>1 DEF PassSound, PassType
<1> QED
  BY <1>4, <1>5, <1>6

\* A reorganisation moves only logs that are not buried, and to blocks that are not buried.
LEMMA ReorgMoves ==
  ASSUME TypeOK, Reorg
  PROVE  /\ block' \in [Logs -> Nat]
         /\ \A d \in Logs : (block[d] # 0 /\ Buried(block[d])) => block'[d] = block[d]
         /\ \A d \in Logs : (block'[d] # 0 /\ Buried(block'[d])) => block'[d] = block[d]
<1>1. PICK depth \in 1..ReorgDepth :
        LET moved == {d \in Logs : block[d] # 0 /\ block[d] + depth > head}
        IN  \E at \in [moved -> {0} \cup {b \in 1..head : b + depth > head}] :
              block' = [d \in Logs |-> IF d \in moved THEN at[d] ELSE block[d]]
  BY DEF Reorg
<1> DEFINE moved == {d \in Logs : block[d] # 0 /\ block[d] + depth > head}
           fresh == {0} \cup {b \in 1..head : b + depth > head}
<1>2. PICK at \in [moved -> fresh] : block' = [d \in Logs |-> IF d \in moved THEN at[d] ELSE block[d]]
  BY <1>1
<1>3. head \in Nat /\ block \in [Logs -> Nat] /\ depth \in Nat /\ depth =< Confirmations /\ Confirmations \in Nat
  BY DepositsAssumption DEF TypeOK
<1>4. ASSUME NEW d \in moved
      PROVE  at[d] \in Nat /\ (at[d] # 0 => at[d] + depth > head) /\ block[d] + depth > head
  BY <1>2, <1>3
<1>5. ASSUME NEW d \in Logs
      PROVE  /\ block'[d] \in Nat
             /\ (block[d] # 0 /\ Buried(block[d])) => block'[d] = block[d]
             /\ (block'[d] # 0 /\ Buried(block'[d])) => block'[d] = block[d]
  <2>0. block[d] \in Nat
    BY <1>3
  <2>1. CASE d \in moved
    <3>1. block'[d] = at[d]
      BY <1>2, <2>1
    <3> HIDE DEF moved, fresh
    <3> QED
      BY <1>3, <1>4, <2>0, <2>1, <3>1 DEF Buried
  <2>2. CASE d \notin moved
    <3>1. block'[d] = block[d]
      BY <1>2, <2>2
    <3> QED
      BY <2>0, <3>1
  <2> QED
    BY <2>1, <2>2
<1>6. block' \in [Logs -> Nat]
  <2>1. block' = [d \in Logs |-> block'[d]]
    BY <1>2
  <2> QED
    BY <1>5, <2>1
<1> QED
  BY <1>5, <1>6

\* A reorganisation moves or drops only what is not buried, so no credited deposit.
LEMMA ReorgStep == ASSUME IInv, Reorg PROVE IInv'
<1>1. /\ head \in Nat /\ block \in [Logs -> Nat] /\ Confirmations \in Nat /\ reorgs' \in Nat
      /\ UNCHANGED <<head, cursor, ledger, pass, start, faults>>
  BY DepositsAssumption DEF IInv, TypeOK, Reorg
<1>2. /\ block' \in [Logs -> Nat]
      /\ \A d \in Logs : (block[d] # 0 /\ Buried(block[d])) => block'[d] = block[d]
  BY ReorgMoves DEF IInv
<1>3. TypeOK'
  BY <1>1, <1>2 DEF IInv, TypeOK, ledger
<1>4. Marked'
  BY <1>1, <1>2 DEF IInv, TypeOK, Marked, CreditedOnce, Buried, ledger
<1>5. ASSUME NEW p \in Passes PROVE PassSound(p)'
  <2>1. PassSound(p) /\ UNCHANGED pass /\ pass[p] \in PassType
    BY <1>1 DEF IInv, TypeOK
  <2> QED
    BY <1>1, <1>2, <2>1 DEF PassSound, PassType, Buried
<1> QED
  BY <1>3, <1>4, <1>5 DEF IInv

\* A step of a pass that writes neither the chain nor the ledger: only the pass itself is in question.
LEMMA OwnStep ==
  ASSUME IInv, NEW p \in Passes, UNCHANGED <<chain, ledger>>,
         NEW s \in PassType, pass' = [pass EXCEPT ![p] = s],
         cursor' \in Nat \cup {None}, start' \in Nat \cup {None}, faults' \in Nat,
         s.latest # 0 => Buried(s.latest),
         s.pc \notin {"idle", "cursor"} => s.from # 0,
         s.pc \in {"credit", "batch"} =>
           s.from =< s.to /\ s.to =< s.latest /\ \A d \in s.todo : block[d] # 0 /\ block[d] =< s.to,
         s.pc = "batch" => s.log \in s.todo
  PROVE  IInv'
<1> USE DEF IInv, chain, ledger
<1>1. TypeOK'
  BY DEF TypeOK
<1>2. Marked'
  BY DEF Marked, CreditedOnce, Buried
<1>3. ASSUME NEW q \in Passes PROVE PassSound(q)'
  <2>1. pass'[q] = IF q = p THEN s ELSE pass[q]
    BY DEF TypeOK
  <2>2. CASE q = p
    BY <2>1, <2>2 DEF PassSound, Buried
  <2>3. CASE q # p
    <3>1. PassSound(q) /\ pass'[q] = pass[q]
      BY <2>1, <2>3
    <3> QED
      BY <3>1 DEF PassSound, Buried
  <2> QED
    BY <2>2, <2>3
<1> QED
  BY <1>1, <1>2, <1>3

\* Before it has scanned, a pass knows only the newest buried block.
LEMMA EarlyStep ==
  ASSUME IInv, NEW p \in Passes,
         Begin(p) \/ ReadCursor(p) \/ StoreFirst(p) \/ StoreCursor(p) \/ Fail(p)
  PROVE  IInv'
<1>1. /\ head \in Nat /\ Confirmations \in Nat /\ faults \in Nat /\ pass[p] \in PassType
      /\ cursor \in Nat \cup {None} /\ start \in Nat \cup {None} /\ pass \in [Passes -> PassType]
  BY DepositsAssumption DEF IInv, TypeOK
<1>2. PassSound(p)
  BY DEF IInv
<1>3. Idle \in PassType /\ Idle.pc = "idle" /\ Idle.latest = 0
  BY DEF Idle, PassType
<1>4. CASE Begin(p)
  <2> DEFINE s == [Idle EXCEPT !.pc = "cursor", !.latest = Latest]
  <2>1. Latest \in Nat /\ (Latest # 0 => Buried(Latest))
    BY <1>1 DEF Latest, Buried
  <2>2. s \in PassType /\ s.pc = "cursor" /\ s.latest = Latest
    BY <2>1 DEF Idle, PassType
  <2>3. pass' = [pass EXCEPT ![p] = s] /\ UNCHANGED <<chain, ledger, cursor, start, faults>>
    BY <1>4 DEF Begin
  <2> HIDE DEF s
  <2> QED
    BY <1>1, <2>1, <2>2, <2>3, OwnStep
<1>5. CASE ReadCursor(p)
  <2> DEFINE c == IF cursor = None THEN FirstCursor(pass[p].latest) ELSE cursor
             s == [pass[p] EXCEPT !.pc = IF cursor = None THEN "first" ELSE "scan", !.from = 1 + c]
  <2>1. c \in Nat
    BY <1>1, FirstCursorNat DEF PassType
  <2> HIDE DEF c
  <2>2. /\ s \in PassType /\ s.pc \notin {"credit", "batch"} /\ s.latest = pass[p].latest
        /\ s.from = 1 + c /\ s.from # 0
    <3>1. 1 + c \in Nat /\ 1 + c # 0
      BY <2>1
    <3>2. s.from = 1 + c /\ s.latest = pass[p].latest /\ s.pc \in {"first", "scan"}
      BY <1>1 DEF PassType
    <3>3. s \in PassType
      BY <1>1, <3>1 DEF PassType
    <3> QED
      BY <3>1, <3>2, <3>3
  <2>3. pass' = [pass EXCEPT ![p] = s] /\ UNCHANGED <<chain, ledger, cursor, start, faults>>
    BY <1>1, <1>5 DEF ReadCursor, c
  <2> HIDE DEF s
  <2> QED
    BY <1>1, <1>2, <2>2, <2>3, OwnStep DEF PassSound
<1>6. CASE StoreFirst(p)
  <2> DEFINE s == [pass[p] EXCEPT !.pc = "scan"]
  <2>1. s \in PassType /\ s.pc = "scan" /\ s.latest = pass[p].latest /\ s.from = pass[p].from
    BY <1>1 DEF PassType
  <2>2. pass' = [pass EXCEPT ![p] = s] /\ UNCHANGED <<chain, ledger, faults>>
    BY <1>1, <1>6 DEF StoreFirst
  <2>3. cursor' \in Nat \cup {None} /\ start' \in Nat \cup {None}
    <3>1. pass[p].from \in Nat /\ pass[p].from # 0 /\ cursor' = pass[p].from - 1
      BY <1>1, <1>2, <1>6 DEF StoreFirst, PassType, PassSound
    <3>2. cursor' \in Nat
      BY <3>1
    <3> QED
      BY <1>1, <1>6, <3>2 DEF StoreFirst
  <2>4. (s.latest # 0 => Buried(s.latest)) /\ s.from # 0
    BY <1>2, <1>6, <2>1 DEF PassSound, StoreFirst
  <2> HIDE DEF s
  <2> QED
    BY <1>1, <2>1, <2>2, <2>3, <2>4, OwnStep
<1>7. CASE StoreCursor(p)
  <2>1. pass' = [pass EXCEPT ![p] = Idle] /\ UNCHANGED <<chain, ledger, start, faults>> /\ cursor' \in Nat
    BY <1>1, <1>7 DEF StoreCursor, PassType
  <2> QED
    BY <1>1, <1>3, <2>1, OwnStep
<1>8. CASE Fail(p)
  <2>1. /\ pass' = [pass EXCEPT ![p] = Idle] /\ UNCHANGED <<chain, ledger, cursor, start>>
        /\ faults' \in Nat
    BY <1>1, <1>8 DEF Fail
  <2> QED
    BY <1>1, <1>3, <2>1, OwnStep
<1> QED
  BY <1>4, <1>5, <1>6, <1>7, <1>8

\* A pass lists the logs of its range (scan).
LEMMA ScanStep == ASSUME IInv, NEW p \in Passes, Scan(p) PROVE IInv'
<1> DEFINE from == pass[p].from
           latest == pass[p].latest
           to == LastBlock(from, latest)
<1>1. /\ pass[p] \in PassType /\ from \in Nat /\ latest \in Nat /\ PassSound(p)
      /\ cursor \in Nat \cup {None} /\ start \in Nat \cup {None} /\ faults \in Nat
      /\ UNCHANGED <<chain, cursor, ledger, start, faults>> /\ block \in [Logs -> Nat]
  BY DEF IInv, TypeOK, PassType, Scan
<1>2. CASE from > latest
  <2>1. pass' = [pass EXCEPT ![p] = Idle]
    BY <1>2 DEF Scan
  <2>2. Idle \in PassType /\ Idle.pc = "idle" /\ Idle.latest = 0
    BY DEF Idle, PassType
  <2> QED
    BY <1>1, <2>1, <2>2, OwnStep
<1>3. CASE from =< latest
  <2> DEFINE found == {d \in Logs : block[d] \in from..to}
             s == [pass[p] EXCEPT !.pc = "credit", !.to = to, !.todo = found]
  <2>1. to \in from..latest /\ to \in Nat
    BY <1>1, <1>3, LastBlockBounds
  <2>2. pass' = [pass EXCEPT ![p] = s]
    <3>1. ~(from > latest)
      BY <1>1, <1>3
    <3> QED
      BY <3>1, Zenon DEF Scan
  <2>3. from # 0
    BY <1>1 DEF PassSound, Scan
  <2>4. \A d \in found : block[d] # 0 /\ block[d] =< to
    BY <1>1, <2>1, <2>3
  <2>5. found \subseteq Logs
    OBVIOUS
  <2> HIDE DEF to, found
  <2>6. s \in PassType /\ s.pc = "credit" /\ s.to = to /\ s.todo = found /\ s.from = from /\ s.latest = latest
    BY <1>1, <2>1, <2>5 DEF PassType
  <2> HIDE DEF s
  <2> QED
    <3>1. from =< to /\ to =< latest /\ (latest # 0 => Buried(latest))
      BY <1>1, <2>1 DEF PassSound
    <3> HIDE DEF from, latest
    <3> QED
      BY <1>1, <2>2, <2>3, <2>4, <2>6, <3>1, OwnStep
<1> QED
  BY <1>1, <1>2, <1>3

\* A pass looks up which of them are credited already (the SELECT before the batch).
LEMMA SelectStep == ASSUME IInv, NEW p \in Passes, Select(p) PROVE IInv'
<1>1. /\ pass[p] \in PassType /\ PassSound(p) /\ pass[p].pc = "credit"
      /\ cursor \in Nat \cup {None} /\ start \in Nat \cup {None} /\ faults \in Nat
      /\ UNCHANGED <<chain, ledger, cursor, start, faults>>
  BY DEF IInv, TypeOK, Select
<1>2. PICK d \in pass[p].todo :
        pass' = IF Seen(d) THEN [pass EXCEPT ![p].todo = @ \ {d}]
                ELSE [pass EXCEPT ![p].pc = "batch", ![p].log = d]
  BY DEF Select
<1>3. CASE Seen(d)
  <2> DEFINE s == [pass[p] EXCEPT !.todo = @ \ {d}]
  <2>1. /\ s \in PassType /\ s.pc = "credit" /\ s.latest = pass[p].latest /\ s.from = pass[p].from
        /\ s.to = pass[p].to /\ s.todo = pass[p].todo \ {d}
    BY <1>1 DEF PassType
  <2>2. pass' = [pass EXCEPT ![p] = s]
    BY <1>2, <1>3
  <2> HIDE DEF s
  <2> QED
    BY <1>1, <2>1, <2>2, OwnStep DEF PassSound
<1>4. CASE ~Seen(d)
  <2> DEFINE s == [pass[p] EXCEPT !.pc = "batch", !.log = d]
  <2>1. /\ s \in PassType /\ s.pc = "batch" /\ s.latest = pass[p].latest /\ s.from = pass[p].from
        /\ s.to = pass[p].to /\ s.todo = pass[p].todo /\ s.log = d
    BY <1>1 DEF PassType
  <2>2. pass' = [pass EXCEPT ![p] = s]
    BY <1>2, <1>4
  <2> HIDE DEF s
  <2> QED
    BY <1>1, <2>1, <2>2, OwnStep DEF PassSound
<1> QED
  BY <1>3, <1>4

\* What a pass is about to credit is buried.
LEMMA FoundIsBuried ==
  ASSUME IInv, NEW p \in Passes, pass[p].pc \in {"credit", "batch"}, NEW d \in pass[p].todo
  PROVE  d \in Logs /\ block[d] # 0 /\ Buried(block[d])
<1>1. /\ pass[p] \in PassType /\ PassSound(p) /\ head \in Nat /\ Confirmations \in Nat
      /\ block \in [Logs -> Nat]
  BY DepositsAssumption DEF IInv, TypeOK
<1>2. d \in Logs /\ block[d] \in Nat /\ pass[p].to \in Nat /\ pass[p].latest \in Nat
  BY <1>1 DEF PassType
<1>3. block[d] # 0 /\ block[d] =< pass[p].to /\ pass[p].to =< pass[p].latest
  BY <1>1 DEF PassSound
<1>4. Buried(pass[p].latest)
  BY <1>1, <1>2, <1>3 DEF PassSound
<1> QED
  BY <1>1, <1>2, <1>3, <1>4 DEF Buried

\* The transaction credits a log only together with its marker, so a second pass that found the same log
\* before the first one committed is rolled back.
LEMMA BatchStep == ASSUME IInv, NEW p \in Passes, Batch(p) PROVE IInv'
<1> DEFINE d == pass[p].log
<1>1. /\ pass[p] \in PassType /\ PassSound(p) /\ pass[p].pc = "batch"
      /\ cursor \in Nat \cup {None} /\ start \in Nat \cup {None} /\ faults \in Nat
      /\ UNCHANGED <<chain, cursor, start, faults>> /\ pass \in [Passes -> PassType]
  BY DEF IInv, TypeOK, Batch
<1>2. d \in pass[p].todo
  BY <1>1 DEF PassSound
<1>3. d \in Logs /\ block[d] # 0 /\ Buried(block[d])
  BY <1>1, <1>2, FoundIsBuried
<1>4. CASE Duplicate(d)
  <2>1. pass' = [pass EXCEPT ![p] = Idle] /\ UNCHANGED ledger
    BY <1>4 DEF Batch
  <2>2. Idle \in PassType /\ Idle.pc = "idle" /\ Idle.latest = 0
    BY DEF Idle, PassType
  <2> QED
    BY <1>1, <2>1, <2>2, OwnStep
<1>5. CASE ~Duplicate(d)
  <2> DEFINE s == [pass[p] EXCEPT !.pc = "credit", !.todo = @ \ {d}, !.log = None]
  <2>1. /\ processed' = processed \cup {d} /\ credits' = [credits EXCEPT ![d] = @ + 1]
        /\ pass' = [pass EXCEPT ![p] = s]
    BY <1>5 DEF Batch
  <2>2. /\ s \in PassType /\ s.pc = "credit" /\ s.latest = pass[p].latest /\ s.from = pass[p].from
        /\ s.to = pass[p].to /\ s.todo = pass[p].todo \ {d}
    BY <1>1 DEF PassType
  <2> HIDE DEF s
  <2>3. d \notin processed /\ credits[d] = 0
    BY <1>3, <1>5 DEF Duplicate, IInv, Marked, CreditedOnce
  <2> HIDE DEF d
  <2>4. \A k \in Logs : credits'[k] = IF k = d THEN 1 ELSE credits[k]
    BY <1>3, <2>1, <2>3 DEF IInv, TypeOK
  <2>5. Marked'
    <3>1. CreditedOnce'
      BY <1>3, <2>1, <2>4 DEF IInv, Marked, CreditedOnce
    <3>2. ASSUME NEW k \in processed' PROVE (block[k] # 0 /\ Buried(block[k]))'
      BY <1>1, <1>3, <2>1 DEF IInv, Marked, Buried, chain
    <3> QED
      BY <3>1, <3>2 DEF Marked
  <2>6. TypeOK'
    BY <1>1, <1>3, <2>1, <2>2, <2>4 DEF IInv, TypeOK, chain
  <2>7. ASSUME NEW q \in Passes PROVE PassSound(q)'
    <3>1. pass'[q] = IF q = p THEN s ELSE pass[q]
      BY <1>1, <2>1
    <3>2. PassSound(q)
      BY DEF IInv
    <3> QED
      BY <1>1, <2>2, <3>1, <3>2 DEF PassSound, Buried, chain
  <2> QED
    BY <2>5, <2>6, <2>7 DEF IInv
<1> QED
  BY <1>4, <1>5

\* Deposits.Next keeps the markers, the credits and the burial of what is credited together.
THEOREM DepositsInvariance == Spec => []IInv
<1>1. IInv /\ [Next]_vars => IInv'
  <2> SUFFICES ASSUME IInv, [Next]_vars PROVE IInv'
    OBVIOUS
  <2>1. CASE UNCHANGED vars
    BY <2>1 DEF vars, chain, ledger, IInv, TypeOK, Marked, CreditedOnce, PassSound, Buried
  <2> QED
    BY <2>1, MineStep, ReorgStep, EarlyStep, ScanStep, SelectStep, BatchStep DEF Next, PassStep
<1> QED
  BY <1>1, InitIInv, PTL DEF Spec

\* Every variable of the watcher keeps its type.
THEOREM TypeCorrect == Spec => []TypeOK
BY DepositsInvariance, PTL DEF IInv

\* creditDeposit: however passes overlap, fail or rescan, a deposit is credited at
\* most once and never without its marker, and what is credited is in a block that
\* no reorganisation reaches any more, for every number of confirmations that
\* bounds the reorganisations.
THEOREM CreditedAtMostOnce == Spec => [](CreditedOnce /\ CreditedIsFinal)
<1>1. IInv => CreditedOnce /\ CreditedIsFinal
  <2> SUFFICES ASSUME IInv, NEW d \in processed PROVE block[d] \in 1..(head - Confirmations)
    BY DEF IInv, Marked, CreditedIsFinal
  <2> QED
    BY DepositsAssumption DEF IInv, TypeOK, Marked, Buried
<1> QED
  BY <1>1, DepositsInvariance, PTL

-----------------------------------------------------------------------------
(* The cursor, when DEPOSIT_WATCHER_START_BLOCK is set.                      *)

\* Every deposit from the start block to c is credited, and c is buried unless nothing was scanned yet.
Done(c) ==
  /\ c \in Nat /\ StartBlock - 1 =< c /\ (c = StartBlock - 1 \/ Buried(c))
  /\ \A d \in Logs \ Dust : block[d] \in StartBlock..c => d \in processed

\* Every deposit in the range a pass has scanned is credited, or still on its list.
Listed(p) ==
  \A d \in Logs \ Dust :
    block[d] \in pass[p].from..pass[p].to => d \in pass[p].todo \/ d \in processed

PassCovers(p) ==
  /\ pass[p].pc = "first" => pass[p].from = StartBlock
  /\ pass[p].pc \in {"scan", "credit", "batch"} => start = StartBlock - 1 /\ Done(pass[p].from - 1)
  /\ pass[p].pc \in {"credit", "batch"} => Listed(p)

\* Between the start block and the stored cursor nothing is missing, and every pass continues from such a place.
CoverInv ==
  /\ cursor = None \/ Done(cursor)
  /\ cursor # None => start = StartBlock - 1
  /\ start # None => start = StartBlock - 1
  /\ \A p \in Passes : PassCovers(p)

\* Neither a new block nor a reorganisation changes what a buried block holds.
LEMMA BuriedStays ==
  ASSUME IInv, Mine \/ Reorg
  PROVE  /\ \A c \in Nat : Buried(c) => Buried(c)'
         /\ \A c \in Nat, d \in Logs : (Buried(c) /\ block'[d] \in 1..c) => block'[d] = block[d]
<1>1. head \in Nat /\ Confirmations \in Nat /\ block \in [Logs -> Nat]
  BY DepositsAssumption DEF IInv, TypeOK
<1>2. CASE Mine
  <2>1. PICK new \in SUBSET {d \in Logs : block[d] = 0} :
          block' = [d \in Logs |-> IF d \in new THEN head' ELSE block[d]]
    BY <1>2 DEF Mine
  <2>2. head' = head + 1
    BY <1>2 DEF Mine
  <2>3. \A d \in Logs : block'[d] = block[d] \/ block'[d] = head + 1
    BY <2>1, <2>2
  <2> QED
    BY <1>1, <2>2, <2>3 DEF Buried
<1>3. CASE Reorg
  <2>1. head' = head
    BY <1>3 DEF Reorg
  <2>2. /\ block' \in [Logs -> Nat]
        /\ \A d \in Logs : (block'[d] # 0 /\ Buried(block'[d])) => block'[d] = block[d]
    BY <1>3, ReorgMoves DEF IInv
  <2> QED
    BY <1>1, <2>1, <2>2 DEF Buried
<1> QED
  BY <1>2, <1>3

\* The chain grows or reorganises: what no cursor has passed yet is still ahead of it.
LEMMA CoverChain ==
  ASSUME StartBlock # None, IInv, CoverInv, Mine \/ Reorg
  PROVE  CoverInv'
<1>1. /\ StartBlock \in Nat \ {0} /\ pass \in [Passes -> PassType] /\ block \in [Logs -> Nat]
      /\ UNCHANGED <<cursor, ledger, pass, start>> /\ block' \in [Logs -> Nat]
      /\ head \in Nat /\ Confirmations \in Nat
  <2>1. block' \in [Logs -> Nat]
    BY MineStep, ReorgStep DEF IInv, TypeOK
  <2> QED
    BY <2>1, DepositsAssumption DEF IInv, TypeOK, Mine, Reorg
<1>2. ASSUME NEW c, Done(c) PROVE Done(c)'
  <2>1. c \in Nat /\ (c = StartBlock - 1 \/ Buried(c))
    BY <1>2 DEF Done
  <2>2. c = StartBlock - 1 \/ Buried(c)'
    BY <2>1, BuriedStays
  <2>3. ASSUME NEW d \in Logs \ Dust, block'[d] \in StartBlock..c PROVE d \in processed
    <3>1. Buried(c)
      BY <1>1, <2>1, <2>3
    <3>2. block'[d] = block[d]
      BY <1>1, <2>1, <2>3, <3>1, BuriedStays
    <3> QED
      BY <1>2, <2>3, <3>2 DEF Done
  <2> QED
    BY <1>1, <1>2, <2>1, <2>2, <2>3 DEF Done, ledger
<1>3. ASSUME NEW p \in Passes PROVE PassCovers(p)'
  <2>1. PassCovers(p) /\ PassSound(p) /\ pass[p] \in PassType /\ pass'[p] = pass[p]
    BY <1>1 DEF IInv, CoverInv
  <2>2. ASSUME pass[p].pc \in {"scan", "credit", "batch"} PROVE Done(pass[p].from - 1)'
    <3>1. Done(pass[p].from - 1)
      BY <2>1, <2>2 DEF PassCovers
    <3>2. PICK c : c = pass[p].from - 1
      OBVIOUS
    <3>3. Done(c)'
      BY <1>2, <3>1, <3>2
    <3> QED
      BY <2>1, <3>2, <3>3 DEF Done
  <2>3. ASSUME pass[p].pc \in {"credit", "batch"} PROVE Listed(p)'
    <3>1. pass[p].from # 0 /\ pass[p].to =< pass[p].latest /\ (pass[p].latest # 0 => Buried(pass[p].latest))
      BY <2>1, <2>3 DEF PassSound
    <3>2. pass[p].from \in Nat /\ pass[p].to \in Nat /\ pass[p].latest \in Nat
      BY <2>1 DEF PassType
    <3>3. ASSUME NEW d \in Logs \ Dust, block'[d] \in pass[p].from..pass[p].to
          PROVE  d \in pass[p].todo \/ d \in processed
      <4>1. pass[p].latest # 0 /\ block'[d] \in 1..pass[p].latest
        BY <1>1, <3>1, <3>2, <3>3
      <4>2. block'[d] = block[d]
        BY <3>1, <3>2, <4>1, BuriedStays
      <4> QED
        BY <2>1, <2>3, <3>3, <4>2 DEF PassCovers, Listed
    <3> QED
      BY <1>1, <2>1, <3>3 DEF Listed, ledger
  <2> QED
    BY <1>1, <2>1, <2>2, <2>3 DEF PassCovers
<1>4. cursor' = None \/ Done(cursor)'
  <2>1. PICK c : c = cursor
    OBVIOUS
  <2> QED
    BY <1>1, <1>2, <2>1 DEF CoverInv, Done
<1> QED
  BY <1>1, <1>3, <1>4 DEF CoverInv

\* A step of a pass that leaves the chain alone and takes no marker away: the other passes still continue from
\* a place with nothing missing.
LEMMA OwnCover ==
  ASSUME StartBlock # None, IInv, CoverInv, NEW p \in Passes, UNCHANGED chain, processed \subseteq processed',
         NEW s \in PassType, pass' = [pass EXCEPT ![p] = s],
         s.pc = "first" => s.from = StartBlock,
         s.pc \in {"scan", "credit", "batch"} => start' = StartBlock - 1 /\ Done(s.from - 1),
         s.pc \in {"credit", "batch"} =>
           \A d \in Logs \ Dust : block[d] \in s.from..s.to => d \in s.todo \/ d \in processed',
         cursor' = None \/ (start' = StartBlock - 1 /\ Done(cursor')),
         start' = start \/ start' = StartBlock - 1
  PROVE  CoverInv'
<1> USE DEF chain
<1>1. ASSUME NEW q \in Passes PROVE PassCovers(q)'
  <2>1. pass'[q] = IF q = p THEN s ELSE pass[q]
    BY DEF IInv, TypeOK
  <2>2. CASE q = p
    <3>1. pass'[q] = s
      BY <2>1, <2>2
    <3>2. s.pc \in {"scan", "credit", "batch"} => Done(s.from - 1)'
      BY DEF Done, Buried
    <3> QED
      BY <3>1, <3>2 DEF PassCovers, Listed, Done
  <2>3. CASE q # p
    <3>1. pass'[q] = pass[q] /\ PassCovers(q)
      BY <2>1, <2>3 DEF CoverInv
    <3>2. pass[q].pc \in {"scan", "credit", "batch"} => Done(pass[q].from - 1)'
      BY <3>1 DEF PassCovers, Done, Buried
    <3>3. pass[q].pc \in {"credit", "batch"} => Listed(q)'
      BY <3>1 DEF PassCovers, Listed
    <3>4. start = StartBlock - 1 => start' = StartBlock - 1
      OBVIOUS
    <3> QED
      BY <3>1, <3>2, <3>3, <3>4 DEF PassCovers
  <2> QED
    BY <2>2, <2>3
<1>2. cursor' = None \/ Done(cursor)'
  BY DEF Done, Buried
<1>3. cursor' # None => start' = StartBlock - 1
  OBVIOUS
<1>4. start' # None => start' = StartBlock - 1
  BY DEF CoverInv
<1> QED
  BY <1>1, <1>2, <1>3, <1>4 DEF CoverInv

\* A pass starts, reads the cursor, or writes the first one.
LEMMA CoverEarly ==
  ASSUME StartBlock # None, IInv, CoverInv, NEW p \in Passes,
         Begin(p) \/ ReadCursor(p) \/ StoreFirst(p) \/ Fail(p)
  PROVE  CoverInv'
<1>1. /\ StartBlock \in Nat \ {0} /\ pass[p] \in PassType /\ PassCovers(p)
      /\ UNCHANGED <<chain, ledger>> /\ processed' = processed
      /\ cursor = None \/ (start = StartBlock - 1 /\ Done(cursor))
      /\ start = None \/ start = StartBlock - 1
  BY DepositsAssumption DEF IInv, TypeOK, CoverInv, Begin, ReadCursor, StoreFirst, Fail, ledger
<1>2. Idle \in PassType /\ Idle.pc = "idle"
  BY DEF Idle, PassType
<1>3. CASE Begin(p)
  <2> DEFINE s == [Idle EXCEPT !.pc = "cursor", !.latest = Latest]
  <2>1. Latest \in Nat
    BY DepositsAssumption DEF Latest, IInv, TypeOK
  <2>2. s \in PassType /\ s.pc = "cursor" /\ pass' = [pass EXCEPT ![p] = s] /\ UNCHANGED <<cursor, start>>
    BY <1>3, <2>1 DEF Idle, PassType, Begin
  <2> HIDE DEF s
  <2> QED
    BY <1>1, <2>2, OwnCover
<1>4. CASE Fail(p)
  <2>1. pass' = [pass EXCEPT ![p] = Idle] /\ UNCHANGED <<cursor, start>>
    BY <1>4 DEF Fail
  <2> QED
    BY <1>1, <1>2, <2>1, OwnCover
<1>5. CASE ReadCursor(p)
  <2> DEFINE c == IF cursor = None THEN StartBlock - 1 ELSE cursor
             s == [pass[p] EXCEPT !.pc = IF cursor = None THEN "first" ELSE "scan", !.from = 1 + c]
  <2>1. c \in Nat /\ 1 + c \in Nat /\ (1 + c) - 1 = c
    BY <1>1 DEF Done
  <2>2. pass' = [pass EXCEPT ![p] = s] /\ UNCHANGED <<cursor, start>>
    BY <1>5 DEF ReadCursor, FirstCursor
  <2>3. cursor = None => 1 + c = StartBlock
    BY <1>1
  <2>4. cursor # None => Done(c) /\ start = StartBlock - 1
    BY <1>1
  <2> HIDE DEF c
  <2>5. /\ s \in PassType /\ s.from = 1 + c
        /\ s.pc = IF cursor = None THEN "first" ELSE "scan"
    BY <1>1, <2>1 DEF PassType
  <2> HIDE DEF s
  <2> QED
    BY <1>1, <2>1, <2>2, <2>3, <2>4, <2>5, OwnCover
<1>6. CASE StoreFirst(p)
  <2> DEFINE s == [pass[p] EXCEPT !.pc = "scan"]
  <2>1. pass[p].from = StartBlock
    BY <1>1, <1>6 DEF PassCovers, StoreFirst
  <2>2. Done(StartBlock - 1)
    BY <1>1 DEF Done
  <2>3. s \in PassType /\ s.pc = "scan" /\ s.from = StartBlock
    BY <1>1, <2>1 DEF PassType
  <2>4. pass' = [pass EXCEPT ![p] = s] /\ cursor' = StartBlock - 1 /\ start' = StartBlock - 1
    BY <1>1, <1>6, <2>1 DEF StoreFirst
  <2> HIDE DEF s
  <2> QED
    BY <1>1, <2>2, <2>3, <2>4, OwnCover
<1> QED
  BY <1>3, <1>4, <1>5, <1>6

\* A scan lists every deposit of its range.
LEMMA CoverScan ==
  ASSUME StartBlock # None, IInv, CoverInv, NEW p \in Passes, Scan(p)
  PROVE  CoverInv'
<1> DEFINE from == pass[p].from
           latest == pass[p].latest
           to == LastBlock(from, latest)
           found == {d \in Logs : block[d] \in from..to}
           s == [pass[p] EXCEPT !.pc = "credit", !.to = to, !.todo = found]
<1>1. /\ pass[p] \in PassType /\ PassCovers(p) /\ pass[p].pc = "scan" /\ from \in Nat /\ latest \in Nat
      /\ UNCHANGED <<chain, ledger, cursor, start>> /\ processed' = processed
      /\ cursor = None \/ (start = StartBlock - 1 /\ Done(cursor))
  BY DEF IInv, TypeOK, CoverInv, Scan, PassType, ledger
<1>2. CASE from > latest
  <2>1. pass' = [pass EXCEPT ![p] = Idle]
    BY <1>2 DEF Scan
  <2>2. Idle \in PassType /\ Idle.pc = "idle"
    BY DEF Idle, PassType
  <2> QED
    BY <1>1, <2>1, <2>2, OwnCover
<1>3. CASE ~(from > latest)
  <2>1. to \in Nat
    BY <1>1, <1>3, LastBlockBounds
  <2>2. pass' = [pass EXCEPT ![p] = s]
    BY <1>3, Zenon DEF Scan
  <2>3. found \subseteq Logs /\ \A d \in Logs : block[d] \in from..to => d \in found
    OBVIOUS
  <2> HIDE DEF to, found
  <2>4. s \in PassType /\ s.pc = "credit" /\ s.from = from /\ s.to = to /\ s.todo = found
    BY <1>1, <2>1, <2>3 DEF PassType
  <2>5. start = StartBlock - 1 /\ Done(from - 1)
    BY <1>1 DEF PassCovers
  <2> HIDE DEF s, from
  <2> QED
    BY <1>1, <2>2, <2>3, <2>4, <2>5, OwnCover
<1> QED
  BY <1>2, <1>3

\* A deposit leaves the list only when it is dust or has its marker.
LEMMA CoverCredit ==
  ASSUME StartBlock # None, IInv, CoverInv, NEW p \in Passes, Select(p) \/ Batch(p)
  PROVE  CoverInv'
<1>1. /\ pass[p] \in PassType /\ PassCovers(p) /\ PassSound(p) /\ pass[p].pc \in {"credit", "batch"}
      /\ UNCHANGED <<chain, cursor, start>> /\ pass \in [Passes -> PassType]
      /\ cursor = None \/ (start = StartBlock - 1 /\ Done(cursor))
  BY DEF IInv, TypeOK, CoverInv, Select, Batch
<1>2. /\ start = StartBlock - 1 /\ Done(pass[p].from - 1)
      /\ \A d \in Logs \ Dust : block[d] \in pass[p].from..pass[p].to => d \in pass[p].todo \/ d \in processed
  BY <1>1 DEF PassCovers, Listed
\* What is left of a pass that has dealt with d.
<1>3. ASSUME NEW d, NEW s \in PassType, s.pc \in {"credit", "batch"}, s.from = pass[p].from, s.to = pass[p].to,
             pass[p].todo \ {d} \subseteq s.todo, d \in s.todo \cup processed' \cup Dust,
             processed \subseteq processed', pass' = [pass EXCEPT ![p] = s]
      PROVE  CoverInv'
  <2>1. \A k \in Logs \ Dust : block[k] \in s.from..s.to => k \in s.todo \/ k \in processed'
    BY <1>2, <1>3
  <2> QED
    BY <1>1, <1>2, <1>3, <2>1, OwnCover
<1>4. CASE Select(p)
  <2>1. UNCHANGED <<processed, ledger>>
    BY <1>4 DEF Select, ledger
  <2>2. PICK d \in pass[p].todo :
          pass' = IF Seen(d) THEN [pass EXCEPT ![p].todo = @ \ {d}]
                  ELSE [pass EXCEPT ![p].pc = "batch", ![p].log = d]
    BY <1>4 DEF Select
  <2>3. pass[p].pc = "credit"
    BY <1>4 DEF Select
  <2>4. CASE Seen(d)
    <3> DEFINE s == [pass[p] EXCEPT !.todo = @ \ {d}]
    <3>1. /\ s \in PassType /\ s.pc = "credit" /\ s.from = pass[p].from /\ s.to = pass[p].to
          /\ s.todo = pass[p].todo \ {d}
      BY <1>1, <2>3 DEF PassType
    <3>2. pass' = [pass EXCEPT ![p] = s]
      BY <2>2, <2>4
    <3>3. d \in processed' \cup Dust
      BY <2>1, <2>4 DEF Seen
    <3> HIDE DEF s
    <3> QED
      BY <1>3, <2>1, <3>1, <3>2, <3>3
  <2>5. CASE ~Seen(d)
    <3> DEFINE s == [pass[p] EXCEPT !.pc = "batch", !.log = d]
    <3>1. /\ s \in PassType /\ s.pc = "batch" /\ s.from = pass[p].from /\ s.to = pass[p].to
          /\ s.todo = pass[p].todo
      BY <1>1 DEF PassType
    <3>2. pass' = [pass EXCEPT ![p] = s]
      BY <2>2, <2>5
    <3> HIDE DEF s
    <3> QED
      BY <1>3, <2>1, <3>1, <3>2
  <2> QED
    BY <2>4, <2>5
<1>5. CASE Batch(p)
  <2> DEFINE d == pass[p].log
  <2>1. CASE Duplicate(d)
    <3>1. pass' = [pass EXCEPT ![p] = Idle] /\ processed' = processed
      BY <1>5, <2>1 DEF Batch, ledger
    <3>2. Idle \in PassType /\ Idle.pc = "idle"
      BY DEF Idle, PassType
    <3> QED
      BY <1>1, <3>1, <3>2, OwnCover
  <2>2. CASE ~Duplicate(d)
    <3> DEFINE s == [pass[p] EXCEPT !.pc = "credit", !.todo = @ \ {d}, !.log = None]
    <3>1. processed' = processed \cup {d} /\ pass' = [pass EXCEPT ![p] = s]
      BY <1>5, <2>2 DEF Batch
    <3>2. /\ s \in PassType /\ s.pc = "credit" /\ s.from = pass[p].from /\ s.to = pass[p].to
          /\ s.todo = pass[p].todo \ {d}
      BY <1>1 DEF PassType
    <3> HIDE DEF s, d
    <3> QED
      BY <1>3, <3>1, <3>2
  <2> QED
    BY <2>1, <2>2
<1> QED
  BY <1>4, <1>5

\* The cursor is stored when the list is empty: everything up to the end of the range is credited.
LEMMA CoverStore ==
  ASSUME StartBlock # None, IInv, CoverInv, NEW p \in Passes, StoreCursor(p)
  PROVE  CoverInv'
<1> DEFINE from == pass[p].from
           to == pass[p].to
<1>1. /\ pass[p] \in PassType /\ PassCovers(p) /\ PassSound(p) /\ pass[p].pc = "credit" /\ pass[p].todo = {}
      /\ UNCHANGED <<chain, ledger, start>> /\ processed' = processed /\ cursor' = to
      /\ pass' = [pass EXCEPT ![p] = Idle]
  BY DEF IInv, TypeOK, CoverInv, StoreCursor, MayStore, ledger
<1>2. /\ from \in Nat /\ to \in Nat /\ pass[p].latest \in Nat /\ StartBlock \in Nat \ {0} /\ from =< to
      /\ to =< pass[p].latest /\ from # 0 /\ block \in [Logs -> Nat]
      /\ head \in Nat /\ Confirmations \in Nat
  BY <1>1, DepositsAssumption DEF PassType, PassSound, IInv, TypeOK
<1>3. start = StartBlock - 1 /\ Done(from - 1) /\ Listed(p)
  BY <1>1 DEF PassCovers
<1>4. Done(to)
  <2>1. Buried(to)
    BY <1>1, <1>2 DEF PassSound, Buried
  <2>2. ASSUME NEW d \in Logs \ Dust, block[d] \in StartBlock..to PROVE d \in processed
    <3>1. block[d] \in StartBlock..(from - 1) \/ block[d] \in from..to
      BY <1>2, <2>2
    <3> QED
      BY <1>1, <1>3, <2>2, <3>1 DEF Done, Listed
  <2>3. StartBlock - 1 =< to
    BY <1>2, <1>3 DEF Done
  <2> QED
    BY <1>2, <2>1, <2>2, <2>3 DEF Done
<1>5. Idle \in PassType /\ Idle.pc = "idle"
  BY DEF Idle, PassType
<1> QED
  BY <1>1, <1>3, <1>4, <1>5, OwnCover

\* scanAndCredit with a start block: every deposit is credited exactly once, only
\* where no reorganisation reaches it, and the cursor passes over none, although
\* overlapping passes store their cursors in any order and any of them may fail.
THEOREM WatcherIsExact == ASSUME StartBlock # None PROVE Spec => []DepositsExact
<1>1. Init => CoverInv
  BY DEF Init, CoverInv, PassCovers, Idle
<1>2. IInv /\ CoverInv /\ [Next]_vars => CoverInv'
  <2> SUFFICES ASSUME IInv, CoverInv, [Next]_vars PROVE CoverInv'
    OBVIOUS
  <2>1. CASE UNCHANGED vars
    BY <2>1 DEF vars, chain, ledger, CoverInv, PassCovers, Listed, Done, Buried
  <2> QED
    BY <2>1, CoverChain, CoverEarly, CoverScan, CoverCredit, CoverStore DEF Next, PassStep
<1>3. IInv /\ CoverInv => CursorCovers
  <2> SUFFICES ASSUME IInv, CoverInv, cursor # None,
                      NEW d \in Logs \ Dust, block[d] > start, block[d] \in 1..cursor
               PROVE  d \in processed
    BY DEF CursorCovers
  <2>1. StartBlock \in Nat /\ start = StartBlock - 1 /\ Done(cursor) /\ block[d] \in Nat
    BY DepositsAssumption DEF IInv, TypeOK, CoverInv
  <2> QED
    BY <2>1 DEF Done
<1> QED
  BY <1>1, <1>2, <1>3, DepositsInvariance, CreditedAtMostOnce, PTL DEF Spec, DepositsExact

-----------------------------------------------------------------------------
(* Card payments. *)

\* Per event: it is sent for a payment that was made, a session's only for a hosted checkout, only the one that
\* carries the metadata credits, and every credit but one is the price of a request that failed.
EventSound(e) ==
  /\ event[e] # "none" /\ e[2] # "intent.failed" => pay[e[1]] = "paid"
  /\ event[e] # "none" /\ e[2] = "session.completed" => e[1] \in Sessions
  /\ event[e] \in {"credit", "read"} \/ car_credits[e] > 0 => Car!Crediting(e) /\ event[e] # "none"
  /\ event[e] \in {"none", "queued", "credit"} => car_credits[e] =< car_faults

CardsInv == Car!TypeOK /\ \A e \in Car!Events : EventSound(e)

\* Two events of one payment that credit are the same event.
LEMMA CardsInvCredits == CardsInv => Car!OneEventCredits
<1> SUFFICES ASSUME CardsInv, NEW d \in Car!Events, NEW e \in Car!Events,
                    d[1] = e[1], car_credits[d] > 0, car_credits[e] > 0
             PROVE  d = e /\ pay[e[1]] = "paid"
  BY DEF Car!OneEventCredits
<1>1. /\ Car!Crediting(d) /\ event[d] # "none"
      /\ Car!Crediting(e) /\ event[e] # "none"
  BY DEF CardsInv, EventSound
<1>2. pay[e[1]] = "paid"
  BY <1>1 DEF CardsInv, EventSound, Car!Crediting
<1>3. /\ d[2] = "session.completed" => d[1] \in Sessions
      /\ e[2] = "session.completed" => e[1] \in Sessions
  BY <1>1 DEF CardsInv, EventSound
<1>4. d[2] = e[2]
  BY <1>1, <1>3, CardsAssumption DEF Car!Crediting, Car!HasMetadata, Car!CardAssumption
<1>5. d = e
  BY <1>4 DEF Car!Events
<1> QED
  BY <1>2, <1>5

\* No event is sent before a payment.
LEMMA CardsInit == Car!Init => CardsInv
<1> SUFFICES ASSUME Car!Init PROVE CardsInv
  OBVIOUS
<1>1. Car!TypeOK
  BY CardsAssumption DEF Car!Init, Car!TypeOK, Car!CardAssumption
<1>2. \A e \in Car!Events : EventSound(e)
  BY DEF Car!Init, EventSound
<1> QED
  BY <1>1, <1>2 DEF CardsInv

\* A payment and the events it queues change together.
LEMMA CardsPaymentStep ==
  ASSUME CardsInv, NEW x \in Car!Payments, Car!Create(x) \/ Car!Pay(x) \/ Car!Decline(x)
  PROVE  CardsInv'
<1>1. CASE Car!Create(x)
  BY <1>1 DEF CardsInv, Car!TypeOK, EventSound, Car!Create, Car!Crediting, Car!HasMetadata, Car!Events
<1>2. CASE Car!Pay(x)
  BY <1>2 DEF CardsInv, Car!TypeOK, EventSound, Car!Pay, Car!Queue, Car!Crediting, Car!HasMetadata, Car!Events, Car!Kinds
<1>3. CASE Car!Decline(x)
  BY <1>3 DEF CardsInv, Car!TypeOK, EventSound, Car!Decline, Car!Queue, Car!Crediting, Car!HasMetadata, Car!Events
<1> QED
  BY <1>1, <1>2, <1>3

\* A delivery credits at most once, and is repeated only for a fault.
LEMMA CardsEventStep ==
  ASSUME CardsInv, NEW e \in Car!Events, Car!Handle(e) \/ Car!Redeliver(e)
  PROVE  CardsInv'
<1> USE DEF Car!TypeOK, CardsInv, EventSound, Car!Crediting, Car!HasMetadata
<1>1. CASE Car!Deliver(e)
  BY <1>1 DEF Car!Deliver
<1>2. CASE Car!Credit(e)
  BY <1>2 DEF Car!Credit
<1>3. CASE Car!Answer(e)
  BY <1>3 DEF Car!Answer
<1>4. CASE Car!Redeliver(e)
  BY <1>4, CardsAssumption DEF Car!Redeliver, Car!Queue, Car!CardAssumption
<1> QED
  BY <1>1, <1>2, <1>3, <1>4 DEF Car!Handle

-----------------------------------------------------------------------------
(* The hourly price. *)

Columns == {"price", "ema", "stepped", "quote", "expires"}

\* A row, as it is stored or as a request read it: 25 nano-dollars is the least price that a step of 2 % still moves.
RowOK(r) ==
  /\ DOMAIN r = Columns /\ r.price \in Nat /\ r.price >= 25 /\ r.ema \in Nat /\ r.ema >= 18000
  /\ r.stepped \in Nat \cup {None} /\ r.quote \in Nat \cup {None} /\ (r.quote = None <=> r.expires = None)

\* What a request has under way: the row it read, at a time that has been.
ReadOK(r) == r.pc = "idle" \/ (r.pc = "write" /\ r.now \in 0..time /\ RowOK(r.row) /\ r.load \in Nat)

\* No hour was stepped twice, and none after the hour of the last step.
HoursSound ==
  /\ steps \in [0..Pri!Hour(PriTime) -> Nat]
  /\ \A h \in DOMAIN steps :
       steps[h] =< 1 /\ (steps[h] > 0 => row.stepped # None /\ h =< Pri!Hour(row.stepped))

PricesInv ==
  /\ time \in 0..PriTime /\ RowOK(row) /\ HoursSound
  /\ pri_pass = [p \in Passes |-> pri_pass[p]] /\ \A p \in Passes : ReadOK(pri_pass[p])
  /\ quote = [q \in Quotes |-> quote[q]] /\ \A q \in Quotes : ReadOK(quote[q])

\* Dividing keeps an order, ...
LEMMA DivMonotone ==
  ASSUME NEW a \in Nat, NEW b \in Nat, NEW d \in Nat \ {0}, a =< b
  PROVE  a \div d \in Nat /\ a \div d =< b \div d
  OBVIOUS

\* ... and a number below the start of an hour is in an earlier hour.
LEMMA DivBelow ==
  ASSUME NEW a \in Nat, NEW b \in Nat, NEW d \in Nat \ {0}, a < b * d
  PROVE  a \div d < b
<1> DEFINE q == a \div d
<1>1. q \in Nat /\ q * d =< a
  OBVIOUS
<1>2. q * d < b * d
  BY <1>1
<1> QED
  BY <1>1, <1>2, SMTT(30)

\* The controller writes three columns, a quote the other two.
LEMMA RowStepped ==
  ASSUME NEW r, RowOK(r), NEW price \in Nat, price >= 25, NEW ema \in Nat, ema >= 18000, NEW now \in Nat
  PROVE  LET s == [r EXCEPT !.price = price, !.ema = ema, !.stepped = now] IN RowOK(s) /\ s.stepped = now
  BY DEF RowOK, Columns

\* A quote locks a price and leaves the step alone.
LEMMA RowQuoted ==
  ASSUME NEW r, RowOK(r), NEW price \in Nat, NEW expires \in Nat
  PROVE  LET s == [r EXCEPT !.quote = price, !.expires = expires] IN RowOK(s) /\ s.stepped = r.stepped
  BY PricesAssumption DEF RowOK, Columns, Pri!PricingAssumption

\* stepPrice: however long the price falls, it does not fall below 25, nor its average, in 720ths, below 18000.
LEMMA stepPriceOK ==
  ASSUME NEW r, RowOK(r), NEW load \in Nat
  PROVE  LET next == Pri!stepPrice(r, load)
         IN next.price \in Nat /\ next.price >= 25 /\ next.ema \in Nat /\ next.ema >= 18000
<1> DEFINE factor == Pri!Factor(load)
           target == Pri!Round(r.price * factor, 1000)
           price == Pri!Smaller(Pri!Ceiling(r.ema), Pri!Larger(Pri!Floor(r.ema), target))
           ema == r.ema + Pri!Round(720 * price - r.ema, 720)
<1>1. r.price \in Nat /\ r.price >= 25 /\ r.ema \in Nat /\ r.ema >= 18000
  BY DEF RowOK
<1>2. factor \in 980..1020
  BY DEF Pri!Factor, Pri!Smaller, Pri!Larger
<1>3. r.price * factor \in Nat /\ r.price * factor >= 24500
  BY <1>1, <1>2
<1>4. target \in Nat /\ target >= 25
  BY <1>3 DEF Pri!Round
<1>5. Pri!Floor(r.ema) \in Nat /\ Pri!Ceiling(r.ema) \in Nat /\ Pri!Ceiling(r.ema) >= 250
  BY <1>1 DEF Pri!Floor, Pri!Ceiling, Pri!Round, Pri!Larger
<1>6. price \in Nat /\ price >= 25
  BY <1>4, <1>5 DEF Pri!Smaller, Pri!Larger
<1>7. ema \in Nat /\ ema >= 18000
  BY <1>1, <1>6 DEF Pri!Round
<1>8. CASE load = 0
  BY <1>1, <1>8 DEF Pri!stepPrice
<1>9. CASE load # 0
  <2>1. Pri!stepPrice(r, load) = [r EXCEPT !.price = price, !.ema = ema]
    BY <1>9 DEF Pri!stepPrice
  <2> QED
    BY <1>6, <1>7, <2>1 DEF RowOK
<1> QED
  BY <1>8, <1>9

\* From 25 on, 2 % is half a nano-dollar at least, and rounds to one.
LEMMA PricesInvRises == PricesInv => Pri!TypeOK /\ Pri!OneStepAnHour /\ Pri!CanRise
<1> SUFFICES ASSUME PricesInv PROVE Pri!TypeOK /\ Pri!OneStepAnHour /\ Pri!CanRise
  OBVIOUS
<1>1. Pri!TypeOK
  BY PricesAssumption DEF PricesInv, RowOK, Columns, ReadOK, Pri!TypeOK, Pri!PricingAssumption
<1>2. Pri!OneStepAnHour
  BY DEF PricesInv, HoursSound, Pri!OneStepAnHour
<1>3. Pri!CanRise
  <2> SUFFICES ASSUME row.price < Pri!Ceiling(row.ema)
               PROVE  Pri!stepPrice(row, 1000).price > row.price
    BY DEF Pri!CanRise
  <2> DEFINE target == Pri!Round(row.price * 1020, 1000)
             price == Pri!Smaller(Pri!Ceiling(row.ema), Pri!Larger(Pri!Floor(row.ema), target))
  <2>1. row.price \in Nat /\ row.price >= 25 /\ row.ema \in Nat
    BY DEF PricesInv, RowOK
  <2>2. target \in Nat /\ target > row.price
    BY <2>1 DEF Pri!Round
  <2>3. Pri!Floor(row.ema) \in Nat /\ Pri!Ceiling(row.ema) \in Nat
    BY <2>1 DEF Pri!Floor, Pri!Ceiling, Pri!Round, Pri!Larger
  <2>4. price > row.price
    BY <2>1, <2>2, <2>3 DEF Pri!Smaller, Pri!Larger
  <2>5. Pri!Factor(1000) = 1020
    BY DEF Pri!Factor, Pri!Smaller, Pri!Larger
  <2>6. Pri!stepPrice(row, 1000).price = price
    BY <2>5 DEF Pri!stepPrice, PricesInv, RowOK
  <2> QED
    BY <2>4, <2>6
<1> QED
  BY <1>1, <1>2, <1>3

\* The first row is the configured price.
LEMMA PricesInit ==
  ASSUME \A p \in InitialPrices : p >= 25, Pri!Init
  PROVE  PricesInv
<1>1. PICK p \in InitialPrices :
        row = [price |-> p, ema |-> 720 * p, stepped |-> None, quote |-> None, expires |-> None]
  BY DEF Pri!Init
<1>2. p \in Nat /\ p >= 25 /\ PriTime \in Nat
  BY <1>1, PricesAssumption DEF Pri!PricingAssumption
<1>3. RowOK(row)
  BY <1>1, <1>2 DEF RowOK, Columns
<1> QED
  BY <1>2, <1>3 DEF Pri!Init, PricesInv, HoursSound, ReadOK, Pri!Idle

\* Time passes for the requests under way too.
LEMMA PricesTick == ASSUME PricesInv, Pri!Tick PROVE PricesInv'
  BY PricesAssumption DEF PricesInv, Pri!Tick, ReadOK, RowOK, HoursSound, Pri!Hour, Pri!PricingAssumption

\* A request takes the row as it is.
LEMMA PricesRead ==
  ASSUME PricesInv, \/ \E p \in Passes : Pri!CronRead(p)
                    \/ \E q \in Quotes : Pri!QuoteRead(q)
                    \/ Pri!QuoteLocked
  PROVE  PricesInv'
<1>1. CASE Pri!QuoteLocked
  BY <1>1 DEF PricesInv, Pri!QuoteLocked, RowOK, ReadOK, HoursSound, Pri!Hour
<1>2. ASSUME NEW p \in Passes, Pri!CronRead(p) PROVE PricesInv'
  <2>1. /\ UNCHANGED <<time, row, quote, steps>> /\ time \in Nat
        /\ \E load \in Nat :
             pri_pass' = [pri_pass EXCEPT ![p] = [pc |-> "write", now |-> time, row |-> row, load |-> load]]
    BY <1>2, PricesAssumption DEF Pri!CronRead, PricesInv, Pri!PricingAssumption
  <2> QED
    BY <2>1 DEF PricesInv, RowOK, ReadOK, HoursSound, Pri!Hour
<1>3. ASSUME NEW q \in Quotes, Pri!QuoteRead(q) PROVE PricesInv'
  <2> DEFINE r == [Pri!Idle EXCEPT !.pc = "write", !.now = time, !.row = row]
  <2>1. /\ UNCHANGED <<time, row, pri_pass, steps>> /\ time \in Nat
        /\ quote' = [quote EXCEPT ![q] = r]
    BY <1>3, PricesAssumption DEF Pri!QuoteRead, PricesInv, Pri!PricingAssumption
  <2>2. r.pc = "write" /\ r.now = time /\ r.row = row /\ r.load = 0
    BY DEF Pri!Idle
  <2> HIDE DEF r
  <2> QED
    BY <2>1, <2>2 DEF PricesInv, RowOK, ReadOK, HoursSound, Pri!Hour
<1> QED
  BY <1>1, <1>2, <1>3

\* The UPDATE's WHERE clause: the hour it steps is later than every hour stepped before.
LEMMA PricesStepped ==
  ASSUME PricesInv, NEW p \in Passes, Pri!CronWrite(p), Pri!MayStep(pri_pass[p].now)
  PROVE  RowOK(row') /\ HoursSound'
<1>1. PICK r : r = pri_pass[p]
  OBVIOUS
<1>2. PICK next : next = Pri!stepPrice(r.row, r.load)
  OBVIOUS
<1>3. PICK now : now = r.now
  OBVIOUS
<1>4. r.pc = "write" /\ now \in 0..time /\ RowOK(r.row) /\ r.load \in Nat /\ time' = time
  BY <1>1, <1>3 DEF Pri!CronWrite, PricesInv, ReadOK
<1>5. next.price \in Nat /\ next.price >= 25 /\ next.ema \in Nat /\ next.ema >= 18000
  BY <1>2, <1>4, stepPriceOK
<1>6. /\ row' = [row EXCEPT !.price = next.price, !.ema = next.ema, !.stepped = now]
      /\ steps' = [steps EXCEPT ![Pri!Hour(now)] = @ + 1] /\ Pri!MayStep(now)
  BY <1>1, <1>2, <1>3 DEF Pri!CronWrite
<1>7. /\ HourTicks \in Nat \ {0} /\ PriTime \in Nat /\ time \in 0..PriTime /\ now \in Nat /\ now =< PriTime
      /\ RowOK(row)
  BY <1>4, PricesAssumption DEF PricesInv, Pri!PricingAssumption
<1>8. RowOK(row') /\ row'.stepped = now
  BY <1>7, <1>5, <1>6 DEF RowOK, Columns
<1>9. Pri!Hour(now) \in Nat /\ Pri!Hour(now) =< Pri!Hour(PriTime)
  BY <1>7, DivMonotone DEF Pri!Hour
<1>10. ASSUME row.stepped # None
      PROVE  Pri!Hour(row.stepped) \in Nat /\ Pri!Hour(row.stepped) < Pri!Hour(now)
  <2>1. row.stepped \in Nat /\ row.stepped < Pri!Hour(now) * HourTicks
    BY <1>7, <1>10, <1>6 DEF Pri!MayStep, RowOK
  <2>2. row.stepped \div HourTicks \in Nat
    BY <1>7, <2>1, DivMonotone
  <2> QED
    BY <1>7, <1>9, <2>1, <2>2, DivBelow DEF Pri!Hour
<1>11. now # None
  BY <1>7, PricesAssumption DEF Pri!PricingAssumption
<1>12. HoursSound'
  <2> DEFINE hour == Pri!Hour(now)
  <2>1. steps \in [0..Pri!Hour(PriTime) -> Nat] /\ hour \in 0..Pri!Hour(PriTime) /\ Pri!Hour(PriTime) \in Nat
    BY <1>7, <1>9, DivMonotone DEF PricesInv, HoursSound, Pri!Hour
  <2>2. \A h \in 0..Pri!Hour(PriTime) : steps[h] > 0 => steps[h] = 1 /\ h < hour
    BY <1>9, <1>10, <2>1 DEF PricesInv, HoursSound
  <2>3. \A h \in 0..Pri!Hour(PriTime) : steps'[h] = IF h = hour THEN 1 ELSE steps[h]
    BY <2>1, <2>2, <1>6
  <2>4. steps' \in [0..Pri!Hour(PriTime) -> Nat]
    BY <2>1, <1>6
  <2>5. Pri!Hour(PriTime)' = Pri!Hour(PriTime) /\ Pri!Hour(row'.stepped) = hour
    BY <1>8 DEF Pri!Hour
  <2> HIDE DEF hour
  <2> QED
    BY <1>8, <1>11, <2>1, <2>2, <2>3, <2>4, <2>5 DEF HoursSound, Pri!Hour
<1> QED
  BY <1>8, <1>12

\* The UPDATE of a pass whose hour was stepped meanwhile changes nothing.
LEMMA PricesCronWrite == ASSUME PricesInv, NEW p \in Passes, Pri!CronWrite(p) PROVE PricesInv'
<1>1. UNCHANGED <<time, quote>> /\ pri_pass' = [pri_pass EXCEPT ![p] = Pri!Idle] /\ Pri!Idle.pc = "idle"
  BY DEF Pri!CronWrite, Pri!Idle
<1>2. RowOK(row') /\ HoursSound'
  <2>1. CASE ~Pri!MayStep(pri_pass[p].now)
    BY <1>1, <2>1 DEF Pri!CronWrite, PricesInv, HoursSound, Pri!Hour
  <2> QED
    BY <2>1, PricesStepped
<1> QED
  BY <1>1, <1>2 DEF PricesInv, ReadOK

\* A quote writes the price it read, and leaves the controller's columns alone.
LEMMA PricesQuoteWrite == ASSUME PricesInv, NEW q \in Quotes, Pri!QuoteWrite(q) PROVE PricesInv'
<1>1. /\ quote[q].pc = "write" /\ RowOK(quote[q].row) /\ quote[q].now + LockTicks \in Nat
      /\ UNCHANGED <<time, pri_pass, steps>> /\ quote' = [quote EXCEPT ![q] = Pri!Idle] /\ Pri!Idle.pc = "idle"
      /\ row' = [row EXCEPT !.quote = quote[q].row.price, !.expires = quote[q].now + LockTicks]
  BY PricesAssumption DEF Pri!QuoteWrite, Pri!Idle, PricesInv, ReadOK, Pri!PricingAssumption
<1>2. RowOK(row') /\ row'.stepped = row.stepped
  <2>1. RowOK(row) /\ quote[q].row.price \in Nat
    BY <1>1 DEF PricesInv, RowOK
  <2> QED
    BY <1>1, <2>1, RowQuoted
<1>3. HoursSound'
  BY <1>1, <1>2 DEF PricesInv, HoursSound, Pri!Hour
<1>4. ReadOK(Pri!Idle)
  BY DEF ReadOK, Pri!Idle
<1> QED
  BY <1>1, <1>2, <1>3, <1>4 DEF PricesInv, ReadOK

\* handleWebhook and stepPrice: a card payment is credited by one event only, whatever is delivered again; overlapping
\* passes step the price once an hour, and it never sticks below its ceiling if it started at 25 nano-dollars or more.
THEOREM CardsAndPricesHold ==
  ASSUME \A p \in InitialPrices : p >= 25
  PROVE  PaymentsSpec => []CardsAndPrices
<1> DEFINE Inv == CardsInv /\ PricesInv
<1>1. PaymentsInit => Inv
  BY CardsInit, PricesInit DEF PaymentsInit
<1>2. Inv /\ [PaymentsNext]_all => Inv'
  <2> SUFFICES ASSUME Inv, [PaymentsNext]_all PROVE Inv'
    OBVIOUS
  <2>1. ASSUME UNCHANGED carVars PROVE CardsInv'
    BY <2>1 DEF carVars, CardsInv, EventSound, Car!TypeOK
  <2>2. ASSUME UNCHANGED priVars PROVE PricesInv'
    BY <2>2 DEF priVars, PricesInv, RowOK, ReadOK, HoursSound
  <2>3. CASE CardsOnly /\ Car!Next
    BY <2>2, <2>3, CardsPaymentStep, CardsEventStep DEF CardsOnly, Car!Next
  <2>4. CASE PricingOnly /\ Pri!Next
    BY <2>1, <2>4, PricesTick, PricesRead, PricesCronWrite, PricesQuoteWrite DEF PricingOnly, Pri!Next
  <2>5. CASE DepositsOnly \/ SessionsOnly \/ KeysOnly \/ UNCHANGED all
    BY <2>1, <2>2, <2>5 DEF DepositsOnly, SessionsOnly, KeysOnly, all
  <2> QED
    BY <2>3, <2>4, <2>5 DEF PaymentsNext
<1>3. Inv => CardsAndPrices
  BY CardsInvCredits, PricesInvRises DEF CardsInv, CardsAndPrices
<1> QED
  BY <1>1, <1>2, <1>3, PTL DEF PaymentsSpec

-----------------------------------------------------------------------------
(* Sessions. *)

Minted(t) == token[t] # Ses!NoToken

\* A token: of a nonce, signed with the current secret or, while that one is kept, with the previous one.
TokenOK(t) ==
  LET r == token[t]
  IN  /\ r.exp \in Nat /\ r.secret \in 0..secret /\ r.for \in Nonces \cup {None} /\ r.exp =< ses_now + TokenTtl
      /\ r = Ses!NoToken <=> r.for = None
      /\ Minted(t) /\ r.exp > ses_now => r.secret = secret \/ (r.secret = secret - 1 /\ r.exp =< until)

\* A nonce is in one place: open, taken by one login, or spent on one token.
NonceOK(n) ==
  /\ nonce[n] # 0 => (\A t \in Tokens : token[t].for # n) /\ (\A l \in Logins : login[l] # n)
  /\ n \notin issued => nonce[n] = 0 /\ (\A t \in Tokens : token[t].for # n) /\ (\A l \in Logins : login[l] # n)
  /\ \A t \in Tokens, l \in Logins : ~(token[t].for = n /\ login[l] = n)
  /\ \A t, u \in Tokens : token[t].for = n /\ token[u].for = n => t = u
  /\ \A l, m \in Logins : login[l] = n /\ login[m] = n => l = m

SessionRows ==
  /\ ses_now \in Nat /\ secret \in Nat /\ until \in Nat
  /\ nonce \in [Nonces -> Nat] /\ (\A n \in Nonces : nonce[n] =< ses_now + NonceTtl)
  /\ login \in [Logins -> Nonces \cup {None}] /\ token = [t \in Tokens |-> token[t]]
  /\ revoked \in [Tokens -> Nat] /\ (\A t \in Tokens : revoked[t] =< ses_now + TokenTtl + Minute)

\* A confirmed logout is on the list for as long as the token could be shown.
Logouts ==
  /\ ended \subseteq Tokens /\ ending \subseteq Tokens /\ (\A t \in ending \cup ended : Minted(t))
  /\ \A t \in ended : token[t].exp =< ses_now \/ token[t].exp =< revoked[t]

TokensOK == \A t \in Tokens : TokenOK(t)
NoncesOK == \A n \in Nonces : NonceOK(n)
SessionsInv == SessionRows /\ TokensOK /\ NoncesOK /\ Logouts

\* A set without two members has one at most.
LEMMA AtMostOne ==
  ASSUME NEW S, \A x, y \in S : x = y
  PROVE  Ses!Cardinality(S) = IF S = {} THEN 0 ELSE 1
<1> SUFFICES Cardinality(S) = IF S = {} THEN 0 ELSE 1
  BY DEF Ses!Cardinality, Cardinality
<1>1. CASE S = {}
  BY <1>1, FS_EmptySet
<1>2. CASE S # {}
  <2>1. PICK x : S = {x}
    BY <1>2
  <2> QED
    BY <1>2, <2>1, FS_Singleton
<1> QED
  BY <1>1, <1>2

\* One session per nonce, no way back for a revoked token, and none out for the others.
LEMMA SessionsInvHold == SessionsInv => SessionsHold
<1> SUFFICES ASSUME SessionsInv PROVE SessionsHold
  OBVIOUS
<1>1. Ses!TypeOK
  BY TokensAssumption DEF SessionsInv, SessionRows, TokensOK, TokenOK, Logouts, Ses!TypeOK, Ses!SessionsAssumption
<1>2. Ses!OneSessionPerNonce
  <2>1. ASSUME NEW n \in Nonces, NEW A, NEW B, A = {t \in Tokens : token[t].for = n}, B = {l \in Logins : login[l] = n}
        PROVE  Ses!Cardinality(A) + Ses!Cardinality(B) =< 1
    <3>1. (\A x, y \in A : x = y) /\ (\A x, y \in B : x = y) /\ (A = {} \/ B = {})
      BY <2>1 DEF SessionsInv, NoncesOK, NonceOK
    <3>2. Ses!Cardinality(A) = (IF A = {} THEN 0 ELSE 1) /\ Ses!Cardinality(B) = (IF B = {} THEN 0 ELSE 1)
      BY <3>1, AtMostOne
    <3> QED
      BY <3>1, <3>2
  <2> QED
    BY <2>1 DEF Ses!OneSessionPerNonce
<1>3. Ses!StaysRevoked
  <2> SUFFICES ASSUME NEW t \in ended, Ses!Accepts(t) PROVE FALSE
    BY DEF Ses!StaysRevoked
  <2>1. t \in Tokens /\ ses_now \in Nat /\ token[t].exp \in Nat /\ revoked[t] \in Nat
    BY DEF SessionsInv, SessionRows, TokensOK, TokenOK, Logouts
  <2>2. token[t].exp =< ses_now \/ token[t].exp =< revoked[t]
    BY DEF SessionsInv, Logouts
  <2>3. token[t].exp > ses_now /\ revoked[t] =< ses_now
    BY DEF Ses!Accepts
  <2> QED
    BY <2>1, <2>2, <2>3
<1>4. Ses!NobodySignedOut
  <2> SUFFICES ASSUME NEW t \in Tokens, token[t] # Ses!NoToken, token[t].exp > ses_now, revoked[t] = 0
               PROVE  Ses!Accepts(t)
    BY DEF Ses!NobodySignedOut
  <2>1. /\ ses_now \in Nat /\ until \in Nat /\ token[t].exp \in Nat
        /\ token[t].secret = secret \/ (token[t].secret = secret - 1 /\ token[t].exp =< until)
    BY DEF SessionsInv, SessionRows, TokensOK, TokenOK, Minted
  <2> QED
    BY <2>1 DEF Ses!Accepts, Ses!SignedWell
<1> QED
  BY <1>1, <1>2, <1>3, <1>4 DEF SessionsHold

\* No nonce, no login and no token at first.
LEMMA SessionsInit == Ses!Init => SessionsInv
<1> SUFFICES ASSUME Ses!Init PROVE SessionsInv
  OBVIOUS
<1> USE TokensAssumption DEF Ses!Init, Ses!NoToken, Ses!SessionsAssumption
<1>1. SessionRows
  BY DEF SessionRows
<1>2. TokensOK
  BY DEF TokensOK, TokenOK, Minted
<1>3. NoncesOK
  BY DEF NoncesOK, NonceOK
<1>4. Logouts
  BY DEF Logouts
<1> QED
  BY <1>1, <1>2, <1>3, <1>4 DEF SessionsInv

\* Sign-in: the nonce leaves the table for the login, and the login for the token.
LEMMA SessionsIssue == ASSUME SessionsInv, NEW n \in Nonces, Ses!issueNonce(n) PROVE SessionsInv'
<1>1. /\ n \notin issued /\ issued' = issued \cup {n}
      /\ UNCHANGED <<login, token, ending, revoked, ended, secret, until, ses_now>>
      /\ nonce \in [Nonces -> Nat] /\ ses_now \in Nat /\ ses_now + NonceTtl \in Nat
  BY TokensAssumption DEF Ses!issueNonce, SessionsInv, SessionRows, Ses!SessionsAssumption
<1>2. nonce' = [[x \in Nonces |-> IF nonce[x] =< ses_now THEN 0 ELSE nonce[x]] EXCEPT ![n] = ses_now + NonceTtl]
  BY <1>1 DEF Ses!issueNonce, Ses!Swept
<1>3. nonce' \in [Nonces -> Nat] /\ \A x \in Nonces : nonce'[x] \in {0, nonce[x]} \/ (x = n /\ nonce'[x] = ses_now + NonceTtl)
  BY <1>1, <1>2
<1>4. SessionRows'
  BY <1>1, <1>3, TokensAssumption DEF SessionsInv, SessionRows, Ses!SessionsAssumption
<1>5. TokensOK' /\ Logouts'
  BY <1>1 DEF SessionsInv, TokensOK, TokenOK, Minted, Ses!NoToken, Logouts
<1>6. NoncesOK'
  BY <1>1, <1>3 DEF SessionsInv, NoncesOK, NonceOK
<1> QED
  BY <1>4, <1>5, <1>6 DEF SessionsInv

\* consumeNonce: the row goes with the login that reads it.
LEMMA SessionsTake ==
  ASSUME SessionsInv, NEW n \in Nonces, NEW l \in Logins, Ses!LoginTakes(l, n) PROVE SessionsInv'
<1>1. /\ nonce[n] # 0 /\ nonce' = [nonce EXCEPT ![n] = 0] /\ login' = [login EXCEPT ![l] = n]
      /\ UNCHANGED <<issued, token, ending, revoked, ended, secret, until, ses_now>>
      /\ nonce \in [Nonces -> Nat] /\ login \in [Logins -> Nonces \cup {None}]
  BY DEF Ses!LoginTakes, Ses!Left, SessionsInv, SessionRows
<1>2. SessionRows'
  BY <1>1, TokensAssumption DEF SessionsInv, SessionRows, Ses!SessionsAssumption
<1>3. TokensOK' /\ Logouts'
  BY <1>1 DEF SessionsInv, TokensOK, TokenOK, Minted, Ses!NoToken, Logouts
<1>4. NoncesOK'
  BY <1>1 DEF SessionsInv, NoncesOK, NonceOK
<1> QED
  BY <1>2, <1>3, <1>4 DEF SessionsInv

\* A login that fails has spent its nonce.
LEMMA SessionsRefuse == ASSUME SessionsInv, NEW l \in Logins, Ses!LoginRefused(l) PROVE SessionsInv'
<1>1. /\ login' = [login EXCEPT ![l] = None] /\ login \in [Logins -> Nonces \cup {None}] /\ None \notin Nonces
      /\ UNCHANGED <<nonce, issued, token, ending, revoked, ended, secret, until, ses_now>>
  BY TokensAssumption DEF Ses!LoginRefused, SessionsInv, SessionRows, Ses!SessionsAssumption
<1>2. SessionRows'
  BY <1>1 DEF SessionsInv, SessionRows
<1>3. TokensOK' /\ Logouts'
  BY <1>1 DEF SessionsInv, TokensOK, TokenOK, Minted, Ses!NoToken, Logouts
<1>4. NoncesOK'
  BY <1>1 DEF SessionsInv, NoncesOK, NonceOK
<1> QED
  BY <1>2, <1>3, <1>4 DEF SessionsInv

\* generateToken: the login's nonce goes with the token.
LEMMA SessionsMint ==
  ASSUME SessionsInv, NEW l \in Logins, NEW t \in Tokens, Ses!LoginMints(l, t) PROVE SessionsInv'
<1>1. /\ token' = [token EXCEPT ![t] = [for |-> login[l], secret |-> secret, exp |-> ses_now + TokenTtl]]
      /\ login' = [login EXCEPT ![l] = None] /\ login[l] \in Nonces /\ token[t] = Ses!NoToken
      /\ UNCHANGED <<nonce, issued, ending, revoked, ended, secret, until, ses_now>>
      /\ login \in [Logins -> Nonces \cup {None}] /\ None \notin Nonces /\ token = [u \in Tokens |-> token[u]]
      /\ secret \in Nat /\ ses_now \in Nat /\ ses_now + TokenTtl \in Nat
  BY TokensAssumption DEF Ses!LoginMints, SessionsInv, SessionRows, Ses!SessionsAssumption
<1>2. /\ \A u \in Tokens : u # t => token'[u] = token[u]
      /\ token'[t].for = login[l] /\ token'[t].secret = secret /\ token'[t].exp = ses_now + TokenTtl
      /\ token'[t] # Ses!NoToken /\ token[t].for = None
  BY <1>1 DEF Ses!NoToken
<1>3. SessionRows'
  BY <1>1 DEF SessionsInv, SessionRows
<1>4. TokensOK'
  <2>1. ASSUME NEW u \in Tokens, u # t PROVE TokenOK(u)'
    BY <1>1, <1>2, <2>1 DEF SessionsInv, TokensOK, TokenOK, Minted, Ses!NoToken
  <2>2. TokenOK(t)'
    BY <1>1, <1>2 DEF TokenOK, Minted, Ses!NoToken
  <2> QED
    BY <2>1, <2>2 DEF TokensOK
<1>5. NoncesOK'
  <2> SUFFICES ASSUME NEW n \in Nonces PROVE NonceOK(n)'
    BY DEF NoncesOK
  <2>1. NonceOK(n)
    BY DEF SessionsInv, NoncesOK
  <2>2. /\ \A u \in Tokens : token'[u].for = n <=> token[u].for = n \/ (u = t /\ login[l] = n)
        /\ \A m \in Logins : login'[m] = n <=> login[m] = n /\ m # l
    BY <1>1, <1>2
  <2> QED
    BY <1>1, <2>1, <2>2 DEF NonceOK
<1>6. Logouts'
  BY <1>1, <1>2 DEF SessionsInv, Logouts, Minted, Ses!NoToken
<1> QED
  BY <1>3, <1>4, <1>5, <1>6 DEF SessionsInv

\* The row of a revocation stays until the token would have expired.
LEMMA KeptForBounds ==
  ASSUME SessionsInv, NEW t \in Tokens
  PROVE  /\ Ses!KeptFor(t) \in Nat /\ token[t].exp =< Ses!KeptFor(t)
         /\ Ses!KeptFor(t) =< ses_now + TokenTtl + Minute
<1> DEFINE a == ses_now + Minute
           b == token[t].exp
           kept == Ses!KeptFor(t)
<1>1. a \in Nat /\ b \in Nat /\ b =< ses_now + TokenTtl /\ ses_now \in Nat /\ TokenTtl \in Nat /\ Minute \in Nat
  BY TokensAssumption DEF SessionsInv, SessionRows, TokensOK, TokenOK, Ses!SessionsAssumption
<1>2. kept = CHOOSE x \in {a, b} : \A y \in {a, b} : x >= y
  BY DEF Ses!KeptFor, Ses!Max
<1> HIDE DEF a, b, kept
<1>3. \E x \in {a, b} : \A y \in {a, b} : x >= y
  BY <1>1
<1>4. kept \in {a, b} /\ kept >= a /\ kept >= b
  BY <1>2, <1>3
<1> QED
  BY <1>1, <1>4 DEF a, b, kept

\* revokeToken and the sweep of the list that comes with it.
LEMMA SessionsLogout ==
  ASSUME SessionsInv, NEW t \in Tokens, Ses!LogoutStarts(t) \/ Ses!LogoutWrites(t) \/ Ses!LogoutFails(t)
  PROVE  SessionsInv'
<1>1. UNCHANGED <<nonce, issued, login, token, secret, until, ses_now>> /\ ses_now \in Nat
  BY DEF Ses!LogoutStarts, Ses!LogoutWrites, Ses!LogoutFails, SessionsInv, SessionRows
<1>2. TokensOK' /\ NoncesOK'
  BY <1>1 DEF SessionsInv, TokensOK, TokenOK, Minted, Ses!NoToken, NoncesOK, NonceOK
<1>3. CASE Ses!LogoutStarts(t) \/ Ses!LogoutFails(t)
  <2>1. SessionRows' /\ Logouts'
    BY <1>1, <1>3 DEF Ses!LogoutStarts, Ses!LogoutFails, Ses!Accepts, Minted, Ses!NoToken, SessionsInv, SessionRows, Logouts
  <2> QED
    BY <1>2, <2>1 DEF SessionsInv
<1>4. CASE Ses!LogoutWrites(t)
  <2>1. PICK kept : kept = Ses!KeptFor(t)
    OBVIOUS
  <2>2. kept \in Nat /\ token[t].exp =< kept /\ kept =< ses_now + TokenTtl + Minute
    BY <2>1, KeptForBounds
  <2>3. /\ t \in ending /\ ending' = ending \ {t} /\ ended' = ended \cup {t} /\ revoked \in [Tokens -> Nat]
        /\ revoked' = [[x \in Tokens |-> IF revoked[x] =< ses_now THEN 0 ELSE revoked[x]] EXCEPT ![t] = kept]
    BY <1>4, <2>1 DEF Ses!LogoutWrites, Ses!Swept, SessionsInv, SessionRows
  <2>4. /\ revoked' \in [Tokens -> Nat] /\ revoked'[t] = kept
        /\ \A x \in Tokens : x # t => revoked'[x] = IF revoked[x] =< ses_now THEN 0 ELSE revoked[x]
    BY <2>2, <2>3
  <2>5. SessionRows'
    BY <1>1, <2>2, <2>4, TokensAssumption DEF SessionsInv, SessionRows, Ses!SessionsAssumption
  <2>6. Logouts'
    <3>1. \A x \in Tokens : token[x].exp \in Nat
      BY DEF SessionsInv, TokensOK, TokenOK
    <3>2. \A x \in ended : x # t => token[x].exp =< ses_now \/ token[x].exp =< revoked'[x]
      BY <1>1, <2>3, <2>4, <3>1 DEF SessionsInv, Logouts
    <3> QED
      BY <1>1, <2>2, <2>3, <2>4, <3>2 DEF SessionsInv, Logouts, Minted, Ses!NoToken
  <2> QED
    BY <1>2, <2>5, <2>6 DEF SessionsInv
<1> QED
  BY <1>3, <1>4

\* A secret is replaced when every token of the one before it has expired.
LEMMA SessionsTime == ASSUME SessionsInv, Ses!Rotate \/ Ses!Tick PROVE SessionsInv'
<1>1. UNCHANGED <<nonce, issued, login, token, ending, revoked, ended>> /\ secret \in Nat /\ TokenTtl \in Nat
  BY TokensAssumption DEF Ses!Rotate, Ses!Tick, SessionsInv, SessionRows, Ses!SessionsAssumption
<1>2. ses_now \in Nat /\ until \in Nat /\ ses_now' \in {ses_now, ses_now + 1}
  BY DEF Ses!Rotate, Ses!Tick, SessionsInv, SessionRows
<1>3. \/ secret' = secret /\ until' = until
      \/ ses_now >= until /\ secret' = secret + 1 /\ until' = ses_now + TokenTtl /\ ses_now' = ses_now
  BY DEF Ses!Rotate, Ses!Tick
<1>4. SessionRows'
  BY <1>1, <1>2, <1>3, TokensAssumption DEF SessionsInv, SessionRows, Ses!SessionsAssumption
<1>5. TokensOK'
  <2> SUFFICES ASSUME NEW t \in Tokens PROVE TokenOK(t)'
    BY DEF TokensOK
  <2>1. TokenOK(t)
    BY DEF SessionsInv, TokensOK
  <2> QED
    BY <1>1, <1>2, <1>3, <2>1 DEF TokenOK, Minted, Ses!NoToken
<1>6. NoncesOK'
  BY <1>1 DEF SessionsInv, NoncesOK, NonceOK
<1>7. Logouts'
  <2>1. \A t \in Tokens : token[t].exp \in Nat
    BY DEF SessionsInv, TokensOK, TokenOK
  <2> QED
    BY <1>1, <1>2, <2>1 DEF SessionsInv, Logouts, Minted, Ses!NoToken
<1> QED
  BY <1>4, <1>5, <1>6, <1>7 DEF SessionsInv

\* auth.ts: a nonce opens one session however many logins run with it, a revoked token stays out when the list is
\* swept and the secret changes, and a rotation of the secret signs nobody out.
THEOREM SessionsAreSound == PaymentsSpec => []SessionsHold
<1>1. PaymentsInit => SessionsInv
  BY SessionsInit DEF PaymentsInit
<1>2. SessionsInv /\ [PaymentsNext]_all => SessionsInv'
  <2> SUFFICES ASSUME SessionsInv, [PaymentsNext]_all PROVE SessionsInv'
    OBVIOUS
  <2>1. ASSUME UNCHANGED sesVars PROVE SessionsInv'
    <3>1. SessionRows' /\ Logouts'
      BY <2>1 DEF sesVars, SessionsInv, SessionRows, Logouts, Minted, Ses!NoToken
    <3>2. TokensOK'
      BY <2>1 DEF sesVars, SessionsInv, TokensOK, TokenOK, Minted, Ses!NoToken
    <3>3. NoncesOK'
      BY <2>1 DEF sesVars, SessionsInv, NoncesOK, NonceOK
    <3> QED
      BY <3>1, <3>2, <3>3 DEF SessionsInv
  <2>2. CASE SessionsOnly /\ Ses!Next
    BY <2>2, SessionsIssue, SessionsTake, SessionsRefuse, SessionsMint, SessionsLogout, SessionsTime DEF Ses!Next
  <2> QED
    BY <2>1, <2>2 DEF PaymentsNext, DepositsOnly, CardsOnly, PricingOnly, KeysOnly, all
<1> QED
  BY <1>1, <1>2, SessionsInvHold, PTL DEF PaymentsSpec

-----------------------------------------------------------------------------
(* API keys. *)

\* An entry that lets key k through until u ends with the key and with its window, which a revocation starts.
EntryOK(k, u) ==
  u # 0 => /\ key_row[k].owner # None /\ u =< key_row[k].expires /\ u =< key_now + CacheSecs
           /\ key_row[k].revoked # 0 => u =< key_row[k].revoked + CacheSecs

\* A call under way: only a look-up carries an entry, and a key being created is not there yet.
CallOK(c) ==
  LET r == calls[c]
  IN  /\ r.op \in {"idle", "create", "revoke", "auth"} /\ r.until \in Nat /\ r.at \in Nat
      /\ r.op = "idle" => r.key = None
      /\ r.op # "idle" => r.key \in Keys /\ r.iso \in Isolates /\ r.owner \in Owners
      /\ r.op # "auth" => r.until = 0
      /\ r.op = "create" => key_row[r.key].owner = None
      /\ r.op \in {"revoke", "auth"} => key_row[r.key].owner # None /\ EntryOK(r.key, r.until)

KeysInv ==
  /\ key_now \in Nat
  /\ key_row \in [Keys -> [owner : Owners \cup {None}, expires : Nat, revoked : Nat]]
  /\ \A k \in Keys : key_row[k].revoked =< key_now
  /\ cache \in [Isolates -> [Keys -> Nat]] /\ \A i \in Isolates, k \in Keys : EntryOK(k, cache[i][k])
  /\ calls = [c \in Calls |-> calls[c]] /\ \A c \in Calls : CallOK(c)
  /\ \A c, d \in Calls : calls[c].op = "create" /\ calls[d].key = calls[c].key => c = d

\* The entries of the property are those the invariant speaks of.
LEMMA KeysInvWindow == KeysInv => Key!TypeOK /\ Key!RevokedWithinWindow
<1> SUFFICES ASSUME KeysInv PROVE Key!TypeOK /\ Key!RevokedWithinWindow
  OBVIOUS
<1>1. Key!TypeOK
  BY KeysAssumption DEF KeysInv, CallOK, EntryOK, Key!TypeOK, Key!ApiKeysAssumption
<1>2. ASSUME NEW k \in Keys, NEW u, u # 0,
             (\E i \in Isolates : u = cache[i][k]) \/ (\E c \in Calls : calls[c].key = k /\ u = calls[c].until)
      PROVE  u =< key_row[k].expires /\ (key_row[k].revoked # 0 => u =< key_row[k].revoked + CacheSecs)
  <2>1. EntryOK(k, u)
    BY <1>2 DEF KeysInv, CallOK
  <2> QED
    BY <1>2, <2>1 DEF EntryOK
<1>3. Key!RevokedWithinWindow
  BY <1>2, ZenonT(60) DEF Key!RevokedWithinWindow
<1> QED
  BY <1>1, <1>3

\* No key, no entry and no call at first.
LEMMA KeysInit == Key!Init => KeysInv
  BY DEF Key!Init, Key!NoRow, Key!Idle, KeysInv, CallOK, EntryOK

\* The entry of a look-up ends with the window and with the key.
LEMMA UntilOfBounds ==
  ASSUME KeysInv, NEW k \in Keys
  PROVE  /\ Key!UntilOf(k) \in Nat /\ Key!UntilOf(k) =< key_now + CacheSecs
         /\ Key!UntilOf(k) =< key_row[k].expires
<1> DEFINE a == key_now + CacheSecs
           b == key_row[k].expires
<1>1. a \in Nat /\ b \in Nat
  BY KeysAssumption DEF KeysInv, Key!ApiKeysAssumption
<1> HIDE DEF a, b
<1>2. \E x \in {a, b} : \A y \in {a, b} : x =< y
  BY <1>1
<1>3. Key!UntilOf(k) = CHOOSE x \in {a, b} : \A y \in {a, b} : x =< y
  BY DEF Key!UntilOf, Key!Min, a, b
<1>4. Key!UntilOf(k) \in {a, b} /\ \A y \in {a, b} : Key!UntilOf(k) =< y
  BY <1>2, <1>3
<1> QED
  BY <1>1, <1>4 DEF a, b

\* createApiKey: a key that is being created is in no cache, and no other call knows it.
LEMMA KeysCreate ==
  ASSUME KeysInv, \/ \E c \in Calls, i \in Isolates, o \in Owners, k \in Keys : Key!CreateCounts(c, i, o, k)
                  \/ \E c \in Calls, life \in Lifetimes : Key!CreateInserts(c, life)
  PROVE  KeysInv'
<1> USE KeysAssumption DEF KeysInv, CallOK, EntryOK, Key!ApiKeysAssumption
<1>1. ASSUME NEW c \in Calls, NEW i \in Isolates, NEW o \in Owners, NEW k \in Keys, Key!CreateCounts(c, i, o, k)
      PROVE  KeysInv'
  BY <1>1 DEF Key!CreateCounts, Key!Start
<1>2. ASSUME NEW c \in Calls, NEW life \in Lifetimes, Key!CreateInserts(c, life)
      PROVE  KeysInv'
  BY <1>2 DEF Key!CreateInserts, Key!End, Key!Idle
<1> QED
  BY <1>1, <1>2

\* revokeApiKey: whatever the caches and look-ups hold ends within the window that starts now.
LEMMA KeysRevoke ==
  ASSUME KeysInv, \/ \E c \in Calls, i \in Isolates, k \in Keys : Key!RevokeUpdates(c, i, k)
                  \/ \E c \in Calls : Key!RevokeAnswers(c)
  PROVE  KeysInv'
<1> USE KeysAssumption DEF KeysInv, CallOK, EntryOK, Key!ApiKeysAssumption
<1>1. ASSUME NEW c \in Calls, NEW i \in Isolates, NEW k \in Keys, Key!RevokeUpdates(c, i, k)
      PROVE  KeysInv'
  BY <1>1 DEF Key!RevokeUpdates, Key!Start
<1>2. ASSUME NEW c \in Calls, Key!RevokeAnswers(c)
      PROVE  KeysInv'
  <2>1. /\ UNCHANGED <<key_row, key_now>> /\ calls' = [calls EXCEPT ![c] = Key!Idle]
        /\ \E i \in Isolates, k \in Keys : cache' = [cache EXCEPT ![i][k] = 0]
    BY <1>2 DEF Key!RevokeAnswers, Key!End
  <2>2. cache' \in [Isolates -> [Keys -> Nat]] /\ \A i \in Isolates, k \in Keys : cache'[i][k] \in {0, cache[i][k]}
    BY <2>1
  <2> QED
    BY <2>1, <2>2 DEF Key!Idle
<1> QED
  BY <1>1, <1>2

\* authenticateApiKey: the entry is bounded when the row is read, not when it is stored.
LEMMA KeysAuth ==
  ASSUME KeysInv, \/ \E c \in Calls, i \in Isolates, k \in Keys : Key!AuthReads(c, i, k)
                  \/ \E c \in Calls : Key!AuthStores(c) \/ Key!AuthFails(c)
                  \/ \E i \in Isolates : Key!Forgets(i)
  PROVE  KeysInv'
<1> USE KeysAssumption DEF KeysInv, CallOK, EntryOK, Key!ApiKeysAssumption
<1>1. ASSUME NEW c \in Calls, NEW i \in Isolates, NEW k \in Keys, Key!AuthReads(c, i, k)
      PROVE  KeysInv'
  BY <1>1, UntilOfBounds DEF Key!AuthReads, Key!Start, Key!Live
<1>2. ASSUME NEW c \in Calls, Key!AuthStores(c)
      PROVE  KeysInv'
  BY <1>2 DEF Key!AuthStores, Key!End, Key!Idle
<1>3. ASSUME NEW c \in Calls, Key!AuthFails(c)
      PROVE  KeysInv'
  BY <1>3 DEF Key!AuthFails, Key!End, Key!Idle
<1>4. ASSUME NEW i \in Isolates, Key!Forgets(i)
      PROVE  KeysInv'
  BY <1>4 DEF Key!Forgets
<1> QED
  BY <1>1, <1>2, <1>3, <1>4

\* api-keys.service.ts: a revoked key is let through nowhere for longer than its caches' window, nor past its expiry,
\* however late an isolate stores what it read.
THEOREM RevokedKeysEnd == PaymentsSpec => []RevokedWithinWindow
<1>1. PaymentsInit => KeysInv
  BY KeysInit DEF PaymentsInit
<1>2. KeysInv /\ [PaymentsNext]_all => KeysInv'
  <2> SUFFICES ASSUME KeysInv, [PaymentsNext]_all PROVE KeysInv'
    OBVIOUS
  <2>1. ASSUME UNCHANGED keyVars PROVE KeysInv'
    BY <2>1 DEF keyVars, KeysInv, CallOK, EntryOK
  <2>2. ASSUME Key!Tick PROVE KeysInv'
    BY <2>2, KeysAssumption DEF Key!Tick, KeysInv, CallOK, EntryOK, Key!ApiKeysAssumption
  <2>3. CASE KeysOnly /\ Key!Next
    BY <2>2, <2>3, KeysCreate, KeysRevoke, KeysAuth DEF Key!Next
  <2> QED
    BY <2>1, <2>3 DEF PaymentsNext, DepositsOnly, CardsOnly, PricingOnly, SessionsOnly, all
<1>3. KeysInv => RevokedWithinWindow
  BY KeysInvWindow DEF RevokedWithinWindow
<1> QED
  BY <1>1, <1>2, <1>3, PTL DEF PaymentsSpec
=============================================================================
