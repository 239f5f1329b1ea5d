-------------------------- MODULE HourBillingProofs --------------------------
(***************************************************************************)
(* The money of a hosted deployment, for every number of overlapping        *)
(* requests, price, deposit and hour; the end of endpoints of any number of *)
(* replicas; and both directions of a relayed stream, for every window,     *)
(* frame and body size.                                                     *)
(***************************************************************************)
EXTENDS MCHosting, Sequences, Sums

Pcs == {"idle", "bill", "charge", "rehold", "put", "backstop", "putBack", "end", "endFresh", "endBroke",
        "settle", "resnap", "settleCharge", "settleRelease", "requeue", "requeueSettling", "partCharge",
        "topUp", "putFull", "putRest", "probeOk", "probeFail", "probeNone", "forgive"}

\* A request under way acts on a row that was there; a bill is for an hour that is over, and what goes back to
\* the queue was live.
Request(r) ==
  /\ r \in [pc : Pcs, s : Rows \cup {Idle.s}, tries : Nat]
  /\ r.pc # "idle" => r.s \in Rows
  /\ r.pc = "bill" => r.s.lb + Hour <= now
  /\ r.pc \in {"requeue", "requeueSettling"} => r.s.st \in Live

IInv ==
  /\ now \in 0..MaxNow /\ served \in 0..now /\ reports \in 0..MaxReports
  /\ row \in Rows /\ pool \in [avail : Nat, held : Nat] /\ charged \in Nat
  /\ k = [p \in Requests |-> k[p]] /\ \A p \in Requests : Request(k[p])
  /\ MoneyExact

-----------------------------------------------------------------------------

\* The part of an hour that is charged is never more than what is held for it.
LEMMA DueWithin ==
  ASSUME now \in Nat, NEW s \in Rows
  PROVE  Due(s) \in 0..s.held /\ Due(s) \in Nat /\ s.held \in Nat /\ s.held - Due(s) \in Nat
<1>1. s.held \in Nat /\ s.lb \in Int /\ now \in Int /\ Hour \in Nat \ {0} /\ Price \in Nat
  BY BillingAssumption DEF Rows
<1>2. Elapsed(s) \in Nat
  BY <1>1 DEF Elapsed, Later
<1>3. Price * Elapsed(s) \in Nat
  BY <1>1, <1>2
<1> DEFINE y == Price * Elapsed(s)
<1>4. y \div Hour \in Nat
  <2> HIDE DEF y
  <2> QED
    BY <1>1, <1>3 DEF y
<1> QED
  BY <1>1, <1>4 DEF Due

\* What a request has in hand is a natural number.
LEMMA InHandNat ==
  ASSUME now \in Nat, NEW r, Request(r)
  PROVE  InHand(r.pc, r.s) \in Nat
<1>1. Price \in Nat
  BY BillingAssumption
<1>2. CASE r.pc \in {"settleCharge", "partCharge", "putFull", "settleRelease", "topUp", "putRest"}
  <2>1. r.s \in Rows
    BY <1>2 DEF Request
  <2> QED
    BY <1>1, <1>2, <2>1, DueWithin DEF InHand
<1>3. CASE r.pc \notin {"settleCharge", "partCharge", "putFull", "settleRelease", "topUp", "putRest"}
  BY <1>1, <1>3 DEF InHand
<1> QED
  BY <1>2, <1>3

\* The owner's pool holds at least what a request has in hand: no charge is refused.
LEMMA HeldCovers ==
  ASSUME IInv, NEW p \in Requests
  PROVE  InHand(k[p].pc, k[p].s) \in Nat /\ row.held + InHand(k[p].pc, k[p].s) <= pool.held
<1> DEFINE f == inHand
<1>1. IsFiniteSet(Requests) /\ IsFiniteSet(Requests \ {p})
  BY BillingAssumption, FS_RemoveElement
<1>2. \A q \in Requests : f[q] \in Nat
  BY InHandNat DEF IInv, inHand
<1>3. SumFunctionOnSet(f, Requests) = f[p] + SumFunctionOnSet(f, Requests \ {p})
  BY <1>1, <1>2, SumTake
<1>4. SumFunctionOnSet(f, Requests \ {p}) \in Nat
  BY <1>1, <1>2, SumNat
<1>5. f[p] = InHand(k[p].pc, k[p].s)
  BY DEF inHand
<1>6. row.held \in Nat /\ pool.held = row.held + SumFunctionOnSet(f, Requests)
  BY BillingAssumption DEF IInv, Rows, MoneyExact
<1> HIDE DEF f
<1> QED
  BY <1>2, <1>3, <1>4, <1>5, <1>6

\* One statement of request p, which goes on as r: the money stays exact when what p has in hand, the
\* row's hold and the pool change together.
LEMMA OneStatement ==
  ASSUME IInv, NEW p \in Requests, NEW r, Request(r), k' = [k EXCEPT ![p] = r],
         UNCHANGED <<now, served>>, reports' \in 0..MaxReports, row' \in Rows,
         pool' \in [avail : Nat, held : Int], charged' \in Nat,
         pool'.held - row'.held - InHand(r.pc, r.s) = pool.held - row.held - InHand(k[p].pc, k[p].s),
         pool'.avail + pool'.held + charged' = pool.avail + pool.held + charged
  PROVE  IInv'
<1> DEFINE f == inHand
           g == [q \in Requests |-> IF q = p THEN InHand(r.pc, r.s) ELSE f[q]]
<1>1. now \in Nat /\ IsFiniteSet(Requests) /\ \A q \in Requests : Request(k[q])
  BY BillingAssumption DEF IInv
<1>2. \A q \in Requests : f[q] \in Nat /\ f[q] = InHand(k[q].pc, k[q].s)
  BY <1>1, InHandNat DEF inHand
<1>3. InHand(r.pc, r.s) \in Nat /\ g[p] = InHand(r.pc, r.s)
  BY <1>1, InHandNat
<1>4. \A q \in Requests : k'[q] = IF q = p THEN r ELSE k[q]
  BY DEF IInv
<1>5. inHand' = g
  <2>1. ASSUME NEW q \in Requests PROVE InHand(k[q].pc, k[q].s)' = g[q]
    <3>1. PICK new : new = k'[q]
      OBVIOUS
    <3>2. now' = now
      OBVIOUS
    <3>3. InHand(k[q].pc, k[q].s)' = InHand(new.pc, new.s)
      BY ONLY <3>1, <3>2 DEF InHand, Due, Elapsed, Later
    <3> QED
      BY <1>2, <1>4, <3>1, <3>3
  <2> QED
    BY <2>1 DEF inHand
<1>6. /\ SumFunctionOnSet(f, Requests) \in Nat /\ SumFunctionOnSet(g, Requests) \in Nat
      /\ SumFunctionOnSet(g, Requests) = SumFunctionOnSet(f, Requests) - f[p] + g[p]
  <2>1. \A x : x # p => (x \in Requests <=> x \in Requests)
    OBVIOUS
  <2>2. p \in Requests => g[p] \in Nat
    BY <1>3
  <2>3. \A x \in Requests \ {p} : g[x] = f[x]
    OBVIOUS
  <2> HIDE DEF f, g
  <2> QED
    BY <1>1, <1>2, <2>1, <2>2, <2>3, SumChange
<1> HIDE DEF g
<1>7. row.held \in Nat /\ row'.held \in Nat /\ pool.held \in Nat /\ pool.avail \in Nat /\ charged \in Nat
  BY BillingAssumption DEF IInv, Rows
<1>8. /\ pool.held = row.held + SumFunctionOnSet(f, Requests)
      /\ pool.avail + pool.held + charged = Credits
  BY DEF IInv, MoneyExact
<1>9. pool'.held = row'.held + SumFunctionOnSet(g, Requests)
  BY <1>2, <1>3, <1>6, <1>7, <1>8
<1>10. MoneyExact'
  BY <1>5, <1>8, <1>9 DEF MoneyExact
<1>11. \A q \in Requests : Request(k[q])'
  BY <1>1, <1>4 DEF Request
<1>12. pool' \in [avail : Nat, held : Nat]
  BY <1>6, <1>7, <1>9
<1>13. k' = [q \in Requests |-> k'[q]]
  BY DEF IInv
<1> QED
  BY <1>10, <1>11, <1>12, <1>13 DEF IInv

\* A request goes on at pc, with the row it has read.
LEMMA GoesOn ==
  ASSUME IInv, NEW p \in Requests, NEW pc \in Pcs \ {"idle", "bill", "requeue"}, k[p].pc # "idle", Go(p, pc),
         pc = "requeueSettling" => k[p].s.st \in Live,
         UNCHANGED <<now, served, reports>>, row' \in Rows,
         pool' \in [avail : Nat, held : Int], charged' \in Nat,
         pool'.held - row'.held - InHand(pc, k[p].s) = pool.held - row.held - InHand(k[p].pc, k[p].s),
         pool'.avail + pool'.held + charged' = pool.avail + pool.held + charged
  PROVE  IInv'
<1> DEFINE r == [k[p] EXCEPT !.pc = pc]
<1>1. Request(k[p]) /\ reports' \in 0..MaxReports /\ k' = [k EXCEPT ![p] = r]
  BY DEF IInv, Go
<1>2. r.pc = pc /\ r.s = k[p].s /\ Request(r)
  BY <1>1 DEF Request
<1> HIDE DEF r
<1> QED
  BY <1>1, <1>2, OneStatement

\* A request ends.
LEMMA Finishes ==
  ASSUME IInv, NEW p \in Requests, Finish(p),
         UNCHANGED <<now, served, reports>>, row' \in Rows,
         pool' \in [avail : Nat, held : Int], charged' \in Nat,
         pool'.held - row'.held = pool.held - row.held - InHand(k[p].pc, k[p].s),
         pool'.avail + pool'.held + charged' = pool.avail + pool.held + charged
  PROVE  IInv'
<1>1. Request(Idle) /\ InHand(Idle.pc, Idle.s) = 0 /\ reports' \in 0..MaxReports
  BY DEF Request, Idle, Pcs, InHand, IInv
<1>2. pool'.held - row'.held - InHand(Idle.pc, Idle.s) = pool.held - row.held - InHand(k[p].pc, k[p].s)
  <2>1. pool'.held \in Int /\ row'.held \in Int
    BY BillingAssumption DEF Rows
  <2> QED
    BY <1>1, <2>1
<1> QED
  BY <1>1, <1>2, OneStatement DEF Finish

\* A request reads the row.
LEMMA Reads ==
  ASSUME IInv, NEW p \in Requests, InHand(k[p].pc, k[p].s) = 0, NEW pc \in Pcs,
         pc \in {"bill", "end", "requeue", "probeOk", "probeFail", "probeNone", "forgive"},
         pc = "bill" => row.lb + Hour <= now, pc = "requeue" => row.st \in Live, Snapshot(p, pc),
         reports' \in 0..MaxReports, UNCHANGED <<now, row, pool, charged, served>>
  PROVE  IInv'
<1> DEFINE r == [pc |-> pc, s |-> row, tries |-> 0]
<1>1. /\ row \in Rows /\ pool \in [avail : Nat, held : Nat] /\ charged \in Nat /\ row.held \in Int
      /\ k' = [k EXCEPT ![p] = r]
  BY BillingAssumption DEF IInv, Snapshot, Rows
<1>2. r.pc = pc /\ r.s = row /\ Request(r) /\ InHand(r.pc, r.s) = 0
  BY <1>1 DEF Request, InHand
<1> HIDE DEF r
<1>3. /\ pool'.held - row'.held - InHand(r.pc, r.s) = pool.held - row.held - InHand(k[p].pc, k[p].s)
      /\ pool'.avail + pool'.held + charged' = pool.avail + pool.held + charged
      /\ pool' \in [avail : Nat, held : Int] /\ charged' \in Nat /\ row' \in Rows
  BY <1>1, <1>2
<1> QED
  BY <1>1, <1>2, <1>3, OneStatement

\* What the statements below need to know of the row, the pool and the request.
LEMMA Known ==
  ASSUME IInv, NEW p \in Requests
  PROVE  /\ row \in Rows /\ pool \in [avail : Nat, held : Nat] /\ charged \in Nat /\ now \in Nat
         /\ now <= MaxNow /\ MaxNow \in Nat /\ row.held \in Nat /\ pool.held \in Nat /\ pool.avail \in Nat
         /\ Price \in Nat \ {0} /\ Hour \in Nat \ {0} /\ Request(k[p])
         /\ k[p].pc # "idle" => /\ k[p].s \in Rows /\ k[p].s.held \in 0..Price /\ k[p].s.lb \in -1..MaxNow
                                /\ Due(k[p].s) \in 0..k[p].s.held
<1>1. /\ row \in Rows /\ pool \in [avail : Nat, held : Nat] /\ charged \in Nat /\ now \in 0..MaxNow
      /\ Request(k[p])
  BY DEF IInv
<1>2. now \in Nat /\ now <= MaxNow /\ MaxNow \in Nat /\ Price \in Nat \ {0} /\ Hour \in Nat \ {0}
  BY <1>1, BillingAssumption
<1>3. k[p].pc # "idle" => /\ k[p].s \in Rows /\ k[p].s.held \in 0..Price /\ k[p].s.lb \in -1..MaxNow
                          /\ Due(k[p].s) \in 0..k[p].s.held
  <2> SUFFICES ASSUME k[p].pc # "idle"
               PROVE  /\ k[p].s \in Rows /\ k[p].s.held \in 0..Price /\ k[p].s.lb \in -1..MaxNow
                      /\ Due(k[p].s) \in 0..k[p].s.held
    OBVIOUS
  <2>1. k[p].s \in Rows
    BY <1>1 DEF Request
  <2> QED
    BY <1>2, <2>1, DueWithin DEF Rows
<1> QED
  BY <1>1, <1>2, <1>3 DEF Rows

\* A captured fee: the pool is never short of it.
LEMMA Charges ==
  ASSUME IInv, NEW p \in Requests, NEW x \in Nat, x <= InHand(k[p].pc, k[p].s), Charge(x)
  PROVE  /\ pool' \in [avail : Nat, held : Nat] /\ charged' \in Nat /\ pool'.avail = pool.avail
         /\ pool'.held = pool.held - x /\ charged' = charged + x
<1>1. pool \in [avail : Nat, held : Nat] /\ charged \in Nat /\ row.held \in Nat
  BY Known
<1>2. pool.held >= x
  BY <1>1, HeldCovers
<1> QED
  BY <1>1, <1>2 DEF Charge

-----------------------------------------------------------------------------
(* The hourly bill. *)

\* A billing request claims an hour, charges it and holds the next one.
LEMMA BillStep ==
  ASSUME IInv, NEW p \in Requests,
         BillBegin(p) \/ BillClaim(p) \/ BillCharge(p) \/ BillRehold(p) \/ Backstop(p) \/ BackstopPut(p)
  PROVE  IInv'
<1> USE Known
<1>1. CASE BillBegin(p)
  <2>1. InHand(k[p].pc, k[p].s) = 0
    BY <1>1 DEF BillBegin, InHand
  <2> QED
    BY <1>1, <2>1, Reads DEF BillBegin, Pcs, IInv
<1>2. CASE BillClaim(p)
  <2>1. k[p].pc = "bill" /\ k[p].s \in Rows /\ k[p].s.lb + Hour <= now /\ UNCHANGED <<now, pool, charged, served, reports>>
    BY <1>2 DEF BillClaim, Request
  <2>2. InHand("bill", k[p].s) = 0 /\ InHand("charge", k[p].s) = Price /\ InHand("backstop", k[p].s) = 0
    BY DEF InHand
  <2>3. CASE HourIsMine(k[p].s)
    <3>1. row' = [row EXCEPT !.held = 0, !.lb = k[p].s.lb + Hour] /\ Go(p, "charge") /\ row.held = Price
      BY <1>2, <2>3 DEF BillClaim, HourIsMine
    <3> DEFINE c == k[p].s.lb + Hour
    <3>2. c \in -1..MaxNow /\ row \in Rows /\ 0 \in 0..Price
      BY <2>1
    <3> HIDE DEF c
    <3>3. row' \in Rows /\ row'.held = 0
      BY <3>1, <3>2 DEF Rows, c
    <3> QED
      BY <2>1, <2>2, <3>1, <3>3, GoesOn DEF Pcs
  <2>4. CASE ~HourIsMine(k[p].s)
    BY <1>2, <2>1, <2>2, <2>4, GoesOn DEF Pcs, BillClaim
  <2> QED
    BY <2>3, <2>4
<1>3. CASE BillCharge(p)
  <2>1. k[p].pc = "charge" /\ Charge(Price) /\ Go(p, "rehold") /\ UNCHANGED <<now, row, served, reports>>
    BY <1>3 DEF BillCharge
  <2>2. InHand("charge", k[p].s) = Price /\ InHand("rehold", k[p].s) = 0
    BY DEF InHand
  <2>3. /\ pool' \in [avail : Nat, held : Nat] /\ charged' \in Nat /\ pool'.avail = pool.avail
        /\ pool'.held = pool.held - Price /\ charged' = charged + Price
    BY <2>1, <2>2, Charges
  <2> QED
    BY <2>1, <2>2, <2>3, GoesOn DEF Pcs
<1>4. CASE BillRehold(p) \/ Backstop(p)
  <2>1. /\ k[p].pc \in {"rehold", "backstop"} /\ UNCHANGED <<now, row, charged, served, reports>>
        /\ \/ CanHold(Price) /\ pool' = Held(Price) /\ (Go(p, "put") \/ Go(p, "putBack"))
           \/ pool' = pool /\ Go(p, "endFresh")
           \/ pool' = pool /\ Finish(p)
    BY <1>4 DEF BillRehold, Backstop
  <2>2. /\ InHand(k[p].pc, k[p].s) = 0 /\ InHand("put", k[p].s) = Price /\ InHand("putBack", k[p].s) = Price
        /\ InHand("endFresh", k[p].s) = 0
    BY <2>1 DEF InHand
  <2>3. CASE CanHold(Price) /\ pool' = Held(Price) /\ (Go(p, "put") \/ Go(p, "putBack"))
    <3>1. /\ pool' \in [avail : Nat, held : Nat] /\ pool'.avail = pool.avail - Price
          /\ pool'.held = pool.held + Price
      BY <2>3 DEF CanHold, Held
    <3> QED
      BY <2>1, <2>2, <2>3, <3>1, GoesOn DEF Pcs
  <2>4. CASE pool' = pool /\ Go(p, "endFresh")
    BY <2>1, <2>2, <2>4, GoesOn DEF Pcs
  <2>5. CASE pool' = pool /\ Finish(p)
    BY <2>1, <2>2, <2>5, Finishes
  <2> QED
    BY <2>1, <2>3, <2>4, <2>5
<1>5. CASE BackstopPut(p)
  <2>1. k[p].pc = "putBack" /\ Finish(p) /\ UNCHANGED <<now, charged, served, reports>>
    BY <1>5 DEF BackstopPut
  <2>2. InHand("putBack", k[p].s) = Price
    BY DEF InHand
  <2>3. /\ row' \in Rows /\ pool' \in [avail : Nat, held : Int]
        /\ pool'.held - row'.held = pool.held - row.held - Price
        /\ pool'.avail + pool'.held = pool.avail + pool.held
    BY <1>5 DEF BackstopPut, MayCarry, Released, Rows
  <2> QED
    BY <2>1, <2>2, <2>3, Finishes
<1> QED
  BY <1>1, <1>2, <1>3, <1>4, <1>5

\* The hour just held goes on to a row that has none, or back; the next due hour is billed from there.
LEMMA BillPutStep == ASSUME IInv, NEW p \in Requests, BillPut(p) PROVE IInv'
<1> USE Known
<1> DEFINE s == k[p].s
           c == s.lb + Hour
           t == [s EXCEPT !.lb = c, !.held = Price]
           r == [k[p] EXCEPT !.pc = "bill", !.s = t]
<1>1. k[p].pc = "put" /\ s \in Rows /\ UNCHANGED <<now, charged, served, reports>> /\ InHand("put", s) = Price
  BY DEF BillPut, InHand
<1>2. /\ row' \in Rows /\ pool' \in [avail : Nat, held : Int]
      /\ pool'.held - row'.held = pool.held - row.held - Price
      /\ pool'.avail + pool'.held = pool.avail + pool.held
  BY DEF BillPut, MayCarry, Released, Rows
<1>3. CASE Finish(p)
  BY <1>1, <1>2, <1>3, Finishes
<1>4. CASE k' = [k EXCEPT ![p] = r] /\ s.lb + 2 * Hour <= now
  <2>1. s.lb \in -1..MaxNow
    BY <1>1
  <2>2. c \in -1..MaxNow /\ c + Hour <= now /\ Price \in 0..Price
    BY <1>4, <2>1
  <2> HIDE DEF c
  <2>3. t \in Rows /\ t.lb = c
    BY <1>1, <2>2 DEF Rows
  <2> HIDE DEF t
  <2>4. r.pc = "bill" /\ r.s = t /\ r \in [pc : Pcs, s : Rows \cup {Idle.s}, tries : Nat]
    BY <2>3 DEF Request, Pcs
  <2> HIDE DEF r
  <2>5. Request(r) /\ r.pc = "bill" /\ InHand(r.pc, r.s) = 0
    BY <2>2, <2>3, <2>4 DEF Request, InHand
  <2>6. reports' \in 0..MaxReports
    BY <1>1 DEF IInv
  <2>7. /\ pool'.held - row'.held - InHand(r.pc, r.s) = pool.held - row.held - InHand(k[p].pc, k[p].s)
        /\ pool'.avail + pool'.held + charged' = pool.avail + pool.held + charged
    <3>1. pool'.held \in Int /\ row'.held \in Int
      BY <1>2 DEF Rows
    <3> QED
      BY <1>1, <1>2, <2>5, <3>1
  <2> HIDE DEF s
  <2> QED
    BY <1>1, <1>2, <1>4, <2>5, <2>6, <2>7, OneStatement
<1>5. Finish(p) \/ (k' = [k EXCEPT ![p] = r] /\ s.lb + 2 * Hour <= now)
  BY DEF BillPut
<1> QED
  BY <1>3, <1>4, <1>5

-----------------------------------------------------------------------------
(* endDeployment and settleHold. *)

\* A stop ends the row.
LEMMA EndStep ==
  ASSUME IInv, NEW p \in Requests, EndBegin(p) \/ EndFresh(p) \/ End(p)
  PROVE  IInv'
<1> USE Known
<1>1. InHand(k[p].pc, k[p].s) = 0 /\ UNCHANGED <<now, pool, charged, served, reports>>
  BY DEF EndBegin, EndFresh, End, InHand
<1>2. CASE Snapshot(p, "end") /\ row' = row
  BY <1>1, <1>2, Reads DEF Pcs, IInv
<1>3. CASE Finish(p) /\ row' \in Rows /\ row'.held = row.held
  BY <1>1, <1>3, Finishes
<1>4. CASE k[p].pc # "idle" /\ row' \in Rows /\ row'.held = row.held /\ (Go(p, "settle") \/ Go(p, "endFresh"))
  <2>1. InHand("settle", k[p].s) = 0 /\ InHand("endFresh", k[p].s) = 0
    BY DEF InHand
  <2> QED
    BY <1>1, <1>4, <2>1, GoesOn DEF Pcs
<1>5. [row EXCEPT !.st = "stopped"] \in Rows /\ [row EXCEPT !.st = "stopped"].held = row.held
  BY DEF Rows, Ended
<1> QED
  BY <1>2, <1>3, <1>4, <1>5 DEF EndBegin, EndFresh, End

\* What is held for an ended row is charged or given back.
LEMMA SettleStep ==
  ASSUME IInv, NEW p \in Requests, Settle(p) \/ Resnap(p) \/ SettleCharge(p) \/ SettleRelease(p)
  PROVE  IInv'
<1> USE Known
<1>1. CASE Settle(p)
  <2>1. /\ k[p].pc = "settle" /\ UNCHANGED <<now, pool, charged, served, reports>>
        /\ InHand("settle", k[p].s) = 0 /\ InHand("resnap", k[p].s) = 0
        /\ InHand("settleCharge", k[p].s) = k[p].s.held
    BY <1>1 DEF Settle, InHand
  <2>2. CASE Settleable(k[p].s)
    <3>1. row' = [row EXCEPT !.held = 0] /\ Go(p, "settleCharge") /\ row.held = k[p].s.held
      BY <1>1, <2>2 DEF Settle, Settleable
    <3>2. row' \in Rows /\ row'.held = 0
      BY <3>1 DEF Rows
    <3> QED
      BY <2>1, <3>1, <3>2, GoesOn DEF Pcs
  <2>3. CASE ~Settleable(k[p].s)
    <3>1. row' = row /\ (Finish(p) \/ Go(p, "resnap"))
      BY <1>1, <2>3 DEF Settle
    <3>2. CASE Finish(p)
      BY <2>1, <3>1, <3>2, Finishes
    <3>3. CASE Go(p, "resnap")
      BY <2>1, <3>1, <3>3, GoesOn DEF Pcs
    <3> QED
      BY <3>1, <3>2, <3>3
  <2> QED
    BY <2>2, <2>3
<1>2. CASE Resnap(p)
  <2> DEFINE t == [k[p].s EXCEPT !.held = row.held, !.lb = row.lb]
             r == [pc |-> "settle", tries |-> k[p].tries + 1, s |-> t]
  <2>1. k[p].pc = "resnap" /\ UNCHANGED <<now, row, pool, charged, served, reports>> /\ InHand("resnap", k[p].s) = 0
    BY <1>2 DEF Resnap, InHand
  <2>2. CASE Finish(p)
    BY <2>1, <2>2, Finishes
  <2>3. CASE k' = [k EXCEPT ![p] = r]
    <3>1. t \in Rows /\ k[p].tries + 1 \in Nat
      <4>1. row.held \in 0..Price /\ row.lb \in -1..MaxNow
        BY DEF Rows
      <4>2. k[p].tries \in Nat
        BY DEF Request
      <4>3. k[p].s \in Rows
        BY <2>1
      <4>4. t \in Rows
        <5> HIDE DEF Known
        <5> QED
          BY <4>1, <4>3 DEF Rows
      <4> QED
        BY <4>2, <4>4
    <3> HIDE DEF t
    <3>2. r.pc = "settle" /\ Request(r) /\ InHand(r.pc, r.s) = 0
      BY <3>1 DEF Request, Pcs, InHand
    <3>3. /\ reports' \in 0..MaxReports /\ row' \in Rows /\ pool' \in [avail : Nat, held : Int] /\ charged' \in Nat
          /\ pool'.held - row'.held - InHand(r.pc, r.s) = pool.held - row.held - InHand(k[p].pc, k[p].s)
          /\ pool'.avail + pool'.held + charged' = pool.avail + pool.held + charged
      BY <2>1, <3>2 DEF IInv
    <3> HIDE DEF r
    <3> QED
      BY <2>1, <2>3, <3>2, <3>3, OneStatement
  <2> QED
    BY <1>2, <2>2, <2>3 DEF Resnap
<1>3. CASE SettleCharge(p)
  <2>1. /\ k[p].pc = "settleCharge" /\ Charge(Due(k[p].s)) /\ Go(p, "settleRelease")
        /\ UNCHANGED <<now, row, served, reports>>
    BY <1>3 DEF SettleCharge
  <2>2. /\ InHand("settleCharge", k[p].s) = k[p].s.held
        /\ InHand("settleRelease", k[p].s) = k[p].s.held - Due(k[p].s)
    BY DEF InHand
  <2>3. Due(k[p].s) \in Nat /\ Due(k[p].s) <= k[p].s.held /\ k[p].s.held \in Nat
    BY <2>1
  <2>4. /\ pool' \in [avail : Nat, held : Nat] /\ charged' \in Nat /\ pool'.avail = pool.avail
        /\ pool'.held = pool.held - Due(k[p].s) /\ charged' = charged + Due(k[p].s)
    BY <2>1, <2>2, <2>3, Charges
  <2> QED
    BY <2>1, <2>2, <2>3, <2>4, GoesOn DEF Pcs
<1>4. CASE SettleRelease(p)
  <2> DEFINE x == k[p].s.held - Due(k[p].s)
  <2>1. /\ k[p].pc = "settleRelease" /\ pool' = Released(x) /\ Finish(p)
        /\ UNCHANGED <<now, row, charged, served, reports>>
    BY <1>4 DEF SettleRelease
  <2>2. InHand("settleRelease", k[p].s) = x /\ x \in Nat
    BY <2>1 DEF InHand
  <2> HIDE DEF x
  <2>3. /\ pool' \in [avail : Nat, held : Int] /\ pool'.avail = pool.avail + x
        /\ pool'.held = pool.held - x
    BY <2>1, <2>2 DEF Released
  <2> QED
    BY <2>1, <2>2, <2>3, Finishes
<1> QED
  BY <1>1, <1>2, <1>3, <1>4

-----------------------------------------------------------------------------
(* requeueRows. *)

\* A re-queue takes the row from its node and settles what is held.
LEMMA RequeueStep ==
  ASSUME IInv, NEW p \in Requests, RequeueBegin(p) \/ Requeue(p) \/ RequeueSettling(p)
  PROVE  IInv'
<1> USE Known
<1>1. ASSUME NEW h \in 0..Price PROVE Requeued(h) \in Rows /\ Requeued(h).held = h
  <2>1. Never \in -1..MaxNow /\ row \in Rows
    BY DEF Never
  <2> HIDE Known
  <2> QED
    BY <2>1 DEF Requeued, Rows
<1>2. row.held \in 0..Price /\ 0 \in 0..Price
  BY DEF Rows
<1>3. CASE RequeueBegin(p)
  <2>1. InHand(k[p].pc, k[p].s) = 0
    BY <1>3 DEF RequeueBegin, InHand
  <2> QED
    BY <1>3, <2>1, Reads DEF RequeueBegin, Pcs, IInv
<1>4. CASE Requeue(p)
  <2>1. /\ InHand(k[p].pc, k[p].s) = 0 /\ UNCHANGED <<now, pool, charged, served, reports>> /\ Finish(p)
        /\ row' \in Rows /\ row'.held = row.held
    BY <1>1, <1>2, <1>4 DEF Requeue, InHand
  <2> QED
    BY <2>1, Finishes
<1>5. CASE RequeueSettling(p)
  <2>1. /\ k[p].pc = "requeueSettling" /\ InHand(k[p].pc, k[p].s) = 0
        /\ InHand("partCharge", k[p].s) = k[p].s.held /\ UNCHANGED <<now, pool, charged, served, reports>>
    BY <1>5 DEF RequeueSettling, InHand
  <2>2. CASE row' = Requeued(0) /\ Go(p, "partCharge") /\ row.held = k[p].s.held
    <3>1. row' \in Rows /\ row'.held = 0
      BY <1>1, <1>2, <2>2
    <3> QED
      BY <2>1, <2>2, <3>1, GoesOn DEF Pcs
  <2>3. CASE row' \in {row, Requeued(row.held)} /\ Finish(p)
    <3>1. row' \in Rows /\ row'.held = row.held
      BY <1>1, <1>2, <2>3
    <3> QED
      BY <2>1, <2>3, <3>1, Finishes
  <2> QED
    BY <1>5, <2>2, <2>3 DEF RequeueSettling, Settleable
<1> QED
  BY <1>3, <1>4, <1>5

\* The part served is charged, and the hold made whole again before it goes back.
LEMMA TopUpStep ==
  ASSUME IInv, NEW p \in Requests, PartCharge(p) \/ TopUp(p)
  PROVE  IInv'
<1> USE Known
<1> DEFINE d == Due(k[p].s)
           h == k[p].s.held
<1>1. k[p].pc \in {"partCharge", "topUp"} /\ UNCHANGED <<now, row, served, reports>>
  BY DEF PartCharge, TopUp
<1>2. d \in Nat /\ d <= h /\ h \in Nat
  BY <1>1
<1>3. /\ InHand("partCharge", k[p].s) = h /\ InHand("topUp", k[p].s) = h - d
      /\ InHand("putFull", k[p].s) = h /\ InHand("putRest", k[p].s) = h - d
  BY DEF InHand
<1>4. CASE PartCharge(p)
  <2>1. k[p].pc = "partCharge" /\ Charge(d) /\ Go(p, "topUp")
    BY <1>4 DEF PartCharge
  <2> HIDE DEF d, h
  <2>2. /\ pool' \in [avail : Nat, held : Nat] /\ charged' \in Nat /\ pool'.avail = pool.avail
        /\ pool'.held = pool.held - d /\ charged' = charged + d
    BY <1>2, <1>3, <2>1, Charges
  <2> QED
    BY <1>1, <1>2, <1>3, <2>1, <2>2, GoesOn DEF Pcs
<1>5. CASE TopUp(p)
  <2>1. /\ k[p].pc = "topUp" /\ charged' = charged
        /\ \/ CanHold(d) /\ pool' = Held(d) /\ Go(p, "putFull")
           \/ pool' = pool /\ Go(p, "putRest")
    BY <1>5 DEF TopUp
  <2> HIDE DEF d, h
  <2>2. CASE CanHold(d) /\ pool' = Held(d) /\ Go(p, "putFull")
    <3>1. /\ pool' \in [avail : Nat, held : Nat] /\ pool'.avail = pool.avail - d
          /\ pool'.held = pool.held + d
      BY <1>2, <2>2 DEF CanHold, Held
    <3> QED
      BY <1>1, <1>2, <1>3, <2>1, <2>2, <3>1, GoesOn DEF Pcs
  <2>3. CASE pool' = pool /\ Go(p, "putRest")
    BY <1>1, <1>2, <1>3, <2>1, <2>3, GoesOn DEF Pcs
  <2> QED
    BY <2>1, <2>2, <2>3
<1> QED
  BY <1>4, <1>5

\* The full hour, or what is left of it, goes back on the row if the row has none, else to the owner.
LEMMA PutStep ==
  ASSUME IInv, NEW p \in Requests, PutFull(p) \/ PutRest(p)
  PROVE  IInv'
<1> USE Known
<1> DEFINE h == k[p].s.held
           x == h - Due(k[p].s)
\* An amount that goes from p's hand on to the row or back to the owner.
<1>1. ASSUME NEW y \in 0..Price,
             \/ row.held = 0 /\ row' = [row EXCEPT !.held = y] /\ pool' = pool
             \/ row' = row /\ pool' = Released(y)
      PROVE  /\ row' \in Rows /\ pool' \in [avail : Nat, held : Int]
             /\ pool'.held - row'.held = pool.held - row.held - y
             /\ pool'.avail + pool'.held = pool.avail + pool.held
  BY <1>1 DEF Rows, Released
<1>2. CASE PutFull(p)
  <2>1. k[p].pc = "putFull" /\ UNCHANGED <<now, charged, served, reports>> /\ Finish(p) /\ h \in 0..Price
    BY <1>2 DEF PutFull
  <2>2. InHand("putFull", k[p].s) = h
    BY DEF InHand
  <2>3. \/ row.held = 0 /\ row' = [row EXCEPT !.held = h] /\ pool' = pool
        \/ row' = row /\ pool' = Released(h)
    BY <1>2 DEF PutFull, MayCarry
  <2> HIDE DEF h
  <2> QED
    BY <1>1, <2>1, <2>2, <2>3, Finishes
<1>3. CASE PutRest(p)
  <2>1. k[p].pc = "putRest" /\ UNCHANGED <<now, charged, served, reports>> /\ x \in 0..Price
        /\ k[p].s \in Rows
    BY <1>3 DEF PutRest
  <2>2. InHand("putRest", k[p].s) = x /\ InHand("endFresh", k[p].s) = 0
    BY DEF InHand
  <2> DEFINE t == [k[p].s EXCEPT !.st = "queued", !.node = None, !.held = x, !.lb = Never]
             r == [k[p] EXCEPT !.pc = "endBroke", !.s = t]
  <2>3. \/ row.held = 0 /\ row' = [row EXCEPT !.held = x] /\ pool' = pool /\ k' = [k EXCEPT ![p] = r]
        \/ row' = row /\ pool' = Released(x) /\ Go(p, "endFresh")
    BY <1>3 DEF PutRest, MayCarry
  <2> HIDE DEF x
  <2>4. /\ row' \in Rows /\ pool' \in [avail : Nat, held : Int]
        /\ pool'.held - row'.held = pool.held - row.held - x
        /\ pool'.avail + pool'.held = pool.avail + pool.held
    BY <1>1, <2>1, <2>3
  <2>5. pool'.held \in Int /\ row'.held \in Int
    BY <2>4 DEF Rows
  <2>6. CASE k' = [k EXCEPT ![p] = r]
    <3>1. t \in Rows
      <4>1. Never \in -1..MaxNow
        BY DEF Never
      <4> HIDE Known
      <4> QED
        BY <2>1, <4>1 DEF Rows
    <3> HIDE DEF t
    <3>2. r.pc = "endBroke" /\ r.s = t /\ r \in [pc : Pcs, s : Rows \cup {Idle.s}, tries : Nat]
      BY <3>1 DEF Request, Pcs
    <3> HIDE DEF r
    <3>3. Request(r) /\ InHand(r.pc, r.s) = 0 /\ reports' \in 0..MaxReports
      BY <2>1, <3>1, <3>2 DEF Request, InHand, IInv
    <3>4. /\ pool'.held - row'.held - InHand(r.pc, r.s) = pool.held - row.held - InHand(k[p].pc, k[p].s)
          /\ pool'.avail + pool'.held + charged' = pool.avail + pool.held + charged
      BY <2>1, <2>2, <2>4, <2>5, <3>3
    <3> QED
      BY <2>1, <2>4, <2>6, <3>3, <3>4, OneStatement
  <2>7. CASE Go(p, "endFresh")
    <3>1. /\ pool'.held - row'.held - InHand("endFresh", k[p].s) = pool.held - row.held - InHand(k[p].pc, k[p].s)
          /\ pool'.avail + pool'.held + charged' = pool.avail + pool.held + charged
      BY <2>1, <2>2, <2>4, <2>5
    <3> QED
      BY <2>1, <2>4, <2>7, <3>1, GoesOn DEF Pcs
  <2> QED
    BY <2>3, <2>6, <2>7
<1> QED
  BY <1>2, <1>3

-----------------------------------------------------------------------------
(* Placement, reports and probes never touch the money. *)

\* Probes and status reports move the clock and no money.
LEMMA ProbeStep ==
  ASSUME IInv, NEW p \in Requests,
         ProbeBegin(p) \/ ReportBegin(p) \/ ProbeOk(p) \/ ProbeNone(p) \/ ProbeFail(p) \/ Forgive(p)
  PROVE  IInv'
<1> USE Known
<1>1. InHand(k[p].pc, k[p].s) = 0 /\ UNCHANGED <<now, pool, charged, served>>
  BY DEF ProbeBegin, ReportBegin, ProbeOk, ProbeNone, ProbeFail, Forgive, InHand
<1>2. CASE ProbeBegin(p) \/ ReportBegin(p)
  <2>1. reports \in 0..MaxReports /\ MaxReports \in Nat
    BY BillingAssumption DEF IInv
  <2>2. reports' \in 0..MaxReports /\ row' = row
    BY <1>2, <2>1 DEF ProbeBegin, ReportBegin
  <2>3. PICK pc \in {"probeOk", "probeFail", "probeNone", "forgive"} : Snapshot(p, pc)
    BY <1>2 DEF ProbeBegin, ReportBegin
  <2> QED
    BY <1>1, <2>2, <2>3, Reads DEF Pcs
\* The clock a probe or a report writes is one.
<1>3. ASSUME NEW u \in Rows
      PROVE  (u.lb # Never => u.lb + Unserved(u) \in -1..MaxNow) /\ now \in -1..MaxNow
  <2>1. u.lb \in -1..MaxNow /\ u.ok \in -1..MaxNow
    BY DEF Rows
  <2> QED
    BY <2>1 DEF Unserved, Later, Never
<1>4. CASE Finish(p) /\ row' \in Rows /\ row'.held = row.held /\ reports' = reports
  BY <1>1, <1>4, Finishes
<1>5. CASE Forgive(p)
  <2> DEFINE s == k[p].s
             c == s.lb + Unserved(s)
             t == [s EXCEPT !.lb = c]
             r == [k[p] EXCEPT !.pc = "probeFail", !.s = t]
  <2>1. k[p].pc = "forgive" /\ s \in Rows /\ reports' = reports
    BY <1>5 DEF Forgive
  <2>2. CASE Go(p, "probeFail") /\ row' = row
    <3>1. InHand("probeFail", k[p].s) = 0
      BY DEF InHand
    <3> QED
      BY <1>1, <2>1, <2>2, <3>1, GoesOn DEF Pcs
  <2>3. CASE row' = [row EXCEPT !.lb = c] /\ k' = [k EXCEPT ![p] = r]
    <3>1. c \in -1..MaxNow
      <4>1. s.lb # Never => c \in -1..MaxNow
        BY <1>3, <2>1
      <4>2. s.lb = Never => c = -1
        BY DEF Unserved, Never
      <4> QED
        BY <4>1, <4>2
    <3> HIDE DEF c, s
    <3>2. row' \in Rows /\ row'.held = row.held /\ t \in Rows
      BY <2>1, <2>3, <3>1 DEF Rows
    <3> HIDE DEF t
    <3>3. r.pc = "probeFail" /\ r.s = t /\ r \in [pc : Pcs, s : Rows \cup {Idle.s}, tries : Nat]
      <4>1. Request(k[p])
        OBVIOUS
      <4> HIDE Known
      <4> QED
        BY <3>2, <4>1 DEF Request, Pcs
    <3> HIDE DEF r
    <3>4. Request(r) /\ InHand(r.pc, r.s) = 0 /\ reports' \in 0..MaxReports
      BY <2>1, <3>2, <3>3 DEF Request, InHand, IInv
    <3>5. /\ pool'.held - row'.held - InHand(r.pc, r.s) = pool.held - row.held - InHand(k[p].pc, k[p].s)
          /\ pool'.avail + pool'.held + charged' = pool.avail + pool.held + charged
      BY <1>1, <3>2, <3>4
    <3>6. pool' \in [avail : Nat, held : Int] /\ charged' \in Nat /\ UNCHANGED <<now, served>>
      BY <1>1
    <3> HIDE Known
    <3> QED
      BY <2>3, <3>2, <3>4, <3>5, <3>6, OneStatement
  <2> QED
    BY <1>5, <2>2, <2>3 DEF Forgive
<1>6. CASE ProbeOk(p)
  <2>1. k[p].s \in Rows
    BY <1>6 DEF ProbeOk
  <2> DEFINE c == IF k[p].s.lb = Never THEN now ELSE k[p].s.lb + Unserved(k[p].s)
  <2>2. c \in -1..MaxNow /\ now \in -1..MaxNow
    BY <1>3, <2>1
  <2>3. \/ row' = row
        \/ row' = [row EXCEPT !.ok = now, !.lp = now, !.fails = 0]
        \/ row' = [row EXCEPT !.st = "running", !.ok = now, !.lp = now, !.fails = 0, !.lb = c]
    BY <1>6 DEF ProbeOk
  <2> HIDE DEF c
  <2>4. row \in Rows
    OBVIOUS
  <2>5. row' \in Rows /\ row'.held = row.held
    <3> HIDE Known
    <3>1. CASE row' = row
      BY <2>4, <3>1
    <3>2. CASE row' = [row EXCEPT !.ok = now, !.lp = now, !.fails = 0]
      BY <2>2, <2>4, <3>2 DEF Rows
    <3>3. CASE row' = [row EXCEPT !.st = "running", !.ok = now, !.lp = now, !.fails = 0, !.lb = c]
      BY <2>2, <2>4, <3>3 DEF Rows, Live
    <3> QED
      BY <2>3, <3>1, <3>2, <3>3
  <2> QED
    BY <1>4, <1>6, <2>5 DEF ProbeOk
<1>7. CASE ProbeNone(p)
  <2>1. now \in -1..MaxNow
    OBVIOUS
  <2>2. row' \in Rows /\ row'.held = row.held
    BY <1>7, <2>1 DEF ProbeNone, Rows
  <2> QED
    BY <1>4, <1>7, <2>2 DEF ProbeNone
<1>8. CASE ProbeFail(p)
  <2>1. k[p].pc = "probeFail" /\ k[p].s \in Rows /\ now \in -1..MaxNow /\ reports' = reports
    BY <1>8 DEF ProbeFail
  <2>2. CASE Go(p, "requeueSettling") /\ row' = row /\ k[p].s.st = "running"
    <3>1. InHand("requeueSettling", k[p].s) = 0 /\ k[p].s.st \in Live
      BY <2>2 DEF InHand, Live
    <3> QED
      BY <1>1, <2>1, <2>2, <3>1, GoesOn DEF Pcs
  <2>3. CASE Finish(p)
    <3> DEFINE f == k[p].s.fails + 1
    <3>1. f \in Nat
      BY <2>1 DEF Rows
    <3>2. \/ row' = row
          \/ row' = [row EXCEPT !.lp = now, !.fails = f, !.st = "unreachable"]
          \/ row' = [row EXCEPT !.lp = now, !.fails = f, !.st = row.st]
      BY <1>8 DEF ProbeFail
    <3> HIDE DEF f
    <3>3. row' \in Rows /\ row'.held = row.held
      BY <2>1, <3>1, <3>2 DEF Rows, Live
    <3> QED
      BY <1>4, <2>1, <2>3, <3>3
  <2> QED
    BY <1>8, <2>2, <2>3 DEF ProbeFail
<1> QED
  BY <1>2, <1>5, <1>6, <1>7, <1>8

\* Placement and a node's first report leave the money alone; time passes between requests only, so what
\* a request is about to settle does not change under it.
LEMMA OutsideStep ==
  ASSUME IInv, (\E n \in Nodes : Claim(n)) \/ ReportRunning \/ Tick
  PROVE  IInv'
<1>1. /\ now \in 0..MaxNow /\ MaxNow \in Nat /\ served \in 0..now /\ row \in Rows /\ MoneyExact
      /\ k = [p \in Requests |-> k[p]] /\ \A p \in Requests : Request(k[p])
      /\ pool \in [avail : Nat, held : Nat] /\ charged \in Nat /\ reports \in 0..MaxReports
  BY BillingAssumption DEF IInv
<1>2. UNCHANGED <<pool, charged, reports, k>>
  BY DEF Claim, ReportRunning, Tick
<1>3. row' \in Rows /\ row'.held = row.held
  <2>1. now \in -1..MaxNow
    BY <1>1
  <2>2. CASE \E n \in Nodes : Claim(n)
    BY <1>1, <2>2 DEF Claim, Rows, Live
  <2>3. CASE ReportRunning
    BY <1>1, <2>1, <2>3 DEF ReportRunning, Rows, Live
  <2>4. CASE Tick
    BY <1>1, <2>4 DEF Tick
  <2> QED
    BY <2>2, <2>3, <2>4
<1>4. now' \in 0..MaxNow /\ served' \in 0..now' /\ now <= now'
  <2>1. CASE Tick
    <3>1. now < MaxNow /\ now' = now + 1 /\ (served' = served + 1 \/ served' = served + 0)
      BY <2>1 DEF Tick
    <3> QED
      BY <1>1, <3>1
  <2>2. CASE (\E n \in Nodes : Claim(n)) \/ ReportRunning
    <3>1. now' = now /\ served' = served
      BY <2>2 DEF Claim, ReportRunning
    <3> QED
      BY <1>1, <3>1
  <2> QED
    BY <2>1, <2>2
<1>5. \A p \in Requests : Request(k[p])'
  <2> SUFFICES ASSUME NEW p \in Requests PROVE Request(k[p])'
    OBVIOUS
  <2>1. k[p].pc = "bill" => k[p].s.lb \in Int
    BY <1>1 DEF Request, Rows
  <2>2. Hour \in Nat /\ now \in Int /\ now' \in Int
    BY <1>1, <1>4, BillingAssumption
  <2> QED
    BY <1>1, <1>2, <1>4, <2>1, <2>2 DEF Request
<1>6. inHand' = inHand
  <2>1. CASE now' = now
    BY <1>2, <2>1 DEF inHand, InHand, Due, Elapsed, Later
  <2>2. CASE \A p \in Requests : k[p].pc = "idle"
    BY <1>2, <2>2 DEF inHand, InHand
  <2> QED
    BY <2>1, <2>2 DEF Claim, ReportRunning, Tick
<1>7. MoneyExact'
  BY <1>1, <1>2, <1>3, <1>6 DEF MoneyExact
<1> QED
  BY <1>1, <1>2, <1>3, <1>4, <1>5, <1>7 DEF IInv

\* Nothing is in hand when the first hour has been held.
LEMMA InitIInv == Init => IInv
<1> SUFFICES ASSUME Init PROVE IInv
  OBVIOUS
<1>1. /\ IsFiniteSet(Requests) /\ MaxNow \in Nat /\ MaxReports \in Nat /\ Credits \in Nat /\ Price \in Nat
      /\ Credits >= Price
  BY BillingAssumption
<1>2. \A p \in Requests : k[p] = Idle
  BY DEF Init
<1>3. \A p \in Requests : inHand[p] = 0
  BY <1>2 DEF inHand, InHand, Idle
<1>4. SumFunctionOnSet(inHand, Requests) = 0
  BY <1>1, <1>3, SumZero
<1>5. MoneyExact
  BY <1>1, <1>4 DEF MoneyExact, Init
<1>6. row \in Rows /\ pool \in [avail : Nat, held : Nat]
  BY <1>1 DEF Init, Rows, Never
<1>7. Request(Idle)
  BY DEF Request, Idle, Pcs
<1> QED
  BY <1>1, <1>2, <1>5, <1>6, <1>7 DEF IInv, Init

\* Every statement of every overlapping request keeps the money exact.
THEOREM BillingInvariance == Spec => []IInv
<1>1. IInv /\ [Next]_vars => IInv'
  <2> SUFFICES ASSUME IInv, [Next]_vars PROVE IInv'
    BY SMTT(60)
  <2>1. CASE UNCHANGED vars
    BY ZenonT(60), <2>1 DEF vars, IInv, Request, MoneyExact, inHand, InHand, Due, Elapsed, Later
  <2> QED
    BY <2>1, BillStep, BillPutStep, EndStep, SettleStep, RequeueStep, TopUpStep, PutStep, ProbeStep, OutsideStep
       DEF Next, Step
<1> QED
  BY <1>1, InitIInv, PTL DEF Spec

\* balance.service, chargeHour: no credit appears or is lost, no hold is settled
\* twice, and the owner's balance never goes below nothing, whatever bills,
\* settlements, stops, outages and re-queues overlap.
THEOREM MoneyAddsUp == Spec => [](TypeOK /\ MoneyExact)
<1>1. IInv => TypeOK /\ MoneyExact
  <2> SUFFICES ASSUME IInv PROVE TypeOK
    BY DEF IInv
  <2>1. pool.avail \in Nat /\ pool.held \in Nat /\ charged \in Nat /\ pool.avail + pool.held + charged = Credits
    BY DEF IInv, MoneyExact
  <2>2. charged \in 0..Credits /\ pool.avail \in 0..Credits /\ pool.held \in 0..Credits
    BY <2>1
  <2>3. pool \in [avail : 0..Credits, held : 0..Credits]
    BY <2>2 DEF IInv
  <2>4. now \in 0..MaxNow /\ served \in 0..MaxNow
    BY BillingAssumption DEF IInv
  <2> QED
    BY <2>2, <2>3, <2>4 DEF TypeOK, IInv
<1> QED
  BY <1>1, BillingInvariance, PTL

\* endDeployment, recordProbe, requeueRows: every statement that writes a status
\* is conditional on one that has not ended, so no late answer revives a row.
THEOREM EndedForGood == Spec => EndedIsFinal
<1>1. IInv /\ [Next]_vars => (row.st \in Ended => row'.st \in Ended)
  <2> SUFFICES ASSUME IInv, [Next]_vars, row.st \in Ended PROVE row'.st \in Ended
    OBVIOUS
  <2> USE DEF Ended, Live, Rows
  <2>0. row \in Rows
    BY DEF IInv
  <2>1. CASE UNCHANGED vars
    BY <2>1 DEF vars
  <2>2. ASSUME NEW p \in Requests, Step(p) PROVE row'.st \in Ended
    <3>1. CASE UNCHANGED row
      BY <3>1
    <3>2. CASE BillClaim(p) \/ BillPut(p) \/ BackstopPut(p) \/ PutFull(p) \/ PutRest(p)
      BY <2>0, <3>2 DEF BillClaim, HourIsMine, BillPut, BackstopPut, PutFull, PutRest, MayCarry
    <3>3. CASE End(p) \/ Settle(p)
      BY <2>0, <3>3 DEF End, Settle
    <3>4. CASE Requeue(p) \/ RequeueSettling(p)
      BY <2>0, <3>4 DEF Requeue, RequeueSettling, IInv, Request
    <3>5. CASE ProbeOk(p) \/ ProbeNone(p) \/ ProbeFail(p) \/ Forgive(p)
      BY <2>0, <3>5 DEF ProbeOk, ProbeNone, ProbeFail, Forgive, StillDown
    <3> QED
      BY <2>2, <3>1, <3>2, <3>3, <3>4, <3>5
         DEF Step, BillBegin, BillCharge, BillRehold, Backstop, EndBegin, EndFresh, Resnap, SettleCharge,
             SettleRelease, RequeueBegin, PartCharge, TopUp, ProbeBegin, ReportBegin
  <2>3. CASE (\E n \in Nodes : Claim(n)) \/ ReportRunning \/ Tick
    BY <2>0, <2>3 DEF Claim, ReportRunning, Tick
  <2> QED
    BY <2>1, <2>2, <2>3 DEF Next
<1> QED
  BY <1>1, BillingInvariance, PTL DEF Spec, EndedIsFinal

-----------------------------------------------------------------------------
(* The end of an endpoint. *)

Listing == {"each", "reread", "again"}
Statuses == {"queued", "assigned", "running", "stopped", "failed"}

ReplicaOK(d) ==
  /\ DOMAIN d = {"st", "sealed", "cycles", "moves"}
  /\ d.st \in Statuses /\ d.sealed \in BOOLEAN /\ d.cycles \in Nat /\ d.cycles < START_ATTEMPTS /\ d.moves \in Nat

StopOK(x) ==
  /\ DOMAIN x = {"pc", "to", "parent", "r", "at", "snap", "todo", "moved"}
  /\ x.pc \in Listing \cup {"idle", "list", "timeout", "done", "conflict", "threw"}
  /\ x.to \in Ept!Ended /\ x.parent \in {"queued"} \cup Ept!Ended /\ x.r \in 0..N /\ x.at \in Nat
  /\ x.snap \in [Ept!Replicas -> Statuses] /\ x.todo \subseteq Ept!Replicas /\ x.moved \in [Ept!Replicas -> 0..2]

\* A timeout knows how many cycles its replica has, unless that moved on.
KnowsCycles(x, d) ==
  /\ x.r \in Ept!Replicas /\ d[x.r].moves >= x.at
  /\ d[x.r].moves = x.at => (x.parent = "failed" <=> d[x.r].cycles + 1 >= START_ATTEMPTS)

\* What a replica that is still to be ended did since the list was read: one that the request is about to try a
\* second time moved before the second reading, and is as it was read or moved again.
Waits(x, r, d) ==
  \/ d[r].st \in Ept!Ended
  \/ /\ x.pc = "each" \/ r # Ept!Min(x.todo)
     /\ d[r].st = x.snap[r] \/ x.moved[r] >= 1
  \/ /\ x.moved[r] >= 1
     /\ x.pc = "again" => d[r].st = x.snap[r] \/ x.moved[r] = 2

Follows(x, d) ==
  /\ x.pc = "timeout" => KnowsCycles(x, d)
  /\ x.pc \in {"reread", "again"} => x.todo # {}
  /\ x.pc = "done" => x.todo = {}
  /\ x.pc \in Listing \cup {"done"} => \A r \in Ept!Replicas \ x.todo : d[r].st \in Ept!Ended \/ x.moved[r] = 2
  /\ x.pc \in Listing => \A r \in x.todo : x.snap[r] \notin Ept!Ended /\ Waits(x, r, d)

EptInv ==
  /\ parent \in {"queued"} \cup Ept!Ended /\ culprit \in 0..N
  /\ ept_row = [r \in Ept!Replicas |-> ept_row[r]] /\ \A r \in Ept!Replicas : ReplicaOK(ept_row[r])
  /\ req = [q \in Requests |-> req[q]] /\ \A q \in Requests : StopOK(req[q]) /\ Follows(req[q], ept_row)
  /\ Ept!AbandonedUnsealed

\* The replica that comes next is one of those that are left.
LEMMA NextReplica == ASSUME NEW T, T \subseteq Ept!Replicas, T # {} PROVE Ept!Min(T) \in T
<1>1. N \in Nat
  BY EndpointAssumption DEF Ept!EndpointsAssumption
<1>2. T \subseteq 1..N /\ IsFiniteSet(1..N)
  BY <1>1, FS_Interval DEF Ept!Replicas
<1> DEFINE Bad == {1..m : m \in T}
<1> DEFINE all_r == 1..N
<1>6. Bad \subseteq SUBSET all_r /\ Bad # {} /\ IsFiniteSet(all_r)
  <2>1. ASSUME NEW m \in T PROVE 1..m \subseteq 1..N
    BY <1>1, <1>2, <2>1
  <2>2. PICK m \in T : TRUE
    OBVIOUS
  <2>3. 1..m \in Bad
    BY <2>2
  <2> QED
    BY <1>2, <2>1, <2>3
<1>3. PICK U \in Bad : \A V \in Bad : V \subseteq U => V = U
  <2> HIDE DEF Bad, all_r
  <2> QED
    BY <1>6, LeastFailing
<1>4. PICK m \in T : U = 1..m
  BY <1>3
<1>5. \A i \in T : m <= i
  <2> SUFFICES ASSUME NEW i \in T, ~ (m <= i) PROVE FALSE
    OBVIOUS
  <2>1. m \in 1..N /\ i \in 1..N
    BY <1>2
  <2>2. 1..i \subseteq 1..m /\ m \in 1..m /\ m \notin 1..i
    BY <1>1, <2>1
  <2> QED
    BY <1>3, <1>4, <2>2
<1> QED
  BY <1>5 DEF Ept!Min

\* No replica that ended changes, no assignment number goes back, and one that a request past its list sees change is
\* counted.
Forward(d, new, x, y) ==
  \A r \in Ept!Replicas :
    /\ d[r].st \in Ept!Ended => new[r].st = d[r].st
    /\ new[r].moves >= d[r].moves /\ (new[r].moves = d[r].moves => new[r].cycles = d[r].cycles)
    /\ \/ y.moved[r] = x.moved[r] /\ (new[r].st = d[r].st \/ new[r].st \in Ept!Ended)
       \/ y.moved[r] = x.moved[r] /\ x.pc \notin Listing
       \/ y.moved[r] = (IF x.moved[r] = 0 THEN 1 ELSE 2)

\* What a request has found out stays true while the replicas move on.
LEMMA StillFollows ==
  ASSUME NEW x, NEW y, NEW d, NEW new, StopOK(x), Follows(x, d),
         \A r \in Ept!Replicas : ReplicaOK(d[r]) /\ ReplicaOK(new[r]), Forward(d, new, x, y),
         y.pc = x.pc, y.r = x.r, y.at = x.at, y.parent = x.parent, y.snap = x.snap, y.todo = x.todo
  PROVE  Follows(y, new)
<1>0. x.todo \subseteq Ept!Replicas /\ x.moved \in [Ept!Replicas -> 0..2] /\ x.at \in Nat
  BY DEF StopOK
<1>1. ASSUME x.pc = "timeout" PROVE KnowsCycles(y, new)
  <2>1. KnowsCycles(x, d)
    BY <1>1 DEF Follows
  <2>2. x.r \in Ept!Replicas
    BY <2>1 DEF KnowsCycles
  <2>3. d[x.r].moves \in Nat /\ new[x.r].moves \in Nat
    BY <2>2 DEF ReplicaOK
  <2> QED
    BY <1>0, <2>1, <2>2, <2>3 DEF KnowsCycles, Forward
<1>2. ASSUME NEW r \in Ept!Replicas, x.pc \in Listing \cup {"done"}, d[r].st \in Ept!Ended \/ x.moved[r] = 2
      PROVE  new[r].st \in Ept!Ended \/ y.moved[r] = 2
  BY <1>0, <1>2 DEF Forward
<1>3. ASSUME NEW r \in x.todo, x.pc \in Listing, Waits(x, r, d) PROVE Waits(y, r, new)
  <2>1. r \in Ept!Replicas /\ x.moved[r] \in 0..2
    BY <1>0
  <2>2. \/ y.moved[r] = x.moved[r] /\ (new[r].st = d[r].st \/ new[r].st \in Ept!Ended)
        \/ y.moved[r] = 1 /\ x.moved[r] = 0
        \/ y.moved[r] = 2 /\ x.moved[r] >= 1
    BY <1>3, <2>1 DEF Forward
  <2>3. d[r].st \in Ept!Ended => new[r].st \in Ept!Ended
    BY <2>1 DEF Forward
  <2> QED
    BY <1>3, <2>1, <2>2, <2>3 DEF Waits
<1> QED
  BY <1>1, <1>2, <1>3 DEF Follows

\* A replica's status was set: what Becomes does to the rest.
LEMMA Moved ==
  ASSUME EptInv, NEW r \in Ept!Replicas, NEW new, NEW reqs, Ept!Becomes(r, new, reqs),
         ept_row[r].st \notin Ept!Ended, new.moves = ept_row[r].moves, ReplicaOK(new),
         NEW q \in Requests, reqs[q] = req[q]
  PROVE  StopOK(req'[q]) /\ Follows(req'[q], ept_row')
<1> DEFINE x == req[q]
           y == req'[q]
<1>1. StopOK(x) /\ Follows(x, ept_row)
  BY DEF EptInv
<1>2. ept_row' = [ept_row EXCEPT ![r] = [new EXCEPT !.moves = @ + 1]]
  BY DEF Ept!Becomes
<1>3. y = IF x.pc \in Listing THEN [x EXCEPT !.moved[r] = Ept!Min({@ + 1, 2})] ELSE x
  BY DEF Ept!Becomes, Listing
<1>4. \A i \in 0..2 : Ept!Min({i + 1, 2}) = IF i = 0 THEN 1 ELSE 2
  <2>1. \A a, b \in Nat : Ept!Min({a, b}) \in {a, b} /\ Ept!Min({a, b}) <= a /\ Ept!Min({a, b}) <= b
    <3> SUFFICES ASSUME NEW a \in Nat, NEW b \in Nat
                 PROVE  Ept!Min({a, b}) \in {a, b} /\ Ept!Min({a, b}) <= a /\ Ept!Min({a, b}) <= b
      OBVIOUS
    <3>1. \E m \in {a, b} : \A i \in {a, b} : m <= i
      <4>1. CASE a <= b
        BY <4>1
      <4>2. CASE b <= a
        BY <4>2
      <4> QED
        BY <4>1, <4>2
    <3> QED
      BY <3>1 DEF Ept!Min
  <2> SUFFICES ASSUME NEW i \in 0..2 PROVE Ept!Min({i + 1, 2}) = IF i = 0 THEN 1 ELSE 2
    OBVIOUS
  <2>2. i + 1 \in Nat /\ 2 \in Nat
    OBVIOUS
  <2> QED
    BY <2>1, <2>2
<1> HIDE DEF x, y
<1>5. /\ DOMAIN y = DOMAIN x /\ y.pc = x.pc /\ y.r = x.r /\ y.at = x.at /\ y.parent = x.parent /\ y.snap = x.snap
      /\ y.todo = x.todo /\ y.to = x.to
      /\ y.moved = IF x.pc \in Listing THEN [x.moved EXCEPT ![r] = IF x.moved[r] = 0 THEN 1 ELSE 2] ELSE x.moved
  <2>1. x.moved \in [Ept!Replicas -> 0..2] /\ DOMAIN x = {"pc", "to", "parent", "r", "at", "snap", "todo", "moved"}
    BY <1>1 DEF StopOK
  <2>2. Ept!Min({x.moved[r] + 1, 2}) = IF x.moved[r] = 0 THEN 1 ELSE 2
    BY <1>4, <2>1
  <2> QED
    BY <1>3, <2>1, <2>2
<1>6. StopOK(y)
  BY <1>1, <1>5 DEF StopOK
<1>7. \A s \in Ept!Replicas : ReplicaOK(ept_row[s]) /\ ReplicaOK(ept_row'[s])
  <2>1. ReplicaOK([new EXCEPT !.moves = @ + 1])
    BY DEF ReplicaOK
  <2> QED
    BY <1>2, <2>1 DEF EptInv
<1>8. Forward(ept_row, ept_row', x, y)
  <2> SUFFICES ASSUME NEW s \in Ept!Replicas
               PROVE  /\ ept_row[s].st \in Ept!Ended => ept_row'[s].st = ept_row[s].st
                      /\ ept_row'[s].moves >= ept_row[s].moves
                      /\ ept_row'[s].moves = ept_row[s].moves => ept_row'[s].cycles = ept_row[s].cycles
                      /\ \/ y.moved[s] = x.moved[s] /\ (ept_row'[s].st = ept_row[s].st \/ ept_row'[s].st \in Ept!Ended)
                         \/ y.moved[s] = x.moved[s] /\ x.pc \notin Listing
                         \/ y.moved[s] = (IF x.moved[s] = 0 THEN 1 ELSE 2)
    BY DEF Forward
  <2>1. ReplicaOK(ept_row[s]) /\ s \in DOMAIN ept_row /\ x.moved \in [Ept!Replicas -> 0..2]
    BY <1>1 DEF EptInv, StopOK
  <2>2. CASE s = r
    <3>1. ept_row'[s].moves = ept_row[s].moves + 1
      BY <1>2, <2>1, <2>2 DEF ReplicaOK
    <3> QED
      BY <1>5, <2>1, <2>2, <3>1 DEF ReplicaOK
  <2>3. CASE s # r
    <3>1. ept_row'[s] = ept_row[s]
      BY <1>2, <2>1, <2>3
    <3>2. y.moved[s] = x.moved[s]
      BY <1>5, <2>1, <2>3
    <3> QED
      BY <2>1, <3>1, <3>2 DEF ReplicaOK
  <2> QED
    BY <2>2, <2>3
<1>9. Follows(y, ept_row')
  BY <1>1, <1>5, <1>7, <1>8, StillFollows
<1> QED
  BY <1>6, <1>9 DEF y

\* The rows after a status was set.
LEMMA RowsAfter ==
  ASSUME EptInv, NEW r \in Ept!Replicas, NEW new, NEW reqs, Ept!Becomes(r, new, reqs),
         ept_row[r].st \notin Ept!Ended, new.moves = ept_row[r].moves, ReplicaOK(new)
  PROVE  /\ ept_row' = [i \in Ept!Replicas |-> ept_row'[i]] /\ \A i \in Ept!Replicas : ReplicaOK(ept_row'[i])
         /\ req' = [q \in Requests |-> req'[q]]
         /\ culprit' = culprit => Ept!AbandonedUnsealed'
         /\ ept_row'[r].st = new.st /\ ept_row'[r].sealed = new.sealed /\ ept_row'[r].cycles = new.cycles
<1>1. ept_row' = [ept_row EXCEPT ![r] = [new EXCEPT !.moves = @ + 1]] /\ DOMAIN ept_row = Ept!Replicas
  BY DEF Ept!Becomes, EptInv
<1>2. ReplicaOK([new EXCEPT !.moves = @ + 1])
  BY DEF ReplicaOK
<1>3. \A i \in Ept!Replicas : ReplicaOK(ept_row'[i])
  BY <1>1, <1>2 DEF EptInv
<1>4. req' = [q \in Requests |-> req'[q]]
  BY DEF Ept!Becomes
<1>5. culprit' = culprit => Ept!AbandonedUnsealed'
  <2> SUFFICES ASSUME culprit' = culprit, culprit # 0
               PROVE  ept_row'[culprit] = ept_row[culprit]
    BY DEF EptInv, Ept!AbandonedUnsealed
  <2>1. ept_row[culprit].st = "failed"
    BY DEF EptInv, Ept!AbandonedUnsealed
  <2> QED
    BY <1>1, <2>1 DEF Ept!Ended
<1>6. ept_row' = [i \in Ept!Replicas |-> ept_row'[i]]
  BY <1>1
<1>7. ept_row'[r].st = new.st /\ ept_row'[r].sealed = new.sealed /\ ept_row'[r].cycles = new.cycles
  BY <1>1 DEF ReplicaOK
<1> QED
  BY <1>3, <1>4, <1>5, <1>6, <1>7

\* A replica's own life.
LEMMA ReplicaMoves ==
  ASSUME EptInv, NEW r \in Ept!Replicas,
         \/ Ept!Claim(r) \/ Ept!ReportRunning(r) \/ Ept!Requeue(r) \/ \E s \in Ept!Ended : Ept!ReportEnded(r, s)
  PROVE  EptInv'
<1>1. ReplicaOK(ept_row[r])
  BY DEF EptInv
<1>2. ept_row[r].st \notin Ept!Ended /\ UNCHANGED <<parent, culprit, throws>>
  BY DEF Ept!Claim, Ept!ReportRunning, Ept!Requeue, Ept!ReportEnded, Ept!Moves, Ept!Ended
<1>3. PICK new : ReplicaOK(new) /\ new.moves = ept_row[r].moves /\ Ept!Becomes(r, new, req)
  <2>1. CASE Ept!Claim(r)
    <3>1. ReplicaOK([ept_row[r] EXCEPT !.st = "assigned"]) /\ [ept_row[r] EXCEPT !.st = "assigned"].moves = ept_row[r].moves
      BY <1>1 DEF ReplicaOK, Statuses
    <3> QED
      BY <2>1, <3>1 DEF Ept!Claim
  <2>2. CASE Ept!ReportRunning(r)
    <3> DEFINE n == [ept_row[r] EXCEPT !.st = "running", !.cycles = 0]
    <3>1. ReplicaOK(n) /\ n.moves = ept_row[r].moves
      BY <1>1, EndpointAssumption DEF ReplicaOK, Statuses, Ept!EndpointsAssumption
    <3> QED
      BY <2>2, <3>1 DEF Ept!ReportRunning
  <2>3. CASE Ept!Requeue(r)
    <3> DEFINE n == [ept_row[r] EXCEPT !.st = "queued", !.sealed = FALSE]
    <3>1. ReplicaOK(n) /\ n.moves = ept_row[r].moves
      BY <1>1 DEF ReplicaOK, Statuses
    <3> QED
      BY <2>3, <3>1 DEF Ept!Requeue
  <2>4. ASSUME NEW s \in Ept!Ended, Ept!ReportEnded(r, s)
        PROVE  \E n : ReplicaOK(n) /\ n.moves = ept_row[r].moves /\ Ept!Becomes(r, n, req)
    <3> DEFINE n == [ept_row[r] EXCEPT !.st = s]
    <3>1. ReplicaOK(n) /\ n.moves = ept_row[r].moves
      BY <1>1 DEF ReplicaOK, Statuses, Ept!Ended
    <3> QED
      BY <2>4, <3>1 DEF Ept!ReportEnded
  <2> QED
    BY <2>1, <2>2, <2>3, <2>4
<1>4. \A q \in Requests : StopOK(req'[q]) /\ Follows(req'[q], ept_row')
  BY <1>2, <1>3, Moved
<1> QED
  BY <1>2, <1>3, <1>4, RowsAfter DEF EptInv

\* A seal that lands.
LEMMA SealLands == ASSUME EptInv, NEW r \in Ept!Replicas, Ept!setSealedEnv(r) PROVE EptInv'
<1>1. /\ UNCHANGED <<parent, req, culprit, throws>> /\ ept_row[r].st = "assigned"
      /\ ept_row' = [ept_row EXCEPT ![r].sealed = TRUE]
  BY DEF Ept!setSealedEnv
<1>2. \A i \in Ept!Replicas :
        /\ ReplicaOK(ept_row'[i]) /\ ept_row'[i].st = ept_row[i].st /\ ept_row'[i].moves = ept_row[i].moves
        /\ ept_row'[i].cycles = ept_row[i].cycles /\ (i # r => ept_row'[i] = ept_row[i])
  BY <1>1 DEF EptInv, ReplicaOK
<1>3. Ept!AbandonedUnsealed'
  BY <1>1, <1>2 DEF EptInv, Ept!AbandonedUnsealed, Ept!Replicas
<1>4. ASSUME NEW q \in Requests PROVE Follows(req[q], ept_row')
  <2>1. StopOK(req[q]) /\ Follows(req[q], ept_row) /\ \A i \in Ept!Replicas : ReplicaOK(ept_row[i])
    BY DEF EptInv
  <2>2. Forward(ept_row, ept_row', req[q], req[q])
    BY <1>2, <2>1 DEF Forward, ReplicaOK
  <2> QED
    BY <1>2, <2>1, <2>2, StillFollows
<1>5. ept_row' = [i \in Ept!Replicas |-> ept_row'[i]]
  BY <1>1 DEF EptInv
<1> QED
  BY <1>1, <1>2, <1>3, <1>4, <1>5 DEF EptInv

\* Only what one request knows changes.
LEMMA OneRequest ==
  ASSUME EptInv, NEW q \in Requests, NEW x, req' = [req EXCEPT ![q] = x], UNCHANGED <<ept_row, culprit>>,
         parent' \in {"queued"} \cup Ept!Ended, StopOK(x), Follows(x, ept_row)
  PROVE  EptInv'
<1>1. \A p \in Requests : req'[p] = IF p = q THEN x ELSE req[p]
  BY DEF EptInv
<1>2. \A p \in Requests : StopOK(req'[p]) /\ Follows(req'[p], ept_row)
  BY <1>1 DEF EptInv
<1>3. Ept!AbandonedUnsealed'
  BY DEF EptInv, Ept!AbandonedUnsealed
<1>4. req' = [p \in Requests |-> req'[p]]
  BY DEF EptInv
<1> QED
  BY <1>2, <1>3, <1>4 DEF EptInv

\* A request that is not under way.
LEMMA IdleOK ==
  /\ StopOK(Ept!IdleReq) /\ Ept!IdleReq.pc = "idle" /\ Ept!IdleReq.parent = "queued" /\ Ept!IdleReq.todo = {}
  /\ DOMAIN Ept!IdleReq = {"pc", "to", "parent", "r", "at", "snap", "todo", "moved"}
<1>1. 0 \in 0..N
  BY EndpointAssumption DEF Ept!EndpointsAssumption
<1> QED
  BY <1>1 DEF Ept!IdleReq, StopOK, Ept!Ended, Statuses, Listing

\* stopDeployment(), requeueStuckAssigned(): what is read first.
LEMMA ReadsFirst ==
  ASSUME EptInv, NEW q \in Requests, Ept!StopReads(q) \/ \E r \in Ept!Replicas : Ept!TimeoutReads(q, r)
  PROVE  EptInv'
<1>1. CASE Ept!StopReads(q)
  <2> DEFINE x == [Ept!IdleReq EXCEPT !.pc = "list", !.parent = parent]
  <2>1. req' = [req EXCEPT ![q] = x] /\ UNCHANGED <<parent, ept_row, culprit>>
    BY <1>1 DEF Ept!StopReads
  <2>2. StopOK(x) /\ x.pc = "list"
    BY IdleOK DEF StopOK, EptInv
  <2>3. Follows(x, ept_row)
    BY <2>2 DEF Follows, Listing
  <2>4. parent' \in {"queued"} \cup Ept!Ended
    BY <2>1 DEF EptInv
  <2> HIDE DEF x
  <2> QED
    BY <2>1, <2>2, <2>3, <2>4, OneRequest
<1>2. ASSUME NEW r \in Ept!Replicas, Ept!TimeoutReads(q, r) PROVE EptInv'
  <2> DEFINE x == [Ept!IdleReq EXCEPT !.pc = "timeout", !.to = "failed", !.r = r, !.at = ept_row[r].moves,
                                      !.parent = IF Ept!LastCycle(r) THEN "failed" ELSE "queued"]
  <2>1. req' = [req EXCEPT ![q] = x] /\ UNCHANGED <<parent, ept_row, culprit>>
    BY <1>2 DEF Ept!TimeoutReads
  <2>2. ReplicaOK(ept_row[r]) /\ r \in 0..N
    BY EndpointAssumption DEF EptInv, Ept!Replicas, Ept!EndpointsAssumption
  <2>3. x.pc = "timeout" /\ x.r = r /\ x.at = ept_row[r].moves /\ x.to = "failed"
        /\ x.parent = (IF ept_row[r].cycles + 1 >= START_ATTEMPTS THEN "failed" ELSE "queued")
        /\ x.snap = Ept!IdleReq.snap /\ x.todo = Ept!IdleReq.todo /\ x.moved = Ept!IdleReq.moved
        /\ DOMAIN x = DOMAIN Ept!IdleReq
    BY IdleOK DEF Ept!LastCycle
  <2> HIDE DEF x
  <2>4. StopOK(x)
    BY <2>2, <2>3, IdleOK DEF StopOK, ReplicaOK, Ept!Ended
  <2>5. KnowsCycles(x, ept_row)
    BY <2>2, <2>3 DEF KnowsCycles, ReplicaOK
  <2>6. Follows(x, ept_row)
    BY <2>3, <2>5 DEF Follows, Listing
  <2>7. parent' \in {"queued"} \cup Ept!Ended
    BY <2>1 DEF EptInv
  <2> QED
    BY <2>1, <2>4, <2>6, <2>7, OneRequest
<1> QED
  BY <1>1, <1>2

\* The list, the second reading and the misses.
LEMMA ReadsOn ==
  ASSUME EptInv, NEW q \in Requests,
         Ept!Lists(q) \/ Ept!Misses(q) \/ Ept!Rereads(q) \/ Ept!MissesAgain(q) \/ Ept!Throws(q)
  PROVE  EptInv'
<1>1. StopOK(req[q]) /\ Follows(req[q], ept_row)
  BY DEF EptInv
<1>2. parent' \in {"queued"} \cup Ept!Ended /\ UNCHANGED <<ept_row, culprit>>
  BY DEF EptInv, Ept!Lists, Ept!Misses, Ept!Rereads, Ept!MissesAgain, Ept!Throws
<1>3. \A i \in Ept!Replicas : ReplicaOK(ept_row[i])
  BY DEF EptInv
<1>4. q \in DOMAIN req
  BY DEF EptInv
<1>5. CASE Ept!Lists(q)
  <2> DEFINE x == [req[q] EXCEPT !.pc = "each", !.snap = [r \in Ept!Replicas |-> ept_row[r].st], !.r = 0, !.at = 0,
                                 !.todo = {r \in Ept!Replicas : ept_row[r].st \notin Ept!Ended}]
  <2>1. req' = [req EXCEPT ![q] = x]
    BY <1>4, <1>5 DEF Ept!Lists
  <2>2. x.pc = "each" /\ x.snap = [r \in Ept!Replicas |-> ept_row[r].st] /\ x.r = 0 /\ x.at = 0
        /\ x.todo = {r \in Ept!Replicas : ept_row[r].st \notin Ept!Ended}
        /\ x.to = req[q].to /\ x.parent = req[q].parent /\ x.moved = req[q].moved /\ DOMAIN x = DOMAIN req[q]
    BY <1>1 DEF StopOK
  <2> HIDE DEF x
  <2>3. StopOK(x)
    BY <1>1, <1>3, <2>2, EndpointAssumption DEF StopOK, ReplicaOK, Listing, Ept!EndpointsAssumption
  <2>4. Follows(x, ept_row)
    BY <2>2 DEF Follows, Waits
  <2> QED
    BY <1>2, <2>1, <2>3, <2>4, OneRequest
<1>6. CASE Ept!Misses(q)
  <2> DEFINE x == [req[q] EXCEPT !.pc = "reread"]
             r == Ept!Min(req[q].todo)
  <2>1. req' = [req EXCEPT ![q] = x] /\ req[q].pc = "each" /\ req[q].todo # {} /\ ept_row[r].st # req[q].snap[r]
    BY <1>4, <1>6 DEF Ept!Misses
  <2>2. StopOK(x) /\ x.pc = "reread" /\ x.snap = req[q].snap /\ x.todo = req[q].todo /\ x.moved = req[q].moved
    BY <1>1 DEF StopOK, Listing
  <2> HIDE DEF x
  <2>3. Follows(x, ept_row)
    BY <1>1, <2>1, <2>2 DEF Follows, Waits, Listing
  <2> QED
    BY <1>2, <2>1, <2>2, <2>3, OneRequest
<1>7. CASE Ept!Rereads(q)
  <2> DEFINE r == Ept!Min(req[q].todo)
             gone == ept_row[r].st \in Ept!Ended
             x == [req[q] EXCEPT !.snap[r] = ept_row[r].st, !.pc = IF gone THEN "each" ELSE "again",
                                 !.todo = IF gone THEN @ \ {r} ELSE @]
  <2>1. req' = [req EXCEPT ![q] = x] /\ req[q].pc = "reread"
    BY <1>4, <1>7 DEF Ept!Rereads
  <2>2. req[q].todo # {} /\ r \in req[q].todo /\ req[q].todo \subseteq Ept!Replicas
    BY <1>1, <2>1, NextReplica DEF Follows, StopOK
  <2>3. x.pc = (IF gone THEN "each" ELSE "again") /\ x.snap = [req[q].snap EXCEPT ![r] = ept_row[r].st]
        /\ x.todo = (IF gone THEN req[q].todo \ {r} ELSE req[q].todo)
        /\ x.to = req[q].to /\ x.parent = req[q].parent /\ x.moved = req[q].moved /\ DOMAIN x = DOMAIN req[q]
        /\ x.r = req[q].r /\ x.at = req[q].at
    BY <1>1 DEF StopOK
  <2>4. ReplicaOK(ept_row[r])
    BY <1>3, <2>2
  <2> HIDE DEF x, r
  <2>5. StopOK(x)
    BY <1>1, <2>2, <2>3, <2>4 DEF StopOK, ReplicaOK, Listing
  <2>6. \A s \in req[q].todo : req[q].snap[s] \notin Ept!Ended /\ Waits(req[q], s, ept_row)
    BY <1>1, <2>1 DEF Follows, Listing
  <2>7. \A s \in Ept!Replicas \ req[q].todo : ept_row[s].st \in Ept!Ended \/ req[q].moved[s] = 2
    BY <1>1, <2>1 DEF Follows, Listing
  <2>8. Waits(req[q], r, ept_row) /\ req[q].snap \in [Ept!Replicas -> Statuses]
    BY <1>1, <2>2, <2>6 DEF StopOK
  <2>9. CASE gone
    <3>1. \A s \in x.todo : x.snap[s] = req[q].snap[s] /\ s # r /\ s \in req[q].todo
      BY <2>2, <2>3, <2>8, <2>9
    <3>2. \A s \in x.todo : Waits(x, s, ept_row)
      BY <2>1, <2>3, <2>6, <2>9, <3>1 DEF Waits, r
    <3>3. \A s \in Ept!Replicas \ x.todo : ept_row[s].st \in Ept!Ended \/ x.moved[s] = 2
      BY <2>3, <2>7, <2>9
    <3> QED
      BY <1>2, <2>1, <2>3, <2>5, <2>6, <2>9, <3>1, <3>2, <3>3, OneRequest DEF Follows, Listing
  <2>10. CASE ~ gone
    <3>1. x.todo = req[q].todo /\ x.pc = "again" /\ x.snap[r] = ept_row[r].st
      BY <2>2, <2>3, <2>8, <2>10
    <3>2. x.moved[r] >= 1
      BY <2>1, <2>3, <2>8, <2>10 DEF Waits, r
    <3>3. \A s \in x.todo : x.snap[s] \notin Ept!Ended /\ Waits(x, s, ept_row)
      <4> SUFFICES ASSUME NEW s \in x.todo PROVE x.snap[s] \notin Ept!Ended /\ Waits(x, s, ept_row)
        OBVIOUS
      <4>1. CASE s = r
        BY <2>10, <3>1, <3>2, <4>1 DEF Waits
      <4>2. CASE s # r
        <5>1. x.snap[s] = req[q].snap[s]
          BY <2>2, <2>3, <2>8, <3>1, <4>2
        <5> QED
          BY <2>1, <2>3, <2>6, <3>1, <4>2, <5>1 DEF Waits, r
      <4> QED
        BY <4>1, <4>2
    <3>4. x.todo # {} /\ x.pc # "timeout"
      BY <2>2, <3>1
    <3>5. Follows(x, ept_row)
      BY <2>3, <2>7, <3>1, <3>3, <3>4 DEF Follows, Listing
    <3> QED
      BY <1>2, <2>1, <2>5, <3>5, OneRequest
  <2> QED
    BY <2>9, <2>10
<1>8. CASE Ept!MissesAgain(q)
  <2> DEFINE r == Ept!Min(req[q].todo)
             x == [req[q] EXCEPT !.pc = "each", !.todo = @ \ {r}]
  <2>1. req' = [req EXCEPT ![q] = x] /\ req[q].pc = "again" /\ ept_row[r].st # req[q].snap[r]
    BY <1>4, <1>8 DEF Ept!MissesAgain
  <2>2. req[q].todo # {} /\ r \in req[q].todo /\ req[q].todo \subseteq Ept!Replicas
    BY <1>1, <2>1, NextReplica DEF Follows, StopOK
  <2>3. StopOK(x) /\ x.pc = "each" /\ x.snap = req[q].snap /\ x.todo = req[q].todo \ {r} /\ x.moved = req[q].moved
    BY <1>1 DEF StopOK, Listing
  <2>4. ept_row[r].st \in Ept!Ended \/ x.moved[r] = 2
    BY <1>1, <2>1, <2>2, <2>3 DEF Follows, Waits, Listing
  <2> HIDE DEF x
  <2>5. \A s \in x.todo : x.snap[s] \notin Ept!Ended /\ Waits(x, s, ept_row)
    BY <1>1, <2>1, <2>3 DEF Follows, Waits, Listing
  <2>6. \A s \in Ept!Replicas \ x.todo : ept_row[s].st \in Ept!Ended \/ x.moved[s] = 2
    BY <1>1, <2>1, <2>3, <2>4 DEF Follows, Listing
  <2>7. Follows(x, ept_row)
    BY <2>3, <2>5, <2>6 DEF Follows
  <2> QED
    BY <1>2, <2>1, <2>3, <2>7, OneRequest
<1>9. CASE Ept!Throws(q)
  <2> DEFINE x == [Ept!IdleReq EXCEPT !.pc = "threw"]
  <2>1. req' = [req EXCEPT ![q] = x]
    BY <1>9 DEF Ept!Throws
  <2>2. StopOK(x) /\ x.pc = "threw"
    BY IdleOK DEF StopOK
  <2>3. Follows(x, ept_row)
    BY <2>2 DEF Follows, Listing
  <2> HIDE DEF x
  <2> QED
    BY <1>2, <2>1, <2>2, <2>3, OneRequest
<1> QED
  BY <1>5, <1>6, <1>7, <1>8, <1>9

\* The parent is ended last.
LEMMA ParentEnds == ASSUME EptInv, NEW q \in Requests, Ept!EndsParent(q) PROVE EptInv'
<1> DEFINE refused == req[q].to = "stopped" /\ req[q].parent \notin Ept!Ended /\ parent \in Ept!Ended
           x == [Ept!IdleReq EXCEPT !.pc = IF refused THEN "conflict" ELSE "done", !.moved = req[q].moved]
<1>1. StopOK(req[q]) /\ Follows(req[q], ept_row)
  BY DEF EptInv
<1>2. /\ req' = [req EXCEPT ![q] = x] /\ UNCHANGED <<ept_row, culprit>>
      /\ req[q].pc = "each" /\ req[q].todo = {} /\ parent' \in {parent, req[q].to}
  BY DEF Ept!EndsParent
<1>3. /\ x.pc \in {"conflict", "done"} /\ x.moved = req[q].moved /\ x.todo = {} /\ x.snap = Ept!IdleReq.snap
      /\ x.to = Ept!IdleReq.to /\ x.parent = "queued" /\ x.r = Ept!IdleReq.r /\ x.at = Ept!IdleReq.at
      /\ DOMAIN x = DOMAIN Ept!IdleReq
  BY IdleOK
<1> HIDE DEF x
<1>4. StopOK(x)
  BY <1>1, <1>3, IdleOK DEF StopOK
<1>5. Follows(x, ept_row)
  BY <1>1, <1>2, <1>3 DEF Follows, Listing
<1>6. parent' \in {"queued"} \cup Ept!Ended
  BY <1>1, <1>2 DEF EptInv, StopOK
<1> QED
  BY <1>2, <1>4, <1>5, <1>6, OneRequest

\* A replica whose secrets never came goes back, or fails for good and the endpoint after it.
LEMMA TimesOut == ASSUME EptInv, NEW q \in Requests, Ept!TimeoutEnds(q) PROVE EptInv'
<1> DEFINE r == req[q].r
<1>1. StopOK(req[q]) /\ Follows(req[q], ept_row) /\ q \in DOMAIN req
  BY DEF EptInv
<1>2. req[q].pc = "timeout" /\ UNCHANGED <<parent, throws>>
  BY DEF Ept!TimeoutEnds
<1>3. KnowsCycles(req[q], ept_row) /\ r \in Ept!Replicas /\ ReplicaOK(ept_row[r])
  BY <1>1, <1>2 DEF Follows, KnowsCycles, EptInv
<1>4. Follows(Ept!IdleReq, ept_row) /\ Follows(Ept!IdleReq, ept_row')
  BY IdleOK DEF Follows, Listing
<1>5. CASE ~ Ept!StillUnsealed(q)
  <2>1. req' = [req EXCEPT ![q] = Ept!IdleReq] /\ UNCHANGED <<ept_row, culprit>>
    BY <1>5 DEF Ept!TimeoutEnds
  <2>2. parent' \in {"queued"} \cup Ept!Ended
    BY <1>2 DEF EptInv
  <2> QED
    BY <1>4, <2>1, <2>2, IdleOK, OneRequest
<1>6. ASSUME Ept!StillUnsealed(q) PROVE ept_row[r].st = "assigned" /\ ~ ept_row[r].sealed /\ ept_row[r].st \notin Ept!Ended
                      /\ (req[q].parent = "failed" <=> ept_row[r].cycles + 1 >= START_ATTEMPTS)
  BY <1>3, <1>6 DEF Ept!StillUnsealed, KnowsCycles, Ept!Ended
<1>7. CASE Ept!StillUnsealed(q) /\ req[q].parent # "failed"
  <2> DEFINE new == [ept_row[r] EXCEPT !.st = "queued", !.cycles = @ + 1]
             reqs == [req EXCEPT ![q] = Ept!IdleReq]
  <2>1. Ept!Becomes(r, new, reqs) /\ UNCHANGED culprit
    BY <1>7 DEF Ept!TimeoutEnds
  <2>2. ReplicaOK(new) /\ new.moves = ept_row[r].moves
    <3>1. ept_row[r].cycles + 1 < START_ATTEMPTS /\ ept_row[r].cycles + 1 \in Nat
      BY <1>3, <1>6, <1>7, EndpointAssumption DEF ReplicaOK, Ept!EndpointsAssumption
    <3> QED
      BY <1>3, <3>1 DEF ReplicaOK, Statuses
  <2>3. \A p \in Requests \ {q} : reqs[p] = req[p]
    BY <1>1
  <2>4. req'[q] = Ept!IdleReq
    BY <1>1, <2>1, IdleOK DEF Ept!Becomes
  <2> HIDE DEF new, reqs, r
  <2>5. \A p \in Requests \ {q} : StopOK(req'[p]) /\ Follows(req'[p], ept_row')
    BY <1>3, <1>6, <1>7, <2>1, <2>2, <2>3, Moved
  <2>6. \A p \in Requests : StopOK(req'[p]) /\ Follows(req'[p], ept_row')
    BY <1>4, <2>4, <2>5, IdleOK
  <2>7. /\ ept_row' = [i \in Ept!Replicas |-> ept_row'[i]] /\ \A i \in Ept!Replicas : ReplicaOK(ept_row'[i])
        /\ req' = [p \in Requests |-> req'[p]] /\ Ept!AbandonedUnsealed'
    BY <1>3, <1>6, <1>7, <2>1, <2>2, RowsAfter
  <2> QED
    BY <1>2, <2>1, <2>6, <2>7 DEF EptInv
<1>8. CASE Ept!StillUnsealed(q) /\ req[q].parent = "failed"
  <2> DEFINE new == [ept_row[r] EXCEPT !.st = "failed"]
             x == [req[q] EXCEPT !.pc = "list"]
             reqs == [req EXCEPT ![q] = x]
  <2>1. Ept!Becomes(r, new, reqs) /\ culprit' = r
    <3>1. [req EXCEPT ![q].pc = "list"] = reqs
      BY <1>1
    <3> QED
      BY <1>8, <3>1 DEF Ept!TimeoutEnds
  <2>2. ReplicaOK(new) /\ new.moves = ept_row[r].moves /\ new.st = "failed" /\ new.sealed = ept_row[r].sealed
        /\ new.cycles = ept_row[r].cycles
    BY <1>3 DEF ReplicaOK, Statuses
  <2>3. \A p \in Requests \ {q} : reqs[p] = req[p]
    BY <1>1
  <2>4. StopOK(x) /\ x.pc = "list"
    BY <1>1 DEF StopOK
  <2>5. req'[q] = x
    BY <1>1, <2>1, <2>4 DEF Ept!Becomes
  <2>6. Follows(x, ept_row')
    BY <2>4 DEF Follows, Listing
  <2> HIDE DEF new, x, reqs, r
  <2>7. \A p \in Requests \ {q} : StopOK(req'[p]) /\ Follows(req'[p], ept_row')
    BY <1>3, <1>6, <1>8, <2>1, <2>2, <2>3, Moved
  <2>8. \A p \in Requests : StopOK(req'[p]) /\ Follows(req'[p], ept_row')
    BY <2>4, <2>5, <2>6, <2>7
  <2>9. /\ ept_row' = [i \in Ept!Replicas |-> ept_row'[i]] /\ \A i \in Ept!Replicas : ReplicaOK(ept_row'[i])
        /\ req' = [p \in Requests |-> req'[p]]
        /\ ept_row'[r].st = "failed" /\ ~ ept_row'[r].sealed /\ ept_row'[r].cycles + 1 >= START_ATTEMPTS
    BY <1>3, <1>6, <1>8, <2>1, <2>2, RowsAfter
  <2>10. r \in 0..N
    BY <1>3, EndpointAssumption DEF Ept!Replicas, Ept!EndpointsAssumption
  <2> QED
    BY <1>2, <2>1, <2>8, <2>9, <2>10 DEF EptInv, Ept!AbandonedUnsealed
<1> QED
  BY <1>5, <1>7, <1>8

\* A replica that is as it was read is ended.
LEMMA ReplicaEnds ==
  ASSUME EptInv, NEW q \in Requests, Ept!Ends(q, "each") \/ Ept!Ends(q, "again")
  PROVE  EptInv'
<1> DEFINE r == Ept!Min(req[q].todo)
           x == [req[q] EXCEPT !.pc = "each", !.todo = @ \ {r}]
<1>1. StopOK(req[q]) /\ Follows(req[q], ept_row) /\ q \in DOMAIN req /\ \A i \in Ept!Replicas : ReplicaOK(ept_row[i])
  BY DEF EptInv
<1>2. /\ req[q].pc \in {"each", "again"} /\ req[q].todo # {} /\ ept_row[r].st = req[q].snap[r]
      /\ ept_row' = [ept_row EXCEPT ![r].st = req[q].to] /\ req' = [req EXCEPT ![q] = x]
      /\ UNCHANGED <<parent, culprit, throws>>
  BY <1>1 DEF Ept!Ends
<1>3. r \in req[q].todo /\ r \in Ept!Replicas
  BY <1>1, <1>2, NextReplica DEF StopOK
<1>4. ept_row[r].st \notin Ept!Ended
  BY <1>1, <1>2, <1>3 DEF Follows, Listing
<1>5. req[q].to \in Ept!Ended
  BY <1>1 DEF StopOK
<1>6. \A i \in Ept!Replicas :
        /\ ReplicaOK(ept_row'[i]) /\ ept_row'[i].moves = ept_row[i].moves /\ ept_row'[i].cycles = ept_row[i].cycles
        /\ ept_row'[i].st = IF i = r THEN req[q].to ELSE ept_row[i].st
        /\ i # r => ept_row'[i] = ept_row[i]
  BY <1>1, <1>2, <1>5 DEF EptInv, ReplicaOK, Ept!Ended, Statuses
<1>7. StopOK(x) /\ x.pc = "each" /\ x.snap = req[q].snap /\ x.todo = req[q].todo \ {r} /\ x.moved = req[q].moved
      /\ x.r = req[q].r /\ x.at = req[q].at /\ x.parent = req[q].parent
  BY <1>1 DEF StopOK, Listing
<1> HIDE DEF x, r
<1>8. ASSUME NEW p \in Requests PROVE Follows(req[p], ept_row')
  <2>1. StopOK(req[p]) /\ Follows(req[p], ept_row)
    BY DEF EptInv
  <2>2. Forward(ept_row, ept_row', req[p], req[p])
    BY <1>1, <1>4, <1>5, <1>6 DEF Forward, ReplicaOK
  <2> QED
    BY <1>1, <1>6, <2>1, <2>2, StillFollows
<1>9. Follows(x, ept_row')
  <2>1. Follows(req[q], ept_row')
    BY <1>8
  <2>2. \A s \in x.todo : x.snap[s] \notin Ept!Ended /\ Waits(x, s, ept_row')
    BY <1>2, <1>7, <2>1 DEF Follows, Waits, Listing, r
  <2>3. \A s \in Ept!Replicas \ x.todo : ept_row'[s].st \in Ept!Ended \/ x.moved[s] = 2
    BY <1>2, <1>3, <1>5, <1>6, <1>7, <2>1 DEF Follows, Listing
  <2> QED
    BY <1>7, <2>2, <2>3 DEF Follows
<1>10. \A p \in Requests : StopOK(req'[p]) /\ Follows(req'[p], ept_row')
  <2>1. \A p \in Requests : req'[p] = IF p = q THEN x ELSE req[p]
    BY <1>2 DEF EptInv
  <2> QED
    BY <1>7, <1>8, <1>9, <2>1 DEF EptInv
<1>11. Ept!AbandonedUnsealed'
  <2>1. culprit # 0 => culprit \in Ept!Replicas /\ culprit # r
    BY <1>4, EndpointAssumption DEF EptInv, Ept!AbandonedUnsealed, Ept!Ended, Ept!Replicas, Ept!EndpointsAssumption
  <2> QED
    BY <1>2, <1>6, <2>1 DEF EptInv, Ept!AbandonedUnsealed
<1>12. ept_row' = [i \in Ept!Replicas |-> ept_row'[i]] /\ req' = [p \in Requests |-> req'[p]]
  BY <1>2 DEF EptInv
<1> QED
  BY <1>2, <1>6, <1>10, <1>11, <1>12 DEF EptInv

\* createDeployment() leaves everything as it should be.
LEMMA EndpointStarts == Ept!Init => EptInv
<1> SUFFICES ASSUME Ept!Init PROVE EptInv
  OBVIOUS
<1>1. Follows(Ept!IdleReq, ept_row)
  BY IdleOK DEF Follows, Listing
<1>2. \A r \in Ept!Replicas : ReplicaOK(ept_row[r])
  <2>1. 0 < START_ATTEMPTS
    BY EndpointAssumption DEF Ept!EndpointsAssumption
  <2>2. \A r \in Ept!Replicas : ept_row[r] = [st |-> "queued", sealed |-> FALSE, cycles |-> 0, moves |-> 0]
    BY DEF Ept!Init
  <2>3. ASSUME NEW d, d = [st |-> "queued", sealed |-> FALSE, cycles |-> 0, moves |-> 0] PROVE ReplicaOK(d)
    BY <2>1, <2>3 DEF ReplicaOK, Statuses
  <2> QED
    BY <2>2, <2>3
<1>3. culprit = 0 /\ 0 \in 0..N
  BY EndpointAssumption DEF Ept!Init, Ept!EndpointsAssumption
<1> QED
  BY <1>1, <1>2, <1>3, IdleOK DEF EptInv, Ept!Init, Ept!AbandonedUnsealed

\* Every statement of every request and of every replica's life keeps it so.
LEMMA EndpointSteps == EptInv /\ [Ept!Next]_eptVars => EptInv'
<1> SUFFICES ASSUME EptInv, [Ept!Next]_eptVars PROVE EptInv'
  OBVIOUS
<1>1. CASE UNCHANGED eptVars
  BY <1>1 DEF eptVars, EptInv, Ept!AbandonedUnsealed
<1>2. ASSUME NEW r \in Ept!Replicas,
             \/ Ept!Claim(r) \/ Ept!setSealedEnv(r) \/ Ept!ReportRunning(r) \/ Ept!Requeue(r)
             \/ \E s \in Ept!Ended : Ept!ReportEnded(r, s)
      PROVE  EptInv'
  BY <1>2, ReplicaMoves, SealLands
<1>3. ASSUME NEW q \in Requests,
             \/ Ept!StopReads(q) \/ \E r \in Ept!Replicas : Ept!TimeoutReads(q, r)
             \/ Ept!TimeoutEnds(q) \/ Ept!Lists(q) \/ Ept!Ends(q, "each") \/ Ept!Misses(q) \/ Ept!Rereads(q)
             \/ Ept!Ends(q, "again") \/ Ept!MissesAgain(q) \/ Ept!EndsParent(q) \/ Ept!Throws(q)
      PROVE  EptInv'
  BY <1>3, ReadsFirst, ReadsOn, ParentEnds, TimesOut, ReplicaEnds
<1> QED
  BY <1>1, <1>2, <1>3 DEF Ept!Next

\* endReplicas, requeueStuckAssigned: with any number of replicas and of overlapping stops and cron passes, a replica
\* that outlives a finished stop or abandonment changed its status twice meanwhile, and an endpoint is abandoned only
\* over a replica that had START_ATTEMPTS assignments in a row and is not sealed, also when statements fail.
THEOREM EndpointsEndWhole == HostingSpec => []EndpointsWhole
<1>1. HostingInit => EptInv
  BY EndpointStarts DEF HostingInit
<1>2. EptInv /\ [HostingNext]_all => EptInv'
  <2>1. [HostingNext]_all => [Ept!Next]_eptVars
    BY DEF HostingNext, all, BillingOnly, EndpointsOnly, FlowOnly
  <2> QED
    BY <2>1, EndpointSteps
<1>3. EptInv => EndpointsWhole
  <2> SUFFICES ASSUME EptInv PROVE EndpointsWhole
    OBVIOUS
  <2>1. Ept!TypeOK
    BY DEF EptInv, Ept!TypeOK, ReplicaOK, Statuses, Ept!Ended
  <2>2. ASSUME NEW q \in Requests, req[q].pc = "done", NEW r \in Ept!Replicas
        PROVE  ept_row[r].st \in Ept!Ended \/ req[q].moved[r] >= 2
    <3>1. StopOK(req[q]) /\ Follows(req[q], ept_row)
      BY DEF EptInv
    <3> QED
      BY <2>2, <3>1 DEF Follows
  <2> QED
    BY <2>1, <2>2 DEF EptInv, EndpointsWhole, Ept!SurvivorMovedTwice
<1> QED
  BY <1>1, <1>2, <1>3, PTL DEF HostingSpec

-----------------------------------------------------------------------------
(* The flow of one relayed stream. *)

Frame ==
  {f \in [t : {"data", "end", "ack", "cancel", "res", "err", "abort", "close"}, n : Nat] : f.t = "end" => f.n = 0}

\* A channel of frames, in order.
Channel(s) == s \in Seq(Frame)

\* What the frames of kind t add up to, and whether there is one.
Carried(t, s) == SumFunctionOnSet([i \in DOMAIN s |-> IF s[i].t = t THEN s[i].n ELSE 0], DOMAIN s)
Size(t, e) == IF e.t = t THEN e.n ELSE 0
Has(t, s) == \E i \in DOMAIN s : s[i].t = t

\* No data behind a frame of kind t.
Closes(t, s) == \A i, j \in DOMAIN s : i < j /\ s[i].t = t => s[j].t # "data"

\* Carried counts bytes.
LEMMA CarriedNat == ASSUME NEW t, NEW s \in Seq(Frame) PROVE Carried(t, s) \in Nat
<1>1. DOMAIN s = 1..Len(s) /\ Len(s) \in Nat /\ \A i \in 1..Len(s) : s[i] \in Frame
  OBVIOUS
<1>2. IsFiniteSet(1..Len(s))
  BY <1>1, FS_Interval
<1> DEFINE f == [i \in 1..Len(s) |-> IF s[i].t = t THEN s[i].n ELSE 0]
           S == 1..Len(s)
<1>3. \A i \in S : f[i] \in Nat
  BY <1>1 DEF Frame
<1>4. SumFunctionOnSet(f, S) \in Nat
  <2> HIDE DEF f, S
  <2> QED
    BY <1>2, <1>3, SumNat DEF S
<1> QED
  BY <1>1, <1>4 DEF Carried

\* An empty channel carries nothing.
LEMMA CarriedEmpty == ASSUME NEW t PROVE Carried(t, <<>>) = 0
BY SumEmpty DEF Carried

\* One channel behind another carries what both carry.
LEMMA CarriedConcat ==
  ASSUME NEW t, NEW s \in Seq(Frame), NEW u \in Seq(Frame)
  PROVE  Carried(t, s \o u) = Carried(t, s) + Carried(t, u)
<1> DEFINE m == Len(s)
           n == Len(u)
           w == s \o u
           f == [i \in DOMAIN w |-> IF w[i].t = t THEN w[i].n ELSE 0]
           g == [i \in DOMAIN s |-> IF s[i].t = t THEN s[i].n ELSE 0]
           h == [i \in DOMAIN u |-> IF u[i].t = t THEN u[i].n ELSE 0]
           A == 1..m
           W == 1..(m + n)
<1>1. /\ m \in Nat /\ n \in Nat /\ DOMAIN s = 1..m /\ DOMAIN u = 1..n /\ DOMAIN w = W /\ w \in Seq(Frame)
      /\ (\A i \in 1..m : s[i] \in Frame /\ w[i] = s[i]) /\ \A i \in 1..n : u[i] \in Frame /\ w[i + m] = u[i]
  OBVIOUS
<1>2. \A i \in A : f[i] = g[i] /\ f[i] \in Nat
  BY <1>1 DEF Frame
<1>3. \A i \in 1..n : h[i] \in Nat /\ h[i] = f[i + m]
  <2>1. \A i \in 1..n : i + m \in DOMAIN w
    BY <1>1
  <2> QED
    BY <1>1, <2>1 DEF Frame
<1>4. \A i \in W : f[i] \in Nat
  <2>1. \A i \in W : w[i] \in Frame
    BY <1>1
  <2> QED
    BY <1>1, <2>1 DEF Frame
<1>5. IsFiniteSet(W) /\ IsFiniteSet(A) /\ A \subseteq W /\ W \ A = (m + 1)..(m + n)
  <2>1. m + n \in Nat
    BY <1>1
  <2>2. IsFiniteSet(1..(m + n)) /\ IsFiniteSet(1..m)
    BY <1>1, <2>1, FS_Interval
  <2> QED
    BY <1>1, <2>2
<1> HIDE DEF f, g, h, A, W, w, m, n
<1>6. SumFunctionOnSet(f, W) = SumFunctionOnSet(f, A) + SumFunctionOnSet(f, W \ A)
  BY <1>4, <1>5, SumSplit
<1>7. SumFunctionOnSet(f, A) = SumFunctionOnSet(g, A)
  BY <1>2, <1>5, SumSame
<1>8. SumFunctionOnSet(h, 1..n) = SumFunctionOnSet(f, (m + 1)..(m + n))
  BY <1>1, <1>3, SumShift
<1> QED
  BY <1>1, <1>5, <1>6, <1>7, <1>8 DEF Carried, f, g, h, A, w

\* One frame carries what it says.
LEMMA CarriedOne == ASSUME NEW t, NEW e \in Frame PROVE Carried(t, <<e>>) = Size(t, e) /\ Size(t, e) \in Nat
<1> DEFINE f == [i \in {1} |-> IF <<e>>[i].t = t THEN <<e>>[i].n ELSE 0]
<1>1. DOMAIN <<e>> = {1} /\ f[1] = Size(t, e) /\ Size(t, e) \in Nat
  BY DEF Frame, Size
<1>2. IsFiniteSet({1})
  BY FS_Singleton
<1>3. SumFunctionOnSet(f, {1}) = f[1] + SumFunctionOnSet(f, {1} \ {1})
  <2>1. \A i \in {1} : f[i] \in Nat
    BY <1>1
  <2> HIDE DEF f
  <2> QED
    BY <1>2, <2>1, SumTake
<1>4. {1} \ {1} = {}
  OBVIOUS
<1>5. SumFunctionOnSet(f, {1}) = Size(t, e)
  BY <1>1, <1>3, <1>4, SumEmpty
<1> QED
  BY <1>1, <1>5 DEF Carried

\* A frame that is sent adds its bytes.
LEMMA CarriedAppend ==
  ASSUME NEW t, NEW s \in Seq(Frame), NEW e \in Frame
  PROVE  /\ Append(s, e) \in Seq(Frame) /\ Carried(t, Append(s, e)) = Carried(t, s) + Size(t, e)
         /\ Carried(t, s) \in Nat /\ Size(t, e) \in Nat
<1>1. Append(s, e) = s \o <<e>> /\ <<e>> \in Seq(Frame) /\ Append(s, e) \in Seq(Frame)
  OBVIOUS
<1>2. Carried(t, s \o <<e>>) = Carried(t, s) + Carried(t, <<e>>)
  BY <1>1, CarriedConcat
<1> QED
  BY <1>1, <1>2, CarriedOne, CarriedNat

\* A frame that arrives takes its bytes with it.
LEMMA CarriedTail ==
  ASSUME NEW t, NEW s \in Seq(Frame), s # <<>>
  PROVE  /\ Head(s) \in Frame /\ Tail(s) \in Seq(Frame) /\ Carried(t, s) = Size(t, Head(s)) + Carried(t, Tail(s))
         /\ Carried(t, Tail(s)) \in Nat /\ Size(t, Head(s)) \in Nat
<1>1. Head(s) \in Frame /\ Tail(s) \in Seq(Frame) /\ s = <<Head(s)>> \o Tail(s) /\ <<Head(s)>> \in Seq(Frame)
  OBVIOUS
<1>2. Carried(t, <<Head(s)>> \o Tail(s)) = Carried(t, <<Head(s)>>) + Carried(t, Tail(s))
  BY <1>1, CarriedConcat
<1>3. Carried(t, <<Head(s)>>) = Size(t, Head(s)) /\ Size(t, Head(s)) \in Nat /\ Carried(t, Tail(s)) \in Nat
  BY <1>1, CarriedOne, CarriedNat
<1>4. Carried(t, s) = Carried(t, <<Head(s)>> \o Tail(s))
  BY <1>1
<1> QED
  BY <1>1, <1>2, <1>3, <1>4

\* The bytes of the model are what its data frames carry.
LEMMA BytesCarried == \A s : Flo!Bytes(s) = Carried("data", s)
BY DEF Flo!Bytes, Carried, SumFunctionOnSet, FoldFunctionOnSet, MapThenFoldSet,
       Flo!SumFunctionOnSet, Flo!FoldFunctionOnSet, Flo!MapThenFoldSet

\* A channel without data carries none.
LEMMA CarriesNothing ==
  ASSUME NEW s \in Seq(Frame), ~ Has("data", s)
  PROVE  Carried("data", s) = 0
<1> DEFINE S == DOMAIN s
           f == [i \in S |-> IF s[i].t = "data" THEN s[i].n ELSE 0]
<1>1. Len(s) \in Nat /\ S = 1..Len(s)
  OBVIOUS
<1>2. IsFiniteSet(S)
  BY <1>1, FS_Interval
<1>3. \A i \in S : f[i] = 0
  BY DEF Has
<1>4. SumFunctionOnSet(f, S) = 0
  <2> HIDE DEF S, f
  <2> QED
    BY <1>2, <1>3, SumZero
<1> QED
  BY <1>4 DEF Carried

\* What is behind a frame that closes carries no data.
LEMMA NothingBehind ==
  ASSUME NEW t, NEW s \in Seq(Frame), s # <<>>, Head(s).t = t, Closes(t, s)
  PROVE  Carried("data", Tail(s)) = 0 /\ ~ Has("data", Tail(s))
<1>1. Tail(s) \in Seq(Frame) /\ Len(s) \in Nat \ {0}
  OBVIOUS
<1>2. ~ Has("data", Tail(s))
  BY <1>1 DEF Closes, Has
<1> QED
  BY <1>1, <1>2, CarriesNothing

\* Equal data frames carry their number times their size, and nothing else.
LEMMA FullFrames ==
  ASSUME NEW n \in Nat, NEW size \in Nat
  PROVE  LET u == [i \in 1..n |-> Flo!F("data", size)]
         IN  /\ u \in Seq(Frame) /\ Carried("data", u) = size * n /\ Carried("ack", u) = 0 /\ ~ Has("end", u)
<1> DEFINE u == [i \in 1..n |-> Flo!F("data", size)]
           f == [i \in DOMAIN u |-> IF u[i].t = "data" THEN u[i].n ELSE 0]
           g == [i \in DOMAIN u |-> IF u[i].t = "ack" THEN u[i].n ELSE 0]
           S == 1..n
<1>1. u \in Seq(Frame) /\ DOMAIN u = S /\ ~ Has("end", u)
  BY DEF Frame, Flo!F, Has
<1>2. (\A i \in 1..n : f[i] = size) /\ \A i \in S : g[i] = 0
  BY DEF Flo!F
<1>3. IsFiniteSet(S)
  BY FS_Interval
<1> HIDE DEF f, g, u
<1>4. SumFunctionOnSet(f, 1..n) = size * n
  BY <1>2, SumConstant
<1>5. SumFunctionOnSet(g, S) = 0
  <2> HIDE DEF S
  <2> QED
    BY <1>2, <1>3, SumZero
<1> QED
  BY <1>1, <1>4, <1>5 DEF Carried, f, g, u

\* What the loop of pump() takes: no more than is queued, nor than the window has room for.
LEMMA TakenFits ==
  ASSUME NEW d, d.queued \in Nat, d.inflight \in Nat
  PROVE  /\ Flo!Fulls(d) \in Nat /\ Flo!TailOf(d) \in Nat
         /\ FRAME * Flo!Fulls(d) \in Nat /\ FRAME * Flo!Fulls(d) + Flo!TailOf(d) <= d.queued
         /\ FRAME * Flo!Fulls(d) + Flo!TailOf(d) <= Flo!Room(d)
         /\ Flo!Room(d) \in Nat /\ (d.inflight <= WINDOW => d.inflight + Flo!Room(d) <= WINDOW)
<1>1. FRAME \in Nat \ {0} /\ WINDOW \in Nat
  BY FlowAssumption DEF Flo!RelayFlowAssumption
<1>2. Flo!Room(d) \in Nat /\ (d.inflight <= WINDOW => d.inflight + Flo!Room(d) <= WINDOW)
  BY <1>1 DEF Flo!Room
<1>3. ASSUME NEW x \in Nat PROVE x \div FRAME \in Nat /\ FRAME * (x \div FRAME) <= x
  BY <1>1
<1>4. ASSUME NEW x \in Nat, NEW y \in Nat, x <= y PROVE FRAME * x <= FRAME * y /\ FRAME * x \in Nat
  BY <1>1, <1>4
<1> DEFINE a == d.queued \div FRAME
           b == Flo!Room(d) \div FRAME
           c == Flo!Fulls(d)
<1>5. a \in Nat /\ b \in Nat /\ FRAME * a <= d.queued /\ FRAME * b <= Flo!Room(d)
  BY <1>2, <1>3
<1>6. c = IF a <= b THEN a ELSE b
  BY DEF Flo!Fulls, Flo!Least
<1> HIDE DEF a, b, c
<1>7. c \in Nat /\ c <= a /\ c <= b
  BY <1>5, <1>6
<1>8. FRAME * c \in Nat /\ FRAME * c <= FRAME * a /\ FRAME * c <= FRAME * b /\ FRAME * a \in Nat /\ FRAME * b \in Nat
  BY <1>4, <1>5, <1>7
<1> DEFINE z == FRAME * c
<1>9. z \in Nat /\ z <= d.queued /\ z <= Flo!Room(d)
  BY <1>2, <1>5, <1>8
<1>10. Flo!Rest(d) = d.queued - z
  BY DEF Flo!Rest, c
<1>11. Flo!TailOf(d) = IF (d.due \/ d.ended) /\ Flo!Rest(d) < FRAME /\ z + Flo!Rest(d) <= Flo!Room(d) THEN Flo!Rest(d) ELSE 0
  BY DEF Flo!TailOf, c
<1> HIDE DEF z
<1>12. Flo!TailOf(d) \in Nat /\ z + Flo!TailOf(d) <= d.queued /\ z + Flo!TailOf(d) <= Flo!Room(d)
  BY <1>1, <1>2, <1>9, <1>10, <1>11
<1> QED
  BY <1>2, <1>7, <1>9, <1>12 DEF z, c

\* pump(): c bytes go from the queue to the socket, and the stream closes only when its end went after the last.
Pumped(d, c) ==
  /\ c \in Nat /\ c <= d.queued /\ (d.inflight <= WINDOW => d.inflight + c <= WINDOW)
  /\ Channel(toHub') /\ Carried("data", toHub') = Carried("data", toHub) + c
  /\ Carried("ack", toHub') = Carried("ack", toHub)
  /\ DOMAIN node' = DOMAIN d /\ node'.queued = d.queued - c /\ node'.inflight = d.inflight + c
  /\ node'.open \in BOOLEAN /\ node'.ended = d.ended /\ node'.unacked = d.unacked /\ node'.writes = d.writes
  /\ Has("end", toHub') => ~ node'.open
  /\ ~ node'.open => d.ended /\ node'.queued = 0
  /\ Closes("end", toHub')

\* Every call of pump() sends some number of bytes that the window has room for.
LEMMA Pumps ==
  ASSUME NEW d, d.queued \in Nat, d.inflight \in Nat, Channel(toHub), ~ Has("end", toHub), Flo!Pump(d),
         DOMAIN d = {"open", "cap", "received", "unacked", "reqDone", "writes", "queued", "inflight", "timer", "due",
                     "paused", "ended"}
  PROVE  \E c : Pumped(d, c)
<1> USE DEF Channel
<1> DEFINE m == FRAME * Flo!Fulls(d)
           r == Flo!TailOf(d)
           fulls == [i \in 1..Flo!Fulls(d) |-> Flo!F("data", FRAME)]
           last == IF r > 0 THEN <<Flo!F("data", r)>> ELSE <<>>
           e == [d EXCEPT !.queued = @ - (m + r), !.inflight = @ + (m + r)]
           g == IF e.queued = 0 THEN [e EXCEPT !.due = FALSE, !.timer = FALSE] ELSE e
           over == g.ended /\ g.queued = 0
           end == IF over THEN <<Flo!F("end", 0)>> ELSE <<>>
<1>1. /\ toHub' = toHub \o (fulls \o last) \o end
      /\ node' = [g EXCEPT !.open = ~ over, !.paused = Flo!Resumed(g)]
  BY DEF Flo!Pump, Flo!Frames
<1>2. /\ m \in Nat /\ r \in Nat /\ m + r <= d.queued /\ m + r <= Flo!Room(d) /\ Flo!Room(d) \in Nat
      /\ (d.inflight <= WINDOW => d.inflight + Flo!Room(d) <= WINDOW) /\ Flo!Fulls(d) \in Nat
      /\ FRAME \in Nat /\ WINDOW \in Nat
  BY TakenFits, FlowAssumption DEF Flo!RelayFlowAssumption
<1>3. fulls \in Seq(Frame) /\ Carried("data", fulls) = m /\ Carried("ack", fulls) = 0 /\ ~ Has("end", fulls)
  BY <1>2, FullFrames
<1>4. last \in Seq(Frame) /\ Carried("data", last) = r /\ Carried("ack", last) = 0 /\ ~ Has("end", last)
  <2>1. CASE r > 0
    <3>1. Flo!F("data", r) \in Frame /\ Flo!F("data", r).t = "data" /\ Flo!F("data", r).n = r
      BY <1>2 DEF Frame, Flo!F
    <3>2. last = <<Flo!F("data", r)>>
      BY <2>1
    <3> HIDE DEF r, last
    <3>3. Carried("data", last) = r /\ Carried("ack", last) = 0
      BY <3>1, <3>2, CarriedOne DEF Size
    <3> QED
      BY <3>1, <3>2, <3>3 DEF Has
  <2>2. CASE ~ (r > 0)
    <3>1. r = 0 /\ last = <<>>
      BY <1>2, <2>2
    <3> HIDE DEF r, last
    <3> QED
      BY <3>1, CarriedEmpty DEF Has
  <2> QED
    BY <2>1, <2>2
<1>5. /\ end \in Seq(Frame) /\ Carried("data", end) = 0 /\ Carried("ack", end) = 0
      /\ (Has("end", end) => over) /\ ~ Has("data", end)
  <2>1. CASE over
    <3>1. Flo!F("end", 0) \in Frame /\ Flo!F("end", 0).t = "end" /\ end = <<Flo!F("end", 0)>>
      BY <2>1 DEF Frame, Flo!F
    <3> HIDE DEF end, over
    <3> QED
      BY <2>1, <3>1, CarriedOne DEF Size, Has
  <2>2. CASE ~ over
    <3>1. end = <<>>
      BY <2>2
    <3> HIDE DEF end, over
    <3> QED
      BY <3>1, CarriedEmpty DEF Has
  <2> QED
    BY <2>1, <2>2
<1>6. /\ e.queued = d.queued - (m + r) /\ e.inflight = d.inflight + (m + r) /\ DOMAIN e = DOMAIN d
      /\ e.ended = d.ended /\ e.unacked = d.unacked /\ e.writes = d.writes
  OBVIOUS
<1>7. /\ g.queued = e.queued /\ g.inflight = e.inflight /\ DOMAIN g = DOMAIN e
      /\ g.ended = e.ended /\ g.unacked = e.unacked /\ g.writes = e.writes
  <2> HIDE DEF e
  <2> QED
    BY <1>6
<1>8. /\ node'.queued = g.queued /\ node'.inflight = g.inflight /\ DOMAIN node' = DOMAIN g /\ node'.open = ~ over
      /\ node'.ended = g.ended /\ node'.unacked = g.unacked /\ node'.writes = g.writes
  <2> HIDE DEF g, over
  <2> QED
    BY <1>1, <1>6, <1>7
<1> HIDE DEF m, r, fulls, last, e, g, end
<1>9. \A s1, s2 \in Seq(Frame) : s1 \o s2 \in Seq(Frame)
  OBVIOUS
<1>10. /\ toHub' \in Seq(Frame) /\ Carried("data", toHub') = Carried("data", toHub) + (m + r)
       /\ Carried("ack", toHub') = Carried("ack", toHub)
  <2> DEFINE body == fulls \o last
             both == toHub \o body
  <2>1. body \in Seq(Frame) /\ Carried("data", body) = m + r /\ Carried("ack", body) = 0
    BY <1>3, <1>4, <1>9, CarriedConcat
  <2> HIDE DEF body
  <2>2. both \in Seq(Frame) /\ Carried("data", both) = Carried("data", toHub) + (m + r)
        /\ Carried("ack", both) = Carried("ack", toHub) + 0
    BY <2>1, <1>9, CarriedConcat
  <2>3. Carried("data", toHub) \in Nat /\ Carried("ack", toHub) \in Nat
    BY CarriedNat
  <2> HIDE DEF both
  <2>4. toHub' = both \o end
    BY <1>1 DEF both, body
  <2> QED
    BY <1>2, <1>5, <2>2, <2>3, <2>4, <1>9, CarriedConcat
<1>11. Has("end", toHub') => over
  <2> SUFFICES ASSUME NEW i \in DOMAIN toHub', toHub'[i].t = "end" PROVE over
    BY DEF Has
  <2>1. \/ i \in DOMAIN toHub /\ toHub'[i] = toHub[i]
        \/ \E j \in DOMAIN fulls : toHub'[i] = fulls[j]
        \/ \E j \in DOMAIN last : toHub'[i] = last[j]
        \/ \E j \in DOMAIN end : toHub'[i] = end[j]
    BY <1>1, <1>3, <1>4, <1>5
  <2> QED
    BY <1>3, <1>4, <1>5, <2>1 DEF Has
<1>12. Closes("end", toHub')
  <2> SUFFICES ASSUME NEW i \in DOMAIN toHub', NEW j \in DOMAIN toHub', i < j, toHub'[i].t = "end"
               PROVE  toHub'[j].t # "data"
    BY DEF Closes
  <2> DEFINE both == toHub \o (fulls \o last)
  <2>1. both \in Seq(Frame) /\ toHub' = both \o end
    BY <1>1, <1>3, <1>4
  <2>2. \A l \in DOMAIN both : both[l].t # "end"
    <3> SUFFICES ASSUME NEW l \in DOMAIN both, both[l].t = "end" PROVE FALSE
      OBVIOUS
    <3>1. \/ l \in DOMAIN toHub /\ both[l] = toHub[l]
          \/ \E c \in DOMAIN fulls : both[l] = fulls[c]
          \/ \E c \in DOMAIN last : both[l] = last[c]
      BY <1>3, <1>4
    <3> QED
      BY <1>3, <1>4, <3>1 DEF Has
  <2> HIDE DEF both
  <2>3. i > Len(both)
    BY <1>5, <2>1, <2>2
  <2>4. j - Len(both) \in DOMAIN end /\ toHub'[j] = end[j - Len(both)]
    <3>1. Len(both) \in Nat /\ Len(end) \in Nat /\ Len(toHub') = Len(both) + Len(end) /\ DOMAIN toHub' = 1..Len(toHub')
          /\ DOMAIN end = 1..Len(end) /\ toHub' \in Seq(Frame) /\ DOMAIN both = 1..Len(both)
      BY <1>5, <2>1
    <3>2. i \in Nat /\ j \in Nat /\ j > Len(both) /\ j <= Len(both) + Len(end)
      BY <2>3, <3>1
    <3>3. toHub'[j] = end[j - Len(both)]
      BY <1>5, <2>1, <3>1, <3>2
    <3> QED
      BY <3>1, <3>2, <3>3
  <2> QED
    BY <1>5, <2>4 DEF Has
<1>13. m + r \in Nat /\ (d.inflight <= WINDOW => d.inflight + (m + r) <= WINDOW)
  BY <1>2
<1>14. ~ node'.open => d.ended /\ node'.queued = 0
  BY <1>6, <1>7, <1>8 DEF over
<1>15. node'.open \in BOOLEAN
  BY <1>8 DEF over
<1>16. Pumped(d, m + r)
  BY <1>2, <1>6, <1>7, <1>8, <1>10, <1>11, <1>12, <1>13, <1>14, <1>15 DEF Pumped, Channel
<1> QED
  BY <1>16

\* A frame is sent: what that does to a channel.
LEMMA Sent ==
  ASSUME NEW s, Channel(s), NEW e \in Frame
  PROVE  /\ Channel(Append(s, e))
         /\ \A t : /\ Carried(t, Append(s, e)) = Carried(t, s) + Size(t, e) /\ Carried(t, s) \in Nat /\ Size(t, e) \in Nat
                   /\ Has(t, Append(s, e)) <=> Has(t, s) \/ e.t = t
                   /\ Closes(t, s) /\ (e.t = "data" => ~ Has(t, s)) => Closes(t, Append(s, e))
<1> USE DEF Channel
<1>1. /\ Len(s) \in Nat /\ DOMAIN s = 1..Len(s) /\ DOMAIN Append(s, e) = 1..(Len(s) + 1)
      /\ Append(s, e)[Len(s) + 1] = e /\ \A i \in 1..Len(s) : Append(s, e)[i] = s[i]
  OBVIOUS
<1> SUFFICES ASSUME NEW t
             PROVE  /\ Has(t, Append(s, e)) <=> Has(t, s) \/ e.t = t
                    /\ Closes(t, s) /\ (e.t = "data" => ~ Has(t, s)) => Closes(t, Append(s, e))
  BY CarriedAppend
<1>2. Has(t, Append(s, e)) <=> Has(t, s) \/ e.t = t
  BY <1>1 DEF Has
<1>3. ASSUME Closes(t, s), e.t = "data" => ~ Has(t, s) PROVE Closes(t, Append(s, e))
  BY <1>1, <1>3 DEF Has, Closes
<1> QED
  BY <1>2, <1>3

\* A frame arrives: what that does to a channel.
LEMMA Taken ==
  ASSUME NEW s, Channel(s), s # <<>>
  PROVE  /\ Head(s) \in Frame /\ Channel(Tail(s))
         /\ \A t : /\ Carried(t, s) = Size(t, Head(s)) + Carried(t, Tail(s))
                   /\ Carried(t, Tail(s)) \in Nat /\ Size(t, Head(s)) \in Nat
                   /\ Head(s).t = t \/ Has(t, Tail(s)) => Has(t, s)
                   /\ Closes(t, s) => Closes(t, Tail(s))
                   /\ Closes(t, s) /\ Head(s).t = t => Carried("data", Tail(s)) = 0 /\ ~ Has("data", Tail(s))
<1> USE DEF Channel
<1>1. /\ Len(s) \in Nat \ {0} /\ DOMAIN s = 1..Len(s) /\ DOMAIN Tail(s) = 1..(Len(s) - 1) /\ Head(s) = s[1]
      /\ \A i \in 1..(Len(s) - 1) : Tail(s)[i] = s[i + 1]
  OBVIOUS
<1> SUFFICES ASSUME NEW t
             PROVE  /\ Head(s).t = t \/ Has(t, Tail(s)) => Has(t, s)
                    /\ Closes(t, s) => Closes(t, Tail(s))
  BY CarriedTail, NothingBehind
<1>2. Head(s).t = t => Has(t, s)
  BY <1>1 DEF Has
<1>3. Has(t, Tail(s)) => Has(t, s)
  <2> SUFFICES ASSUME NEW i \in DOMAIN Tail(s), Tail(s)[i].t = t PROVE Has(t, s)
    BY DEF Has
  <2>1. i + 1 \in DOMAIN s /\ s[i + 1].t = t
    BY <1>1
  <2> QED
    BY <2>1 DEF Has
<1>4. Closes(t, s) => Closes(t, Tail(s))
  <2> SUFFICES ASSUME Closes(t, s), NEW i \in DOMAIN Tail(s), NEW j \in DOMAIN Tail(s), i < j, Tail(s)[i].t = t
               PROVE  Tail(s)[j].t # "data"
    BY DEF Closes
  <2>1. i + 1 \in DOMAIN s /\ j + 1 \in DOMAIN s /\ i + 1 < j + 1 /\ s[i + 1] = Tail(s)[i] /\ s[j + 1] = Tail(s)[j]
    BY <1>1
  <2> QED
    BY <2>1 DEF Closes
<1> QED
  BY <1>2, <1>3, <1>4

-----------------------------------------------------------------------------

\* The bytes on the way to the app, and to the caller.
Up == Carried("data", toNode) + Carried("data", node.writes)
Down == Carried("data", toHub) + Carried("data", chain)

FlowTypes ==
  /\ DOMAIN hub = {"open", "cap", "head", "unacked", "part", "read", "ended"}
  /\ DOMAIN node = {"open", "cap", "received", "unacked", "reqDone", "writes", "queued", "inflight", "timer", "due",
                    "paused", "ended"}
  /\ DOMAIN app = {"got", "sent", "head", "whole"} /\ DOMAIN caller = {"got", "end"}
  /\ hub.open \in BOOLEAN /\ hub.ended \in BOOLEAN /\ hub.unacked \in Nat /\ hub.part \in 0..FRAME /\ hub.read \in 0..Upload
  /\ Channel(chain) /\ Channel(toNode) /\ Channel(toHub) /\ Channel(node.writes)
  /\ \A i \in DOMAIN node.writes : node.writes[i].t \in {"data", "end"}
  /\ node.open \in BOOLEAN /\ node.ended \in BOOLEAN /\ node.unacked \in Nat /\ node.queued \in Nat /\ node.inflight \in Nat
  /\ app.got \in Nat /\ app.sent \in 0..Download /\ app.whole \in BOOLEAN
  /\ caller.got \in Nat /\ caller.end \in {"open", "error", "cut", "whole"}

\* Each sender counts as unacknowledged all that is on the way, the acknowledgements included.
Windows ==
  /\ hub.open => Up + node.unacked + Carried("ack", toHub) <= hub.unacked
  /\ hub.unacked <= WINDOW /\ Up <= WINDOW
  /\ node.open => Down + Carried("ack", toNode) <= node.inflight
  /\ node.inflight <= WINDOW /\ node.queued + node.inflight <= app.sent

\* The request: what was read from the caller is with the app or on its way there, and nothing follows its end.
UpWhole ==
  /\ app.got + Up + hub.part <= hub.read
  /\ node.open /\ (hub.open \/ hub.ended) => app.got + Up + hub.part = hub.read
  /\ hub.ended => hub.read = Upload /\ hub.part = 0
  /\ Has("end", toNode) \/ Has("end", node.writes) => hub.ended
  /\ Closes("end", toNode) /\ Closes("end", node.writes) /\ (Has("end", node.writes) => ~ Has("data", toNode))
  /\ app.whole => app.got = Upload

\* The response: what the app sent is with the caller or on its way there, and nothing follows its end.
DownWhole ==
  /\ node.ended => app.sent = Download
  /\ hub.open /\ node.open => caller.got + Down + node.queued = app.sent
  /\ Has("end", toHub) => ~ node.open /\ (hub.open => caller.got + Down = Download)
  /\ Closes("end", toHub) /\ Closes("close", chain)
  /\ Has("close", chain) => ~ hub.open /\ caller.got + Carried("data", chain) = Download
  /\ caller.end = "whole" => caller.got = Download

FlowInv == FlowTypes /\ Windows /\ UpWhole /\ DownWhole

\* The bounds on the constants.
LEMMA Sizes == FRAME \in Nat \ {0} /\ WINDOW \in Nat /\ Upload \in Nat /\ Download \in Nat
BY FlowAssumption DEF Flo!RelayFlowAssumption

\* What the channels carry are naturals.
LEMMA Amounts ==
  ASSUME FlowInv
  PROVE  \A t : /\ Carried(t, toNode) \in Nat /\ Carried(t, toHub) \in Nat
                /\ Carried(t, chain) \in Nat /\ Carried(t, node.writes) \in Nat
BY CarriedNat DEF FlowInv, FlowTypes, Channel

\* The request was accepted: nothing is on the way.
LEMMA FlowStarts == Flo!Init => FlowInv
<1> SUFFICES ASSUME Flo!Init PROVE FlowInv
  OBVIOUS
<1>1. /\ chain = <<>> /\ toNode = <<>> /\ toHub = <<>> /\ node.writes = <<>> /\ Channel(<<>>)
      /\ \A t : Carried(t, <<>>) = 0 /\ ~ Has(t, <<>>) /\ Closes(t, <<>>)
  BY CarriedEmpty DEF Flo!Init, Has, Closes, Channel
<1>2. FlowTypes
  BY <1>1, Sizes DEF FlowTypes, Flo!Init
<1>3. Windows /\ UpWhole /\ DownWhole
  BY <1>1, Sizes DEF Windows, UpWhole, DownWhole, Up, Down, Flo!Init
<1> QED
  BY <1>2, <1>3 DEF FlowInv

\* The hub forgets the stream with an error: what was on its way to the app stays there, and the node may be told.
LEMMA HubFailing ==
  ASSUME FlowInv, hub.open, Flo!HubFails, UNCHANGED <<node, app>>,
         toNode' = toNode \/ toNode' = Append(toNode, Flo!F("cancel", 0)),
         toHub' = toHub \/ (toHub # <<>> /\ toHub' = Tail(toHub))
  PROVE  FlowInv'
<1> DEFINE f == Flo!F("cancel", 0)
           a == Flo!F("abort", 0)
<1>1. f \in Frame /\ f.t = "cancel" /\ f.n = 0 /\ a \in Frame /\ a.t = "abort" /\ a.n = 0
  BY DEF Flo!F, Frame
<1>2. Channel(chain) /\ Channel(toNode) /\ Channel(toHub) /\ Channel(node.writes)
  BY DEF FlowInv, FlowTypes
<1>3. /\ Channel(toNode') /\ Carried("data", toNode') = Carried("data", toNode)
      /\ Carried("ack", toNode') = Carried("ack", toNode)
      /\ Has("end", toNode') <=> Has("end", toNode)
      /\ Has("data", toNode') <=> Has("data", toNode)
      /\ Closes("end", toNode) => Closes("end", toNode')
  <2> HIDE DEF f
  <2>1. CASE toNode' = Append(toNode, f)
    <3>1. Size("data", f) = 0 /\ Size("ack", f) = 0
      BY <1>1 DEF Size
    <3>2. /\ Carried("data", toNode') = Carried("data", toNode) + 0 /\ Carried("data", toNode) \in Nat
          /\ Carried("ack", toNode') = Carried("ack", toNode) + 0 /\ Carried("ack", toNode) \in Nat
      BY <1>1, <1>2, <2>1, <3>1, Sent
    <3>3. Carried("data", toNode') = Carried("data", toNode) /\ Carried("ack", toNode') = Carried("ack", toNode)
      BY <3>2
    <3>4. /\ Channel(toNode') /\ (Has("end", toNode') <=> Has("end", toNode))
          /\ (Has("data", toNode') <=> Has("data", toNode))
          /\ (Closes("end", toNode) => Closes("end", toNode'))
      BY <1>1, <1>2, <2>1, Sent
    <3> QED
      BY <3>3, <3>4
  <2> QED
    BY <1>2, <2>1 DEF f
<1>4. /\ Channel(chain') /\ Carried("data", chain') = Carried("data", chain)
      /\ Has("close", chain') <=> Has("close", chain)
      /\ Closes("close", chain) => Closes("close", chain')
  <2> HIDE DEF a
  <2>1. CASE chain' = Append(chain, a)
    BY <1>1, <1>2, <2>1, Sent DEF Size
  <2>2. CASE chain' = chain
    BY <1>2, <2>2
  <2> QED
    BY <2>1, <2>2 DEF Flo!HubFails, a
<1>5. /\ Channel(toHub') /\ Carried("data", toHub') <= Carried("data", toHub)
      /\ Carried("data", toHub') \in Nat /\ Closes("end", toHub')
      /\ Has("end", toHub') => Has("end", toHub)
  <2>1. CASE toHub' = toHub
    BY <1>2, <2>1, CarriedNat DEF FlowInv, DownWhole, Channel
  <2>2. CASE toHub # <<>> /\ toHub' = Tail(toHub)
    BY <1>2, <2>2, Taken DEF FlowInv, DownWhole
  <2> QED
    BY <2>1, <2>2
<1>6. /\ hub'.open = FALSE /\ hub'.part = 0 /\ hub'.unacked = hub.unacked /\ hub'.read = hub.read /\ hub'.ended = hub.ended
      /\ DOMAIN hub' = DOMAIN hub /\ DOMAIN caller' = DOMAIN caller /\ caller'.got = caller.got
      /\ caller'.end \in {caller.end, "error"}
  BY DEF Flo!HubFails, FlowInv, FlowTypes
<1> HIDE DEF f, a
<1>11. node' = node /\ app' = app
  OBVIOUS
<1>7. FlowTypes'
  <2>1. hub'.part \in 0..FRAME
    BY <1>6, Sizes
  <2>2. caller'.end \in {"open", "error", "cut", "whole"} /\ caller'.got \in Nat
    BY <1>6 DEF FlowInv, FlowTypes
  <2> QED
    BY <1>3, <1>4, <1>5, <1>6, <1>11, <2>1, <2>2 DEF FlowInv, FlowTypes
<1>12. /\ Carried("data", toNode) \in Nat /\ Carried("data", node.writes) \in Nat /\ Carried("ack", toNode) \in Nat
       /\ Carried("data", toHub) \in Nat /\ Carried("data", chain) \in Nat
  BY Amounts
<1>13. Up' = Up /\ Up \in Nat
  BY <1>3, <1>11, <1>12 DEF Up
<1>14. Down' <= Down /\ Down \in Nat /\ Down' \in Nat
  BY <1>4, <1>5, <1>12 DEF Down
<1>8. Windows'
  <2>1. node.open => Down' + Carried("ack", toNode') <= node.inflight
    <3>1. node.open => Down + Carried("ack", toNode) <= node.inflight
      BY DEF FlowInv, Windows
    <3>2. node.inflight \in Nat
      BY DEF FlowInv, FlowTypes
    <3> QED
      BY <1>3, <1>12, <1>14, <3>1, <3>2
  <2>2. hub.unacked <= WINDOW /\ Up <= WINDOW /\ node.inflight <= WINDOW /\ node.queued + node.inflight <= app.sent
    BY DEF FlowInv, Windows
  <2> QED
    BY <1>6, <1>11, <1>13, <2>1, <2>2 DEF Windows
<1>9. UpWhole'
  BY <1>3, <1>6, <1>11, <1>13 DEF FlowInv, FlowTypes, UpWhole
<1>10. DownWhole'
  BY <1>4, <1>5, <1>6, <1>11 DEF FlowInv, FlowTypes, DownWhole
<1> QED
  BY <1>7, <1>8, <1>9, <1>10 DEF FlowInv

\* What is counted.
Counted ==
  /\ hub.part \in Nat /\ hub.read \in Nat /\ hub.unacked \in Nat /\ hub.part <= FRAME /\ hub.read <= Upload
  /\ node.unacked \in Nat /\ node.queued \in Nat /\ node.inflight \in Nat
  /\ app.got \in Nat /\ app.sent \in Nat /\ app.sent <= Download /\ caller.got \in Nat
  /\ Carried("data", toNode) \in Nat /\ Carried("data", node.writes) \in Nat /\ Carried("ack", toNode) \in Nat
  /\ Carried("data", toHub) \in Nat /\ Carried("data", chain) \in Nat /\ Carried("ack", toHub) \in Nat
  /\ FRAME \in Nat /\ WINDOW \in Nat /\ Upload \in Nat /\ Download \in Nat

\* Everything that is counted is a natural.
LEMMA Numbers ==
  ASSUME FlowInv
  PROVE  Counted /\ Up \in Nat /\ Down \in Nat
<1>1. hub.part \in Nat /\ hub.read \in Nat /\ hub.part <= FRAME /\ hub.read <= Upload
  BY Sizes DEF FlowInv, FlowTypes
<1>2. app.sent \in Nat /\ app.sent <= Download
  BY Sizes DEF FlowInv, FlowTypes
<1>3. Counted
  BY <1>1, <1>2, Sizes, Amounts DEF FlowInv, FlowTypes, Counted
<1> QED
  BY <1>3 DEF Counted, Up, Down

\* The channels are channels.
LEMMA Channels ==
  ASSUME FlowInv
  PROVE  Channel(chain) /\ Channel(toNode) /\ Channel(toHub) /\ Channel(node.writes)
BY DEF FlowInv, FlowTypes

\* pump() of the hub: the next part is read, and sent, and the end after the last.
LEMMA HubReads == ASSUME FlowInv, NEW n \in 1..Upload, Flo!ReadPart(n) PROVE FlowInv'
<1>0. Counted /\ Up \in Nat /\ Down \in Nat
  BY Numbers
<1>1. CASE hub.read + n > hub.cap /\ Flo!HubFails /\ toNode' = Append(toNode, Flo!F("cancel", 0))
  BY <1>1, HubFailing DEF Flo!ReadPart
<1>2. CASE hub' = [hub EXCEPT !.part = n, !.read = @ + n] /\ UNCHANGED <<chain, toNode, caller>>
  <2>1. UNCHANGED <<chain, toNode, caller, toHub, node, app>> /\ hub.open /\ hub.part = 0
    BY <1>2 DEF Flo!ReadPart
  <2>2. n \in Nat /\ n >= 1 /\ n <= FRAME /\ n <= Upload - hub.read
    <3>1. n \in Flo!PartSizes
      BY DEF Flo!ReadPart
    <3> QED
      BY <1>0, <3>1 DEF Flo!PartSizes, Flo!Least, Counted
  <2>3. /\ hub'.part = n /\ hub'.read = hub.read + n /\ hub'.open = hub.open /\ hub'.ended = hub.ended
        /\ hub'.unacked = hub.unacked /\ DOMAIN hub' = DOMAIN hub
    BY <1>2 DEF FlowInv, FlowTypes
  <2>4. ~ hub.ended
    BY <1>0, <2>2 DEF FlowInv, UpWhole, Counted
  <2>5. Up' = Up /\ Down' = Down /\ Up \in Nat
    BY <1>0, <2>1 DEF Up, Down, Counted
  <2>6. hub'.part \in 0..FRAME /\ hub'.read \in 0..Upload
    BY <1>0, <2>2, <2>3 DEF Counted
  <2>7. FlowTypes'
    BY <2>1, <2>3, <2>6 DEF FlowInv, FlowTypes
  <2>8. Windows' /\ DownWhole'
    BY <2>1, <2>3, <2>5 DEF FlowInv, Windows, DownWhole
  <2>9. UpWhole'
    BY <1>0, <2>1, <2>2, <2>3, <2>4, <2>5 DEF FlowInv, UpWhole, Counted
  <2> QED
    BY <2>7, <2>8, <2>9 DEF FlowInv
<1> QED
  BY <1>1, <1>2 DEF Flo!ReadPart

\* pump() of the hub: a part goes out while the window allows, and the end after the last one.
LEMMA HubSends == ASSUME FlowInv, Flo!SendPart \/ Flo!SendEnd PROVE FlowInv'
<1>0. Counted /\ Up \in Nat /\ Down \in Nat
  BY Numbers
<1> DEFINE e == IF Flo!SendPart THEN Flo!F("data", hub.part) ELSE Flo!F("end", 0)
           size == IF Flo!SendPart THEN hub.part ELSE 0
<1>1. UNCHANGED <<chain, toHub, node, app, caller>> /\ hub.open
  BY DEF Flo!SendPart, Flo!SendEnd
<1>2. ~ hub.ended
  <2>1. CASE Flo!SendPart
    <3>1. hub.part > 0
      BY <2>1 DEF Flo!SendPart
    <3> QED
      BY <1>0, <3>1 DEF FlowInv, UpWhole, Counted
  <2> QED
    BY <2>1 DEF Flo!SendEnd
<1>3. toNode' = Append(toNode, e)
  BY DEF Flo!SendPart, Flo!SendEnd
<1>4. e \in Frame /\ Size("data", e) = size /\ Size("ack", e) = 0 /\ e.t = IF Flo!SendPart THEN "data" ELSE "end"
  BY <1>0 DEF Flo!F, Frame, Size, Counted
<1> HIDE DEF e
<1>5. /\ Channel(toNode') /\ Carried("data", toNode') = Carried("data", toNode) + size
      /\ Carried("ack", toNode') = Carried("ack", toNode)
      /\ Has("end", toNode') <=> Has("end", toNode) \/ ~ Flo!SendPart
      /\ Has("data", toNode') <=> Has("data", toNode) \/ Flo!SendPart
      /\ Closes("end", toNode) /\ ~ Has("end", toNode) => Closes("end", toNode')
  <2> HIDE DEF size
  <2>1. Carried("ack", toNode') = Carried("ack", toNode) + Size("ack", e)
    BY <1>3, <1>4, Channels, Sent
  <2>2. Carried("ack", toNode') = Carried("ack", toNode)
    BY <1>0, <1>4, <2>1 DEF Counted
  <2> QED
    BY <1>3, <1>4, <2>2, Channels, Sent
<1>6. ~ Has("end", toNode) /\ ~ Has("end", node.writes)
  BY <1>2 DEF FlowInv, UpWhole
<1>7. Down' = Down /\ Up' = Up + size
  BY <1>0, <1>1, <1>5 DEF Up, Down, Counted
<1>8. /\ hub'.read = hub.read /\ hub'.open = hub.open /\ DOMAIN hub' = DOMAIN hub
      /\ hub'.unacked = hub.unacked + size /\ hub'.part = hub.part - size /\ (hub.open => hub.unacked + size <= WINDOW)
      /\ hub'.ended = ~ Flo!SendPart
  <2>1. CASE Flo!SendPart
    <3>1. hub' = [hub EXCEPT !.unacked = @ + hub.part, !.part = 0] /\ Flo!Fits(hub.part)
      BY <2>1 DEF Flo!SendPart
    <3>2. DOMAIN hub = {"open", "cap", "head", "unacked", "part", "read", "ended"} /\ hub.ended \in BOOLEAN
      BY DEF FlowInv, FlowTypes
    <3> QED
      BY <1>0, <1>2, <2>1, <3>1, <3>2 DEF Flo!Fits, Counted
  <2>2. CASE ~ Flo!SendPart
    <3>1. hub' = [hub EXCEPT !.ended = TRUE]
      BY <2>2 DEF Flo!SendEnd
    <3>2. DOMAIN hub = {"open", "cap", "head", "unacked", "part", "read", "ended"} /\ hub.unacked <= WINDOW
          /\ hub.ended \in BOOLEAN
      BY DEF FlowInv, FlowTypes, Windows
    <3>3. size = 0 /\ hub.unacked + 0 = hub.unacked /\ hub.part - 0 = hub.part
      BY <1>0, <2>2 DEF Counted
    <3> QED
      BY <2>2, <3>1, <3>2, <3>3
  <2> QED
    BY <2>1, <2>2
<1>9. ~ Flo!SendPart => hub.read = Upload /\ hub.part = 0
  BY DEF Flo!SendEnd, Flo!BodySent
<1>10. size \in Nat /\ size <= hub.part
  BY <1>0 DEF Counted
<1> HIDE DEF size
<1>11. hub'.part \in 0..FRAME /\ hub'.unacked \in Nat /\ hub'.read \in 0..Upload
  BY <1>0, <1>8, <1>10 DEF Counted
<1>12. FlowTypes'
  BY <1>1, <1>5, <1>8, <1>11 DEF FlowInv, FlowTypes
<1>13. Windows'
  BY <1>0, <1>1, <1>5, <1>7, <1>8, <1>10 DEF FlowInv, Windows, Counted
<1>14. UpWhole'
  <2>1. app.got + Up' + hub'.part = app.got + Up + hub.part
    BY <1>0, <1>7, <1>8, <1>10 DEF Counted
  <2>2. node' = node /\ app' = app /\ hub'.ended \in {TRUE, FALSE} /\ hub.open
    BY <1>1, <1>8
  <2>3. app.got + Up + hub.part <= hub.read /\ (node.open => app.got + Up + hub.part = hub.read)
    BY <2>2 DEF FlowInv, UpWhole
  <2>4. hub'.ended => hub'.read = Upload /\ hub'.part = 0
    <3>1. hub.part = 0 => hub.part - size = 0
      BY <1>0, <1>10 DEF Counted
    <3> QED
      BY <1>8, <1>9, <3>1
  <2>5. Closes("end", toNode) /\ Closes("end", node.writes) /\ (app.whole => app.got = Upload)
    BY DEF FlowInv, UpWhole
  <2> QED
    BY <1>5, <1>6, <1>8, <2>1, <2>2, <2>3, <2>4, <2>5 DEF UpWhole
<1>15. DownWhole'
  BY <1>1, <1>7, <1>8 DEF FlowInv, DownWhole
<1> QED
  BY <1>12, <1>13, <1>14, <1>15 DEF FlowInv

\* onMessage() of the hub: response data goes to the caller's chain, the end closes it.
LEMMA HubHears == ASSUME FlowInv, Flo!HubReceives PROVE FlowInv'
<1>0. Counted /\ Up \in Nat /\ Down \in Nat
  BY Numbers
<1> DEFINE f == Head(toHub)
<1>1. UNCHANGED <<toNode, node, app>>
  BY DEF Flo!HubReceives
<1>10. toHub # <<>> /\ toHub' = Tail(toHub)
  BY DEF Flo!HubReceives
<1>2. /\ f \in Frame /\ Channel(toHub')
      /\ Carried("data", toHub) = Size("data", f) + Carried("data", toHub')
      /\ Carried("ack", toHub) = Size("ack", f) + Carried("ack", toHub')
      /\ Carried("data", toHub') \in Nat /\ Carried("ack", toHub') \in Nat
      /\ Size("data", f) \in Nat /\ Size("ack", f) \in Nat
      /\ Has("end", toHub') => Has("end", toHub)
      /\ f.t = "end" => Has("end", toHub) /\ Carried("data", toHub') = 0
      /\ Closes("end", toHub')
  BY <1>10, Channels, Taken DEF FlowInv, DownWhole
<1>3. f.n \in Nat /\ Size("data", f) = (IF f.t = "data" THEN f.n ELSE 0) /\ Size("ack", f) = (IF f.t = "ack" THEN f.n ELSE 0)
  BY <1>2 DEF Frame, Size
<1> HIDE DEF f
<1>4. Up' = Up /\ Up \in Nat
  BY <1>0, <1>1 DEF Up, Counted
<1>5. CASE hub.open /\ f.t = "err"
  BY <1>1, <1>10, <1>5, HubFailing DEF Flo!HubReceives, f
<1>6. CASE \/ ~ hub.open /\ UNCHANGED <<hub, chain, caller>>
           \/ hub.open /\ f.t = "res" /\ hub' = [hub EXCEPT !.head = TRUE] /\ UNCHANGED <<chain, caller>>
  <2>1. /\ hub'.part = hub.part /\ hub'.read = hub.read /\ hub'.open = hub.open /\ hub'.ended = hub.ended
        /\ hub'.unacked = hub.unacked /\ DOMAIN hub' = DOMAIN hub /\ UNCHANGED <<chain, caller>>
    BY <1>6 DEF FlowInv, FlowTypes
  <2>2. Down' = Down - Size("data", f) /\ Down' \in Nat
    BY <1>0, <1>2, <2>1 DEF Down, Counted
  <2>3. hub.open => Size("data", f) = 0
    BY <1>3, <1>6
  <2>4. FlowTypes'
    BY <1>1, <1>2, <2>1 DEF FlowInv, FlowTypes
  <2>5. Windows'
    BY <1>0, <1>1, <1>2, <1>4, <2>1, <2>2 DEF FlowInv, Windows, Counted
  <2>6. UpWhole' 
    BY <1>1, <1>4, <2>1 DEF FlowInv, UpWhole
  <2>7. DownWhole'
    BY <1>0, <1>1, <1>2, <2>1, <2>2, <2>3 DEF FlowInv, DownWhole, Down, Counted
  <2> QED
    BY <2>4, <2>5, <2>6, <2>7 DEF FlowInv
<1>7. CASE hub.open /\ f.t = "data" /\ chain' = Append(chain, f) /\ UNCHANGED <<hub, caller>>
  <2>0. hub.open /\ f.t = "data" /\ UNCHANGED <<hub, caller>>
    BY <1>7
  <2>1. /\ Channel(chain') /\ Carried("data", chain') = Carried("data", chain) + Size("data", f)
        /\ Has("close", chain') <=> Has("close", chain)
        /\ Closes("close", chain) /\ ~ Has("close", chain) => Closes("close", chain')
    BY <1>2, <1>7, Channels, Sent
  <2>2. ~ Has("close", chain)
    BY <2>0 DEF FlowInv, DownWhole
  <2>3. Down' = Down /\ Down \in Nat
    BY <1>0, <1>2, <2>1 DEF Down, Counted
  <2>4. FlowTypes'
    BY <1>1, <1>2, <2>0, <2>1 DEF FlowInv, FlowTypes
  <2>5. Windows'
    BY <1>0, <1>1, <1>2, <1>4, <2>0, <2>3 DEF FlowInv, Windows, Counted
  <2>6. UpWhole'
    BY <1>1, <1>4, <2>0 DEF FlowInv, UpWhole
  <2>7. DownWhole'
    BY <1>0, <1>1, <1>2, <2>0, <2>1, <2>2, <2>3 DEF FlowInv, DownWhole, Counted
  <2> QED
    BY <2>4, <2>5, <2>6, <2>7 DEF FlowInv
<1>8. CASE hub.open /\ f.t = "end" /\ Flo!HubEnds
  <2> DEFINE c == Flo!F("close", 0)
  <2>11. hub.open /\ f.t = "end"
    BY <1>8
  <2>0. c \in Frame /\ c.t = "close" /\ Size("data", c) = 0
    BY DEF Flo!F, Frame, Size
  <2>10. chain' = Append(chain, c)
    BY <1>8 DEF Flo!HubEnds
  <2>1. /\ UNCHANGED caller /\ hub'.part = 0 /\ hub'.read = hub.read /\ hub'.open = FALSE /\ hub'.ended = hub.ended
        /\ hub'.unacked = hub.unacked /\ DOMAIN hub' = DOMAIN hub
    BY <1>8 DEF Flo!HubEnds, FlowInv, FlowTypes
  <2> HIDE DEF c
  <2>2. Channel(chain') /\ Carried("data", chain') = Carried("data", chain) + 0
        /\ (Closes("close", chain) => Closes("close", chain'))
    <3>1. Carried("data", chain') = Carried("data", chain) + Size("data", c)
      BY <2>0, <2>10, Channels, Sent
    <3> QED
      BY <2>0, <2>10, <3>1, Channels, Sent
  <2>3. Down' = Carried("data", chain) /\ Down = Carried("data", chain) /\ Has("end", toHub)
    <3>1. Carried("data", toHub') = 0 /\ Size("data", f) = 0 /\ Has("end", toHub)
      BY <1>2, <1>3, <2>11
    <3>2. Carried("data", toHub) = 0
      BY <1>2, <3>1
    <3> QED
      BY <1>0, <2>2, <3>1, <3>2 DEF Down, Counted
  <2>4. caller.got + Carried("data", chain) = Download /\ ~ node.open
    BY <2>11, <2>3 DEF FlowInv, DownWhole
  <2>5. hub'.part \in 0..FRAME
    BY <1>0, <2>1 DEF Counted
  <2>6. FlowTypes'
    BY <1>1, <1>2, <2>1, <2>2, <2>5 DEF FlowInv, FlowTypes
  <2>7. Windows'
    BY <1>0, <1>1, <1>2, <1>4, <2>1, <2>4 DEF FlowInv, Windows, Counted
  <2>8. UpWhole'
    BY <1>0, <1>1, <1>4, <2>1, <2>4 DEF FlowInv, UpWhole, Counted
  <2>9. DownWhole'
    <3>1. Carried("data", chain') = Carried("data", chain)
      BY <1>0, <2>2 DEF Counted
    <3>2. node' = node /\ app' = app /\ caller' = caller /\ ~ hub'.open
      BY <1>1, <2>1
    <3> QED
      BY <1>2, <2>2, <2>4, <3>1, <3>2 DEF FlowInv, DownWhole
  <2> QED
    BY <2>6, <2>7, <2>8, <2>9 DEF FlowInv
<1>9. CASE /\ hub.open /\ f.t = "ack" /\ UNCHANGED <<chain, caller>>
           /\ hub' = [hub EXCEPT !.unacked = IF f.n >= @ THEN 0 ELSE @ - f.n]
  <2>1. /\ hub'.part = hub.part /\ hub'.read = hub.read /\ hub'.open = hub.open /\ hub'.ended = hub.ended
        /\ DOMAIN hub' = DOMAIN hub /\ hub'.unacked = IF f.n >= hub.unacked THEN 0 ELSE hub.unacked - f.n
    BY <1>9 DEF FlowInv, FlowTypes
  <2>2. Down' = Down
    BY <1>0, <1>2, <1>3, <1>9 DEF Down, Counted
  <2>3. f.n <= hub.unacked
    BY <1>0, <1>2, <1>3, <1>4, <1>9 DEF FlowInv, Windows, Counted
  <2>4. hub'.unacked = hub.unacked - f.n /\ hub'.unacked \in Nat
    BY <1>0, <1>3, <2>1, <2>3 DEF Counted
  <2>5. FlowTypes'
    BY <1>1, <1>2, <1>9, <2>1, <2>4 DEF FlowInv, FlowTypes
  <2>6. Windows'
    BY <1>0, <1>1, <1>2, <1>3, <1>4, <1>9, <2>1, <2>2, <2>4 DEF FlowInv, Windows, Counted
  <2>7. UpWhole'
    BY <1>1, <1>4, <2>1 DEF FlowInv, UpWhole
  <2>8. DownWhole'
    BY <1>0, <1>1, <1>2, <1>9, <2>1, <2>2 DEF FlowInv, DownWhole, Counted
  <2> QED
    BY <2>5, <2>6, <2>7, <2>8 DEF FlowInv
<1> QED
  BY <1>5, <1>6, <1>7, <1>8, <1>9 DEF Flo!HubReceives, f

\* The caller takes what is next in its chain.
LEMMA CallerTakes == ASSUME FlowInv, Flo!CallerReads PROVE FlowInv'
<1>0. Counted /\ Up \in Nat /\ Down \in Nat
  BY Numbers
<1> DEFINE f == Head(chain)
           a == Flo!F("ack", f.n)
<1>1. UNCHANGED <<hub, toHub, node, app>> /\ caller.end = "open"
  BY DEF Flo!CallerReads
<1>2. chain # <<>> /\ chain' = Tail(chain)
  BY DEF Flo!CallerReads
<1>3. /\ f \in Frame /\ Channel(chain')
      /\ Carried("data", chain) = Size("data", f) + Carried("data", chain')
      /\ Carried("data", chain') \in Nat /\ Size("data", f) \in Nat
      /\ (Has("close", chain') => Has("close", chain))
      /\ (f.t = "close" => Has("close", chain) /\ Carried("data", chain') = 0)
      /\ Closes("close", chain')
  BY <1>2, Channels, Taken DEF FlowInv, DownWhole
<1>4. f.n \in Nat /\ Size("data", f) = IF f.t = "data" THEN f.n ELSE 0
  BY <1>3 DEF Frame, Size
<1>5. a \in Frame /\ Size("data", a) = 0 /\ Size("ack", a) = f.n /\ a.t = "ack"
  BY <1>4 DEF Frame, Size, Flo!F
<1>6. \/ f.t = "data" /\ caller' = [caller EXCEPT !.got = @ + f.n]
         /\ toNode' = IF hub.open THEN Append(toNode, a) ELSE toNode
      \/ f.t = "close" /\ caller' = [caller EXCEPT !.end = "whole"] /\ toNode' = toNode
      \/ f.t = "abort" /\ caller' = [caller EXCEPT !.end = "cut"] /\ toNode' = toNode
  BY DEF Flo!CallerReads
<1> HIDE DEF f, a
<1>7. /\ Channel(toNode') /\ Carried("data", toNode') = Carried("data", toNode)
      /\ (Has("end", toNode') <=> Has("end", toNode)) /\ (Has("data", toNode') <=> Has("data", toNode))
      /\ (Closes("end", toNode) => Closes("end", toNode'))
      /\ Carried("ack", toNode') = Carried("ack", toNode) + (IF f.t = "data" /\ hub.open THEN f.n ELSE 0)
  <2>1. CASE toNode' = Append(toNode, a) /\ f.t = "data" /\ hub.open
    <3>1. Carried("data", toNode') = Carried("data", toNode) + 0 /\ Carried("ack", toNode') = Carried("ack", toNode) + f.n
      BY <1>5, <2>1, Channels, Sent
    <3>2. Carried("data", toNode') = Carried("data", toNode)
      BY <1>0, <3>1 DEF Counted
    <3> QED
      BY <1>5, <2>1, <3>1, <3>2, Channels, Sent
  <2>2. CASE toNode' = toNode /\ ~ (f.t = "data" /\ hub.open)
    BY <1>0, <2>2, Channels DEF Counted
  <2> QED
    BY <1>6, <2>1, <2>2
<1>8. Up' = Up /\ Down' = Down - Size("data", f)
  BY <1>0, <1>1, <1>3, <1>7 DEF Up, Down, Counted
<1>9. /\ DOMAIN caller' = DOMAIN caller /\ caller'.got = caller.got + Size("data", f)
      /\ caller'.end = IF f.t = "data" THEN "open" ELSE IF f.t = "close" THEN "whole" ELSE "cut"
  <2>1. DOMAIN caller = {"got", "end"} /\ caller.got \in Nat
    BY DEF FlowInv, FlowTypes
  <2>2. caller.got + 0 = caller.got
    BY <2>1
  <2>3. CASE f.t = "data" /\ caller' = [caller EXCEPT !.got = @ + f.n]
    BY <1>1, <1>4, <2>1, <2>3
  <2>4. CASE f.t = "close" /\ caller' = [caller EXCEPT !.end = "whole"]
    BY <1>1, <1>4, <2>1, <2>2, <2>4
  <2>5. CASE f.t = "abort" /\ caller' = [caller EXCEPT !.end = "cut"]
    BY <1>1, <1>4, <2>1, <2>2, <2>5
  <2> QED
    BY <1>6, <2>3, <2>4, <2>5
<1>10. FlowTypes'
  <2>1. caller'.got \in Nat
    BY <1>0, <1>3, <1>9 DEF Counted
  <2>2. caller'.end \in {"open", "error", "cut", "whole"}
    BY <1>9
  <2> QED
    BY <1>1, <1>3, <1>7, <1>9, <2>1, <2>2 DEF FlowInv, FlowTypes
<1>11. Windows'
  <2>1. (IF f.t = "data" /\ hub.open THEN f.n ELSE 0) <= Size("data", f) /\ f.n \in Nat
    BY <1>4
  <2>2. Down' + Carried("ack", toNode') <= Down + Carried("ack", toNode)
    BY <1>0, <1>3, <1>7, <1>8, <2>1 DEF Counted
  <2>3. Down' + Carried("ack", toNode') \in Nat
    <3>1. Down' \in Nat
      BY <1>0, <1>1, <1>3 DEF Counted, Down
    <3>2. Carried("ack", toNode') \in Nat
      BY <1>7, CarriedNat DEF Channel
    <3> QED
      BY <3>1, <3>2
  <2>4. node.open => Down' + Carried("ack", toNode') <= node.inflight
    <3>1. node.open => Down + Carried("ack", toNode) <= node.inflight
      BY DEF FlowInv, Windows
    <3> DEFINE x == Down' + Carried("ack", toNode')
               y == Down + Carried("ack", toNode)
    <3>2. x \in Nat /\ y \in Nat /\ x <= y /\ node.inflight \in Nat
      BY <1>0, <2>2, <2>3 DEF Counted
    <3> HIDE DEF x, y
    <3>3. node.open => x <= node.inflight
      BY <3>1, <3>2 DEF y
    <3> QED
      BY <3>3 DEF x
  <2> QED
    BY <1>1, <1>8, <2>4 DEF FlowInv, Windows
<1>12. UpWhole'
  BY <1>1, <1>7, <1>8 DEF FlowInv, UpWhole
<1>13. DownWhole'
  <2>1. /\ caller'.got + Down' = caller.got + Down
        /\ caller'.got + Carried("data", chain') = caller.got + Carried("data", chain)
    BY <1>0, <1>3, <1>8, <1>9 DEF Counted
  <2>2. ASSUME caller'.end = "whole" PROVE caller'.got = Download
    <3>1. f.t = "close"
      BY <1>9, <2>2
    <3>2. caller'.got + Carried("data", chain') = Download /\ Carried("data", chain') = 0
      BY <1>3, <2>1, <3>1 DEF FlowInv, DownWhole
    <3>3. caller'.got \in Nat
      BY <1>0, <1>3, <1>9 DEF Counted
    <3> QED
      BY <3>2, <3>3
  <2>3. caller'.got + Down' + node.queued = caller.got + Down + node.queued
    BY <2>1
  <2> QED
    BY <1>1, <1>3, <2>1, <2>2, <2>3 DEF FlowInv, DownWhole
<1> QED
  BY <1>10, <1>11, <1>12, <1>13 DEF FlowInv

\* What pump() of the agent keeps, whatever made it run.
LEMMA PumpKeeps ==
  ASSUME FlowInv, node.open, NEW d, Flo!Pump(d), UNCHANGED <<hub, chain, caller>>,
         DOMAIN d = DOMAIN node, d.queued \in Nat, d.inflight \in Nat, d.ended \in BOOLEAN,
         d.unacked = node.unacked, d.writes = node.writes,
         Channel(toNode'), Carried("data", toNode') = Carried("data", toNode), Closes("end", toNode'),
         Has("end", toNode') => Has("end", toNode), Has("data", toNode') => Has("data", toNode),
         DOMAIN app' = DOMAIN app, app'.got = app.got, app'.whole = app.whole, app'.sent \in 0..Download,
         d.inflight <= WINDOW, Down + Carried("ack", toNode') <= d.inflight, d.queued + d.inflight <= app'.sent,
         d.ended => app'.sent = Download, hub.open => caller.got + Down + d.queued = app'.sent
  PROVE  FlowInv'
<1>0. Counted /\ Up \in Nat /\ Down \in Nat
  BY Numbers
<1>1. DOMAIN d = {"open", "cap", "received", "unacked", "reqDone", "writes", "queued", "inflight", "timer", "due",
                  "paused", "ended"}
  BY DEF FlowInv, FlowTypes
<1>2. ~ Has("end", toHub) /\ Channel(toHub)
  BY DEF FlowInv, FlowTypes, DownWhole
<1>3. PICK c : Pumped(d, c)
  BY <1>1, <1>2, Pumps
<1>4. /\ c \in Nat /\ c <= d.queued /\ d.inflight + c <= WINDOW
      /\ Carried("data", toHub') = Carried("data", toHub) + c /\ Carried("ack", toHub') = Carried("ack", toHub)
      /\ node'.queued = d.queued - c /\ node'.inflight = d.inflight + c
  BY <1>3 DEF Pumped
<1>5. /\ Channel(toHub') /\ DOMAIN node' = DOMAIN d /\ node'.open \in BOOLEAN /\ node'.ended = d.ended
      /\ node'.unacked = node.unacked /\ node'.writes = node.writes
      /\ (Has("end", toHub') => ~ node'.open) /\ (~ node'.open => d.ended /\ node'.queued = 0) /\ Closes("end", toHub')
  BY <1>3 DEF Pumped
<1>6. node'.queued \in Nat /\ node'.inflight \in Nat /\ node'.queued + node'.inflight = d.queued + d.inflight
  BY <1>4
<1>7. Up' = Up /\ Down' = Down + c
  BY <1>0, <1>4, <1>5 DEF Up, Down, Counted
<1>8. Carried("ack", toNode') \in Nat /\ app'.sent \in Nat /\ app'.sent <= Download
  BY <1>0, CarriedNat DEF Channel, Counted
<1>9. FlowTypes'
  BY <1>5, <1>6 DEF FlowInv, FlowTypes
<1>10. Windows'
  <2>1. Down' + Carried("ack", toNode') <= node'.inflight
    BY <1>0, <1>4, <1>7, <1>8
  <2>2. node'.inflight <= WINDOW /\ node'.queued + node'.inflight <= app'.sent
    BY <1>4, <1>6
  <2> QED
    BY <1>4, <1>5, <1>7, <2>1, <2>2 DEF FlowInv, Windows
<1>11. UpWhole'
  BY <1>5, <1>7 DEF FlowInv, UpWhole
<1>12. DownWhole'
  <2>1. hub.open => caller.got + Down' + node'.queued = app'.sent
    BY <1>0, <1>4, <1>7, <1>8 DEF Counted
  <2>2. ~ node'.open => (hub.open => caller.got + Down' = Download)
    <3>1. ~ node'.open /\ hub.open => caller.got + Down' + 0 = Download
      BY <1>5, <2>1
    <3>2. caller.got + Down' \in Nat
      BY <1>0, <1>4, <1>7 DEF Counted
    <3> QED
      BY <3>1, <3>2
  <2> QED
    BY <1>5, <2>1, <2>2 DEF FlowInv, DownWhole
<1> QED
  BY <1>9, <1>10, <1>11, <1>12 DEF FlowInv

\* A frame that is neither data nor the end adds no byte to the response, and does not end it.
LEMMA Told ==
  ASSUME FlowInv, NEW e \in Frame, e.t \notin {"data", "end"}, toHub' = Append(toHub, e)
  PROVE  /\ Channel(toHub') /\ Carried("data", toHub') = Carried("data", toHub)
         /\ Carried("ack", toHub') = Carried("ack", toHub) + Size("ack", e) /\ Size("ack", e) \in Nat
         /\ (Has("end", toHub') <=> Has("end", toHub)) /\ Closes("end", toHub')
<1>1. Size("data", e) = 0
  BY DEF Size
<1>2. Carried("data", toHub') = Carried("data", toHub) + Size("data", e) /\ Carried("data", toHub) \in Nat
  BY Channels, Sent
<1>3. Carried("data", toHub') = Carried("data", toHub)
  BY <1>1, <1>2
<1>4. Closes("end", toHub')
  BY Channels, Sent DEF FlowInv, DownWhole
<1> QED
  BY <1>3, <1>4, Channels, Sent

\* onResponse(): the head goes out, before any byte of the body.
LEMMA AppAnswering == ASSUME FlowInv, Flo!AppAnswers PROVE FlowInv'
<1>0. Counted /\ Up \in Nat /\ Down \in Nat
  BY Numbers
<1> DEFINE e == Flo!F("res", 0)
<1>1. UNCHANGED <<hub, chain, toNode, node, caller>>
  BY DEF Flo!AppAnswers
<1>2. toHub' = Append(toHub, e)
  BY DEF Flo!AppAnswers
<1>3. e \in Frame /\ e.t = "res" /\ Size("ack", e) = 0
  BY DEF Flo!F, Frame, Size
<1> HIDE DEF e
<1>4. /\ Channel(toHub') /\ Carried("data", toHub') = Carried("data", toHub)
      /\ Carried("ack", toHub') = Carried("ack", toHub)
      /\ (Has("end", toHub') <=> Has("end", toHub)) /\ Closes("end", toHub')
  <2>1. Carried("ack", toHub') = Carried("ack", toHub) + 0
    BY <1>2, <1>3, Told
  <2>2. Carried("ack", toHub') = Carried("ack", toHub)
    BY <1>0, <2>1 DEF Counted
  <2> QED
    BY <1>2, <1>3, <2>2, Told
<1>5. DOMAIN app' = DOMAIN app /\ app'.got = app.got /\ app'.sent = app.sent /\ app'.whole = app.whole
  BY DEF Flo!AppAnswers, FlowInv, FlowTypes
<1>6. Up' = Up /\ Down' = Down
  BY <1>0, <1>1, <1>4 DEF Up, Down, Counted
<1>7. FlowTypes'
  BY <1>1, <1>4, <1>5 DEF FlowInv, FlowTypes
<1>8. Windows' /\ UpWhole' /\ DownWhole'
  BY <1>1, <1>4, <1>5, <1>6 DEF FlowInv, Windows, UpWhole, DownWhole
<1> QED
  BY <1>7, <1>8 DEF FlowInv

\* queue(), the batch timer and the end of the response: pump() runs on what is queued by then.
LEMMA AppSending ==
  ASSUME FlowInv, (\E n \in 1..FRAME + 1 : Flo!AppSends(n)) \/ Flo!BatchDue \/ Flo!AppEnds
  PROVE  FlowInv'
<1>0. Counted /\ Up \in Nat /\ Down \in Nat
  BY Numbers
<1>1. UNCHANGED <<hub, chain, toNode, caller>> /\ node.open
  BY DEF Flo!AppSends, Flo!BatchDue, Flo!AppEnds
<1>2. /\ Channel(toNode') /\ Carried("data", toNode') = Carried("data", toNode) /\ Closes("end", toNode')
      /\ (Has("end", toNode') => Has("end", toNode)) /\ (Has("data", toNode') => Has("data", toNode))
      /\ Carried("ack", toNode') = Carried("ack", toNode)
  BY <1>1, Channels DEF FlowInv, UpWhole
<1>3. /\ node.inflight <= WINDOW /\ Down + Carried("ack", toNode') <= node.inflight
      /\ node.queued + node.inflight <= app.sent /\ (node.ended => app.sent = Download)
      /\ (hub.open => caller.got + Down + node.queued = app.sent)
  BY <1>1, <1>2 DEF FlowInv, Windows, DownWhole
<1>4. /\ DOMAIN node = {"open", "cap", "received", "unacked", "reqDone", "writes", "queued", "inflight", "timer", "due",
                        "paused", "ended"}
      /\ DOMAIN app = {"got", "sent", "head", "whole"} /\ node.ended \in BOOLEAN /\ app.sent \in 0..Download
  BY DEF FlowInv, FlowTypes
<1>5. ASSUME NEW n \in 1..FRAME + 1, Flo!AppSends(n) PROVE FlowInv'
  <2> DEFINE d == [node EXCEPT !.queued = @ + n, !.paused = node.inflight + node.queued + n >= WINDOW,
                               !.timer = ~node.due]
  <2>1. Flo!Pump(d) /\ app' = [app EXCEPT !.sent = @ + n] /\ n \in 1..Flo!Least(FRAME + 1, Download - app.sent)
    BY <1>5 DEF Flo!AppSends
  <2>2. n \in Nat /\ n >= 1 /\ n <= Download - app.sent
    BY <1>0, <2>1 DEF Flo!Least, Counted
  <2>3. /\ DOMAIN d = DOMAIN node /\ d.queued = node.queued + n /\ d.inflight = node.inflight /\ d.ended = node.ended
        /\ d.unacked = node.unacked /\ d.writes = node.writes
    BY <1>4
  <2>4. DOMAIN app' = DOMAIN app /\ app'.got = app.got /\ app'.whole = app.whole /\ app'.sent = app.sent + n
    BY <1>4, <2>1
  <2> HIDE DEF d
  <2>5. /\ app'.sent \in 0..Download /\ ~ d.ended /\ d.queued + d.inflight <= app'.sent
        /\ (hub.open => caller.got + Down + d.queued = app'.sent) /\ d.queued \in Nat /\ d.inflight \in Nat
    BY <1>0, <1>3, <2>2, <2>3, <2>4 DEF Counted
  <2>6. d.inflight <= WINDOW /\ Down + Carried("ack", toNode') <= d.inflight /\ d.ended \in BOOLEAN
    BY <1>3, <1>4, <2>3
  <2> QED
    BY <1>1, <1>2, <2>1, <2>3, <2>4, <2>5, <2>6, PumpKeeps
<1>6. CASE Flo!BatchDue
  <2> DEFINE d == [node EXCEPT !.timer = FALSE, !.due = TRUE]
  <2>1. Flo!Pump(d) /\ app' = app
    BY <1>6 DEF Flo!BatchDue
  <2>2. /\ DOMAIN d = DOMAIN node /\ d.queued = node.queued /\ d.inflight = node.inflight /\ d.ended = node.ended
        /\ d.unacked = node.unacked /\ d.writes = node.writes
    BY <1>4
  <2> HIDE DEF d
  <2>3. d.queued \in Nat /\ d.inflight \in Nat
    BY <1>0, <2>2 DEF Counted
  <2> QED
    BY <1>1, <1>2, <1>3, <1>4, <2>1, <2>2, <2>3, PumpKeeps
<1>7. CASE Flo!AppEnds
  <2> DEFINE d == [node EXCEPT !.ended = TRUE]
  <2>1. Flo!Pump(d) /\ app' = app /\ app.sent = Download
    BY <1>7 DEF Flo!AppEnds
  <2>2. /\ DOMAIN d = DOMAIN node /\ d.queued = node.queued /\ d.inflight = node.inflight /\ d.ended = TRUE
        /\ d.unacked = node.unacked /\ d.writes = node.writes
    BY <1>4
  <2> HIDE DEF d
  <2>3. d.queued \in Nat /\ d.inflight \in Nat
    BY <1>0, <2>2 DEF Counted
  <2> QED
    BY <1>1, <1>2, <1>3, <1>4, <2>1, <2>2, <2>3, PumpKeeps
<1> QED
  BY <1>5, <1>6, <1>7

\* The agent drops a frame, and is closed or closes: nothing of the response goes out any more.
LEMMA NodeDrops ==
  ASSUME FlowInv, UNCHANGED <<hub, chain, app, caller>>,
         DOMAIN node' = DOMAIN node, node'.open = FALSE, node'.ended = node.ended, node'.unacked = node.unacked,
         node'.writes = node.writes, node'.queued = node.queued, node'.inflight = node.inflight,
         Channel(toNode'), Carried("data", toNode') \in Nat, Carried("data", toNode') <= Carried("data", toNode),
         Has("end", toNode') => Has("end", toNode), Has("data", toNode') => Has("data", toNode), Closes("end", toNode'),
         Channel(toHub'), Carried("data", toHub') = Carried("data", toHub), Carried("ack", toHub') = Carried("ack", toHub),
         Has("end", toHub') <=> Has("end", toHub), Closes("end", toHub')
  PROVE  FlowInv'
<1>0. Counted /\ Up \in Nat /\ Down \in Nat
  BY Numbers
<1>1. UNCHANGED <<hub, chain, app, caller>>
  OBVIOUS
<1>4. Up' <= Up /\ Up' \in Nat /\ Down' = Down
  BY <1>0, <1>1 DEF Up, Down, Counted
<1>5. FlowTypes'
  BY <1>1 DEF FlowInv, FlowTypes
<1>6. Windows'
  BY <1>0, <1>1, <1>4 DEF FlowInv, Windows, Counted
<1>7. UpWhole'
  <2>1. app.got + Up' + hub.part <= hub.read
    BY <1>0, <1>4 DEF FlowInv, UpWhole, Counted
  <2> QED
    BY <1>1, <2>1 DEF FlowInv, UpWhole
<1>8. DownWhole'
  BY <1>1, <1>4 DEF FlowInv, DownWhole
<1> QED
  BY <1>5, <1>6, <1>7, <1>8 DEF FlowInv

\* onMessage() of the agent: request data and the end wait for the app in order, and an acknowledgement makes room.
LEMMA NodeHears == ASSUME FlowInv, Flo!NodeReceives PROVE FlowInv'
<1>0. Counted /\ Up \in Nat /\ Down \in Nat
  BY Numbers
<1> DEFINE f == Head(toNode)
<1>1. UNCHANGED <<hub, chain, app, caller>>
  BY DEF Flo!NodeReceives
<1>2. toNode # <<>> /\ toNode' = Tail(toNode)
  BY DEF Flo!NodeReceives
<1>3. /\ f \in Frame /\ Channel(toNode')
      /\ Carried("data", toNode) = Size("data", f) + Carried("data", toNode')
      /\ Carried("ack", toNode) = Size("ack", f) + Carried("ack", toNode')
      /\ Carried("data", toNode') \in Nat /\ Carried("ack", toNode') \in Nat
      /\ Size("data", f) \in Nat /\ Size("ack", f) \in Nat
      /\ (Has("end", toNode') => Has("end", toNode)) /\ (Has("data", toNode') => Has("data", toNode))
      /\ (f.t = "data" => Has("data", toNode))
      /\ (f.t = "end" => Has("end", toNode) /\ Carried("data", toNode') = 0 /\ ~ Has("data", toNode'))
      /\ Closes("end", toNode')
  BY <1>2, Channels, Taken DEF FlowInv, UpWhole
<1>4. f.n \in Nat /\ Size("data", f) = (IF f.t = "data" THEN f.n ELSE 0) /\ Size("ack", f) = (IF f.t = "ack" THEN f.n ELSE 0)
  BY <1>3 DEF Frame, Size
<1>5. \/ ~ node.open /\ UNCHANGED <<toHub, node>>
      \/ node.open /\ node' = [node EXCEPT !.open = FALSE] /\ (toHub' = toHub \/ toHub' = Append(toHub, Flo!F("err", 0)))
      \/ /\ node.open /\ f.t = "data" /\ UNCHANGED toHub
         /\ node' = [node EXCEPT !.received = @ + f.n, !.writes = Append(@, f)]
      \/ /\ node.open /\ f.t = "end" /\ UNCHANGED toHub
         /\ node' = [node EXCEPT !.reqDone = TRUE, !.writes = Append(@, f)]
      \/ /\ node.open /\ f.t = "ack" /\ Flo!Pump([node EXCEPT !.inflight = IF f.n >= @ THEN 0 ELSE @ - f.n])
  BY DEF Flo!NodeReceives, Flo!NodeFails
<1> HIDE DEF f
<1>6. /\ DOMAIN node = {"open", "cap", "received", "unacked", "reqDone", "writes", "queued", "inflight", "timer", "due",
                        "paused", "ended"}
      /\ node.open \in BOOLEAN /\ node.ended \in BOOLEAN
  BY DEF FlowInv, FlowTypes
<1>7. CASE ~ node.open /\ UNCHANGED <<toHub, node>>
  <2>1. node' = node /\ node.open = FALSE /\ toHub' = toHub
    BY <1>6, <1>7
  <2>2. Channel(toHub') /\ Closes("end", toHub')
    BY <2>1, Channels DEF FlowInv, DownWhole
  <2>3. Carried("data", toNode') <= Carried("data", toNode)
    BY <1>0, <1>3 DEF Counted
  <2> QED
    BY <1>1, <1>3, <2>1, <2>2, <2>3, NodeDrops
<1>8. CASE node' = [node EXCEPT !.open = FALSE] /\ (toHub' = toHub \/ toHub' = Append(toHub, Flo!F("err", 0)))
  <2>1. /\ DOMAIN node' = DOMAIN node /\ node'.open = FALSE /\ node'.ended = node.ended /\ node'.unacked = node.unacked
        /\ node'.writes = node.writes /\ node'.queued = node.queued /\ node'.inflight = node.inflight
    BY <1>6, <1>8
  <2>2. /\ Channel(toHub') /\ Carried("data", toHub') = Carried("data", toHub)
        /\ Carried("ack", toHub') = Carried("ack", toHub)
        /\ (Has("end", toHub') <=> Has("end", toHub)) /\ Closes("end", toHub')
    <3> DEFINE e == Flo!F("err", 0)
    <3>1. CASE toHub' = toHub
      BY <3>1, Channels DEF FlowInv, DownWhole
    <3>2. CASE toHub' = Append(toHub, e)
      <4>1. e \in Frame /\ e.t = "err" /\ Size("ack", e) = 0
        BY DEF Flo!F, Frame, Size
      <4> HIDE DEF e
      <4>2. Carried("ack", toHub') = Carried("ack", toHub) + 0
        BY <3>2, <4>1, Told
      <4>3. Carried("ack", toHub') = Carried("ack", toHub)
        BY <1>0, <4>2 DEF Counted
      <4> QED
        BY <3>2, <4>1, <4>3, Told
    <3> QED
      BY <1>8, <3>1, <3>2
  <2>3. Carried("data", toNode') <= Carried("data", toNode)
    BY <1>0, <1>3 DEF Counted
  <2> QED
    BY <1>1, <1>3, <2>1, <2>2, <2>3, NodeDrops
<1>9. ASSUME node.open, f.t \in {"data", "end"}, toHub' = toHub,
             \/ f.t = "data" /\ node' = [node EXCEPT !.received = @ + f.n, !.writes = Append(@, f)]
             \/ f.t = "end" /\ node' = [node EXCEPT !.reqDone = TRUE, !.writes = Append(@, f)]
      PROVE  FlowInv'
  <2>1. /\ DOMAIN node' = DOMAIN node /\ node'.open = node.open /\ node'.ended = node.ended /\ node'.unacked = node.unacked
        /\ node'.queued = node.queued /\ node'.inflight = node.inflight
    BY <1>6, <1>9
  <2>2. node'.writes = Append(node.writes, f)
    BY <1>6, <1>9
  <2>3. f.t = "data" => ~ Has("end", node.writes)
    BY <1>3 DEF FlowInv, UpWhole
  <2>4. /\ Channel(node'.writes) /\ Carried("data", node'.writes) = Carried("data", node.writes) + Size("data", f)
        /\ (Has("end", node'.writes) <=> Has("end", node.writes) \/ f.t = "end") /\ Closes("end", node'.writes)
    BY <1>3, <2>2, <2>3, Channels, Sent DEF FlowInv, UpWhole
  <2>5. \A i \in DOMAIN node'.writes : node'.writes[i].t \in {"data", "end"}
    <3>1. node.writes \in Seq(Frame) /\ f \in Frame
      BY <1>3, Channels DEF Channel
    <3>2. \A i \in DOMAIN node.writes : node.writes[i].t \in {"data", "end"}
      BY DEF FlowInv, FlowTypes
    <3>3. \A i \in DOMAIN node'.writes :
            (i \in DOMAIN node.writes /\ node'.writes[i] = node.writes[i]) \/ node'.writes[i] = f
      BY <2>2, <3>1
    <3> QED
      BY <1>9, <3>2, <3>3
  <2>6. Up' = Up
    BY <1>0, <1>3, <2>4 DEF Up, Counted
  <2>7. Down' = Down /\ Size("ack", f) = 0 /\ toHub' = toHub
    BY <1>1, <1>4, <1>9 DEF Down
  <2>8. FlowTypes'
    BY <1>1, <1>3, <2>1, <2>4, <2>5, <2>7 DEF FlowInv, FlowTypes
  <2>9. Windows'
    <3>1. Carried("ack", toNode') = Carried("ack", toNode)
      BY <1>3, <2>7
    <3> QED
      BY <1>1, <2>1, <2>6, <2>7, <3>1 DEF FlowInv, Windows
  <2>10. UpWhole'
    <3>1. Has("end", toNode') \/ Has("end", node'.writes) => hub.ended
      BY <1>3, <2>4 DEF FlowInv, UpWhole
    <3>2. Has("end", node'.writes) => ~ Has("data", toNode')
      <4>1. CASE f.t = "end"
        BY <1>3, <4>1
      <4>2. CASE f.t = "data"
        BY <2>3, <2>4, <4>2
      <4> QED
        BY <1>9, <4>1, <4>2
    <3> QED
      BY <1>1, <1>3, <2>1, <2>4, <2>6, <3>1, <3>2 DEF FlowInv, UpWhole
  <2>11. DownWhole'
    BY <1>1, <2>1, <2>7 DEF FlowInv, DownWhole
  <2> QED
    BY <2>8, <2>9, <2>10, <2>11 DEF FlowInv
<1>10. CASE node.open /\ f.t = "ack" /\ Flo!Pump([node EXCEPT !.inflight = IF f.n >= @ THEN 0 ELSE @ - f.n])
  <2> DEFINE d == [node EXCEPT !.inflight = IF f.n >= @ THEN 0 ELSE @ - f.n]
  <2>1. Flo!Pump(d) /\ node.open /\ f.t = "ack"
    BY <1>10
  <2>2. /\ DOMAIN d = DOMAIN node /\ d.queued = node.queued /\ d.ended = node.ended /\ d.unacked = node.unacked
        /\ d.writes = node.writes /\ d.inflight = IF f.n >= node.inflight THEN 0 ELSE node.inflight - f.n
    BY <1>6
  <2> HIDE DEF d
  <2>3. /\ node.inflight <= WINDOW /\ Down + Carried("ack", toNode) <= node.inflight
        /\ node.queued + node.inflight <= app.sent /\ (node.ended => app.sent = Download)
        /\ (hub.open => caller.got + Down + node.queued = app.sent)
    BY <2>1 DEF FlowInv, Windows, DownWhole
  <2>4. Size("data", f) = 0 /\ Size("ack", f) = f.n
    BY <1>4, <2>1
  <2>5. Carried("data", toNode') = Carried("data", toNode) /\ Carried("ack", toNode) = f.n + Carried("ack", toNode')
    BY <1>3, <2>4
  <2>6. d.inflight = node.inflight - f.n /\ d.inflight \in Nat
    BY <1>0, <1>3, <1>4, <2>2, <2>3, <2>5 DEF Counted
  <2>7. d.inflight <= WINDOW /\ Down + Carried("ack", toNode') <= d.inflight /\ d.queued + d.inflight <= app.sent
    BY <1>0, <1>3, <1>4, <2>2, <2>3, <2>5, <2>6 DEF Counted
  <2>8. d.queued \in Nat /\ app' = app /\ app.sent \in 0..Download
    BY <1>0, <1>1, <2>2 DEF Counted, FlowInv, FlowTypes
  <2>9. UNCHANGED <<hub, chain, caller>>
    BY <1>1
  <2> QED
    BY <1>3, <1>6, <2>1, <2>2, <2>3, <2>5, <2>6, <2>7, <2>8, <2>9, PumpKeeps
<1> QED
  BY <1>5, <1>7, <1>8, <1>9, <1>10

\* The app reads what waits for it: all of the request has been read when its end is.
LEMMA AppReading == ASSUME FlowInv, Flo!AppReads PROVE FlowInv'
<1>0. Counted /\ Up \in Nat /\ Down \in Nat
  BY Numbers
<1> DEFINE f == Head(node.writes)
           u == node.unacked + f.n
           a == Flo!F("ack", u)
<1>1. UNCHANGED <<hub, chain, toNode, caller>> /\ node.open
  BY DEF Flo!AppReads
<1>2. node.writes # <<>>
  BY DEF Flo!AppReads
<1>3. /\ DOMAIN node = {"open", "cap", "received", "unacked", "reqDone", "writes", "queued", "inflight", "timer", "due",
                        "paused", "ended"}
      /\ DOMAIN app = {"got", "sent", "head", "whole"} /\ node.open \in BOOLEAN
  BY DEF FlowInv, FlowTypes
<1>4. /\ f \in Frame /\ Channel(Tail(node.writes))
      /\ Carried("data", node.writes) = Size("data", f) + Carried("data", Tail(node.writes))
      /\ Carried("data", Tail(node.writes)) \in Nat
      /\ (Has("end", Tail(node.writes)) => Has("end", node.writes))
      /\ (f.t = "end" => Has("end", node.writes) /\ Carried("data", Tail(node.writes)) = 0)
      /\ Closes("end", Tail(node.writes))
  BY <1>2, Channels, Taken DEF FlowInv, UpWhole
<1>5. f.t \in {"data", "end"} /\ \A i \in DOMAIN Tail(node.writes) : Tail(node.writes)[i].t \in {"data", "end"}
  <2>1. \A i \in DOMAIN node.writes : node.writes[i].t \in {"data", "end"}
    BY DEF FlowInv, FlowTypes
  <2>2. node.writes \in Seq(Frame)
    BY Channels DEF Channel
  <2>3. 1 \in DOMAIN node.writes /\ f = node.writes[1]
    BY <1>2, <2>2
  <2>4. \A i \in DOMAIN Tail(node.writes) : i + 1 \in DOMAIN node.writes /\ Tail(node.writes)[i] = node.writes[i + 1]
    BY <1>2, <2>2
  <2> QED
    BY <2>1, <2>3, <2>4
<1>6. f.n \in Nat /\ Size("data", f) = f.n
  BY <1>4, <1>5 DEF Frame, Size
<1>7. /\ app' = IF f.t = "end" THEN [app EXCEPT !.whole = TRUE] ELSE [app EXCEPT !.got = @ + f.n]
      /\ node' = [node EXCEPT !.writes = Tail(@), !.unacked = IF Flo!AckAt(u) THEN 0 ELSE u]
      /\ toHub' = IF Flo!AckAt(u) THEN Append(toHub, a) ELSE toHub
  BY DEF Flo!AppReads
<1>8. u \in Nat
  BY <1>0, <1>6 DEF Counted
<1>9. a \in Frame /\ a.t = "ack" /\ Size("ack", a) = u
  BY <1>8 DEF Frame, Size, Flo!F
<1> HIDE DEF f, a
<1>10. /\ DOMAIN node' = DOMAIN node /\ node'.open = node.open /\ node'.ended = node.ended /\ node'.queued = node.queued
       /\ node'.inflight = node.inflight /\ node'.unacked = IF Flo!AckAt(u) THEN 0 ELSE u
  BY <1>3, <1>7
<1>11. node'.writes = Tail(node.writes)
  BY <1>3, <1>7
<1>12. /\ Channel(node'.writes) /\ Carried("data", node.writes) = f.n + Carried("data", node'.writes)
       /\ Carried("data", node'.writes) \in Nat
       /\ (Has("end", node'.writes) => Has("end", node.writes)) /\ Closes("end", node'.writes)
       /\ (f.t = "end" => Has("end", node.writes) /\ Carried("data", node'.writes) = 0)
       /\ \A i \in DOMAIN node'.writes : node'.writes[i].t \in {"data", "end"}
  BY <1>4, <1>5, <1>6, <1>11
<1>13. /\ Channel(toHub') /\ Carried("data", toHub') = Carried("data", toHub)
       /\ (Has("end", toHub') <=> Has("end", toHub)) /\ Closes("end", toHub')
       /\ Carried("ack", toHub') = Carried("ack", toHub) + (IF Flo!AckAt(u) THEN u ELSE 0)
  <2>1. CASE Flo!AckAt(u) /\ toHub' = Append(toHub, a)
    BY <1>9, <2>1, Told
  <2>2. CASE ~ Flo!AckAt(u) /\ toHub' = toHub
    BY <1>0, <2>2, Channels DEF Counted, FlowInv, DownWhole
  <2> QED
    BY <1>7, <2>1, <2>2
<1>14. f.t = "end" => f.n = 0
  BY <1>4 DEF Frame
<1>15. /\ DOMAIN app' = DOMAIN app /\ app'.got = app.got + f.n /\ app'.sent = app.sent
       /\ app'.whole = (app.whole \/ f.t = "end")
  <2>1. app.whole \in BOOLEAN
    BY DEF FlowInv, FlowTypes
  <2>2. CASE f.t = "end"
    <3>1. app.got + 0 = app.got
      BY <1>0 DEF Counted
    <3>2. app' = [app EXCEPT !.whole = TRUE]
      BY <1>7, <2>2
    <3> QED
      BY <1>3, <1>14, <2>2, <3>1, <3>2
  <2>3. CASE f.t # "end"
    <3>1. app' = [app EXCEPT !.got = @ + f.n]
      BY <1>7, <2>3
    <3> QED
      BY <1>3, <2>1, <2>3, <3>1
  <2> QED
    BY <2>2, <2>3
<1>16. node'.unacked \in Nat /\ node'.unacked + Carried("ack", toHub') = node.unacked + f.n + Carried("ack", toHub)
  BY <1>0, <1>6, <1>8, <1>10, <1>13 DEF Counted
<1>17. Up = Up' + f.n /\ Up' \in Nat /\ Down' = Down
  BY <1>0, <1>1, <1>6, <1>12, <1>13 DEF Up, Down, Counted
<1> HIDE DEF u
<1>18. FlowTypes'
  <2>1. app'.got \in Nat /\ app'.whole \in BOOLEAN
    BY <1>0, <1>6, <1>15 DEF Counted
  <2> QED
    BY <1>1, <1>10, <1>12, <1>13, <1>15, <1>16, <2>1 DEF FlowInv, FlowTypes
<1>19. Windows'
  <2>1. Up' + node'.unacked + Carried("ack", toHub') = Up + node.unacked + Carried("ack", toHub)
    <3>1. Carried("ack", toHub') \in Nat
      BY <1>13, CarriedNat DEF Channel
    <3> QED
      BY <1>0, <1>6, <1>16, <1>17, <3>1 DEF Counted
  <2>2. Up' <= WINDOW
    BY <1>0, <1>6, <1>17 DEF FlowInv, Windows, Counted
  <2> QED
    BY <1>1, <1>10, <1>15, <1>17, <2>1, <2>2 DEF FlowInv, Windows
<1>20. UpWhole'
  <2>1. app'.got + Up' + hub.part = app.got + Up + hub.part
    BY <1>0, <1>6, <1>15, <1>17 DEF Counted
  <2>2. app'.got + Up' + hub.part <= hub.read /\ (hub.open \/ hub.ended => app'.got + Up' + hub.part = hub.read)
    BY <1>1, <2>1 DEF FlowInv, UpWhole
  <2>3. f.t = "end" => app.got = Upload
    <3> SUFFICES ASSUME f.t = "end" PROVE app.got = Upload
      OBVIOUS
    <3>1. hub.ended /\ ~ Has("data", toNode)
      BY <1>12 DEF FlowInv, UpWhole
    <3>2. Carried("data", toNode) = 0
      BY <3>1, Channels, CarriesNothing DEF Channel
    <3>3. Carried("data", node.writes) = 0
      BY <1>12, <1>14
    <3>4. app.got + Up + hub.part = hub.read /\ hub.read = Upload /\ hub.part = 0
      BY <1>1, <3>1 DEF FlowInv, UpWhole
    <3> QED
      BY <1>0, <3>2, <3>3, <3>4 DEF Up, Counted
  <2>4. app'.whole => app'.got = Upload
    <3>1. app'.got <= Upload
      BY <1>0, <1>6, <1>15, <1>17, <2>2 DEF Counted
    <3>2. app'.whole => app.got = Upload
      BY <1>15, <2>3 DEF FlowInv, UpWhole
    <3> QED
      BY <1>0, <1>6, <1>15, <3>1, <3>2 DEF Counted
  <2>5. Has("end", node'.writes) => ~ Has("data", toNode)
    BY <1>12 DEF FlowInv, UpWhole
  <2> QED
    BY <1>1, <1>10, <1>12, <2>2, <2>4, <2>5 DEF FlowInv, UpWhole
<1>21. DownWhole'
  BY <1>1, <1>10, <1>13, <1>15, <1>17 DEF FlowInv, DownWhole
<1> QED
  BY <1>18, <1>19, <1>20, <1>21 DEF FlowInv

\* The invariant is inductive.
LEMMA FlowSteps == ASSUME FlowInv, Flo!Next PROVE FlowInv'
<1>1. CASE \E n \in 1..Upload : Flo!ReadPart(n)
  BY <1>1, HubReads
<1>2. CASE Flo!SendPart \/ Flo!SendEnd
  BY <1>2, HubSends
<1>3. CASE Flo!HubReceives
  BY <1>3, HubHears
<1>4. CASE Flo!CallerReads
  BY <1>4, CallerTakes
<1>5. CASE Flo!AppAnswers
  BY <1>5, AppAnswering
<1>6. CASE (\E n \in 1..FRAME + 1 : Flo!AppSends(n)) \/ Flo!BatchDue \/ Flo!AppEnds
  BY <1>6, AppSending
<1>7. CASE Flo!NodeReceives
  BY <1>7, NodeHears
<1>8. CASE Flo!AppReads
  BY <1>8, AppReading
<1>9. CASE Flo!Cut
  BY <1>9, HubFailing DEF Flo!Cut
<1> QED
  BY <1>1, <1>2, <1>3, <1>4, <1>5, <1>6, <1>7, <1>8, <1>9 DEF Flo!Next, Flo!Progress

\* What the invariant says of the stream is what the run checks.
LEMMA FlowIsWhole == FlowInv => FlowSound
<1> SUFFICES ASSUME FlowInv PROVE FlowSound
  OBVIOUS
<1>0. Counted /\ Up \in Nat /\ Down \in Nat
  BY Numbers
<1>1. Flo!TypeOK
  <2>1. node.queued \in 0..Download /\ node.inflight \in 0..Download
    BY <1>0 DEF FlowInv, Windows, Counted
  <2>2. app.got \in 0..Upload
    BY <1>0 DEF FlowInv, UpWhole, Counted
  <2> QED
    BY <2>1, <2>2 DEF FlowInv, FlowTypes, Flo!TypeOK
<1>2. Flo!WithinWindow
  <2>1. Carried("data", toNode) + Carried("data", node.writes) <= WINDOW
    BY DEF FlowInv, Windows, Up
  <2>2. node.open => Carried("data", toHub) + Carried("data", chain) <= WINDOW
    <3>1. node.open => Down + Carried("ack", toNode) <= node.inflight /\ node.inflight <= WINDOW
      BY DEF FlowInv, Windows
    <3>2. node.open => Down <= WINDOW
      BY <1>0, <3>1 DEF Counted
    <3> QED
      BY <3>2 DEF Down
  <2> QED
    BY <2>1, <2>2, BytesCarried DEF Flo!WithinWindow
<1>3. Flo!NothingMissing
  BY DEF FlowInv, UpWhole, DownWhole, Flo!NothingMissing
<1> QED
  BY <1>1, <1>2, <1>3 DEF FlowSound

-----------------------------------------------------------------------------

\* StreamHub and RelayClient, pump() and the acknowledgements: whatever the sizes of the window, of the two bodies and
\* of what is read and sent at a time, no side holds more than its window, and a response or a request that is seen to
\* end is whole, also when the caller goes away or a cap is hit at any point.
THEOREM FlowStaysSound == HostingSpec => []FlowSound
<1>1. HostingInit => FlowInv
  BY FlowStarts DEF HostingInit
<1>2. FlowInv /\ [HostingNext]_all => FlowInv'
  <2>1. [HostingNext]_all => Flo!Next \/ UNCHANGED floVars
    BY DEF HostingNext, all, BillingOnly, EndpointsOnly, FlowOnly
  <2>2. FlowInv /\ UNCHANGED floVars => FlowInv'
    <3> SUFFICES ASSUME FlowInv, UNCHANGED floVars PROVE FlowInv'
      OBVIOUS
    <3>1. UNCHANGED <<hub, chain, toNode, toHub, node, app, caller>>
      BY DEF floVars
    <3>2. Up' = Up /\ Down' = Down
      BY <3>1 DEF Up, Down
    <3> QED
      BY <3>1, <3>2 DEF FlowInv, FlowTypes, Windows, UpWhole, DownWhole
  <2> QED
    BY <2>1, <2>2, FlowSteps
<1> QED
  BY <1>1, <1>2, FlowIsWhole, PTL DEF HostingSpec
=============================================================================
