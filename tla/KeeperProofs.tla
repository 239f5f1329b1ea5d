---------------------------- MODULE KeeperProofs ----------------------------
(***************************************************************************)
(* One keeper at a time: for every number of jobs, epochs and faults, the   *)
(* API's ledger agrees with the chain, and the whole implements EpochLife.  *)
(***************************************************************************)
EXTENDS KeeperSystem, FiniteSetTheorems, WellFoundedInduction, TLAPS

\* The entry of a job whose pay epoch e has posted: it stays with e, and is pending no more.
Owned(e, j) ==
  /\ Booked(j) = e
  /\ entry[j].st \in {"posted", "settled", "clawed"} /\ entry[j].tre \in {"posted", "settled"}

\* A job's lanes go through the same states, but for a claw.
EntryOK(j) == entry[j].st \in {entry[j].tre, "clawed"}

\* What the API's row of e says of the chain and of the entries.
RowOK(e) ==
  /\ row[e].st = "open" => chain[e].st = "None"
  /\ row[e].st = "vetoed" => chain[e].st = "Vetoed" /\ chain[e].root \in row[e].vetoedRoot
  /\ row[e].st = "closed" => row[e].root \subseteq row[e].fees /\ \A j \in row[e].root : Owned(e, j)
  /\ row[e].st = "settled" => chain[e].st = "Finalized" /\ OpenA(e) = {} /\ OpenB(e) = {}

\* What is live on-chain is the API's, and its jobs are booked in e.
ChainOK(e) ==
  chain[e].st \in {"Posted", "Finalized"} =>
    /\ row[e].st \in {"closed", "posted", "settled"} /\ row[e].root = chain[e].root
    /\ \A j \in chain[e].root : Owned(e, j)

Marked == {"finalize", "flags", "claim", "tellSettled", "markSettled"}
Paying == {"flags", "claim", "tellSettled", "markSettled"}
AtEpoch == Marked \cup {"post", "tellPosted", "markPosted", "tellVeto", "markVeto"}

\* A payload is what the row holds, or was vetoed meanwhile.
PayloadOK(h, e) ==
  h.work[e].st # "none" =>
    /\ \/ row[e].st \in {"closed", "posted"} /\ row[e].root = h.work[e].root
       \/ row[e].st = "vetoed" /\ chain[e].root = h.work[e].root
    /\ h.work[e].st = "closed" /\ row[e].st = "posted" => h.e = e /\ h.pc \in Marked

\* The pass while it closes the epoch h.e
ClosingOK(h) ==
  /\ h.pc \in {"sum", "totals", "write"} =>
       /\ h.e \in Epochs /\ row[h.e].st = h.then /\ h.then \in {"open", "vetoed"}
       /\ h.old = row[h.e].vetoedRoot
  /\ h.pc \in {"totals", "write"} =>
       \A j \in h.leaves : Booked(j) = h.e /\ entry[j].st \in {"pending", "clawed"} /\ entry[j].tre = "pending"
  /\ h.pc = "write" => h.leaves \subseteq h.fees

\* The pass while it takes the epoch h.e through the contract
DrivingOK(h) ==
  /\ h.pc \in AtEpoch => h.e \in Epochs /\ h.work[h.e].st # "none"
  /\ h.pc = "post" =>
       /\ h.work[h.e].st = "closed" /\ chain[h.e].st \in {"None", "Vetoed"}
       /\ chain[h.e].st = "Vetoed" => chain[h.e].root # h.work[h.e].root
  /\ h.pc \in {"tellPosted", "markPosted"} =>
       /\ chain[h.e].st # "None" /\ chain[h.e].root = h.work[h.e].root
       /\ h.then \in {"wait", "finalize", "flags"} /\ (h.then = "flags" => chain[h.e].st = "Finalized")
  /\ h.pc = "markPosted" => row[h.e].st \in {"closed", "vetoed"}
  /\ h.pc \in {"tellVeto", "markVeto"} => chain[h.e].st = "Vetoed" /\ chain[h.e].root = h.work[h.e].root

\* The pass while it pays the epoch h.e
PayingOK(h) ==
  /\ h.pc \in Paying => chain[h.e].st = "Finalized"
  /\ h.pc = "claim" /\ ~h.vesting =>
       OpenA(h.e) \subseteq h.claims /\ OpenB(h.e) \subseteq h.claims /\ (OpenB(h.e) # {} => chain[h.e].vested)
  /\ h.pc \in {"tellSettled", "markSettled"} => OpenA(h.e) = {} /\ OpenB(h.e) = {}

PassOK(h) == ClosingOK(h) /\ DrivingOK(h) /\ PayingOK(h) /\ \A e \in Epochs : PayloadOK(h, e)

Payloads == [st : {"none", "closed", "posted"}, root : SUBSET Jobs, fees : SUBSET Jobs]

Passes == [pc : Pcs, todo : SUBSET Epochs, e : 0..MaxEpoch, leaves : SUBSET Jobs, fees : SUBSET Jobs,
           work : [Epochs -> Payloads], claims : SUBSET Jobs, vesting : BOOLEAN,
           then : {"next", "open", "closed", "posted", "settled", "vetoed", "wait", "finalize", "flags"},
           now : 0..MaxEpoch, old : SUBSET SUBSET Jobs]

IInv ==
  /\ TypeOK /\ \A p \in Keepers : k[p] \in Passes
  /\ k = [p \in Keepers |-> k[p]]
  /\ \A j \in Jobs : EntryOK(j)
  /\ \A e \in Epochs : RowOK(e) /\ ChainOK(e)
  /\ \A p \in Keepers : PassOK(k[p])

\* One pass at a time: "overlapping cron ticks in one isolate share the pass"
\* (keeper/src/index.ts).  Passes of two isolates that overlap break the agreement:
\* markEpochPosted, markEpochVetoed and markEpochSettled write without the
\* condition they checked.
OneKeeper == \A p, q \in Keepers : p = q

Entries == [st : {"none", "pending", "posted", "settled", "clawed"}, tre : {"none", "pending", "posted", "settled"},
            epoch : 0..MaxEpoch]

Rows == [st : {"open", "closed", "posted", "settled", "vetoed"}, root : SUBSET Jobs, fees : SUBSET Jobs,
         vetoedRoot : SUBSET SUBSET Jobs]

Chains == [st : {"None", "Posted", "Vetoed", "Finalized"}, root : SUBSET Jobs, ripe : BOOLEAN, vested : BOOLEAN,
           paidA : SUBSET Jobs, paidB : SUBSET Jobs, voidB : SUBSET Jobs]

\* TypeOK without the passes.
Ledger ==
  /\ cur \in Epochs /\ faults \in 0..MaxFaults
  /\ entry \in [Jobs -> Entries] /\ row \in [Epochs -> Rows] /\ chain \in [Epochs -> Chains]

-----------------------------------------------------------------------------
(* How a step is shown to keep the invariant. *)

\* A keeper's step: the pass it leaves, and what it wrote.
LEMMA PassMoves ==
  ASSUME OneKeeper, IInv, NEW p \in Keepers, NEW g \in Passes, Go(p, g), Ledger',
         \A j \in Jobs : EntryOK(j)', \A e \in Epochs : RowOK(e)' /\ ChainOK(e)', PassOK(g)'
  PROVE  IInv'
<1>1. k' = [k EXCEPT ![p] = g] /\ k = [q \in Keepers |-> k[q]]
  BY DEF Go, IInv
<1>2. \A q \in Keepers : q = p
  BY DEF OneKeeper
<1>3. \A q \in Keepers : k'[q] = g
  BY <1>1, <1>2
<1>4. k' = [q \in Keepers |-> k'[q]]
  BY <1>1
<1>5. \A q \in Keepers : PassOK(k[q])'
  BY <1>3 DEF PassOK, ClosingOK, DrivingOK, PayingOK, PayloadOK
<1>6. TypeOK'
  BY <1>3 DEF Ledger, TypeOK, Entries, Rows, Chains, Passes
<1> QED
  BY <1>3, <1>4, <1>5, <1>6 DEF IInv

\* A keeper's step that only reads.
LEMMA PassReads ==
  ASSUME OneKeeper, IInv, NEW p \in Keepers, NEW g \in Passes, Go(p, g),
         UNCHANGED <<cur, entry, row, chain, faults>>, PassOK(g)
  PROVE  IInv'
<1>1. k' = [k EXCEPT ![p] = g] /\ k = [q \in Keepers |-> k[q]]
  BY DEF Go, IInv
<1>2. \A q \in Keepers : k'[q] = g
  BY <1>1 DEF OneKeeper
<1>3. Ledger'
  BY DEF IInv, TypeOK, Ledger, Entries, Rows, Chains
<1>4. \A j \in Jobs : EntryOK(j)'
  BY DEF IInv, EntryOK
<1>5. \A e \in Epochs : RowOK(e)' /\ ChainOK(e)'
  BY DEF IInv, RowOK, ChainOK, Owned, Booked, OpenA, OpenB
<1>6. PassOK(g)'
  BY DEF PassOK, ClosingOK, DrivingOK, PayingOK, PayloadOK, Booked, OpenA, OpenB
<1> QED
  BY <1>3, <1>4, <1>5, <1>6, PassMoves

\* A step of somebody else, who changes no pass.
LEMMA OthersMove ==
  ASSUME IInv, UNCHANGED k, Ledger', \A j \in Jobs : EntryOK(j)',
         \A e \in Epochs : RowOK(e)' /\ ChainOK(e)',
         \A h \in Passes : PassOK(h) => PassOK(h)'
  PROVE  IInv'
<1>1. \A q \in Keepers : k'[q] = k[q] /\ PassOK(k[q]) /\ k[q] \in Passes
  BY SMTT(60) DEF IInv
<1>2. ASSUME NEW q \in Keepers PROVE PassOK(k[q])'
  <2>1. PICK h \in Passes : h = k[q] /\ h = k'[q] /\ PassOK(h)
    BY <1>1
  <2>2. PassOK(h)'
    BY <2>1
  <2> QED
    BY <2>1, <2>2 DEF PassOK, ClosingOK, DrivingOK, PayingOK, PayloadOK
<1>3. TypeOK'
  BY <1>1 DEF Ledger, TypeOK, Entries, Rows, Chains, Passes
<1> QED
  BY <1>1, <1>2, <1>3 DEF IInv

\* A pass between two epochs, or one that ends, has only its payloads to keep.
LEMMA Quiet ==
  ASSUME NEW h, NEW g, PassOK(h), g.pc \in {"idle", "look", "move", "next"},
         \A e \in Epochs : g.work[e].st # "none" => g.work[e] = h.work[e] /\ ~(h.e = e /\ h.pc \in Marked)
  PROVE  PassOK(g)
<1>1. ClosingOK(g) /\ DrivingOK(g) /\ PayingOK(g)
  BY DEF ClosingOK, DrivingOK, PayingOK, AtEpoch, Marked, Paying
<1>2. \A e \in Epochs : PayloadOK(g, e)
  BY DEF PassOK, PayloadOK
<1> QED
  BY <1>1, <1>2 DEF PassOK

\* A pass that is done with its epoch, whatever became of that epoch.
LEMMA DoneWith ==
  ASSUME NEW h, NEW g, PassOK(h), g.pc = "next",
         \A e \in Epochs : g.work[e].st # "none" => g.work[e] = h.work[e] /\ h.e # e,
         \A e \in Epochs : e # h.e => row'[e] = row[e] /\ chain'[e].root = chain[e].root
  PROVE  PassOK(g)'
<1>1. (ClosingOK(g) /\ DrivingOK(g) /\ PayingOK(g))'
  BY DEF ClosingOK, DrivingOK, PayingOK, AtEpoch, Marked, Paying
<1>2. \A e \in Epochs : PayloadOK(g, e)'
  BY DEF PassOK, PayloadOK
<1> QED
  BY <1>1, <1>2 DEF PassOK

\* Fields of a pass.
LEMMA PassShape ==
  ASSUME NEW h \in Passes
  PROVE  /\ h.pc \in Pcs /\ h.todo \in SUBSET Epochs /\ h.e \in 0..MaxEpoch /\ h.leaves \in SUBSET Jobs
         /\ h.fees \in SUBSET Jobs /\ h.work \in [Epochs -> Payloads] /\ h.claims \in SUBSET Jobs
         /\ h.vesting \in BOOLEAN /\ h.now \in 0..MaxEpoch /\ h.old \in SUBSET SUBSET Jobs
         /\ \A pc \in Pcs : [h EXCEPT !.pc = pc] \in Passes
BY DEF Passes

\* The pass that is done with its epoch forgets its payload.
LEMMA DoneShape ==
  ASSUME NEW p \in Keepers, k[p] \in Passes
  PROVE  /\ Done(p) \in Passes /\ Done(p).pc = "next"
         /\ \A e \in Epochs : Done(p).work[e].st # "none" => Done(p).work[e] = k[p].work[e] /\ k[p].e # e
<1>1. PICK w \in [Epochs -> Payloads] : w = [k[p].work EXCEPT ![k[p].e] = NoPayload]
  <2>1. NoPayload \in Payloads
    BY DEF NoPayload, Payloads
  <2> QED
    BY <2>1, PassShape
<1>2. Done(p) = [k[p] EXCEPT !.pc = "next", !.work = w, !.claims = {}]
  BY <1>1 DEF Done
<1>3. Done(p) \in Passes /\ Done(p).pc = "next" /\ Done(p).work = w
  BY ZenonT(60), <1>2 DEF Passes, Pcs
<1>4. \A e \in Epochs : w[e].st # "none" => w[e] = k[p].work[e] /\ k[p].e # e
  BY <1>1, PassShape DEF NoPayload
<1> QED
  BY <1>3, <1>4

\* The epoch a pass gives up is over for it; nothing else changed.
LEMMA GivesUp ==
  ASSUME OneKeeper, IInv, NEW p \in Keepers, Go(p, Done(p)), UNCHANGED <<cur, entry, row, chain, faults>>
  PROVE  IInv'
<1>1. k[p] \in Passes /\ PassOK(k[p])
  BY DEF IInv
<1>2. PICK g \in Passes : g = Done(p)
  BY <1>1, DoneShape
<1>3. PassOK(g)
  <2>1. g.pc = "next" /\ \A e \in Epochs : g.work[e].st # "none" => g.work[e] = k[p].work[e] /\ k[p].e # e
    BY <1>1, <1>2, DoneShape
  <2> QED
    BY <1>1, <2>1, Quiet
<1> QED
  BY <1>2, <1>3, PassReads

\* A pass that dies.
LEMMA IdleShape == Idle \in Passes /\ PassOK(Idle)
<1>1. NoPayload \in Payloads
  BY DEF NoPayload, Payloads
<1>2. Idle \in Passes
  BY <1>1, KeeperAssumption DEF Idle, Passes, Pcs
<1>3. PassOK(Idle)
  BY DEF PassOK, ClosingOK, DrivingOK, PayingOK, PayloadOK, AtEpoch, Marked, Paying, Idle, NoPayload
<1> QED
  BY <1>2, <1>3

\* A keeper takes the least of a set of epochs.
LEMMA MinEpoch ==
  ASSUME NEW S \in SUBSET Epochs, S # {}
  PROVE  Min(S) \in S
<1>1. MaxEpoch \in Nat
  BY KeeperAssumption
<1>2. IsWellFoundedOn(StrictSubsetOrdering(Epochs), SUBSET Epochs)
  <2>1. IsFiniteSet(Epochs)
    BY <1>1, FS_Interval DEF Epochs
  <2> QED
    BY <2>1, FS_StrictSubsetOrderingWellFounded, FS_FiniteSubsetsOfFinite
<1>3. PICK T : T = {1..e : e \in S}
  OBVIOUS
<1>4. T \subseteq SUBSET Epochs /\ T # {}
  <2>1. \A e \in Epochs : (1..e) \subseteq Epochs
    BY <1>1 DEF Epochs
  <2> QED
    BY <1>3, <2>1, Zenon
<1>5. PICK I \in T : \A J \in T : ~ (<<J, I>> \in StrictSubsetOrdering(Epochs))
  BY <1>2, <1>4, WFMin
<1>6. PICK e \in S : I = 1..e
  BY <1>3, <1>5
<1>7. ASSUME NEW f \in S, ~(e =< f) PROVE FALSE
  <2>1. e \in Nat /\ f \in Nat /\ f < e
    BY <1>1, <1>7 DEF Epochs
  <2>2. (1..f) \subseteq (1..e) /\ e \in 1..e /\ e \notin 1..f
    BY <1>1, <2>1 DEF Epochs
  <2>3. 1..f \in T /\ 1..f # I
    BY <1>3, <1>6, <2>2
  <2> QED
    BY <1>4, <1>5, <1>6, <2>2, <2>3 DEF StrictSubsetOrdering
<1> QED
  BY <1>7 DEF Min

-----------------------------------------------------------------------------
(* What a pass reads: no row, entry or epoch of the contract changes. *)

\* The pass of a keeper is one, and sound.
LEMMA Known ==
  ASSUME IInv, NEW p \in Keepers
  PROVE  /\ k[p] \in Passes /\ PassOK(k[p]) /\ cur \in Epochs /\ cur \in 0..MaxEpoch
         /\ Ledger
         /\ \A e \in Epochs : /\ RowOK(e) /\ ChainOK(e) /\ row[e].st \in {"open", "closed", "posted", "settled", "vetoed"}
                             /\ row[e].root \in SUBSET Jobs /\ row[e].fees \in SUBSET Jobs
                             /\ row[e].vetoedRoot \in SUBSET SUBSET Jobs /\ chain[e].root \in SUBSET Jobs
                             /\ chain[e].vested \in BOOLEAN
<1>1. cur \in 0..MaxEpoch
  BY KeeperAssumption DEF IInv, TypeOK, Epochs
<1> QED
  BY <1>1 DEF IInv, TypeOK, Ledger, Entries, Rows, Chains

\* closeEpochs starts, or finds late entries.
LEMMA CloseStartStep ==
  ASSUME OneKeeper, IInv, NEW p \in Keepers, CloseStart(p)
  PROVE  IInv'
<1>0. k[p] \in Passes /\ cur \in 0..MaxEpoch
  BY Known
<1>1. PICK todo \in SUBSET Epochs, now \in 0..MaxEpoch :
        Go(p, [k[p] EXCEPT !.pc = "look", !.now = now, !.todo = todo])
  BY <1>0 DEF CloseStart, At
<1>2. PICK g : g = [k[p] EXCEPT !.pc = "look", !.now = now, !.todo = todo]
  OBVIOUS
<1>3. g \in Passes /\ g.pc = "look" /\ g.work = k[p].work
  BY <1>0, <1>2 DEF Passes, Pcs
<1>4. PassOK(g)
  BY <1>3, Known, Quiet DEF CloseStart, Marked
<1> QED
  BY <1>1, <1>2, <1>3, <1>4, PassReads DEF CloseStart

\* A row that is open or vetoed is closed, any other one's late entries move on.
LEMMA CloseLookStep ==
  ASSUME OneKeeper, IInv, NEW p \in Keepers, CloseLook(p)
  PROVE  IInv'
<1> DEFINE e == Min(k[p].todo)
<1>1. k[p] \in Passes /\ PassOK(k[p]) /\ k[p].todo \in SUBSET Epochs
  BY Known, PassShape
<1>2. e \in Epochs
  BY <1>1, MinEpoch DEF CloseLook
<1>3. PICK f \in Epochs : f = e
  BY SMTT(60), <1>2
<1>4. PICK pc \in {"sum", "move"}, todo \in SUBSET Epochs :
        /\ pc = "sum" <=> row[f].st \in {"open", "vetoed"}
        /\ Go(p, [k[p] EXCEPT !.pc = pc, !.e = f, !.todo = todo, !.then = row[f].st, !.old = row[f].vetoedRoot])
  <2>1. k[p].todo \ {f} \in SUBSET Epochs
    BY <1>1
  <2>2. Go(p, [k[p] EXCEPT !.pc = IF row[f].st \in {"open", "vetoed"} THEN "sum" ELSE "move", !.e = f,
                 !.todo = k[p].todo \ {f}, !.then = row[f].st, !.old = row[f].vetoedRoot])
    BY SMTT(60), <1>3 DEF CloseLook, At
  <2>3. CASE row[f].st \in {"open", "vetoed"}
    BY <2>1, <2>2, <2>3
  <2>4. CASE row[f].st \notin {"open", "vetoed"}
    BY <2>1, <2>2, <2>4
  <2> QED
    BY <2>3, <2>4
<1>5. PICK g : g = [k[p] EXCEPT !.pc = pc, !.e = f, !.todo = todo, !.then = row[f].st, !.old = row[f].vetoedRoot]
  OBVIOUS
<1>6. /\ g.pc = pc /\ g.e = f /\ g.then = row[f].st /\ g.old = row[f].vetoedRoot /\ g.work = k[p].work
      /\ g \in Passes
  <2>1. f \in 0..MaxEpoch
    BY KeeperAssumption DEF Epochs
  <2> QED
    BY ZenonT(60), <1>1, <1>5, <2>1, Known DEF Passes, Pcs
<1>7. PassOK(g)
  <2>1. CASE pc = "move"
    BY <1>1, <1>6, <2>1, Quiet DEF CloseLook, Marked
  <2>2. CASE pc = "sum"
    <3>1. ClosingOK(g) /\ DrivingOK(g) /\ PayingOK(g)
      BY SMTT(60), <1>4, <1>6, <2>2 DEF ClosingOK, DrivingOK, PayingOK, AtEpoch, Marked, Paying
    <3>2. \A x \in Epochs : PayloadOK(g, x)
      BY <1>1, <1>6 DEF PassOK, PayloadOK, CloseLook, Marked
    <3> QED
      BY <3>1, <3>2 DEF PassOK
  <2> QED
    BY <2>1, <2>2
<1> QED
  BY <1>4, <1>5, <1>6, <1>7, PassReads DEF CloseLook

\* A step inside the closing of an epoch that keeps what it read before.
LEMMA CloseSumStep ==
  ASSUME OneKeeper, IInv, NEW p \in Keepers, CloseSum(p)
  PROVE  IInv'
<1>1. k[p] \in Passes /\ PassOK(k[p]) /\ k[p].pc = "sum"
  BY Known DEF CloseSum
<1>2. PICK leaves \in SUBSET Jobs : leaves = PayIn(k[p].e, "pending")
  BY DEF PayIn
<1>3. PICK g : g = [k[p] EXCEPT !.pc = "totals", !.leaves = leaves] /\ Go(p, g)
  BY <1>2 DEF CloseSum, At
<1>4. g \in Passes /\ g.pc = "totals" /\ g.leaves = leaves /\ g.e = k[p].e /\ g.then = k[p].then
      /\ g.old = k[p].old /\ g.work = k[p].work
  BY <1>1, <1>2, <1>3 DEF Passes, Pcs
<1>5. \A j \in leaves : Booked(j) = k[p].e /\ entry[j].st = "pending" /\ entry[j].tre = "pending"
  BY <1>2 DEF PayIn, IInv, EntryOK
<1>6. PassOK(g)
  <2>1. ClosingOK(g)
    BY <1>1, <1>4, <1>5 DEF PassOK, ClosingOK
  <2>2. DrivingOK(g) /\ PayingOK(g) /\ \A x \in Epochs : PayloadOK(g, x)
    BY <1>1, <1>4 DEF PassOK, DrivingOK, PayingOK, PayloadOK, AtEpoch, Marked, Paying
  <2> QED
    BY <2>1, <2>2 DEF PassOK
<1> QED
  BY <1>2, <1>3, <1>4, <1>6, PassReads DEF CloseSum

\* Every leaf's job has its fee counted: its treasury entry is still pending.
LEMMA CloseTotalsStep ==
  ASSUME OneKeeper, IInv, NEW p \in Keepers, CloseTotals(p)
  PROVE  IInv'
<1>1. k[p] \in Passes /\ PassOK(k[p]) /\ k[p].pc = "totals" /\ k[p].leaves \in SUBSET Jobs
  BY Known, PassShape DEF CloseTotals
<1>2. PICK fees \in SUBSET Jobs : fees = FeeJobs(k[p].e)
  BY DEF FeeJobs, PendingIn
<1>3. PICK g : g = [k[p] EXCEPT !.pc = "write", !.fees = fees] /\ Go(p, g)
  BY <1>2 DEF CloseTotals, At
<1>4. g \in Passes /\ g.pc = "write" /\ g.leaves = k[p].leaves /\ g.e = k[p].e /\ g.then = k[p].then
      /\ g.old = k[p].old /\ g.work = k[p].work /\ g.fees = fees
  BY <1>1, <1>2, <1>3 DEF Passes, Pcs
<1>5. k[p].leaves \subseteq fees
  BY <1>1, <1>2 DEF PassOK, ClosingOK, FeeJobs, PendingIn
<1>6. PassOK(g)
  <2>1. ClosingOK(g)
    BY <1>1, <1>4, <1>5 DEF PassOK, ClosingOK
  <2>2. DrivingOK(g) /\ PayingOK(g) /\ \A x \in Epochs : PayloadOK(g, x)
    BY <1>1, <1>4 DEF PassOK, DrivingOK, PayingOK, PayloadOK, AtEpoch, Marked, Paying
  <2> QED
    BY <2>1, <2>2 DEF PassOK
<1> QED
  BY <1>2, <1>3, <1>4, <1>6, PassReads DEF CloseTotals

\* The list holds the rows as they are, and what this pass closed.
LEMMA ListStep ==
  ASSUME OneKeeper, IInv, NEW p \in Keepers, List(p)
  PROVE  IInv'
<1>1. k[p] \in Passes /\ PassOK(k[p]) /\ k[p].pc = "look" /\ k[p].work \in [Epochs -> Payloads]
  BY Known, PassShape DEF List
<1>2. PICK w : w = [e \in Epochs |-> IF row[e].st \in {"closed", "posted"} THEN Payload(e) ELSE k[p].work[e]]
  OBVIOUS
<1>3. \A e \in Epochs : row[e].st \in {"closed", "posted"} => Payload(e) \in Payloads
  BY Known DEF Payload, Payloads
<1>4. w \in [Epochs -> Payloads]
  BY <1>1, <1>2, <1>3
<1>5. PICK g : g = [k[p] EXCEPT !.pc = "next", !.work = w] /\ Go(p, g)
  BY <1>2 DEF List, At
<1>6. g \in Passes /\ g.pc = "next" /\ g.work = w
  BY <1>1, <1>4, <1>5 DEF Passes, Pcs
<1>7. PassOK(g)
  <2>1. ClosingOK(g) /\ DrivingOK(g) /\ PayingOK(g)
    BY <1>6 DEF ClosingOK, DrivingOK, PayingOK, AtEpoch, Marked, Paying
  <2>2. ASSUME NEW e \in Epochs PROVE PayloadOK(g, e)
    <3>1. CASE row[e].st \in {"closed", "posted"}
      <4>1. w[e] = Payload(e)
        BY <1>2, <3>1
      <4> QED
        BY <1>6, <3>1, <4>1 DEF Payload, PayloadOK
    <3>2. CASE row[e].st \notin {"closed", "posted"}
      <4>1. w[e] = k[p].work[e]
        BY <1>2, <3>2
      <4> QED
        BY <1>1, <1>6, <3>2, <4>1 DEF PassOK, PayloadOK
    <3> QED
      BY <3>1, <3>2
  <2> QED
    BY <2>1, <2>2 DEF PassOK
<1> QED
  BY <1>5, <1>6, <1>7, PassReads DEF List

\* A pass that has nothing left to do.
LEMMA PassEndsStep ==
  ASSUME OneKeeper, IInv, NEW p \in Keepers, PassEnds(p)
  PROVE  IInv'
BY IdleShape, PassReads DEF PassEnds

\* processEpoch's decision says what the chain and the payload were.
LEMMA DecisionIs ==
  ASSUME NEW e \in Epochs, NEW q, chain[e].st \in {"None", "Posted", "Vetoed", "Finalized"}
  PROVE  /\ Decision(e, q) \in {"skip", "tellVeto", "post", "wait", "finalize", "flags"}
         /\ Decision(e, q) = "tellVeto" => chain[e].st = "Vetoed" /\ chain[e].root = q.root
         /\ Decision(e, q) = "post" =>
              /\ chain[e].st \in {"None", "Vetoed"} /\ q.st # "posted"
              /\ chain[e].st = "Vetoed" => chain[e].root # q.root
         /\ Decision(e, q) \in {"wait", "finalize", "flags"} =>
              chain[e].st \in {"Posted", "Finalized"} /\ chain[e].root = q.root
         /\ Decision(e, q) = "flags" => chain[e].st = "Finalized"
<1> DEFINE d == Decision(e, q)
<1>1. CASE q.root = {} /\ q.fees = {}
  <2>1. d = "skip"
    BY <1>1 DEF Decision
  <2> QED
    BY <2>1
<1>2. CASE ~(q.root = {} /\ q.fees = {}) /\ SameVetoedRoot(e, q)
  <2>1. d = IF q.root = {} THEN "skip" ELSE "tellVeto"
    BY <1>2 DEF Decision
  <2> QED
    BY <1>2, <2>1 DEF SameVetoedRoot
<1>3. CASE ~(q.root = {} /\ q.fees = {}) /\ ~SameVetoedRoot(e, q) /\ chain[e].st \in {"None", "Vetoed"}
  <2>1. d = IF q.st = "posted" THEN "skip" ELSE "post"
    BY <1>3 DEF Decision
  <2> QED
    BY <1>3, <2>1 DEF SameVetoedRoot
<1>4. CASE ~(q.root = {} /\ q.fees = {}) /\ ~SameVetoedRoot(e, q) /\ chain[e].st \in {"Posted", "Finalized"}
  <2>1. /\ chain[e].root # q.root => d = "skip"
        /\ chain[e].root = q.root /\ chain[e].st = "Posted" => d = IF chain[e].ripe THEN "finalize" ELSE "wait"
        /\ chain[e].root = q.root /\ chain[e].st = "Finalized" => d = "flags"
    BY <1>4 DEF Decision
  <2> QED
    BY <1>4, <2>1
<1> QED
  BY <1>1, <1>2, <1>3, <1>4

\* A payload is dropped, reported, posted, finalized or paid as the chain says.
LEMMA ReadChainStep ==
  ASSUME OneKeeper, IInv, NEW p \in Keepers, ReadChain(p)
  PROVE  IInv'
<1> DEFINE S == {x \in Epochs : k[p].work[x].st # "none"}
<1>1. k[p] \in Passes /\ PassOK(k[p]) /\ k[p].pc = "next" /\ k[p].work \in [Epochs -> Payloads]
  BY ZenonT(60), Known, PassShape DEF ReadChain
<1>2. S \in SUBSET Epochs /\ S # {}
  BY DEF ReadChain
<1>3. Min(S) \in S
  BY <1>2, MinEpoch
<1>4. PICK e \in Epochs : e = Min(S) /\ k[p].work[e].st # "none"
  BY <1>3
<1>5. e \in 0..MaxEpoch /\ k[p].work[e] \in Payloads
  BY <1>1, KeeperAssumption DEF Epochs
<1>6. PICK d : d = Decision(e, k[p].work[e])
  OBVIOUS
<1>7. chain[e].st \in {"None", "Posted", "Vetoed", "Finalized"}
  BY DEF IInv, TypeOK
<1>8. /\ d \in {"skip", "tellVeto", "post", "wait", "finalize", "flags"}
      /\ d = "tellVeto" => chain[e].st = "Vetoed" /\ chain[e].root = k[p].work[e].root
      /\ d = "post" =>
           /\ chain[e].st \in {"None", "Vetoed"} /\ k[p].work[e].st # "posted"
           /\ chain[e].st = "Vetoed" => chain[e].root # k[p].work[e].root
      /\ d \in {"wait", "finalize", "flags"} =>
           chain[e].st \in {"Posted", "Finalized"} /\ chain[e].root = k[p].work[e].root
      /\ d = "flags" => chain[e].st = "Finalized"
  BY <1>6, <1>7, DecisionIs
<1>9. \/ Go(p, [[k[p] EXCEPT !.e = e] EXCEPT !.work[e] = NoPayload])
      \/ /\ d \in {"wait", "finalize", "flags"}
         /\ Go(p, [[k[p] EXCEPT !.e = e] EXCEPT !.pc = "tellPosted", !.then = d])
      \/ /\ d \in {"tellVeto", "post", "finalize", "flags"}
         /\ Go(p, [[k[p] EXCEPT !.e = e] EXCEPT !.pc = d])
  BY ZenonT(60), <1>4, <1>6, <1>8, Zenon DEF ReadChain
<1>10. CASE Go(p, [[k[p] EXCEPT !.e = e] EXCEPT !.work[e] = NoPayload])
  <2>1. PICK w \in [Epochs -> Payloads] : w = [k[p].work EXCEPT ![e] = NoPayload]
    BY <1>1 DEF NoPayload, Payloads
  <2>2. [[k[p] EXCEPT !.e = e] EXCEPT !.work[e] = NoPayload] = [k[p] EXCEPT !.e = e, !.work = w]
    BY <1>1, <2>1 DEF Passes
  <2>3. PICK g : g = [k[p] EXCEPT !.e = e, !.work = w] /\ Go(p, g)
    BY <1>10, <2>2
  <2>4. g \in Passes /\ g.pc = "next" /\ g.work = w
    BY <1>1, <1>5, <2>3 DEF Passes
  <2>5. \A x \in Epochs : w[x].st # "none" => w[x] = k[p].work[x]
    BY <1>1, <2>1 DEF NoPayload
  <2>6. PassOK(g)
    BY <1>1, <2>4, <2>5, Quiet DEF Marked
  <2> QED
    BY <2>3, <2>4, <2>6, PassReads DEF ReadChain
<1>11. CASE d \in {"wait", "finalize", "flags"} /\ Go(p, [[k[p] EXCEPT !.e = e] EXCEPT !.pc = "tellPosted", !.then = d])
  <2>1. PICK g : g = [[k[p] EXCEPT !.e = e] EXCEPT !.pc = "tellPosted", !.then = d] /\ Go(p, g)
    BY <1>11
  <2>2. g \in Passes /\ g.pc = "tellPosted" /\ g.work = k[p].work /\ g.e = e /\ g.then = d
    BY ZenonT(60), <1>1, <1>5, <1>11, <2>1 DEF Passes, Pcs
  <2>3. ClosingOK(g) /\ DrivingOK(g) /\ PayingOK(g)
    BY <1>4, <1>8, <1>11, <2>2 DEF ClosingOK, DrivingOK, PayingOK, AtEpoch, Marked, Paying
  <2>4. \A x \in Epochs : PayloadOK(g, x)
    BY SMTT(60), <1>1, <2>2 DEF PassOK, PayloadOK, Marked
  <2> QED
    BY <2>1, <2>2, <2>3, <2>4, PassReads DEF ReadChain, PassOK
<1>12. CASE d \in {"tellVeto", "post", "finalize", "flags"} /\ Go(p, [[k[p] EXCEPT !.e = e] EXCEPT !.pc = d])
  <2>1. PICK g : g = [[k[p] EXCEPT !.e = e] EXCEPT !.pc = d] /\ Go(p, g)
    BY <1>12
  <2>2. g \in Passes /\ g.pc = d /\ g.work = k[p].work /\ g.e = e
    BY <1>1, <1>5, <1>12, <2>1 DEF Passes, Pcs
  <2>3. ClosingOK(g) /\ DrivingOK(g) /\ PayingOK(g)
    BY <1>4, <1>5, <1>8, <1>12, <2>2 DEF ClosingOK, DrivingOK, PayingOK, AtEpoch, Marked, Paying, Payloads
  <2>4. \A x \in Epochs : PayloadOK(g, x)
    BY <1>1, <2>2 DEF PassOK, PayloadOK, Marked
  <2> QED
    BY <2>1, <2>2, <2>3, <2>4, PassReads DEF ReadChain, PassOK
<1> QED
  BY SMTT(60), <1>9, <1>10, <1>11, <1>12

\* The API is told of a post if it still has the epoch closed with that root.
LEMMA TellPostedStep ==
  ASSUME OneKeeper, IInv, NEW p \in Keepers, TellPosted(p)
  PROVE  IInv'
<1>1. k[p] \in Passes /\ PassOK(k[p]) /\ k[p].pc = "tellPosted"
  BY Known DEF TellPosted
<1>2. CASE Go(p, Done(p))
  BY <1>2, GivesUp DEF TellPosted
<1>3. CASE row[k[p].e].st = "closed" /\ Go(p, At(p, "markPosted"))
  <2>1. PICK g : g = At(p, "markPosted") /\ Go(p, g)
    BY <1>3
  <2>2. g \in Passes /\ g.pc = "markPosted" /\ g.work = k[p].work /\ g.e = k[p].e /\ g.then = k[p].then
    BY <1>1, <2>1 DEF At, Passes, Pcs
  <2>3. ClosingOK(g) /\ DrivingOK(g) /\ PayingOK(g)
    BY <1>1, <1>3, <2>2 DEF PassOK, ClosingOK, DrivingOK, PayingOK, AtEpoch, Marked, Paying
  <2>4. \A x \in Epochs : PayloadOK(g, x)
    BY <1>1, <2>2 DEF PassOK, PayloadOK, Marked
  <2> QED
    BY <2>1, <2>2, <2>3, <2>4, PassReads DEF TellPosted, PassOK
<1> QED
  BY <1>2, <1>3 DEF TellPosted

\* A vetoed epoch is reported if the API has it closed or posted.
LEMMA TellVetoStep ==
  ASSUME OneKeeper, IInv, NEW p \in Keepers, TellVeto(p)
  PROVE  IInv'
<1>1. k[p] \in Passes /\ PassOK(k[p]) /\ k[p].pc = "tellVeto"
  BY Known DEF TellVeto
<1>2. CASE Go(p, Done(p))
  BY <1>2, GivesUp DEF TellVeto
<1>3. CASE Go(p, At(p, "markVeto"))
  <2>1. PICK g : g = At(p, "markVeto") /\ Go(p, g)
    BY <1>3
  <2>2. g \in Passes /\ g.pc = "markVeto" /\ g.work = k[p].work /\ g.e = k[p].e
    BY <1>1, <2>1 DEF At, Passes, Pcs
  <2>3. ClosingOK(g) /\ DrivingOK(g) /\ PayingOK(g)
    BY <1>1, <2>2 DEF PassOK, ClosingOK, DrivingOK, PayingOK, AtEpoch, Marked, Paying
  <2>4. \A x \in Epochs : PayloadOK(g, x)
    BY <1>1, <2>2 DEF PassOK, PayloadOK, Marked
  <2> QED
    BY <2>1, <2>2, <2>3, <2>4, PassReads DEF TellVeto, PassOK
<1> QED
  BY <1>2, <1>3 DEF TellVeto

\* The flags that claimAll read: what is open then is on its list, or vesting.
LEMMA ReadFlagsStep ==
  ASSUME OneKeeper, IInv, NEW p \in Keepers, ReadFlags(p)
  PROVE  IInv'
<1>1. k[p] \in Passes /\ PassOK(k[p]) /\ k[p].pc = "flags"
  BY Known DEF ReadFlags
<1>2. PICK e : e = k[p].e /\ e \in Epochs
  BY <1>1 DEF PassOK, DrivingOK, AtEpoch, Marked
<1>3. OpenA(e) \in SUBSET Jobs /\ OpenB(e) \in SUBSET Jobs /\ chain[e].vested \in BOOLEAN
  BY <1>2, Known DEF OpenA, OpenB
<1>4. PICK claims \in SUBSET Jobs, vesting \in BOOLEAN :
        /\ claims = OpenA(e) \cup (IF chain[e].vested THEN OpenB(e) ELSE {})
        /\ vesting = StillVesting(e)
  BY <1>3 DEF StillVesting
<1>5. PICK g : g = [k[p] EXCEPT !.pc = "claim", !.vesting = vesting, !.claims = claims] /\ Go(p, g)
  BY <1>2, <1>4 DEF ReadFlags, At
<1>6. g \in Passes /\ g.pc = "claim" /\ g.work = k[p].work /\ g.e = e /\ g.claims = claims /\ g.vesting = vesting
  BY <1>1, <1>2, <1>5 DEF Passes, Pcs
<1>7. ClosingOK(g) /\ DrivingOK(g)
  BY <1>1, <1>2, <1>6 DEF PassOK, ClosingOK, DrivingOK, AtEpoch, Marked
<1>8. PayingOK(g)
  BY <1>1, <1>2, <1>3, <1>4, <1>6 DEF PassOK, PayingOK, Paying, StillVesting
<1>9. \A x \in Epochs : PayloadOK(g, x)
  BY <1>1, <1>2, <1>6 DEF PassOK, PayloadOK, Marked
<1> QED
  BY <1>5, <1>6, <1>7, <1>8, <1>9, PassReads DEF ReadFlags, PassOK

\* All claimed: nothing is open unless lane B still vests.
LEMMA ClaimsDoneStep ==
  ASSUME OneKeeper, IInv, NEW p \in Keepers, ClaimsDone(p)
  PROVE  IInv'
<1>1. k[p] \in Passes /\ PassOK(k[p]) /\ k[p].pc = "claim" /\ k[p].claims = {} /\ k[p].vesting \in BOOLEAN
  BY Known, PassShape DEF ClaimsDone
<1>2. CASE k[p].vesting
  BY <1>2, GivesUp DEF ClaimsDone
<1>3. CASE ~k[p].vesting
  <2>1. PICK g : g = At(p, "tellSettled") /\ Go(p, g)
    BY <1>3 DEF ClaimsDone
  <2>2. g \in Passes /\ g.pc = "tellSettled" /\ g.work = k[p].work /\ g.e = k[p].e
    BY <1>1, <2>1 DEF At, Passes, Pcs
  <2>3. ClosingOK(g) /\ DrivingOK(g) /\ PayingOK(g)
    BY <1>1, <1>3, <2>2 DEF PassOK, ClosingOK, DrivingOK, PayingOK, AtEpoch, Marked, Paying
  <2>4. \A x \in Epochs : PayloadOK(g, x)
    BY <1>1, <2>2 DEF PassOK, PayloadOK, Marked
  <2> QED
    BY <2>1, <2>2, <2>3, <2>4, PassReads DEF ClaimsDone, PassOK
<1> QED
  BY <1>2, <1>3

\* The API is told that all is paid if it has the epoch posted.
LEMMA TellSettledStep ==
  ASSUME OneKeeper, IInv, NEW p \in Keepers, TellSettled(p)
  PROVE  IInv'
<1>1. k[p] \in Passes /\ PassOK(k[p]) /\ k[p].pc = "tellSettled"
  BY Known DEF TellSettled
<1>2. CASE Go(p, Done(p))
  BY <1>2, GivesUp DEF TellSettled
<1>3. CASE Go(p, At(p, "markSettled"))
  <2>1. PICK g : g = At(p, "markSettled") /\ Go(p, g)
    BY <1>3
  <2>2. g \in Passes /\ g.pc = "markSettled" /\ g.work = k[p].work /\ g.e = k[p].e
    BY <1>1, <2>1 DEF At, Passes, Pcs
  <2>3. ClosingOK(g) /\ DrivingOK(g) /\ PayingOK(g)
    BY <1>1, <2>2 DEF PassOK, ClosingOK, DrivingOK, PayingOK, AtEpoch, Marked, Paying
  <2>4. \A x \in Epochs : PayloadOK(g, x)
    BY <1>1, <2>2 DEF PassOK, PayloadOK, Marked
  <2> QED
    BY <2>1, <2>2, <2>3, <2>4, PassReads DEF TellSettled, PassOK
<1> QED
  BY <1>2, <1>3 DEF TellSettled

-----------------------------------------------------------------------------
(* What a pass writes to the API's ledger. *)

\* Entries may move as long as what is owned stays owned.
LEMMA EntriesKeep ==
  ASSUME IInv, UNCHANGED <<row, chain>>, \A e \in Epochs, j \in Jobs : Owned(e, j) => Owned(e, j)'
  PROVE  \A e \in Epochs : RowOK(e)' /\ ChainOK(e)'
<1> SUFFICES ASSUME NEW e \in Epochs PROVE RowOK(e)' /\ ChainOK(e)'
  OBVIOUS
<1>1. RowOK(e) /\ ChainOK(e) /\ row[e].root \in SUBSET Jobs /\ chain[e].root \in SUBSET Jobs
  BY DEF IInv, TypeOK
<1>2. RowOK(e)'
  BY <1>1 DEF RowOK, OpenA, OpenB
<1>3. ChainOK(e)'
  BY <1>1 DEF ChainOK
<1> QED
  BY <1>2, <1>3

\* Only pending entries move on, and what an epoch owns is pending no more.
LEMMA CloseMoveStep ==
  ASSUME OneKeeper, IInv, NEW p \in Keepers, CloseMove(p)
  PROVE  IInv'
<1>1. k[p] \in Passes /\ PassOK(k[p]) /\ k[p].pc = "move" /\ k[p].now \in 0..MaxEpoch /\ Ledger
  BY Known, PassShape DEF CloseMove
<1>2. PICK now \in 0..MaxEpoch : now = LateTo(p)
  BY <1>1 DEF LateTo
<1>3. entry' = [j \in Jobs |-> IF j \in PendingIn(k[p].e) THEN [entry[j] EXCEPT !.epoch = now] ELSE entry[j]]
  BY <1>2 DEF CloseMove
<1>4. Ledger'
  BY <1>1, <1>3 DEF CloseMove, Ledger, Entries
<1>5. \A j \in Jobs : EntryOK(j)'
  BY <1>1, <1>3 DEF IInv, EntryOK, Ledger, Entries
<1>6. \A e \in Epochs, j \in Jobs : Owned(e, j) => Owned(e, j)'
  BY <1>1, <1>3 DEF Owned, PendingIn, Booked
<1>7. PICK g : g = At(p, "look") /\ Go(p, g)
  BY DEF CloseMove
<1>8. g \in Passes /\ g.pc = "look" /\ g.work = k[p].work
  BY <1>1, <1>7 DEF At, Passes, Pcs
<1>9. PassOK(g)
  BY <1>1, <1>8, Quiet DEF Marked
<1>10. PassOK(g)'
  <2>1. (ClosingOK(g) /\ DrivingOK(g) /\ PayingOK(g))'
    BY <1>8 DEF ClosingOK, DrivingOK, PayingOK, AtEpoch, Marked, Paying
  <2>2. \A e \in Epochs : PayloadOK(g, e)'
    BY <1>9 DEF PassOK, PayloadOK, CloseMove
  <2> QED
    BY <2>1, <2>2 DEF PassOK
<1> QED
  BY <1>4, <1>5, <1>6, <1>7, <1>8, <1>10, EntriesKeep, PassMoves DEF CloseMove

\* The batch's UPDATE of the entries.
LEMMA PostsEntries ==
  ASSUME Ledger, NEW e, entry' = AllPosted(e)
  PROVE  /\ entry' \in [Jobs -> Entries]
         /\ \A j \in Jobs :
              /\ Booked(j)' = Booked(j) /\ (Booked(j) # e => entry'[j] = entry[j])
              /\ Booked(j) = e => /\ entry'[j].st = IF entry[j].st = "pending" THEN "posted" ELSE entry[j].st
                                 /\ entry'[j].tre = IF entry[j].tre = "pending" THEN "posted" ELSE entry[j].tre
<1>1. ASSUME NEW j \in Jobs
      PROVE  /\ entry'[j] \in Entries /\ entry'[j].epoch = entry[j].epoch /\ (entry[j].epoch # e => entry'[j] = entry[j])
             /\ entry[j].epoch = e => /\ entry'[j].st = IF entry[j].st = "pending" THEN "posted" ELSE entry[j].st
                                     /\ entry'[j].tre = IF entry[j].tre = "pending" THEN "posted" ELSE entry[j].tre
  <2>1. entry[j] \in Entries
    BY DEF Ledger
  <2>2. PICK st, tre : /\ st = (IF entry[j].st = "pending" THEN "posted" ELSE entry[j].st)
                       /\ tre = (IF entry[j].tre = "pending" THEN "posted" ELSE entry[j].tre)
    OBVIOUS
  <2>3. entry'[j] = IF entry[j].epoch # e THEN entry[j] ELSE [entry[j] EXCEPT !.st = st, !.tre = tre]
    BY <2>2 DEF AllPosted, Booked
  <2> QED
    BY <2>1, <2>2, <2>3 DEF Entries
<1>2. entry' = [j \in Jobs |-> entry'[j]]
  BY DEF AllPosted
<1> QED
  BY <1>1, <1>2 DEF Booked

\* closeEpochs' batch: the leaves' jobs become owned by the epoch that closes.
LEMMA ClosesEpoch ==
  ASSUME OneKeeper, IInv, NEW p \in Keepers, k[p].pc = "write", NEW e \in Epochs, e = k[p].e,
         NEW r \in Rows, r.st = "closed", r.root = k[p].leaves, r.fees = k[p].fees, r.vetoedRoot = row[e].vetoedRoot,
         NEW q \in Payloads, q.st = "closed", q.root = k[p].leaves,
         NEW g \in Passes, g.pc = "look", g.work = [k[p].work EXCEPT ![e] = q], Go(p, g),
         row' = [row EXCEPT ![e] = r], entry' = AllPosted(e), UNCHANGED <<cur, chain, faults>>
  PROVE  IInv'
<1>1. k[p] \in Passes /\ PassOK(k[p]) /\ k[p].work \in [Epochs -> Payloads] /\ Ledger
      /\ k[p].leaves \in SUBSET Jobs /\ k[p].fees \in SUBSET Jobs
  BY Known, PassShape
<1>7. r.st = "closed" /\ r.root = k[p].leaves /\ r.fees = k[p].fees /\ r.vetoedRoot = row[e].vetoedRoot
  OBVIOUS
<1>8. \A x \in Epochs : row'[x] = IF x = e THEN r ELSE row[x]
  BY <1>1 DEF Ledger
<1>9. /\ entry' \in [Jobs -> Entries]
      /\ \A j \in Jobs :
           /\ Booked(j)' = Booked(j) /\ (Booked(j) # e => entry'[j] = entry[j])
           /\ Booked(j) = e => /\ entry'[j].st = IF entry[j].st = "pending" THEN "posted" ELSE entry[j].st
                              /\ entry'[j].tre = IF entry[j].tre = "pending" THEN "posted" ELSE entry[j].tre
  BY <1>1, PostsEntries
<1>10. Ledger'
  BY <1>1, <1>7, <1>9 DEF Ledger
<1>11. \A j \in Jobs : EntryOK(j)'
  BY <1>9 DEF IInv, EntryOK
<1>12. \A x \in Epochs, j \in Jobs : Owned(x, j) => Owned(x, j)'
  BY <1>9 DEF Owned
<1>13. \A j \in k[p].leaves : Owned(e, j)'
  BY <1>1, <1>9 DEF PassOK, ClosingOK, Owned
<1>14. ASSUME NEW x \in Epochs PROVE RowOK(x)' /\ ChainOK(x)'
  <2>1. RowOK(x) /\ ChainOK(x) /\ row[x].root \in SUBSET Jobs /\ chain[x].root \in SUBSET Jobs
    BY Known
  <2>2. CASE x = e
    <3>1. row[e].st \in {"open", "vetoed"} /\ k[p].leaves \subseteq k[p].fees
      BY <1>1 DEF PassOK, ClosingOK
    <3>2. chain[e].st \in {"None", "Vetoed"}
      BY <2>1, <2>2, <3>1 DEF RowOK
    <3>3. RowOK(e)'
      BY <1>7, <1>8, <1>13, <3>1 DEF RowOK
    <3> QED
      BY <2>2, <3>2, <3>3 DEF ChainOK
  <2>3. CASE x # e
    <3>1. row'[x] = row[x] /\ chain'[x] = chain[x]
      BY <1>8, <2>3
    <3>2. RowOK(x)'
      BY <1>12, <2>1, <3>1 DEF RowOK, OpenA, OpenB
    <3>3. ChainOK(x)'
      BY <1>12, <2>1, <3>1 DEF ChainOK
    <3> QED
      BY <3>2, <3>3
  <2> QED
    BY <2>2, <2>3
<1>15. PassOK(g)'
  <2>1. (ClosingOK(g) /\ DrivingOK(g) /\ PayingOK(g))'
    BY DEF ClosingOK, DrivingOK, PayingOK, AtEpoch, Marked, Paying
  <2>2. ASSUME NEW x \in Epochs PROVE PayloadOK(g, x)'
    <3>1. CASE x = e
      <4>1. g.work[x] = q /\ row'[x] = r
        BY <1>1, <1>8, <3>1
      <4> QED
        BY <4>1 DEF PayloadOK
    <3>2. CASE x # e
      <4>1. g.work[x] = k[p].work[x] /\ row'[x] = row[x] /\ chain'[x] = chain[x]
        BY <1>1, <1>8, <3>2
      <4>2. PayloadOK(k[p], x)
        BY <1>1 DEF PassOK
      <4> QED
        BY <4>1, <4>2 DEF PayloadOK, Marked
    <3> QED
      BY <3>1, <3>2
  <2> QED
    BY <2>1, <2>2 DEF PassOK
<1> QED
  BY <1>10, <1>11, <1>14, <1>15, PassMoves

\* The last statement of a close: parked, refused, or written.
LEMMA CloseWriteStep ==
  ASSUME OneKeeper, IInv, NEW p \in Keepers, CloseWrite(p)
  PROVE  IInv'
<1> DEFINE e == k[p].e
<1>1. k[p] \in Passes /\ PassOK(k[p]) /\ k[p].pc = "write"
  BY Known DEF CloseWrite
<1>2. e \in Epochs /\ row[e].st = k[p].then
  BY <1>1 DEF PassOK, ClosingOK
<1>3. \/ Go(p, At(p, "look")) /\ UNCHANGED <<entry, row>>
      \/ Go(p, Idle) /\ UNCHANGED <<entry, row>>
      \/ /\ k[p].then = "vetoed" => k[p].leaves \notin k[p].old
         /\ row' = [row EXCEPT ![e] = [row[e] EXCEPT !.st = "closed", !.root = k[p].leaves, !.fees = k[p].fees]]
         /\ entry' = AllPosted(e)
         /\ Go(p, [At(p, "look") EXCEPT !.work[e] = [st |-> "closed", root |-> k[p].leaves, fees |-> k[p].fees]])
  BY <1>2, Zenon DEF CloseWrite
<1>4. UNCHANGED <<cur, chain, faults>>
  BY DEF CloseWrite
<1>5. CASE Go(p, At(p, "look")) /\ UNCHANGED <<entry, row>>
  <2>1. PICK g : g = At(p, "look") /\ Go(p, g)
    BY <1>5
  <2>2. g \in Passes /\ g.pc = "look" /\ g.work = k[p].work
    BY <1>1, <2>1 DEF At, Passes, Pcs
  <2>3. PassOK(g)
    BY <1>1, <2>2, Quiet DEF Marked
  <2> QED
    BY <1>4, <1>5, <2>1, <2>2, <2>3, PassReads
<1>6. CASE Go(p, Idle) /\ UNCHANGED <<entry, row>>
  BY <1>4, <1>6, IdleShape, PassReads
<1>7. ASSUME /\ k[p].then = "vetoed" => k[p].leaves \notin k[p].old
             /\ row' = [row EXCEPT ![e] = [row[e] EXCEPT !.st = "closed", !.root = k[p].leaves, !.fees = k[p].fees]]
             /\ entry' = AllPosted(e)
             /\ Go(p, [At(p, "look") EXCEPT !.work[e] = [st |-> "closed", root |-> k[p].leaves, fees |-> k[p].fees]])
      PROVE IInv'
  <2>1. PICK x \in Epochs : x = e
    BY <1>2
  <2>2. /\ row[x] \in Rows /\ k[p].leaves \in SUBSET Jobs /\ k[p].fees \in SUBSET Jobs
        /\ k[p].work \in [Epochs -> Payloads]
    BY <1>1, Known, PassShape DEF Ledger
  <2>3. PICK r \in Rows :
          /\ r.st = "closed" /\ r.root = k[p].leaves /\ r.fees = k[p].fees /\ r.vetoedRoot = row[x].vetoedRoot
          /\ row' = [row EXCEPT ![x] = r]
    <3>1. PICK r : r = [row[x] EXCEPT !.st = "closed", !.root = k[p].leaves, !.fees = k[p].fees]
      OBVIOUS
    <3>2. r \in Rows /\ r.st = "closed" /\ r.root = k[p].leaves /\ r.fees = k[p].fees
          /\ r.vetoedRoot = row[x].vetoedRoot
      BY <2>2, <3>1 DEF Rows
    <3> QED
      BY <1>7, <2>1, <3>1, <3>2
  <2>4. PICK q \in Payloads : q = [st |-> "closed", root |-> k[p].leaves, fees |-> k[p].fees]
    BY <2>2 DEF Payloads
  <2>5. PICK w \in [Epochs -> Payloads] : w = [k[p].work EXCEPT ![x] = q]
    BY <2>2
  <2>6. PICK g : g = [k[p] EXCEPT !.pc = "look", !.work = w] /\ Go(p, g)
    <3>1. Go(p, [At(p, "look") EXCEPT !.work[x] = q])
      BY <1>7, <2>1, <2>4
    <3>2. [At(p, "look") EXCEPT !.work[x] = q] = [k[p] EXCEPT !.pc = "look", !.work = w]
      BY <1>1, <2>5 DEF At, Passes
    <3> QED
      BY <3>1, <3>2
  <2>7. g \in Passes /\ g.pc = "look" /\ g.work = w
    BY <1>1, <2>6 DEF Passes, Pcs
  <2>8. q.st = "closed" /\ q.root = k[p].leaves /\ x = k[p].e
    BY <2>1, <2>4
  <2>9. entry' = AllPosted(x) /\ g.work = [k[p].work EXCEPT ![x] = q] /\ Go(p, g)
    BY <1>7, <2>1, <2>5, <2>6, <2>7
  <2> HIDE DEF e
  <2> QED
    BY <1>1, <1>4, <2>3, <2>7, <2>8, <2>9, ClosesEpoch
<1> QED
  BY <1>3, <1>5, <1>6, <1>7

\* markEpochPosted has no condition: an operator may have reported a veto since
\* the check, but then the epoch is not live.
LEMMA MarkPostedStep ==
  ASSUME OneKeeper, IInv, NEW p \in Keepers, MarkPosted(p)
  PROVE  IInv'
<1>1. k[p] \in Passes /\ PassOK(k[p]) /\ k[p].pc = "markPosted" /\ k[p].work \in [Epochs -> Payloads] /\ Ledger
  BY Known, PassShape DEF MarkPosted
<1>2. PICK e \in Epochs : e = k[p].e
  BY <1>1 DEF PassOK, DrivingOK, AtEpoch
<1>3. /\ chain[e].root = k[p].work[e].root /\ k[p].work[e].st # "none" /\ k[p].then \in {"wait", "finalize", "flags"}
      /\ k[p].then = "flags" => chain[e].st = "Finalized"
  BY <1>1, <1>2 DEF PassOK, DrivingOK, AtEpoch
<1>4. PICK r \in Rows : /\ r.st = "posted" /\ r.root = k[p].work[e].root
                        /\ row' = [row EXCEPT ![e] = r]
  <2>1. row[e] \in Rows /\ k[p].work[e].root \in SUBSET Jobs
    BY <1>1, <1>2 DEF Ledger, Payloads
  <2>2. PICK r : r = [row[e] EXCEPT !.st = "posted", !.root = k[p].work[e].root]
    OBVIOUS
  <2>3. r \in Rows /\ r.st = "posted" /\ r.root = k[p].work[e].root
    BY <2>1, <2>2 DEF Rows
  <2>4. row' = [row EXCEPT ![e] = r]
    BY <1>1, <1>2, <2>2 DEF MarkPosted, Ledger
  <2> QED
    BY <2>3, <2>4
<1>5. UNCHANGED <<cur, entry, chain, faults>>
  BY DEF MarkPosted
<1>6. Ledger' /\ \A j \in Jobs : EntryOK(j)'
  BY <1>1, <1>4, <1>5 DEF Ledger, IInv, EntryOK
<1>7. \A x \in Epochs : row'[x] = IF x = e THEN r ELSE row[x]
  BY <1>1, <1>4 DEF Ledger
<1>8. ASSUME NEW x \in Epochs PROVE RowOK(x)' /\ ChainOK(x)'
  <2>1. RowOK(x) /\ ChainOK(x)
    BY Known
  <2>2. RowOK(x)'
    BY <1>4, <1>5, <1>7, <2>1 DEF RowOK, Owned, Booked, OpenA, OpenB
  <2>3. ChainOK(x)'
    BY <1>3, <1>4, <1>5, <1>7, <2>1 DEF ChainOK, Owned, Booked
  <2> QED
    BY <2>2, <2>3
<1>9. CASE k[p].then = "wait"
  <2>1. PICK g \in Passes : g = Done(p) /\ Go(p, g)
    BY <1>1, <1>9, DoneShape DEF MarkPosted
  <2>2. PassOK(g)'
    <3>1. g.pc = "next" /\ \A x \in Epochs : g.work[x].st # "none" => g.work[x] = k[p].work[x] /\ k[p].e # x
      BY <1>1, <2>1, DoneShape
    <3>2. \A x \in Epochs : x # k[p].e => row'[x] = row[x] /\ chain'[x].root = chain[x].root
      BY <1>2, <1>5, <1>7
    <3> QED
      BY <1>1, <3>1, <3>2, DoneWith
  <2> QED
    BY <1>6, <1>8, <2>1, <2>2, PassMoves
<1>10. CASE k[p].then # "wait"
  <2>1. PICK then \in {"finalize", "flags"} : then = k[p].then
    BY <1>3, <1>10
  <2>2. PICK g : g = [k[p] EXCEPT !.pc = then] /\ Go(p, g)
    BY <1>10, <2>1 DEF MarkPosted, At
  <2>3. g \in Passes /\ g.pc = then /\ g.work = k[p].work /\ g.e = e
    BY <1>1, <1>2, <2>1, <2>2 DEF Passes, Pcs
  <2>4. (ClosingOK(g) /\ DrivingOK(g) /\ PayingOK(g))'
    BY <1>3, <1>5, <2>1, <2>3 DEF ClosingOK, DrivingOK, PayingOK, AtEpoch, Marked, Paying
  <2>5. ASSUME NEW x \in Epochs PROVE PayloadOK(g, x)'
    <3>1. PayloadOK(k[p], x)
      BY <1>1 DEF PassOK
    <3> QED
      BY <1>1, <1>4, <1>5, <1>7, <2>3, <3>1 DEF PayloadOK, Marked
  <2>6. PassOK(g)'
    BY <2>4, <2>5 DEF PassOK
  <2> QED
    BY <1>6, <1>8, <2>2, <2>3, <2>6, PassMoves
<1> QED
  BY <1>9, <1>10

\* A settled epoch has nothing open, and only posted entries change.
LEMMA MarkSettledStep ==
  ASSUME OneKeeper, IInv, NEW p \in Keepers, MarkSettled(p)
  PROVE  IInv'
<1>1. k[p] \in Passes /\ PassOK(k[p]) /\ k[p].pc = "markSettled" /\ Ledger
  BY Known DEF MarkSettled
<1>2. PICK e \in Epochs : e = k[p].e
  BY <1>1 DEF PassOK, DrivingOK, AtEpoch, Marked
<1>3. chain[e].st = "Finalized" /\ OpenA(e) = {} /\ OpenB(e) = {}
  BY <1>1, <1>2 DEF PassOK, PayingOK, Paying
<1>4. PICK r \in Rows : r.st = "settled" /\ r.root = row[e].root /\ row' = [row EXCEPT ![e] = r]
  <2>1. row[e] \in Rows
    BY <1>1 DEF Ledger
  <2>2. PICK r : r = [row[e] EXCEPT !.st = "settled"]
    OBVIOUS
  <2>3. r \in Rows /\ r.st = "settled" /\ r.root = row[e].root
    BY <2>1, <2>2 DEF Rows
  <2>4. row' = [row EXCEPT ![e] = r]
    BY <1>1, <1>2, <2>2 DEF MarkSettled, Ledger
  <2> QED
    BY <2>3, <2>4
<1>5. /\ entry' \in [Jobs -> Entries]
      /\ \A j \in Jobs :
           /\ Booked(j)' = Booked(j)
           /\ entry'[j].st = entry[j].st \/ (entry[j].st = "posted" /\ entry'[j].st = "settled")
           /\ entry'[j].tre = entry[j].tre \/ (entry[j].tre = "posted" /\ entry'[j].tre = "settled")
           /\ entry[j].st = entry[j].tre => entry'[j].st = entry'[j].tre
  <2>1. ASSUME NEW j \in Jobs
        PROVE  /\ entry'[j] \in Entries /\ entry'[j].epoch = entry[j].epoch
               /\ entry'[j].st = entry[j].st \/ (entry[j].st = "posted" /\ entry'[j].st = "settled")
               /\ entry'[j].tre = entry[j].tre \/ (entry[j].tre = "posted" /\ entry'[j].tre = "settled")
               /\ entry[j].st = entry[j].tre => entry'[j].st = entry'[j].tre
    <3>1. entry[j] \in Entries
      BY <1>1 DEF Ledger
    <3>2. PICK st, tre : /\ st = (IF entry[j].st = "posted" THEN "settled" ELSE entry[j].st)
                         /\ tre = (IF entry[j].tre = "posted" THEN "settled" ELSE entry[j].tre)
      OBVIOUS
    <3>3. entry'[j] = IF entry[j].epoch # e THEN entry[j] ELSE [entry[j] EXCEPT !.st = st, !.tre = tre]
      BY <1>2, <3>2 DEF MarkSettled, Booked
    <3> QED
      BY <3>1, <3>2, <3>3 DEF Entries
  <2>2. entry' = [j \in Jobs |-> entry'[j]]
    BY ZenonT(60) DEF MarkSettled
  <2> QED
    BY <2>1, <2>2 DEF Booked
<1>6. Ledger'
  BY <1>1, <1>4, <1>5 DEF Ledger, MarkSettled
<1>7. \A j \in Jobs : EntryOK(j)'
  BY <1>5 DEF IInv, EntryOK
<1>8. \A x \in Epochs, j \in Jobs : Owned(x, j) => Owned(x, j)'
  BY <1>5 DEF Owned
<1>9. \A x \in Epochs : row'[x] = IF x = e THEN r ELSE row[x]
  BY <1>1, <1>4 DEF Ledger
<1>10. ASSUME NEW x \in Epochs PROVE RowOK(x)' /\ ChainOK(x)'
  <2>1. RowOK(x) /\ ChainOK(x) /\ row[x].root \in SUBSET Jobs /\ chain[x].root \in SUBSET Jobs /\ chain' = chain
    BY Known DEF MarkSettled
  <2>2. RowOK(x)'
    BY <1>3, <1>4, <1>8, <1>9, <2>1 DEF RowOK, OpenA, OpenB
  <2>3. ChainOK(x)'
    BY SMTT(60), <1>3, <1>4, <1>8, <1>9, <2>1 DEF ChainOK
  <2> QED
    BY <2>2, <2>3
<1>11. PICK g \in Passes : g = Done(p) /\ Go(p, g)
  BY <1>1, DoneShape DEF MarkSettled
<1>12. PassOK(g)'
  <2>1. g.pc = "next" /\ \A x \in Epochs : g.work[x].st # "none" => g.work[x] = k[p].work[x] /\ k[p].e # x
    BY SMTT(60), <1>1, <1>11, DoneShape
  <2>2. \A x \in Epochs : x # k[p].e => row'[x] = row[x] /\ chain'[x].root = chain[x].root
    BY <1>2, <1>9 DEF MarkSettled
  <2> QED
    BY <1>1, <2>1, <2>2, DoneWith
<1> QED
  BY SMTT(60), <1>6, <1>7, <1>10, <1>11, <1>12, PassMoves

\* A veto takes the row off the epoch and its entries back to pending.
LEMMA VetoKeeps ==
  ASSUME IInv, NEW e \in Epochs, Vetoing(e), UNCHANGED <<cur, chain, faults>>, chain[e].st = "Vetoed",
         row[e].st \in {"closed", "posted"} => row[e].root = chain[e].root
  PROVE  /\ Ledger' /\ \A j \in Jobs : EntryOK(j)'
         /\ \A x \in Epochs : RowOK(x)' /\ ChainOK(x)'
         /\ \A x \in Epochs : x # e => row'[x] = row[x]
         /\ row'[e].st = "vetoed" /\ (row[e].st = "vetoed" => row'[e] = row[e])
         /\ \A j \in Jobs : Booked(j) # e => entry'[j] = entry[j]
         /\ \A j \in Jobs : Booked(j)' = Booked(j)
<1>1. Ledger /\ RowOK(e) /\ ChainOK(e) /\ row[e] \in Rows /\ chain[e] \in Chains
  BY DEF IInv, TypeOK, Ledger, Entries, Rows, Chains
<1>2. row[e].st \in {"closed", "posted", "vetoed"}
  BY <1>1 DEF RowOK, Rows
<1>3. PICK r \in Rows : /\ row' = [row EXCEPT ![e] = r] /\ r.st = "vetoed" /\ chain[e].root \in r.vetoedRoot
                        /\ row[e].st = "vetoed" => r = row[e]
  <2>1. CASE row[e].st \in {"closed", "posted"}
    <3>1. PICK r : r = [row[e] EXCEPT !.st = "vetoed", !.vetoedRoot = {row[e].root}, !.root = {}, !.fees = {}]
      OBVIOUS
    <3>2. r \in Rows /\ r.st = "vetoed" /\ r.vetoedRoot = {row[e].root}
      BY <1>1, <3>1 DEF Rows
    <3>3. row' = [row EXCEPT ![e] = r]
      BY <2>1, <3>1 DEF Vetoing
    <3> QED
      BY <2>1, <3>2, <3>3
  <2>2. CASE row[e].st = "vetoed"
    <3>1. row' = [row EXCEPT ![e] = row[e]]
      BY <2>2 DEF Vetoing
    <3> QED
      BY <1>1, <2>2, <3>1 DEF RowOK
  <2> QED
    BY <1>2, <2>1, <2>2
<1>4. /\ entry' \in [Jobs -> Entries]
      /\ \A j \in Jobs :
           /\ entry'[j].epoch = entry[j].epoch /\ (entry[j].epoch # e => entry'[j] = entry[j])
           /\ EntryOK(j) => entry'[j].st \in {entry'[j].tre, "clawed"}
  <2>1. ASSUME NEW j \in Jobs
        PROVE  /\ entry'[j] \in Entries
               /\ entry'[j].epoch = entry[j].epoch /\ (entry[j].epoch # e => entry'[j] = entry[j])
               /\ EntryOK(j) => entry'[j].st \in {entry'[j].tre, "clawed"}
    <3>1. entry[j] \in Entries
      BY <1>1 DEF Ledger
    <3>2. PICK st, tre : /\ st = (IF entry[j].st = "posted" THEN "pending" ELSE entry[j].st)
                         /\ tre = (IF entry[j].tre = "posted" THEN "pending" ELSE entry[j].tre)
      OBVIOUS
    <3>3. entry'[j] = IF entry[j].epoch # e THEN entry[j] ELSE [entry[j] EXCEPT !.st = st, !.tre = tre]
      BY <3>2 DEF Vetoing, Booked
    <3> QED
      BY ZenonT(60), <3>1, <3>2, <3>3 DEF Entries, EntryOK
  <2>2. entry' = [j \in Jobs |-> entry'[j]]
    BY DEF Vetoing
  <2> QED
    BY <2>1, <2>2
<1>5. Ledger'
  BY <1>1, <1>3, <1>4 DEF Ledger
<1>6. \A j \in Jobs : EntryOK(j)'
  BY <1>4 DEF IInv, EntryOK
<1>7. \A x \in Epochs, j \in Jobs : x # e /\ Owned(x, j) => Owned(x, j)'
  BY <1>4 DEF Owned, Booked
<1>8. \A x \in Epochs : row'[x] = IF x = e THEN r ELSE row[x]
  BY <1>1, <1>3 DEF Ledger
<1>9. ASSUME NEW x \in Epochs PROVE RowOK(x)' /\ ChainOK(x)'
  <2>1. RowOK(x) /\ ChainOK(x) /\ row[x].root \in SUBSET Jobs /\ chain[x].root \in SUBSET Jobs
    BY DEF IInv, TypeOK
  <2>2. RowOK(x)'
    BY <1>3, <1>7, <1>8, <2>1 DEF RowOK, OpenA, OpenB
  <2>3. ChainOK(x)'
    BY <1>7, <1>8, <2>1 DEF ChainOK
  <2> QED
    BY <2>2, <2>3
<1> QED
  BY <1>3, <1>4, <1>5, <1>6, <1>8, <1>9 DEF Booked

\* The keeper reports a veto: the row is still the one that was vetoed, or vetoed by now.
LEMMA MarkVetoStep ==
  ASSUME OneKeeper, IInv, NEW p \in Keepers, MarkVeto(p)
  PROVE  IInv'
<1>1. k[p] \in Passes /\ PassOK(k[p]) /\ k[p].pc = "markVeto"
  BY Known DEF MarkVeto
<1>2. PICK e \in Epochs : e = k[p].e /\ k[p].work[e].st # "none"
  BY <1>1 DEF PassOK, DrivingOK, AtEpoch
<1>3. chain[e].st = "Vetoed" /\ chain[e].root = k[p].work[e].root
  BY <1>1, <1>2 DEF PassOK, DrivingOK
<1>4. row[e].st \in {"closed", "posted"} => row[e].root = chain[e].root
  BY <1>1, <1>2, <1>3 DEF PassOK, PayloadOK
<1>5. Vetoing(e) /\ UNCHANGED <<cur, chain, faults>>
  BY <1>2 DEF MarkVeto
<1>6. /\ Ledger' /\ \A j \in Jobs : EntryOK(j)'
      /\ \A x \in Epochs : RowOK(x)' /\ ChainOK(x)'
      /\ \A x \in Epochs : x # e => row'[x] = row[x]
  BY <1>3, <1>4, <1>5, VetoKeeps
<1>7. PICK g \in Passes : g = Done(p) /\ Go(p, g)
  BY <1>1, DoneShape DEF MarkVeto
<1>8. PassOK(g)'
  <2>1. g.pc = "next" /\ \A x \in Epochs : g.work[x].st # "none" => g.work[x] = k[p].work[x] /\ k[p].e # x
    BY <1>1, <1>7, DoneShape
  <2>2. \A x \in Epochs : x # k[p].e => row'[x] = row[x] /\ chain'[x].root = chain[x].root
    BY SMTT(60), <1>2, <1>5, <1>6
  <2> QED
    BY <1>1, <2>1, <2>2, DoneWith
<1> QED
  BY <1>6, <1>7, <1>8, PassMoves

-----------------------------------------------------------------------------
(* What a pass does to the chain. *)

\* An epoch is posted with the root of a row that is closed, over none or a vetoed one.
LEMMA PostTxStep ==
  ASSUME OneKeeper, IInv, NEW p \in Keepers, PostTx(p)
  PROVE  IInv'
<1>1. k[p] \in Passes /\ PassOK(k[p]) /\ k[p].pc = "post" /\ k[p].work \in [Epochs -> Payloads] /\ Ledger
  BY Known, PassShape DEF PostTx
<1>2. PICK e \in Epochs : e = k[p].e
  BY <1>1 DEF PassOK, DrivingOK, AtEpoch
<1>3. /\ k[p].work[e].st = "closed" /\ chain[e].st \in {"None", "Vetoed"}
      /\ chain[e].st = "Vetoed" => chain[e].root # k[p].work[e].root
  BY <1>1, <1>2 DEF PassOK, DrivingOK
<1>4. RowOK(e) /\ PayloadOK(k[p], e)
  BY <1>1, Known DEF PassOK
<1>5. row[e].st = "closed" /\ row[e].root = k[p].work[e].root
  BY SMTT(60), <1>1, <1>2, <1>3, <1>4 DEF PayloadOK, RowOK, Marked
<1>6. UNCHANGED <<cur, entry, row, faults>>
  BY DEF PostTx
<1>7. CASE chain' = chain /\ Go(p, Done(p))
  BY <1>6, <1>7, GivesUp
<1>8. CASE /\ chain' = [chain EXCEPT ![e].st = "Posted", ![e].root = k[p].work[e].root, ![e].ripe = FALSE]
           /\ Go(p, [At(p, "tellPosted") EXCEPT !.then = "wait"])
  <2>1. PICK c \in Chains : c.st = "Posted" /\ c.root = k[p].work[e].root /\ chain' = [chain EXCEPT ![e] = c]
    <3>1. chain[e] \in Chains /\ k[p].work[e].root \in SUBSET Jobs
      BY <1>1, <1>2 DEF Ledger, Payloads
    <3>2. PICK c : c = [chain[e] EXCEPT !.st = "Posted", !.root = k[p].work[e].root, !.ripe = FALSE]
      OBVIOUS
    <3>3. c \in Chains /\ c.st = "Posted" /\ c.root = k[p].work[e].root
      BY <3>1, <3>2 DEF Chains
    <3>4. chain' = [chain EXCEPT ![e] = c]
      BY <1>1, <1>8, <3>2 DEF Ledger
    <3> QED
      BY <3>3, <3>4
  <2>2. \A x \in Epochs : chain'[x] = IF x = e THEN c ELSE chain[x]
    BY <1>1, <2>1 DEF Ledger
  <2>3. Ledger' /\ \A j \in Jobs : EntryOK(j)'
    BY <1>1, <1>6, <2>1 DEF Ledger, IInv, EntryOK
  <2>4. ASSUME NEW x \in Epochs PROVE RowOK(x)' /\ ChainOK(x)'
    <3>1. RowOK(x) /\ ChainOK(x)
      BY Known
    <3>2. RowOK(x)'
      BY <1>5, <1>6, <2>2, <3>1 DEF RowOK, Owned, Booked, OpenA, OpenB
    <3>3. ChainOK(x)'
      BY <1>4, <1>5, <1>6, <2>1, <2>2, <3>1 DEF ChainOK, RowOK, Owned, Booked
    <3> QED
      BY <3>2, <3>3
  <2>5. PICK g : g = [k[p] EXCEPT !.pc = "tellPosted", !.then = "wait"] /\ Go(p, g)
    BY <1>8 DEF At
  <2>6. g \in Passes /\ g.pc = "tellPosted" /\ g.then = "wait" /\ g.e = e /\ g.work = k[p].work
    BY <1>1, <1>2, <2>5 DEF Passes, Pcs
  <2>7. PassOK(g)'
    <3>1. (ClosingOK(g) /\ DrivingOK(g) /\ PayingOK(g))'
      BY <1>3, <2>1, <2>2, <2>6 DEF ClosingOK, DrivingOK, PayingOK, AtEpoch, Marked, Paying
    <3>2. ASSUME NEW x \in Epochs PROVE PayloadOK(g, x)'
      <4>1. PayloadOK(k[p], x)
        BY <1>1 DEF PassOK
      <4> QED
        BY <1>1, <1>5, <1>6, <2>2, <2>6, <4>1 DEF PayloadOK, Marked
    <3> QED
      BY <3>1, <3>2 DEF PassOK
  <2> QED
    BY <2>3, <2>4, <2>5, <2>6, <2>7, PassMoves
<1> QED
  BY SMTT(60), <1>2, <1>7, <1>8 DEF PostTx

\* An epoch posted and ripe is finalized.
LEMMA FinalizeTxStep ==
  ASSUME OneKeeper, IInv, NEW p \in Keepers, FinalizeTx(p)
  PROVE  IInv'
<1>1. k[p] \in Passes /\ PassOK(k[p]) /\ k[p].pc = "finalize" /\ k[p].work \in [Epochs -> Payloads] /\ Ledger
  BY Known, PassShape DEF FinalizeTx
<1>2. PICK e \in Epochs : e = k[p].e /\ k[p].work[e].st # "none"
  BY <1>1 DEF PassOK, DrivingOK, AtEpoch, Marked
<1>6. UNCHANGED <<cur, entry, row, faults>>
  BY DEF FinalizeTx
<1>7. CASE chain' = chain /\ Go(p, Done(p))
  BY <1>6, <1>7, GivesUp
<1>8. CASE chain[e].st = "Posted" /\ chain' = [chain EXCEPT ![e].st = "Finalized"] /\ Go(p, At(p, "flags"))
  <2>1. \A x \in Epochs : /\ chain'[x].root = chain[x].root /\ chain'[x].paidA = chain[x].paidA
                         /\ chain'[x].paidB = chain[x].paidB /\ chain'[x].voidB = chain[x].voidB
                         /\ chain'[x].st = IF x = e THEN "Finalized" ELSE chain[x].st
    BY <1>1, <1>8 DEF Ledger, Chains
  <2>2. chain' \in [Epochs -> Chains]
    BY SMTT(60), <1>1, <1>8 DEF Ledger, Chains
  <2>3. Ledger' /\ \A j \in Jobs : EntryOK(j)'
    BY <1>1, <1>6, <2>2 DEF Ledger, IInv, EntryOK
  <2>4. ASSUME NEW x \in Epochs PROVE RowOK(x)' /\ ChainOK(x)'
    <3>1. RowOK(x) /\ ChainOK(x)
      BY Known
    <3>2. RowOK(x)'
      BY <1>6, <1>8, <2>1, <3>1 DEF RowOK, Owned, Booked, OpenA, OpenB
    <3>3. ChainOK(x)'
      BY <1>6, <1>8, <2>1, <3>1 DEF ChainOK, Owned, Booked
    <3> QED
      BY <3>2, <3>3
  <2>5. PICK g : g = At(p, "flags") /\ Go(p, g)
    BY <1>8
  <2>6. g \in Passes /\ g.pc = "flags" /\ g.e = e /\ g.work = k[p].work
    BY <1>1, <1>2, <2>5 DEF At, Passes, Pcs
  <2>7. PassOK(g)'
    <3>1. (ClosingOK(g) /\ DrivingOK(g) /\ PayingOK(g))'
      BY <1>2, <2>1, <2>6 DEF ClosingOK, DrivingOK, PayingOK, AtEpoch, Marked, Paying
    <3>2. ASSUME NEW x \in Epochs PROVE PayloadOK(g, x)'
      <4>1. PayloadOK(k[p], x)
        BY <1>1 DEF PassOK
      <4> QED
        BY <1>1, <1>2, <1>6, <2>1, <2>6, <4>1 DEF PayloadOK, Marked
    <3> QED
      BY <3>1, <3>2 DEF PassOK
  <2> QED
    BY <2>3, <2>4, <2>5, <2>6, <2>7, PassMoves
<1> QED
  BY <1>2, <1>7, <1>8 DEF FinalizeTx

\* Lanes are only paid, voided and vested.
Pays ==
  /\ chain' \in [Epochs -> Chains]
  /\ \A e \in Epochs :
       /\ chain'[e].st = chain[e].st /\ chain'[e].root = chain[e].root
       /\ OpenA(e)' \subseteq OpenA(e) /\ OpenB(e)' \subseteq OpenB(e) /\ (chain[e].vested => chain'[e].vested)

\* A claim pays lanes.
LEMMA ClaimPays ==
  ASSUME Ledger, NEW e \in Epochs, NEW j \in Jobs, chain' = Claimed(e, j)
  PROVE  /\ Pays /\ OpenA(e)' \subseteq OpenA(e) \ {j}
         /\ chain[e].vested => OpenB(e)' \subseteq OpenB(e) \ {j}
<1>1. chain \in [Epochs -> Chains] /\ chain[e] \in Chains
  BY DEF Ledger
<1>2. PICK pB \in SUBSET Jobs :
        pB = IF chain[e].vested /\ j \in OpenB(e) THEN chain[e].paidB \cup {j} ELSE chain[e].paidB
  <2>1. chain[e].paidB \in SUBSET Jobs
    BY <1>1 DEF Chains
  <2> QED
    BY <2>1
<1>3. PICK pA \in SUBSET Jobs : pA = chain[e].paidA \cup {j}
  BY <1>1 DEF Chains
<1>4. PICK c : c = [chain[e] EXCEPT !.paidA = pA, !.paidB = pB]
  OBVIOUS
<1>5. chain' = [chain EXCEPT ![e] = c]
  BY <1>1, <1>2, <1>3, <1>4 DEF Claimed, Chains
<1>6. /\ c \in Chains /\ c.st = chain[e].st /\ c.root = chain[e].root /\ c.vested = chain[e].vested
      /\ c.paidA = pA /\ c.paidB = pB /\ c.voidB = chain[e].voidB
  BY <1>1, <1>4 DEF Chains
<1>7. \A x \in Epochs : chain'[x] = IF x = e THEN c ELSE chain[x]
  BY <1>1, <1>5
<1>8. chain' \in [Epochs -> Chains]
  BY <1>1, <1>5, <1>6
<1>9. OpenA(e)' = chain[e].root \ pA /\ OpenB(e)' = chain[e].root \ (pB \cup chain[e].voidB)
  BY <1>6, <1>7 DEF OpenA, OpenB
<1>10. /\ OpenA(e)' \subseteq OpenA(e) \ {j} /\ OpenB(e)' \subseteq OpenB(e)
       /\ chain[e].vested => OpenB(e)' \subseteq OpenB(e) \ {j}
  BY <1>2, <1>3, <1>9 DEF OpenA, OpenB
<1>11. \A x \in Epochs : x # e => OpenA(x)' = OpenA(x) /\ OpenB(x)' = OpenB(x)
  BY <1>7 DEF OpenA, OpenB
<1> QED
  BY <1>6, <1>7, <1>8, <1>10, <1>11 DEF Pays

\* A step that pays keeps the ledger's agreement with the chain.
LEMMA PaysKeep ==
  ASSUME IInv, Pays, UNCHANGED <<cur, entry, row>>, faults' \in 0..MaxFaults
  PROVE  /\ Ledger' /\ \A j \in Jobs : EntryOK(j)'
         /\ \A x \in Epochs : RowOK(x)' /\ ChainOK(x)'
<1>1. Ledger'
  BY DEF IInv, TypeOK, Ledger, Entries, Rows, Chains, Pays
<1>2. \A j \in Jobs : EntryOK(j)'
  BY DEF IInv, EntryOK
<1>3. ASSUME NEW x \in Epochs PROVE RowOK(x)' /\ ChainOK(x)'
  <2>1. RowOK(x) /\ ChainOK(x)
    BY DEF IInv
  <2>2. RowOK(x)'
    BY <2>1 DEF RowOK, Owned, Booked, Pays
  <2>3. ChainOK(x)'
    BY <2>1 DEF ChainOK, Owned, Booked, Pays
  <2> QED
    BY <2>2, <2>3
<1> QED
  BY <1>1, <1>2, <1>3

\* And every pass: what it took for open may be paid by now, and no more is open.
LEMMA PaysPass ==
  ASSUME IInv, Pays, UNCHANGED <<cur, entry, row>>, NEW h \in Passes, PassOK(h)
  PROVE  PassOK(h)'
<1>1. ClosingOK(h)'
  BY DEF PassOK, ClosingOK, Booked
<1>2. DrivingOK(h)'
  <2>1. h.pc \in AtEpoch => h.e \in Epochs /\ chain'[h.e].st = chain[h.e].st /\ chain'[h.e].root = chain[h.e].root
    BY DEF PassOK, DrivingOK, Pays
  <2> QED
    BY <2>1 DEF PassOK, DrivingOK, AtEpoch
<1>3. PayingOK(h)'
  <2>1. h.pc \in Paying => h.e \in Epochs
    BY DEF PassOK, DrivingOK, AtEpoch, Marked, Paying
  <2> QED
    BY <2>1 DEF PassOK, PayingOK, Pays, Paying
<1>4. \A x \in Epochs : PayloadOK(h, x)'
  BY DEF PassOK, PayloadOK, Pays
<1> QED
  BY <1>1, <1>2, <1>3, <1>4 DEF PassOK

\* A claim that the contract takes, or one that reverts and ends the epoch's turn.
LEMMA ClaimTxStep ==
  ASSUME OneKeeper, IInv, NEW p \in Keepers, ClaimTx(p)
  PROVE  IInv'
<1>1. k[p] \in Passes /\ PassOK(k[p]) /\ k[p].pc = "claim" /\ k[p].claims \in SUBSET Jobs /\ Ledger
  BY Known, PassShape DEF ClaimTx
<1>2. PICK e \in Epochs : e = k[p].e
  BY <1>1 DEF PassOK, DrivingOK, AtEpoch, Marked
<1>3. UNCHANGED <<cur, entry, row, faults>>
  BY DEF ClaimTx
<1>4. CASE chain' = chain /\ Go(p, Done(p))
  BY <1>3, <1>4, GivesUp
<1>5. ASSUME NEW j \in Jobs, chain' = Claimed(e, j), Go(p, [k[p] EXCEPT !.claims = @ \ {j}])
      PROVE  IInv'
  <2>1. /\ Pays /\ OpenA(e)' \subseteq OpenA(e) \ {j}
        /\ chain[e].vested => OpenB(e)' \subseteq OpenB(e) \ {j}
    BY <1>1, <1>5, ClaimPays
  <2>3. PICK h \in Passes : h = k[p]
    BY <1>1
  <2>4. PassOK(h)'
    BY <1>1, <1>3, <2>1, <2>3, PaysPass
  <2>5. PICK g : g = [h EXCEPT !.claims = h.claims \ {j}] /\ Go(p, g)
    BY <1>5, <2>3
  <2>6. g \in Passes /\ g.pc = "claim" /\ g.e = e /\ g.work = h.work /\ g.claims = h.claims \ {j} /\ g.vesting = h.vesting
    BY <1>1, <1>2, <2>3, <2>5 DEF Passes
  <2>7. PassOK(g)'
    <3>1. ClosingOK(g)' /\ DrivingOK(g)'
      BY <1>1, <1>2, <2>3, <2>4, <2>6 DEF PassOK, ClosingOK, DrivingOK, AtEpoch, Marked
    <3>2. PayingOK(g)'
      <4>1. chain'[e].st = "Finalized"
        BY <1>1, <1>2, <2>3, <2>4 DEF PassOK, PayingOK, Paying
      <4>2. ~h.vesting => /\ OpenA(e) \subseteq h.claims /\ OpenB(e) \subseteq h.claims
                          /\ OpenB(e) # {} => chain[e].vested
        BY <1>1, <1>2, <2>3 DEF PassOK, PayingOK
      <4>3. ~h.vesting => /\ OpenA(e)' \subseteq g.claims /\ OpenB(e)' \subseteq g.claims
                          /\ OpenB(e)' # {} => chain'[e].vested
        BY <2>1, <2>6, <4>2 DEF Pays
      <4> QED
        BY <2>6, <4>1, <4>3 DEF PayingOK, Paying
    <3>3. \A x \in Epochs : PayloadOK(g, x)'
      BY <1>1, <1>2, <2>3, <2>4, <2>6 DEF PassOK, PayloadOK
    <3> QED
      BY <3>1, <3>2, <3>3 DEF PassOK
  <2>8. faults' \in 0..MaxFaults
    BY <1>1, <1>3 DEF Ledger
  <2> QED
    BY <1>3, <2>1, <2>5, <2>6, <2>7, <2>8, PaysKeep, PassMoves
<1> QED
  BY <1>1, <1>2, <1>4, <1>5 DEF ClaimTx

\* A pass that dies leaves the ledger and the chain as they are.
LEMMA CrashStep ==
  ASSUME OneKeeper, IInv, NEW p \in Keepers, Crash(p)
  PROVE  IInv'
<1>1. Ledger /\ Idle \in Passes /\ PassOK(Idle) /\ Go(p, Idle)
  BY Known, IdleShape DEF Crash
<1>2. Ledger'
  BY <1>1, KeeperAssumption DEF Crash, Ledger
<1>3. \A j \in Jobs : EntryOK(j)'
  BY DEF IInv, EntryOK, Crash
<1>4. \A e \in Epochs : RowOK(e)' /\ ChainOK(e)'
  BY DEF IInv, RowOK, ChainOK, Owned, Booked, OpenA, OpenB, Crash
<1>5. PassOK(Idle)'
  BY <1>1 DEF Crash, PassOK, ClosingOK, DrivingOK, PayingOK, PayloadOK, Booked, OpenA, OpenB
<1> QED
  BY <1>1, <1>2, <1>3, <1>4, <1>5, PassMoves

-----------------------------------------------------------------------------
(* Everybody else. *)

\* A booked job, a clawed entry: nothing an epoch owns changes hands.
LEMMA EntryStep ==
  ASSUME IInv, NEW j \in Jobs, Book(j) \/ ClawEntry(j)
  PROVE  IInv'
<1>1. Ledger /\ entry[j] \in Entries /\ EntryOK(j) /\ MaxEpoch \in Nat
  BY KeeperAssumption DEF IInv, TypeOK, Ledger, Entries, Rows, Chains
<1>2. UNCHANGED <<cur, row, chain, k, faults>>
  BY DEF Book, ClawEntry
<1>3. PICK r \in Entries :
        /\ entry' = [entry EXCEPT ![j] = r] /\ r.st \in {r.tre, "clawed"}
        /\ \/ entry[j].st = "none"
           \/ r.epoch = entry[j].epoch /\ r.tre = entry[j].tre /\ r.st = "clawed" /\ entry[j].st = "pending"
  <2>1. CASE Book(j)
    <3>1. PICK e \in 0..MaxEpoch : entry' = [entry EXCEPT ![j] = [st |-> "pending", tre |-> "pending", epoch |-> e]]
      <4>1. cur \in 0..MaxEpoch /\ (cur > 1 => cur - 1 \in 0..MaxEpoch)
        BY <1>1 DEF Ledger, Epochs
      <4> QED
        BY <2>1, <4>1 DEF Book
    <3>2. [st |-> "pending", tre |-> "pending", epoch |-> e] \in Entries
      BY DEF Entries
    <3> QED
      BY <2>1, <3>1, <3>2 DEF Book
  <2>2. CASE ClawEntry(j)
    <3>1. PICK r : r = [entry[j] EXCEPT !.st = "clawed"]
      OBVIOUS
    <3>2. r \in Entries /\ r.st = "clawed" /\ r.epoch = entry[j].epoch /\ r.tre = entry[j].tre
      BY <1>1, <3>1 DEF Entries
    <3>3. entry' = [entry EXCEPT ![j] = r]
      BY <1>1, <2>2, <3>1 DEF ClawEntry, Ledger
    <3> QED
      BY <2>2, <3>2, <3>3 DEF ClawEntry
  <2> QED
    BY <2>1, <2>2
<1>4. \A x \in Jobs : entry'[x] = IF x = j THEN r ELSE entry[x]
  BY <1>1, <1>3 DEF Ledger
<1>5. Ledger'
  BY <1>1, <1>2, <1>3 DEF Ledger
<1>6. \A x \in Jobs : EntryOK(x)'
  BY <1>3, <1>4 DEF IInv, EntryOK
<1>7. \A e \in Epochs, x \in Jobs : Owned(e, x) => Owned(e, x)'
  BY <1>3, <1>4 DEF Owned, Booked
<1>8. \A e \in Epochs : RowOK(e)' /\ ChainOK(e)'
  BY <1>2, <1>7, EntriesKeep
<1>9. ASSUME NEW h \in Passes, PassOK(h) PROVE PassOK(h)'
  <2>1. ClosingOK(h)'
    <3>1. h.leaves \in SUBSET Jobs
      BY PassShape
    <3> QED
      BY <1>2, <1>3, <1>4, <1>9, <3>1 DEF PassOK, ClosingOK, Booked
  <2>2. DrivingOK(h)' /\ PayingOK(h)' /\ \A x \in Epochs : PayloadOK(h, x)'
    BY <1>2, <1>9 DEF PassOK, DrivingOK, PayingOK, PayloadOK, OpenA, OpenB
  <2> QED
    BY <2>1, <2>2 DEF PassOK
<1> QED
  BY <1>2, <1>5, <1>6, <1>8, <1>9, OthersMove

\* The guardian's veto: the epoch is not live any more.
LEMMA GuardianVetoStep ==
  ASSUME IInv, NEW e \in Epochs, GuardianVeto(e)
  PROVE  IInv'
<1>1. Ledger /\ RowOK(e) /\ ChainOK(e) /\ chain[e].st = "Posted"
  BY DEF IInv, TypeOK, Ledger, Entries, Rows, Chains, GuardianVeto
<1>2. UNCHANGED <<cur, entry, row, k, faults>> /\ chain' = [chain EXCEPT ![e].st = "Vetoed"]
  BY DEF GuardianVeto
<1>3. \A x \in Epochs : /\ chain'[x].root = chain[x].root /\ chain'[x].paidA = chain[x].paidA
                       /\ chain'[x].paidB = chain[x].paidB /\ chain'[x].voidB = chain[x].voidB
                       /\ chain'[x].vested = chain[x].vested
                       /\ chain'[x].st = IF x = e THEN "Vetoed" ELSE chain[x].st
  BY <1>1, <1>2 DEF Ledger, Chains
<1>4. chain' \in [Epochs -> Chains]
  BY SMTT(60), <1>1, <1>2 DEF Ledger, Chains
<1>5. Ledger' /\ \A j \in Jobs : EntryOK(j)'
  BY <1>1, <1>2, <1>4 DEF Ledger, IInv, EntryOK
<1>6. ASSUME NEW x \in Epochs PROVE RowOK(x)' /\ ChainOK(x)'
  <2>1. RowOK(x) /\ ChainOK(x)
    BY DEF IInv
  <2>2. RowOK(x)'
    BY <1>1, <1>2, <1>3, <2>1 DEF RowOK, Owned, Booked, OpenA, OpenB
  <2>3. ChainOK(x)'
    BY <1>2, <1>3, <2>1 DEF ChainOK, Owned, Booked
  <2> QED
    BY <2>2, <2>3
<1>7. ASSUME NEW h \in Passes, PassOK(h) PROVE PassOK(h)'
  <2>1. ClosingOK(h)'
    BY <1>2, <1>7 DEF PassOK, ClosingOK, Booked
  <2>2. h.pc \in AtEpoch => h.e \in Epochs
    BY <1>7 DEF PassOK, DrivingOK
  <2>3. DrivingOK(h)'
    BY <1>1, <1>2, <1>3, <1>7, <2>2 DEF PassOK, DrivingOK, AtEpoch
  <2>4. PayingOK(h)'
    BY <1>1, <1>2, <1>3, <1>7, <2>2 DEF PassOK, PayingOK, AtEpoch, Marked, Paying, OpenA, OpenB
  <2>5. \A x \in Epochs : PayloadOK(h, x)'
    BY <1>2, <1>3, <1>7 DEF PassOK, PayloadOK
  <2> QED
    BY <2>1, <2>3, <2>4, <2>5 DEF PassOK
<1> QED
  BY <1>2, <1>5, <1>6, <1>7, OthersMove

\* An operator reports the veto of the root the row has: it is closed anew.
LEMMA OperatorStep ==
  ASSUME IInv, NEW e \in Epochs, OperatorReportsVeto(e)
  PROVE  IInv'
<1>1. /\ Vetoing(e) /\ UNCHANGED <<cur, chain, k, faults>> /\ chain[e].st = "Vetoed"
      /\ row[e].st \in {"closed", "posted"} /\ row[e].root = chain[e].root
  BY DEF OperatorReportsVeto
<1>2. /\ Ledger' /\ \A j \in Jobs : EntryOK(j)'
      /\ \A x \in Epochs : RowOK(x)' /\ ChainOK(x)'
      /\ \A x \in Epochs : x # e => row'[x] = row[x]
      /\ row'[e].st = "vetoed"
      /\ \A j \in Jobs : Booked(j) # e => entry'[j] = entry[j]
      /\ \A j \in Jobs : Booked(j)' = Booked(j)
  BY <1>1, VetoKeeps
<1>3. ASSUME NEW h \in Passes, PassOK(h) PROVE PassOK(h)'
  <2>1. ClosingOK(h)'
    <3>1. h.leaves \in SUBSET Jobs
      BY PassShape
    <3>2. h.pc \in {"sum", "totals", "write"} => h.e # e /\ h.e \in Epochs
      BY <1>1, <1>3 DEF PassOK, ClosingOK
    <3> QED
      BY <1>2, <1>3, <3>1, <3>2 DEF PassOK, ClosingOK
  <2>2. h.pc \in AtEpoch => h.e \in Epochs
    BY <1>3 DEF PassOK, DrivingOK
  <2>3. DrivingOK(h)'
    BY <1>1, <1>2, <1>3, <2>2 DEF PassOK, DrivingOK, AtEpoch
  <2>4. PayingOK(h)'
    BY <1>1, <1>3 DEF PassOK, PayingOK, OpenA, OpenB
  <2>5. ASSUME NEW x \in Epochs PROVE PayloadOK(h, x)'
    <3>1. PayloadOK(h, x) /\ chain' = chain
      BY <1>1, <1>3 DEF PassOK
    <3> QED
      BY <1>1, <1>2, <3>1 DEF PayloadOK
  <2> QED
    BY <2>1, <2>3, <2>4, <2>5 DEF PassOK
<1> QED
  BY <1>1, <1>2, <1>3, OthersMove

\* Time passes, lanes are claimed by their owners or clawed.
LEMMA TimeStep ==
  ASSUME IInv, NEW e \in Epochs, Ripen(e) \/ Vest(e) \/ \E j \in Jobs : OwnClaim(e, j) \/ ClawLaneB(e, j)
  PROVE  IInv'
<1>1. Ledger /\ UNCHANGED <<cur, entry, row, k, faults>> /\ faults \in 0..MaxFaults /\ chain \in [Epochs -> Chains]
  BY DEF IInv, TypeOK, Ledger, Entries, Rows, Chains, Ripen, Vest, OwnClaim, ClawLaneB
<1>2. Pays
  <2>1. CASE Ripen(e) \/ Vest(e)
    <3>1. chain' \in [Epochs -> Chains]
      <4>1. chain[e] \in Chains
        BY <1>1
      <4>2. [chain[e] EXCEPT !.ripe = TRUE] \in Chains /\ [chain[e] EXCEPT !.vested = TRUE] \in Chains
        BY <4>1 DEF Chains
      <4> QED
        BY <1>1, <2>1, <4>2 DEF Ripen, Vest
    <3>2. \A x \in Epochs : /\ chain'[x].root = chain[x].root /\ chain'[x].paidA = chain[x].paidA
                           /\ chain'[x].paidB = chain[x].paidB /\ chain'[x].voidB = chain[x].voidB
                           /\ chain'[x].st = chain[x].st /\ (chain[x].vested => chain'[x].vested)
      BY <1>1, <2>1 DEF Ripen, Vest, Chains
    <3> QED
      BY <3>1, <3>2 DEF Pays, OpenA, OpenB
  <2>2. CASE \E j \in Jobs : OwnClaim(e, j)
    BY <1>1, <2>2, ClaimPays DEF OwnClaim
  <2>3. ASSUME NEW j \in Jobs, ClawLaneB(e, j) PROVE Pays
    <3>1. chain' \in [Epochs -> Chains]
      BY <1>1, <2>3 DEF ClawLaneB, Chains
    <3>2. \A x \in Epochs : /\ chain'[x].root = chain[x].root /\ chain'[x].paidA = chain[x].paidA
                           /\ chain'[x].paidB = chain[x].paidB /\ chain[x].voidB \subseteq chain'[x].voidB
                           /\ chain'[x].st = chain[x].st /\ (chain[x].vested => chain'[x].vested)
      BY <1>1, <2>3 DEF ClawLaneB, Chains
    <3> QED
      BY <3>1, <3>2 DEF Pays, OpenA, OpenB
  <2> QED
    BY <2>1, <2>2, <2>3
<1>3. /\ Ledger' /\ \A j \in Jobs : EntryOK(j)'
      /\ \A x \in Epochs : RowOK(x)' /\ ChainOK(x)'
  BY <1>1, <1>2, PaysKeep
<1>4. \A h \in Passes : PassOK(h) => PassOK(h)'
  BY <1>1, <1>2, PaysPass
<1> QED
  BY <1>1, <1>3, <1>4, OthersMove

\* The next epoch opens.
LEMMA NextEpochStep == ASSUME IInv, NextEpoch PROVE IInv'
<1>1. Ledger'
  BY KeeperAssumption DEF IInv, TypeOK, Ledger, Entries, Rows, Chains, NextEpoch, Epochs
<1>2. \A j \in Jobs : EntryOK(j)'
  BY DEF IInv, EntryOK, NextEpoch
<1>3. \A e \in Epochs : RowOK(e)' /\ ChainOK(e)'
  BY DEF IInv, RowOK, ChainOK, Owned, Booked, OpenA, OpenB, NextEpoch
<1>4. \A h \in Passes : PassOK(h) => PassOK(h)'
  BY DEF PassOK, ClosingOK, DrivingOK, PayingOK, PayloadOK, Booked, OpenA, OpenB, NextEpoch
<1> QED
  BY <1>1, <1>2, <1>3, <1>4, OthersMove DEF NextEpoch

-----------------------------------------------------------------------------
(* The invariant, and what it says of the ledger. *)

\* Nothing is booked, posted or under way.
LEMMA InitIInv == Init => IInv
<1> SUFFICES ASSUME Init PROVE IInv
  OBVIOUS
<1>1. 1 \in Epochs /\ 0 \in 0..MaxEpoch /\ 0 \in 0..MaxFaults
  BY KeeperAssumption DEF Epochs
<1>2. Ledger
  BY <1>1 DEF Init, Ledger, Entries, Rows, Chains
<1>3. k = [p \in Keepers |-> k[p]] /\ \A p \in Keepers : k[p] = Idle
  BY DEF Init
<1>4. \A p \in Keepers : k[p] \in Passes /\ PassOK(k[p])
  BY <1>3, IdleShape
<1>5. TypeOK
  BY <1>2, <1>4 DEF TypeOK, Ledger, Entries, Rows, Chains, Passes
<1>6. \A j \in Jobs : EntryOK(j)
  BY DEF Init, EntryOK
<1>7. \A e \in Epochs : RowOK(e) /\ ChainOK(e)
  BY DEF Init, RowOK, ChainOK
<1> QED
  BY <1>3, <1>4, <1>5, <1>6, <1>7 DEF IInv

\* Every step of the keeper, and of everybody else.
LEMMA NextIInv == OneKeeper /\ IInv /\ [Next]_vars => IInv'
<1> SUFFICES ASSUME OneKeeper, IInv, [Next]_vars PROVE IInv'
  BY SMTT(60)
<1>1. CASE UNCHANGED vars
  BY <1>1 DEF vars, IInv, TypeOK, EntryOK, RowOK, ChainOK, Owned, Booked, OpenA, OpenB,
              PassOK, ClosingOK, DrivingOK, PayingOK, PayloadOK
<1>2. ASSUME NEW p \in Keepers, KeeperStep(p) PROVE IInv'
  <2>1. CASE CloseStart(p) \/ CloseLook(p) \/ CloseMove(p) \/ CloseSum(p) \/ CloseTotals(p) \/ CloseWrite(p)
    BY <2>1, CloseStartStep, CloseLookStep, CloseMoveStep, CloseSumStep, CloseTotalsStep, CloseWriteStep
  <2>2. CASE List(p) \/ ReadChain(p) \/ PassEnds(p) \/ PostTx(p) \/ TellPosted(p) \/ MarkPosted(p)
    BY <2>2, ListStep, ReadChainStep, PassEndsStep, PostTxStep, TellPostedStep, MarkPostedStep
  <2>3. CASE FinalizeTx(p) \/ ReadFlags(p) \/ ClaimTx(p) \/ ClaimsDone(p)
    BY <2>3, FinalizeTxStep, ReadFlagsStep, ClaimTxStep, ClaimsDoneStep
  <2>4. CASE TellSettled(p) \/ MarkSettled(p) \/ TellVeto(p) \/ MarkVeto(p)
    BY <2>4, TellSettledStep, MarkSettledStep, TellVetoStep, MarkVetoStep
  <2> QED
    BY <1>2, <2>1, <2>2, <2>3, <2>4 DEF KeeperStep
<1>3. CASE \E p \in Keepers : Crash(p)
  BY <1>3, CrashStep
<1>4. CASE \E j \in Jobs : Book(j) \/ ClawEntry(j)
  BY <1>4, EntryStep
<1>5. CASE \E e \in Epochs : \/ GuardianVeto(e) \/ OperatorReportsVeto(e) \/ Ripen(e) \/ Vest(e)
                             \/ \E j \in Jobs : OwnClaim(e, j) \/ ClawLaneB(e, j)
  BY <1>5, GuardianVetoStep, OperatorStep, TimeStep
<1>6. CASE NextEpoch
  BY <1>6, NextEpochStep
<1> QED
  BY <1>1, <1>2, <1>3, <1>4, <1>5, <1>6 DEF Next

\* With one pass at a time (keeper/src/run.ts under its cron), the ledger's rows,
\* its entries, the chain and the pass stay in step.
THEOREM KeeperInvariance == ASSUME OneKeeper PROVE Spec => []IInv
<1>1. Init => IInv
  BY InitIInv
<1>2. IInv /\ [Next]_vars => IInv'
  BY NextIInv
<1> QED
  BY <1>1, <1>2, PTL DEF Spec

\* Every row, entry, epoch and pass stays in its range.
THEOREM TypeCorrect == ASSUME OneKeeper PROVE Spec => []TypeOK
<1>1. IInv => TypeOK
  BY DEF IInv
<1> QED
  BY <1>1, KeeperInvariance, PTL

\* What is live on-chain is what the API has closed, only what is wholly paid is
\* settled, and every close has fees for the pay it promises (closeEpochs,
\* markEpochPosted, markEpochSettled), wherever a pass dies.
THEOREM LedgerAgrees == ASSUME OneKeeper PROVE Spec => []ApiAgrees
<1>1. ASSUME IInv PROVE ApiAgrees
  <2>1. \A e \in Epochs : RowOK(e) /\ ChainOK(e)
    BY <1>1 DEF IInv
  <2> QED
    BY <2>1 DEF ApiAgrees, LiveAgrees, SettledIsPaid, FeesCoverPay, RowOK, ChainOK
<1> QED
  BY <1>1, KeeperInvariance, PTL

\* No job's pay is opened to claims by two epochs: a live epoch's jobs are booked
\* in it, and stay.
THEOREM PaidByOneEpoch == ASSUME OneKeeper PROVE Spec => []NoDoublePay
<1>1. ASSUME IInv PROVE NoDoublePay
  <2>1. \A e \in Epochs : ChainOK(e)
    BY <1>1 DEF IInv
  <2> QED
    BY <2>1 DEF NoDoublePay, ChainOK, Owned
<1> QED
  BY <1>1, KeeperInvariance, PTL

-----------------------------------------------------------------------------
(* The refinement of EpochLife. *)

\* The state EpochLife sees.
LifeNow == [e \in Epochs |-> [st |-> chain[e].st, jobs |-> chain[e].root]]

\* A step that changes one epoch's status or root is seen as that, and no other is seen.
LEMMA LifeSees ==
  ASSUME NEW e \in Epochs, NEW st, NEW jobs,
         \A x \in Epochs : /\ chain'[x].st = IF x = e THEN st ELSE chain[x].st
                         /\ chain'[x].root = IF x = e THEN jobs ELSE chain[x].root
  PROVE  LifeNow' = [LifeNow EXCEPT ![e] = [st |-> st, jobs |-> jobs]]
BY DEF LifeNow

\* Every step of the system is a step of EpochLife, or stutters there.
LEMMA LifeStep ==
  ASSUME OneKeeper, IInv, [Next]_vars
  PROVE  [Life!Next]_LifeNow
<1>1. Ledger /\ chain \in [Epochs -> Chains]
  BY DEF IInv, TypeOK, Ledger, Entries, Rows, Chains
<1>2. CASE chain' = chain
  BY <1>2 DEF LifeNow
<1>3. ASSUME NEW p \in Keepers, PostTx(p) PROVE [Life!Next]_LifeNow
  <2>1. k[p] \in Passes /\ PassOK(k[p]) /\ k[p].work \in [Epochs -> Payloads] /\ k[p].pc = "post"
    BY <1>3, Known, PassShape DEF PostTx
  <2>2. PICK e \in Epochs : e = k[p].e
    BY <2>1 DEF PassOK, DrivingOK, AtEpoch
  <2>3. PICK S \in SUBSET Jobs : S = k[p].work[e].root
    BY <2>1, <2>2 DEF Payloads
  <2>4. chain[e].st = "None" \/ (chain[e].st = "Vetoed" /\ S # chain[e].root)
    BY <2>1, <2>2, <2>3 DEF PassOK, DrivingOK
  <2>5. CASE chain' = [chain EXCEPT ![e].st = "Posted", ![e].root = S, ![e].ripe = FALSE]
    <3>1. \A x \in Epochs : /\ chain'[x].st = IF x = e THEN "Posted" ELSE chain[x].st
                           /\ chain'[x].root = IF x = e THEN S ELSE chain[x].root
      BY <1>1, <2>5 DEF Chains
    <3>2. LifeNow' = [LifeNow EXCEPT ![e] = [st |-> "Posted", jobs |-> S]]
      BY <3>1, LifeSees
    <3>3. Life!Post(e, S)
      BY <2>4, <3>2 DEF Life!Post, LifeNow
    <3> QED
      BY <3>3 DEF Life!Next
  <2> QED
    BY SMTT(60), <1>2, <1>3, <2>2, <2>3, <2>5 DEF PostTx
<1>4. ASSUME NEW p \in Keepers, FinalizeTx(p) PROVE [Life!Next]_LifeNow
  <2>1. k[p] \in Passes /\ PassOK(k[p]) /\ k[p].pc = "finalize"
    BY <1>4, Known DEF FinalizeTx
  <2>2. PICK e \in Epochs : e = k[p].e
    BY <2>1 DEF PassOK, DrivingOK, AtEpoch, Marked
  <2>3. CASE chain[e].st = "Posted" /\ chain' = [chain EXCEPT ![e].st = "Finalized"]
    <3>1. \A x \in Epochs : /\ chain'[x].st = IF x = e THEN "Finalized" ELSE chain[x].st
                           /\ chain'[x].root = IF x = e THEN chain[e].root ELSE chain[x].root
      BY <1>1, <2>3 DEF Chains
    <3>2. LifeNow' = [LifeNow EXCEPT ![e] = [st |-> "Finalized", jobs |-> chain[e].root]]
      BY <3>1, LifeSees
    <3>3. \A f \in Epochs : chain[f].st = "Finalized" => chain[f].root \cap chain[e].root = {}
      <4>1. \A f \in Epochs : ChainOK(f)
        BY DEF IInv
      <4> QED
        BY <2>3, <4>1 DEF ChainOK, Owned
    <3>4. LifeNow' = [LifeNow EXCEPT ![e].st = "Finalized"]
      BY <3>2 DEF LifeNow
    <3>5. Life!Finalize(e)
      BY <2>3, <3>3, <3>4 DEF Life!Finalize, LifeNow
    <3> QED
      BY <3>5 DEF Life!Next
  <2> QED
    BY <1>2, <1>4, <2>2, <2>3 DEF FinalizeTx
<1>5. ASSUME NEW e \in Epochs, GuardianVeto(e) PROVE [Life!Next]_LifeNow
  <2>1. \A x \in Epochs : /\ chain'[x].st = IF x = e THEN "Vetoed" ELSE chain[x].st
                         /\ chain'[x].root = IF x = e THEN chain[e].root ELSE chain[x].root
    BY <1>1, <1>5 DEF GuardianVeto, Chains
  <2>2. LifeNow' = [LifeNow EXCEPT ![e] = [st |-> "Vetoed", jobs |-> chain[e].root]]
    BY SMTT(60), <2>1, LifeSees
  <2>3. LifeNow' = [LifeNow EXCEPT ![e].st = "Vetoed"]
    BY <2>2 DEF LifeNow
  <2>4. Life!Veto(e)
    BY <1>5, <2>3 DEF Life!Veto, LifeNow, GuardianVeto
  <2> QED
    BY <2>4 DEF Life!Next
<1>6. ASSUME Pays PROVE [Life!Next]_LifeNow
  BY <1>6 DEF Pays, LifeNow
<1>7. ASSUME NEW p \in Keepers, ClaimTx(p) PROVE [Life!Next]_LifeNow
  <2>1. k[p] \in Passes /\ PassOK(k[p]) /\ k[p].claims \in SUBSET Jobs /\ k[p].pc = "claim"
    BY <1>7, Known, PassShape DEF ClaimTx
  <2>2. PICK e \in Epochs : e = k[p].e
    BY <2>1 DEF PassOK, DrivingOK, AtEpoch, Marked
  <2>3. chain' = chain \/ \E j \in Jobs : chain' = Claimed(e, j)
    BY <1>7, <2>1, <2>2 DEF ClaimTx
  <2> QED
    BY <1>1, <1>2, <1>6, <2>3, ClaimPays
<1>8. ASSUME NEW e \in Epochs, Ripen(e) \/ Vest(e) \/ \E j \in Jobs : OwnClaim(e, j) \/ ClawLaneB(e, j)
      PROVE  [Life!Next]_LifeNow
  <2>1. CASE \E j \in Jobs : OwnClaim(e, j)
    BY <1>1, <1>6, <2>1, ClaimPays DEF OwnClaim
  <2>2. CASE Ripen(e) \/ Vest(e) \/ \E j \in Jobs : ClawLaneB(e, j)
    <3>1. \A x \in Epochs : chain'[x].st = chain[x].st /\ chain'[x].root = chain[x].root
      BY <1>1, <2>2 DEF Ripen, Vest, ClawLaneB, Chains
    <3> QED
      BY <3>1 DEF LifeNow
  <2> QED
    BY <1>8, <2>1, <2>2
<1>9. ASSUME NEW p \in Keepers, KeeperStep(p) \/ Crash(p) PROVE [Life!Next]_LifeNow
  <2>1. \/ PostTx(p) \/ FinalizeTx(p) \/ ClaimTx(p) \/ chain' = chain
    BY <1>9 DEF KeeperStep, Crash, CloseStart, CloseLook, CloseMove, CloseSum, CloseTotals, CloseWrite, List,
                ReadChain, PassEnds, TellPosted, MarkPosted, ReadFlags, ClaimsDone, TellSettled, MarkSettled,
                TellVeto, MarkVeto
  <2> QED
    BY SMTT(60), <1>2, <1>3, <1>4, <1>7, <2>1
<1> QED
  BY <1>2, <1>5, <1>8, <1>9 DEF Next, vars, Book, ClawEntry, OperatorReportsVeto, NextEpoch

\* The API, the keeper and the contract together keep EpochLife's promise: no
\* vetoed root is posted again, and no job is paid by two epochs (run.ts).
THEOREM KeepsEpochLife == ASSUME OneKeeper PROVE Spec => ImplementsEpochLife
<1>1. Init => Life!Init
  BY DEF Init, Life!Init
<1>2. IInv /\ [Next]_vars => [Life!Next]_LifeNow
  BY LifeStep
<1> QED
  BY <1>1, <1>2, KeeperInvariance, PTL DEF Spec, ImplementsEpochLife, Life!Spec, LifeNow
=============================================================================
