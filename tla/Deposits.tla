------------------------------ MODULE Deposits ------------------------------
(***************************************************************************)
(* The deposit watcher (deposit-watcher.service.ts): cron passes that scan  *)
(* the Settlement contract's Deposited logs behind the head, credit each    *)
(* one together with its processed_tx marker, and then store the cursor.    *)
(* Passes overlap, fail anywhere, and the chain drops its newest blocks.    *)
(***************************************************************************)
EXTENDS Naturals, FiniteSets

CONSTANTS
  Logs,           \* deposits users make (one Deposited log each)
  Dust,           \* those that round to zero uCLD
  Passes,         \* cron passes that may overlap
  None,
  StartBlock,     \* DEPOSIT_WATCHER_START_BLOCK, or None
  Confirmations,  \* DEPOSIT_CONFIRMATIONS
  MaxBlocksPerRun,
  ReorgDepth,     \* how many blocks a reorganisation replaces at most
  MaxHead,        \* bound: blocks
  MaxReorgs,      \* bound: reorganisations
  MaxFaults       \* bound: passes that fail

ASSUME DepositsAssumption ==
  /\ Dust \subseteq Logs /\ None \notin Nat /\ (StartBlock = None \/ StartBlock \in Nat \ {0})
  /\ Confirmations \in Nat /\ MaxBlocksPerRun \in Nat \ {0}
  /\ ReorgDepth \in 0..Confirmations
  /\ MaxHead \in Nat /\ MaxReorgs \in Nat /\ MaxFaults \in Nat

VARIABLES
  head,       \* the newest block
  block,      \* per log: the block it is in, 0 when it is in none
  cursor,     \* KV deposit-watcher:cursor
  processed,  \* processed_tx
  credits,    \* per log: how often the user's balance was credited for it
  pass,       \* the passes under way
  start,      \* history: the first cursor ever stored
  reorgs, faults

chain == <<head, block, reorgs>>
ledger == <<processed, credits>>
vars == <<chain, cursor, ledger, pass, start, faults>>

Idle == [pc |-> "idle", latest |-> 0, from |-> 0, to |-> 0, todo |-> {}, log |-> None]

Init ==
  /\ head = 0 /\ block = [d \in Logs |-> 0] /\ reorgs = 0
  /\ cursor = None /\ start = None
  /\ processed = {} /\ credits = [d \in Logs |-> 0]
  /\ pass = [p \in Passes |-> Idle] /\ faults = 0

-----------------------------------------------------------------------------
(* The chain. *)

Mine ==
  /\ head < MaxHead
  /\ head' = head + 1
  /\ \E new \in SUBSET {d \in Logs : block[d] = 0} :
       block' = [d \in Logs |-> IF d \in new THEN head' ELSE block[d]]
  /\ UNCHANGED <<cursor, ledger, pass, start, reorgs, faults>>

\* The newest blocks are replaced; what they held is anywhere in the new ones, or still pending.
Reorg ==
  /\ reorgs < MaxReorgs /\ reorgs' = reorgs + 1
  /\ \E depth \in 1..ReorgDepth :
       LET moved == {d \in Logs : block[d] # 0 /\ block[d] + depth > head}
       IN  /\ moved # {}
           /\ \E at \in [moved -> {0} \cup {b \in 1..head : b + depth > head}] :
                block' = [d \in Logs |-> IF d \in moved THEN at[d] ELSE block[d]]
  /\ UNCHANGED <<head, cursor, ledger, pass, start, faults>>

-----------------------------------------------------------------------------
(* One pass. *)

\* Mutant: the head itself is scanned.
LatestUnconfirmed == head

\* The newest block that is scanned.
Latest == IF head > Confirmations THEN head - Confirmations ELSE 0

Begin(p) ==
  /\ pass[p].pc = "idle"
  /\ pass' = [pass EXCEPT ![p] = [Idle EXCEPT !.pc = "cursor", !.latest = Latest]]
  /\ UNCHANGED <<chain, cursor, ledger, start, faults>>

\* Mutant: the start block is scanned from one block too early.
FirstCursorEarly(latest) == IF StartBlock # None THEN StartBlock - 2 ELSE latest - 1

\* The last block that counts as scanned before the first pass.
FirstCursor(latest) == IF StartBlock # None THEN StartBlock - 1 ELSE latest

ReadCursor(p) ==
  /\ pass[p].pc = "cursor"
  /\ pass' = [pass EXCEPT ![p].pc = IF cursor = None THEN "first" ELSE "scan",
                          ![p].from = 1 + IF cursor = None THEN FirstCursor(pass[p].latest) ELSE cursor]
  /\ UNCHANGED <<chain, cursor, ledger, start, faults>>

StoreFirst(p) ==
  /\ pass[p].pc = "first"
  /\ cursor' = pass[p].from - 1
  /\ start' = IF start = None THEN cursor' ELSE start
  /\ pass' = [pass EXCEPT ![p].pc = "scan"]
  /\ UNCHANGED <<chain, ledger, faults>>

LastBlock(from, latest) ==
  IF latest - from + 1 > MaxBlocksPerRun THEN from + MaxBlocksPerRun - 1 ELSE latest

\* Nothing to scan, or eth_getLogs of the range.
Scan(p) ==
  /\ pass[p].pc = "scan"
  /\ LET from == pass[p].from
         to == LastBlock(from, pass[p].latest)
     IN  pass' = IF from > pass[p].latest THEN [pass EXCEPT ![p] = Idle]
                 ELSE [pass EXCEPT ![p].pc = "credit", ![p].to = to,
                                   ![p].todo = {d \in Logs : block[d] \in from..to}]
  /\ UNCHANGED <<chain, cursor, ledger, start, faults>>

\* Mutant: the markers are not looked up first, so a pass fails on every log it has credited before.
SeenNot(d) == d \in Dust

\* creditDeposit up to its SELECT: dust and what is already processed are passed over.
Seen(d) == d \in Dust \/ d \in processed

Select(p) ==
  /\ pass[p].pc = "credit"
  /\ \E d \in pass[p].todo :
       pass' = IF Seen(d) THEN [pass EXCEPT ![p].todo = @ \ {d}]
               ELSE [pass EXCEPT ![p].pc = "batch", ![p].log = d]
  /\ UNCHANGED <<chain, cursor, ledger, start, faults>>

\* Mutant: the marker is no key.
DuplicateNever(d) == FALSE

\* The batch: marker and credit in one transaction.  A marker that is already there fails its primary
\* key, which rolls the credit back and ends the pass before it stores a cursor.
Duplicate(d) == d \in processed

Batch(p) ==
  /\ pass[p].pc = "batch"
  /\ LET d == pass[p].log
     IN  IF Duplicate(d)
         THEN pass' = [pass EXCEPT ![p] = Idle] /\ UNCHANGED ledger
         ELSE /\ processed' = processed \cup {d} /\ credits' = [credits EXCEPT ![d] = @ + 1]
              /\ pass' = [pass EXCEPT ![p].pc = "credit", ![p].todo = @ \ {d}, ![p].log = None]
  /\ UNCHANGED <<chain, cursor, start, faults>>

\* Mutant: the cursor is stored before the last credit.
MayStoreEarly(p) == pass[p].pc = "credit" /\ Cardinality(pass[p].todo) =< 1

MayStore(p) == pass[p].pc = "credit" /\ pass[p].todo = {}

StoreCursor(p) ==
  /\ MayStore(p)
  /\ cursor' = pass[p].to
  /\ pass' = [pass EXCEPT ![p] = Idle]
  /\ UNCHANGED <<chain, ledger, start, faults>>

\* The RPC, D1 or KV fails, or the worker is killed, between any two steps.
Fail(p) ==
  /\ pass[p].pc # "idle" /\ faults < MaxFaults
  /\ faults' = faults + 1
  /\ pass' = [pass EXCEPT ![p] = Idle]
  /\ UNCHANGED <<chain, cursor, ledger, start>>

PassStep(p) ==
  Begin(p) \/ ReadCursor(p) \/ StoreFirst(p) \/ Scan(p) \/ Select(p) \/ Batch(p) \/ StoreCursor(p)

Next == Mine \/ Reorg \/ \E p \in Passes : PassStep(p) \/ Fail(p)

Spec == Init /\ [][Next]_vars

\* The cron fires every minute and a pass that does not fail goes on.
Fairness == \A p \in Passes : WF_vars(PassStep(p))

FairSpec == Spec /\ Fairness

-----------------------------------------------------------------------------
(* Properties. *)

PassType == [pc : {"idle", "cursor", "first", "scan", "credit", "batch"}, latest : Nat, from : Nat, to : Nat,
             todo : SUBSET Logs, log : Logs \cup {None}]

TypeOK ==
  /\ head \in Nat /\ block \in [Logs -> Nat] /\ reorgs \in Nat /\ faults \in Nat
  /\ cursor \in Nat \cup {None} /\ start \in Nat \cup {None}
  /\ processed \in SUBSET Logs /\ credits \in [Logs -> Nat]
  /\ pass \in [Passes -> PassType]

\* "Each log is credited at most once", however passes overlap, and never without its marker.
CreditedOnce == \A d \in Logs : credits[d] = IF d \in processed THEN 1 ELSE 0

\* "A log in a block that is later reorged out is never credited": what was credited is in a block that no
\* reorganisation reaches any more.
CreditedIsFinal == \A d \in processed : block[d] \in 1..(head - Confirmations)

\* The cursor never gets ahead of the credits: every log between the first cursor and the stored one is
\* credited, although overlapping passes may store their cursors in any order.
CursorCovers ==
  cursor # None =>
    \A d \in Logs \ Dust : block[d] > start /\ block[d] \in 1..cursor => d \in processed

\* Every deposit is credited exactly once, only where no reorganisation reaches it, and none is passed over by
\* the cursor.
DepositsExact == CreditedOnce /\ CreditedIsFinal /\ CursorCovers

\* A deposit made after the watcher was started is credited once it is confirmed, whatever failed on the way.
EveryDepositCredited ==
  \A d \in Logs \ Dust :
    (start # None /\ block[d] > start /\ block[d] + Confirmations =< head) ~> (d \in processed)

=============================================================================
