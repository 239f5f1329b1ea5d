------------------------------ MODULE Storage ------------------------------
(***************************************************************************)
(* Provider copies of one stored artifact: the API's cron and node routes   *)
(* (storage.service.ts, routes/v1/nodes-storage.ts) and the storage role of *)
(* the agents (node-agent/src/storage.ts).                                  *)
(*                                                                         *)
(* Time is left out: whatever waits for a deadline (a stale pending copy, a *)
(* check, a back-off, a retry) may happen at any moment it is armed.  What  *)
(* decides only whether a node is eligible right now (quota, relay, caps,   *)
(* cooldown, back-off) is a free choice among the nodes.  The artifact       *)
(* itself stays in R2.                                                      *)
(***************************************************************************)
EXTENDS Naturals, FiniteSets, Sequences

CONSTANTS
  Nodes,
  Networks,    \* a partition of Nodes: nodes of one /24 or one ASN
  Runs,        \* cron runs that may overlap
  Ids,         \* bound: copy ids ever used
  None,
  Copies,      \* STORAGE_COPIES
  Fetches,     \* FETCHES_PER_COPY
  MaxFaults,   \* bound: crashes, lost answers, missed checks, nodes given up
  Torn         \* whether a request may fail between two of its statements

\* storage_copies: a row.
Row == [idx : 0..(Copies - 1), node : Nodes, st : {"pending", "held", "suspect", "dropping"},
        fetches : 0..Fetches, checked : BOOLEAN]

StorageAssumption ==
  /\ None \notin Nodes \cup Ids \cup Row /\ UNION Networks = Nodes /\ IsFiniteSet(Ids)
  /\ Copies \in Nat \ {0} /\ Fetches \in Nat \ {0} /\ MaxFaults \in Nat /\ Torn \in BOOLEAN

VARIABLES
  copy,     \* storage_copies: per id its row, or None
  used,     \* ids used so far
  want,     \* storage_objects.next_attempt_at is set
  retired,  \* the object is past its retention
  sched,    \* per node: nodes.storage_next_check_at is set
  run,      \* the cron runs
  agent,    \* per node: the storage role and the report it is sending
  disk,     \* per node: the copies on its disk
  forgot,   \* history: nodes whose dropped copies were forgotten
  faults

object == <<used, want, retired>>
api == <<copy, object, sched, forgot>>
vars == <<api, run, agent, disk, faults>>

\* Run q is placing the object.
Placing(q) == run[q].pc \in {"held", "pick", "insert", "end"}

Rows == {c \in Ids : copy[c] # None}
In(states) == {c \in Rows : copy[c].st \in states}
Live == In({"pending", "held", "suspect"})
Of(n) == {c \in Rows : copy[c].node = n}

IdleRun == [pc |-> "idle", live |-> {}, held |-> {}, pick |-> None, since |-> {}, done |-> {}, copy |-> None]
IdleAgent == [pc |-> "idle", fetch |-> {}, drop |-> {}, copy |-> None, out |-> <<>>, sent |-> 0]

Init ==
  /\ copy = [c \in Ids |-> None] /\ used = {} /\ want = TRUE /\ retired = FALSE
  /\ sched = [n \in Nodes |-> FALSE] /\ forgot = {}
  /\ run = [r \in Runs |-> IdleRun] /\ agent = [n \in Nodes |-> IdleAgent]
  /\ disk = [n \in Nodes |-> {}] /\ faults = 0

Fault == faults < MaxFaults /\ faults' = faults + 1

\* The rows cs move to state st, where they still are in one of the states from.
Move(cs, from, st) ==
  [c \in Ids |-> IF c \in cs \cap In(from) THEN [copy[c] EXCEPT !.st = st] ELSE copy[c]]

-----------------------------------------------------------------------------
(* One cron run: expireCopies, placeCopies, runChecks, auditSuspects.  A phase that finds nothing due is no
   step, so the run goes on with any phase, as a later run would. *)

\* The statements of expireCopies that apply: stale pending copies, a node offline for two days, retention,
\* and the drops of a node gone for a month.  None of these
\* times passes for a copy that was placed since a run that is still placing began.
ExpireStale(r) ==
  /\ run[r].pc = "idle"
  /\ \E c \in In({"pending"}) :
       /\ \A q \in Runs : c \notin run[q].since
       /\ copy' = Move({c}, {"pending"}, "dropping")
  /\ want' = TRUE
  /\ UNCHANGED <<used, retired, sched, forgot, run, agent, disk, faults>>

ExpireOffline(r) ==
  /\ run[r].pc = "idle" /\ Fault
  /\ \E n \in Nodes :
       /\ \A q \in Runs : Of(n) \cap run[q].since = {}
       /\ copy' = Move(Of(n), {"pending", "held", "suspect"}, "dropping")
       /\ want' = (want \/ (~retired /\ Of(n) \cap Live # {}))
  /\ UNCHANGED <<used, retired, sched, forgot, run, agent, disk>>

Forget(r) ==
  /\ run[r].pc = "idle" /\ Fault
  /\ \E n \in Nodes :
       /\ agent[n].pc = "down"
       /\ copy' = [c \in Ids |-> IF c \in Of(n) \cap In({"dropping"}) THEN None ELSE copy[c]]
       /\ forgot' = forgot \cup {n}
  /\ UNCHANGED <<object, sched, run, agent, disk>>

ExpireObject(r) ==
  /\ run[r].pc = "idle"
  /\ retired' = TRUE /\ want' = FALSE
  /\ copy' = Move(Rows, {"pending", "held", "suspect"}, "dropping")
  /\ UNCHANGED <<used, sched, forgot, run, agent, disk, faults>>

\* placeCopies takes the object from its queue and reads its live copies ...
PlaceBegin(r) ==
  /\ run[r].pc = "idle" /\ want /\ ~retired
  /\ run' = [run EXCEPT ![r] = [IdleRun EXCEPT !.pc = "held", !.live = {<<copy[c].idx, copy[c].node>> : c \in Live}]]
  /\ UNCHANGED <<api, agent, disk, faults>>

\* ... and every node with any copy of it, also one that is being dropped.
PlaceHeld(r) ==
  /\ run[r].pc = "held"
  /\ run' = [run EXCEPT ![r].pc = "pick", ![r].held = {copy[c].node : c \in Rows}]
  /\ UNCHANGED <<api, agent, disk, faults>>

\* Mutant: the network of the copies placed before is not compared.
EligibleAnyNetwork(n, live, held) == n \notin held

Eligible(n, live, held) ==
  /\ n \notin held
  /\ \A l \in live, net \in Networks : ~ {n, l[2]} \subseteq net

\* Mutant: the first index is 1.
FreeIdxFromOne(live) == CHOOSE i \in 1..(Copies + 1) : i \notin {l[1] : l \in live}

\* The smallest index without a live copy.
FreeIdx(live) == CHOOSE i \in 0..Copies : i \notin {l[1] : l \in live} /\ \A j \in 0..(i - 1) : j \in {l[1] : l \in live}

\* Pick a node and read the artifact; no node, or a read that fails, ends the object's turn.
PlacePick(r) ==
  /\ run[r].pc = "pick" /\ Cardinality(run[r].live) < Copies
  /\ \/ run' = [run EXCEPT ![r].pc = "end"]
     \/ \E n \in Nodes :
          /\ Eligible(n, run[r].live, run[r].held)
          /\ run' = [run EXCEPT ![r].pc = "insert", ![r].pick = <<FreeIdx(run[r].live), n>>]
  /\ UNCHANGED <<api, agent, disk, faults>>

\* INSERT a pending copy; the unique index on live copies refuses an index that is taken.
PlaceInsert(r) ==
  /\ run[r].pc = "insert"
  /\ LET p == run[r].pick
     IN  IF p[1] \in {copy[c].idx : c \in Live}
         THEN run' = [run EXCEPT ![r].pc = "end"] /\ UNCHANGED <<copy, used>>
         ELSE \E c \in Ids \ used :
                /\ used' = used \cup {c}
                /\ copy' = [copy EXCEPT ![c] = [idx |-> p[1], node |-> p[2], st |-> "pending", fetches |-> 0, checked |-> FALSE]]
                /\ run' = [q \in Runs |->
                     IF q = r THEN [run[r] EXCEPT !.pc = "pick", !.live = @ \cup {p}, !.held = @ \cup {p[2]}, !.since = @ \cup {c}]
                     ELSE IF Placing(q) THEN [run[q] EXCEPT !.since = @ \cup {c}] ELSE run[q]]
  /\ UNCHANGED <<want, retired, sched, forgot, agent, disk, faults>>

\* The object's turn ends: done when the copies this run knows of are enough, else later again.
PlaceEnd(r) ==
  /\ run[r].pc = "end" \/ (run[r].pc = "pick" /\ Cardinality(run[r].live) >= Copies)
  /\ want' = (Cardinality(run[r].live) < Copies)
  /\ run' = [run EXCEPT ![r] = IdleRun]
  /\ UNCHANGED <<copy, used, retired, sched, forgot, agent, disk, faults>>

\* runChecks claims a due node and checkNode chooses one of its held copies, unchecked ones first.
CheckBegin(r) ==
  /\ run[r].pc = "idle"
  /\ \E n \in Nodes :
       LET held == Of(n) \cap In({"held"})
           new == {c \in held : ~copy[c].checked}
       IN  /\ sched[n] /\ n \notin run[r].done
           /\ \E c \in IF held = {} THEN {None} ELSE IF new # {} THEN new ELSE held :
                run' = [run EXCEPT ![r].pc = "check", ![r].pick = <<0, n>>, ![r].copy = c, ![r].done = @ \cup {n}]
  /\ UNCHANGED <<api, agent, disk, faults>>

\* Mutant: a pending copy does not keep the schedule.
KeepsScheduleHeld(n) == FALSE

\* The schedule of a node without a held copy is kept while it has a live one.
KeepsSchedule(n) == Of(n) \cap Live # {}

CheckNothing(r) ==
  /\ run[r].pc = "check" /\ run[r].copy = None
  /\ LET n == run[r].pick[2] IN sched' = [sched EXCEPT ![n] = @ /\ KeepsSchedule(n)]
  /\ run' = [run EXCEPT ![r] = [IdleRun EXCEPT !.done = @]]
  /\ UNCHANGED <<copy, object, forgot, agent, disk, faults>>

\* The node answers with a proof, or it is a flake and the second challenge is answered.
CheckPass(r) ==
  /\ run[r].pc = "check" /\ run[r].copy # None
  /\ run[r].copy \in disk[run[r].pick[2]] /\ agent[run[r].pick[2]].pc # "down"
  /\ copy' = IF run[r].copy \in Rows THEN [copy EXCEPT ![run[r].copy].checked = TRUE] ELSE copy
  /\ run' = [run EXCEPT ![r] = [IdleRun EXCEPT !.done = @]]
  /\ UNCHANGED <<object, sched, forgot, agent, disk, faults>>

\* Both challenges fail: the node has no such copy, or a fault keeps its answers away twice (confirmFailure).
Missed(r) ==
  /\ run[r].copy # None
  /\ IF run[r].copy \in disk[run[r].pick[2]] THEN Fault ELSE UNCHANGED faults

CheckFail(r) ==
  /\ run[r].pc = "check" /\ Missed(r)
  /\ copy' = [c \in Ids |->
       IF c = run[r].copy /\ c \in In({"held", "suspect"}) THEN [copy[c] EXCEPT !.st = "dropping", !.checked = TRUE]
       ELSE IF c \in Of(run[r].pick[2]) \cap In({"held"}) THEN [copy[c] EXCEPT !.st = "suspect", !.checked = FALSE]
       ELSE copy[c]]
  /\ want' = TRUE
  /\ run' = [run EXCEPT ![r] = [IdleRun EXCEPT !.done = @]]
  /\ UNCHANGED <<used, retired, sched, forgot, agent, disk>>

\* auditSuspects claims a suspect copy, asks for one leaf, and moves it where it is still suspect.
AuditBegin(r) ==
  /\ run[r].pc = "idle"
  /\ \E c \in In({"suspect"}) :
       /\ copy[c].node \notin run[r].done
       /\ run' = [run EXCEPT ![r].pc = "audit", ![r].pick = <<0, copy[c].node>>, ![r].copy = c, ![r].done = @ \cup {copy[c].node}]
       /\ copy' = [copy EXCEPT ![c].checked = TRUE]
  /\ UNCHANGED <<object, sched, forgot, agent, disk, faults>>

AuditPass(r) ==
  /\ run[r].pc = "audit"
  /\ run[r].copy \in disk[run[r].pick[2]] /\ agent[run[r].pick[2]].pc # "down"
  /\ copy' = Move({run[r].copy}, {"suspect"}, "held")
  /\ sched' = [sched EXCEPT ![run[r].pick[2]] = TRUE]
  /\ run' = [run EXCEPT ![r] = [IdleRun EXCEPT !.done = @]]
  /\ UNCHANGED <<object, forgot, agent, disk, faults>>

AuditFail(r) ==
  /\ run[r].pc = "audit" /\ Missed(r)
  /\ copy' = Move({run[r].copy}, {"suspect"}, "dropping")
  /\ want' = TRUE
  /\ run' = [run EXCEPT ![r] = [IdleRun EXCEPT !.done = @]]
  /\ UNCHANGED <<used, retired, sched, forgot, agent, disk>>

\* The run ends (its nodes are due again later), or the worker is killed.
RunEnd(r) ==
  /\ IF run[r].pc = "idle" THEN run[r].done # {} /\ UNCHANGED faults ELSE Fault
  /\ run' = [run EXCEPT ![r] = IdleRun]
  /\ UNCHANGED <<api, agent, disk>>

RunStep(r) ==
  \/ ExpireStale(r) \/ ExpireOffline(r) \/ Forget(r) \/ ExpireObject(r)
  \/ PlaceBegin(r) \/ PlaceHeld(r) \/ PlacePick(r) \/ PlaceInsert(r) \/ PlaceEnd(r)
  \/ CheckBegin(r) \/ CheckNothing(r) \/ CheckPass(r) \/ CheckFail(r)
  \/ AuditBegin(r) \/ AuditPass(r) \/ AuditFail(r) \/ RunEnd(r)

-----------------------------------------------------------------------------
(* A node: the agent's StorageRole and the routes it calls. *)

Agent(n, a) == agent' = [agent EXCEPT ![n] = a]

\* storageInstructions reads the pending copies, then the dropping ones; the answer reaches an idle role.
Instruct(n) ==
  /\ agent[n].pc = "idle"
  /\ Agent(n, [agent[n] EXCEPT !.pc = "instr", !.fetch = {c \in Of(n) \cap In({"pending"}) : copy[c].fetches < Fetches}])
  /\ UNCHANGED <<api, run, disk, faults>>

Handle(n) ==
  /\ agent[n].pc = "instr"
  /\ Agent(n, [agent[n] EXCEPT !.pc = "delete", !.drop = Of(n) \cap In({"dropping"})])
  /\ UNCHANGED <<api, run, disk, faults>>

\* The copies cs, in some order.
Orders(cs) == {s \in [1..Cardinality(cs) -> cs] : \A i, j \in 1..Cardinality(cs) : s[i] = s[j] => i = j}

\* Deletes come first.
Delete(n) ==
  /\ agent[n].pc = "delete"
  /\ disk' = [disk EXCEPT ![n] = @ \ agent[n].drop]
  /\ \E cs \in Orders(agent[n].drop) :
       Agent(n, [agent[n] EXCEPT !.pc = "fetch", !.drop = {}, !.out = @ \o [i \in 1..Len(cs) |-> <<cs[i], "deleted">>]])
  /\ UNCHANGED <<api, run, faults>>

Fetched(n, c, st) == [agent[n] EXCEPT !.pc = "fetch", !.copy = None, !.fetch = @ \ {c}, !.out = Append(@, <<c, st>>)]

\* A copy that is on disk is reported held again; one over the quota has failed.
FetchKnown(n) ==
  /\ agent[n].pc = "fetch"
  /\ \E c \in agent[n].fetch :
       \/ c \in disk[n] /\ Agent(n, Fetched(n, c, "held")) /\ UNCHANGED faults
       \/ c \notin disk[n] /\ Fault /\ Agent(n, Fetched(n, c, "failed"))
  /\ UNCHANGED <<api, run, disk>>

\* Mutant: a copy can be downloaded whatever its state.
MayDownloadAny(c) == c \in Rows

MayDownload(c) == c \in In({"pending"}) /\ copy[c].fetches < Fetches

\* downloadCopy claims one of the downloads of a pending copy, or refuses.
Download(n) ==
  /\ agent[n].pc = "fetch"
  /\ \E c \in agent[n].fetch \ disk[n] :
       IF MayDownload(c)
       THEN /\ copy' = [copy EXCEPT ![c].fetches = @ + 1]
            /\ Agent(n, [agent[n] EXCEPT !.pc = "body", !.copy = c])
       ELSE /\ Agent(n, [agent[n] EXCEPT !.fetch = @ \ {c}])
            /\ UNCHANGED copy
  /\ UNCHANGED <<object, sched, forgot, run, disk, faults>>

\* The ciphertext arrives, matches its root, and is renamed into place.
Keep(n) ==
  /\ agent[n].pc = "body"
  /\ disk' = [disk EXCEPT ![n] = @ \cup {agent[n].copy}]
  /\ Agent(n, Fetched(n, agent[n].copy, "held"))
  /\ UNCHANGED <<api, run, faults>>

BodyLost(n) ==
  /\ agent[n].pc = "body" /\ Fault
  /\ Agent(n, [agent[n] EXCEPT !.pc = "fetch", !.copy = None, !.fetch = @ \ {agent[n].copy}])
  /\ UNCHANGED <<api, run, disk>>

Send(n) ==
  /\ agent[n].pc = "fetch" /\ agent[n].fetch = {}
  /\ Agent(n, [agent[n] EXCEPT !.pc = IF agent[n].out = <<>> THEN "idle" ELSE "report", !.sent = 0])
  /\ UNCHANGED <<api, run, disk, faults>>

Sending(n, st) ==
  /\ agent[n].pc = "report" /\ agent[n].sent < Len(agent[n].out)
  /\ agent[n].out[agent[n].sent + 1][2] = st

Reported(n) == agent[n].out[agent[n].sent + 1][1]

NextReport(n) == Agent(n, [agent[n] EXCEPT !.pc = "report", !.sent = @ + 1])

\* Mutant: a copy is held whether or not it was ever downloaded.
MayHoldDropped(c) == c \in In({"pending", "dropping"}) /\ copy[c].fetches >= 1

MayHold(c) == c \in In({"pending"}) /\ copy[c].fetches >= 1

\* applyReports, held: first the copy, then the node's schedule.
ReportHeld(n) ==
  /\ Sending(n, "held")
  /\ IF MayHold(Reported(n))
     THEN copy' = [copy EXCEPT ![Reported(n)].st = "held"] /\ Agent(n, [agent[n] EXCEPT !.pc = "sched"])
     ELSE NextReport(n) /\ UNCHANGED copy
  /\ UNCHANGED <<object, sched, forgot, run, disk, faults>>

ReportSchedule(n) ==
  /\ agent[n].pc = "sched"
  /\ sched' = [sched EXCEPT ![n] = TRUE]
  /\ NextReport(n)
  /\ UNCHANGED <<copy, object, forgot, run, disk, faults>>

\* Mutant: the row of a deleted copy stays.
MayForgetNone(c) == FALSE

MayForget(c) == c \in In({"dropping"})

ReportDeleted(n) ==
  /\ Sending(n, "deleted")
  /\ copy' = [c \in Ids |-> IF c = Reported(n) /\ MayForget(c) THEN None ELSE copy[c]]
  /\ NextReport(n)
  /\ UNCHANGED <<object, sched, forgot, run, disk, faults>>

ReportFailed(n) ==
  /\ Sending(n, "failed")
  /\ copy' = Move({Reported(n)}, {"pending"}, "dropping")
  /\ want' = (want \/ Reported(n) \in In({"pending"}))
  /\ NextReport(n)
  /\ UNCHANGED <<used, retired, sched, forgot, run, disk, faults>>

\* The answer arrives, or it is lost and the whole report is sent again with the next one.
Delivered(n) ==
  /\ agent[n].pc = "report" /\ agent[n].sent = Len(agent[n].out)
  /\ Agent(n, IdleAgent)
  /\ UNCHANGED <<api, run, disk, faults>>

Undelivered(n) ==
  /\ agent[n].pc = "report" \/ (Torn /\ agent[n].pc = "sched")
  /\ Fault
  /\ Agent(n, [agent[n] EXCEPT !.pc = "idle", !.sent = 0])
  /\ UNCHANGED <<api, run, disk>>

\* The agent dies: its disk is kept, what it had to report is not.
Crash(n) ==
  /\ agent[n].pc \notin {"down", "sched"} /\ Fault
  /\ Agent(n, [IdleAgent EXCEPT !.pc = "down"])
  /\ UNCHANGED <<api, run, disk>>

Restart(n) ==
  /\ agent[n].pc = "down"
  /\ Agent(n, IdleAgent)
  /\ UNCHANGED <<api, run, disk, faults>>

Serve(n) ==
  \/ Instruct(n) \/ Handle(n) \/ Delete(n) \/ FetchKnown(n) \/ Download(n) \/ Keep(n) \/ Send(n)
  \/ ReportHeld(n) \/ ReportSchedule(n) \/ ReportDeleted(n) \/ ReportFailed(n) \/ Delivered(n) \/ Restart(n)

Next ==
  \/ \E r \in Runs : RunStep(r)
  \/ \E n \in Nodes : Serve(n) \/ BodyLost(n) \/ Undelivered(n) \/ Crash(n)

Spec == Init /\ [][Next]_vars

\* Nodes keep heartbeating, come back after a crash and finish what they began.
Fairness == \A n \in Nodes : WF_vars(Serve(n))

FairSpec == Spec /\ Fairness

-----------------------------------------------------------------------------
(* Properties. *)

TypeOK ==
  /\ copy \in [Ids -> {None} \cup Row]
  /\ used \subseteq Ids /\ want \in BOOLEAN /\ retired \in BOOLEAN /\ sched \in [Nodes -> BOOLEAN]
  /\ disk \in [Nodes -> SUBSET Ids]

\* No two live copies of the object are on one node or one network, and none has the index of another.
Spread ==
  \A c, d \in Live : c # d =>
    /\ copy[c].idx # copy[d].idx
    /\ \A net \in Networks : ~ {copy[c].node, copy[d].node} \subseteq net

\* A node that keeps its disk has every copy the API will check it for, so it is never struck for a copy it was
\* told to delete or that it never finished downloading.
HeldIsOnDisk == \A c \in In({"held", "suspect"}) : c \in disk[copy[c].node]

\* Whatever is on a node's disk is known to the API, so that it can be deleted: no lost report, crash or late
\* download leaves a file nobody will ask for (unless the node was gone for a month and its drops were forgotten).
DiskIsKnown == \A n \in Nodes \ forgot : disk[n] \subseteq Of(n)

\* "pending -> held, with the copy's first check due at once": a held copy's node has a check scheduled.
HeldIsScheduled == \A c \in In({"held"}) : sched[copy[c].node] \/ agent[copy[c].node].pc = "sched"

\* "next_attempt_at is non-null while the object needs copies", apart from a run that is placing it right now.
WantedWhileMissing ==
  Cardinality(Live) < Copies /\ ~retired => want \/ \E r \in Runs : Placing(r)

\* A dropped copy is deleted in the end, whatever answer is lost.
DropsAreDeleted == \A c \in Ids : (c \in In({"dropping"})) ~> (c \notin Rows)
=============================================================================
