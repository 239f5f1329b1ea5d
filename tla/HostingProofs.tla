---------------------------- MODULE HostingProofs ----------------------------
(***************************************************************************)
(* Secrets of a deployment are sealed to the node that holds it, for every  *)
(* number of nodes, overlapping requests, placements and faults.            *)
(***************************************************************************)
EXTENDS MCSeals, Integers, TLAPS

NoneOr == Nodes \cup {None}
Bodies == {"none", "running", "stopped", "failed", "cannot"}

Rows == [st : {"queued"} \cup Live \cup Ended, node : NoneOr, key : NoneOr, ep : NoneOr, acked : BOOLEAN,
         purge : BOOLEAN, refused : NoneOr, tries : 0..(StartAttempts - 1), claims : 0..MaxClaims,
         stopReport : BOOLEAN]

Agents == [up : BOOLEAN, rec : BOOLEAN, ctr : BOOLEAN,
           busy : {"no", "starting", "locked", "stopping", "purging", "reporting"}, cancel : BOOLEAN,
           pend : Bodies]

Beats == [pc : {"idle", "reply"}, cmds : SUBSET {"start", "stop", "purge"}, key : NoneOr, dead : BOOLEAN]

\* What is queued has no node and no key, what is live has a node, and a key is the node's.
RowOK(r) ==
  /\ r \in Rows
  /\ r.st = "queued" => r.node = None /\ r.key = None
  /\ r.st \in Live => r.node # None
  /\ r.key # None => r.key = r.node

\* A snapshot's node is one, or the row had none.
SnapOK(s) == s.node \in NoneOr /\ s.acked \in BOOLEAN /\ s.tries \in 0..(StartAttempts - 1)

\* A request that takes the row from its node knows which one.
ReqOK(q) ==
  /\ q.pc # "idle" => SnapOK(q.s)
  /\ q.pc \in {"requeue", "stuck", "unsealed", "owe"} => q.s.node # None

IInv ==
  /\ RowOK(row) /\ stale \in SUBSET Nodes /\ faults \in 0..MaxFaults
  /\ agent \in [Nodes -> Agents] /\ hb \in [Nodes -> Beats]
  /\ rep = [n \in Nodes |-> rep[n]] /\ \A n \in Nodes : rep[n].body \in Bodies
  /\ req = [p \in Requests |-> req[p]] /\ \A p \in Requests : ReqOK(req[p])
  /\ SealedToItsNode

-----------------------------------------------------------------------------

\* The row starts in the queue, with no node and no key.
LEMMA InitIInv == Init => IInv
<1> SUFFICES ASSUME Init PROVE IInv
  OBVIOUS
<1>1. RowOK(row)
  BY HostingAssumption DEF Init, RowOK, Rows, NoneOr, Live, Ended
<1>2. agent \in [Nodes -> Agents] /\ hb \in [Nodes -> Beats]
  BY DEF Init, Agents, Bodies, Beats, IdleHb, NoneOr
<1>3. SealedToItsNode
  BY DEF Init, SealedToItsNode, IdleHb
<1> QED
  BY <1>1, <1>2, <1>3, HostingAssumption DEF Init, IInv, IdleRep, IdleReq, Bodies, ReqOK

\* What the row alone decides: a step that keeps the row sound and touches no heartbeat keeps the seals.
LEMMA RowStep ==
  ASSUME IInv, RowOK(row'), UNCHANGED hb
  PROVE  SealedToItsNode'
BY DEF IInv, RowOK, SealedToItsNode

\* The ways a row is rewritten.
LEMMA RowForms ==
  ASSUME RowOK(row)
  PROVE  /\ \A who \in NoneOr : RowOK(Unplaced(who))
         /\ \A s : \A byStop \in BOOLEAN : RowOK(EndRow(s, TRUE, byStop)) /\ RowOK(EndRow(s, FALSE, byStop))
         /\ \A a \in BOOLEAN : RowOK([row EXCEPT !.acked = a])
         /\ RowOK([row EXCEPT !.acked = TRUE, !.purge = FALSE])
         /\ RowOK([row EXCEPT !.purge = TRUE, !.acked = FALSE])
         /\ \A n \in Nodes : RowOK([row EXCEPT !.ep = n])
         /\ row.tries + 1 < StartAttempts => RowOK([row EXCEPT !.tries = @ + 1])
<1> USE DEF RowOK, Rows, NoneOr, Live, Ended
<1>1. \A who \in NoneOr : RowOK(Unplaced(who))
  BY DEF Unplaced
<1>2. ASSUME NEW s, NEW byStop \in BOOLEAN
      PROVE  RowOK(EndRow(s, TRUE, byStop)) /\ RowOK(EndRow(s, FALSE, byStop))
  <2>1. ASSUME NEW acked \in BOOLEAN PROVE RowOK(EndRow(s, acked, byStop))
    BY ZenonT(60) DEF EndRow
  <2> QED
    BY <2>1
<1>3. \A a \in BOOLEAN : RowOK([row EXCEPT !.acked = a])
  OBVIOUS
<1>4. /\ RowOK([row EXCEPT !.acked = TRUE, !.purge = FALSE])
      /\ RowOK([row EXCEPT !.purge = TRUE, !.acked = FALSE])
  BY ZenonT(60)
<1>5. \A n \in Nodes : RowOK([row EXCEPT !.ep = n])
  OBVIOUS
<1>6. ASSUME row.tries + 1 < StartAttempts PROVE RowOK([row EXCEPT !.tries = @ + 1])
  <2>1. row.tries + 1 \in 0..(StartAttempts - 1)
    BY <1>6, HostingAssumption
  <2>2. PICK t \in 0..(StartAttempts - 1) : t = row.tries + 1
    BY <2>1
  <2>3. RowOK([row EXCEPT !.tries = t])
    OBVIOUS
  <2>4. [row EXCEPT !.tries = t] = [row EXCEPT !.tries = @ + 1]
    BY <2>2
  <2> QED
    BY ZenonT(60), <2>3, <2>4, Zenon
<1> HIDE DEF RowOK, Rows, NoneOr, Live, Ended
<1> QED
  BY <1>1, <1>2, <1>3, <1>4, <1>5, <1>6, Zenon

-----------------------------------------------------------------------------
(* The agent. *)

\* What the agent does alone changes neither the row nor any heartbeat.
LEMMA AgentAlone ==
  ASSUME IInv, UNCHANGED <<row, stale, hb, req, faults>>, agent' \in [Nodes -> Agents],
         NEW n \in Nodes, rep' = rep \/ rep' = [rep EXCEPT ![n].mine = FALSE]
  PROVE  IInv'
<1>1. SealedToItsNode'
  BY RowStep DEF IInv
<1>2. CASE rep' = rep
  BY <1>1, <1>2 DEF IInv
<1>3. CASE rep' = [rep EXCEPT ![n].mine = FALSE]
  <2>1. rep' = [m \in Nodes |-> rep'[m]]
    BY <1>3 DEF IInv
  <2>2. ASSUME NEW m \in Nodes PROVE rep'[m].body \in Bodies
    BY <1>3 DEF IInv
  <2> QED
    BY <1>1, <2>1, <2>2 DEF IInv
<1> QED
  BY <1>2, <1>3

\* A report is queued, and tried at once if none is under way.
LEMMA Sends ==
  ASSUME IInv, NEW n \in Nodes, NEW body \in Bodies, NEW a \in Agents,
         Send(n, body, a) \/ Queue(n, body, a)
  PROVE  agent' \in [Nodes -> Agents] /\ rep' = [rep EXCEPT ![n].mine = FALSE]
<1>1. [a EXCEPT !.busy = "reporting"] \in Agents /\ Done(a) \in Agents
  BY DEF Agents, Done
<1>2. PICK b \in Agents : Queue(n, body, b)
  BY <1>1 DEF Send
<1>3. [b EXCEPT !.pend = body] \in Agents
  BY DEF Agents
<1> QED
  BY <1>2, <1>3 DEF Queue, IInv

\* The agent starts, stops, purges or resumes on its own.
LEMMA WorkStep ==
  ASSUME IInv, NEW n \in Nodes, Work(n)
  PROVE  IInv'
<1>1. agent[n] \in Agents /\ agent \in [Nodes -> Agents]
  BY DEF IInv
<1>2. /\ \A x \in BOOLEAN : [agent[n] EXCEPT !.ctr = x] \in Agents /\ [agent[n] EXCEPT !.rec = x] \in Agents
      /\ [agent[n] EXCEPT !.ctr = FALSE, !.rec = FALSE] \in Agents
      /\ [agent[n] EXCEPT !.up = TRUE] \in Agents
      /\ [[agent[n] EXCEPT !.up = TRUE] EXCEPT !.rec = FALSE] \in Agents
      /\ [Done(agent[n]) EXCEPT !.ctr = FALSE] \in Agents
  BY <1>1 DEF Agents, Done
<1>3. {"running", "stopped", "failed", "cannot"} \subseteq Bodies
  BY DEF Bodies
<1>4. CASE StartRun(n)
  <2>1. agent' \in [Nodes -> Agents] /\ rep' = rep
    BY <1>1, <1>2, <1>4 DEF StartRun
  <2> QED
    BY <1>4, <2>1, AgentAlone DEF StartRun
<1>5. CASE StartDone(n) \/ StartFail(n) \/ StopDone(n)
  <2>1. UNCHANGED <<row, stale, hb, req, faults>>
    BY <1>5 DEF StartDone, StartFail, StopDone
  <2>2. PICK a \in Agents, body \in Bodies : Send(n, body, a)
    BY <1>2, <1>3, <1>5 DEF StartDone, StartFail, StopDone
  <2> QED
    BY <2>1, <2>2, Sends, AgentAlone
<1>6. CASE PurgeDone(n)
  <2>1. UNCHANGED <<row, stale, hb, req, faults>>
    BY <1>6 DEF PurgeDone
  <2>2. CASE agent[n].rec
    BY <1>2, <1>3, <1>6, <2>1, <2>2, Sends, AgentAlone DEF PurgeDone
  <2>3. CASE ~agent[n].rec
    <3>1. agent' \in [Nodes -> Agents] /\ rep' = rep
      BY <1>1, <1>2, <1>6, <2>3 DEF PurgeDone
    <3> QED
      BY <2>1, <3>1, AgentAlone
  <2> QED
    BY <2>2, <2>3
<1>7. CASE Restart(n)
  <2> DEFINE a == [agent[n] EXCEPT !.up = TRUE]
  <2>1. UNCHANGED <<row, stale, hb, req, faults>>
    BY <1>7 DEF Restart
  <2>2. \/ Queue(n, "running", a)
        \/ Queue(n, "failed", [a EXCEPT !.rec = FALSE])
        \/ agent' = [agent EXCEPT ![n] = a] /\ rep' = rep
    BY <1>7 DEF Restart
  <2>3. CASE agent' = [agent EXCEPT ![n] = a] /\ rep' = rep
    <3>1. agent' \in [Nodes -> Agents]
      BY <1>1, <1>2, <2>3
    <3> QED
      BY <2>1, <2>3, <3>1, AgentAlone
  <2>4. CASE \E b \in Agents, body \in Bodies : Queue(n, body, b)
    BY <2>1, <2>4, Sends, AgentAlone
  <2> QED
    BY <1>2, <1>3, <2>2, <2>3, <2>4
<1> QED
  BY <1>4, <1>5, <1>6, <1>7 DEF Work

\* A crash changes no command on its way, and marks it as lost.
LEMMA CrashStep ==
  ASSUME IInv, NEW n \in Nodes, Crash(n)
  PROVE  IInv'
<1>1. agent' \in [Nodes -> Agents]
  <2>1. agent[n] \in Agents /\ agent \in [Nodes -> Agents]
    BY DEF IInv
  <2>2. agent[n].ctr \in BOOLEAN /\ agent[n].rec \in BOOLEAN
    BY <2>1 DEF Agents
  <2>3. PICK ctr \in BOOLEAN :
          agent' = [agent EXCEPT ![n] = [up |-> FALSE, rec |-> agent[n].rec, ctr |-> ctr, busy |-> "no", cancel |-> FALSE, pend |-> "none"]]
    BY <2>1, <2>2 DEF Crash
  <2>4. [up |-> FALSE, rec |-> agent[n].rec, ctr |-> ctr, busy |-> "no", cancel |-> FALSE, pend |-> "none"] \in Agents
    BY <2>2 DEF Agents, Bodies
  <2> QED
    BY <2>1, <2>3, <2>4
<1>2. hb' \in [Nodes -> Beats]
  <2>1. hb[n] \in Beats /\ hb \in [Nodes -> Beats]
    BY DEF IInv
  <2>2. [hb[n] EXCEPT !.dead = TRUE] \in Beats
    BY <2>1 DEF Beats
  <2> QED
    BY <2>1, <2>2 DEF Crash
<1>3. \A m \in Nodes : hb'[m].pc = hb[m].pc /\ hb'[m].cmds = hb[m].cmds /\ hb'[m].key = hb[m].key
  BY DEF Crash, IInv, Beats
<1>4. SealedToItsNode'
  BY <1>3 DEF Crash, IInv, SealedToItsNode
<1>5. rep' = [m \in Nodes |-> rep'[m]] /\ \A m \in Nodes : rep'[m].body \in Bodies
  <2>1. rep' = [m \in Nodes |-> rep'[m]]
    BY DEF Crash, IInv
  <2>2. ASSUME NEW m \in Nodes PROVE rep'[m].body \in Bodies
    BY DEF Crash, IInv
  <2> QED
    BY <2>1, <2>2
<1>6. faults' \in 0..MaxFaults
  BY HostingAssumption DEF Crash, IInv
<1> QED
  BY <1>1, <1>2, <1>4, <1>5, <1>6 DEF Crash, IInv

-----------------------------------------------------------------------------
(* The heartbeat. *)

\* The commands are handled by an agent: its work changes, no row does.
LEMMA CommandsStep ==
  ASSUME IInv, NEW n \in Nodes, Commands(n)
  PROVE  IInv'
<1>1. /\ agent[n] \in Agents /\ agent \in [Nodes -> Agents]
      /\ hb \in [Nodes -> Beats]
  BY DEF IInv
<1>2. \A a \in Agents : HandleStop(n, a) \in Agents /\ HandleStart(n, a) \in Agents
  BY ZenonT(60) DEF Agents, HandleStop, HandleStart
<1>3. \E b \in Agents : agent' = [agent EXCEPT ![n] = b]
  BY <1>1, <1>2, Zenon DEF Commands
<1>4. agent' \in [Nodes -> Agents]
  BY <1>1, <1>3
<1>5. IdleHb \in Beats
  BY DEF IdleHb, Beats, NoneOr
<1>6. hb' \in [Nodes -> Beats] /\ \A m \in Nodes : hb'[m] = hb[m] \/ hb'[m] = IdleHb
  BY <1>1, <1>5 DEF Commands
<1>7. SealedToItsNode'
  BY <1>6 DEF Commands, IInv, SealedToItsNode, IdleHb
<1> QED
  BY <1>4, <1>6, <1>7 DEF Commands, IInv

\* A lost answer is no answer.
LEMMA HbLostStep ==
  ASSUME IInv, NEW n \in Nodes, HbLost(n)
  PROVE  IInv'
<1>1. hb \in [Nodes -> Beats] /\ IdleHb \in Beats
  BY DEF IInv, IdleHb, Beats, NoneOr
<1>2. hb' \in [Nodes -> Beats] /\ \A m \in Nodes : hb'[m] = hb[m] \/ hb'[m] = IdleHb
  BY <1>1 DEF HbLost
<1>3. SealedToItsNode'
  BY <1>2 DEF HbLost, IInv, SealedToItsNode, IdleHb
<1>4. faults' \in 0..MaxFaults
  BY HostingAssumption DEF HbLost, IInv
<1> QED
  BY <1>2, <1>3, <1>4 DEF HbLost, IInv

\* A start goes out with the row's key, which is the node's when the row is.
LEMMA HbInstrStep ==
  ASSUME IInv, NEW n \in Nodes, HbInstr(n)
  PROVE  IInv'
<1>1. hb \in [Nodes -> Beats] /\ hb[n] \in Beats /\ row.key \in NoneOr
  BY DEF IInv, RowOK, Rows
<1>2. Instructions(n) \in SUBSET {"start", "stop", "purge"}
  BY DEF Instructions
<1>3. PICK cmds \in SUBSET {"start", "stop", "purge"} : cmds = Instructions(n)
  BY <1>2
<1>4. hb' = [hb EXCEPT ![n] = [@ EXCEPT !.pc = "reply", !.cmds = cmds, !.key = row.key]]
  BY <1>3 DEF HbInstr
<1>5. hb' \in [Nodes -> Beats]
  BY <1>1, <1>4 DEF Beats
<1>6. "start" \in cmds => Starts(n)
  BY <1>3 DEF Instructions
<1>7. Secrets /\ "start" \in cmds => row.key = n
  BY <1>6 DEF Starts, Awaiting, IInv, RowOK
<1>8. hb'[n].cmds = cmds /\ hb'[n].key = row.key /\ \A m \in Nodes \ {n} : hb'[m] = hb[m]
  BY <1>1, <1>4 DEF Beats
<1>9. SealedToItsNode'
  BY <1>7, <1>8 DEF HbInstr, IInv, SealedToItsNode
<1> QED
  BY <1>5, <1>9 DEF HbInstr, IInv

\* A claimed row had no key.
LEMMA ClaimStep ==
  ASSUME IInv, NEW n \in Nodes, Claim(n)
  PROVE  IInv'
<1>1. RowOK(row) /\ row.st = "queued" /\ row.claims < MaxClaims
  BY DEF Claim, IInv
<1>2. row.claims + 1 \in 0..MaxClaims
  BY <1>1, HostingAssumption DEF RowOK, Rows
<1>3. PICK c \in 0..MaxClaims : c = row.claims + 1
  BY <1>2
<1>4. row' = [row EXCEPT !.st = "assigned", !.node = n, !.refused = None, !.claims = c]
  BY <1>3 DEF Claim
<1>5. RowOK(row')
  BY <1>1, <1>4, HostingAssumption DEF RowOK, Rows, NoneOr, Live, Ended
<1>6. SealedToItsNode'
  BY <1>5, RowStep DEF Claim
<1> QED
  BY <1>5, <1>6 DEF Claim, IInv

\* A seal is written for the node that holds the row.
LEMMA SealStep ==
  ASSUME IInv, NEW n \in Nodes, Seal(n)
  PROVE  IInv'
<1>1. RowOK(row')
  BY DEF Seal, SealFits, IInv, RowOK, Rows, NoneOr, Live, Ended
<1>2. SealedToItsNode'
  BY <1>1, RowStep DEF Seal
<1> QED
  BY <1>1, <1>2 DEF Seal, IInv

-----------------------------------------------------------------------------
(* The reports. *)

\* The API reads the row for a report.
LEMMA PostStep ==
  ASSUME IInv, NEW n \in Nodes, Post(n)
  PROVE  IInv'
<1>1. agent[n].pend \in Bodies
  BY DEF IInv, Agents
<1>2. rep' = [m \in Nodes |-> rep'[m]] /\ \A m \in Nodes : rep'[m].body \in Bodies
  <2>1. PICK s : rep' = [rep EXCEPT ![n] = [pc |-> "act", body |-> agent[n].pend, s |-> s, mine |-> TRUE]]
    BY DEF Post
  <2> QED
    BY <1>1, <2>1 DEF IInv
<1>3. SealedToItsNode'
  BY DEF Post, IInv, SealedToItsNode
<1> QED
  BY <1>2, <1>3 DEF Post, IInv

\* The answer to a report frees the agent, or makes it give the deployment up.
LEMMA Answers ==
  ASSUME IInv, NEW n \in Nodes, NEW ok, Answer(n, ok)
  PROVE  /\ agent' \in [Nodes -> Agents] /\ faults' \in 0..MaxFaults
         /\ rep' = [m \in Nodes |-> rep'[m]] /\ \A m \in Nodes : rep'[m].body \in Bodies
<1>1. agent[n] \in Agents /\ agent \in [Nodes -> Agents]
  BY DEF IInv
<1>2. PICK a \in Agents :
        \/ agent' = [agent EXCEPT ![n] = a]
        \/ agent' = [agent EXCEPT ![n] = [a EXCEPT !.pend = "none"]]
        \/ agent' = [agent EXCEPT ![n] = [a EXCEPT !.rec = FALSE, !.ctr = FALSE, !.pend = "cannot"]]
  <2>1. (IF agent[n].busy = "reporting" THEN Done(agent[n]) ELSE agent[n]) \in Agents
    BY <1>1 DEF Done, Agents
  <2> QED
    BY <2>1, Zenon DEF Answer
<1>3. [a EXCEPT !.pend = "none"] \in Agents
  BY DEF Agents, Bodies
<1>4. [a EXCEPT !.rec = FALSE, !.ctr = FALSE, !.pend = "cannot"] \in Agents
  BY DEF Agents, Bodies
<1>5. agent' \in [Nodes -> Agents]
  <2>1. PICK b \in Agents : agent' = [agent EXCEPT ![n] = b]
    BY <1>2, <1>3, <1>4, Zenon
  <2> QED
    BY <1>1, <2>1
<1>6. faults' = faults \/ (faults < MaxFaults /\ faults' = faults + 1)
  BY Zenon DEF Answer
<1>7. faults' \in 0..MaxFaults
  BY <1>6, HostingAssumption DEF IInv
<1>8. rep' = [rep EXCEPT ![n] = IdleRep]
  BY DEF Answer
<1>9. rep' = [m \in Nodes |-> rep'[m]] /\ \A m \in Nodes : rep'[m].body \in Bodies
  BY <1>8 DEF IInv, IdleRep, Bodies
<1> QED
  BY <1>5, <1>7, <1>9

\* A report writes the row in one of the row's ways, or not at all.
LEMMA RepStepStep ==
  ASSUME IInv, NEW n \in Nodes, RepStep(n)
  PROVE  IInv'
<1>1. UNCHANGED <<hb, req>> /\ \E ok : Answer(n, ok)
  BY DEF RepStep, RepElsewhere, RepRunning, RepEnded
<1>2. stale' \in SUBSET Nodes
  BY DEF RepStep, RepElsewhere, RepRunning, RepEnded, IInv
<1>3. RowOK(row)
  BY DEF IInv
<1>7. RowOK(row')
  <2>1. CASE RepElsewhere(n)
    BY <1>3, <2>1 DEF RepElsewhere
  <2>2. CASE RepRunning(n)
    <3>1. 0 \in 0..(StartAttempts - 1)
      BY HostingAssumption
    <3>2. row.st = "assigned" => RowOK([row EXCEPT !.st = "running", !.ep = n, !.tries = 0])
      BY <1>3, <3>1 DEF RowOK, Rows, NoneOr, Live, Ended
    <3>3. \/ row' = row \/ row' = [row EXCEPT !.acked = FALSE] \/ row' = [row EXCEPT !.ep = n]
          \/ row.st = "assigned" /\ row' = [row EXCEPT !.st = "running", !.ep = n, !.tries = 0]
      BY <2>2, Zenon DEF RepRunning
    <3> QED
      BY <1>3, <3>2, <3>3, RowForms
  <2>3. CASE RepEnded(n)
    <3>1. \/ row' = row \/ row' = [row EXCEPT !.acked = TRUE, !.purge = FALSE] \/ row' = Unplaced(n)
          \/ row' = EndRow(rep[n].s, TRUE, rep[n].body = "stopped")
      BY <2>3, Zenon DEF RepEnded
    <3>2. n \in NoneOr /\ (rep[n].body = "stopped") \in BOOLEAN
      BY DEF NoneOr
    <3> QED
      BY ZenonT(60), <1>3, <3>1, <3>2, RowForms
  <2> QED
    BY <2>1, <2>2, <2>3 DEF RepStep
<1>8. SealedToItsNode'
  BY <1>1, <1>7, RowStep
<1> QED
  BY <1>1, <1>2, <1>7, <1>8, Answers DEF IInv

-----------------------------------------------------------------------------
(* The cron and the owner. *)

\* What a request reads of a row that is sound.
LEMMA ReqBeginStep ==
  ASSUME IInv, NEW p \in Requests, ReqBegin(p)
  PROVE  IInv'
<1>1. RowOK(row)
  BY DEF IInv
<1>2. PICK pc \in {"requeue", "stuck", "unsealed", "end", "purge"} :
        /\ pc \in {"requeue", "stuck", "unsealed"} => row.st \in Live
        /\ req' = [req EXCEPT ![p] = [IdleReq EXCEPT !.pc = pc, !.s = Snapshot(pc)]]
  BY DEF ReqBegin, Live
<1>3. SnapOK(Snapshot(pc)) /\ Snapshot(pc).node = row.node
  BY <1>1, HostingAssumption DEF Snapshot, SnapOK, RowOK, Rows
<1>4. PICK s : s = Snapshot(pc)
  OBVIOUS
<1>5. req' = [req EXCEPT ![p] = [IdleReq EXCEPT !.pc = pc, !.s = s]]
  BY <1>2, <1>4
<1>6. ReqOK([IdleReq EXCEPT !.pc = pc, !.s = s])
  BY <1>1, <1>2, <1>3, <1>4 DEF ReqOK, IdleReq, RowOK
<1>7. req' = [q \in Requests |-> req'[q]] /\ \A q \in Requests : ReqOK(req'[q])
  BY <1>5, <1>6 DEF IInv
<1>8. SealedToItsNode'
  BY <1>1, RowStep DEF ReqBegin
<1> QED
  BY <1>7, <1>8 DEF ReqBegin, IInv

\* A request goes on with what it read, or is over.
LEMMA ReqStepStep ==
  ASSUME IInv, NEW p \in Requests, ReqStep(p)
  PROVE  IInv'
<1> DEFINE s == req[p].s
<1>1. RowOK(row) /\ ReqOK(req[p]) /\ ReqOK(IdleReq)
  BY DEF IInv, ReqOK, IdleReq
<1>2. UNCHANGED <<agent, hb, rep, faults>>
  BY DEF ReqStep, Stuck, Requeue, OweStop, End, Purge
<1>3. stale' \in SUBSET Nodes
  BY <1>1 DEF ReqStep, Stuck, Requeue, OweStop, End, Purge, OwesStop, IInv, ReqOK, SnapOK, NoneOr
<1>4. RowOK(row')
  <2>1. CASE Stuck(p)
    <3>1. row' = row \/ (row' = [row EXCEPT !.tries = @ + 1] /\ ~GivesUp(s) /\ row.tries = s.tries)
      BY <2>1, Zenon DEF Stuck
    <3>2. ~GivesUp(s) /\ row.tries = s.tries => row.tries + 1 < StartAttempts
      BY <1>1, HostingAssumption DEF GivesUp, RowOK, Rows
    <3> QED
      BY <1>1, <3>1, <3>2, RowForms
  <2>2. CASE Requeue(p)
    <3>1. row' = row \/ \E who \in {s.node, None} : row' = Unplaced(who)
      BY <2>2 DEF Requeue
    <3>2. s.node \in NoneOr /\ None \in NoneOr
      BY <1>1, <2>2 DEF Requeue, ReqOK, SnapOK, NoneOr
    <3> QED
      BY <1>1, <3>1, <3>2, RowForms
  <2>3. CASE End(p)
    <3>1. row' = row \/ row' = EndRow(s, FALSE, FALSE)
      BY <2>3 DEF End
    <3> QED
      BY <1>1, <3>1, RowForms
  <2>4. CASE OweStop(p) \/ Purge(p)
    BY <1>1, <2>4, RowForms DEF OweStop, Purge
  <2> QED
    BY <2>1, <2>2, <2>3, <2>4 DEF ReqStep
<1>5. PICK q : req' = [req EXCEPT ![p] = q] /\ ReqOK(q)
  <2>1. CASE Stuck(p)
    <3>1. PICK q \in {IdleReq, [req[p] EXCEPT !.pc = "end"], [req[p] EXCEPT !.pc = "requeue", !.refusal = TRUE]} :
            req' = [req EXCEPT ![p] = q]
      BY <2>1 DEF Stuck
    <3>2. ReqOK([req[p] EXCEPT !.pc = "end"]) /\ ReqOK([req[p] EXCEPT !.pc = "requeue", !.refusal = TRUE])
      BY <1>1, <2>1 DEF Stuck, ReqOK
    <3> QED
      BY <1>1, <3>1, <3>2
  <2>2. CASE Requeue(p)
    <3>1. PICK q \in {IdleReq, [req[p] EXCEPT !.pc = "owe"]} : req' = [req EXCEPT ![p] = q]
      BY <2>2 DEF Requeue
    <3>2. ReqOK([req[p] EXCEPT !.pc = "owe"])
      BY <1>1, <2>2 DEF Requeue, ReqOK
    <3> QED
      BY <1>1, <3>1, <3>2
  <2>3. CASE End(p)
    <3>1. PICK q \in {IdleReq, [req[p] EXCEPT !.pc = "purge"]} : req' = [req EXCEPT ![p] = q]
      BY <2>3 DEF End
    <3>2. ReqOK([req[p] EXCEPT !.pc = "purge"])
      BY <1>1, <2>3 DEF End, ReqOK
    <3> QED
      BY <1>1, <3>1, <3>2
  <2>4. CASE OweStop(p) \/ Purge(p)
    BY <1>1, <2>4 DEF OweStop, Purge
  <2> QED
    BY <2>1, <2>2, <2>3, <2>4 DEF ReqStep
<1>6. req' = [r \in Requests |-> req'[r]] /\ \A r \in Requests : ReqOK(req'[r])
  BY <1>5 DEF IInv
<1>7. SealedToItsNode'
  BY <1>2, <1>4, RowStep
<1> QED
  BY <1>2, <1>3, <1>4, <1>6, <1>7 DEF IInv

-----------------------------------------------------------------------------
(* The theorems. *)

\* Every step of the API, of an agent, of the cron or of the owner keeps the invariant.
LEMMA NextIInv == IInv /\ [Next]_vars => IInv'
<1> SUFFICES ASSUME IInv, [Next]_vars PROVE IInv'
  OBVIOUS
<1>1. CASE UNCHANGED vars
  BY <1>1 DEF vars, IInv, SealedToItsNode
<1>2. CASE \E n \in Nodes :
             Work(n) \/ Commands(n) \/ Crash(n) \/ Claim(n) \/ HbInstr(n) \/ HbLost(n) \/ Post(n) \/ RepStep(n) \/ Seal(n)
  BY <1>2, WorkStep, CommandsStep, CrashStep, ClaimStep, HbInstrStep, HbLostStep, PostStep, RepStepStep, SealStep
<1>3. CASE \E p \in Requests : ReqBegin(p) \/ ReqStep(p)
  BY <1>3, ReqBeginStep, ReqStepStep
<1> QED
  BY <1>1, <1>2, <1>3 DEF Next

\* The invariant of the whole deployment (deployment-duties.service.ts,
\* node-agent/src/deployments.ts): the row's state, node and key belong together.
THEOREM HostingInvariance == Spec => []IInv
<1>1. Init => IInv
  BY InitIInv
<1>2. IInv /\ [Next]_vars => IInv'
  BY NextIInv
<1> QED
  BY <1>1, <1>2, PTL DEF Spec

\* Every field of the row, the agents and the heartbeats stays in its range.
THEOREM TypeCorrect == Spec => []TypeOK
<1>1. IInv => TypeOK
  BY DEF IInv, TypeOK, RowOK, Rows, NoneOr, Agents, Bodies, Beats
<1> QED
  BY <1>1, HostingInvariance, PTL

\* requeueRows, setSealedEnv and instructions: a key on the row is its node's,
\* and a start never goes out with another node's key.
THEOREM SealsAreForTheirNode == Spec => []SealedToItsNode
<1>1. IInv => SealedToItsNode
  BY DEF IInv
<1> QED
  BY <1>1, HostingInvariance, PTL

\* requeueRows: handing an unsealed row back throws no seal away, whatever
\* landed since the cron read it.
THEOREM SealsSurvive == Spec => SealSurvives
<1>1. ASSUME [Next]_vars, NEW p \in Requests, Requeue(p), req[p].pc = "unsealed"
      PROVE  row.key = None \/ row'.key = row.key
  BY <1>1 DEF Requeue, StillUnsealed
<1>2. [Next]_vars => [\A p \in Requests : Requeue(p) /\ req[p].pc = "unsealed" => row.key = None \/ row'.key = row.key]_vars
  BY <1>1
<1> QED
  BY <1>2, PTL DEF Spec, SealSurvives

-----------------------------------------------------------------------------
(* Signed calls: a nonce is remembered for longer than any copy of its      *)
(* request can still be let through.                                        *)

\* How far ahead of the API a request's timestamp can be, and can be and still be in the window.
Late == IF Skew > 0 THEN Skew ELSE 0
Ahead == IF Late < WINDOW THEN Late ELSE WINDOW

\* NODE_REPLAY_TTL_SEC against NODE_SIGNATURE_WINDOW_MS (node-auth.ts), and a batch on D1 that does not fail: the
\* isolates' memories know nothing of each other.
Outlasts == DbFails = FALSE /\ WINDOW + Ahead + MaxWait < TTL

SignedTypes ==
  /\ now \in Nat /\ offset \in {0, 0 - Skew}
  /\ sig_req \in [Reqs -> [st : {"unsigned", "out"}, ts : Int]]
  /\ copy \in [Copies -> [of : Reqs \cup {None}, at : 0..now, iso : Isolates \cup {None}]]
  /\ seen \in [Reqs -> 0..(now + TTL)]
  /\ accepted \in [Reqs -> {0, 1}]

\* No request is signed further ahead than the agent's clock is.
StampOK(r) == sig_req[r].st = "out" => sig_req[r].ts <= now + Late

\* A copy was in the window when it arrived, and is handled soon after.
CopyOK(c) ==
  LET r == copy[c].of
  IN r # None =>
       /\ sig_req[r].st = "out" /\ now <= copy[c].at + MaxWait
       /\ copy[c].at <= sig_req[r].ts + WINDOW /\ sig_req[r].ts <= copy[c].at + Ahead

\* What was let through is on the nonces' table, or was there until no copy of it can be let through.
KeptOK(r) ==
  accepted[r] # 0 =>
    /\ sig_req[r].st = "out"
    /\ seen[r] + Ahead >= sig_req[r].ts + TTL \/ now + Ahead >= sig_req[r].ts + TTL

SignedInv ==
  /\ SignedTypes
  /\ \A r \in Reqs : StampOK(r) /\ KeptOK(r)
  /\ \A c \in Copies : CopyOK(c)

\* Whatever a request is signed with is not further ahead than the agent's clock.
LEMMA SignedNow ==
  ASSUME SignedTypes
  PROVE  /\ now + Skew + offset \in Int /\ now + Skew + (0 - Skew) \in Int
         /\ now + Skew + offset <= now + Late /\ now + Skew + (0 - Skew) <= now + Late
<1>1. Skew \in Int
  BY SignedAssumption DEF Sig!SignedCallsAssumption
<1> QED
  BY <1>1 DEF SignedTypes, Late

\* Signing a request that was not signed disturbs no other.
LEMMA SignStep ==
  ASSUME SignedInv, NEW r \in Reqs, sig_req[r].st = "unsigned", NEW t \in Int, t <= now + Late,
         sig_req' = [sig_req EXCEPT ![r] = [st |-> "out", ts |-> t]], offset' \in {0, 0 - Skew},
         UNCHANGED <<copy, seen, accepted, now>>
  PROVE  SignedInv'
<1>1. SignedTypes'
  BY DEF SignedInv, SignedTypes
<1>2. ASSUME NEW q \in Reqs PROVE StampOK(q)' /\ KeptOK(q)'
  <2>1. CASE q = r
    BY <2>1 DEF SignedInv, SignedTypes, StampOK, KeptOK
  <2>2. CASE q # r
    <3>1. sig_req'[q] = sig_req[q]
      BY <2>2 DEF SignedInv, SignedTypes
    <3> QED
      BY <3>1 DEF SignedInv, StampOK, KeptOK, Late
  <2> QED
    BY <2>1, <2>2
<1>3. ASSUME NEW c \in Copies PROVE CopyOK(c)'
  <2>1. copy[c].of # None => copy[c].of \in Reqs /\ copy[c].of # r /\ sig_req'[copy[c].of] = sig_req[copy[c].of]
    BY DEF SignedInv, SignedTypes, CopyOK
  <2> QED
    BY <2>1 DEF SignedInv, CopyOK, Late, Ahead
<1> QED
  BY <1>1, <1>2, <1>3 DEF SignedInv

\* Recording a nonce: what is on the table goes only when no copy is let through any more.
LEMMA RecordsStep ==
  ASSUME Outlasts, SignedInv, NEW c \in Copies, Sig!Records(c)
  PROVE  SignedInv'
<1> DEFINE r == copy[c].of
           Freed == [of |-> None, at |-> 0, iso |-> None]
<1>1. r \in Reqs /\ r # None /\ CopyOK(c) /\ KeptOK(r) /\ SignedTypes
  BY DEF Sig!Records, SignedInv, SignedTypes
<1>2. UNCHANGED <<sig_req, offset, now>>
  BY DEF Sig!Records
<1>3. copy' = [copy EXCEPT ![c] = Freed]
  BY DEF Sig!Records, Sig!Passes
<1>4. TTL \in Nat /\ WINDOW \in Nat /\ MaxWait \in Nat /\ Skew \in Int /\ Late \in Nat /\ Ahead \in Nat
  BY SignedAssumption DEF Sig!SignedCallsAssumption, Late, Ahead
<1>5. /\ \A q \in Reqs : Sig!Swept(seen)[q] \in 0..(now + TTL)
      /\ \A q \in Reqs : Sig!Swept(seen)[q] = seen[q] \/ (Sig!Swept(seen)[q] = 0 /\ seen[q] <= now)
      /\ Sig!Swept(seen) \in [Reqs -> 0..(now + TTL)]
  BY <1>1, <1>4 DEF Sig!Swept, SignedTypes
<1>6. \/ seen' = Sig!Swept(seen) /\ accepted' = accepted
      \/ /\ seen' = [Sig!Swept(seen) EXCEPT ![r] = now + TTL] /\ accepted' = [accepted EXCEPT ![r] = 1]
         /\ accepted[r] = 0
  <2>1. CASE Sig!Known(r)
    BY <2>1 DEF Sig!Records
  <2>2. CASE ~Sig!Known(r)
    <3>1. seen[r] <= now
      BY <1>1, <1>4, <1>5, <2>2 DEF Sig!Known, SignedTypes
    <3>2. accepted[r] = 0
      <4> SUFFICES ASSUME accepted[r] # 0 PROVE FALSE
        OBVIOUS
      <4>1. sig_req[r].ts \in Int /\ copy[c].at \in Nat /\ now \in Nat /\ seen[r] \in Nat
        BY <1>1, <1>4 DEF SignedTypes
      <4>2. now + Ahead >= sig_req[r].ts + TTL
        BY <1>1, <1>4, <3>1, <4>1 DEF KeptOK
      <4> QED
        BY <1>1, <1>4, <4>1, <4>2 DEF CopyOK, Outlasts
    <3> QED
      BY <1>1, <2>2, <3>2 DEF Sig!Records, Sig!Passes, Sig!ForgetAt, SignedTypes
  <2> QED
    BY <2>1, <2>2
<1>7. SignedTypes'
  <2>1. copy' \in [Copies -> [of : Reqs \cup {None}, at : 0..now, iso : Isolates \cup {None}]]
    BY <1>1, <1>3 DEF SignedTypes
  <2>2. seen' \in [Reqs -> 0..(now + TTL)] /\ accepted' \in [Reqs -> {0, 1}]
    BY <1>1, <1>4, <1>5, <1>6 DEF SignedTypes
  <2> QED
    BY <1>1, <1>2, <2>1, <2>2 DEF SignedTypes
<1>8. ASSUME NEW q \in Reqs PROVE StampOK(q)' /\ KeptOK(q)'
  <2>1. StampOK(q)'
    BY <1>2 DEF SignedInv, StampOK, Late
  <2>2. now \in Nat /\ seen[q] \in Nat /\ sig_req[q].ts \in Int /\ KeptOK(q)
    BY <1>1, <1>4 DEF SignedInv, SignedTypes
  <2>3. CASE q = r /\ accepted'[q] # accepted[q]
    <3>1. seen'[q] = now + TTL /\ sig_req[q].st = "out" /\ sig_req[q].ts <= copy[c].at + Ahead /\ copy[c].at <= now
      BY <1>1, <1>5, <1>6, <2>3 DEF CopyOK, SignedTypes
    <3>2. copy[c].at \in Nat
      BY <1>1 DEF SignedTypes
    <3> QED
      BY <1>2, <1>4, <2>1, <2>2, <3>1, <3>2 DEF KeptOK, Ahead, Late
  <2>4. CASE ~(q = r /\ accepted'[q] # accepted[q])
    <3>1. accepted'[q] = accepted[q] /\ (seen'[q] >= seen[q] \/ seen[q] <= now) /\ seen'[q] \in Nat
      BY <1>1, <1>4, <1>5, <1>6, <2>4 DEF SignedTypes
    <3> QED
      BY <1>2, <1>4, <2>1, <2>2, <3>1 DEF KeptOK, Ahead, Late
  <2> QED
    BY <2>3, <2>4
<1>9. ASSUME NEW d \in Copies PROVE CopyOK(d)'
  <2>1. copy'[d] = Freed \/ copy'[d] = copy[d]
    BY <1>1, <1>3 DEF SignedTypes
  <2> QED
    BY <1>2, <2>1 DEF SignedInv, CopyOK, Ahead, Late
<1> QED
  BY <1>7, <1>8, <1>9 DEF SignedInv

\* Every other step.
LEMMA SignedNext == ASSUME Outlasts, SignedInv, [Sig!Next]_sigVars PROVE SignedInv'
<1>0. TTL \in Nat /\ WINDOW \in Nat /\ MaxWait \in Nat /\ Skew \in Int /\ Late \in Nat /\ Ahead \in Nat
  BY SignedAssumption DEF Sig!SignedCallsAssumption, Late, Ahead
<1>1. CASE UNCHANGED <<sig_req, copy, seen, accepted, offset, now>>
  BY <1>1 DEF SignedInv, SignedTypes, StampOK, KeptOK, CopyOK, Ahead, Late
<1>2. ASSUME NEW r \in Reqs, Sig!Calls(r) PROVE SignedInv'
  <2>1. PICK t : t = now + Skew + offset
    OBVIOUS
  <2>2. t \in Int /\ t <= now + Late
    BY <2>1, SignedNow DEF SignedInv
  <2>3. sig_req[r].st = "unsigned" /\ sig_req' = [sig_req EXCEPT ![r] = [st |-> "out", ts |-> t]]
        /\ offset' \in {0, 0 - Skew} /\ UNCHANGED <<copy, seen, accepted, now>>
    BY <1>2, <2>1 DEF Sig!Calls, Sig!Sign, SignedInv, SignedTypes
  <2> QED
    BY <2>2, <2>3, SignStep
<1>3. ASSUME NEW r \in Reqs, Sig!Stale(r) PROVE SignedInv'
  <2>1. offset' = 0 - Skew /\ UNCHANGED <<copy, seen, accepted, now>>
    BY <1>3 DEF Sig!Stale, Sig!Learned
  <2>2. CASE UNCHANGED sig_req
    BY <2>1, <2>2 DEF SignedInv, SignedTypes, StampOK, KeptOK, CopyOK, Ahead, Late
  <2>3. CASE sig_req' # sig_req
    <3>1. PICK s \in Reqs : sig_req[s].st = "unsigned"
                            /\ sig_req' = [sig_req EXCEPT ![s] = [st |-> "out", ts |-> now + Skew + offset']]
      BY <1>3, <2>3 DEF Sig!Stale
    <3>2. PICK t : t = now + Skew + (0 - Skew)
      OBVIOUS
    <3>3. t \in Int /\ t <= now + Late
      BY <3>2, SignedNow DEF SignedInv
    <3>4. sig_req' = [sig_req EXCEPT ![s] = [st |-> "out", ts |-> t]]
      BY <2>1, <3>1, <3>2
    <3> QED
      BY <2>1, <3>1, <3>3, <3>4, SignStep
  <2> QED
    BY <2>2, <2>3
<1>4. ASSUME NEW c \in Copies, NEW r \in Reqs, NEW i \in Isolates, Sig!Arrives(c, r, i) PROVE SignedInv'
  <2>1. UNCHANGED <<sig_req, seen, accepted, offset, now>> /\ copy' = [copy EXCEPT ![c] = [of |-> r, at |-> now, iso |-> i]]
    BY <1>4 DEF Sig!Arrives
  <2>2. sig_req[r].st = "out" /\ sig_req[r].ts \in Int /\ now \in Nat /\ sig_req[r].ts <= now + Late
        /\ now - sig_req[r].ts <= WINDOW /\ sig_req[r].ts - now <= WINDOW
    BY <1>4 DEF Sig!Arrives, Sig!InWindow, SignedInv, SignedTypes, StampOK
  <2>3. SignedTypes'
    BY <2>1, <2>2 DEF SignedInv, SignedTypes
  <2>4. ASSUME NEW d \in Copies PROVE CopyOK(d)'
    <3>1. CASE d = c
      <4>1. copy'[d] = [of |-> r, at |-> now, iso |-> i]
        BY <2>1, <3>1 DEF SignedInv, SignedTypes
      <4> QED
        BY <1>0, <2>1, <2>2, <4>1 DEF CopyOK, Ahead, Late
    <3>2. CASE d # c
      <4>1. copy'[d] = copy[d]
        BY <2>1, <3>2 DEF SignedInv, SignedTypes
      <4> QED
        BY <2>1, <4>1 DEF SignedInv, CopyOK, Ahead, Late
    <3> QED
      BY <3>1, <3>2
  <2> QED
    BY <2>1, <2>3, <2>4 DEF SignedInv, StampOK, KeptOK, Ahead, Late
<1>5. ASSUME NEW c \in Copies, Sig!Records(c) \/ Sig!RecordsInMemory(c) PROVE SignedInv'
  <2>1. ~Sig!RecordsInMemory(c)
    BY DEF Sig!RecordsInMemory, Outlasts
  <2> QED
    BY <1>5, <2>1, RecordsStep
<1>6. CASE Sig!Tick
  <2>1. now' = now + 1 /\ UNCHANGED <<sig_req, copy, seen, accepted, offset>> /\ now \in Nat
        /\ \A c \in Copies : copy[c].of # None => now - copy[c].at < MaxWait
    BY <1>6 DEF Sig!Tick, SignedInv, SignedTypes
  <2>2. SignedTypes'
    <3>1. 0..now \subseteq 0..now' /\ 0..(now + TTL) \subseteq 0..(now' + TTL)
      BY <1>0, <2>1
    <3> QED
      BY <2>1, <3>1 DEF SignedInv, SignedTypes
  <2>3. ASSUME NEW r \in Reqs PROVE StampOK(r)' /\ KeptOK(r)'
    <3>1. sig_req[r].ts \in Int /\ seen[r] \in Nat /\ StampOK(r) /\ KeptOK(r)
      BY <1>0, <2>1 DEF SignedInv, SignedTypes
    <3> QED
      BY <1>0, <2>1, <3>1 DEF StampOK, KeptOK, Ahead, Late
  <2>4. ASSUME NEW c \in Copies PROVE CopyOK(c)'
    <3>1. copy[c].at \in Nat /\ CopyOK(c)
      BY <2>1 DEF SignedInv, SignedTypes
    <3> QED
      BY <1>0, <2>1, <3>1 DEF CopyOK, Ahead, Late
  <2> QED
    BY <2>2, <2>3, <2>4 DEF SignedInv
<1> QED
  BY <1>1, <1>2, <1>3, <1>4, <1>5, <1>6 DEF Sig!Next, Sig!GivesUp, sigVars

\* Nothing is signed, let through or remembered at first.
LEMMA SignedInit == SealsInit => SignedInv
<1>1. TTL \in Nat
  BY SignedAssumption DEF Sig!SignedCallsAssumption
<1> QED
  BY <1>1 DEF SealsInit, Sig!Init, SignedInv, SignedTypes, StampOK, KeptOK, CopyOK

\* middleware/node-auth.ts: a nonce is accepted once, whatever copies of the request arrive, however late and at
\* whichever isolate, for every skew of the agent's clock that leaves the table's TTL longer than window and skew.
THEOREM NoncesAreAcceptedOnce == ASSUME Outlasts PROVE SealsSpec => []AcceptedOnce
<1>1. SignedInv /\ [SealsNext]_all => SignedInv'
  <2>1. [SealsNext]_all => [Sig!Next]_sigVars
    BY DEF SealsNext, HostingOnly, SignedOnly, FleetsOnly, all
  <2> QED
    BY <2>1, SignedNext
<1>2. SignedInv => AcceptedOnce
  BY DEF SignedInv, SignedTypes, AcceptedOnce, Sig!TypeOK, Sig!AcceptedOnce
<1> QED
  BY <1>1, <1>2, SignedInit, PTL DEF SealsSpec

-----------------------------------------------------------------------------
(* Fleets: the revocation of a fleet leaves no deployment of it behind.     *)

\* No node announces itself, is let go or reports a status meanwhile: each of these can leave a deployment of a
\* revoked fleet waiting (deployment-duties.service.ts compares what it read with what it finds).
Undisturbed == MaxAnnounces = 0 /\ MaxEvictions = 0 /\ MaxFlips = 0

FleetTypes ==
  /\ announces = 0 /\ evictions = 0 /\ flips = 0
  /\ revoked \subseteq FleetIds
  /\ node \in [FleNodes -> [bound : BOOLEAN, fleet : FleetIds \cup {None}]]
  /\ \A n \in FleNodes : node[n].fleet # None => node[n].bound
  /\ dep \in [Deps -> Fle!AnyRow]
  /\ \A d \in Deps : dep[d].st \in Live => dep[d].node # None

\* A request and what it read; it revokes a fleet that is revoked.
RequestOK(q) ==
  /\ DOMAIN q = {"pc", "fleet", "node", "rows", "dep"}
  /\ q.pc \in {"idle", "insert", "recheck", "requeue", "fail", "requeueRead", "failPinned", "unbindRead", "unbind"}
  /\ q.fleet \in revoked \cup {None}
  /\ q.pc \in {"requeueRead", "failPinned", "unbindRead", "unbind"} => q.fleet # None
  /\ q.node \subseteq FleNodes
  /\ q.rows \in [Deps -> Fle!AnyRow \cup {None}]
  /\ q.pc = "requeue" => \A d \in Deps : q.rows[d] # None => q.rows[d].st \in Live
  /\ q.dep \in Deps \cup {None}
  /\ q.pc \in {"insert", "recheck"} => q.dep # None
  /\ q.pc = "unbind" => \A n \in FleNodes : node[n].fleet = q.fleet => n \in q.node

\* Its nodes are still to be unbound.
Unbinding(q, f) == q.fleet = f /\ q.pc \in {"unbindRead", "unbind"}

\* A revoked fleet has no nodes, or they are about to be unbound.
EmptyOK(f) ==
  f \in revoked => (\E p \in FleRequests : Unbinding(fle_req[p], f)) \/ \A n \in FleNodes : node[n].fleet # f

\* The request q will take d off its node.
Takes(q, d) ==
  /\ q.fleet = Pin[d]
  /\ \/ q.pc \in {"unbindRead", "unbind"} /\ node[dep[d].node].fleet = Pin[d]
     \/ q.pc = "requeueRead" /\ dep[d].node \in q.node
     \/ q.pc = "requeue" /\ q.rows[d] = dep[d]

\* What is live runs in its fleet, or is about to be taken off.
HomeOK(d) ==
  Pin[d] # None /\ dep[d].st \in Live =>
    IF Pin[d] \in revoked THEN \E p \in FleRequests : Takes(fle_req[p], d) ELSE node[dep[d].node].fleet = Pin[d]

\* The request q will end d.
Owes(q, d) ==
  \/ q.fleet = Pin[d] /\ q.pc \in {"unbindRead", "unbind", "requeueRead", "requeue", "failPinned"}
  \/ q.pc = "fail" /\ q.rows[d] # None /\ q.rows[d].st = dep[d].st
  \/ q.pc = "recheck" /\ q.dep = d

OwedOK(d) == Pin[d] \in revoked /\ dep[d].st \in Fle!Open => \E p \in FleRequests : Owes(fle_req[p], d)

FleetsInv ==
  /\ FleetTypes
  /\ fle_req = [p \in FleRequests |-> fle_req[p]]
  /\ \A p \in FleRequests : RequestOK(fle_req[p])
  /\ \A f \in FleetIds : EmptyOK(f)
  /\ \A d \in Deps : HomeOK(d) /\ OwedOK(d)

\* A step of one request that reads only, and still takes and owes what it did.
LEMMA OnlyRequest ==
  ASSUME FleetsInv, NEW p \in FleRequests, UNCHANGED <<revoked, node, dep, announces, evictions, flips>>,
         fle_req' = [x \in FleRequests |-> fle_req'[x]], \A x \in FleRequests : x # p => fle_req'[x] = fle_req[x],
         RequestOK(fle_req'[p]),
         \A f \in FleetIds : Unbinding(fle_req[p], f) => Unbinding(fle_req'[p], f),
         \A d \in Deps : Pin[d] \in revoked /\ dep[d].st \in Live /\ Takes(fle_req[p], d) => Takes(fle_req'[p], d),
         \A d \in Deps : Pin[d] \in revoked /\ dep[d].st \in Fle!Open /\ Owes(fle_req[p], d) => Owes(fle_req'[p], d)
  PROVE  FleetsInv'
<1>1. FleetTypes'
  BY DEF FleetsInv, FleetTypes
<1>2. ASSUME NEW x \in FleRequests PROVE RequestOK(fle_req[x])'
  BY DEF FleetsInv, RequestOK
<1>3. ASSUME NEW f \in FleetIds PROVE EmptyOK(f)'
  BY <1>3 DEF FleetsInv, EmptyOK, Unbinding
<1>4. ASSUME NEW d \in Deps PROVE HomeOK(d)'
  <2> SUFFICES ASSUME Pin[d] # None, dep[d].st \in Live, Pin[d] \in revoked
               PROVE  \E x \in FleRequests : Takes(fle_req'[x], d)
    BY DEF FleetsInv, HomeOK, Takes
  <2>1. PICK x \in FleRequests : Takes(fle_req[x], d)
    BY DEF FleetsInv, HomeOK
  <2> QED
    BY <2>1
<1>5. ASSUME NEW d \in Deps PROVE OwedOK(d)'
  <2> SUFFICES ASSUME Pin[d] \in revoked, dep[d].st \in Fle!Open PROVE \E x \in FleRequests : Owes(fle_req'[x], d)
    BY DEF OwedOK, Owes
  <2>1. PICK x \in FleRequests : Owes(fle_req[x], d)
    BY DEF FleetsInv, OwedOK
  <2> QED
    BY <2>1
<1> QED
  BY <1>1, <1>2, <1>3, <1>4, <1>5 DEF FleetsInv

\* What the reading steps of a request make of it.
LEMMA ReadingStep ==
  ASSUME FleetsInv, NEW p \in FleRequests,
         \/ \E d \in Deps : Fle!CreateCheck(p, d)
         \/ Fle!CreateRecheck(p) \/ Fle!SweepDone(p) \/ Fle!RequeueRead(p) \/ Fle!failPinnedTo(p) \/ Fle!UnbindRead(p)
         \/ Fle!Sweep(p)
  PROVE  FleetsInv'
<1> DEFINE q == fle_req[p]
           r == fle_req'[p]
<1>1. RequestOK(q) /\ Pin \in [Deps -> FleetIds \cup {None}] /\ None \notin FleetIds /\ None \notin Fle!AnyRow
      /\ None \notin Deps /\ revoked \subseteq FleetIds /\ dep \in [Deps -> Fle!AnyRow]
  BY PinsAssumption DEF FleetsInv, FleetTypes, Fle!FleetsAssumption
<1>2. UNCHANGED <<revoked, node, dep, announces, evictions, flips>>
  BY DEF Fle!CreateCheck, Fle!CreateRecheck, Fle!SweepDone, Fle!RequeueRead, Fle!failPinnedTo, Fle!UnbindRead,
         Fle!Sweep, Fle!bounds
<1>3. fle_req' = [x \in FleRequests |-> fle_req'[x]] /\ \A x \in FleRequests : x # p => fle_req'[x] = fle_req[x]
  BY DEF Fle!CreateCheck, Fle!CreateRecheck, Fle!SweepDone, Fle!RequeueRead, Fle!failPinnedTo, Fle!UnbindRead,
         Fle!Sweep, Fle!To, Fle!Finish, FleetsInv
<1>4. \A S : Fle!Rows(S) \in [Deps -> Fle!AnyRow \cup {None}]
             /\ \A d \in Deps : Fle!Rows(S)[d] = IF d \in S THEN dep[d] ELSE None
  BY <1>1 DEF Fle!Rows
<1>5. ASSUME NEW d \in Deps, Fle!CreateCheck(p, d) PROVE FleetsInv'
  <2>1. r = [Fle!Idle EXCEPT !.pc = "insert", !.dep = d] /\ q.pc = "idle"
    BY <1>5 DEF Fle!CreateCheck, FleetsInv
  <2>2. RequestOK(r)
    BY <1>1, <2>1 DEF RequestOK, Fle!Idle, Fle!NoRows
  <2>3. q.pc = "idle"
    BY <2>1
  <2> QED
    BY <1>2, <1>3, <2>2, <2>3, OnlyRequest DEF Unbinding, Takes, Owes
<1>6. CASE Fle!CreateRecheck(p)
  <2>1. CASE Pin[q.dep] \in revoked
    <3>1. q.pc = "recheck" /\ r = [q EXCEPT !.pc = "fail", !.rows = Fle!Rows({q.dep})]
      BY <1>6, <2>1 DEF Fle!CreateRecheck, Fle!pinRevokedSince, FleetsInv
    <3>2. RequestOK(r)
      BY <1>1, <1>4, <3>1 DEF RequestOK
    <3>3. r.pc = "fail" /\ r.rows = Fle!Rows({q.dep}) /\ q.pc = "recheck"
      BY <1>1, <3>1 DEF RequestOK
    <3>4. \A d \in Deps : Owes(q, d) => Owes(r, d)
      BY <1>1, <1>4, <3>3 DEF Owes
    <3> QED
      BY <1>2, <1>3, <3>2, <3>3, <3>4, OnlyRequest DEF Unbinding, Takes
  <2>2. CASE Pin[q.dep] \notin revoked
    <3>1. q.pc = "recheck" /\ r = Fle!Idle
      BY <1>6, <2>2 DEF Fle!CreateRecheck, Fle!pinRevokedSince, Fle!Finish, FleetsInv
    <3>2. RequestOK(r)
      BY <1>1, <3>1 DEF RequestOK, Fle!Idle, Fle!NoRows
    <3>3. \A d \in Deps : Pin[d] \in revoked => ~Owes(q, d)
      BY <2>2, <3>1 DEF Owes
    <3> QED
      BY <1>2, <1>3, <3>1, <3>2, <3>3, OnlyRequest DEF Unbinding, Takes
  <2> QED
    BY <2>1, <2>2
<1>7. CASE Fle!SweepDone(p)
  <2>1. q.pc \in {"requeue", "fail"} /\ \A d \in Deps : q.rows[d] = None
    BY <1>7 DEF Fle!SweepDone, Fle!NoRows
  <2>2. CASE q.pc = "requeue" /\ q.fleet # None
    <3>1. r = [q EXCEPT !.pc = "failPinned"]
      BY <1>7, <2>2 DEF Fle!SweepDone, Fle!To, FleetsInv
    <3>2. RequestOK(r) /\ r.pc = "failPinned" /\ r.fleet = q.fleet
      BY <1>1, <2>2, <3>1 DEF RequestOK
    <3>3. \A d \in Deps : ~Takes(q, d)
      BY <1>1, <2>1, <2>2 DEF Takes
    <3>4. \A d \in Deps : Owes(q, d) => Owes(r, d)
      BY <2>2, <3>2 DEF Owes
    <3> QED
      BY <1>2, <1>3, <2>2, <3>2, <3>3, <3>4, OnlyRequest DEF Unbinding
  <2>3. CASE ~(q.pc = "requeue" /\ q.fleet # None)
    <3>1. r = Fle!Idle
      BY <1>7, <2>3 DEF Fle!SweepDone, Fle!Finish, FleetsInv
    <3>2. RequestOK(r)
      BY <1>1, <3>1 DEF RequestOK, Fle!Idle, Fle!NoRows
    <3>3. \A d \in Deps : ~Takes(q, d)
      BY <1>1, <2>1 DEF Takes
    <3>4. \A d \in Deps : Pin[d] \in revoked => ~Owes(q, d)
      BY <1>1, <2>1, <2>3 DEF Owes
    <3>5. \A f \in FleetIds : ~Unbinding(q, f)
      BY <2>1 DEF Unbinding
    <3> QED
      BY <1>2, <1>3, <3>2, <3>3, <3>4, <3>5, OnlyRequest
  <2> QED
    BY <2>2, <2>3
<1>8. CASE Fle!RequeueRead(p)
  <2>1. PICK S : S = {d \in Deps : dep[d].st \in Live /\ dep[d].node \in q.node}
    OBVIOUS
  <2>2. q.pc = "requeueRead" /\ r = [q EXCEPT !.pc = "requeue", !.rows = Fle!Rows(S)]
    BY <1>8, <2>1 DEF Fle!RequeueRead, FleetsInv, Fle!Live, Live
  <2>3. r.pc = "requeue" /\ r.rows = Fle!Rows(S) /\ r.fleet = q.fleet
    BY <1>1, <2>2 DEF RequestOK
  <2>4. RequestOK(r)
    BY <1>1, <1>4, <2>1, <2>2 DEF RequestOK
  <2>5. \A d \in Deps : dep[d].st \in Live /\ Takes(q, d) => Takes(r, d)
    BY <1>4, <2>1, <2>2, <2>3 DEF Takes
  <2>6. \A d \in Deps : Owes(q, d) => Owes(r, d)
    BY <2>2, <2>3 DEF Owes
  <2> QED
    BY <1>2, <1>3, <2>2, <2>4, <2>5, <2>6, OnlyRequest DEF Unbinding
<1>9. CASE Fle!failPinnedTo(p)
  <2>1. q.pc = "failPinned" /\ r = [q EXCEPT !.pc = "fail", !.rows = Fle!Rows(Fle!PinnedTo(q.fleet))]
    BY <1>9 DEF Fle!failPinnedTo, FleetsInv
  <2>2. r.pc = "fail" /\ r.rows = Fle!Rows(Fle!PinnedTo(q.fleet))
    BY <1>1, <2>1 DEF RequestOK
  <2>3. RequestOK(r)
    BY <1>1, <1>4, <2>1 DEF RequestOK
  <2>4. \A d \in Deps : dep[d].st \in Fle!Open /\ Owes(q, d) => Owes(r, d)
    BY <1>1, <1>4, <2>1, <2>2 DEF Owes, Fle!PinnedTo
  <2> QED
    BY <1>2, <1>3, <2>1, <2>3, <2>4, OnlyRequest DEF Unbinding, Takes
<1>10. CASE Fle!UnbindRead(p)
  <2>1. PICK S : S = {n \in FleNodes : node[n].fleet = q.fleet}
    OBVIOUS
  <2>2. q.pc = "unbindRead" /\ r = [q EXCEPT !.pc = "unbind", !.node = S]
    BY <1>10, <2>1 DEF Fle!UnbindRead, FleetsInv
  <2>3. r.pc = "unbind" /\ r.fleet = q.fleet
    BY <1>1, <2>2 DEF RequestOK
  <2>4. RequestOK(r)
    BY <1>1, <2>1, <2>2 DEF RequestOK
  <2> QED
    BY <1>2, <1>3, <2>2, <2>3, <2>4, OnlyRequest DEF Unbinding, Takes, Owes
<1>11. CASE Fle!Sweep(p)
  <2>1. q.pc = "idle" /\ r = [q EXCEPT !.pc = "requeue", !.rows = Fle!Rows(Fle!Mispinned)]
    BY <1>11 DEF Fle!Sweep, FleetsInv
  <2>2. RequestOK(r)
    BY <1>1, <1>4, <2>1 DEF RequestOK, Fle!Mispinned, Fle!Live, Live
  <2> QED
    BY <1>2, <1>3, <2>1, <2>2, OnlyRequest DEF Unbinding, Takes, Owes
<1> QED
  BY <1>5, <1>6, <1>7, <1>8, <1>9, <1>10, <1>11

\* revokeFleet: its nodes are to be unbound, and what they run is theirs.
LEMMA RevokeStep ==
  ASSUME FleetsInv, NEW p \in FleRequests, NEW f \in FleetIds, Fle!revokeFleet(p, f)
  PROVE  FleetsInv'
<1> DEFINE q == fle_req[p]
           r == fle_req'[p]
<1>1. Pin \in [Deps -> FleetIds \cup {None}] /\ None \notin FleetIds /\ None \notin Fle!AnyRow
  BY PinsAssumption DEF Fle!FleetsAssumption
<1>2. revoked' = revoked \cup {f} /\ UNCHANGED <<node, dep, announces, evictions, flips>> /\ q.pc = "idle"
  BY DEF Fle!revokeFleet, Fle!bounds
<1>3. r = [Fle!Idle EXCEPT !.pc = "unbindRead", !.fleet = f] /\ fle_req' = [x \in FleRequests |-> fle_req'[x]]
      /\ \A x \in FleRequests : x # p => fle_req'[x] = fle_req[x]
  BY DEF Fle!revokeFleet, FleetsInv
<1>4. RequestOK(fle_req[p])' /\ r.pc = "unbindRead" /\ r.fleet = f
  BY <1>1, <1>2, <1>3 DEF RequestOK, Fle!Idle, Fle!NoRows
<1>5. FleetTypes'
  BY <1>2 DEF FleetsInv, FleetTypes
<1>6. ASSUME NEW x \in FleRequests PROVE RequestOK(fle_req[x])'
  <2>1. CASE x = p
    BY <1>4, <2>1
  <2>2. CASE x # p
    <3>1. fle_req'[x] = fle_req[x] /\ RequestOK(fle_req[x])
      BY <1>3, <2>2 DEF FleetsInv
    <3> QED
      BY <1>2, <3>1 DEF RequestOK
  <2> QED
    BY <2>1, <2>2
<1>7. ASSUME NEW g \in FleetIds PROVE EmptyOK(g)'
  <2>1. CASE g = f
    BY <1>4, <2>1 DEF EmptyOK, Unbinding
  <2>2. CASE g # f
    BY <1>2, <1>3, <2>2 DEF FleetsInv, EmptyOK, Unbinding
  <2> QED
    BY <2>1, <2>2
<1>8. ASSUME NEW d \in Deps PROVE HomeOK(d)'
  <2>1. CASE Pin[d] = f /\ f \notin revoked
    BY <1>2, <1>4, <2>1 DEF FleetsInv, HomeOK, Takes
  <2>2. CASE Pin[d] \in revoked
    <3> SUFFICES ASSUME Pin[d] # None, dep[d].st \in Live PROVE \E x \in FleRequests : Takes(fle_req[x], d)'
      BY <1>2, <2>2 DEF HomeOK
    <3>1. PICK x \in FleRequests : Takes(fle_req[x], d)
      BY <2>2 DEF FleetsInv, HomeOK
    <3> QED
      BY <1>2, <1>3, <3>1 DEF Takes
  <2>3. CASE Pin[d] \notin revoked /\ Pin[d] # f
    BY <1>2, <2>3 DEF FleetsInv, HomeOK
  <2> QED
    BY <2>1, <2>2, <2>3
<1>9. ASSUME NEW d \in Deps PROVE OwedOK(d)'
  <2>1. CASE Pin[d] = f
    BY <1>4, <2>1 DEF OwedOK, Owes
  <2>2. CASE Pin[d] # f
    <3> SUFFICES ASSUME Pin[d] \in revoked, dep[d].st \in Fle!Open PROVE \E x \in FleRequests : Owes(fle_req[x], d)'
      BY <1>2, <2>2 DEF OwedOK
    <3>1. PICK x \in FleRequests : Owes(fle_req[x], d)
      BY DEF FleetsInv, OwedOK
    <3> QED
      BY <1>2, <1>3, <3>1 DEF Owes
  <2> QED
    BY <2>1, <2>2
<1> QED
  BY <1>3, <1>5, <1>6, <1>7, <1>8, <1>9 DEF FleetsInv

\* unbindFleetNodes: nothing claims a deployment of this fleet any more.
LEMMA UnbindStep ==
  ASSUME FleetsInv, NEW p \in FleRequests, Fle!UnbindWrite(p)
  PROVE  FleetsInv'
<1> DEFINE q == fle_req[p]
           r == fle_req'[p]
           f == fle_req[p].fleet
<1>1. Pin \in [Deps -> FleetIds \cup {None}] /\ None \notin FleetIds
  BY PinsAssumption DEF Fle!FleetsAssumption
<1>2. RequestOK(q) /\ q.pc = "unbind" /\ f # None /\ f \in revoked
  BY DEF FleetsInv, RequestOK, Fle!UnbindWrite
<1>3. UNCHANGED <<revoked, dep, announces, evictions, flips>>
  BY DEF Fle!UnbindWrite, Fle!bounds
<1>4. r = [q EXCEPT !.pc = "requeueRead"] /\ fle_req' = [x \in FleRequests |-> fle_req'[x]]
      /\ \A x \in FleRequests : x # p => fle_req'[x] = fle_req[x]
  BY DEF Fle!UnbindWrite, Fle!To, FleetsInv
<1>5. r.pc = "requeueRead" /\ r.fleet = f /\ r.node = q.node
  BY <1>2, <1>4 DEF RequestOK
<1>6. \A n \in FleNodes : node[n].fleet = f => n \in q.node
  BY <1>2 DEF RequestOK
<1>7. node' = [n \in FleNodes |-> IF node[n].fleet = f THEN Fle!Unbound ELSE node[n]]
  BY <1>6 DEF Fle!UnbindWrite
<1>8. FleetTypes'
  BY <1>3, <1>7 DEF FleetsInv, FleetTypes, Fle!Unbound
<1>9. \A n \in FleNodes : /\ node[n].fleet = f => node'[n].fleet = None
                          /\ node[n].fleet # f => node'[n] = node[n]
  BY <1>7 DEF Fle!Unbound
<1>10. ASSUME NEW x \in FleRequests PROVE RequestOK(fle_req[x])'
  <2>1. RequestOK(fle_req[x])
    BY DEF FleetsInv
  <2>2. \A n \in FleNodes : node'[n].fleet = fle_req[x].fleet /\ fle_req[x].fleet # None => node[n].fleet = fle_req[x].fleet
    BY <1>9
  <2>3. CASE x = p
    BY <1>2, <1>3, <1>4, <2>3 DEF RequestOK
  <2>4. CASE x # p
    BY <1>3, <1>4, <2>1, <2>2, <2>4 DEF RequestOK
  <2> QED
    BY <2>3, <2>4
<1>11. ASSUME NEW g \in FleetIds PROVE EmptyOK(g)'
  <2>1. CASE g = f
    BY <1>2, <1>9, <2>1 DEF EmptyOK
  <2>2. CASE g # f
    <3>1. \A x \in FleRequests : Unbinding(fle_req[x], g) => Unbinding(fle_req'[x], g)
      BY <1>4, <2>2 DEF Unbinding
    <3>2. \A n \in FleNodes : node'[n].fleet = g => node[n].fleet = g
      BY <1>1, <1>9
    <3> QED
      BY <1>3, <3>1, <3>2 DEF FleetsInv, EmptyOK, Unbinding
  <2> QED
    BY <2>1, <2>2
<1>12. ASSUME NEW d \in Deps PROVE HomeOK(d)'
  <2> SUFFICES ASSUME Pin[d] # None, dep[d].st \in Live PROVE HomeOK(d)'
    BY <1>3 DEF HomeOK
  <2>1. dep[d].node \in FleNodes
    BY DEF FleetsInv, FleetTypes, Fle!AnyRow
  <2>2. CASE Pin[d] \notin revoked
    BY <1>2, <1>3, <1>9, <2>1, <2>2 DEF FleetsInv, HomeOK
  <2>3. CASE Pin[d] \in revoked
    <3>1. PICK x \in FleRequests : Takes(fle_req[x], d)
      BY <2>3 DEF FleetsInv, HomeOK
    <3>2. CASE node[dep[d].node].fleet = Pin[d] /\ Pin[d] = f
      BY <1>3, <1>5, <1>6, <2>1, <2>3, <3>2 DEF HomeOK, Takes
    <3>3. CASE ~(node[dep[d].node].fleet = Pin[d] /\ Pin[d] = f)
      <4>1. x # p
        BY <1>2, <3>1, <3>3 DEF Takes
      <4>2. Takes(fle_req[x], d)'
        BY <1>3, <1>4, <1>9, <2>1, <3>1, <3>3, <4>1 DEF Takes
      <4> QED
        BY <1>3, <2>3, <4>2 DEF HomeOK
    <3> QED
      BY <3>2, <3>3
  <2> QED
    BY <2>2, <2>3
<1>13. ASSUME NEW d \in Deps PROVE OwedOK(d)'
  <2>1. \A x \in FleRequests : Owes(fle_req[x], d) => Owes(fle_req'[x], d)
    BY <1>2, <1>4, <1>5 DEF Owes
  <2> QED
    BY <1>3, <2>1 DEF FleetsInv, OwedOK, Owes
<1> QED
  BY <1>4, <1>8, <1>10, <1>11, <1>12, <1>13 DEF FleetsInv

\* createDeployment: whoever inserts the row reads the fleet again.
LEMMA InsertStep ==
  ASSUME FleetsInv, NEW p \in FleRequests, Fle!CreateInsert(p)
  PROVE  FleetsInv'
<1> DEFINE q == fle_req[p]
           r == fle_req'[p]
           e == fle_req[p].dep
<1>1. Pin \in [Deps -> FleetIds \cup {None}] /\ None \notin FleetIds /\ revoked \subseteq FleetIds
  BY PinsAssumption DEF Fle!FleetsAssumption, FleetsInv, FleetTypes
<1>2. RequestOK(q) /\ q.pc = "insert" /\ e \in Deps
  BY DEF FleetsInv, RequestOK, Fle!CreateInsert
<1>3. UNCHANGED <<revoked, node, announces, evictions, flips>> /\ dep' = [dep EXCEPT ![e].st = "queued"]
  BY DEF Fle!CreateInsert, Fle!bounds
<1>4. fle_req' = [x \in FleRequests |-> fle_req'[x]] /\ \A x \in FleRequests : x # p => fle_req'[x] = fle_req[x]
  BY DEF Fle!CreateInsert, Fle!To, Fle!Finish, FleetsInv
<1>5. (Pin[e] = None /\ r = Fle!Idle) \/ (Pin[e] # None /\ r = [q EXCEPT !.pc = "recheck"])
  BY DEF Fle!CreateInsert, Fle!To, Fle!Finish, FleetsInv
<1>6. RequestOK(r)
  BY <1>2, <1>5 DEF RequestOK, Fle!Idle, Fle!NoRows
<1>7. FleetTypes'
  BY <1>2, <1>3 DEF FleetsInv, FleetTypes, Fle!AnyRow, Fle!Open, Fle!Live, Live
<1>8. dep'[e].st = "queued" /\ \A d \in Deps : d # e => dep'[d] = dep[d]
  BY <1>2, <1>3 DEF FleetsInv, FleetTypes, Fle!AnyRow
<1>9. ASSUME NEW x \in FleRequests PROVE RequestOK(fle_req[x])'
  BY <1>3, <1>4, <1>6 DEF FleetsInv, RequestOK
<1>10. ASSUME NEW f \in FleetIds PROVE EmptyOK(f)'
  BY <1>2, <1>3, <1>4 DEF FleetsInv, EmptyOK, Unbinding
<1>11. ASSUME NEW d \in Deps PROVE HomeOK(d)'
  <2>1. CASE d = e
    BY <1>8, <2>1 DEF HomeOK, Live
  <2>2. CASE d # e
    <3>1. \A x \in FleRequests : Takes(fle_req[x], d) => Takes(fle_req[x], d)'
      BY <1>2, <1>3, <1>4, <1>8, <2>2 DEF Takes
    <3> QED
      BY <1>3, <1>8, <2>2, <3>1 DEF FleetsInv, HomeOK
  <2> QED
    BY <2>1, <2>2
<1>12. ASSUME NEW d \in Deps PROVE OwedOK(d)'
  <2>1. CASE d = e
    <3> SUFFICES ASSUME Pin[e] \in revoked PROVE Owes(fle_req[p], d)'
      BY <1>3, <2>1 DEF OwedOK
    <3>1. r.pc = "recheck" /\ r.dep = e
      BY <1>1, <1>2, <1>5 DEF RequestOK
    <3> QED
      BY <2>1, <3>1 DEF Owes
  <2>2. CASE d # e
    <3>1. \A x \in FleRequests : Owes(fle_req[x], d) => Owes(fle_req[x], d)'
      BY <1>2, <1>3, <1>4, <1>8, <2>2 DEF Owes
    <3> QED
      BY <1>3, <1>8, <2>2, <3>1 DEF FleetsInv, OwedOK
  <2> QED
    BY <2>1, <2>2
<1> QED
  BY <1>4, <1>7, <1>9, <1>10, <1>11, <1>12 DEF FleetsInv

\* One row taken back, or ended, if it is as it was read.
LEMMA SweepRowStep ==
  ASSUME FleetsInv, NEW p \in FleRequests, NEW e \in Deps, Fle!SweepRow(p, e)
  PROVE  FleetsInv'
<1> DEFINE q == fle_req[p]
           r == fle_req'[p]
           hit == dep[e].st = q.rows[e].st /\ (q.pc = "fail" \/ dep[e].node = q.rows[e].node)
<1>1. Pin \in [Deps -> FleetIds \cup {None}] /\ None \notin FleetIds /\ None \notin Fle!AnyRow /\ revoked \subseteq FleetIds
  BY PinsAssumption DEF Fle!FleetsAssumption, FleetsInv, FleetTypes
<1>2. RequestOK(q) /\ q.pc \in {"requeue", "fail"} /\ q.rows[e] # None /\ q.rows[e] \in Fle!AnyRow
      /\ dep \in [Deps -> Fle!AnyRow]
  BY DEF FleetsInv, RequestOK, Fle!SweepRow, FleetTypes
<1>3. UNCHANGED <<revoked, node, announces, evictions, flips>>
  BY DEF Fle!SweepRow, Fle!bounds
<1>4. fle_req' = [x \in FleRequests |-> fle_req'[x]] /\ (\A x \in FleRequests : x # p => fle_req'[x] = fle_req[x])
      /\ r = [q EXCEPT !.rows = [q.rows EXCEPT ![e] = None]]
  BY DEF Fle!SweepRow, FleetsInv
<1>5. r.pc = q.pc /\ r.fleet = q.fleet /\ r.node = q.node /\ r.dep = q.dep /\ r.rows = [q.rows EXCEPT ![e] = None]
      /\ DOMAIN r = DOMAIN q
  BY <1>2, <1>4 DEF RequestOK
<1>6. /\ ~hit => dep' = dep
      /\ hit /\ q.pc = "requeue" => dep' = [dep EXCEPT ![e] = Fle!Away]
      /\ hit /\ q.pc = "fail" => dep' = [dep EXCEPT ![e] = [dep[e] EXCEPT !.st = "ended"]]
  BY <1>2 DEF Fle!SweepRow
<1>7. \A d \in Deps : d # e => dep'[d] = dep[d] /\ r.rows[d] = q.rows[d]
  BY <1>2, <1>5, <1>6 DEF RequestOK
<1>8. /\ hit /\ q.pc = "requeue" => dep'[e] = Fle!Away /\ dep[e] = q.rows[e] /\ dep[e].st \in Live
      /\ hit /\ q.pc = "fail" => dep'[e].st = "ended"
  BY <1>2, <1>6 DEF RequestOK, Fle!AnyRow
<1>9. RequestOK(r)
  BY <1>2, <1>5 DEF RequestOK
<1>10. FleetTypes'
  <2>1. dep' \in [Deps -> Fle!AnyRow]
    BY <1>2, <1>6 DEF Fle!AnyRow, Fle!Away, Fle!Open
  <2>2. \A d \in Deps : dep'[d].st \in Live => dep'[d].node # None
    BY <1>2, <1>6, <1>7, <1>8 DEF FleetsInv, FleetTypes, Fle!Away, Live
  <2> QED
    BY <1>3, <2>1, <2>2 DEF FleetsInv, FleetTypes
<1>11. ASSUME NEW x \in FleRequests PROVE RequestOK(fle_req[x])'
  BY <1>3, <1>4, <1>9 DEF FleetsInv, RequestOK
<1>12. ASSUME NEW f \in FleetIds PROVE EmptyOK(f)'
  BY <1>2, <1>3, <1>4 DEF FleetsInv, EmptyOK, Unbinding
<1>13. ASSUME NEW d \in Deps PROVE HomeOK(d)'
  <2>1. CASE d = e /\ hit
    BY <1>2, <1>8, <2>1 DEF HomeOK, Live, Fle!Away
  <2>2. CASE ~(d = e /\ hit)
    <3>1. dep'[d] = dep[d]
      BY <1>6, <1>7, <2>2
    <3>2. \A x \in FleRequests : Takes(fle_req[x], d) => Takes(fle_req[x], d)'
      BY <1>2, <1>3, <1>4, <1>5, <1>7, <2>2, <3>1 DEF Takes
    <3> QED
      BY <1>3, <3>1, <3>2 DEF FleetsInv, HomeOK
  <2> QED
    BY <2>1, <2>2
<1>14. ASSUME NEW d \in Deps PROVE OwedOK(d)'
  <2>1. CASE d = e /\ hit /\ q.pc = "fail"
    BY <1>8, <2>1 DEF OwedOK, Fle!Open, Fle!Live
  <2>2. CASE d = e /\ hit /\ q.pc = "requeue"
    <3> SUFFICES ASSUME Pin[d] \in revoked PROVE \E x \in FleRequests : Owes(fle_req[x], d)'
      BY <1>3 DEF OwedOK
    <3>1. PICK x \in FleRequests : Takes(fle_req[x], d)
      BY <1>1, <1>8, <2>2 DEF FleetsInv, HomeOK
    <3>2. fle_req'[x].fleet = fle_req[x].fleet /\ fle_req'[x].pc = fle_req[x].pc
      BY <1>4, <1>5
    <3> QED
      BY <3>1, <3>2 DEF Takes, Owes
  <2>3. CASE ~(d = e /\ hit)
    <3>1. dep'[d] = dep[d]
      BY <1>6, <1>7, <2>3
    <3>2. \A x \in FleRequests : Owes(fle_req[x], d) => Owes(fle_req[x], d)'
      BY <1>2, <1>4, <1>5, <1>7, <2>3, <3>1 DEF Owes
    <3> QED
      BY <1>3, <3>1, <3>2 DEF FleetsInv, OwedOK
  <2> QED
    BY <1>2, <2>1, <2>2, <2>3
<1> QED
  BY <1>4, <1>10, <1>11, <1>12, <1>13, <1>14 DEF FleetsInv

\* claim: a node that may still claim for a revoked fleet is about to be unbound.
LEMMA ClaimPinnedStep ==
  ASSUME FleetsInv, NEW n \in FleNodes, NEW e \in Deps, Fle!claim(n, e)
  PROVE  FleetsInv'
<1>1. Pin \in [Deps -> FleetIds \cup {None}] /\ None \notin FleetIds \cup FleNodes /\ revoked \subseteq FleetIds
      /\ dep \in [Deps -> Fle!AnyRow]
  BY PinsAssumption DEF Fle!FleetsAssumption, FleetsInv, FleetTypes
<1>2. UNCHANGED <<revoked, node, fle_req, announces, evictions, flips>> /\ dep' = [dep EXCEPT ![e] = [st |-> "assigned", node |-> n]]
      /\ (Pin[e] = None \/ node[n].fleet = Pin[e])
  BY DEF Fle!claim, Fle!MayClaim, Fle!bounds
<1>3. dep'[e] = [st |-> "assigned", node |-> n] /\ \A d \in Deps : d # e => dep'[d] = dep[d]
  BY <1>1, <1>2
<1>4. FleetTypes'
  <2>1. dep' \in [Deps -> Fle!AnyRow]
    BY <1>1, <1>2 DEF Fle!AnyRow, Fle!Open, Fle!Live
  <2>2. \A d \in Deps : dep'[d].st \in Live => dep'[d].node # None
    BY <1>1, <1>3 DEF FleetsInv, FleetTypes
  <2> QED
    BY <1>2, <2>1, <2>2 DEF FleetsInv, FleetTypes
<1>5. ASSUME NEW x \in FleRequests PROVE RequestOK(fle_req[x])'
  BY <1>2 DEF FleetsInv, RequestOK
<1>6. ASSUME NEW f \in FleetIds PROVE EmptyOK(f)'
  BY <1>2 DEF FleetsInv, EmptyOK, Unbinding
<1>7. Pin[e] \in revoked => \E x \in FleRequests : Unbinding(fle_req[x], Pin[e])
  BY <1>1, <1>2 DEF FleetsInv, EmptyOK
<1>8. ASSUME NEW d \in Deps PROVE HomeOK(d)' /\ OwedOK(d)'
  <2>1. CASE d = e
    BY <1>2, <1>3, <1>7, <2>1 DEF HomeOK, OwedOK, Unbinding, Takes, Owes
  <2>2. CASE d # e
    BY <1>2, <1>3, <2>2 DEF FleetsInv, HomeOK, OwedOK, Takes, Owes
  <2> QED
    BY <2>1, <2>2
<1> QED
  BY <1>2, <1>4, <1>5, <1>6, <1>8 DEF FleetsInv

\* Every step.
LEMMA FleetsNext == ASSUME Undisturbed, FleetsInv, [Fle!Next]_fleVars PROVE FleetsInv'
<1>1. CASE UNCHANGED <<revoked, node, dep, fle_req, announces, evictions, flips>>
  BY <1>1 DEF FleetsInv, FleetTypes, RequestOK, EmptyOK, HomeOK, OwedOK, Unbinding, Takes, Owes
<1>2. ASSUME NEW p \in FleRequests, Fle!Step(p) PROVE FleetsInv'
  <2>1. ~Fle!bindNodeToFleet(p) /\ ~Fle!requeuePinnedOffFleet(p)
    BY DEF FleetsInv, RequestOK, Fle!bindNodeToFleet, Fle!requeuePinnedOffFleet
  <2> QED
    BY <1>2, <2>1, ReadingStep, UnbindStep, InsertStep, SweepRowStep DEF Fle!Step
<1>3. ASSUME NEW p \in FleRequests, Fle!Begin(p) PROVE FleetsInv'
  <2>1. /\ \A f \in FleetIds : ~Fle!revokeAgain(p, f)
        /\ \A n \in FleNodes : ~Fle!Unbind(p, n) /\ \A f \in FleetIds : ~Fle!fleetForToken(p, n, f)
    BY DEF Undisturbed, FleetsInv, FleetTypes, Fle!revokeAgain, Fle!Unbind, Fle!fleetForToken
  <2> QED
    BY <1>3, <2>1, ReadingStep, RevokeStep DEF Fle!Begin
<1>4. ASSUME NEW d \in Deps PROVE ~Fle!Flip(d)
  BY DEF Undisturbed, FleetsInv, FleetTypes, Fle!Flip
<1> QED
  BY <1>1, <1>2, <1>3, <1>4, ClaimPinnedStep DEF Fle!Next, Fle!Beat, Fle!BeatDone, Fle!bounds, fleVars

\* No deployment has been created and no fleet revoked.
LEMMA FleetsInit == SealsInit => FleetsInv
<1> SUFFICES ASSUME SealsInit PROVE FleetsInv
  OBVIOUS
<1>1. None \notin FleetIds \cup FleNodes
  BY PinsAssumption DEF Fle!FleetsAssumption
<1>2. FleetTypes
  BY DEF SealsInit, Fle!Init, FleetTypes, Fle!AnyRow, Live
<1>3. \A p \in FleRequests : RequestOK(fle_req[p])
  BY DEF SealsInit, Fle!Init, RequestOK, Fle!Idle, Fle!NoRows
<1> QED
  BY <1>1, <1>2, <1>3 DEF SealsInit, Fle!Init, FleetsInv, EmptyOK, HomeOK, OwedOK, Fle!Open, Fle!Live, Live

\* revokeFleet, unbindFleetNodes, failPinnedTo and createDeployment: when the requests under way are done, no
\* deployment of a revoked fleet is queued or runs, whatever heartbeats, creations, sweeps and other revocations
\* came between any two of their statements.
THEOREM RevokedFleetsEnd == ASSUME Undisturbed PROVE SealsSpec => []NothingWaitsOnRevoked
<1>1. FleetsInv /\ [SealsNext]_all => FleetsInv'
  <2>1. [SealsNext]_all => [Fle!Next]_fleVars
    BY DEF SealsNext, HostingOnly, SignedOnly, FleetsOnly, all
  <2> QED
    BY <2>1, FleetsNext
<1>2. FleetsInv => NothingWaitsOnRevoked
  <2> SUFFICES ASSUME FleetsInv PROVE NothingWaitsOnRevoked
    OBVIOUS
  <2>1. Fle!TypeOK
    BY PinsAssumption DEF FleetsInv, FleetTypes, Fle!TypeOK, Fle!FleetsAssumption, Fle!Live, Live
  <2>2. Fle!NothingWaitsOnRevoked
    BY DEF FleetsInv, OwedOK, Owes, Fle!NothingWaitsOnRevoked, Fle!Quiet
  <2> QED
    BY <2>1, <2>2 DEF NothingWaitsOnRevoked
<1> QED
  BY <1>1, <1>2, FleetsInit, PTL DEF SealsSpec
=============================================================================
