------------------------------- MODULE Relay -------------------------------
(***************************************************************************)
(* Requests over the relay: the gateway's retry loop (gateway/index.ts),   *)
(* one RelayNode object per node with its StreamHub (relay/node.ts,         *)
(* relay/hub.ts), and the agent's RelayClient (node-agent/relay.ts).        *)
(*                                                                         *)
(* A socket carries frames in order, each way; the sockets a node opened    *)
(* are numbered, and a replaced one may still hold frames.  Ids are per     *)
(* hub and start at 1 in every hub.  Bodies are in RelayFlow.  A frame      *)
(* carries the request it is about (r), which only the properties read.     *)
(***************************************************************************)
EXTENDS Naturals, FiniteSets, FiniteSetsExt, Sequences

CONSTANTS
  Nodes, None,
  Visitors, Probes,   \* requests through the gateway, checks by the API
  Streamed,           \* visitors' requests whose body cannot be replayed
  DepOf,              \* per request: the deployment asked for
  MAX_STREAMS, MAX_STREAMS_PER_DEP, PROBE_SLOTS,
  MaxSockets,         \* bound: sockets a node opens
  MaxKicks,           \* bound: kicks and hibernations
  Stalls              \* whether frames may be under way for longer than the
                      \* quiet time after which an object hibernates

Reqs == Visitors \cup Probes
Socks == 1 .. MaxSockets
RETRYABLE == {"offline", "not_serving", "busy"}

RelayAssumption ==
  /\ Streamed \subseteq Visitors /\ Visitors \cap Probes = {} /\ DOMAIN DepOf = Reqs
  /\ None \notin Nodes \cup Reqs /\ MAX_STREAMS \in Nat /\ MAX_STREAMS_PER_DEP \in Nat
  /\ PROBE_SLOTS \in 0 .. MAX_STREAMS /\ MaxSockets \in Nat /\ MaxKicks \in Nat /\ Stalls \in BOOLEAN

VARIABLES
  req,     \* per request: where its caller is (pc), the node asked (at), the nodes left to try, the last
           \* error, and what it received (got)
  cur,     \* per node: the newest socket its object accepted, and whether it is open
  hub,     \* per node: the object's StreamHub: its socket, next id, open streams
  toNode, toHub,   \* per node and socket: frames under way
  ws,      \* per node: the agent's socket, 0 for none
  streams, \* per node: the agent's streams
  ran,     \* per request: the nodes whose app has handled it
  kicks

vars == <<req, cur, hub, toNode, toHub, ws, streams, ran, kicks>>

NoHub == [sock |-> 0, next |-> 1, open |-> {}]
Frame(t, s, r, code) == [t |-> t, s |-> s, r |-> r, code |-> code]
Close == Frame("close", 0, None, "")

Init ==
  /\ req = [r \in Reqs |-> [pc |-> "new", at |-> None, left |-> {}, err |-> "", got |-> {}]]
  /\ cur = [n \in Nodes |-> [sock |-> 0, open |-> FALSE]]
  /\ hub = [n \in Nodes |-> NoHub]
  /\ toNode = [n \in Nodes |-> [k \in Socks |-> <<>>]] /\ toHub = [n \in Nodes |-> [k \in Socks |-> <<>>]]
  /\ ws = [n \in Nodes |-> 0] /\ streams = [n \in Nodes |-> {}]
  /\ ran = [r \in Reqs |-> {}] /\ kicks = 0

Push(chan, n, k, frames) == [chan EXCEPT ![n][k] = @ \o frames]
Pop(chan, n, k) == [chan EXCEPT ![n][k] = Tail(@)]

-----------------------------------------------------------------------------
(* What an error does to its caller. *)

\* fail(): before the head an error answer, which the gateway may retry; after it the body is cut short.
Failed(x, code) ==
  IF x.pc = "wait"
  THEN [x EXCEPT !.pc = IF code \in RETRYABLE /\ x.left # {} THEN "try" ELSE "error", !.err = code]
  ELSE [x EXCEPT !.pc = "cut"]
FailAll(S, code) == [r \in Reqs |-> IF r \in S THEN Failed(req[r], code) ELSE req[r]]
CallersOf(n) == {st.r : st \in hub[n].open}

\* Mutant: the streams are forgotten with the hub.
DropHubQuietly(n) == UNCHANGED req /\ hub' = [hub EXCEPT ![n] = NoHub]

\* onClose() of the object's hub, and the hub is forgotten.
DropHub(n) == /\ req' = FailAll(CallersOf(n), "offline") /\ hub' = [hub EXCEPT ![n] = NoHub]

-----------------------------------------------------------------------------
(* A request: the gateway asks one node after another; a probe asks one. *)

Arrive(r, n) ==
  /\ req[r].pc = "new"
  /\ req' = [req EXCEPT ![r].pc = "try", ![r].left = IF r \in Probes \cup Streamed THEN {n} ELSE Nodes]
  /\ UNCHANGED <<cur, hub, toNode, toHub, ws, streams, ran, kicks>>

\* Mutant: no slot is kept for probes.
RefusesAlike(h, r) ==
  \/ Cardinality(h.open) >= MAX_STREAMS
  \/ r \notin Probes /\ Cardinality({st \in h.open : DepOf[st.r] = DepOf[r]}) >= MAX_STREAMS_PER_DEP

Refuses(h, r) ==
  \/ Cardinality(h.open) >= IF r \in Probes THEN MAX_STREAMS ELSE MAX_STREAMS - PROBE_SLOTS
  \/ r \notin Probes /\ Cardinality({st \in h.open : DepOf[st.r] = DepOf[r]}) >= MAX_STREAMS_PER_DEP

\* id(): the next one that is not in use.  It wraps after 2^32 requests on one socket, never within the bounds here.
NewId(h) == Min({i \in h.next .. h.next + Cardinality(h.open) : \A st \in h.open : st.s # i})

\* hubFor(): a socket other than the hub's gets a hub of its own.
HubFor(n) == IF hub[n].sock = cur[n].sock THEN hub[n] ELSE [NoHub EXCEPT !.sock = cur[n].sock]

\* /proxy of the node's object: offline, busy, or a stream is opened and the request sent.
Proxy(r, n) ==
  LET h == HubFor(n)
      s == NewId(h)
      asked == [req[r] EXCEPT !.pc = "wait", !.at = n, !.left = @ \ {n}]
      code == IF ~cur[n].open THEN "offline" ELSE "busy"
  IN /\ req[r].pc = "try" /\ n \in req[r].left
     /\ \/ /\ ~cur[n].open \/ Refuses(h, r)
           /\ req' = [req EXCEPT ![r] = Failed(asked, code)]
           /\ UNCHANGED <<hub, toNode>>
        \/ /\ cur[n].open /\ ~Refuses(h, r)
           /\ req' = [req EXCEPT ![r] = asked]
           /\ hub' = [hub EXCEPT ![n] = [h EXCEPT !.next = s + 1, !.open = @ \cup {[s |-> s, r |-> r]}]]
           /\ toNode' = Push(toNode, n, cur[n].sock, <<Frame("req", s, r, "")>>)
     /\ UNCHANGED <<cur, toHub, ws, streams, ran, kicks>>

-----------------------------------------------------------------------------
(* The hub ends a stream on its own: the caller went away, or a timer fired. *)

Forget(n, st) == hub' = [hub EXCEPT ![n].open = @ \ {st}]
TellNode(n, st) == toNode' = Push(toNode, n, hub[n].sock, <<Frame("cancel", st.s, st.r, "")>>)

\* Mutant: the node is not told.
cancelSilently(n, st) ==
  /\ req' = [req EXCEPT ![st.r].pc = "gone"] /\ Forget(n, st)
  /\ UNCHANGED <<cur, toNode, toHub, ws, streams, ran, kicks>>

cancel(n, st) ==
  /\ req' = [req EXCEPT ![st.r].pc = "gone"] /\ TellNode(n, st) /\ Forget(n, st)
  /\ UNCHANGED <<cur, toHub, ws, streams, ran, kicks>>

\* The head timer (before the head) or the idle timer.
Timeout(n, st) ==
  /\ req' = FailAll({st.r}, "timeout") /\ TellNode(n, st) /\ Forget(n, st)
  /\ UNCHANGED <<cur, toHub, ws, streams, ran, kicks>>

-----------------------------------------------------------------------------
(* The node's object and its sockets. *)

\* Mutant: the hub is replaced and its streams are not failed.
acceptNodeQuietly(n) ==
  /\ ws[n] = 0 /\ cur[n].sock < MaxSockets
  /\ cur' = [cur EXCEPT ![n] = [sock |-> @.sock + 1, open |-> TRUE]]
  /\ ws' = [ws EXCEPT ![n] = cur[n].sock + 1]
  /\ hub' = [hub EXCEPT ![n] = NoHub]
  /\ UNCHANGED <<req, toNode, toHub, streams, ran, kicks>>

\* The agent connects with a fresh ticket: closeAll("replaced"), then the new socket.
acceptNode(n) ==
  /\ ws[n] = 0 /\ cur[n].sock < MaxSockets
  /\ cur' = [cur EXCEPT ![n] = [sock |-> @.sock + 1, open |-> TRUE]]
  /\ ws' = [ws EXCEPT ![n] = cur[n].sock + 1]
  /\ DropHub(n)
  /\ UNCHANGED <<toNode, toHub, streams, ran, kicks>>

\* Mutant: the sockets are closed and the hub is kept.
KickKeepsHub(n) ==
  /\ kicks < MaxKicks /\ cur[n].open
  /\ kicks' = kicks + 1 /\ cur' = [cur EXCEPT ![n].open = FALSE]
  /\ toNode' = Push(toNode, n, cur[n].sock, <<Close>>)
  /\ UNCHANGED <<req, hub, toHub, ws, streams, ran>>

\* /kick: closeAll("kicked").
Kick(n) ==
  /\ kicks < MaxKicks /\ cur[n].open
  /\ kicks' = kicks + 1 /\ cur' = [cur EXCEPT ![n].open = FALSE]
  /\ toNode' = Push(toNode, n, cur[n].sock, <<Close>>)
  /\ DropHub(n)
  /\ UNCHANGED <<toHub, ws, streams, ran>>

\* A quiet object with no stream open loses its memory; its socket stays.
Hibernate(n) ==
  /\ kicks < MaxKicks /\ hub[n].sock # 0 /\ hub[n].open = {} /\ cur[n].open
  /\ Stalls \/ (toNode[n][cur[n].sock] = <<>> /\ toHub[n][cur[n].sock] = <<>>)
  /\ kicks' = kicks + 1 /\ hub' = [hub EXCEPT ![n] = NoHub]
  /\ UNCHANGED <<req, cur, toNode, toHub, ws, streams, ran>>

\* Mutant: any socket of the node speaks for it.
SpeaksAny(n, k) == cur[n].open

\* Only the newest open socket speaks for the node.
Speaks(n, k) == k = cur[n].sock /\ cur[n].open

Got(r, f) == [req EXCEPT ![r].got = @ \cup {f.r}]

\* onMessage() of the hub, for the stream a frame names.
onMessage(n, f, st) ==
  \/ /\ f.t = "res" /\ req' = [Got(st.r, f) EXCEPT ![st.r].pc = "head"] /\ UNCHANGED hub
  \/ /\ f.t = "empty" /\ req' = [Got(st.r, f) EXCEPT ![st.r].pc = "done"] /\ Forget(n, st)
  \/ /\ f.t = "data" /\ req' = (IF req[st.r].pc = "head" THEN Got(st.r, f) ELSE req) /\ UNCHANGED hub
  \/ /\ f.t = "end" /\ Forget(n, st)
     /\ req' = (IF req[st.r].pc = "head" THEN [Got(st.r, f) EXCEPT ![st.r].pc = "done"] ELSE req)
  \/ /\ f.t = "err" /\ req' = FailAll({st.r}, f.code) /\ Forget(n, st)

\* webSocketMessage(): a frame of another socket, or for no open stream, is dropped.
HubReceives(n, k) ==
  LET f == Head(toHub[n][k])
      mine == {st \in HubFor(n).open : st.s = f.s}
  IN /\ toHub[n][k] # <<>> /\ f # Close
     /\ toHub' = Pop(toHub, n, k)
     /\ \/ /\ ~Speaks(n, k) \/ mine = {}
           /\ hub' = IF Speaks(n, k) THEN [hub EXCEPT ![n] = HubFor(n)] ELSE hub
           /\ UNCHANGED req
        \/ /\ Speaks(n, k) /\ \E st \in mine : onMessage(n, f, st)
     /\ UNCHANGED <<cur, toNode, ws, streams, ran, kicks>>

\* Mutant: the close of any socket fails the streams of the hub.
DropsHubAny(n, k) == hub[n].sock # 0

\* dropHub(): only a hub that sends on the socket.
DropsHub(n, k) == hub[n].sock = k

\* webSocketClose(), webSocketError().
HubSeesClose(n, k) ==
  /\ toHub[n][k] # <<>> /\ Head(toHub[n][k]) = Close
  /\ toHub' = Pop(toHub, n, k)
  /\ cur' = IF k = cur[n].sock THEN [cur EXCEPT ![n].open = FALSE] ELSE cur
  /\ IF DropsHub(n, k) THEN DropHub(n) ELSE UNCHANGED <<req, hub>>
  /\ UNCHANGED <<toNode, ws, streams, ran, kicks>>

-----------------------------------------------------------------------------
(* The agent. *)

\* drop(): the agent forgets its socket and its streams; its close reaches the object now, late, or (told = FALSE:
\* the network is gone) never.
Drop(n, told) ==
  /\ ws[n] # 0
  /\ toHub' = IF told THEN Push(toHub, n, ws[n], <<Close>>) ELSE toHub
  /\ ws' = [ws EXCEPT ![n] = 0] /\ streams' = [streams EXCEPT ![n] = {}]
  /\ toNode' = [toNode EXCEPT ![n][ws[n]] = <<>>]
  /\ UNCHANGED <<req, cur, hub, ran, kicks>>

Sends(n, f) == toHub' = Push(toHub, n, ws[n], <<f>>)
Refused(n, f, code) == Sends(n, Frame("err", f.s, f.r, code)) /\ UNCHANGED streams

\* onReq(): a live id, a full agent and a deployment that is not here are refused; here says which it is.
onReq(n, f, here) ==
  LET live == \E st \in streams[n] : st.s = f.s
      full == Cardinality(streams[n]) >= MAX_STREAMS
  IN \/ /\ live /\ UNCHANGED <<toHub, streams>>
     \/ /\ ~live /\ full /\ Refused(n, f, "busy")
     \/ /\ ~live /\ ~full /\ ~here /\ Refused(n, f, "not_serving")
     \/ /\ ~live /\ ~full /\ here /\ UNCHANGED toHub
        /\ streams' = [streams EXCEPT ![n] = @ \cup {[s |-> f.s, r |-> f.r, head |-> FALSE]}]

AgentReceives(n, here) ==
  LET f == Head(toNode[n][ws[n]])
  IN /\ ws[n] # 0 /\ toNode[n][ws[n]] # <<>> /\ f.t # "close"
     /\ toNode' = Pop(toNode, n, ws[n])
     /\ \/ f.t = "req" /\ onReq(n, f, here)
        \/ /\ f.t = "cancel" /\ UNCHANGED toHub
           /\ streams' = [streams EXCEPT ![n] = {st \in @ : st.s # f.s}]
     /\ UNCHANGED <<req, cur, hub, ws, ran, kicks>>

\* The object closed the socket: the close is answered.
AgentSeesClose(n) == /\ ws[n] # 0 /\ toNode[n][ws[n]] # <<>> /\ Head(toNode[n][ws[n]]) = Close /\ Drop(n, TRUE)

\* onResponse(): the app handled the request; a status without a body ends with its head.
AppAnswers(n, st, empty) ==
  /\ ~st.head
  /\ ran' = [ran EXCEPT ![st.r] = @ \cup {n}]
  /\ Sends(n, Frame(IF empty THEN "empty" ELSE "res", st.s, st.r, ""))
  /\ streams' = [streams EXCEPT ![n] = (@ \ {st}) \cup IF empty THEN {} ELSE {[st EXCEPT !.head = TRUE]}]
  /\ UNCHANGED <<req, cur, hub, toNode, ws, kicks>>

\* The body and its end, or the app fails before or after the head.
AppEnds(n, st, t) ==
  /\ t \in {"end", "err"} /\ (t = "end" => st.head)
  /\ toHub' = Push(toHub, n, ws[n], (IF st.head THEN <<Frame("data", st.s, st.r, "")>> ELSE <<>>)
                                      \o <<Frame(t, st.s, st.r, "upstream")>>)
  /\ streams' = [streams EXCEPT ![n] = @ \ {st}]
  /\ UNCHANGED <<req, cur, hub, toNode, ws, ran, kicks>>

Next ==
  \/ \E r \in Reqs, n \in Nodes : Arrive(r, n) \/ Proxy(r, n)
  \/ \E n \in Nodes :
       \/ \E st \in hub[n].open : cancel(n, st) \/ Timeout(n, st)
       \/ acceptNode(n) \/ Kick(n) \/ Hibernate(n)
       \/ \E k \in Socks : HubReceives(n, k) \/ HubSeesClose(n, k)
       \/ \E told \in BOOLEAN : Drop(n, told)
       \/ \E here \in BOOLEAN : AgentReceives(n, here)
       \/ AgentSeesClose(n)
       \/ \E st \in streams[n] : \/ \E empty \in BOOLEAN : AppAnswers(n, st, empty)
                                 \/ \E t \in {"end", "err"} : AppEnds(n, st, t)

Spec == Init /\ [][Next]_vars

\* The gateway asks on its own; a timer that is armed fires.
Fairness ==
  /\ \A r \in Reqs : WF_vars(\E n \in Nodes : Proxy(r, n))
  /\ \A n \in Nodes : WF_vars(\E st \in hub[n].open : Timeout(n, st))

FairSpec == Spec /\ Fairness

-----------------------------------------------------------------------------
(* Properties. *)

TypeOK ==
  /\ \A r \in Reqs : /\ req[r].pc \in {"new", "try", "wait", "head", "done", "error", "cut", "gone"}
                     /\ req[r].at \in Nodes \cup {None} /\ req[r].left \subseteq Nodes
                     /\ req[r].got \subseteq Reqs /\ ran[r] \subseteq Nodes
  /\ \A n \in Nodes : /\ cur[n].sock \in 0 .. MaxSockets /\ ws[n] \in {0, cur[n].sock}
                      /\ hub[n].sock \in {0, cur[n].sock} /\ (hub[n].sock # 0 => cur[n].open)
                      /\ \A st \in hub[n].open : st.s \in 1 .. hub[n].next - 1 /\ st.r \in Reqs
                      /\ Cardinality(hub[n].open) <= MAX_STREAMS /\ Cardinality(streams[n]) <= MAX_STREAMS

\* Ids start at 1 in every hub, so the frames of an earlier socket or of a cancelled stream carry ids that may be in
\* use again: whatever a caller receives was sent for its own request.
OwnAnswer == \A r \in Reqs : req[r].got \subseteq {r}

\* A caller that waits always has an open stream, whose timers end the wait at the latest: no path drops a stream and
\* leaves its promise unresolved.
NoOrphan == \A r \in Reqs : req[r].pc \in {"wait", "head"} => \E n \in Nodes : r \in CallersOf(n)

\* The agent's slots follow the hub's: a stream the agent still holds on the open socket is open at the hub, or its
\* cancel is under way.
SlotsReturned ==
  \A n \in Nodes : ws[n] # 0 /\ cur[n].open => \A st \in streams[n] :
     \/ [s |-> st.s, r |-> st.r] \in hub[n].open
     \/ \E i \in 1 .. Len(toNode[n][ws[n]]) : toNode[n][ws[n]][i].t = "cancel" /\ toNode[n][ws[n]][i].s = st.s

\* PROBE_SLOTS: whatever the visitors' load, neither the hub nor the agent answers busy to a probe, as long as there
\* are no more probes than reserved slots.
ProbeAdmitted == Cardinality(Probes) <= PROBE_SLOTS => \A p \in Probes : req[p].err # "busy"

\* A caller is told offline only when the socket its request went out on closed or was replaced: a stale socket's
\* late close does not hit the new one.
LossIsReal ==
  [][\A n \in Nodes : \A st \in hub[n].open :
       req[st.r].pc = "wait" /\ req'[st.r].pc \in {"try", "error"} /\ req'[st.r].err = "offline" => cur'[n] # cur[n]]_vars

\* RETRYABLE: a request is tried on another node only when it never reached an app, so no two apps handle it.
OneApp == \A r \in Reqs : Cardinality(ran[r]) <= 1

\* Every request ends: with an answer, an error, or a body that is cut short.
AlwaysEnds == \A r \in Reqs : req[r].pc # "new" ~> req[r].pc \in {"done", "error", "cut", "gone"}

=============================================================================
