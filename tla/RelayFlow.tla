----------------------------- MODULE RelayFlow -----------------------------
(***************************************************************************)
(* The body of one relayed request, both ways: StreamHub.pump() and the     *)
(* response chain (relay/hub.ts), onBody(), queue() and pump() of the       *)
(* agent's RelayClient (node-agent/relay.ts).                               *)
(*                                                                         *)
(* Sizes count units; a frame holds at most FRAME of them and a sender has  *)
(* at most WINDOW unacknowledged.  The caller sends Upload units, cut as    *)
(* its reads happen to be, and the app answers with Download units.  The    *)
(* socket is in order; what closes it is in Relay.                          *)
(***************************************************************************)
EXTENDS Naturals, Functions, Sequences

CONSTANTS
  FRAME,      \* MAX_FRAME_BYTES
  WINDOW,     \* WINDOW_BYTES
  Caps,       \* BODY_CAP_BYTES: the hub's follows the traffic class, the node's the deployment's kind
  Upload, Download,
  Early,      \* whether the app may answer before it has read the whole request
  Cuts        \* whether the caller may go away, or a timer fire

RelayFlowAssumption ==
  /\ FRAME \in Nat \ {0} /\ WINDOW \in Nat /\ 2 * FRAME <= WINDOW
  /\ Caps \subseteq Nat /\ Upload \in Nat /\ Download \in Nat /\ Early \in BOOLEAN /\ Cuts \in BOOLEAN

VARIABLES
  hub,      \* the hub's stream: open, the cap, whether the head is here, bytes unacked, the part that waits for the
            \* window, bytes read from the caller, end sent
  chain,    \* the response writes chained to the caller's stream
  toNode, toHub,
  node,     \* the agent's stream: open, the cap, bytes received and unacked, end seen, the writes to the app
            \* that have not called back, and of the response the bytes queued and in flight, the batch
            \* timer and whether it is due, whether the app's stream is paused, whether it has ended
  app,      \* bytes the app has read, bytes it has sent, whether it answered, whether it saw the end
  caller    \* bytes the caller received, and how its response ended

vars == <<hub, chain, toNode, toHub, node, app, caller>>

F(t, n) == [t |-> t, n |-> n]

\* The request was just sent and accepted.
Init ==
  /\ \E c \in Caps : hub = [open |-> TRUE, cap |-> c, head |-> FALSE, unacked |-> 0, part |-> 0, read |-> 0, ended |-> FALSE]
  /\ chain = <<>> /\ toNode = <<>> /\ toHub = <<>>
  /\ \E c \in Caps : node = [open |-> TRUE, cap |-> c, received |-> 0, unacked |-> 0, reqDone |-> FALSE, writes |-> <<>>,
                              queued |-> 0, inflight |-> 0, timer |-> FALSE, due |-> FALSE, paused |-> FALSE, ended |-> FALSE]
  /\ app = [got |-> 0, sent |-> 0, head |-> FALSE, whole |-> FALSE]
  /\ caller = [got |-> 0, end |-> "open"]

-----------------------------------------------------------------------------
(* The hub: request body. *)

Least(a, b) == IF a <= b THEN a ELSE b

\* forget(), with the caller's answer: an error before the head, a cut body after it.
HubFails ==
  /\ hub' = [hub EXCEPT !.open = FALSE, !.part = 0]
  /\ chain' = IF hub.head THEN Append(chain, F("abort", 0)) ELSE chain
  /\ caller' = IF hub.head THEN caller ELSE [caller EXCEPT !.end = "error"]

\* Mutant: a read goes out as it came.
PartSizesUncut == 1 .. Upload - hub.read

\* chunks()
PartSizes == 1 .. Least(FRAME, Upload - hub.read)

\* pump(): the next part of the body; over the cap the stream fails and the node is told.
ReadPart(n) ==
  /\ hub.open /\ hub.part = 0 /\ n \in PartSizes
  /\ \/ /\ hub.read + n <= hub.cap
        /\ hub' = [hub EXCEPT !.part = n, !.read = @ + n]
        /\ UNCHANGED <<chain, toNode, caller>>
     \/ /\ hub.read + n > hub.cap /\ HubFails
        /\ toNode' = Append(toNode, F("cancel", 0))
  /\ UNCHANGED <<toHub, node, app>>

\* window()
Fits(n) == hub.unacked + n <= WINDOW

SendPart ==
  /\ hub.open /\ hub.part > 0 /\ Fits(hub.part)
  /\ toNode' = Append(toNode, F("data", hub.part))
  /\ hub' = [hub EXCEPT !.unacked = @ + hub.part, !.part = 0]
  /\ UNCHANGED <<chain, toHub, node, app, caller>>

BodySent == hub.read = Upload /\ hub.part = 0

SendEnd ==
  /\ hub.open /\ ~hub.ended /\ BodySent
  /\ hub' = [hub EXCEPT !.ended = TRUE] /\ toNode' = Append(toNode, F("end", 0))
  /\ UNCHANGED <<chain, toHub, node, app, caller>>

\* cancel() and the timers: the caller went away, or the stream was idle.
Cut ==
  /\ Cuts /\ hub.open /\ HubFails
  /\ toNode' = Append(toNode, F("cancel", 0))
  /\ UNCHANGED <<toHub, node, app>>

-----------------------------------------------------------------------------
(* The hub: response body. *)

\* Mutant: end closes the body at once.
HubEndsEarly ==
  /\ hub' = [hub EXCEPT !.open = FALSE, !.part = 0] /\ chain' = <<F("close", 0)>> \o chain
  /\ UNCHANGED caller

\* "end": the close is chained after the writes, and the stream forgotten.
HubEnds ==
  /\ hub' = [hub EXCEPT !.open = FALSE, !.part = 0] /\ chain' = Append(chain, F("close", 0))
  /\ UNCHANGED caller

\* onMessage(); a frame for a forgotten stream is dropped.
HubReceives ==
  LET f == Head(toHub)
  IN /\ toHub # <<>> /\ toHub' = Tail(toHub)
     /\ \/ ~hub.open /\ UNCHANGED <<hub, chain, caller>>
        \/ hub.open /\ f.t = "res" /\ hub' = [hub EXCEPT !.head = TRUE] /\ UNCHANGED <<chain, caller>>
        \/ hub.open /\ f.t = "data" /\ hub.head /\ chain' = Append(chain, f) /\ UNCHANGED <<hub, caller>>
        \/ hub.open /\ f.t = "end" /\ HubEnds
        \/ hub.open /\ f.t = "err" /\ HubFails
        \/ /\ hub.open /\ f.t = "ack" /\ UNCHANGED <<chain, caller>>
           /\ hub' = [hub EXCEPT !.unacked = IF f.n >= @ THEN 0 ELSE @ - f.n]
     /\ UNCHANGED <<toNode, node, app>>

\* The caller takes what is next in the chain; a write that went through is acknowledged while the stream is open.
CallerReads ==
  LET f == Head(chain)
  IN /\ chain # <<>> /\ caller.end = "open" /\ chain' = Tail(chain)
     /\ \/ /\ f.t = "data" /\ caller' = [caller EXCEPT !.got = @ + f.n]
           /\ toNode' = IF hub.open THEN Append(toNode, F("ack", f.n)) ELSE toNode
        \/ f.t = "close" /\ caller' = [caller EXCEPT !.end = "whole"] /\ UNCHANGED toNode
        \/ f.t = "abort" /\ caller' = [caller EXCEPT !.end = "cut"] /\ UNCHANGED toNode
     /\ UNCHANGED <<hub, toHub, node, app>>

-----------------------------------------------------------------------------
(* The agent: response body. *)

\* What the window leaves room for.
Room(d) == IF d.inflight < WINDOW THEN WINDOW - d.inflight ELSE 0

\* The loop of pump() sends full frames while the window allows,
Fulls(d) == Least(d.queued \div FRAME, Room(d) \div FRAME)

\* and then the tail, when the batch is due or the response ended, if it fits.
Rest(d) == d.queued - FRAME * Fulls(d)
TailOf(d) ==
  IF (d.due \/ d.ended) /\ Rest(d) < FRAME /\ FRAME * Fulls(d) + Rest(d) <= Room(d) THEN Rest(d) ELSE 0

Frames(d) == [i \in 1 .. Fulls(d) |-> F("data", FRAME)] \o (IF TailOf(d) > 0 THEN <<F("data", TailOf(d))>> ELSE <<>>)

Resumed(d) == d.paused /\ ~(~d.ended /\ d.inflight + d.queued < WINDOW)

\* pump(): the frames, the timer cleared when nothing is left, end and close, or the app's stream resumed.
Pump(d) ==
  LET sent == FRAME * Fulls(d) + TailOf(d)
      e == [d EXCEPT !.queued = @ - sent, !.inflight = @ + sent]
      g == IF e.queued = 0 THEN [e EXCEPT !.due = FALSE, !.timer = FALSE] ELSE e
      over == g.ended /\ g.queued = 0
  IN /\ toHub' = toHub \o Frames(d) \o (IF over THEN <<F("end", 0)>> ELSE <<>>)
     /\ node' = [g EXCEPT !.open = ~over, !.paused = Resumed(g)]

\* onResponse()
AppAnswers ==
  /\ node.open /\ ~app.head /\ (Early \/ app.whole)
  /\ app' = [app EXCEPT !.head = TRUE]
  /\ toHub' = Append(toHub, F("res", 0))
  /\ UNCHANGED <<hub, chain, toNode, node, caller>>

\* queue(): a chunk from the app, which may be larger than a frame.
AppSends(n) ==
  /\ node.open /\ app.head /\ ~node.paused /\ n \in 1 .. Least(FRAME + 1, Download - app.sent)
  /\ app' = [app EXCEPT !.sent = @ + n]
  /\ Pump([node EXCEPT !.queued = @ + n, !.paused = node.inflight + node.queued + n >= WINDOW,
                       !.timer = ~node.due])
  /\ UNCHANGED <<hub, chain, toNode, caller>>

\* The batch timer.
BatchDue ==
  /\ node.open /\ node.timer
  /\ Pump([node EXCEPT !.timer = FALSE, !.due = TRUE])
  /\ UNCHANGED <<hub, chain, toNode, app, caller>>

\* The response is complete ("end" reaches a stream that flows).
AppEnds ==
  /\ node.open /\ app.head /\ ~node.ended /\ ~node.paused /\ app.sent = Download
  /\ Pump([node EXCEPT !.ended = TRUE])
  /\ UNCHANGED <<hub, chain, toNode, app, caller>>

-----------------------------------------------------------------------------
(* The agent: request body. *)

\* close(st, "too_large")
NodeFails == node' = [node EXCEPT !.open = FALSE] /\ toHub' = Append(toHub, F("err", 0))

\* onMessage(), onHub(), onBody(); a frame for a stream that is gone is dropped.
NodeReceives ==
  LET f == Head(toNode)
  IN /\ toNode # <<>> /\ toNode' = Tail(toNode)
     /\ \/ ~node.open /\ UNCHANGED <<toHub, node>>
        \/ /\ node.open /\ f.t = "data" /\ ~node.reqDone /\ node.received + f.n > node.cap /\ NodeFails
        \/ /\ node.open /\ f.t = "data" /\ ~node.reqDone /\ node.received + f.n <= node.cap /\ UNCHANGED toHub
           /\ node' = [node EXCEPT !.received = @ + f.n, !.writes = Append(@, f)]
        \/ /\ node.open /\ f.t = "end" /\ UNCHANGED toHub
           /\ node' = [node EXCEPT !.reqDone = TRUE, !.writes = Append(@, f)]
        \/ /\ node.open /\ f.t = "ack"
           /\ Pump([node EXCEPT !.inflight = IF f.n >= @ THEN 0 ELSE @ - f.n])
        \/ node.open /\ f.t = "cancel" /\ node' = [node EXCEPT !.open = FALSE] /\ UNCHANGED toHub
     /\ UNCHANGED <<hub, chain, app, caller>>

\* Mutant: the agent acknowledges a whole window at a time.
AckAtWindow(u) == u >= WINDOW

\* One acknowledgement for at least a frame's worth of bytes.
AckAt(u) == u >= FRAME

\* The app reads the next write, whose callback runs.
AppReads ==
  LET f == Head(node.writes)
      u == node.unacked + f.n
  IN /\ node.open /\ node.writes # <<>>
     /\ app' = IF f.t = "end" THEN [app EXCEPT !.whole = TRUE] ELSE [app EXCEPT !.got = @ + f.n]
     /\ node' = [node EXCEPT !.writes = Tail(@), !.unacked = IF AckAt(u) THEN 0 ELSE u]
     /\ toHub' = IF AckAt(u) THEN Append(toHub, F("ack", u)) ELSE toHub
     /\ UNCHANGED <<hub, chain, toNode, caller>>

Progress ==
  \/ \E n \in 1 .. Upload : ReadPart(n)
  \/ SendPart \/ SendEnd
  \/ HubReceives \/ CallerReads
  \/ AppAnswers \/ \E n \in 1 .. FRAME + 1 : AppSends(n)
  \/ BatchDue \/ AppEnds \/ NodeReceives \/ AppReads

Next == Progress \/ Cut

Spec == Init /\ [][Next]_vars

\* Both ends, the socket, the app and the caller go on while they can.  Every step uses up some of the two bodies, so
\* behaviours are finite and fairness of the whole says as much as fairness of each part.
Fairness == WF_vars(Progress)

FairSpec == Spec /\ Fairness

-----------------------------------------------------------------------------
(* Properties. *)

Bytes(chan) == SumFunctionOnSet([i \in DOMAIN chan |-> IF chan[i].t = "data" THEN chan[i].n ELSE 0], DOMAIN chan)

TypeOK ==
  /\ hub.open \in BOOLEAN /\ hub.part \in 0 .. FRAME /\ hub.read \in 0 .. Upload /\ hub.unacked \in Nat
  /\ node.open \in BOOLEAN /\ node.queued \in 0 .. Download /\ node.inflight \in 0 .. Download
  /\ caller.end \in {"open", "error", "cut", "whole"} /\ app.got \in 0 .. Upload /\ app.sent \in 0 .. Download

\* WINDOW_BYTES bounds what is really outstanding: request bytes on the way to the app, and response bytes on the
\* way to the caller, however the acknowledgements are batched or delayed.
WithinWindow ==
  /\ Bytes(toNode) + Bytes(node.writes) <= WINDOW
  /\ node.open => Bytes(toHub) + Bytes(chain) <= WINDOW

\* A caller that sees the response end normally has the whole of it; an app that sees the request end has all of it.
NothingMissing ==
  /\ caller.end = "whole" => caller.got = Download
  /\ app.whole => app.got = Upload

Completed == ~hub.open /\ ~node.open /\ caller.end # "open"

\* "The hub stalls only with more than WINDOW - 64 KiB unacked, so a 64 KiB threshold always fires first": neither
\* direction stalls, however small or uneven the parts are, and the exchange ends on both sides.
Completes == <>[]Completed

=============================================================================
