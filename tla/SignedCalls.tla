---------------------------- MODULE SignedCalls ----------------------------
(***************************************************************************)
(* Node-signed requests (node-agent signing.ts and request() of index.ts,   *)
(* middleware/node-auth.ts): an agent with a clock of its own signs a        *)
(* request with a timestamp and a fresh nonce, the network may deliver it    *)
(* late, twice or never, and the API checks the timestamp and then, after    *)
(* reading the body and verifying the signature, records the nonce.          *)
(* A request is its nonce.                                                  *)
(***************************************************************************)
EXTENDS Integers, FiniteSets

CONSTANTS
  Reqs, Copies, Isolates, None,
  Skew,               \* the agent's clock minus the API's, in ticks
  WINDOW,             \* NODE_SIGNATURE_WINDOW_MS
  TTL,                \* NODE_REPLAY_TTL_SEC
  DbFails,            \* whether the batch on D1 may fail
  MaxTime, MaxWait,   \* bounds: the clock, and the time between the two checks
  MaxLost             \* bound: calls the network loses

SignedCallsAssumption ==
  /\ None \notin Reqs /\ Skew \in Int /\ {WINDOW, TTL, MaxTime, MaxWait, MaxLost} \subseteq Nat /\ DbFails \in BOOLEAN

VARIABLES
  req,       \* per request: whether it is signed, and its timestamp
  copy,      \* copies the API is handling: the request, the isolate, when the timestamp was checked
  seen,      \* node_nonces: expires_at (0: no row)
  memory,    \* per isolate: seenMemory
  accepted,  \* per request: how often it passed
  offset,    \* clockOffsetMs of the agent
  pending,   \* the request the agent waits for (None: none), and whether it is a retry
  lost, now

vars == <<req, copy, seen, memory, accepted, offset, pending, lost, now>>

Init ==
  /\ req = [r \in Reqs |-> [st |-> "unsigned", ts |-> 0]] /\ copy = [c \in Copies |-> [of |-> None, at |-> 0, iso |-> None]]
  /\ seen = [r \in Reqs |-> 0] /\ memory = [i \in Isolates |-> [r \in Reqs |-> 0]]
  /\ accepted = [r \in Reqs |-> 0] /\ offset = 0 /\ pending = [of |-> None, retry |-> FALSE] /\ lost = 0 /\ now = 1

Sign(r) == req' = [req EXCEPT ![r] = [st |-> "out", ts |-> now + Skew + offset]]

\* signRequest() for a new call
Calls(r) ==
  /\ pending.of = None /\ req[r].st = "unsigned"
  /\ Sign(r) /\ pending' = [of |-> r, retry |-> FALSE]
  /\ UNCHANGED <<copy, seen, memory, accepted, offset, lost, now>>

\* No answer arrived: the call throws, and the loop goes on with a new one.
GivesUp ==
  /\ pending.of # None /\ lost < MaxLost /\ lost' = lost + 1 /\ pending' = [of |-> None, retry |-> FALSE]
  /\ UNCHANGED <<req, copy, seen, memory, accepted, offset, now>>

InWindow(t) == now - t <= WINDOW /\ t - now <= WINDOW

\* requireNode() up to the body
Arrives(c, r, i) ==
  /\ copy[c].of = None /\ req[r].st = "out" /\ InWindow(req[r].ts)
  /\ copy' = [copy EXCEPT ![c] = [of |-> r, at |-> now, iso |-> i]]
  /\ UNCHANGED <<req, seen, memory, accepted, offset, pending, lost, now>>

\* Mutant: the agent takes the API's clock for its offset only after a second refusal.
LearnedOnRetry == IF pending.retry THEN 0 - Skew ELSE offset

\* learnClockOffset()
Learned == 0 - Skew

\* 401 for its timestamp; the agent learns the API's clock from the Date header, and signs again once.
Stale(r) ==
  /\ pending.of = r /\ ~InWindow(req[r].ts)
  /\ offset' = Learned
  /\ \/ /\ ~pending.retry
        /\ \E s \in Reqs : /\ req[s].st = "unsigned"
                           /\ req' = [req EXCEPT ![s] = [st |-> "out", ts |-> now + Skew + offset']]
                           /\ pending' = [of |-> s, retry |-> TRUE]
     \/ /\ pending.retry \/ \A s \in Reqs : req[s].st # "unsigned"
        /\ pending' = [of |-> None, retry |-> FALSE] /\ UNCHANGED req
  /\ UNCHANGED <<copy, seen, memory, accepted, lost, now>>

Swept(rows) == [r \in Reqs |-> IF rows[r] <= now THEN 0 ELSE rows[r]]

Passes(c, r) ==
  /\ accepted' = [accepted EXCEPT ![r] = @ + 1]
  /\ copy' = [copy EXCEPT ![c] = [of |-> None, at |-> 0, iso |-> None]]
  /\ pending' = IF pending.of = r THEN [of |-> None, retry |-> FALSE] ELSE pending

\* Mutant: seconds are added where milliseconds are counted.
ForgetAtMixed == now + 1000 * TTL

ForgetAt == now + TTL

\* Mutant: the row is looked up, and written whatever was found.
KnownOf(r) == FALSE

Known(r) == Swept(seen)[r] # 0

\* seenBefore(): sweep and INSERT in one batch
Records(c) ==
  LET r == copy[c].of
  IN /\ r # None
     /\ \/ ~Known(r) /\ seen' = [Swept(seen) EXCEPT ![r] = ForgetAt] /\ Passes(c, r)
        \/ /\ Known(r) /\ seen' = Swept(seen)
           /\ copy' = [copy EXCEPT ![c] = [of |-> None, at |-> 0, iso |-> None]] /\ UNCHANGED <<accepted, pending>>
     /\ UNCHANGED <<req, memory, offset, lost, now>>

\* D1 fails: the isolate's own memory decides.
RecordsInMemory(c) ==
  LET r == copy[c].of
      i == copy[c].iso
  IN /\ DbFails /\ r # None
     /\ \/ memory[i][r] <= now /\ memory' = [memory EXCEPT ![i][r] = now + TTL] /\ Passes(c, r)
        \/ /\ memory[i][r] > now /\ UNCHANGED <<memory, accepted, pending>>
           /\ copy' = [copy EXCEPT ![c] = [of |-> None, at |-> 0, iso |-> None]]
     /\ UNCHANGED <<req, seen, offset, lost, now>>

Tick ==
  /\ now < MaxTime /\ \A c \in Copies : copy[c].of # None => now - copy[c].at < MaxWait
  /\ now' = now + 1
  /\ UNCHANGED <<req, copy, seen, memory, accepted, offset, pending, lost>>

Next ==
  \/ \E r \in Reqs : Calls(r) \/ Stale(r) \/ \E c \in Copies, i \in Isolates : Arrives(c, r, i)
  \/ \E c \in Copies : Records(c) \/ RecordsInMemory(c)
  \/ GivesUp \/ Tick

Spec == Init /\ [][Next]_vars

\* The agent's loop goes on, and what it sends is handled; copies may still be late.
Fairness ==
  /\ WF_vars(\E r \in Reqs : Calls(r)) /\ WF_vars(\E r \in Reqs : Stale(r))
  /\ WF_vars(\E r \in Reqs, c \in Copies, i \in Isolates : pending.of = r /\ Arrives(c, r, i))
  /\ \A c \in Copies : WF_vars(Records(c))

FairSpec == Spec /\ Fairness

-----------------------------------------------------------------------------
(* Properties. *)

TypeOK ==
  /\ \A r \in Reqs : req[r].st \in {"unsigned", "out"} /\ req[r].ts \in Int
  /\ \A r \in Reqs : seen[r] \in 0 .. now + TTL /\ accepted[r] \in Nat
  /\ \A c \in Copies : copy[c].at \in 0 .. now

\* "a (node, nonce) pair is accepted once", however often and late its copies arrive, in whatever isolates.
AcceptedOnce == \A r \in Reqs : accepted[r] <= 1

Through == \E r \in Reqs : accepted[r] > 0

\* A clock that is off, by however much, shuts no agent out: a call gets through once the network stops losing them.
Heard == <>Through

=============================================================================
