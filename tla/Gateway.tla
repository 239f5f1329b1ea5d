------------------------------ MODULE Gateway ------------------------------
(***************************************************************************)
(* The gateway (gateway/src/index.ts) in front of one deployment: requests   *)
(* look its route up (publicRoute() of the API, cached ROUTE_TTL_SECONDS),   *)
(* check an endpoint key against the route, answer from the static cache or  *)
(* from the node, and store both answers after the response (waitUntil).     *)
(* Meanwhile the deployment is stopped or moved and keys are revoked.  What  *)
(* a relay does with a request, and the choice among replicas, is Relay's.   *)
(***************************************************************************)
EXTENDS Naturals

CONSTANTS
  Nodes, Bad,         \* the nodes, and those that serve something else than the site
  Keys, None,
  Requests,           \* requests handled at the same time
  ROUTE_TTL, STATIC_TTL,
  MaxLag,             \* bound: from a request's start to its last store
  MaxTime,
  MaxMoves            \* bound: stops, re-queues and revocations

\* Of deployments: two that are relayed, and a legacy one with an origin of its own.
Kinds == {"static", "endpoint", "direct"}

GatewayAssumption ==
  /\ Bad \subseteq Nodes /\ None \notin Nodes \cup Keys
  /\ {ROUTE_TTL, STATIC_TTL, MaxLag, MaxTime, MaxMoves} \subseteq Nat /\ ROUTE_TTL > 0

VARIABLES
  dep,       \* the row: kind, status, node, when it last left a node or ended
  moves,
  revoked,   \* per endpoint key: revoked_at (0: live)
  routes,    \* the route cache: [route, until]
  static,    \* the static cache: [body, until]
  req,
  last       \* the last answer with content: what, with which key, when
vars == <<dep, moves, revoked, routes, static, req, last>>

NoRoute == [st |-> "none", node |-> None, keys |-> {}]
IdleReq == [pc |-> "idle", key |-> None, route |-> NoRoute, put |-> FALSE, body |-> "none", at |-> 0]

\* An endpoint's own row has no node: its replicas do.
Init ==
  /\ \E n \in Nodes \cup {None}, kind \in Kinds :
       (n = None <=> kind = "endpoint") /\ dep = [kind |-> kind, st |-> "running", node |-> n, left |-> 0]
  /\ moves = 0 /\ revoked = [k \in Keys |-> 0]
  /\ routes = [route |-> NoRoute, until |-> 0] /\ static = [body |-> "none", until |-> 0]
  /\ req = [q \in Requests |-> IdleReq] /\ last = [body |-> "none", key |-> None, at |-> 1]

\* No clock variable: the last answer's time is now until time passes.
now == last.at

-----------------------------------------------------------------------------
(* The deployment and its keys. *)

Moves == moves < MaxMoves /\ moves' = moves + 1 /\ UNCHANGED <<routes, static, req, last>>
Leaves == Moves /\ UNCHANGED revoked

Stop == dep.st # "stopped" /\ dep' = [dep EXCEPT !.st = "stopped", !.node = None, !.left = now] /\ Leaves
Requeue ==
  /\ dep.st = "running" /\ dep.node # None
  /\ dep' = [dep EXCEPT !.st = "queued", !.node = None, !.left = now] /\ Leaves
Start(n) ==
  /\ dep.st = "queued" /\ dep' = [dep EXCEPT !.st = "running", !.node = n]
  /\ UNCHANGED <<moves, revoked, routes, static, req, last>>

revokeKey(k) ==
  /\ dep.kind = "endpoint" /\ revoked[k] = 0 /\ revoked' = [revoked EXCEPT ![k] = now]
  /\ Moves /\ UNCHANGED dep

-----------------------------------------------------------------------------
(* lookupRoute() *)

Set(q, r) == req' = [req EXCEPT ![q] = r]

\* Only an endpoint reads the key.
Arrives(q, k) ==
  /\ req[q] = IdleReq /\ (k = None <=> dep.kind # "endpoint")
  /\ Set(q, IF routes.until > now THEN [IdleReq EXCEPT !.pc = "routed", !.key = k, !.route = routes.route, !.at = now]
            ELSE [IdleReq EXCEPT !.pc = "asks", !.key = k, !.at = now])
  /\ UNCHANGED <<dep, moves, revoked, routes, static, last>>

\* publicRoute(): the row (of an endpoint, its replicas),
ReadsRow(q) ==
  /\ req[q].pc = "asks"
  /\ Set(q, [req[q] EXCEPT !.pc = IF dep.kind = "endpoint" THEN "keys" ELSE "answered",
                           !.route = [st |-> dep.st, node |-> dep.node, keys |-> {}]])
  /\ UNCHANGED <<dep, moves, revoked, routes, static, last>>

\* then the hashes of its live keys.
liveKeyHashes(q) ==
  /\ req[q].pc = "keys"
  /\ Set(q, [req[q] EXCEPT !.pc = "answered", !.route.keys = {k \in Keys : revoked[k] = 0}])
  /\ UNCHANGED <<dep, moves, revoked, routes, static, last>>

\* No answer in time: 503, and nothing is cached.
ApiUnavailable(q) ==
  /\ req[q].pc \in {"asks", "keys", "answered"} /\ Set(q, IdleReq)
  /\ UNCHANGED <<dep, moves, revoked, routes, static, last>>

\* The answer arrives; its store goes on behind the request.
Routed(q) ==
  /\ req[q].pc = "answered" /\ Set(q, [req[q] EXCEPT !.pc = "routed", !.put = TRUE])
  /\ UNCHANGED <<dep, moves, revoked, routes, static, last>>

\* Mutant: routes are kept like static files.
RouteUntilStatic == now + STATIC_TTL

RouteUntil == now + ROUTE_TTL

PutsRoute(q) ==
  /\ req[q].put /\ routes' = [route |-> req[q].route, until |-> RouteUntil]
  /\ Set(q, IF req[q].pc = "ended" /\ req[q].body = "none" THEN IdleReq ELSE [req[q] EXCEPT !.put = FALSE])
  /\ UNCHANGED <<dep, moves, revoked, static, last>>

-----------------------------------------------------------------------------
(* handle() once the route is known *)

\* The request is over; a store may still be under way.
Over(q, body) ==
  Set(q, IF req[q].put \/ body # "none" THEN [req[q] EXCEPT !.pc = "ended", !.body = body] ELSE IdleReq)

\* Mutant: any key is let through while the endpoint has a live one.
authorizedKeyAny(q) == dep.kind = "endpoint" => req[q].route.keys # {}

authorizedKey(q) == dep.kind = "endpoint" => req[q].key \in req[q].route.keys

\* 404, 503 or 401
Refuses(q) ==
  /\ req[q].pc = "routed" /\ (req[q].route.st # "running" \/ ~authorizedKey(q))
  /\ Over(q, "none") /\ UNCHANGED <<dep, moves, revoked, routes, static, last>>

Admitted(q) == req[q].pc = "routed" /\ req[q].route.st = "running" /\ authorizedKey(q)

\* Mutant: a direct origin's answers are cached too.
CacheableAny == dep.kind # "endpoint"

\* Only a relayed site's.
Cacheable == dep.kind = "static"

Answers(body, q) == last' = [body |-> body, key |-> req[q].key, at |-> now]

\* Mutant: a hit is stored again.
StoredOnHit(q) == static.body

\* What is stored after a hit: nothing.
StoredAfterHit(q) == "none"

Hits(q) ==
  /\ Admitted(q) /\ Cacheable /\ static.until > now
  /\ Answers(static.body, q) /\ Over(q, StoredAfterHit(q))
  /\ UNCHANGED <<dep, moves, revoked, routes, static>>

\* What the route's node answers: a relayed one answers for this deployment only, as long as it has not been told to
\* stop; a direct origin is whoever has the port now.
AnswerOf(n) ==
  IF n \in Bad THEN {"wrong"}
  ELSE IF dep.kind = "direct" /\ (dep.st # "running" \/ dep.node # n) THEN {"own", "wrong"} ELSE {"own"}

Serves(q) ==
  /\ Admitted(q) /\ (Cacheable => static.until <= now)
  /\ \E b \in AnswerOf(req[q].route.node) : Answers(b, q) /\ Over(q, IF Cacheable THEN b ELSE "none")
  /\ UNCHANGED <<dep, moves, revoked, routes, static>>

\* The node is gone or does not serve it any more.
Unreachable(q) ==
  /\ Admitted(q) /\ (Cacheable => static.until <= now) /\ Over(q, "none")
  /\ UNCHANGED <<dep, moves, revoked, routes, static, last>>

PutsStatic(q) ==
  /\ req[q].pc = "ended" /\ req[q].body # "none"
  /\ static' = [body |-> req[q].body, until |-> now + STATIC_TTL]
  /\ Set(q, IF req[q].put THEN [req[q] EXCEPT !.body = "none"] ELSE IdleReq)
  /\ UNCHANGED <<dep, moves, revoked, routes, last>>

Tick ==
  /\ now < MaxTime /\ \A q \in Requests : req[q] = IdleReq \/ now - req[q].at < MaxLag
  /\ last' = [body |-> "none", key |-> None, at |-> now + 1]
  /\ UNCHANGED <<dep, moves, revoked, routes, static, req>>

Next ==
  \/ Stop \/ Requeue \/ \E n \in Nodes : Start(n)
  \/ \E k \in Keys : revokeKey(k)
  \/ \E q \in Requests : \/ \E k \in Keys \cup {None} : Arrives(q, k)
                         \/ ReadsRow(q) \/ liveKeyHashes(q) \/ ApiUnavailable(q) \/ Routed(q) \/ PutsRoute(q)
                         \/ Refuses(q) \/ Hits(q) \/ Serves(q) \/ Unreachable(q) \/ PutsStatic(q)
  \/ Tick

Spec == Init /\ [][Next]_vars

-----------------------------------------------------------------------------
(* Properties. *)

TypeOK ==
  /\ dep.st \in {"running", "queued", "stopped"} /\ dep.left <= now
  /\ routes.until <= now + ROUTE_TTL /\ static.until <= now + STATIC_TTL
  /\ \A q \in Requests : req[q].pc \in {"idle", "asks", "keys", "answered", "routed", "ended"}

\* A stopped deployment is served no longer than the route cache allows, however lookups and late stores overlap:
\* the lag of the lookup that read the old row, and of the request that found it cached, come on top.
StoppedIsGone ==
  last.body # "none" /\ dep.st = "stopped" => now < dep.left + ROUTE_TTL + 2 * MaxLag

\* A revoked endpoint key is let through no longer than that, and a key that is not the endpoint's never.
RevokedKeyIsOut ==
  last.body # "none" /\ last.key # None /\ dep.kind = "endpoint"
    => revoked[last.key] = 0 \/ now < revoked[last.key] + ROUTE_TTL + 2 * MaxLag

\* What a bad node served, or another tenant on a port the deployment had, disappears: once the deployment runs on a
\* good node again, within the route's and (relayed sites only) the static cache's time.
WrongIsGone ==
  last.body = "wrong" /\ dep.st = "running" /\ dep.node \notin Bad
    => now < dep.left + ROUTE_TTL + 2 * MaxLag + (IF dep.kind = "static" THEN STATIC_TTL ELSE 0)

=============================================================================
