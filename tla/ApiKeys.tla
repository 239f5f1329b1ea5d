------------------------------ MODULE ApiKeys ------------------------------
(***************************************************************************)
(* Developer API keys (api-keys.service.ts): rows in D1 shared by every      *)
(* isolate, a cache of positive answers in each, and calls that wait for D1  *)
(* between reading and acting, several at a time in one isolate.  A token is *)
(* its key's id.  Scopes are compared with the route after the lookup and    *)
(* keep no state; last_used_at is informational: both are left out.          *)
(***************************************************************************)
EXTENDS Naturals, FiniteSets, FiniteSetsExt

CONSTANTS
  Isolates, Calls, Keys, Owners, None,
  MAX_KEYS_PER_ACCOUNT,
  CacheSecs,            \* API_KEY_CACHE_SECONDS, in ticks
  Lifetimes,            \* what a key may live, in ticks
  MaxTime, MaxWait      \* bounds: the clock, and how long one D1 read takes

ApiKeysAssumption ==
  /\ IsFiniteSet(Keys) /\ None \notin Keys \cup Owners \cup Isolates
  /\ MAX_KEYS_PER_ACCOUNT \in Nat \ {0} /\ CacheSecs \in Nat /\ Lifetimes \subseteq Nat \ {0}
  /\ MaxTime \in Nat /\ MaxWait \in Nat

VARIABLES
  row,      \* api_keys: per key its owner (None: not minted), expires_at and revoked_at
  cache,    \* per isolate and key: until when it is let through without asking D1 (0: no entry)
  calls,    \* what is under way: where, what, for which key and owner, since when, with which result
  gone,     \* per key: the isolate whose revocation has answered (None: none has)
  now

vars == <<row, cache, calls, gone, now>>

NoRow == [owner |-> None, expires |-> 0, revoked |-> 0]
Idle == [iso |-> None, op |-> "idle", key |-> None, owner |-> None, at |-> 0, until |-> 0]

Init ==
  /\ row = [k \in Keys |-> NoRow] /\ cache = [i \in Isolates |-> [k \in Keys |-> 0]]
  /\ calls = [c \in Calls |-> Idle] /\ gone = [k \in Keys |-> None] /\ now = 1

Start(c, i, op, k, o, until) ==
  /\ calls[c].op = "idle"
  /\ calls' = [calls EXCEPT ![c] = [iso |-> i, op |-> op, key |-> k, owner |-> o, at |-> now, until |-> until]]

End(c) == calls' = [calls EXCEPT ![c] = Idle]

Live(k) == row[k].owner # None /\ row[k].revoked = 0 /\ row[k].expires > now
LiveKeys(o) == Cardinality({k \in Keys : row[k].owner = o /\ Live(k)})

-----------------------------------------------------------------------------
(* createApiKey(): the count, then the INSERT *)

CreateCounts(c, i, o, k) ==
  /\ row[k].owner = None /\ \A d \in Calls : calls[d].key # k
  /\ LiveKeys(o) < MAX_KEYS_PER_ACCOUNT
  /\ Start(c, i, "create", k, o, 0)
  /\ UNCHANGED <<row, cache, gone, now>>

CreateInserts(c, life) ==
  /\ calls[c].op = "create"
  /\ row' = [row EXCEPT ![calls[c].key] = [owner |-> calls[c].owner, expires |-> calls[c].at + life, revoked |-> 0]]
  /\ End(c)
  /\ UNCHANGED <<cache, gone, now>>

-----------------------------------------------------------------------------
(* revokeApiKey(): the UPDATE, then the cache of the isolate that made it *)

RevokeUpdates(c, i, k) ==
  /\ row[k].owner # None /\ row[k].revoked = 0
  /\ row' = [row EXCEPT ![k].revoked = now]
  /\ Start(c, i, "revoke", k, row[k].owner, 0)
  /\ UNCHANGED <<cache, gone, now>>

RevokeAnswers(c) ==
  LET r == calls[c]
  IN /\ r.op = "revoke"
     /\ cache' = [cache EXCEPT ![r.iso][r.key] = 0] /\ gone' = [gone EXCEPT ![r.key] = r.iso]
     /\ End(c)
     /\ UNCHANGED <<row, now>>

-----------------------------------------------------------------------------
(* authenticateApiKey() *)

\* Mutant: the entry ends with the key, not with the window.
UntilOfKey(k) == row[k].expires

\* Mutant: the entry may outlive the key.
UntilOfUncut(k) == now + CacheSecs

\* The entry ends with the window, counted from the start of the call, or with the key.
UntilOf(k) == Min({now + CacheSecs, row[k].expires})

\* No entry answers: the SELECT.  A key it does not accept is refused at once.
AuthReads(c, i, k) ==
  /\ cache[i][k] <= now /\ Live(k)
  /\ Start(c, i, "auth", k, row[k].owner, UntilOf(k))
  /\ UNCHANGED <<row, cache, gone, now>>

\* Its answer arrives: the entry is stored and the request let through.
AuthStores(c) ==
  LET r == calls[c]
  IN /\ r.op = "auth"
     /\ cache' = [cache EXCEPT ![r.iso][r.key] = r.until]
     /\ End(c)
     /\ UNCHANGED <<row, gone, now>>

\* The SELECT fails: 503, nothing is decided.
AuthFails(c) == calls[c].op = "auth" /\ End(c) /\ UNCHANGED <<row, cache, gone, now>>

\* A full cache is cleared, or the isolate replaced.
Forgets(i) == cache' = [cache EXCEPT ![i] = [k \in Keys |-> 0]] /\ UNCHANGED <<row, calls, gone, now>>

\* Time passes; a call under way does not take longer than MaxWait.
Tick ==
  /\ now < MaxTime /\ \A c \in Calls : calls[c].op = "idle" \/ now - calls[c].at < MaxWait
  /\ now' = now + 1
  /\ UNCHANGED <<row, cache, calls, gone>>

Next ==
  \/ \E c \in Calls, i \in Isolates, k \in Keys :
       AuthReads(c, i, k) \/ RevokeUpdates(c, i, k) \/ \E o \in Owners : CreateCounts(c, i, o, k)
  \/ \E c \in Calls : \/ AuthStores(c) \/ AuthFails(c) \/ RevokeAnswers(c)
                      \/ \E l \in Lifetimes : CreateInserts(c, l)
  \/ \E i \in Isolates : Forgets(i)
  \/ Tick

Spec == Init /\ [][Next]_vars

-----------------------------------------------------------------------------
(* Properties. *)

TypeOK ==
  /\ \A k \in Keys : row[k].owner \in Owners \cup {None} /\ row[k].revoked \in 0 .. now
  /\ \A c \in Calls : calls[c].op \in {"idle", "create", "revoke", "auth"}
  /\ \A i \in Isolates, k \in Keys : cache[i][k] <= now + CacheSecs

\* However reads, revocations and cache entries of several isolates overlap, no entry, stored or on its way, lets a key
\* through longer than API_KEY_CACHE_SECONDS after its revocation, nor past its expiry.
RevokedWithinWindow ==
  \A k \in Keys :
    LET untils == {cache[i][k] : i \in Isolates} \cup {calls[c].until : c \in {d \in Calls : calls[d].key = k}}
    IN \A u \in untils \ {0} : u <= row[k].expires /\ (row[k].revoked # 0 => u <= row[k].revoked + CacheSecs)

\* createApiKey's refusal: "an account has at most ... live API keys".
KeysCapped == \A o \in Owners : LiveKeys(o) <= MAX_KEYS_PER_ACCOUNT

\* The module's header: a revocation takes effect "in the isolate that revoked, at once".
GoneAtOnce == \A k \in Keys : gone[k] # None => cache[gone[k]][k] <= now

=============================================================================
