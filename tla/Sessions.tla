------------------------------ MODULE Sessions ------------------------------
(***************************************************************************)
(* Wallet sessions (middleware/auth.ts, routes/v1/auth.ts): single-use       *)
(* sign-in nonces, the tokens minted for them, the revocation list of        *)
(* logout and the rotation of the signing secret.  A login and a logout      *)
(* wait for D1 and the signature between their steps.  Unless D1 fails, a    *)
(* batch of statements is one step.                                          *)
(***************************************************************************)
EXTENDS Naturals, FiniteSets, FiniteSetsExt

CONSTANTS
  Nonces, Logins, Tokens, None,
  NonceTtl, TokenTtl,       \* NONCE_TTL_SEC and JWT_TTL_SECONDS, in ticks
  Minute,                   \* the least a revocation is kept, in ticks
  MaxTime, MaxRotations     \* bounds

SessionsAssumption ==
  /\ None \notin Nonces \cup Tokens /\ {NonceTtl, TokenTtl, Minute, MaxTime, MaxRotations} \subseteq Nat

VARIABLES
  nonce,      \* login_nonces: per nonce its expires_at (0: no row)
  issued,     \* nonces issued so far
  login,      \* per login under way: the nonce it has taken (None: no login)
  token,      \* per token: the nonce it was minted for, the secret that signed it, exp
  ending,     \* tokens whose logout is past requireAuth and before the list
  revoked,    \* revoked_tokens: per jti its expires_at (0: no row)
  ended,      \* tokens whose logout was answered with revoked: true
  secret,     \* the current secret's number; the previous one is the number before
  until,      \* JWT_SECRET_PREVIOUS_UNTIL
  now

vars == <<nonce, issued, login, token, ending, revoked, ended, secret, until, now>>

NoToken == [for |-> None, secret |-> 0, exp |-> 0]

Init ==
  /\ nonce = [n \in Nonces |-> 0] /\ issued = {} /\ login = [l \in Logins |-> None]
  /\ token = [t \in Tokens |-> NoToken] /\ ending = {} /\ revoked = [t \in Tokens |-> 0] /\ ended = {}
  /\ secret = 1 /\ until = 0 /\ now = 1

-----------------------------------------------------------------------------
(* Sign-in *)

Swept(rows) == [x \in DOMAIN rows |-> IF rows[x] <= now THEN 0 ELSE rows[x]]

issueNonce(n) ==
  /\ n \notin issued /\ issued' = issued \cup {n}
  /\ nonce' = [Swept(nonce) EXCEPT ![n] = now + NonceTtl]
  /\ UNCHANGED <<login, token, ending, revoked, ended, secret, until, now>>

\* Mutant: the nonce is looked up and deleted when the login succeeds.
LeftOf(n) == nonce

\* DELETE ... RETURNING
Left(n) == [nonce EXCEPT ![n] = 0]

\* consumeNonce(), before the signature is looked at
LoginTakes(l, n) ==
  /\ login[l] = None /\ nonce[n] > now
  /\ nonce' = Left(n) /\ login' = [login EXCEPT ![l] = n]
  /\ UNCHANGED <<issued, token, ending, revoked, ended, secret, until, now>>

\* The signature is wrong: the nonce is spent.
LoginRefused(l) ==
  /\ login[l] # None /\ login' = [login EXCEPT ![l] = None]
  /\ UNCHANGED <<nonce, issued, token, ending, revoked, ended, secret, until, now>>

\* generateToken()
LoginMints(l, t) ==
  /\ login[l] # None /\ token[t] = NoToken
  /\ token' = [token EXCEPT ![t] = [for |-> login[l], secret |-> secret, exp |-> now + TokenTtl]]
  /\ login' = [login EXCEPT ![l] = None]
  /\ UNCHANGED <<nonce, issued, ending, revoked, ended, secret, until, now>>

-----------------------------------------------------------------------------
(* Requests and logout *)

\* Mutant: the previous secret is refused from its last second on.
SignedWellEarly(t) ==
  \/ token[t].secret = secret
  \/ token[t].secret = secret - 1 /\ now < until /\ token[t].exp < until

\* The current secret, or the previous one during its window for tokens that expire inside it.
SignedWell(t) ==
  \/ token[t].secret = secret
  \/ token[t].secret = secret - 1 /\ now < until /\ token[t].exp <= until

\* verifyBearer()
Accepts(t) == token[t] # NoToken /\ token[t].exp > now /\ SignedWell(t) /\ revoked[t] <= now

LogoutStarts(t) ==
  /\ Accepts(t) /\ ending' = ending \cup {t}
  /\ UNCHANGED <<nonce, issued, login, token, revoked, ended, secret, until, now>>

\* Mutant: a revocation is kept for a minute.
KeptForMinute(t) == now + Minute

\* Mutant: the token's exp is taken for a lifetime.
KeptForLong(t) == now + Minute + token[t].exp

\* Until the token would have expired, and a minute at least.
KeptFor(t) == Max({now + Minute, token[t].exp})

\* revokeToken(): the batch
LogoutWrites(t) ==
  /\ t \in ending /\ ending' = ending \ {t}
  /\ revoked' = [Swept(revoked) EXCEPT ![t] = KeptFor(t)]
  /\ ended' = ended \cup {t}
  /\ UNCHANGED <<nonce, issued, login, token, secret, until, now>>

\* The list cannot be written: revoked: false.
LogoutFails(t) ==
  /\ t \in ending /\ ending' = ending \ {t}
  /\ UNCHANGED <<nonce, issued, login, token, revoked, ended, secret, until, now>>

-----------------------------------------------------------------------------

\* The operator replaces the secret, keeping the old one for a token's lifetime (config/env.ts); not again before then.
Rotate ==
  /\ secret < MaxRotations + 1 /\ now >= until
  /\ secret' = secret + 1 /\ until' = now + TokenTtl
  /\ UNCHANGED <<nonce, issued, login, token, ending, revoked, ended, now>>

Tick ==
  /\ now < MaxTime /\ now' = now + 1
  /\ UNCHANGED <<nonce, issued, login, token, ending, revoked, ended, secret, until>>

Next ==
  \/ \E n \in Nonces : issueNonce(n) \/ \E l \in Logins : LoginTakes(l, n)
  \/ \E l \in Logins : LoginRefused(l) \/ \E t \in Tokens : LoginMints(l, t)
  \/ \E t \in Tokens : LogoutStarts(t) \/ LogoutWrites(t) \/ LogoutFails(t)
  \/ Rotate \/ Tick

Spec == Init /\ [][Next]_vars

-----------------------------------------------------------------------------
(* Properties. *)

TypeOK ==
  /\ nonce \in [Nonces -> 0 .. now + NonceTtl] /\ login \in [Logins -> Nonces \cup {None}]
  /\ \A t \in Tokens : token[t].for \in Nonces \cup {None} /\ token[t].secret \in 0 .. secret
  /\ \A t \in Tokens : revoked[t] <= now + TokenTtl + Minute
  /\ ended \subseteq Tokens /\ ending \subseteq Tokens

\* A signed message mints one session at most, whatever logins with it run at the same time, and none once it failed.
OneSessionPerNonce ==
  \A n \in Nonces :
    Cardinality({t \in Tokens : token[t].for = n}) + Cardinality({l \in Logins : login[l] = n}) <= 1

\* A token whose logout was confirmed is refused from then on, also when the list is swept by other logouts and the
\* secret changes.
StaysRevoked == \A t \in ended : ~Accepts(t)

\* A rotation signs nobody out: a token that has not expired and was not revoked is accepted.
NobodySignedOut ==
  \A t \in Tokens : token[t] # NoToken /\ token[t].exp > now /\ revoked[t] = 0 => Accepts(t)

=============================================================================
