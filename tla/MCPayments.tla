----------------------------- MODULE MCPayments -----------------------------
(***************************************************************************)
(* A customer's account: deposits on a chain that re-organises, card       *)
(* payments by webhooks, the hourly price with its quotes, the wallet's    *)
(* sessions and its API keys. They share no state, so a behaviour          *)
(* exercises one of them and the rest stay as they start.                  *)
(***************************************************************************)
EXTENDS Deposits

CONSTANTS
  Sessions, Intents, CardFaults,                                     \* of the card payments
  Quotes, InitialPrices, Loads, HourTicks, LockTicks, Slow, PriTime, \* of the price
  Nonces, Logins, Tokens, NonceTtl, TokenTtl, Minute, SesTime, MaxRotations,  \* of the wallet's sessions
  Isolates, Calls, Keys, Owners, MAX_KEYS_PER_ACCOUNT, CacheSecs, Lifetimes, KeyTime, MaxWait  \* of the API keys

VARIABLES
  part,  \* the component this behaviour exercises
  pay, event, car_credits, car_faults, time, row, pri_pass, quote, given, steps,
  nonce, issued, login, token, ending, revoked, ended, secret, until, ses_now,
  key_row, cache, calls, gone, key_now

Car == INSTANCE CardPayments WITH MaxFaults <- CardFaults, credits <- car_credits, faults <- car_faults
Pri == INSTANCE Pricing WITH MaxTime <- PriTime, pass <- pri_pass
Ses == INSTANCE Sessions WITH MaxTime <- SesTime, now <- ses_now
Key == INSTANCE ApiKeys WITH MaxTime <- KeyTime, row <- key_row, now <- key_now

ASSUME CardsAssumption == Car!CardAssumption
ASSUME PricesAssumption == Pri!PricingAssumption
ASSUME TokensAssumption == Ses!SessionsAssumption
ASSUME KeysAssumption == Key!ApiKeysAssumption

carVars == <<pay, event, car_credits, car_faults>>
priVars == <<time, row, pri_pass, quote, given, steps>>
sesVars == <<nonce, issued, login, token, ending, revoked, ended, secret, until, ses_now>>
keyVars == <<key_row, cache, calls, gone, key_now>>

\* The components share no state: those that are not exercised stay as they start.
PaymentsInit ==
  /\ part \in {"deposits", "cards", "pricing", "sessions", "keys"}
  /\ Init
  /\ Car!Init
  /\ Pri!Init
  /\ Ses!Init
  /\ Key!Init
  /\ part # "pricing" => row.price = CHOOSE p \in InitialPrices : TRUE

DepositsOnly == part = "deposits" /\ UNCHANGED <<part, carVars, priVars, sesVars, keyVars>>
CardsOnly == part = "cards" /\ UNCHANGED <<part, vars, priVars, sesVars, keyVars>>
PricingOnly == part = "pricing" /\ UNCHANGED <<part, vars, carVars, sesVars, keyVars>>
SessionsOnly == part = "sessions" /\ UNCHANGED <<part, vars, carVars, priVars, keyVars>>
KeysOnly == part = "keys" /\ UNCHANGED <<part, vars, carVars, priVars, sesVars>>

PaymentsNext ==
  \/ DepositsOnly /\ Next
  \/ CardsOnly /\ Car!Next
  \/ PricingOnly /\ Pri!Next
  \/ SessionsOnly /\ Ses!Next
  \/ KeysOnly /\ Key!Next

all == <<part, vars, carVars, priVars, sesVars, keyVars>>
PaymentsSpec == PaymentsInit /\ [][PaymentsNext]_all

-----------------------------------------------------------------------------
\* A card payment is credited once however its events arrive and fail; and however cron passes overlap, the price
\* moves once an hour and never sticks at a price it cannot rise from.
CardsAndPrices ==
  /\ Car!TypeOK /\ Car!OneEventCredits
  /\ Pri!TypeOK /\ Pri!OneStepAnHour /\ Pri!CanRise

\* A nonce opens one session, a revoked session stays out whatever rotation was under way, and no rotation signs
\* out a user who did not ask for it.
SessionsHold == Ses!TypeOK /\ Ses!OneSessionPerNonce /\ Ses!StaysRevoked /\ Ses!NobodySignedOut

\* However reads, revocations and cache entries of several isolates overlap, no entry, stored or on its way, lets a
\* key through longer than API_KEY_CACHE_SECONDS after its revocation, nor past its expiry.
RevokedWithinWindow == Key!TypeOK /\ Key!RevokedWithinWindow
=============================================================================
