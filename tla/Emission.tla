------------------------------ MODULE Emission ------------------------------
(***************************************************************************)
(* EmissionController.sol on CLDToken.sol: anyone may advance the emission, *)
(* after any number of whole epochs; the amount follows from the rate of    *)
(* the year and the supply at the time of the call.  Holders burn, the      *)
(* other minters of the token mint.  Time is counted in epochs.             *)
(***************************************************************************)
EXTENDS Naturals

CONSTANTS
  Supply0,                  \* supply at genesis
  INITIAL_RATE_BPS, TERMINAL_RATE_BPS, DECAY_NUM, DECAY_DEN,
  YEAR,                     \* in epochs
  BurnAmount,               \* what a holder burns in one call
  MaxTime, MaxBurns         \* bounds

EmissionAssumption ==
  /\ {Supply0, INITIAL_RATE_BPS, TERMINAL_RATE_BPS, DECAY_NUM, BurnAmount, MaxTime, MaxBurns} \subseteq Nat
  /\ {YEAR, DECAY_DEN} \subseteq Nat \ {0} /\ DECAY_NUM < DECAY_DEN
  /\ TERMINAL_RATE_BPS <= INITIAL_RATE_BPS

VARIABLES
  supply,    \* the token's total supply
  last,      \* lastEmissionAt, in epochs since genesis
  total,     \* totalEmitted
  now, burns

vars == <<supply, last, total, now, burns>>

Init == supply = Supply0 /\ last = 0 /\ total = 0 /\ now = 0 /\ burns = 0

\* The loop without its floor, for the mutant below.
RatesUnfloored[y \in Nat] == IF y = 0 THEN INITIAL_RATE_BPS ELSE (RatesUnfloored[y - 1] * DECAY_NUM) \div DECAY_DEN

\* The loop of currentRateBps(): once the floor is reached it stays.
Rates[y \in Nat] ==
  IF y = 0 THEN INITIAL_RATE_BPS
  ELSE LET prev == Rates[y - 1]
           r == (prev * DECAY_NUM) \div DECAY_DEN
       IN IF prev = TERMINAL_RATE_BPS \/ r <= TERMINAL_RATE_BPS THEN TERMINAL_RATE_BPS ELSE r

\* Mutant: the rate without its floor.
currentRateBpsUnfloored(t) == RatesUnfloored[t \div YEAR]

currentRateBps(t) == Rates[t \div YEAR]

\* pendingEmission(): the whole gap at the present rate and supply.
pendingEmission == (((supply * currentRateBps(now)) \div 10000) * (now - last)) \div YEAR

\* Mutant: a started epoch counts as a whole one.
LastAfterStarted == now + 1

\* Mutant: the clock advances by one epoch, whatever the gap was.
LastAfterOne == last + 1

\* lastEmissionAt += epochsElapsed * EPOCH, also when nothing is minted.
LastAfter == now

emit_ ==
  /\ now > last
  /\ last' = LastAfter
  /\ total' = total + pendingEmission /\ supply' = supply + pendingEmission
  /\ UNCHANGED <<now, burns>>

\* burn() of CLDToken
burn ==
  /\ burns < MaxBurns /\ BurnAmount <= supply
  /\ burns' = burns + 1 /\ supply' = supply - BurnAmount
  /\ UNCHANGED <<last, total, now>>

Tick == now < MaxTime /\ now' = now + 1 /\ UNCHANGED <<supply, last, total, burns>>

Next == emit_ \/ burn \/ Tick
Spec == Init /\ [][Next]_vars

-----------------------------------------------------------------------------
(* Properties. *)

TypeOK == supply \in Nat /\ total \in Nat /\ last \in 0 .. now /\ now \in 0 .. MaxTime

\* The supply when every epoch is emitted at once and nothing is burned.
Prompt[t \in Nat] ==
  IF t = 0 THEN Supply0
  ELSE LET s == Prompt[t - 1] IN s + (((s * currentRateBps(t - 1)) \div 10000) \div YEAR) + 1

\* "Total emission provably bounded by the schedule": however late, often and irregularly callers advance it, no more
\* is emitted than by calling every epoch with nothing burned (rounding of one unit an epoch apart).
BoundedBySchedule == total <= Prompt[now] - Supply0

\* The permanent tail: the rate falls from year to year and never below the floor.
PermanentTail ==
  /\ currentRateBps(now) >= TERMINAL_RATE_BPS
  /\ \A t \in 0 .. now : currentRateBps(now) <= currentRateBps(t)

=============================================================================
