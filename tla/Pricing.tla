------------------------------ MODULE Pricing ------------------------------
(***************************************************************************)
(* The hourly price controller and the quotes it gives                      *)
(* (pricing.service.ts): one row of price_state, read by cron passes and by *)
(* quote requests before the statement that writes it.                      *)
(*                                                                         *)
(* Prices are nano-dollars per tera-MAC; the EMA is kept in 720ths of one,  *)
(* factors and utilizations in thousandths.  An hour is HourTicks long.     *)
(***************************************************************************)
EXTENDS Integers, FiniteSets

CONSTANTS
  Passes,         \* cron passes that may overlap
  Quotes,         \* quote requests that may overlap
  None,
  InitialPrices,  \* PRICE_NUSD_PER_TMAC
  Loads,          \* utilizations the network may have, in thousandths
  HourTicks,      \* CONTROLLER_STEP_MS
  LockTicks,      \* QUOTE_LOCK_MS
  Slow,           \* whether a request may still be under way in the next tick
  MaxTime         \* bound: ticks

PricingAssumption ==
  /\ InitialPrices \subseteq Nat \ {0} /\ Loads \subseteq Nat /\ None \notin Nat
  /\ HourTicks \in Nat \ {0} /\ LockTicks \in Nat \ {0} /\ Slow \in BOOLEAN /\ MaxTime \in Nat

VARIABLES
  time,
  row,     \* price_state
  pass,    \* per cron pass: the time it began, the row it read
  quote,   \* per quote request: the time it began, the row it read
  given,   \* quotes given and not yet expired
  steps    \* history: per hour, how often the price was stepped

vars == <<time, row, pass, quote, given, steps>>

Hour(t) == t \div HourTicks
Idle == [pc |-> "idle", now |-> 0, row |-> None, load |-> 0]

\* loadState's INSERT OR IGNORE has run.
Init ==
  /\ time = 0
  /\ \E p \in InitialPrices : row = [price |-> p, ema |-> 720 * p, stepped |-> None, quote |-> None, expires |-> None]
  /\ pass = [p \in Passes |-> Idle] /\ quote = [q \in Quotes |-> Idle]
  /\ given = {} /\ steps = [h \in 0..Hour(MaxTime) |-> 0]

Tick ==
  /\ time < MaxTime /\ time' = time + 1
  /\ Slow \/ ((\A p \in Passes : pass[p] = Idle) /\ (\A q \in Quotes : quote[q] = Idle))
  /\ given' = {g \in given : g.expires > time'}
  /\ UNCHANGED <<row, pass, quote, steps>>

-----------------------------------------------------------------------------
(* The controller. *)

Larger(a, b) == IF a > b THEN a ELSE b
Smaller(a, b) == IF a < b THEN a ELSE b

\* Mutant: fractions are cut off.
RoundDown(x, unit) == x \div unit

\* Math.round
Round(x, unit) == (2 * x + unit) \div (2 * unit)

Factor(load) == Smaller(1020, Larger(980, 300 + load))
Floor(ema) == Larger(1, Round(ema, 7200))
Ceiling(ema) == Larger(Floor(ema), Round(ema, 72))

\* Mutant: the factor is not clamped.
stepPriceUnclamped(r, load) ==
  IF load = 0 THEN r ELSE [r EXCEPT !.price = Round(r.price * (300 + load), 1000)]

\* Nothing served holds everything; the new price enters the EMA.
stepPrice(r, load) ==
  IF load = 0 THEN r
  ELSE LET price == Smaller(Ceiling(r.ema), Larger(Floor(r.ema), Round(r.price * Factor(load), 1000)))
       IN [r EXCEPT !.price = price, !.ema = r.ema + Round(720 * price - r.ema, 720)]

\* A pass begins: it reads the row and the last hour's utilization.
CronRead(p) ==
  /\ pass[p].pc = "idle"
  /\ ~(row.stepped # None /\ Hour(row.stepped) >= Hour(time))
  /\ \E load \in Loads : pass' = [pass EXCEPT ![p] = [pc |-> "write", now |-> time, row |-> row, load |-> load]]
  /\ UNCHANGED <<time, row, quote, given, steps>>

\* Mutant: the update is not conditional on the hour.
MayStepAlways(now) == TRUE

\* The UPDATE's WHERE clause
MayStep(now) == row.stepped = None \/ row.stepped < Hour(now) * HourTicks

CronWrite(p) ==
  /\ pass[p].pc = "write"
  /\ LET next == stepPrice(pass[p].row, pass[p].load)   now == pass[p].now
     IN IF MayStep(now)
        THEN /\ row' = [row EXCEPT !.price = next.price, !.ema = next.ema, !.stepped = now]
             /\ steps' = [steps EXCEPT ![Hour(now)] = @ + 1]
        ELSE UNCHANGED <<row, steps>>
  /\ pass' = [pass EXCEPT ![p] = Idle]
  /\ UNCHANGED <<time, quote, given>>

-----------------------------------------------------------------------------
(* Quotes. *)

Give(price, expires) == given' = given \cup {g \in {[price |-> price, expires |-> expires]} : g.expires > time}

\* getPriceQuote: the lock that stands is given again ...
QuoteLocked ==
  /\ row.quote # None /\ row.expires > time
  /\ Give(row.quote, row.expires)
  /\ UNCHANGED <<time, row, pass, quote, steps>>

\* ... or the row read becomes the lock.
QuoteRead(q) ==
  /\ quote[q].pc = "idle" /\ ~(row.quote # None /\ row.expires > time)
  /\ quote' = [quote EXCEPT ![q] = [Idle EXCEPT !.pc = "write", !.now = time, !.row = row]]
  /\ UNCHANGED <<time, row, pass, given, steps>>

\* Mutant: the expiry is not stored.
QuoteWriteNoExpiry(q) ==
  /\ quote[q].pc = "write"
  /\ row' = [row EXCEPT !.quote = quote[q].row.price]
  /\ quote' = [quote EXCEPT ![q] = Idle]
  /\ UNCHANGED <<time, pass, given, steps>>

QuoteWrite(q) ==
  /\ quote[q].pc = "write"
  /\ LET price == quote[q].row.price   expires == quote[q].now + LockTicks
     IN row' = [row EXCEPT !.quote = price, !.expires = expires] /\ Give(price, expires)
  /\ quote' = [quote EXCEPT ![q] = Idle]
  /\ UNCHANGED <<time, pass, steps>>

-----------------------------------------------------------------------------

Next ==
  \/ Tick \/ QuoteLocked
  \/ \E p \in Passes : CronRead(p) \/ CronWrite(p)
  \/ \E q \in Quotes : QuoteRead(q) \/ QuoteWrite(q)

Spec == Init /\ [][Next]_vars

-----------------------------------------------------------------------------
(* Properties. *)

TypeOK ==
  /\ time \in 0..MaxTime /\ row.price \in Nat \ {0} /\ row.ema \in Nat
  /\ row.stepped \in Nat \cup {None} /\ (row.quote = None <=> row.expires = None)
  /\ \A p \in Passes : pass[p].pc \in {"idle", "write"}
  /\ \A q \in Quotes : quote[q].pc \in {"idle", "write"}

\* However many passes overlap, the price is stepped once per clock hour.
OneStepAnHour == \A h \in DOMAIN steps : steps[h] <= 1

\* The controller can always answer demand: at full utilization the next step
\* raises the price, unless it is at its ceiling.
CanRise == row.price < Ceiling(row.ema) => stepPrice(row, 1000).price > row.price

\* A step moves the price by 2 % at most (to the nearest whole
\* nano-dollar), also when passes overlap.
SmallSteps == [][/\ 1000 * row'.price <= 1020 * row.price + 500
                 /\ 1000 * row'.price >= 980 * row.price - 500]_row

\* A quote holds for its five minutes: whoever was given a price pays it until
\* the quote expires.
QuoteHonoured == \A g \in given : row.quote = g.price /\ row.expires >= g.expires
=============================================================================
