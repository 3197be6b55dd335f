----------------------------- MODULE TrailingStop -----------------------------
(***************************************************************************)
(* The trailing stop of a put-scalper row: what one monitoring pass of     *)
(* execute_trades_util makes of the last traded price it reads.            *)
(*                                                                         *)
(* Stops and entry prices are in tenths of a rupee (round(..., 1)), traded *)
(* prices in ticks of 0.05, factors in thousandths.  The code computes in  *)
(* floating point: a product that lies half-way between two tenths may     *)
(* come out on either side of it, and a price equal to a threshold may or  *)
(* may not reach it; but the same product always comes out the same.       *)
(***************************************************************************)
EXTENDS Integers

CONSTANTS
  Entries,   \* the entry prices
  Discounts, \* how far below the premium the first stop may lie, in thousandths
  MaxPrice,  \* the highest traded price
  HalfUp,    \* HalfUp[e][k]: does e * k, half-way, come out as the upper tenth?
  Meets      \* Meets[e][k]: does a price equal to e * k reach it?

\* A rung of the ladder: the price that reaches it, and its stop.
Rungs == 1 .. 12
At == <<1000, 1010, 1020, 1030, 1040, 1050, 1070, 1100, 1150, 1500, 1700, 1900>>

\* Mutants of Sl: from 15% on, each rung has the stop of the next; a sign slip
\* in the third.
SlShifted ==
  <<1000, 1005, 1010, 1020, 1030, 1030, 1040, 1050, 1200, 1400, 1600, 1900>>
SlSlipped ==
  <<1000, 1005, 990, 1020, 1030, 1030, 1040, 1050, 1050, 1200, 1400, 1600>>

Sl == <<1000, 1005, 1010, 1020, 1030, 1030, 1040, 1050, 1050, 1200, 1400, 1600>>

Factors == 0 .. 2000

ASSUME LadderAssumption ==
  /\ Entries \subseteq Nat \ {0}
  /\ MaxPrice \in Nat
  /\ Discounts \subseteq Factors
  /\ HalfUp \in [Entries -> [Factors -> BOOLEAN]]
  /\ Meets \in [Entries -> [Factors -> BOOLEAN]]

VARIABLES
  entry,     \* entry_start_price of the row
  first,     \* exit_stop_loss_price as the row is created with it
  stop,      \* exit_stop_loss_price of the row
  peak       \* history: the highest price a pass has read

vars == <<entry, first, stop, peak>>

\* round(e * k, 1)
Round(e, k) ==
  LET low == (e * k) \div 1000  rest == (e * k) % 1000
  IN IF rest > 500 \/ (rest = 500 /\ HalfUp[e][k]) THEN low + 1 ELSE low

\* Mutant of FirstStops: the percentage is added.
FirstStopsAbove(e) == {e + Round(e, d) : d \in Discounts}

\* The first stop: a tenth below the premium for the put, |sl_percent| + 1
\* percent for the call.  The row's prices are rounded apart from it, and from
\* each other, when the row is saved: it may be a tenth of a rupee off.
FirstStops(e) ==
  {s \in 0 .. e : \E d \in Discounts, slip \in -1 .. 1 : s = e - Round(e, d) + slip}

\* The first comparison of the ladder is strict.
Reaches(e, p, i) ==
  \/ 1000 * p > 2 * e * At[i]
  \/ i # 1 /\ 1000 * p = 2 * e * At[i] /\ Meets[e][At[i]]

\* Of the tests of the ladder the last one that holds decides.
Highest(e, p, i) ==
  /\ Reaches(e, p, i)
  /\ \A j \in Rungs : j > i => ~Reaches(e, p, j)

Init ==
  /\ entry \in Entries
  /\ first \in FirstStops(entry)
  /\ stop = first
  /\ peak = 0

\* Mutant of Raised: without `if updated_sl >= trade.exit_stop_loss_price`.
RaisedAlways(updated) == updated

Raised(updated) == IF updated >= stop THEN updated ELSE stop

\* A pass that reads the price p, with an order pending in the account.
Pass(p) ==
  /\ \/ (\A i \in Rungs : ~Reaches(entry, p, i)) /\ stop' = stop
     \/ \E i \in Rungs : Highest(entry, p, i) /\ stop' = Raised(Round(entry, Sl[i]))
  /\ peak' = IF p > peak THEN p ELSE peak
  /\ UNCHANGED <<entry, first>>

Next == \E p \in 0 .. MaxPrice : Pass(p)

Spec == Init /\ [][Next]_vars
-----------------------------------------------------------------------------
\* The types; the first stop is not above the entry price.
TypeOK ==
  /\ entry \in Entries
  /\ first \in 0 .. entry
  /\ stop \in Nat
  /\ peak \in 0 .. MaxPrice

\* Prices are sampled once a second and in no order the ladder could count
\* on; still the stop is the one of the highest price read so far, whatever
\* was read before and after it.
StopOfPeak ==
  /\ (\A i \in Rungs : ~Reaches(entry, peak, i)) => stop = first
  /\ \A i \in Rungs : Highest(entry, peak, i) => stop = Round(entry, Sl[i])

\* A stop that was raised is not above the price that raised it, rounding
\* included (the exchange refuses a selling stop above the market).
StopBelowPeak == stop # first => 2 * stop <= peak

\* What DhanScalper makes of the ladder: two kinds of stop, the first one and
\* those that do not lose, and only from the first kind to the second.
TwoLevels == stop = first \/ stop >= entry
=============================================================================
