------------------------------- MODULE Candles -------------------------------
(***************************************************************************)
(* The candlestick vocabulary of TA-Lib: the input arrays of a TA_CDL*     *)
(* function, the candle settings kept in TA_Globals (ta_global.c) and the  *)
(* macros of ta_utility.h the sixty-one pattern functions are written in.  *)
(*                                                                         *)
(* Prices are integers, multiples of Unit, chosen so that every division   *)
(* of the macros is exact: the code's rounding of doubles is not modelled, *)
(* its comparisons are.                                                    *)
(***************************************************************************)
EXTENDS Integers, FiniteSetsExt

CONSTANTS
    Unit,          \* every price is a multiple of it
    Periods,       \* the avgPeriod values a setting may have
    Factors        \* the factors, as <<numerator, denominator>>

VARIABLES
    bars,          \* inOpen, inHigh, inLow, inClose: a function of the bar index
    settings,      \* TA_Globals->candleSettings
    penetration    \* optInPenetration, as <<numerator, denominator>>

CandleSettingTypes ==
    {"BodyLong", "BodyVeryLong", "BodyShort", "BodyDoji", "ShadowLong", "ShadowVeryLong",
     "ShadowShort", "ShadowVeryShort", "Near", "Far", "Equal"}

RangeTypes == {"RealBody", "HighLow", "Shadows"}

CandleSettings == [rangeType : RangeTypes, avgPeriod : Periods, factor : Factors]

\* A bar of a real series: its body lies between its low and its high.
IsBar(b) == /\ b.l =< b.o /\ b.o =< b.h
            /\ b.l =< b.c /\ b.c =< b.h
            /\ \A price \in {b.o, b.h, b.l, b.c} : price % Unit = 0

Open(i)  == bars[i].o
High(i)  == bars[i].h
Low(i)   == bars[i].l
Close(i) == bars[i].c

Abs(x)        == IF x < 0 THEN -x ELSE x
Larger(x, y)  == IF x > y THEN x ELSE y
Smaller(x, y) == IF x < y THEN x ELSE y

White(i) == Close(i) >= Open(i)
Black(i) == ~White(i)
Color(i) == IF White(i) THEN 1 ELSE -1

BodyTop(i)    == Larger(Open(i), Close(i))
BodyBottom(i) == Smaller(Open(i), Close(i))

RealBody(i)     == Abs(Close(i) - Open(i))
UpperShadow(i)  == High(i) - BodyTop(i)
LowerShadow(i)  == BodyBottom(i) - Low(i)
HighLowRange(i) == High(i) - Low(i)

RealBodyGapUp(i2, i1)   == BodyBottom(i2) > BodyTop(i1)
RealBodyGapDown(i2, i1) == BodyTop(i2) < BodyBottom(i1)
CandleGapUp(i2, i1)     == Low(i2) > High(i1)
CandleGapDown(i2, i1)   == High(i2) < Low(i1)

AvgPeriod(set) == settings[set].avgPeriod

\* TA_CANDLERANGE
CandleRange(set, i) ==
    CASE settings[set].rangeType = "RealBody" -> RealBody(i)
      [] settings[set].rangeType = "HighLow"  -> HighLowRange(i)
      [] settings[set].rangeType = "Shadows"  -> UpperShadow(i) + LowerShadow(i)

\* TA_CANDLEAVERAGE: with a period of 0 the bar is compared with its own range.
Average(set, sum, i) ==
    LET base == IF AvgPeriod(set) # 0 THEN sum \div AvgPeriod(set) ELSE CandleRange(set, i)
        halves == IF settings[set].rangeType = "Shadows" THEN 2 ELSE 1
    IN (settings[set].factor[1] * base) \div (settings[set].factor[2] * halves)

Penetration(x) == (x * penetration[1]) \div penetration[2]
Half(x)        == x \div 2

(***************************************************************************)
(* A running total of a function, as the code maintains it:                *)
(*   TrailingIdx starts at first - off - period, first being the bar of    *)
(*   the first iteration;                                                  *)
(*   the warm-up loop runs i from there to first - until and adds          *)
(*   CandleRange(set, i - warm);                                           *)
(*   an iteration adds CandleRange(set, i - add), takes off                *)
(*   CandleRange(set, TrailingIdx - drop) and advances TrailingIdx.        *)
(* The functions write it in two ways: TrailingIdx itself lies behind, or  *)
(* the bar read from it does.                                              *)
(***************************************************************************)
Total(set, off, until, warm, add, drop) ==
    [set |-> set, off |-> off, until |-> until, warm |-> warm, add |-> add, drop |-> drop]
ShiftedOneWay(set, lag) == Total(set, 0, 0, lag, 0, lag)
Behind(set, lag)  == Total(set, lag, lag, 0, lag, 0)
Shifted(set, lag) == Total(set, 0, 0, lag, lag, lag)

\* The ranges of n bars from bar "from" on, added one after the other.
RangeSum(set, from, n) ==
    LET sum[k \in Nat] == IF k = 0 THEN 0 ELSE sum[k - 1] + CandleRange(set, from + k - 1)
    IN sum[n]

\* What a pattern function prepares: its lookback, how far before i its condition
\* reads, its running totals, and the iterations it runs before startIdx (early).
Plan(lookback, reach, totals) ==
    [lookback |-> lookback, reach |-> reach, totals |-> totals, early |-> 0]
=============================================================================
