--------------------------- MODULE IndicatorExtremes ---------------------------
(***************************************************************************)
(* The functions that follow the highest and the lowest value of a window  *)
(* (ta_MAX.c, ta_MIN.c and their relatives).  The extreme found last is    *)
(* kept with its index; only when that index has left the window is the    *)
(* window scanned again.                                                   *)
(***************************************************************************)
EXTENDS Indicators

\* No bar yet: highestIdx = -1, highest = 0.0.
NoBar == [idx |-> -1, value |-> 0]

\* The index a rescan of a .. b ends with: the first of equal bars where a later one must be
\* greater, the last where it only must not be less (ta_AROON.c).
FirstBest(value(_), better(_, _), a, b) ==
    CHOOSE k \in a .. b :
        /\ \A m \in a .. b : ~better(value(m), value(k))
        /\ \A m \in a .. (k-1) : better(value(k), value(m))
LastBest(value(_), better(_, _), a, b) ==
    CHOOSE k \in a .. b :
        /\ \A m \in a .. b : ~better(value(m), value(k))
        /\ \A m \in (k+1) .. b : better(value(k), value(m))

At(value(_), k) == [idx |-> k, value |-> value(k)]

\* The extreme of the window trailing .. today, from that of the window before.
Follow(best, value(_), better(_, _), trailing, today) ==
    IF best.idx < trailing THEN At(value, FirstBest(value, better, trailing, today))
    ELSE IF ~better(best.value, value(today)) THEN At(value, today) ELSE best
FollowLast(best, value(_), better(_, _), trailing, today) ==
    IF best.idx < trailing THEN At(value, LastBest(value, better, trailing, today))
    ELSE IF ~better(best.value, value(today)) THEN At(value, today) ELSE best

Above(a, b) == a > b
Below(a, b) == a < b

-----------------------------------------------------------------------------
(* MAX, MIN, MAXINDEX, MININDEX, MINMAX, MINMAXINDEX: one input. *)

Extremes(v, s) == [high |-> NoBar, low |-> NoBar]

Highest(v, L, i) == Follow(L.high, LAMBDA k : Real(v, k), Above, i - PeriodLessOne(v), i)
Lowest(v, L, i)  == Follow(L.low, LAMBDA k : Real(v, k), Below, i - PeriodLessOne(v), i)

MAX(v, L, i) ==
    LET high == Highest(v, L, i) IN Wrote([L EXCEPT !.high = high], high.value)
MAXINDEX(v, L, i) ==
    LET high == Highest(v, L, i) IN Wrote([L EXCEPT !.high = high], high.idx)
MIN(v, L, i) ==
    LET low == Lowest(v, L, i) IN Wrote([L EXCEPT !.low = low], low.value)
MININDEX(v, L, i) ==
    LET low == Lowest(v, L, i) IN Wrote([L EXCEPT !.low = low], low.idx)
MINMAX(v, L, i) ==
    LET high == Highest(v, L, i)
        low  == Lowest(v, L, i)
    IN WroteBoth([high |-> high, low |-> low], low.value, high.value)
MINMAXINDEX(v, L, i) ==
    LET high == Highest(v, L, i)
        low  == Lowest(v, L, i)
    IN WroteBoth([high |-> high, low |-> low], low.idx, high.idx)

TA_MAX(v)         == Run(v, PeriodLessOne(v), Extremes, MAX)
TA_MAXINDEX(v)    == Run(v, PeriodLessOne(v), Extremes, MAXINDEX)
TA_MIN(v)         == Run(v, PeriodLessOne(v), Extremes, MIN)
TA_MININDEX(v)    == Run(v, PeriodLessOne(v), Extremes, MININDEX)
TA_MINMAX(v)      == Run(v, PeriodLessOne(v), Extremes, MINMAX)
TA_MINMAXINDEX(v) == Run(v, PeriodLessOne(v), Extremes, MINMAXINDEX)

-----------------------------------------------------------------------------
(* MIDPOINT, MIDPRICE: the window is scanned for every bar. *)

MIDPOINT(v, L, i) ==
    LET window == {Real(v, k) : k \in (i - PeriodLessOne(v)) .. i}
    IN Wrote(L, (Max(window) + Min(window)) \div 2)
MIDPRICE(v, L, i) ==
    LET window == (i - PeriodLessOne(v)) .. i
    IN Wrote(L, (Max({High(v, k) : k \in window}) + Min({Low(v, k) : k \in window})) \div 2)

TA_MIDPOINT(v) == Run(v, PeriodLessOne(v), NoLocals, MIDPOINT)
TA_MIDPRICE(v) == Run(v, PeriodLessOne(v), NoLocals, MIDPRICE)

-----------------------------------------------------------------------------
(* WILLR and the fast %K of STOCHF and STOCH: the difference of the        *)
(* extremes is recomputed only when one of them changes.                   *)

ChannelBegin(v, s) == [high |-> NoBar, low |-> NoBar, diff |-> 0]

\* low, high: the extremes found last, for the window trailing .. i.
Widened(v, L, trailing, i, low, high) ==
    LET lowMoved  == L.low.idx < trailing \/ Low(v, i) =< L.low.value
        highMoved == L.high.idx < trailing \/ High(v, i) >= L.high.value
    IN [high |-> high, low |-> low,
        diff |-> IF highMoved THEN high.value - low.value
                 ELSE IF lowMoved THEN L.high.value - low.value ELSE L.diff]

Channel(v, L, i) ==
    LET trailing == i - PeriodLessOne(v)
    IN Widened(v, L, trailing, i, Follow(L.low, LAMBDA k : Low(v, k), Below, trailing, i),
                                  Follow(L.high, LAMBDA k : High(v, k), Above, trailing, i))

WILLR(v, L, i) ==
    Keeping(Channel(v, L, i), LAMBDA now :
        IF now.diff # 0 THEN -100 * Over(now.high.value - Close(v, i), now.diff) ELSE 0)

FastK(v, L, i) ==
    Keeping(Channel(v, L, i), LAMBDA now :
        IF now.diff # 0 THEN 100 * Over(Close(v, i) - now.low.value, now.diff) ELSE 0)

TA_WILLR(v) == Run(v, PeriodLessOne(v), ChannelBegin, WILLR)

-----------------------------------------------------------------------------
(* AROON, AROONOSC: how many bars ago the extremes were. *)

AroonExtremes(v, L, i) ==
    [low  |-> FollowLast(L.low, LAMBDA k : Low(v, k), Below, i - v.period, i),
     high |-> FollowLast(L.high, LAMBDA k : High(v, k), Above, i - v.period, i)]

AroonFactor(v) == (100 * Unit) \div v.period

AROON(v, L, i) ==
    LET now == AroonExtremes(v, L, i)
    IN WroteBoth(now, AroonFactor(v) * (v.period - (i - now.low.idx)),
                      AroonFactor(v) * (v.period - (i - now.high.idx)))

AROONOSC(v, L, i) ==
    LET now == AroonExtremes(v, L, i)
    IN Wrote(now, AroonFactor(v) * (now.high.idx - now.low.idx))

TA_AROON(v)    == Run(v, v.period, Extremes, AROON)
TA_AROONOSC(v) == Run(v, v.period, Extremes, AROONOSC)
=============================================================================
