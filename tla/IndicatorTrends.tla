--------------------------- MODULE IndicatorTrends ---------------------------
(***************************************************************************)
(* KAMA and T3, two moving averages that are not sums or simple            *)
(* exponential averages, ADOSC, and the parabolic SAR in its two forms.    *)
(***************************************************************************)
EXTENDS IndicatorSmoothing

-----------------------------------------------------------------------------
(* KAMA: the less the price wanders on its way through the window, the     *)
(* faster the average follows.  trailing is the value that left the window *)
(* last, kept because the output may be the array of the input.            *)

KAMA_Lookback(v) == v.period + v.unstable

\* tempReal*constDiff+constMax, squared: constMax is 2/31 and constDiff 2/3 - 2/31.
Smoothing(sum, roc) ==
    LET efficiency == IF sum =< roc \/ sum = 0 THEN Unit ELSE Abs(Over(roc, sum))
    IN Square(Quotient(56 * efficiency + 6 * Unit, 93))

KAMA_Smooth(v, L, k) ==
    LET left == Real(v, k - v.period)
    IN [at |-> k, sum |-> L.sum, trailing |-> left,
        kama |-> L.kama +
                 Times(Real(v, k) - L.kama, Smoothing(L.sum, Real(v, k) - left))]

KAMA_Next(v, L, k) ==
    KAMA_Smooth(v, [L EXCEPT !.sum = @ - Abs(L.trailing - Real(v, k - v.period))
                                       + Abs(Real(v, k) - Real(v, k-1))], k)

KAMA_Begin(v, s) ==
    LET first == s - KAMA_Lookback(v)
        last  == first + v.period
        sum   == Total(LAMBDA k : Abs(Real(v, k-1) - Real(v, k)), first + 1, last)
    IN Repeated(LAMBDA L, k : KAMA_Next(v, L, k),
                KAMA_Smooth(v, [sum |-> sum, kama |-> Real(v, last - 1)], last), last + 1, s)

KAMA(v, L, i) ==
    Keeping(IF L.at = i THEN L ELSE KAMA_Next(v, L, i), LAMBDA now : now.kama)

TA_KAMA(v) == Run(v, KAMA_Lookback(v), KAMA_Begin, KAMA)

-----------------------------------------------------------------------------
(* T3: six exponential averages, each of the one before.  The n'th is      *)
(* seeded with the average of period values of the one before it, while    *)
(* those before it go on.                                                  *)

T3_Lookback(v) == 6 * (v.period - 1) + v.unstable

Follows(value, average, period) == Quotient(2 * value + (period - 1) * average, period + 1)

\* e1 .. en after one more value.
Chain(e, value, period) ==
    LET after[n \in 0 .. Len(e)] == IF n = 0 THEN value ELSE Follows(after[n-1], e[n], period)
    IN [n \in 1 .. Len(e) |-> after[n]]

\* The next average's seed: the last one now and its next period - 1 values.
LastAdded(M, e) == [e |-> e, total |-> M.total + Last(e)]
T3_Fill(v, L, last) ==
    Repeated(LAMBDA M, k : LastAdded(M, Chain(M.e, Real(v, k), v.period)),
             [e |-> L.e, total |-> Last(L.e)], L.at + 1, last)
T3_Seeded(v, at, filled) ==
    [at |-> at, e |-> Append(filled.e, Quotient(filled.total, v.period))]
T3_Seed(v, L) ==
    LET last == L.at + v.period - 1 IN T3_Seeded(v, last, T3_Fill(v, L, last))

T3_Next(v, L, k) == [at |-> k, e |-> Chain(L.e, Real(v, k), v.period)]

T3_From(v, seeds, s) == Repeated(LAMBDA L, k : T3_Next(v, L, k), seeds, seeds.at + 1, s)

T3_Begin(v, s) ==
    LET first == s - T3_Lookback(v)
        last  == first + v.period - 1
        e1    == Quotient(Total(LAMBDA k : Real(v, k), first, last), v.period)
    IN T3_From(v, Repeated(LAMBDA L, n : T3_Seed(v, L), [at |-> last, e |-> <<e1>>], 2, 6), s)

\* c1*e6+c2*e5+c3*e4+c4*e3
Combined(e, factor) ==
    LET square == Times(factor, factor)
        cube   == Times(square, factor)
    IN (-cube * e[6] + 3 * (square + cube) * e[5] - (6 * square + 3 * (factor + cube)) * e[4]
        + (Unit + 3 * factor + cube + 3 * square) * e[3]) \div Unit

T3(v, L, i) ==
    Keeping(IF L.at = i THEN L ELSE T3_Next(v, L, i), LAMBDA now : Combined(now.e, v.vFactor))

TA_T3(v) == Run(v, T3_Lookback(v), T3_Begin, T3)

-----------------------------------------------------------------------------
(* ADOSC: the fast less the slow exponential average of AD, which counts   *)
(* from the first bar of the walk; both averages start from its value      *)
(* there.                                                                  *)

ADOSC_Lookback(v) == EMA_Lookback([v EXCEPT !.period = Larger(v.period, v.period2)])

ADOSC_Seed(ad) == [ad |-> ad, fast |-> ad, slow |-> ad]
ADOSC_Follow(v, L, ad) ==
    [ad |-> ad, fast |-> Follows(ad, L.fast, v.period), slow |-> Follows(ad, L.slow, v.period2)]
ADOSC_Next(v, L, k) == ADOSC_Follow(v, L, L.ad + MoneyFlow(v, k))

ADOSC_Begin(v, s) ==
    LET first == s - ADOSC_Lookback(v)
    IN Repeated(LAMBDA L, k : ADOSC_Next(v, L, k),
                ADOSC_Seed(MoneyFlow(v, first)), first + 1, s - 1)

ADOSC(v, L, i) == Keeping(ADOSC_Next(v, L, i), LAMBDA now : now.fast - now.slow)

TA_ADOSC(v) == Run(v, ADOSC_Lookback(v), ADOSC_Begin, ADOSC)

-----------------------------------------------------------------------------
(* SAR, SAREXT: a stop that closes in on the price and changes side when   *)
(* the price reaches it.  a holds for each side (long or short) the first  *)
(* acceleration, its increment and its maximum; the element written is     *)
(* sign[side] of the stop.                                                 *)

\* Mutant of Outside: only the bar before is looked at.
OutsideLast(v, L, long, stop, i) ==
    IF long THEN Smaller(stop, L.low) ELSE Larger(stop, L.high)

\* The stop is never inside the range of this bar or of the one before.
Outside(v, L, long, stop, i) ==
    IF long THEN Smaller(stop, Smaller(L.low, Low(v, i)))
    ELSE Larger(stop, Larger(L.high, High(v, i)))

\* Minus the directional movement decides the side the first bar is on.
FirstLong(v, s) ==
    TA_MINUS_DM([Calling(v, Allocate(v.mem, "ep_temp", 1), s, s, v.from, <<"ep_temp">>)
                 EXCEPT !.period = 1]).mem["ep_temp"][0] =< 0

Extreme(v, long, i) == IF long THEN High(v, i) ELSE Low(v, i)

\* The local variables before bar s: the bar before it counts as having had its range.
Stop(v, s, long, stop, a) ==
    [long |-> long, af |-> a[long].init, stop |-> stop,
     ep |-> Extreme(v, long, s), low |-> Low(v, s), high |-> High(v, s)]

Reached(v, L, i) == IF L.long THEN Low(v, i) =< L.stop ELSE High(v, i) >= L.stop
Further(L, extreme) == IF L.long THEN extreme > L.ep ELSE extreme < L.ep

Offset(long, stop, offset) == stop + (IF long THEN -1 ELSE 1) * Times(stop, offset)

\* The locals of bar i on the other side: the stop is the extreme of the side that ends.
Turned(v, L, long, i, a, offset) ==
    [L EXCEPT !.long = long, !.af = a[long].init, !.ep = Extreme(v, long, i),
              !.stop = Offset(long, Outside(v, L, long, L.ep, i), offset)]

\* The locals of bar i on the same side: a new extreme accelerates the stop.
Held(L, extreme, a) ==
    IF ~Further(L, extreme) THEN L
    ELSE [L EXCEPT !.ep = extreme, !.af = Smaller(@ + a[L.long].more, a[L.long].most)]

\* The stop of now is written, and the next one is computed.
WroteStop(v, now, i, sign) ==
    Wrote([now EXCEPT !.low = Low(v, i), !.high = High(v, i),
                      !.stop = Outside(v, now, now.long, @ + Times(now.af, now.ep - @), i)],
          sign[now.long] * now.stop)

StopThenNext(v, L, i, a, offset, sign) ==
    WroteStop(v, IF Reached(v, L, i) THEN Turned(v, L, ~L.long, i, a, offset)
                 ELSE Held(L, Extreme(v, L.long, i), a), i, sign)

BothSides(x, y) == [long \in BOOLEAN |-> IF long THEN x ELSE y]

\* An acceleration above the maximum is the maximum.
SAR_Accelerations(v) ==
    LET init == Smaller(v.acceleration, v.maximum)
        side == [init |-> init, more |-> init, most |-> v.maximum]
    IN BothSides(side, side)

SAR_From(v, s, long) == Stop(v, s, long, Extreme(v, ~long, s-1), SAR_Accelerations(v))
SAR_Begin(v, s) == SAR_From(v, s, FirstLong(v, s))

SAR(v, L, i) == StopThenNext(v, L, i, SAR_Accelerations(v), 0, BothSides(1, 1))

TA_SAR(v) == Run(v, 1, SAR_Begin, SAR)

\* Both sides of v.sides are given; each is capped by its own maximum.
SAREXT_Accelerations(v) ==
    [long \in BOOLEAN |->
        LET side == v.sides[long]
        IN [side EXCEPT !.init = Smaller(@, side.most), !.more = Smaller(@, side.most)]]

\* A start value is the first stop; its sign is the side.
SAREXT_From(v, s, long) ==
    Stop(v, s, long, IF v.startValue # 0 THEN Abs(v.startValue) ELSE Extreme(v, ~long, s-1),
         SAREXT_Accelerations(v))
SAREXT_Begin(v, s) ==
    SAREXT_From(v, s, IF v.startValue = 0 THEN FirstLong(v, s) ELSE v.startValue > 0)

\* The stop of a short position is written as a negative number.
SAREXT(v, L, i) ==
    StopThenNext(v, L, i, SAREXT_Accelerations(v), v.offsetOnReverse, BothSides(1, -1))

TA_SAREXT(v) == Run(v, 1, SAREXT_Begin, SAREXT)
=============================================================================
