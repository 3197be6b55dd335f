-------------------------- MODULE IndicatorSmoothing --------------------------
(***************************************************************************)
(* The functions that smooth: each output is computed from the one before, *)
(* so that it depends on every bar since the first.  A call seeds itself   *)
(* at startIdx less its lookback, which the unstable period lengthens, and *)
(* walks from there; the locals carry the bar they are for in at.          *)
(***************************************************************************)
EXTENDS IndicatorChanges, IndicatorSums

Metastock(v) == v.compatibility = "metastock"

\* PER_TO_K: 2 / (period + 1), as a fraction.
PerToK(period) == <<2, period + 1>>

-----------------------------------------------------------------------------
(* EMA. *)

EMA_Lookback(v) == v.period - 1 + v.unstable

EMA_Next(v, L, k) ==
    [at |-> k, ma |-> Quotient((Real(v, k) - L.ma) * v.k[1], v.k[2]) + L.ma]

\* The seed is the average of the first period, or for Metastock the first value of all.
EMA_Seed(v, first, last) ==
    IF Metastock(v) THEN [at |-> 0, ma |-> Real(v, 0)]
    ELSE [at |-> last, ma |-> Quotient(Total(LAMBDA k : Real(v, k), first, last), v.period)]

EMA_From(v, seed, s) == Repeated(LAMBDA L, k : EMA_Next(v, L, k), seed, seed.at + 1, s)

EMA_Begin(v, s) ==
    LET first == s - EMA_Lookback(v)
    IN EMA_From(v, EMA_Seed(v, first, first + v.period - 1), s)

EMA(v, L, i) ==
    Keeping(IF L.at = i THEN L ELSE EMA_Next(v, L, i), LAMBDA now : now.ma)

TA_INT_EMA(v) == Run(v, EMA_Lookback(v), EMA_Begin, EMA)
TA_EMA(v)     == TA_INT_EMA([v EXCEPT !.k = PerToK(v.period)])

-----------------------------------------------------------------------------
(* RSI, CMO: Wilder's averages of the gains and the losses.  For Metastock *)
(* the first output is from one bar less, unless there is an unstable      *)
(* period, and the averages are then started again.                        *)

RSI_Lookback(v) == v.period + v.unstable - (IF Metastock(v) THEN 1 ELSE 0)

Gains(L, price)  == IF price >= L.last THEN price - L.last ELSE 0
Losses(L, price) == IF price < L.last THEN L.last - price ELSE 0

GainsSummed(L, k, price) ==
    [L EXCEPT !.at = k, !.last = price, !.gain = @ + Gains(L, price), !.loss = @ + Losses(L, price)]
GainsSmoothed(v, L, k, price) ==
    [L EXCEPT !.at = k, !.last = price,
              !.gain = Quotient(@ * (v.period - 1) + Gains(L, price), v.period),
              !.loss = Quotient(@ * (v.period - 1) + Losses(L, price), v.period)]
GainsSmoothedFrom(v, L, i) ==
    Repeated(LAMBDA M, k : GainsSmoothed(v, M, k, Real(v, k)), L, L.at + 1, i)

\* The averages over the bars from .. to, after the last price L knows.
GainsAveraged(v, L, from, to) ==
    [Repeated(LAMBDA M, k : GainsSummed(M, k, Real(v, k)), L, from, to)
     EXCEPT !.gain = Quotient(@, v.period), !.loss = Quotient(@, v.period)]

RSI_Begin(v, s) ==
    [at |-> -1, start |-> s, last |-> Real(v, s - RSI_Lookback(v)), gain |-> 0, loss |-> 0]

RSI_Extra(v, L, i) == Metastock(v) /\ v.unstable = 0 /\ i = L.start

\* The averages at bar i, from those at the bar before or, at first, from the seed.
RSI_Locals(v, L, i) ==
    LET first == L.start - RSI_Lookback(v)
    IN IF RSI_Extra(v, L, i) THEN GainsAveraged(v, L, first, i)
       ELSE IF L.at = -1
            THEN GainsSmoothedFrom(v, GainsAveraged(v, L, first + 1, first + v.period), i)
       ELSE GainsSmoothed(v, L, i, Real(v, i))

\* After the extra first output of Metastock the locals are as RSI_Begin left them.
RSI_Wrote(v, L, i, now, value(_)) ==
    Wrote(IF RSI_Extra(v, L, i) /\ L.at = -1 THEN L ELSE now, value(now))

OfBoth(L, part) == IF L.gain + L.loss # 0 THEN 100 * Over(part, L.gain + L.loss) ELSE 0

RSI(v, L, i) ==
    RSI_Wrote(v, L, i, RSI_Locals(v, L, i), LAMBDA now : OfBoth(now, now.gain))
CMO(v, L, i) ==
    RSI_Wrote(v, L, i, RSI_Locals(v, L, i), LAMBDA now : OfBoth(now, now.gain - now.loss))

TA_RSI(v) == Run(v, RSI_Lookback(v), RSI_Begin, RSI)
TA_CMO(v) == Run(v, RSI_Lookback(v), RSI_Begin, CMO)

-----------------------------------------------------------------------------
(* ATR, NATR: Wilder's average of the true range.  TRANGE fills a buffer   *)
(* from the first bar on, so that today is an index into the buffer; the   *)
(* first value is SMA's.  NATR divides by inClose[today].                  *)

ATR_Lookback(v) == v.period + v.unstable

ATR_Next(v, L) ==
    [L EXCEPT !.today = @ + 1,
              !.atr = Quotient(@ * (v.period - 1) + L.ranges[L.today], v.period)]

ATR_Seed(v, mem) ==
    TA_INT_SMA(OnReal(v, Allocate(mem, "prevATRTemp", 1), v.period - 1, v.period - 1,
                      "tempBuffer", "prevATRTemp")).mem["prevATRTemp"][0]
ATR_From(v, s, mem) ==
    Repeated(LAMBDA L, k : ATR_Next(v, L),
             [start |-> s, today |-> v.period, ranges |-> mem["tempBuffer"],
              atr |-> ATR_Seed(v, mem)],
             1, v.unstable)

ATR_Begin(v, s) ==
    LET first == s - ATR_Lookback(v) + 1
        size  == ATR_Lookback(v) + v.end - s + 1
    IN ATR_From(v, s, TA_TRANGE(Calling(v, Allocate(v.mem, "tempBuffer", size),
                                        first, v.end, v.from, <<"tempBuffer">>)).mem)

ATR_Locals(v, L, i) == IF i = L.start THEN L ELSE ATR_Next(v, L)

ATR(v, L, i) == Keeping(ATR_Locals(v, L, i), LAMBDA now : now.atr)

\* Where the close is zero the 0.0 goes to the first element, whatever the bar.
NATR_Wrote(now, close) ==
    IF close # 0 THEN Wrote(now, 100 * Over(now.atr, close))
    ELSE [Wrote(now, 0) EXCEPT !.first = TRUE]
NATR_Of(v, now) == NATR_Wrote(now, Close(v, now.today))
NATR(v, L, i)   == NATR_Of(v, ATR_Locals(v, L, i))

\* No smoothing: the true range itself, from the same lookback.
NotSmoothed(v) == TA_TRANGE([v EXCEPT !.start = Larger(@, ATR_Lookback(v))])

TA_ATR(v)  == IF v.period =< 1 THEN NotSmoothed(v) ELSE Run(v, ATR_Lookback(v), ATR_Begin, ATR)
TA_NATR(v) == IF v.period =< 1 THEN NotSmoothed(v) ELSE Run(v, ATR_Lookback(v), ATR_Begin, NATR)

-----------------------------------------------------------------------------
(* The directional movement of a bar, and Wilder's sums of terms like it:  *)
(* those of the first period less one bars are added up, and from then on  *)
(* each sum gives up its period'th part as it takes the next bar's.        *)

Up(v, k)   == High(v, k) - High(v, k-1)
Down(v, k) == Low(v, k-1) - Low(v, k)
Prevailing(move, other) == IF move > 0 /\ move > other THEN move ELSE 0

PlusDM(v, k)  == Prevailing(Up(v, k), Down(v, k))
MinusDM(v, k) == Prevailing(Down(v, k), Up(v, k))

PlusMoves(v, k)   == [plus |-> PlusDM(v, k)]
MinusMoves(v, k)  == [minus |-> MinusDM(v, k)]
PlusInRange(v, k)  == [plus |-> PlusDM(v, k), range |-> TrueRange(v, k)]
MinusInRange(v, k) == [minus |-> MinusDM(v, k), range |-> TrueRange(v, k)]
Directions(v, k) ==
    [plus |-> PlusDM(v, k), minus |-> MinusDM(v, k), range |-> TrueRange(v, k)]

Added(S, terms) == [x \in DOMAIN S |-> S[x] + terms[x]]
Wilder(S, terms, period) == [x \in DOMAIN S |-> S[x] - Quotient(S[x], period) + terms[x]]

\* The sums at bar s of a walk that starts lookback bars earlier.
WilderSums(v, terms(_, _), lookback, s) ==
    LET first == s - lookback
    IN Repeated(LAMBDA S, k : Wilder(S, terms(v, k), v.period),
                Repeated(LAMBDA S, k : Added(S, terms(v, k)),
                         [x \in DOMAIN terms(v, s) |-> 0], first + 1, first + v.period - 1),
                first + v.period, s)

WilderLocals(v, terms(_, _), L, i) ==
    IF i = L.start THEN L ELSE [L EXCEPT !.sums = Wilder(@, terms(v, i), v.period)]

-----------------------------------------------------------------------------
(* PLUS_DM, MINUS_DM, PLUS_DI, MINUS_DI. *)

DM_Lookback(v) == IF v.period > 1 THEN v.period + v.unstable - 1 ELSE 1
DI_Lookback(v) == IF v.period > 1 THEN v.period + v.unstable ELSE 1

PLUS_DM_Begin(v, s)  == [start |-> s, sums |-> WilderSums(v, PlusMoves, DM_Lookback(v), s)]
MINUS_DM_Begin(v, s) == [start |-> s, sums |-> WilderSums(v, MinusMoves, DM_Lookback(v), s)]
PLUS_DI_Begin(v, s)  == [start |-> s, sums |-> WilderSums(v, PlusInRange, DI_Lookback(v), s)]
MINUS_DI_Begin(v, s) == [start |-> s, sums |-> WilderSums(v, MinusInRange, DI_Lookback(v), s)]

PLUS_DM(v, L, i) ==
    Keeping(WilderLocals(v, PlusMoves, L, i), LAMBDA now : now.sums.plus)
MINUS_DM(v, L, i) ==
    Keeping(WilderLocals(v, MinusMoves, L, i), LAMBDA now : now.sums.minus)

Share(move, range) == IF range # 0 THEN Over(move, range) ELSE 0

PercentPlus(S)  == 100 * Share(S.plus, S.range)
PercentMinus(S) == 100 * Share(S.minus, S.range)

PLUS_DI(v, L, i) ==
    Keeping(WilderLocals(v, PlusInRange, L, i), LAMBDA now : PercentPlus(now.sums))
MINUS_DI(v, L, i) ==
    Keeping(WilderLocals(v, MinusInRange, L, i), LAMBDA now : PercentMinus(now.sums))

\* With a period of 1 each bar is on its own, and the share is not a percentage.
PLUS_DM1(v, L, i)  == Wrote(L, PlusDM(v, i))
MINUS_DM1(v, L, i) == Wrote(L, MinusDM(v, i))
PLUS_DI1(v, L, i)  == Wrote(L, Share(PlusDM(v, i), TrueRange(v, i)))
MINUS_DI1(v, L, i) == Wrote(L, Share(MinusDM(v, i), TrueRange(v, i)))

TA_PLUS_DM(v) ==
    IF v.period =< 1 THEN Run(v, DM_Lookback(v), NoLocals, PLUS_DM1)
    ELSE Run(v, DM_Lookback(v), PLUS_DM_Begin, PLUS_DM)
TA_MINUS_DM(v) ==
    IF v.period =< 1 THEN Run(v, DM_Lookback(v), NoLocals, MINUS_DM1)
    ELSE Run(v, DM_Lookback(v), MINUS_DM_Begin, MINUS_DM)
TA_PLUS_DI(v) ==
    IF v.period =< 1 THEN Run(v, DI_Lookback(v), NoLocals, PLUS_DI1)
    ELSE Run(v, DI_Lookback(v), PLUS_DI_Begin, PLUS_DI)
TA_MINUS_DI(v) ==
    IF v.period =< 1 THEN Run(v, DI_Lookback(v), NoLocals, MINUS_DI1)
    ELSE Run(v, DI_Lookback(v), MINUS_DI_Begin, MINUS_DI)

-----------------------------------------------------------------------------
(* DX, ADX: how far the two directional indicators are apart, and its      *)
(* average.  Where there was no movement DX repeats the element before,    *)
(* which it reads from the output, and ADX keeps its average.              *)

HasDX(S) == S.range # 0 /\ PercentPlus(S) + PercentMinus(S) # 0
Apart(minus, plus) == 100 * Over(Abs(minus - plus), plus + minus)
DXOf(S)  == Apart(PercentMinus(S), PercentPlus(S))

DX_Begin(v, s) == [start |-> s, sums |-> WilderSums(v, Directions, DI_Lookback(v), s)]

DX(v, L, i) ==
    Keeping(WilderLocals(v, Directions, L, i), LAMBDA now :
        IF HasDX(now.sums) THEN DXOf(now.sums)
        ELSE IF i = L.start THEN 0 ELSE Element(v.mem, v.to[1], i - 1 - L.start))

TA_DX(v) == Run(v, DI_Lookback(v), DX_Begin, DX)

ADX_Lookback(v) == 2 * v.period + v.unstable - 1

\* The sums and sumDX over the period'th to the last bar but one of 2 * period.
WithSums(v, L, k) == [L EXCEPT !.sums = Wilder(@, Directions(v, k), v.period)]
DXAdded(L) == [L EXCEPT !.adx = @ + (IF HasDX(L.sums) THEN DXOf(L.sums) ELSE 0)]
DXSmoothed(v, L) ==
    IF HasDX(L.sums)
    THEN [L EXCEPT !.adx = Quotient(@ * (v.period - 1) + DXOf(L.sums), v.period)] ELSE L

ADX_Sum(v, L, k)  == DXAdded(WithSums(v, L, k))
ADX_Next(v, L, k) == DXSmoothed(v, WithSums(v, L, k))

ADX_First(v, s, half) ==
    Repeated(LAMBDA L, k : ADX_Sum(v, L, k),
             [start |-> s, adx |-> 0, sums |-> WilderSums(v, Directions, v.period - 1, half)],
             half + 1, half + v.period)
ADX_Begin(v, s) ==
    LET half == s - ADX_Lookback(v) + v.period - 1
    IN Repeated(LAMBDA L, k : ADX_Next(v, L, k),
                [ADX_First(v, s, half) EXCEPT !.adx = Quotient(@, v.period)],
                half + v.period + 1, s)

ADX(v, L, i) ==
    Keeping(IF i = L.start THEN L ELSE ADX_Next(v, L, i), LAMBDA now : now.adx)

TA_ADX(v) == Run(v, ADX_Lookback(v), ADX_Begin, ADX)
=============================================================================
