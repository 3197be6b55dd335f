------------------------- MODULE IndicatorComposites -------------------------
(***************************************************************************)
(* The functions that call others.  They allocate arrays for what they     *)
(* need in between, or use the arrays of the caller: which, depends on     *)
(* what the caller passed twice.                                           *)
(***************************************************************************)
EXTENDS IndicatorTrends, IndicatorExtremes, IndicatorCycles, IndicatorMath

Out(v, n) == v.to[n]
Input(v)  == v.from["inReal"]

\* A call whose range starts at the lookback at least.
From(v, lookback) == [v EXCEPT !.start = Larger(v.start, lookback)]
Empty(v)   == v.start > v.end

\* Mutant of Outputs: one too few.
OutputsLessOne(v) == v.end - v.start
Outputs(v) == v.end - v.start + 1

\* mem[dest][k] = value(k) for the n elements of the output.
EachElement(mem, dest, n, value(_, _)) == StoreEach(mem, dest, n, value)

-----------------------------------------------------------------------------
(* STDDEV, and the deviation from an average that is already there. *)

Deviation(variance) == IF variance > 0 THEN Sqrt(variance) ELSE 0

DeviationsFrom(v, var) ==
    [var EXCEPT !.mem = EachElement(@, Out(v, 1), var.nb, LAMBDA mem, k :
                            Times(Deviation(Element(mem, Out(v, 1), k)), v.nbDevUp))]
TA_STDDEV(v) == DeviationsFrom(v, TA_INT_VAR(v))

\* buffers: the arrays of the average and of the deviations; total is the sum of the squares of a
\* window that lacks its last bar.
Precalc_Next(v, buffers, beg, L, n) ==
    LET square(k) == Square(Element(L.mem, Input(v), k))
        total == L.total + square(beg + n)
        mean  == Quotient(total, v.period) - Square(Element(L.mem, buffers[1], n))
    IN [total |-> total - square(beg + 1 - v.period + n),
        mem |-> Store(L.mem, buffers[2], n, Deviation(mean))]

TA_INT_stddev_using_precalc_ma(v, buffers, average) ==
    Repeated(LAMBDA L, n : Precalc_Next(v, buffers, average.beg, L, n),
             [mem |-> average.mem,
              total |-> Total(LAMBDA k : Square(Element(average.mem, Input(v), k)),
                              average.beg + 1 - v.period, average.beg - 1)],
             0, average.nb - 1).mem

-----------------------------------------------------------------------------
(* DEMA, TEMA: two or three exponential averages, each of the one before.  *)
(* DEMA keeps the first in the output when that is the array of the input. *)

IntEMA(v, mem, start, end, input, output) ==
    TA_INT_EMA([OnReal(v, mem, start, end, input, output) EXCEPT !.k = PerToK(v.period)])

DEMA_Lookback(v) == 2 * EMA_Lookback(v)
TEMA_Lookback(v) == 3 * EMA_Lookback(v)

\* An average of the nb elements of the one before.
Again(v, mem, nb, input, output) == IntEMA(v, mem, 0, nb - 1, input, output)

Doubled(v, one, first, second) ==
    Done(EachElement(second.mem, Out(v, 1), second.nb, LAMBDA mem, k :
             2 * Element(mem, one, second.beg + k) - Element(mem, "secondEMA", k)),
         first.beg + second.beg, second.nb)
DEMAOf(v, one, first) ==
    Doubled(v, one, first,
            Again(v, Allocate(first.mem, "secondEMA", first.nb), first.nb, one, "secondEMA"))

TA_DEMA(u) ==
    LET v    == From(u, DEMA_Lookback(u))
        one  == IF Input(v) = Out(v, 1) THEN Out(v, 1) ELSE "firstEMA"
        room == IF one = "firstEMA" THEN Allocate(v.mem, one, DEMA_Lookback(v) + Outputs(v))
                ELSE v.mem
    IN IF Empty(v) THEN Nothing(v)
       ELSE DEMAOf(v, one, IntEMA(v, room, v.start - EMA_Lookback(v), v.end, Input(v), one))

Tripled(v, first, second, third) ==
    Done(EachElement(third.mem, Out(v, 1), third.nb, LAMBDA mem, k :
             Element(mem, Out(v, 1), k)
             + 3 * Element(mem, "firstEMA", third.beg + second.beg + k)
             - 3 * Element(mem, "secondEMA", third.beg + k)),
         third.beg + second.beg + first.beg, third.nb)
OfSecond(v, first, second) ==
    Tripled(v, first, second, Again(v, second.mem, second.nb, "secondEMA", Out(v, 1)))
TEMAOf(v, first) ==
    OfSecond(v, first, Again(v, Allocate(first.mem, "secondEMA", first.nb), first.nb,
                             "firstEMA", "secondEMA"))

TA_TEMA(u) ==
    LET v    == From(u, TEMA_Lookback(u))
        room == Allocate(v.mem, "firstEMA", TEMA_Lookback(v) + Outputs(v))
    IN IF Empty(v) THEN Nothing(v)
       ELSE TEMAOf(v, IntEMA(v, room, v.start - 2 * EMA_Lookback(v), v.end, Input(v), "firstEMA"))

-----------------------------------------------------------------------------
(* MA: the moving average of a type, each with its own lookback. *)

MA_Lookback(v) ==
    IF v.period =< 1 THEN 0
    ELSE CASE v.maType \in {"SMA", "WMA", "TRIMA"} -> PeriodLessOne(v)
           [] v.maType = "EMA"  -> EMA_Lookback(v)
           [] v.maType = "DEMA" -> DEMA_Lookback(v)
           [] v.maType = "TEMA" -> TEMA_Lookback(v)
           [] v.maType = "KAMA" -> KAMA_Lookback(v)
           [] v.maType = "T3"   -> T3_Lookback(v)
           [] v.maType = "MAMA" -> Lookback32(v)

\* The period does not matter to MAMA, and FAMA goes to a buffer of MA's own.
MAOfMAMA(v) ==
    TA_MAMA([v EXCEPT !.fastLimit = Unit \div 2, !.slowLimit = Unit \div 20,
                      !.to = <<Out(v, 1), "dummyBuffer">>,
                      !.mem = Allocate(@, "dummyBuffer", v.end - v.start + 1)])

TA_MA(v) ==
    IF v.period = 1 THEN Copied(v)
    ELSE CASE v.maType = "SMA"   -> TA_SMA(v)
           [] v.maType = "EMA"   -> TA_EMA(v)
           [] v.maType = "WMA"   -> TA_WMA(v)
           [] v.maType = "DEMA"  -> TA_DEMA(v)
           [] v.maType = "TEMA"  -> TA_TEMA(v)
           [] v.maType = "TRIMA" -> TA_TRIMA(v)
           [] v.maType = "KAMA"  -> TA_KAMA(v)
           [] v.maType = "T3"    -> TA_T3([v EXCEPT !.vFactor = (7 * Unit) \div 10])
           [] v.maType = "MAMA"  -> MAOfMAMA(v)

\* MA of some period and type, on a range, from one array into another.
Typed(v, period, maType) == [v EXCEPT !.period = period, !.maType = maType]
MAOf(v, period, maType, mem, start, end, input, output) ==
    TA_MA(Typed(OnReal(v, mem, start, end, input, output), period, maType))
MA_LookbackOf(v, period, maType) == MA_Lookback(Typed(v, period, maType))

\* MAVP: the average of each bar's own period.  A period is computed for all bars at once, and
\* the bars that have it are taken from there; 0 marks a bar that is done.
Clamped(v, k) ==
    LET given == Element(v.mem, v.from["inPeriods"], k) \div Unit
    IN Smaller(Larger(given, v.period), v.period2)

\* The elements from k on with the period of element k are copied from the average, and marked.
Copy(v, L, n, k, average) ==
    LET same == {j \in k .. (n - 1) : L.periods[j] = L.periods[k]}
    IN [periods |-> [j \in 0 .. (n-1) |-> IF j \in same \ {k} THEN 0 ELSE L.periods[j]],
        mem |-> Repeated(LAMBDA m, j :
                    IF j \in same THEN Store(m, Out(v, 1), j, m["localOutputArray"][j]) ELSE m,
                    average.mem, k, n - 1)]
Take(v, L, n, k) ==
    IF L.periods[k] = 0 THEN L
    ELSE Copy(v, L, n, k, MAOf(v, L.periods[k], v.maType, L.mem, v.start, v.end, Input(v),
                               "localOutputArray"))

TA_MAVP(u) ==
    LET v == From(u, MA_LookbackOf(u, u.period2, u.maType))
        n == Outputs(v)
    IN IF Empty(v) THEN Nothing(v)
       ELSE Done(Repeated(LAMBDA L, k : Take(v, L, n, k),
                          [mem |-> Allocate(v.mem, "localOutputArray", n),
                           periods |-> [k \in 0 .. (n-1) |-> Clamped(v, v.start + k)]],
                          0, n - 1).mem, v.start, n)

-----------------------------------------------------------------------------
(* TRIX: three exponential averages in one buffer, then the rate of change *)
(* over one bar.                                                           *)

TRIX_Lookback(v) == 3 * EMA_Lookback(v) + 1

\* The outputs of the last call, which begin at the range of this one.
Reported(v, last) == Done(last.mem, v.start, last.nb)

TA_TRIX(u) ==
    LET v    == From(u, TRIX_Lookback(u))
        size == Outputs(v) + TRIX_Lookback(v)
        left(n) == size - n * EMA_Lookback(v)
        again(one, n) == Again(v, one.mem, left(n), "tempBuffer", "tempBuffer")
    IN IF Empty(v) THEN Nothing(v)
       ELSE Reported(v, TA_ROC(
           [OnReal(v, again(again(IntEMA(v, Allocate(v.mem, "tempBuffer", size),
                                         v.start - TRIX_Lookback(v), v.end, Input(v),
                                         "tempBuffer"), 1), 2).mem,
                   0, left(3) - 1, "tempBuffer", Out(v, 1))
            EXCEPT !.period = 1]))

-----------------------------------------------------------------------------
(* MACD, MACDFIX, MACDEXT: the fast less the slow average, the average of  *)
(* that difference as a signal, and the difference of both.  The averages  *)
(* are computed from the signal's lookback before startIdx.                *)

Histogram(v, signal) ==
    Done(EachElement(signal.mem, Out(v, 3), signal.nb, LAMBDA mem, k :
             Element(mem, Out(v, 1), k) - Element(mem, Out(v, 2), k)),
         v.start, signal.nb)

\* The fast less the slow average, and what of it is the first output.
Subtracted(v, mem, n, lookbackSignal) ==
    Move(EachElement(mem, "fastBuffer", n, LAMBDA m, k :
             Element(m, "fastBuffer", k) - Element(m, "slowBuffer", k)),
         Out(v, 1), "fastBuffer", lookbackSignal, Outputs(v))

Agree(one, other, first, n) ==
    one.beg = first /\ other.beg = first /\ one.nb = n /\ other.nb = n

\* fast and slow(mem, start, end, output), signal(mem, end, output) are the calls.
AfterBoth(v, lookbackSignal, slowOut, fastOut, signal(_, _, _)) ==
    LET n == Outputs(v) + lookbackSignal
    IN IF Agree(slowOut, fastOut, v.start - lookbackSignal, n)
       THEN Histogram(v, signal(Subtracted(v, fastOut.mem, n, lookbackSignal), n - 1, Out(v, 2)))
       ELSE [Done(fastOut.mem, 0, 0) EXCEPT !.rc = "TA_INTERNAL_ERROR"]

AfterSlow(v, lookbackSignal, slowOut, fast(_, _, _, _), signal(_, _, _)) ==
    AfterBoth(v, lookbackSignal, slowOut,
              fast(slowOut.mem, v.start - lookbackSignal, v.end, "fastBuffer"), signal)

Convergence(v, lookbackSignal, fast(_, _, _, _), slow(_, _, _, _), signal(_, _, _)) ==
    LET n    == Outputs(v) + lookbackSignal
        room == Allocate(Allocate(v.mem, "fastBuffer", n), "slowBuffer", n)
    IN IF Empty(v) THEN Nothing(v)
       ELSE AfterSlow(v, lookbackSignal, slow(room, v.start - lookbackSignal, v.end, "slowBuffer"),
                      fast, signal)

\* A period of 0 stands for the fixed 12 and 26, with constants of their own.
FastOf(v) == IF v.period = 0 THEN [period |-> 12, k |-> <<3, 20>>]
             ELSE [period |-> v.period, k |-> PerToK(v.period)]
SlowOf(v) == IF v.period2 = 0 THEN [period |-> 26, k |-> <<3, 40>>]
             ELSE [period |-> v.period2, k |-> PerToK(v.period2)]

EMA_LookbackOf(v, period) == EMA_Lookback([v EXCEPT !.period = period])
EMAOf(v, average, mem, start, end, input, output) ==
    TA_INT_EMA([OnReal(v, mem, start, end, input, output)
                EXCEPT !.period = average.period, !.k = average.k])

\* If the slow period is the smaller one, they change places.
PeriodsSorted(v) ==
    IF v.period2 < v.period
    THEN [v EXCEPT !.period = v.period2, !.period2 = v.period,
                   !.maType = v.maType2, !.maType2 = v.maType]
    ELSE v

TA_INT_MACD(u) ==
    LET v == PeriodsSorted(u)
        lookbackSignal == EMA_LookbackOf(v, v.period3)
        w == From(v, lookbackSignal + EMA_LookbackOf(v, SlowOf(v).period))
    IN Convergence(w, lookbackSignal,
           LAMBDA mem, start, end, output :
               EMAOf(w, FastOf(w), mem, start, end, Input(w), output),
           LAMBDA mem, start, end, output :
               EMAOf(w, SlowOf(w), mem, start, end, Input(w), output),
           LAMBDA mem, end, output :
               EMAOf(w, [period |-> w.period3, k |-> PerToK(w.period3)], mem, 0, end,
                     "fastBuffer", output))

MACD_Lookback(v) ==
    EMA_LookbackOf(v, Larger(v.period, v.period2)) + EMA_LookbackOf(v, v.period3)
MACDFIX_Lookback(v) == EMA_LookbackOf(v, 26) + EMA_LookbackOf(v, v.period3)

TA_MACD(v)    == TA_INT_MACD(v)
TA_MACDFIX(v) == TA_INT_MACD([v EXCEPT !.period = 0, !.period2 = 0])

MACDEXT_Lookback(v) ==
    Larger(MA_LookbackOf(v, v.period, v.maType), MA_LookbackOf(v, v.period2, v.maType2))
    + MA_LookbackOf(v, v.period3, v.maType3)

TA_MACDEXT(u) ==
    LET w == From(PeriodsSorted(u), MACDEXT_Lookback(u))
    IN Convergence(w, MA_LookbackOf(w, w.period3, w.maType3),
           LAMBDA mem, start, end, output :
               MAOf(w, w.period, w.maType, mem, start, end, Input(w), output),
           LAMBDA mem, start, end, output :
               MAOf(w, w.period2, w.maType2, mem, start, end, Input(w), output),
           LAMBDA mem, end, output :
               MAOf(w, w.period3, w.maType3, mem, 0, end, "fastBuffer", output))

-----------------------------------------------------------------------------
(* APO, PPO: the fast less the slow average, or its share of the slow one. *)
(* The fast average starts earlier; it is read from where the slow starts. *)

\* Mutant of PO_Lookback: the second period is taken for the slow one.
PO_LookbackOfSecond(v) == MA_LookbackOf(v, v.period2, v.maType)

PO_Lookback(v) == MA_LookbackOf(v, Larger(v.period, v.period2), v.maType)

ShareOfSlow(apart, base) == IF base # 0 THEN 100 * Over(apart, base) ELSE 0

\* The fast average of the slow one's first bar is element shift.
Difference(v, percentage, shift, slow) ==
    LET base(mem, k)  == Element(mem, Out(v, 1), k)
        apart(mem, k) == Element(mem, "tempBuffer", shift + k) - base(mem, k)
    IN Done(EachElement(slow.mem, Out(v, 1), slow.nb, LAMBDA mem, k :
                IF percentage THEN ShareOfSlow(apart(mem, k), base(mem, k)) ELSE apart(mem, k)),
            slow.beg, slow.nb)
FromSlowStart(v, percentage, fast, slow) == Difference(v, percentage, slow.beg - fast.beg, slow)
AfterFast(v, percentage, fast) ==
    FromSlowStart(v, percentage, fast,
                MAOf(v, v.period2, v.maType, fast.mem, v.start, v.end, Input(v), Out(v, 1)))

TA_INT_PO(u, percentage) ==
    LET v    == [PeriodsSorted(u) EXCEPT !.maType = u.maType]
        room == Allocate(v.mem, "tempBuffer", Outputs(v))
    IN AfterFast(v, percentage,
                 MAOf(v, v.period, v.maType, room, v.start, v.end, Input(v), "tempBuffer"))

TA_APO(v) == TA_INT_PO(v, FALSE)
TA_PPO(v) == TA_INT_PO(v, TRUE)

-----------------------------------------------------------------------------
(* BBANDS: a moving average and a band of deviations about it.  Outputs 1, *)
(* 2, 3 are the upper, middle and lower band; the average and the          *)
(* deviation go to two of them, neither of which may be the input.         *)

BandBuffers(v) ==
    CASE Input(v) = Out(v, 1) -> <<Out(v, 2), Out(v, 3)>>
      [] Input(v) # Out(v, 1) /\ Input(v) = Out(v, 2) -> <<Out(v, 3), Out(v, 1)>>
      [] OTHER -> <<Out(v, 2), Out(v, 1)>>

\* The deviation of an average that is there already can be had faster, for SMA.
Width(v, buffers, average) ==
    IF v.maType = "SMA"
    THEN [average EXCEPT !.mem = TA_INT_stddev_using_precalc_ma(v, buffers, average)]
    ELSE TA_STDDEV([OnReal(v, average.mem, average.beg, v.end, Input(v), buffers[2])
                    EXCEPT !.nbDevUp = Unit])

Band(v, mem, k, middle, deviation) ==
    Store(Store(mem, Out(v, 1), k, middle + Times(deviation, v.nbDevUp)),
          Out(v, 3), k, middle - Times(deviation, v.nbDevDn))

Bands(v, buffers, width) ==
    Done(Repeated(LAMBDA mem, k : Band(v, mem, k, Element(mem, Out(v, 2), k),
                                       Element(mem, buffers[2], k)),
                  IF buffers[1] = Out(v, 2) THEN width.mem
                  ELSE Move(width.mem, Out(v, 2), buffers[1], 0, width.nb),
                  0, width.nb - 1),
         width.beg, width.nb)

About(v, buffers, average) ==
    IF average.nb = 0 THEN average ELSE Bands(v, buffers, Width(v, buffers, average))

TA_BBANDS(v) ==
    LET buffers == BandBuffers(v)
    IN IF Input(v) \in Range(buffers) THEN [Nothing(v) EXCEPT !.rc = "TA_BAD_PARAM"]
       ELSE About(v, buffers, MAOf(v, v.period, v.maType, v.mem, v.start, v.end, Input(v),
                                   buffers[1]))

-----------------------------------------------------------------------------
(* STOCH, STOCHF: where the close is in the channel of the highest and the *)
(* lowest price, smoothed.  The raw values go to the first output that is  *)
(* the array of an input, and to a buffer if none is.                      *)

StochBuffer(v) ==
    LET inputs == {v.from["inHigh"], v.from["inLow"], v.from["inClose"]}
    IN IF Out(v, 1) \in inputs THEN Out(v, 1)
       ELSE IF Out(v, 2) \in inputs THEN Out(v, 2) ELSE "tempBuffer"

\* The raw values for the bars from v.start - lookback to v.end, and their number; lookback is
\* that of the averages.
RawK(v, lookback) ==
    LET n    == Outputs(v) + lookback
        room == IF StochBuffer(v) = "tempBuffer" THEN Allocate(v.mem, "tempBuffer", n) ELSE v.mem
    IN Run(Calling(v, room, v.start - lookback, v.end, v.from, <<StochBuffer(v)>>),
           PeriodLessOne(v), ChannelBegin, FastK)

\* The raw values, or an average of them, smoothed; and the outputs when the last is done.
SmoothedK(v, raw, period, maType, output) ==
    MAOf(v, period, maType, raw.mem, 0, raw.nb - 1, StochBuffer(v), output)
FromBuffer(v, lookback, D) ==
    Done(Move(D.mem, Out(v, 1), StochBuffer(v), lookback, D.nb), v.start, D.nb)

STOCHF_Lookback(v) == PeriodLessOne(v) + MA_LookbackOf(v, v.period2, v.maType)

TA_STOCHF(u) ==
    LET v == From(u, STOCHF_Lookback(u))
        lookbackFastD == MA_LookbackOf(v, v.period2, v.maType)
    IN IF Empty(v) THEN Nothing(v)
       ELSE FromBuffer(v, lookbackFastD,
                SmoothedK(v, RawK(v, lookbackFastD), v.period2, v.maType, Out(v, 2)))

STOCH_Lookback(v) == PeriodLessOne(v) + MA_LookbackOf(v, v.period2, v.maType)
                                      + MA_LookbackOf(v, v.period3, v.maType2)

TA_STOCH(u) ==
    LET v == From(u, STOCH_Lookback(u))
        lookbackDSlow == MA_LookbackOf(v, v.period3, v.maType2)
        lookbackKSlow == MA_LookbackOf(v, v.period2, v.maType)
    IN IF Empty(v) THEN Nothing(v)
       ELSE FromBuffer(v, lookbackDSlow,
                SmoothedK(v, SmoothedK(v, RawK(v, lookbackDSlow + lookbackKSlow),
                                       v.period2, v.maType, StochBuffer(v)),
                          v.period3, v.maType2, Out(v, 2)))

\* STOCHRSI: STOCHF of RSI as high, low and close.
STOCHRSI_Lookback(v) ==
    RSI_Lookback(v) + STOCHF_Lookback([v EXCEPT !.period = v.period2, !.period2 = v.period3])

StochOf(v, inner, n, rsi) ==
    Reported(v, TA_STOCHF(Calling(inner, rsi.mem, 0, n - 1,
                               [inHigh |-> "tempRSIBuffer", inLow |-> "tempRSIBuffer",
                                inClose |-> "tempRSIBuffer"], v.to)))

TA_STOCHRSI(u) ==
    LET v == From(u, STOCHRSI_Lookback(u))
        inner == [v EXCEPT !.period = v.period2, !.period2 = v.period3]
        lookback == STOCHF_Lookback(inner)
        n     == Outputs(v) + lookback
    IN IF Empty(v) THEN Nothing(v)
       ELSE StochOf(v, inner, n,
                TA_RSI(OnReal(v, Allocate(v.mem, "tempRSIBuffer", n),
                              v.start - lookback, v.end, Input(v), "tempRSIBuffer")))

-----------------------------------------------------------------------------
(* ADXR: the average of ADX now and period - 1 bars ago. *)

ADXR_Lookback(v) == PeriodLessOne(v) + ADX_Lookback(v)

Rating(v, adx) ==
    Done(EachElement(adx.mem, Out(v, 1), Outputs(v), LAMBDA mem, k :
             (Element(mem, "adx", k + PeriodLessOne(v)) + Element(mem, "adx", k)) \div 2),
         v.start, Outputs(v))

TA_ADXR(u) ==
    LET v == From(u, ADXR_Lookback(u))
    IN IF Empty(v) THEN Nothing(v)
       ELSE Rating(v, TA_ADX(Calling(v, Allocate(v.mem, "adx", v.end - v.start + v.period),
                                     v.start - PeriodLessOne(v), v.end, v.from, <<"adx">>)))
=============================================================================
