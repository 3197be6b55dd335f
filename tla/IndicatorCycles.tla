---------------------------- MODULE IndicatorCycles ----------------------------
(***************************************************************************)
(* The functions that measure the dominant cycle of a price with Hilbert   *)
(* transforms: HT_DCPERIOD, HT_DCPHASE, HT_PHASOR, HT_SINE, HT_TRENDLINE,  *)
(* HT_TRENDMODE and MAMA.                                                  *)
(*                                                                         *)
(* Each walks the bars from its lookback before startIdx on, and keeps     *)
(* what it needs of the past in a few locals: a weighted average updated   *)
(* in place, and for odd and even bars apart a ring of three values for    *)
(* each transform, the inputs before, and the detrender delayed by three   *)
(* bars.  One index serves the rings of both parities.                     *)
(***************************************************************************)
EXTENDS Indicators

Lookback32(v) == 32 + v.unstable
Lookback63(v) == 63 + v.unstable

-----------------------------------------------------------------------------
(* The price smoother: the weighted average of the last 4 values. *)

PriceWMA_Begin(v, first) ==
    [sub |-> Total(LAMBDA k : Real(v, k), first, first + 2),
     sum |-> Total(LAMBDA k : (k - first + 1) * Real(v, k), first, first + 2),
     trailing |-> 0, trailingIdx |-> first, smoothed |-> 0]

DO_PRICE_WMA(v, W, today) ==
    LET sub == W.sub + Real(v, today) - W.trailing
        sum == W.sum + 4 * Real(v, today)
    IN [sub |-> sub, sum |-> sum - sub, trailing |-> Real(v, W.trailingIdx),
        trailingIdx |-> W.trailingIdx + 1, smoothed |-> sum \div 10]

-----------------------------------------------------------------------------
(* The transforms of a bar. *)

Transformed == {"detrender", "Q1", "jI", "jQ"}
Parities    == {0, 1}

HilbertAtRest == [ring |-> [n \in 0 .. 2 |-> 0], prev |-> 0, prevInput |-> 0, value |-> 0]

DO_HILBERT_TRANSFORM(h, input, hilbertIdx, adjusted) ==
    LET temp == (962 * input) \div 10000
        prev == (5769 * h.prevInput) \div 10000
    IN [ring |-> [h.ring EXCEPT ![hilbertIdx] = temp], prev |-> prev, prevInput |-> input,
        value |-> Times(temp - h.ring[hilbertIdx] - h.prev + prev, adjusted)]

HilbertTransforms(C, parity, smoothed) ==
    LET adjusted == (75 * C.period) \div 1000 + (54 * Unit) \div 100
        next(x, input) == DO_HILBERT_TRANSFORM(C.hilbert[parity][x], input, C.hilbertIdx, adjusted)
        detrender == next("detrender", smoothed)
        Q1 == next("Q1", detrender.value)
    IN [detrender |-> detrender, Q1 |-> Q1,
        jI |-> next("jI", C.delayed[parity].prev3), jQ |-> next("jQ", Q1.value)]

\* The period follows the angle between this bar's phasor and the last, within bounds.
Limited(period, last) == Larger(Smaller(period, (15 * last) \div 10), (67 * last) \div 100)
Clipped(period) == Smaller(Larger(period, 6 * Unit), 50 * Unit)
PeriodAfter(last, Re, Im) ==
    LET measured == IF Im # 0 /\ Re # 0 THEN Over(360 * Unit, ArcTan(Im, Re)) ELSE last
    IN (2 * Clipped(Limited(measured, last)) + 8 * last) \div 10

CycleAtRest ==
    [hilbert |-> [parity \in Parities |-> [x \in Transformed |-> HilbertAtRest]], hilbertIdx |-> 0,
     delayed |-> [parity \in Parities |-> [prev2 |-> 0, prev3 |-> 0]],
     I1 |-> 0, Q1 |-> 0, prevI2 |-> 0, prevQ2 |-> 0, Re |-> 0, Im |-> 0, period |-> 0]

\* The index of the rings moves on after an even bar.
IdxAfter(C, parity) == IF parity = 0 THEN (C.hilbertIdx + 1) % 3 ELSE C.hilbertIdx

\* A new value weighs 2 in 10 against the last.
Smoothed(new, last) == (2 * new + 8 * last) \div 10

\* The products of this bar's phasor with that of the last, and the period from them.
WithPeriod(C) == [C EXCEPT !.period = PeriodAfter(@, C.Re, C.Im)]
Discriminated(C, last) ==
    WithPeriod([C EXCEPT
        !.Re = Smoothed(Times(C.prevI2, last.prevI2) + Times(C.prevQ2, last.prevQ2), @),
        !.Im = Smoothed(Times(C.prevI2, last.prevQ2) - Times(C.prevQ2, last.prevI2), @)])

\* A bar: the detrender is saved for the bars of the other parity.
Rotated(C, parity, h) ==
    Discriminated(
        [C EXCEPT !.hilbert[parity] = h,
                  !.hilbertIdx = IdxAfter(C, parity),
                  !.delayed[1 - parity] = [prev2 |-> h.detrender.value, prev3 |-> @.prev2],
                  !.I1 = C.delayed[parity].prev3,
                  !.Q1 = h.Q1.value,
                  !.prevI2 = Smoothed(C.delayed[parity].prev3 - h.jQ.value, @),
                  !.prevQ2 = Smoothed(h.Q1.value + h.jI.value, @)],
        C)

CycleAfter(C, today, smoothed) ==
    Rotated(C, today % 2, HilbertTransforms(C, today % 2, smoothed))

-----------------------------------------------------------------------------
(* The walk: warm bars go through the smoother alone, the bars after them  *)
(* through next; the outputs begin with bar s.                             *)

CyclesBegin(v, s, lookback, warm, next(_, _, _), locals) ==
    LET first == s - lookback
    IN Repeated(LAMBDA L, k : next(v, L, k),
                [wma |-> Repeated(LAMBDA w, k : DO_PRICE_WMA(v, w, k), PriceWMA_Begin(v, first),
                                  first + 3, first + 2 + warm),
                 cycle |-> CycleAtRest] @@ locals,
                first + 3 + warm, s - 1)

WithCycle(L, today) == [L EXCEPT !.cycle = CycleAfter(@, today, L.wma.smoothed)]

Cycles_Next(v, L, today) == WithCycle([L EXCEPT !.wma = DO_PRICE_WMA(v, @, today)], today)

SmoothPeriodAfter(L) == (33 * L.cycle.period + 67 * L.smoothPeriod) \div 100
WithSmoothPeriod(L)  == [L EXCEPT !.smoothPeriod = SmoothPeriodAfter(L)]

Shown(L, output(_)) == [L |-> L, out |-> output(L), first |-> FALSE]

RunCycles(v, lookback, warm, next(_, _, _), locals, output(_)) ==
    Run(v, lookback,
        LAMBDA u, s : CyclesBegin(u, s, lookback, warm, next, locals),
        LAMBDA u, L, today : Shown(next(u, L, today), output))

\* HT_PHASOR: outInPhase, outQuadrature.
TA_HT_PHASOR(v) ==
    RunCycles(v, Lookback32(v), 9, Cycles_Next, <<>>, LAMBDA L : <<L.cycle.I1, L.cycle.Q1>>)

HT_DCPERIOD(v, L, today) == WithSmoothPeriod(Cycles_Next(v, L, today))

TA_HT_DCPERIOD(v) ==
    RunCycles(v, Lookback32(v), 9, HT_DCPERIOD, [smoothPeriod |-> 0], LAMBDA L : <<L.smoothPeriod>>)

-----------------------------------------------------------------------------
(* HT_DCPHASE, HT_SINE: the phase of the cycle, from the smoothed prices   *)
(* of its last period, which a circular buffer of 50 keeps.                *)

SMOOTH_PRICE_SIZE == 50

PhaseAtRest ==
    [smoothPeriod |-> 0, smoothPrice |-> [k \in 0 .. (SMOOTH_PRICE_SIZE - 1) |-> 0],
     smoothPrice_Idx |-> 0, DCPhase |-> 0]

DCPeriodInt(L) == (L.smoothPeriod + Unit \div 2) \div Unit

\* The real and the imaginary part: the prices of the period, weighted by a wave.
Part(L, wave(_), n) ==
    Total(LAMBDA k : Times(wave((360 * Unit * k) \div n),
                           L.smoothPrice[(L.smoothPrice_Idx - k) % SMOOTH_PRICE_SIZE]), 0, n - 1)

PhaseOfParts(last, realPart, imagPart) ==
    IF imagPart # 0 THEN ArcTan(realPart, imagPart)
    ELSE IF realPart < 0 THEN last - 90 * Unit
    ELSE IF realPart > 0 THEN last + 90 * Unit ELSE last

Unwound(phase) == IF phase > 315 * Unit THEN phase - 360 * Unit ELSE phase

\* The smoother lags one bar behind.
Compensated(L, realPart, imagPart) ==
    Unwound(PhaseOfParts(L.DCPhase, realPart, imagPart) + 90 * Unit
            + Over(360 * Unit, L.smoothPeriod) + (IF imagPart < 0 THEN 180 * Unit ELSE 0))

DCPhaseAfter(L) == Compensated(L, Part(L, Sin, DCPeriodInt(L)), Part(L, Cos, DCPeriodInt(L)))

Remember(L) == [L EXCEPT !.smoothPrice[L.smoothPrice_Idx] = L.wma.smoothed]

CIRCBUF_NEXT(L) == [L EXCEPT !.smoothPrice_Idx = (@ + 1) % SMOOTH_PRICE_SIZE]

WithPhase(L) == [L EXCEPT !.DCPhase = DCPhaseAfter(L)]

DCPhase_Next(v, L, today) == WithPhase(Remember(HT_DCPERIOD(v, L, today)))

HT_DCPHASE(v, L, today) == CIRCBUF_NEXT(DCPhase_Next(v, L, today))

Sine(L)     == Sin(L.DCPhase)
LeadSine(L) == Sin(L.DCPhase + 45 * Unit)

TA_HT_DCPHASE(v) ==
    RunCycles(v, Lookback63(v), 34, HT_DCPHASE, PhaseAtRest, LAMBDA L : <<L.DCPhase>>)
TA_HT_SINE(v) ==
    RunCycles(v, Lookback63(v), 34, HT_DCPHASE, PhaseAtRest, LAMBDA L : <<Sine(L), LeadSine(L)>>)

-----------------------------------------------------------------------------
(* HT_TRENDLINE: the mean over the last period, of the input itself, and   *)
(* smoothed.                                                               *)

TrendAtRest == [smoothPeriod |-> 0, iTrend1 |-> 0, iTrend2 |-> 0, iTrend3 |-> 0, trendline |-> 0]

Trendline_Next(v, L, today) ==
    LET n == DCPeriodInt(L)
        mean == IF n > 0 THEN Quotient(Total(LAMBDA k : Real(v, today - k), 0, n - 1), n) ELSE 0
    IN [L EXCEPT !.trendline = (4 * mean + 3 * L.iTrend1 + 2 * L.iTrend2 + L.iTrend3) \div 10,
                 !.iTrend3 = L.iTrend2, !.iTrend2 = L.iTrend1, !.iTrend1 = mean]

HT_TRENDLINE(v, L, today) == Trendline_Next(v, HT_DCPERIOD(v, L, today), today)

TA_HT_TRENDLINE(v) ==
    RunCycles(v, Lookback63(v), 34, HT_TRENDLINE, TrendAtRest, LAMBDA L : <<L.trendline>>)

-----------------------------------------------------------------------------
(* HT_TRENDMODE: 1 in a trend, 0 in a cycle.  A trend is assumed, but not  *)
(* within half a period of a crossing of the sine waves nor while the      *)
(* phase changes as in a cycle; yet always away from the trendline.        *)

ModeAtRest == [daysInTrend |-> 0, trend |-> 0, sine |-> 0, leadSine |-> 0]
              @@ PhaseAtRest @@ TrendAtRest

\* The phase changes by what the period says.
Turns(change, smoothPeriod) ==
    LET turn == Over(360 * Unit, smoothPeriod)
    IN smoothPeriod # 0 /\ change > (67 * turn) \div 100 /\ change < (15 * turn) \div 10

Crosses(sine, lead, prevSine, prevLead) ==
    (sine > lead /\ prevSine =< prevLead) \/ (sine < lead /\ prevSine >= prevLead)

\* The smoothed price is 1.5 % or more off the trendline.
OffTrendline(price, trendline) ==
    trendline # 0 /\ 1000 * Abs(Over(price - trendline, trendline)) >= 15 * Unit

WithMode(L, last, crossed, days) ==
    [L EXCEPT !.daysInTrend = days,
              !.trend = IF OffTrendline(L.smoothPrice[L.smoothPrice_Idx], L.trendline) THEN 1
                        ELSE IF \/ crossed
                                \/ days * Unit < L.smoothPeriod \div 2
                                \/ Turns(L.DCPhase - last.DCPhase, L.smoothPeriod) THEN 0 ELSE 1]

ModeAfter(L, last) ==
    LET crossed == Crosses(L.sine, L.leadSine, last.sine, last.leadSine)
    IN WithMode(L, last, crossed, IF crossed THEN 1 ELSE L.daysInTrend + 1)

WithSines(L) == [L EXCEPT !.sine = Sine(L), !.leadSine = LeadSine(L)]

HT_TRENDMODE(v, L, today) ==
    CIRCBUF_NEXT(ModeAfter(WithSines(Trendline_Next(v, DCPhase_Next(v, L, today), today)), L))

TA_HT_TRENDMODE(v) ==
    RunCycles(v, Lookback63(v), 34, HT_TRENDMODE, ModeAtRest, LAMBDA L : <<L.trend>>)

-----------------------------------------------------------------------------
(* MAMA, FAMA: averages that adapt to how fast the phase of the cycle      *)
(* falls.                                                                  *)

PhaseOf(I1, Q1) == IF I1 # 0 THEN ArcTan(Q1, I1) ELSE 0

\* The rate of the average, from the fall of the phase.
Adapted(v, fall) ==
    IF fall > Unit THEN Larger(Over(v.fastLimit, fall), v.slowLimit) ELSE v.fastLimit

Blend(rate, new, old) == Times(rate, new) + Times(Unit - rate, old)

\* FAMA follows MAMA at half its rate.
FAMAAfter(L, rate) == [L EXCEPT !.fama = Blend(rate \div 2, L.mama, @)]
Adapt(L, real, rate) == FAMAAfter([L EXCEPT !.mama = Blend(rate, real, @)], rate)
WithAverages(v, L, real, phase) ==
    Adapt([L EXCEPT !.prevPhase = phase], real, Adapted(v, L.prevPhase - phase))
Averaged(v, L, real) == WithAverages(v, L, real, PhaseOf(L.cycle.I1, L.cycle.Q1))

MAMA(v, L, today) == Averaged(v, Cycles_Next(v, L, today), Real(v, today))

TA_MAMA(v) ==
    RunCycles(v, Lookback32(v), 9, MAMA, [prevPhase |-> 0, mama |-> 0, fama |-> 0],
              LAMBDA L : <<L.mama, L.fama>>)
=============================================================================
