----------------------- MODULE IndicatorCycleDefinitions -----------------------
(***************************************************************************)
(* What the cycle indicators are, as expressions over the whole history of *)
(* a series.  A history h maps each bar, from 6 before the first to the    *)
(* last, to a record of the quantities at that bar, all 0 before it; a     *)
(* delay is a look at an earlier bar.                                      *)
(***************************************************************************)
EXTENDS IndicatorComposites

Still == [smooth |-> 0, detrender |-> 0, Q1 |-> 0, I1 |-> 0, I2 |-> 0, Q2 |-> 0,
          Re |-> 0, Im |-> 0, period |-> 0, smoothPeriod |-> 0]

Smooth(f, t) == (4 * f[t] + 3 * f[t-1] + 2 * f[t-2] + f[t-3]) \div 10

\* x at bar t with the values of the quantity `of' two, four and six bars before.
Hilbert(x, of, h, t) ==
    LET near(y) == (962 * y) \div 10000
        far(y)  == (5769 * y) \div 10000
        amplitude == (75 * h[t-1].period) \div 1000 + (54 * Unit) \div 100
    IN Times(near(x) + far(h[t-2][of]) - far(h[t-4][of]) - near(h[t-6][of]), amplitude)

Fifth(new, old) == (2 * new + 8 * old) \div 10

PeriodAt(period, last) ==
    [period |-> period, smoothPeriod |-> (33 * period + 67 * last.smoothPeriod) \div 100]
Correlation(c, last) ==
    [Re |-> Fifth(Times(c.I2, last.I2) + Times(c.Q2, last.Q2), last.Re),
     Im |-> Fifth(Times(c.I2, last.Q2) - Times(c.Q2, last.I2), last.Im)]
WithPeriodAt(c, last) == PeriodAt(PeriodAfter(last.period, c.Re, c.Im), last) @@ c
WithCorrelation(c, last) == WithPeriodAt(Correlation(c, last) @@ c, last)

\* The quantities at bar t, those of the bars before it given.
PhasorsAt(h, t, smooth, detrender, I1, Q1) ==
    [smooth |-> smooth, detrender |-> detrender, Q1 |-> Q1, I1 |-> I1,
     I2 |-> Fifth(I1 - Hilbert(Q1, "Q1", h, t), h[t-1].I2),
     Q2 |-> Fifth(Q1 + Hilbert(I1, "I1", h, t), h[t-1].Q2)]
Quadrature(h, t, smooth, detrender) ==
    WithCorrelation(PhasorsAt(h, t, smooth, detrender, h[t-3].detrender,
                              Hilbert(detrender, "detrender", h, t)), h[t-1])
Detrending(h, t, smooth) == Quadrature(h, t, smooth, Hilbert(smooth, "smooth", h, t))
CycleAt(f, h, t) == Detrending(h, t, Smooth(f, t))

History(f, first, last) ==
    Repeated(LAMBDA h, t : (t :> CycleAt(f, h, t)) @@ h,
             [t \in (first - 6) .. (first - 1) |-> Still], first, last)

\* The bars of a whole period, to the nearest.
WholePeriod(h, t) == (h[t].smoothPeriod + Unit \div 2) \div Unit

\* The smoothed prices of the period, against a wave of that period.
Against(wave(_), h, t, n) ==
    Total(LAMBDA k : Times(wave((360 * Unit * k) \div n),
                           IF t - k \in DOMAIN h THEN h[t-k].smooth ELSE 0), 0, n - 1)

Wrapped(angle) == IF angle > 315 * Unit THEN angle - 360 * Unit ELSE angle
PhaseFrom(re, im, before, smoothPeriod) ==
    LET quarter == IF re > 0 THEN 90 * Unit ELSE IF re < 0 THEN -90 * Unit ELSE 0
    IN Wrapped((IF im # 0 THEN ArcTan(re, im) ELSE before + quarter)
               + (IF im < 0 THEN 270 ELSE 90) * Unit + Over(360 * Unit, smoothPeriod))
PhaseAt(h, t, before) ==
    LET n == WholePeriod(h, t)
    IN PhaseFrom(Against(Sin, h, t, n), Against(Cos, h, t, n), before, h[t].smoothPeriod)

\* The phase at each bar, and 0 before the first.
Phases(h, first, last) ==
    Repeated(LAMBDA phases, t : (t :> PhaseAt(h, t, phases[t-1])) @@ phases,
             (first - 1) :> 0, first, last)

\* The trendline: the means over a period, those before the first bar being 0, weighted.
MeanOfLast(f, k, n) == IF n = 0 THEN 0 ELSE Quotient(Total(LAMBDA j : f[j], k - n + 1, k), n)
TrendlineAt(f, h, first, t) ==
    Total(LAMBDA j : (4 - j) * (IF t - j < first THEN 0
                                ELSE MeanOfLast(f, t - j, WholePeriod(h, t - j))), 0, 3) \div 10

\* A trend at bar t: away from the trendline, or neither near a crossing of the waves nor turning
\* at the pace of the cycle.
SineAt(phases, first, k, ahead) == IF k < first THEN 0 ELSE Sin(phases[k] + ahead)
Crossings(phases, first, t) ==
    LET sine(k) == SineAt(phases, first, k, 0)
        lead(k) == SineAt(phases, first, k, 45 * Unit)
    IN {k \in first .. t : Crosses(sine(k), lead(k), sine(k-1), lead(k-1))}
Cycles(h, phases, first, t, crossings) ==
    \/ t \in crossings
    \/ (t - Max({first} \cup crossings) + 1) * Unit < h[t].smoothPeriod \div 2
    \/ Turns(phases[t] - phases[t-1], h[t].smoothPeriod)
TrendAt(f, h, phases, first, t) ==
    IF \/ OffTrendline(h[t].smooth, TrendlineAt(f, h, first, t))
       \/ ~Cycles(h, phases, first, t, Crossings(phases, first, t))
    THEN 1 ELSE 0

ShortCycles == {"HT_DCPERIOD", "HT_PHASOR", "MAMA"}
LongCycles  == {"HT_DCPHASE", "HT_SINE", "HT_TRENDLINE", "HT_TRENDMODE"}
OfCyclesOnly == ShortCycles \cup LongCycles

\* The bar the cycle is measured from, for an output that starts at bar s.
MeasuredFrom(fn, v, s) == s - v.unstable - (IF fn \in ShortCycles THEN 20 ELSE 26)

\* The adaptive averages whose output starts at bar s, from 0 before the first bar: each follows
\* at the rate of its bar.
FollowedBy(rate, last, mama) ==
    [mama |-> mama, fama |-> Blend(rate \div 2, mama, last.fama)]
Followed(rate, value, last) == FollowedBy(rate, last, Blend(rate, value, last.mama))
RateAt(v, h, first, t) ==
    LET phase(k) == IF k < first THEN 0 ELSE PhaseOf(h[k].I1, h[k].Q1)
    IN Adapted(v, phase(t-1) - phase(t))
AveragesOver(v, f, h, first, s) ==
    Restrict(Repeated(LAMBDA m, t : (t :> Followed(RateAt(v, h, first, t), f[t], m[t-1])) @@ m,
                      (first - 1) :> [mama |-> 0, fama |-> 0], first, Max(DOMAIN f)),
             s .. Max(DOMAIN f))
PhaseAdaptive(v, f, s) ==
    LET first == MeasuredFrom("MAMA", v, s)
    IN AveragesOver(v, f, History(f, first, Max(DOMAIN f)), first, s)

Mamas(averages) == [t \in DOMAIN averages |-> averages[t].mama]
Famas(averages) == [t \in DOMAIN averages |-> averages[t].fama]
Adaptives(averages) == <<Mamas(averages), Famas(averages)>>

OfPhases(fn, v, f, h, phases, first, s) ==
    LET each(value(_)) == [t \in s .. v.end |-> value(t)]
    IN CASE fn = "HT_DCPHASE" -> <<each(LAMBDA t : phases[t])>>
         [] fn = "HT_SINE" ->
              <<each(LAMBDA t : Sin(phases[t])), each(LAMBDA t : Sin(phases[t] + 45 * Unit))>>
         [] fn = "HT_TRENDMODE" -> <<each(LAMBDA t : TrendAt(f, h, phases, first, t))>>

OfHistory(fn, v, f, h, first, s) ==
    LET each(value(_)) == [t \in s .. v.end |-> value(t)]
    IN CASE fn = "HT_DCPERIOD" -> <<each(LAMBDA t : h[t].smoothPeriod)>>
         [] fn = "HT_PHASOR" -> <<each(LAMBDA t : h[t].I1), each(LAMBDA t : h[t].Q1)>>
         [] fn = "HT_TRENDLINE" -> <<each(LAMBDA t : TrendlineAt(f, h, first, t))>>
         [] OTHER -> OfPhases(fn, v, f, h, Phases(h, first, v.end), first, s)

OfCycles(fn, v, s) ==
    LET f == v.mem[v.from["inReal"]]
        first == MeasuredFrom(fn, v, s)
    IN IF fn = "MAMA" THEN Adaptives(PhaseAdaptive(v, f, s))
       ELSE OfHistory(fn, v, f, History(f, first, v.end), first, s)
=============================================================================
