------------------------- MODULE IndicatorDefinitions -------------------------
(***************************************************************************)
(* What the indicators are, as expressions over series.  A series is a     *)
(* function from consecutive bars to numbers; an operator on series is     *)
(* defined on the bars where it has the values it needs.  Nothing here     *)
(* runs over memory, keeps a running sum or knows where an output goes.    *)
(*                                                                         *)
(* Only an indicator that remembers (an exponential average and what is    *)
(* built on one) depends on the bar s its output starts with, from which   *)
(* its seed is counted back.                                               *)
(***************************************************************************)
EXTENDS IndicatorCycleDefinitions

Start(f) == Min(DOMAIN f)
Final(f) == Max(DOMAIN f)
SumOver(f, a, b) == Total(LAMBDA k : f[k], a, b)
MaxOver(f, a, b) == Max({f[k] : k \in a .. b})
MinOver(f, a, b) == Min({f[k] : k \in a .. b})

\* The bars where the last n of f are there, and f from bar s on.
Filled(f, n) == (Start(f) + n - 1) .. Final(f)
Tailed(f, s) == [k \in s .. Final(f) |-> f[k]]

MeanOf(f, p) == [k \in Filled(f, p) |-> Quotient(SumOver(f, k - p + 1, k), p)]

\* The weighted means: a weight for each of the last p values, the newest being p.
Weighted(f, p, weight(_)) ==
    [k \in Filled(f, p) |->
        Quotient(Total(LAMBDA j : weight(j) * f[k - p + j], 1, p), Total(weight, 1, p))]
Rising(j) == j
Peaked(f, p) == Weighted(f, p, LAMBDA j : Smaller(j, p + 1 - j))

Highs(v)   == v.mem[v.from["inHigh"]]
Lows(v)    == v.mem[v.from["inLow"]]
Closes(v)  == v.mem[v.from["inClose"]]
Values(v)  == v.mem[v.from["inReal"]]
Values1(v) == v.mem[v.from["inReal1"]]
Volumes(v) == v.mem[v.from["inVolume"]]

Ranges(v) == [k \in 1 .. Final(Highs(v)) |-> TrueRange(v, k)]
Typical(v) == [k \in DOMAIN Highs(v) |-> TypicalPrice(v, k)]

-----------------------------------------------------------------------------
(* Averages that remember. *)

\* From the value seed at bar a on, step(x, k) being the value after x at bar k.
Grown(f, a, seed, step(_, _)) ==
    LET g[k \in a .. Final(f)] == IF k = a THEN seed ELSE step(g[k-1], k) IN g

\* The exponential average with constant k; its output starts at bar s.
Exponential(v, f, p, k, s) ==
    LET bar == IF Metastock(v) THEN Start(f) ELSE s - v.unstable
    IN Tailed(Grown(f, bar, IF Metastock(v) THEN f[bar] ELSE Quotient(SumOver(f, bar - p + 1, bar), p),
                    LAMBDA x, n : x + Quotient((f[n] - x) * k[1], k[2])), s)
ExponentialOf(v, f, p, s) == Exponential(v, f, p, <<2, p + 1>>, s)

\* Wilder's average, seeded with the mean of the p values up to bar a.
WilderFrom(f, p, a) ==
    Grown(f, a, Quotient(SumOver(f, a - p + 1, a), p),
          LAMBDA x, k : Quotient((p - 1) * x + f[k], p))

\* Wilder's sum: of p - 1 values up to bar a, then decaying.
DecayingFrom(f, p, a) ==
    Grown(f, a, SumOver(f, a - p + 2, a), LAMBDA x, k : x - Quotient(x, p) + f[k])

Adaptive(v, f, p, s) ==
    LET a == s - v.unstable - 1
        moves == [k \in (Start(f) + 1) .. Final(f) |-> Abs(f[k] - f[k-1])]
        constant(k) == Smoothing(SumOver(moves, k - p + 1, k), f[k] - f[k - p])
    IN Tailed(Grown(f, a, f[a], LAMBDA x, k : x + Times(f[k] - x, constant(k))), s)

\* f and six averages, each of the one before and seeded at its p'th value.
Sixth(g, p) ==
    LET a == Start(g) + p - 1
    IN Grown(g, a, Quotient(SumOver(g, Start(g), a), p),
             LAMBDA x, k : Quotient(2 * g[k] + (p - 1) * x, p + 1))
SixOf(f, p) == Repeated(LAMBDA e, n : Append(e, Sixth(Last(e), p)), <<f>>, 1, 6)
CombinedOf(e, factor, s) ==
    [k \in s .. Final(e[1]) |-> Combined([n \in 1 .. 6 |-> e[n+1][k]], factor)]
Sixfold(v, f, p, factor, s) ==
    CombinedOf(SixOf(Tailed(f, s - T3_Lookback([v EXCEPT !.period = p])), p), factor, s)

\* f and n exponential averages, each of the one before; the output of the last starts at bar s.
Chained(v, f, p, n, s) ==
    Repeated(LAMBDA e, j :
                 Append(e, ExponentialOf(v, Last(e), p, s - (n - j) * (p - 1 + v.unstable))),
             <<f>>, 1, n)

\* 2 e1 - e2 and 3 e1 - 3 e2 + e3.
DoubleOf(e, s) == [k \in s .. Final(e[1]) |-> 2 * e[2][k] - e[3][k]]
TripleOf(e, s) == [k \in s .. Final(e[1]) |-> 3 * e[2][k] - 3 * e[3][k] + e[4][k]]

Average(v, f, p, type, s) ==
    IF p = 1 THEN Tailed(f, s)
    ELSE CASE type = "SMA"   -> MeanOf(f, p)
           [] type = "WMA"   -> Weighted(f, p, Rising)
           [] type = "TRIMA" -> Peaked(f, p)
           [] type = "EMA"   -> ExponentialOf(v, f, p, s)
           [] type = "DEMA"  -> DoubleOf(Chained(v, f, p, 2, s), s)
           [] type = "TEMA"  -> TripleOf(Chained(v, f, p, 3, s), s)
           [] type = "KAMA"  -> Adaptive(v, f, p, s)
           [] type = "T3"    -> Sixfold(v, f, p, (7 * Unit) \div 10, s)
           [] type = "MAMA"  -> Mamas(PhaseAdaptive([v EXCEPT !.fastLimit = Unit \div 2,
                                                              !.slowLimit = Unit \div 20], f, s))

-----------------------------------------------------------------------------
(* Indicators. *)

Less(f, g, s)  == [k \in s .. Final(f) |-> f[k] - g[k]]
Change(f, p, rate(_, _)) ==
    [k \in Filled(f, p + 1) |-> IF f[k - p] # 0 THEN rate(f[k], f[k - p]) ELSE 0]

\* The place of a value in the range of the last p bars, in percent.
Place(value, low, high) == IF high # low THEN 100 * Over(value - low, high - low) ELSE 0
RawStochastic(close, low, high, p) ==
    [k \in Filled(close, p) |->
        Place(close[k], MinOver(low, k - p + 1, k), MaxOver(high, k - p + 1, k))]

\* %K and %D from bar s, smoothed with <<p2, type2>> and <<p3, type3>>.
KThenD(v, k, D, s) == <<k, Average(v, k, D[1], D[2], s)>>
Stochastics(v, raw, K, D, s) ==
    LET first == s - MA_LookbackOf(v, D[1], D[2])
    IN KThenD(v, Tailed(Average(v, Tailed(raw, first - MA_LookbackOf(v, K[1], K[2])), K[1], K[2],
                                first), first), D, s)

\* The smoothed gains or losses behind RSI and CMO at the bars from s.  Metastock counts the
\* gain of the very first bar as 0, and, for its first output alone, starts one bar early.
Ups(f)   == [k \in (Start(f) + 1) .. Final(f) |-> Larger(f[k] - f[k-1], 0)]
Downs(f) == [k \in (Start(f) + 1) .. Final(f) |-> Larger(f[k-1] - f[k], 0)]
SmoothedMoves(v, g, p, s) ==
    LET a == s - v.unstable + (IF Metastock(v) THEN 1 ELSE 0)
    IN [k \in s .. Final(g) |->
           IF Metastock(v) /\ v.unstable = 0 /\ k = s THEN Quotient(SumOver(g, s - p + 2, s), p)
           ELSE WilderFrom(g, p, a)[k]]
Strength(part, both) == IF both # 0 THEN 100 * Over(part, both) ELSE 0
Strengths(up, down)  == [k \in DOMAIN up |-> Strength(up[k], up[k] + down[k])]
Imbalances(up, down) == [k \in DOMAIN up |-> Strength(up[k] - down[k], up[k] + down[k])]
RelativeStrength(v, f, p, s) ==
    Strengths(SmoothedMoves(v, Ups(f), p, s), SmoothedMoves(v, Downs(f), p, s))
Momentum(v, f, p, s) ==
    Imbalances(SmoothedMoves(v, Ups(f), p, s), SmoothedMoves(v, Downs(f), p, s))

\* The directional movements as series; their decaying sums, started lookback bars before s.
PlusSeries(v)  == [k \in 1 .. Final(Highs(v)) |-> PlusDM(v, k)]
MinusSeries(v) == [k \in 1 .. Final(Highs(v)) |-> MinusDM(v, k)]
Moving(v, f, lookback, s) == DecayingFrom(f, v.period, s - lookback + v.period - 1)
Percent(part, whole) == IF whole # 0 THEN 100 * Over(part, whole) ELSE 0

DecayingShare(move, range, s) == [k \in s .. Final(move) |-> Percent(move[k], range[k])]
DISeries(v, f, s) ==
    IF v.period =< 1 THEN [k \in DOMAIN f |-> Share(f[k], TrueRange(v, k))]
    ELSE DecayingShare(Moving(v, f, DI_Lookback(v), s), Moving(v, Ranges(v), DI_Lookback(v), s), s)
DMSeries(v, f, s) == IF v.period =< 1 THEN f ELSE Moving(v, f, DM_Lookback(v), s)

\* The sums from which DX is computed, as one series of records.
Together(plus, minus, range) ==
    [k \in DOMAIN plus |-> [plus |-> plus[k], minus |-> minus[k], range |-> range[k]]]
Directional(v, lookback, s) ==
    Together(Moving(v, PlusSeries(v), lookback, s), Moving(v, MinusSeries(v), lookback, s),
             Moving(v, Ranges(v), lookback, s))

IndexOr(x, sums) == IF HasDX(sums) THEN DXOf(sums) ELSE x
IndexFrom(v, S, s) == Grown(Highs(v), s, IndexOr(0, S[s]), LAMBDA x, k : IndexOr(x, S[k]))
DirectionalIndex(v, s) == IndexFrom(v, Directional(v, v.period + v.unstable, s), s)

AverageIndex(v, S, a) ==
    Grown(Highs(v), a, Quotient(Total(LAMBDA k : IndexOr(0, S[k]), a - v.period + 1, a), v.period),
          LAMBDA x, k : IF HasDX(S[k]) THEN Quotient((v.period - 1) * x + DXOf(S[k]), v.period)
                        ELSE x)
AverageDirectional(v, s) ==
    Tailed(AverageIndex(v, Directional(v, 2 * v.period + v.unstable - 1, s), s - v.unstable), s)
Ratings(adx, p, s) == [k \in s .. Final(adx) |-> (adx[k] + adx[k - p + 1]) \div 2]

AverageRange(v, s) == Tailed(WilderFrom(Ranges(v), v.period, s - v.unstable), s)

Marked(line, mark, s) == <<line, mark, Less(line, mark, s)>>
Signalled(line, signal(_, _), s) == Marked(line, signal(line, s), s)
Convergences(fast, slow, signal(_, _), lookback, s) ==
    Signalled(Less(fast, slow, s - lookback), signal, s)

-----------------------------------------------------------------------------
(* Each output of a function, as a series, for the call v whose first      *)
(* output is bar s.                                                        *)

\* The variance of the last p values, and the deviation.
Variance(f, p) ==
    [k \in Filled(f, p) |->
        Quotient(Total(LAMBDA j : Square(f[j]), k - p + 1, k), p)
        - Square(Quotient(SumOver(f, k - p + 1, k), p))]
Deviations(var, factor) == [k \in DOMAIN var |-> Times(Deviation(var[k]), factor)]

\* The least squares line through the last p values: its slope, and where it is `ahead' bars
\* after the oldest of them.
SlopeOf(f, p, k) ==
    Quotient(6 * Total(LAMBDA j : (2 * j - (p - 1)) * f[k - p + 1 + j], 0, p - 1), p * (p * p - 1))
LineAt(f, p, ahead) ==
    [k \in Filled(f, p) |->
        Quotient(SumOver(f, k - p + 1, k) - SlopeOf(f, p, k) * ((p * (p - 1)) \div 2), p)
        + SlopeOf(f, p, k) * ahead]

OfOneSeries(fn, v, s) ==
    LET f == Values(v)
        p == v.period
        bars == Filled(f, p)
    IN CASE fn = "MAX" -> <<[k \in bars |-> MaxOver(f, k - p + 1, k)]>>
         [] fn = "MIN" -> <<[k \in bars |-> MinOver(f, k - p + 1, k)]>>
         [] fn = "MINMAX" -> <<[k \in bars |-> MinOver(f, k - p + 1, k)],
                               [k \in bars |-> MaxOver(f, k - p + 1, k)]>>
         [] fn = "MIDPOINT" ->
              <<[k \in bars |-> (MaxOver(f, k - p + 1, k) + MinOver(f, k - p + 1, k)) \div 2]>>
         [] fn = "SUM" -> <<[k \in bars |-> SumOver(f, k - p + 1, k)]>>
         [] fn = "VAR" -> <<Variance(f, p)>>
         [] fn = "STDDEV" -> <<Deviations(Variance(f, p), v.nbDevUp)>>
         [] fn = "LINEARREG" -> <<LineAt(f, p, p - 1)>>
         [] fn = "LINEARREG_INTERCEPT" -> <<LineAt(f, p, 0)>>
         [] fn = "TSF" -> <<LineAt(f, p, p)>>
         [] fn = "LINEARREG_ANGLE" -> <<[k \in bars |-> ArcTan(SlopeOf(f, p, k), Unit)]>>
         [] fn = "LINEARREG_SLOPE" -> <<[k \in bars |-> SlopeOf(f, p, k)]>>
         [] fn = "MOM" -> <<[k \in Filled(f, p + 1) |-> f[k] - f[k - p]]>>
         [] fn = "ROC" -> <<Change(f, p, LAMBDA a, b : 100 * (Over(a, b) - Unit))>>
         [] fn = "ROCP" -> <<Change(f, p, LAMBDA a, b : Over(a - b, b))>>
         [] fn = "ROCR" -> <<Change(f, p, Over)>>
         [] fn = "ROCR100" -> <<Change(f, p, LAMBDA a, b : 100 * Over(a, b))>>
         [] fn \in {"SMA", "WMA", "TRIMA", "EMA", "DEMA", "TEMA", "KAMA", "MA"} ->
              <<Average(v, f, p, IF fn = "MA" THEN v.maType ELSE fn, s)>>
         [] fn = "T3" -> <<Sixfold(v, f, p, v.vFactor, s)>>
         [] fn \in MathNames -> <<[k \in DOMAIN f |-> MathFunction(fn, f[k])]>>
         [] fn = "MAVP" ->
              <<[k \in s .. v.end |-> Average(v, f, Clamped(v, k), v.maType, s)[k]]>>
         [] fn = "RSI" -> <<RelativeStrength(v, f, p, s)>>
         [] fn = "CMO" -> <<Momentum(v, f, p, s)>>
         [] fn = "TRIX" ->
              <<Change(Last(Chained(v, f, p, 3, s - 1)), 1, LAMBDA a, b : 100 * (Over(a, b) - Unit))>>

\* Those made of two or three averages.
Oscillations(fn, quick, late, s) ==
    IF fn = "APO" THEN Less(quick, late, s)
    ELSE [k \in s .. Final(late) |->
             IF late[k] # 0 THEN 100 * Over(quick[k] - late[k], late[k]) ELSE 0]

Shifted(f, by, s, sign) == [k \in s .. Final(f) |-> f[k] + sign * by[k]]
BandsOf(middle, up, down, s) == <<Shifted(middle, up, s, 1), middle, Shifted(middle, down, s, -1)>>
BandsFrom(v, middle, var, s) ==
    BandsOf(middle, Deviations(var, v.nbDevUp), Deviations(var, v.nbDevDn), s)

OfAverages(fn, v, s) ==
    LET f == Values(v)
        fast == Smaller(v.period, v.period2)
        slow == Larger(v.period, v.period2)
        early == Larger(v.start, MA_LookbackOf(v, fast, v.maType))
        n == EMA_LookbackOf(v, v.period3)
        sign(g, bar) == ExponentialOf(v, g, v.period3, bar)
        m == MA_LookbackOf(v, v.period3, v.maType3)
        w == PeriodsSorted(v)
    IN CASE fn \in {"APO", "PPO"} ->
              <<Oscillations(fn, Average(v, f, fast, v.maType, early),
                                 Average(v, f, slow, v.maType, s), s)>>
         [] fn = "BBANDS" ->
              BandsFrom(v, Average(v, f, v.period, v.maType, s), Variance(f, v.period), s)
         [] fn = "MACD" -> Convergences(ExponentialOf(v, f, fast, s - n),
                                        ExponentialOf(v, f, slow, s - n), sign, n, s)
         [] fn = "MACDFIX" -> Convergences(Exponential(v, f, 12, <<3, 20>>, s - n),
                                           Exponential(v, f, 26, <<3, 40>>, s - n), sign, n, s)
         [] fn = "MACDEXT" ->
              Convergences(Average(v, f, fast, w.maType, s - m), Average(v, f, slow, w.maType2, s - m),
                           LAMBDA g, bar : Average(v, g, v.period3, v.maType3, bar), m, s)

\* The stochastics: of the prices, or of a relative strength in the place of all three.
OfStrength(raw, p) == RawStochastic(raw, raw, raw, p)
RawOf(fn, v, s) ==
    IF fn = "STOCHRSI"
    THEN OfStrength(RelativeStrength(v, Values(v), v.period,
                                     s - PeriodLessOne([v EXCEPT !.period = v.period2])
                                       - MA_LookbackOf(v, v.period3, v.maType)), v.period2)
    ELSE RawStochastic(Closes(v), Lows(v), Highs(v), v.period)
OfStochastics(fn, v, s) ==
    Stochastics(v, RawOf(fn, v, s),
                IF fn = "STOCH" THEN <<v.period2, v.maType>> ELSE <<1, "SMA">>,
                CASE fn = "STOCH"    -> <<v.period3, v.maType2>>
                  [] fn = "STOCHF"   -> <<v.period2, v.maType>>
                  [] fn = "STOCHRSI" -> <<v.period3, v.maType>>, s)

\* CCI's, at bar k; MFI's, of the flows of the window; ULTOSC's, of windows of three lengths.
AwayFrom(T, mean, p, k) ==
    LET spread == Total(LAMBDA j : Abs(T[j] - mean[k]), k - p + 1, k)
    IN IF T[k] # mean[k] /\ spread # 0
       THEN Quotient(200 * Over((T[k] - mean[k]) * p, spread), 3) ELSE 0
Away(T, mean, p) == [k \in Filled(T, p) |-> AwayFrom(T, mean, p, k)]

MoneyFlows(v, T) ==
    [k \in (Start(T) + 1) .. Final(T) |-> Flow(T[k-1], T[k], Times(T[k], Volume(v, k)))]
FlowShare(up, down) == IF up + down < Unit THEN 0 ELSE 100 * Over(up, up + down)
FlowShares(flow, p) ==
    [k \in Filled(flow, p) |-> FlowShare(Total(LAMBDA j : flow[j].up, k - p + 1, k),
                                         Total(LAMBDA j : flow[j].down, k - p + 1, k))]

SharesOf(pressure, ranges, n) ==
    [k \in n .. Final(ranges) |-> Share(SumOver(pressure, k - n + 1, k), SumOver(ranges, k - n + 1, k))]
Weighed(x, y, z) == [k \in DOMAIN z |-> Quotient(100 * (4 * x[k] + 2 * y[k] + z[k]), 7)]
Ultimates(pressure, ranges, n) ==
    Weighed(SharesOf(pressure, ranges, n[1]), SharesOf(pressure, ranges, n[2]),
            SharesOf(pressure, ranges, n[3]))

OfBars(fn, v, s) ==
    LET h == Highs(v)
        l == Lows(v)
        p == v.period
        since(k, at) == AroonFactor(v) * (p - (k - Max(at)))
        lowest(k)  == {j \in (k - p) .. k : l[j] = MinOver(l, k - p, k)}
        highest(k) == {j \in (k - p) .. k : h[j] = MaxOver(h, k - p, k)}
    IN CASE fn = "MIDPRICE" ->
              <<[k \in Filled(h, p) |-> (MaxOver(h, k - p + 1, k) + MinOver(l, k - p + 1, k)) \div 2]>>
         [] fn = "WILLR" ->
              <<[k \in Filled(h, p) |->
                    LET high == MaxOver(h, k - p + 1, k)
                        low  == MinOver(l, k - p + 1, k)
                    IN IF high # low THEN -100 * Over(high - Closes(v)[k], high - low) ELSE 0]>>
         [] fn = "AROON" -> <<[k \in p .. v.end |-> since(k, lowest(k))],
                              [k \in p .. v.end |-> since(k, highest(k))]>>
         [] fn = "AROONOSC" ->
              <<[k \in p .. v.end |-> since(k, highest(k)) - since(k, lowest(k))]>>
         [] fn = "CCI" -> <<Away(Typical(v), MeanOf(Typical(v), p), p)>>
         [] fn = "MFI" -> <<FlowShares(MoneyFlows(v, Typical(v)), p)>>
         [] fn = "ULTOSC" ->
              <<Ultimates([k \in 1 .. Final(h) |-> Pressure(v, k)], Ranges(v), Sorted3(v))>>
         [] fn = "TRANGE" -> <<Ranges(v)>>
         [] fn = "ATR" -> IF p =< 1 THEN <<Ranges(v)>> ELSE <<AverageRange(v, s)>>
         [] fn = "NATR" ->
              IF p =< 1 THEN <<Ranges(v)>>
              ELSE <<[k \in s .. v.end |-> Percent(AverageRange(v, s)[k], Closes(v)[k])]>>
         [] fn = "PLUS_DM" -> <<DMSeries(v, PlusSeries(v), s)>>
         [] fn = "MINUS_DM" -> <<DMSeries(v, MinusSeries(v), s)>>
         [] fn = "PLUS_DI" -> <<DISeries(v, PlusSeries(v), s)>>
         [] fn = "MINUS_DI" -> <<DISeries(v, MinusSeries(v), s)>>
         [] fn = "DX" -> <<DirectionalIndex(v, s)>>
         [] fn = "ADX" -> <<AverageDirectional(v, s)>>
         [] fn = "ADXR" -> <<Ratings(AverageDirectional(v, s - (p - 1)), p, s)>>
         [] fn = "MEDPRICE" -> <<[k \in DOMAIN h |-> (h[k] + l[k]) \div 2]>>
         [] fn = "TYPPRICE" -> <<Typical(v)>>
         [] fn = "WCLPRICE" -> <<[k \in DOMAIN h |-> (h[k] + l[k] + 2 * Closes(v)[k]) \div 4]>>
         [] fn = "AVGPRICE" ->
              <<[k \in DOMAIN h |-> (h[k] + l[k] + Closes(v)[k] + Open(v, k)) \div 4]>>
         [] fn = "BOP" ->
              <<[k \in DOMAIN h |->
                    IF h[k] > l[k] THEN Over(Closes(v)[k] - Open(v, k), h[k] - l[k]) ELSE 0]>>

\* The slope of the returns y on the returns x of the last p bars.
Returns(f) == [k \in (Start(f) + 1) .. Final(f) |-> Return(f[k], f[k-1])]
SlopeOn(n, x, y, xx, xy) ==
    IF n * xx # Square(x) THEN Over(n * xy - Times(x, y), n * xx - Square(x)) ELSE 0
Betas(x, y, p) ==
    [k \in Filled(x, p) |->
        SlopeOn(p, SumOver(x, k - p + 1, k), SumOver(y, k - p + 1, k),
                Total(LAMBDA j : Square(x[j]), k - p + 1, k),
                Total(LAMBDA j : Times(x[j], y[j]), k - p + 1, k))]

Coefficients(v, f, p) ==
    [k \in Filled(f, p) |->
        Coefficient(Sums(v, k - p + 1, k), p, CommonSpread(Sums(v, k - p + 1, k), p))]

\* The exponential average of n values of line, which starts as the line does.
Starting(line, n) ==
    Grown(line, Start(line), line[Start(line)],
          LAMBDA e, k : Quotient(2 * line[k] + (n - 1) * e, n + 1))
Oscillator(line, n, m, s) == Less(Starting(line, n), Starting(line, m), s)

\* Two series, or prices and their volumes; the cumulative lines count from bar s.
OfTwoSeries(fn, v, s) ==
    LET f == Values(v)
        g == Values1(v)
        p == v.period
        flow(k) == IF f[k] > f[k-1] THEN Volume(v, k)
                   ELSE IF f[k] < f[k-1] THEN -Volume(v, k) ELSE 0
        money(a) == [k \in a .. v.end |-> Total(LAMBDA j : MoneyFlow(v, j), a, k)]
    IN CASE fn = "CORREL" -> <<Coefficients(v, f, p)>>
         [] fn = "BETA" -> <<Betas(Returns(f), Returns(g), p)>>
         [] fn = "ADD" -> <<[k \in DOMAIN f |-> f[k] + g[k]]>>
         [] fn = "SUB" -> <<[k \in DOMAIN f |-> f[k] - g[k]]>>
         [] fn = "MULT" -> <<[k \in DOMAIN f |-> Times(f[k], g[k])]>>
         [] fn = "DIV" -> <<[k \in DOMAIN f |-> Over(f[k], g[k])]>>
         [] fn = "OBV" -> <<[k \in s .. v.end |-> Volume(v, s) + Total(flow, s + 1, k)]>>
         [] fn = "AD" -> <<money(s)>>
         [] fn = "ADOSC" -> 
              <<Oscillator(money(s - ADOSC_Lookback(v)), v.period, v.period2, s)>>

OfBarsOnly == {"MIDPRICE", "WILLR", "AROON", "AROONOSC", "CCI", "MFI", "ULTOSC",
               "TRANGE", "ATR", "NATR", "PLUS_DM", "MINUS_DM", "PLUS_DI", "MINUS_DI", "DX", "ADX",
               "ADXR", "MEDPRICE", "TYPPRICE", "WCLPRICE", "AVGPRICE", "BOP"}
OfAveragesOnly == {"APO", "PPO", "BBANDS", "MACD", "MACDFIX", "MACDEXT"}
OfStochasticsOnly == {"STOCHF", "STOCH", "STOCHRSI"}
OfTwo == {"CORREL", "BETA", "ADD", "SUB", "MULT", "DIV", "OBV", "AD", "ADOSC"}

\* The extremes' indices have more than one right value where a window has ties, and a stop
\* has no expression that does not follow it bar by bar.
Indices == {"MAXINDEX", "MININDEX", "MINMAXINDEX"}
Stops   == {"SAR", "SAREXT"}

Indicator(fn, v, s) ==
    IF fn \in OfBarsOnly THEN OfBars(fn, v, s)
    ELSE IF fn \in OfAveragesOnly THEN OfAverages(fn, v, s)
    ELSE IF fn \in OfStochasticsOnly THEN OfStochastics(fn, v, s)
    ELSE IF fn \in OfCyclesOnly THEN OfCycles(fn, v, s)
    ELSE IF fn \in OfTwo THEN OfTwoSeries(fn, v, s) ELSE OfOneSeries(fn, v, s)
=============================================================================
