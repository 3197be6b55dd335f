------------------------------ MODULE MCIndicators ------------------------------
(* Instances of IndicatorCalls: small prices with ties, bars without range, falls and rises. *)
EXTENDS IndicatorCalls

Series(s) == [k \in 0 .. (Len(s) - 1) |-> s[k + 1] * Unit]

\* Ups and downs.
Restless ==
    [open   |-> Series(<<3, 2, 4, 5, 3, 3, 1, 2, 6, 4, 3, 5>>),
     high   |-> Series(<<4, 4, 5, 6, 3, 4, 3, 2, 6, 6, 5, 5>>),
     low    |-> Series(<<2, 1, 4, 3, 3, 2, 1, 2, 2, 4, 1, 3>>),
     close  |-> Series(<<2, 4, 5, 3, 3, 4, 1, 2, 5, 6, 1, 4>>),
     volume |-> Series(<<1, 3, 2, 1, 5, 2, 4, 1, 3, 2, 2, 4>>),
     price  |-> Series(<<3, 5, 2, 2, 6, 4, 4, 1, 3, 6, 5, 2>>),
     other  |-> Series(<<1, 4, 4, 2, 3, 5, 1, 2, 2, 6, 3, 3>>),
     long   |-> [k \in 0 .. 29 |-> (((5 * k * k + 3 * k) % 7) + 1) * Unit],
     longest |-> [k \in 0 .. 69 |-> (((k * k + 4 * k) % 9) + ((k \div 9) % 4) + 1) * Unit],
     periods |-> Series(<<2, 3, 1, 2, 4, 3, 2, 3, 2, 2, 3, 3>>)]

\* Nothing moves, a climb, nothing moves, a fall.
Trending ==
    [open   |-> Series(<<2, 2, 2, 2, 3, 4, 5, 6, 6, 6, 6, 5>>),
     high   |-> Series(<<2, 2, 2, 2, 4, 5, 6, 6, 6, 6, 6, 5>>),
     low    |-> Series(<<2, 2, 2, 2, 3, 4, 5, 6, 6, 6, 3, 1>>),
     close  |-> Series(<<2, 2, 2, 2, 4, 5, 6, 6, 6, 6, 4, 1>>),
     volume |-> Series(<<0, 0, 0, 1, 2, 2, 3, 1, 0, 0, 4, 5>>),
     price  |-> Series(<<2, 2, 2, 3, 4, 5, 6, 6, 6, 6, 0, 1>>),
     other  |-> Series(<<4, 4, 4, 4, 3, 2, 1, 1, 1, 2, 3, 4>>),
     long   |-> [k \in 0 .. 29 |-> (k \div 4 + 1) * Unit],
     longest |-> [k \in 0 .. 69 |-> 20 * Unit + (Unit \div 14) * Abs((k % 20) - 10)],
     periods |-> Series(<<3, 3, 3, 3, 2, 2, 2, 2, 3, 3, 2, 2>>)]

MCMarkets == {Restless, Trending}

MCFresh == <<"out1", "out2", "out3">>

-----------------------------------------------------------------------------
OfPrice  == [inReal |-> "price"]
OfPrices == [inReal |-> "price", inReal1 |-> "other"]
OfBarsHL == [inHigh |-> "high", inLow |-> "low"]
OfHLC    == [inHigh |-> "high", inLow |-> "low", inClose |-> "close"]
OfOHLC   == [inOpen |-> "open"] @@ OfHLC
OfHLCV   == [inVolume |-> "volume"] @@ OfHLC
OfVolume == [inReal |-> "price", inVolume |-> "volume"]

Defaults ==
    [bars |-> 12, outs |-> 1, shared |-> {1}, remembers |-> FALSE,
     period |-> 3, period2 |-> 2, period3 |-> 2, k |-> <<0, 1>>,
     maType |-> "SMA", maType2 |-> "SMA", maType3 |-> "SMA",
     nbDevUp |-> 2 * Unit, nbDevDn |-> Unit, vFactor |-> (7 * Unit) \div 10,
     fastLimit |-> Unit \div 2, slowLimit |-> Unit \div 20, acceleration |-> Unit \div 4, maximum |-> Unit \div 2, startValue |-> 0, offsetOnReverse |-> 0,
     sides |-> [long \in BOOLEAN |-> [init |-> Unit \div 4, more |-> Unit \div 8, most |-> Unit \div 2]]]

Ask(fn, from, given) == given @@ [fn |-> fn, from |-> from] @@ Defaults
Each(fns, from, given) == {Ask(fn, from, given) : fn \in fns}

Remembering == [remembers |-> TRUE]

Plain ==
    Each({"MAX", "MIN", "MIDPOINT", "SUM", "SMA", "WMA", "TRIMA", "VAR", "STDDEV", "LINEARREG",
          "LINEARREG_SLOPE", "LINEARREG_ANGLE", "LINEARREG_INTERCEPT", "TSF", "MOM", "ROC", "ROCP", "ROCR", "ROCR100"},
         OfPrice, <<>>)
    \cup Each(MathNames, OfPrice, <<>>)
    \cup {Ask("TRIMA", OfPrice, [period |-> 4]), Ask("MA", OfPrice, [period |-> 1])}
    \cup Each({"MAXINDEX", "MININDEX"}, OfPrice, [shared |-> {}])
    \cup {Ask("MINMAX", OfPrice, [outs |-> 2, shared |-> {1, 2}]),
          Ask("MINMAXINDEX", OfPrice, [outs |-> 2, shared |-> {}])}
    \cup Each({"CORREL", "BETA", "ADD", "SUB", "MULT", "DIV"}, OfPrices, <<>>)
    \cup Each({"MIDPRICE", "MEDPRICE", "AROONOSC"}, OfBarsHL, <<>>)
    \cup {Ask("AROON", OfBarsHL, [outs |-> 2, shared |-> {1, 2}])}
    \cup Each({"WILLR", "CCI", "TYPPRICE", "WCLPRICE", "TRANGE"}, OfHLC, <<>>)
    \cup Each({"AVGPRICE", "BOP"}, OfOHLC, <<>>)
    \cup {Ask("ULTOSC", OfHLC, [period |-> 2, period2 |-> 4, period3 |-> 1]),
          Ask("AD", OfHLCV, <<>>), Ask("OBV", OfVolume, <<>>)}

Stopping ==
    {Ask("SAR", OfBarsHL, [acceleration |-> a]) : a \in {Unit \div 4, Unit}}
    \cup {Ask("SAREXT", OfBarsHL, [startValue |-> x * Unit, offsetOnReverse |-> Unit \div 8]) :
            x \in {-5, 0, 1}}

Recursive ==
    Each({"EMA", "RSI", "CMO", "KAMA"}, OfPrice, Remembering)
    \cup Each({"DEMA", "TEMA", "T3"}, OfPrice, [period |-> 2] @@ Remembering)
    \cup Each({"ATR", "PLUS_DI", "MINUS_DI"}, OfHLC, Remembering)
    \cup Each({"DX", "ADX", "ADXR"}, OfHLC, [period |-> 2] @@ Remembering)
    \cup Each({"ATR", "PLUS_DI", "MINUS_DI"}, OfHLC, [period |-> 1] @@ Remembering)
    \cup UNION {Each({"PLUS_DM", "MINUS_DM"}, OfBarsHL, [period |-> p] @@ Remembering) : p \in {1, 3}}
    \cup {Ask("MFI", OfHLCV, Remembering), Ask("ADOSC", OfHLCV, Remembering)}

Composed ==
    {Ask("MA", OfPrice, [period |-> 2, maType |-> t] @@ Remembering) :
        t \in {"SMA", "WMA", "TRIMA", "EMA", "DEMA", "TEMA", "KAMA", "T3"}}
    \cup {Ask("MAVP", [inReal |-> "price", inPeriods |-> "periods"],
              [shared |-> {}, period |-> 2, period2 |-> 3, maType |-> t] @@ Remembering) :
            t \in {"SMA", "EMA"}}
    \cup {Ask(fn, OfPrice, [maType |-> t] @@ Remembering) : fn \in {"APO", "PPO"}, t \in {"SMA", "EMA"}}
    \cup {Ask("BBANDS", OfPrice, [outs |-> 3, shared |-> 1 .. 3, maType |-> t] @@ Remembering) :
            t \in {"SMA", "EMA"}}
    \cup {Ask("MACD", OfPrice, [outs |-> 3, shared |-> 1 .. 3] @@ Remembering),
          Ask("MACDEXT", OfPrice, [outs |-> 3, shared |-> 1 .. 3, maType |-> "EMA",
                                   maType2 |-> "WMA", maType3 |-> "KAMA"] @@ Remembering),
          Ask("MACDFIX", [inReal |-> "long"],
              [bars |-> 30, outs |-> 3, shared |-> {1}] @@ Remembering),
          Ask("STOCHRSI", OfPrice, [outs |-> 2, shared |-> {1, 2}, period |-> 2, period2 |-> 3]
                                   @@ Remembering)}
    \cup {Ask("STOCHF", OfHLC, [outs |-> 2, shared |-> {1}, maType |-> t] @@ Remembering) :
            t \in {"SMA", "EMA"}}
    \cup {Ask("STOCH", OfHLC, [outs |-> 2, shared |-> {1}, maType |-> "SMA", maType2 |-> "EMA"]
                              @@ Remembering)}

\* NATR and TRIX are asked for here where their range starts no later than their lookback.
FromLookback == {Ask("NATR", OfHLC, Remembering), Ask("TRIX", OfPrice, [period |-> 2] @@ Remembering)}

\* The cycle functions, and MA with the adaptive average.
OfLongest == [inReal |-> "longest"]
ForCycles(n) == [bars |-> 70, outs |-> n, shared |-> 1 .. n] @@ Remembering
Cycling ==
    Each({"HT_DCPERIOD", "HT_DCPHASE", "HT_TRENDLINE"}, OfLongest, ForCycles(1))
    \cup Each({"HT_PHASOR", "HT_SINE", "MAMA"}, OfLongest, ForCycles(2))
    \cup {Ask("HT_TRENDMODE", OfLongest, [shared |-> {}] @@ ForCycles(1)),
          Ask("MA", OfLongest, [maType |-> "MAMA"] @@ ForCycles(1))}

AllRequests == Plain \cup Stopping \cup Recursive \cup Composed \cup FromLookback \cup Cycling

MCStarts(r) == IF r.fn \in {"NATR", "TRIX"} THEN {-1, 0}
               ELSE IF r.fn = "MACDFIX" THEN {0, 27, 28}
               ELSE IF r.bars = 70 THEN (IF r.fn \in LongCycles THEN {0, 66} ELSE {0, 41})
               ELSE {-1, 0, 2, 4, 5, 8, 9}
MCEnds(r)   == IF r.fn = "MACDFIX" THEN {28, 29}
               ELSE IF r.bars = 70 THEN (IF r.fn \in LongCycles THEN {66, 69} ELSE {33, 45})
               ELSE {-1, 7, 11}

\* A map for each of the C library's functions.
MCMathFunction(name, x) ==
    LET names == <<"ACOS", "ASIN", "ATAN", "CEIL", "COS", "COSH", "EXP", "FLOOR", "LN", "LOG10",
                   "SIN", "SINH", "SQRT", "TAN", "TANH">>
        n == CHOOSE k \in DOMAIN names : names[k] = name
    IN n * x + n

\* For the finding.
NATRRequests == {Ask("NATR", OfHLC, Remembering)}
AnyStart(r)  == {0, 5, 6, 8}
=============================================================================
