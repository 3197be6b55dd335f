---------------------------- MODULE IndicatorCalls ----------------------------
(***************************************************************************)
(* A caller of the indicator functions.  It has the arrays of a market,    *)
(* passes some of them in, and takes each output in a fresh array or in    *)
(* one of those it passed.  The unstable period and the compatibility are  *)
(* global settings of the library (TA_Globals), changed between calls;     *)
(* every function reads the same unstable period, as after                 *)
(* TA_SetUnstablePeriod(TA_FUNC_UNST_ALL, n).                              *)
(*                                                                         *)
(* A request r says which function is called on which arrays, with what    *)
(* parameters, on the first r.bars bars; r.shared are the outputs that may *)
(* go to the array of an input, r.remembers tells the functions that read  *)
(* a setting.  The range is any of Starts(r) .. Ends(r).                   *)
(***************************************************************************)
EXTENDS IndicatorDefinitions

CONSTANTS Markets, Requests, UnstablePeriods, Fresh, Starts(_), Ends(_)

\* TA_MAType
MATypes == {"SMA", "EMA", "WMA", "DEMA", "TEMA", "TRIMA", "KAMA", "MAMA", "T3"}

\* The functions a request may name.
Functions ==
    MathNames \cup OfCyclesOnly
    \cup {"MAX", "MIN", "MAXINDEX", "MININDEX", "MINMAX", "MINMAXINDEX", "MIDPOINT", "MIDPRICE", "WILLR",
          "AROON", "AROONOSC", "SUM", "SMA", "WMA", "TRIMA", "VAR", "STDDEV", "CORREL", "BETA",
          "LINEARREG", "LINEARREG_SLOPE", "LINEARREG_ANGLE", "LINEARREG_INTERCEPT", "TSF", "MFI",
          "ULTOSC", "CCI", "MOM", "ROC", "ROCP", "ROCR", "ROCR100", "ADD", "SUB", "MULT", "DIV",
          "MEDPRICE", "TYPPRICE", "WCLPRICE", "AVGPRICE", "BOP", "TRANGE", "OBV", "AD", "EMA", "RSI",
          "CMO", "ATR", "NATR", "PLUS_DM", "MINUS_DM", "PLUS_DI", "MINUS_DI", "DX", "ADX", "ADXR",
          "KAMA", "T3", "ADOSC", "SAR", "SAREXT", "DEMA", "TEMA", "MA", "MAVP", "TRIX", "MACD",
          "MACDFIX", "MACDEXT", "APO", "PPO", "BBANDS", "STOCHF", "STOCH", "STOCHRSI"}

\* A request has the parameters that the checks of TA_X let through: periods of at least 1, and
\* the types of average there are.
RequestFields == {"fn", "from", "outs", "shared", "bars", "remembers", "period", "period2",
                  "period3", "maType", "maType2", "maType3"}
IsRequest(r) ==
    /\ RequestFields \subseteq DOMAIN r
    /\ r.fn \in Functions
    /\ {r.period, r.period2, r.period3} \subseteq Nat \ {0}
    /\ {r.maType, r.maType2, r.maType3} \subseteq MATypes

\* The inputs and the number of outputs in the parameters of TA_X.
OfHighLow == {"MIDPRICE", "MEDPRICE", "AROON", "AROONOSC", "PLUS_DM", "MINUS_DM", "SAR", "SAREXT"}
OfHighLowClose ==
    {"WILLR", "ULTOSC", "CCI", "TYPPRICE", "WCLPRICE", "TRANGE", "ATR", "NATR", "PLUS_DI", "MINUS_DI",
     "DX", "ADX", "ADXR", "STOCHF", "STOCH"}
InputsOf(fn) ==
    CASE fn \in OfHighLow               -> {"inHigh", "inLow"}
      [] fn \in OfHighLowClose          -> {"inHigh", "inLow", "inClose"}
      [] fn \in {"AVGPRICE", "BOP"}     -> {"inOpen", "inHigh", "inLow", "inClose"}
      [] fn \in {"MFI", "AD", "ADOSC"}  -> {"inHigh", "inLow", "inClose", "inVolume"}
      [] fn \in {"ADD", "SUB", "MULT", "DIV", "CORREL", "BETA"} -> {"inReal", "inReal1"}
      [] fn = "OBV"                     -> {"inReal", "inVolume"}
      [] fn = "MAVP"                    -> {"inReal", "inPeriods"}
      [] OTHER                          -> {"inReal"}
OutputsOf(fn) ==
    CASE fn \in {"BBANDS", "MACD", "MACDEXT", "MACDFIX"} -> 3
      [] fn \in {"MINMAX", "MINMAXINDEX", "AROON", "STOCHF", "STOCH", "STOCHRSI", "HT_PHASOR",
                 "HT_SINE", "MAMA"} -> 2
      [] OTHER -> 1

\* The arrays of the functions themselves, by the names of their local variables.
Temporaries == {"firstEMA", "secondEMA", "dummyBuffer", "localOutputArray", "tempBuffer",
                "fastBuffer", "slowBuffer", "tempRSIBuffer", "adx", "prevATRTemp", "ep_temp"}

\* The caller passes arrays of its own, each with the bars of every range it asks for.
PassesArrays(r) ==
    /\ InputsOf(r.fn) \subseteq DOMAIN r.from
    /\ r.outs = OutputsOf(r.fn)
    /\ \A x \in DOMAIN r.from : r.from[x] \notin Temporaries \cup {"stray"}
    /\ \A market \in Markets, x \in DOMAIN r.from, k \in 0 .. (r.bars - 1) : market[r.from[x]][k] \in Int

ASSUME RequestsAssumption ==
    \A r \in Requests :
        /\ IsRequest(r)
        /\ PassesArrays(r)
        /\ Starts(r) \subseteq Int
        /\ r.bars \in Nat
        /\ Ends(r) \subseteq {end \in Int : end < r.bars}
ASSUME FreshAssumption ==
    /\ \A n, m \in 1 .. 3 : Fresh[n] = Fresh[m] => n = m
    /\ \A n \in 1 .. 3 :
          /\ Fresh[n] \notin Temporaries \cup {"stray"}
          /\ \A r \in Requests : \A x \in DOMAIN r.from : r.from[x] # Fresh[n]
ASSUME UnstablePeriodsAssumption == UnstablePeriods \subseteq Nat

VARIABLES unstable, compatibility, call, result

vars == <<unstable, compatibility, call, result>>

-----------------------------------------------------------------------------
(* Each function, its lookback, and the check of the range before both. *)

TA(fn, v) ==
    CASE fn = "MAX" -> TA_MAX(v)                   [] fn = "MIN" -> TA_MIN(v)
      [] fn = "MAXINDEX" -> TA_MAXINDEX(v)        [] fn = "MININDEX" -> TA_MININDEX(v)
      [] fn = "MINMAX" -> TA_MINMAX(v)            [] fn = "MINMAXINDEX" -> TA_MINMAXINDEX(v)
      [] fn = "MIDPOINT" -> TA_MIDPOINT(v)        [] fn = "MIDPRICE" -> TA_MIDPRICE(v)
      [] fn = "WILLR" -> TA_WILLR(v)              [] fn = "AROON" -> TA_AROON(v)
      [] fn = "AROONOSC" -> TA_AROONOSC(v)        [] fn = "SUM" -> TA_SUM(v)
      [] fn = "SMA" -> TA_SMA(v)                  [] fn = "WMA" -> TA_WMA(v)
      [] fn = "TRIMA" -> TA_TRIMA(v)              [] fn = "VAR" -> TA_VAR(v)
      [] fn = "CORREL" -> TA_CORREL(v)            [] fn = "BETA" -> TA_BETA(v)
      [] fn = "LINEARREG" -> TA_LINEARREG(v)      [] fn = "LINEARREG_SLOPE" -> TA_LINEARREG_SLOPE(v)
      [] fn = "LINEARREG_INTERCEPT" -> TA_LINEARREG_INTERCEPT(v) [] fn = "TSF" -> TA_TSF(v)
      [] fn = "MFI" -> TA_MFI(v)                  [] fn = "ULTOSC" -> TA_ULTOSC(v)
      [] fn = "CCI" -> TA_CCI(v)                  [] fn = "MOM" -> TA_MOM(v)
      [] fn = "ROC" -> TA_ROC(v)                  [] fn = "ROCP" -> TA_ROCP(v)
      [] fn = "ROCR" -> TA_ROCR(v)                [] fn = "ROCR100" -> TA_ROCR100(v)
      [] fn = "ADD" -> TA_ADD(v)                  [] fn = "SUB" -> TA_SUB(v)
      [] fn = "MULT" -> TA_MULT(v)                [] fn = "DIV" -> TA_DIV(v)
      [] fn = "MEDPRICE" -> TA_MEDPRICE(v)        [] fn = "TYPPRICE" -> TA_TYPPRICE(v)
      [] fn = "WCLPRICE" -> TA_WCLPRICE(v)        [] fn = "AVGPRICE" -> TA_AVGPRICE(v)
      [] fn = "BOP" -> TA_BOP(v)                  [] fn = "TRANGE" -> TA_TRANGE(v)
      [] fn = "OBV" -> TA_OBV(v)                  [] fn = "AD" -> TA_AD(v)
      [] fn = "EMA" -> TA_EMA(v)                  [] fn = "RSI" -> TA_RSI(v)
      [] fn = "CMO" -> TA_CMO(v)                  [] fn = "ATR" -> TA_ATR(v)
      [] fn = "NATR" -> TA_NATR(v)                [] fn = "PLUS_DM" -> TA_PLUS_DM(v)
      [] fn = "MINUS_DM" -> TA_MINUS_DM(v)        [] fn = "PLUS_DI" -> TA_PLUS_DI(v)
      [] fn = "MINUS_DI" -> TA_MINUS_DI(v)        [] fn = "DX" -> TA_DX(v)
      [] fn = "ADX" -> TA_ADX(v)                  [] fn = "KAMA" -> TA_KAMA(v)
      [] fn = "T3" -> TA_T3(v)                    [] fn = "ADOSC" -> TA_ADOSC(v)
      [] fn = "SAR" -> TA_SAR(v)                  [] fn = "SAREXT" -> TA_SAREXT(v)
      [] fn = "STDDEV" -> TA_STDDEV(v)            [] fn = "DEMA" -> TA_DEMA(v)
      [] fn = "TEMA" -> TA_TEMA(v)                [] fn = "MA" -> TA_MA(v)
      [] fn = "MAVP" -> TA_MAVP(v)                [] fn = "TRIX" -> TA_TRIX(v)
      [] fn = "MACD" -> TA_MACD(v)                [] fn = "MACDFIX" -> TA_MACDFIX(v)
      [] fn = "MACDEXT" -> TA_MACDEXT(v)          [] fn = "APO" -> TA_APO(v)
      [] fn = "PPO" -> TA_PPO(v)                  [] fn = "BBANDS" -> TA_BBANDS(v)
      [] fn = "STOCHF" -> TA_STOCHF(v)            [] fn = "STOCH" -> TA_STOCH(v)
      [] fn = "STOCHRSI" -> TA_STOCHRSI(v)        [] fn = "ADXR" -> TA_ADXR(v)
      [] fn = "LINEARREG_ANGLE" -> TA_LINEARREG_ANGLE(v)
      [] fn = "HT_DCPERIOD" -> TA_HT_DCPERIOD(v)  [] fn = "HT_DCPHASE" -> TA_HT_DCPHASE(v)
      [] fn = "HT_PHASOR" -> TA_HT_PHASOR(v)      [] fn = "HT_SINE" -> TA_HT_SINE(v)
      [] fn = "HT_TRENDLINE" -> TA_HT_TRENDLINE(v) [] fn = "HT_TRENDMODE" -> TA_HT_TRENDMODE(v)
      [] fn = "MAMA" -> TA_MAMA(v)                [] fn = "ACOS" -> TA_ACOS(v)
      [] fn = "ASIN" -> TA_ASIN(v)                [] fn = "ATAN" -> TA_ATAN(v)
      [] fn = "CEIL" -> TA_CEIL(v)                [] fn = "COS" -> TA_COS(v)
      [] fn = "COSH" -> TA_COSH(v)                [] fn = "EXP" -> TA_EXP(v)
      [] fn = "FLOOR" -> TA_FLOOR(v)              [] fn = "LN" -> TA_LN(v)
      [] fn = "LOG10" -> TA_LOG10(v)              [] fn = "SIN" -> TA_SIN(v)
      [] fn = "SINH" -> TA_SINH(v)                [] fn = "SQRT" -> TA_SQRT(v)
      [] fn = "TAN" -> TA_TAN(v)                  [] fn = "TANH" -> TA_TANH(v)

\* TA_X_Lookback
Lookback(fn, v) ==
    CASE fn \in {"ADD", "SUB", "MULT", "DIV", "MEDPRICE", "TYPPRICE", "WCLPRICE", "AVGPRICE",
                 "BOP", "OBV", "AD"} \cup MathNames -> 0
      [] fn \in {"TRANGE", "SAR", "SAREXT"} -> 1
      [] fn \in {"MAX", "MIN", "MAXINDEX", "MININDEX", "MINMAX", "MINMAXINDEX", "MIDPOINT",
                 "MIDPRICE", "WILLR", "SUM", "SMA", "WMA", "TRIMA", "VAR", "STDDEV", "CORREL",
                 "LINEARREG", "LINEARREG_SLOPE", "LINEARREG_ANGLE", "LINEARREG_INTERCEPT", "TSF", "CCI"} ->
            PeriodLessOne(v)
      [] fn \in {"AROON", "AROONOSC", "BETA", "MOM", "ROC", "ROCP", "ROCR", "ROCR100"} -> v.period
      [] fn = "MFI" -> v.period + v.unstable
      [] fn = "ULTOSC" -> LongestOf3(v)
      [] fn = "EMA" -> EMA_Lookback(v)
      [] fn \in {"RSI", "CMO"} -> RSI_Lookback(v)
      [] fn \in {"ATR", "NATR"} -> ATR_Lookback(v)
      [] fn \in {"PLUS_DM", "MINUS_DM"} -> DM_Lookback(v)
      [] fn \in {"PLUS_DI", "MINUS_DI", "DX"} -> DI_Lookback(v)
      [] fn = "ADX" -> ADX_Lookback(v)
      [] fn = "ADXR" -> ADXR_Lookback(v)
      [] fn = "KAMA" -> KAMA_Lookback(v)
      [] fn = "T3" -> T3_Lookback(v)
      [] fn = "ADOSC" -> ADOSC_Lookback(v)
      [] fn = "DEMA" -> DEMA_Lookback(v)
      [] fn = "TEMA" -> TEMA_Lookback(v)
      [] fn \in {"MA", "BBANDS"} -> MA_Lookback(v)
      [] fn = "MAVP" -> MA_LookbackOf(v, v.period2, v.maType)
      [] fn = "TRIX" -> TRIX_Lookback(v)
      [] fn = "MACD" -> MACD_Lookback(v)
      [] fn = "MACDFIX" -> MACDFIX_Lookback(v)
      [] fn = "MACDEXT" -> MACDEXT_Lookback(v)
      [] fn \in {"APO", "PPO"} -> PO_Lookback(v)
      [] fn = "STOCHF" -> STOCHF_Lookback(v)
      [] fn = "STOCH" -> STOCH_Lookback(v)
      [] fn = "STOCHRSI" -> STOCHRSI_Lookback(v)
      [] fn \in ShortCycles -> Lookback32(v)
      [] fn \in LongCycles -> Lookback63(v)

Refused(v, code) == [mem |-> v.mem, beg |-> -1, nb |-> -1, rc |-> code]

Called(v) ==
    IF v.start < 0 THEN Refused(v, "TA_OUT_OF_RANGE_START_INDEX")
    ELSE IF v.end < 0 \/ v.end < v.start THEN Refused(v, "TA_OUT_OF_RANGE_END_INDEX")
    ELSE TA(v.fn, v)

-----------------------------------------------------------------------------
(* The caller. *)

Idle == [fn |-> "none"]

Init ==
    /\ unstable = 0
    /\ compatibility = "default"
    /\ call = Idle
    /\ result = Idle

\* TA_SetUnstablePeriod
SetUnstablePeriod(n) ==
    /\ call = Idle
    /\ unstable' = n
    /\ UNCHANGED <<compatibility, call, result>>

\* TA_SetCompatibility
SetCompatibility(c) ==
    /\ call = Idle
    /\ compatibility' = c
    /\ UNCHANGED <<unstable, call, result>>

\* Where outputs may go: each to an array of its own, or, where the caller does so, to that of
\* an input; no two to the same.
Destinations(r) ==
    {to \in [1 .. r.outs -> {r.from[x] : x \in DOMAIN r.from} \cup {Fresh[n] : n \in 1 .. r.outs}] :
        /\ IsInjective(to)
        /\ \A n \in 1 .. r.outs : n \in r.shared \/ to[n] = Fresh[n]
        /\ \A n, m \in 1 .. r.outs : to[n] = Fresh[m] => m = n}

\* The caller's arrays for a call: the inputs it needs, and outputs for the bars of the range.
Memory(market, r, start, end, to) ==
    LET inputs  == {r.from[x] : x \in DOMAIN r.from}
        outputs == {to[n] : n \in DOMAIN to} \ inputs
        room    == IF start \in 0 .. end THEN end - start + 1 ELSE 1
    IN [a \in inputs \cup outputs \cup {"stray"} |->
            IF a = "stray" THEN <<>>
            ELSE IF a \in inputs THEN Restrict(market[a], 0 .. (r.bars - 1)) ELSE Array(room)]

\* The request with the arrays and the range of the call, and the settings of the time.
Asked(r, mem, start, end, to) ==
    LET own == [mem |-> mem, start |-> start, end |-> end, to |-> to, unstable |-> unstable,
                compatibility |-> compatibility]
    IN [x \in DOMAIN own \cup DOMAIN r |-> IF x \in DOMAIN own THEN own[x] ELSE r[x]]

\* Functions without memory read no setting, and are called with the default ones only.
Call(market, r, start, end, to) ==
    /\ r.remembers \/ (unstable = 0 /\ compatibility = "default")
    /\ call' = Asked(r, Memory(market, r, start, end, to), start, end, to)
    /\ result' = [Called(call') EXCEPT !.mem = Restrict(@, DOMAIN call'.mem)]
    /\ UNCHANGED <<unstable, compatibility>>

Finish ==
    /\ call # Idle
    /\ call' = Idle
    /\ result' = Idle
    /\ UNCHANGED <<unstable, compatibility>>

Next ==
    \/ \E n \in UnstablePeriods : SetUnstablePeriod(n)
    \/ \E c \in {"default", "metastock"} : SetCompatibility(c)
    \/ /\ call = Idle
       /\ \E market \in Markets, r \in Requests :
             \E start \in Starts(r), end \in Ends(r), to \in Destinations(r) :
                Call(market, r, start, end, to)
    \/ Finish

Spec == Init /\ [][Next]_vars

-----------------------------------------------------------------------------
(* Properties. *)

Answered  == call # Idle /\ result.rc = "TA_SUCCESS"
HasOutput == Answered /\ result.nb > 0

\* What a call leaves: the caller's own arrays, each of the size it had, holding numbers.
TypeOK ==
    /\ unstable \in UnstablePeriods
    /\ compatibility \in {"default", "metastock"}
    /\ call # Idle =>
          /\ DOMAIN result.mem = DOMAIN call.mem
          /\ \A a \in DOMAIN call.mem \ {"stray"} :
                result.mem[a] \in [DOMAIN call.mem[a] -> Int]
          /\ result.rc = "TA_SUCCESS" => result.nb \in 0 .. (call.end - call.start + 1)

Given(n, k) == result.mem[call.to[n]][k]

\* Element k of an index output is a bar of the window with the extreme value.
ExtremeAt(kind, idx, bar) ==
    LET f == Values(call)
        first == bar - call.period + 1
    IN /\ idx \in first .. bar
       /\ f[idx] = IF kind = "max" THEN MaxOver(f, first, bar) ELSE MinOver(f, first, bar)

IndexKinds == [MAXINDEX |-> <<"max">>, MININDEX |-> <<"min">>, MINMAXINDEX |-> <<"min", "max">>]

\* Every value a call returns is the one the indicator has at that bar, wherever the range starts
\* and ends and whichever array it is written to: the running sums, the saved trailing values,
\* the seeds and the intermediate arrays of TA_X give what the formula gives.
SameAsDefinition ==
    HasOutput =>
        IF call.fn \in Stops THEN TRUE
        ELSE IF call.fn \in Indices
        THEN \A n \in 1 .. call.outs : \A k \in 0 .. (result.nb - 1) :
                ExtremeAt(IndexKinds[call.fn][n], Given(n, k), result.beg + k)
        ELSE \A series \in {Indicator(call.fn, call, result.beg)} :
                \A n \in 1 .. call.outs : \A k \in 0 .. (result.nb - 1) :
                   Given(n, k) = series[n][result.beg + k]

\* The elements from the lookback, or the start if that is later, to the end of the range.
Promised(v) == v.end - Larger(v.start, Lookback(v.fn, v)) + 1

\* No call writes outside an array, its own temporary ones included, or in an array of the caller
\* that is not an output; or in an output beyond the elements its lookback
\* promises, or after the bars of the range where the output is an input too.
OutputsFit ==
    call # Idle =>
        /\ result.mem["stray"] = <<>>
        /\ \A n \in 1 .. call.outs :
              \A k \in DOMAIN result.mem[call.to[n]] :
                 k >= (IF call.to[n] = Fresh[n] THEN Promised(call) ELSE call.end + 1) =>
                    Given(n, k) = call.mem[call.to[n]][k]
        /\ \A a \in DOMAIN call.mem \ {call.to[n] : n \in 1 .. call.outs} :
              result.mem[a] = call.mem[a]

\* The first bar of an output: the range's start or, if that is later, the bar TA_X_Lookback tells.
\* BBANDS begins where its deviation does, which is later than that for MAMA, an average that
\* takes no notice of the period.
FirstBar(v) ==
    Larger(v.start, IF v.fn = "BBANDS" THEN Larger(PeriodLessOne(v), Lookback(v.fn, v))
                    ELSE Lookback(v.fn, v))

\* A call on a range that is one succeeds, whatever other functions it calls: none of the checks
\* between a function and those it calls fails.  Its output starts at the first bar and goes to the
\* range's end; it is empty just when the first bar is after the end.  A caller that sizes its
\* arrays by the lookback relies on it.
RangeAsPromised ==
    call # Idle /\ call.start >= 0 /\ call.end >= call.start =>
        /\ result.rc = "TA_SUCCESS"
        /\ IF FirstBar(call) > call.end THEN result.nb = 0
           ELSE /\ result.beg = FirstBar(call)
                /\ result.nb = call.end - FirstBar(call) + 1

Percentages == {"RSI", "MFI", "AROON", "STOCH", "STOCHF", "STOCHRSI", "ULTOSC", "DX", "ADX", "ADXR"}

\* Oscillators stay on their scale, bands are in order, and a parabolic stop is never inside the
\* range of the bar it is for.
Bounded ==
    HasOutput =>
        \A k \in 0 .. (result.nb - 1) :
            LET bar == result.beg + k
            IN /\ call.fn \in Percentages =>
                     \A n \in 1 .. call.outs : Given(n, k) \in 0 .. 100 * Unit
               /\ call.fn \in {"CMO", "AROONOSC"} => Given(1, k) \in -100 * Unit .. 100 * Unit
               /\ call.fn = "WILLR" => Given(1, k) \in -100 * Unit .. 0
               /\ call.fn = "BBANDS" => Given(3, k) =< Given(2, k) /\ Given(2, k) =< Given(1, k)
               /\ call.fn \in Stops =>
                     Abs(Given(1, k)) =< Low(call, bar) \/ Abs(Given(1, k)) >= High(call, bar)

\* Where the checks above do not ask: NATR's value where the range starts after
\* its lookback divides by the close of its own bar.
NATRIsOfItsBar == call.fn = "NATR" => SameAsDefinition

=============================================================================
