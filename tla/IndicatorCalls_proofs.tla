------------------------ MODULE IndicatorCalls_proofs ------------------------
(***************************************************************************)
(* What a caller of the indicator functions can rely on, for every market, *)
(* every request and every unstable period.                                *)
(*                                                                         *)
(* The range (RangesArePromised).  A function that walks the bars answers  *)
(* from its lookback to the end of the range: that is the frame they share *)
(* (Walks).  A function that calls others asks for bars before its own     *)
(* range, sizes buffers by what it expects of the answer, and copies from  *)
(* a place in them: that each answer is just as long as expected is shown  *)
(* from the inside out, an average first, then the averages of averages,   *)
(* then MA of every type and the functions that call MA.                   *)
(***************************************************************************)
EXTENDS IndicatorCalls, TLAPS

\* r is the answer of the frame Run: from the lookback, or the start if that is later, to the end.
Walks(r, v, lookback) ==
    LET s == Larger(v.start, lookback)
    IN IF s > v.end THEN r = Nothing(v) ELSE \E mem : r = Done(mem, s, v.end - s + 1)

-----------------------------------------------------------------------------
(* The functions that walk the bars: their range is that of the frame Run. *)

\* The changes of a series, the sums and prices of a bar, and the running OBV and AD.
LEMMA ChangesWalk ==
  ASSUME NEW v
  PROVE  /\ Walks(TA_MOM(v), v, v.period)
         /\ Walks(TA_ROC(v), v, v.period)
         /\ Walks(TA_ROCP(v), v, v.period)
         /\ Walks(TA_ROCR(v), v, v.period)
         /\ Walks(TA_ROCR100(v), v, v.period)
         /\ Walks(TA_ADD(v), v, 0)
         /\ Walks(TA_SUB(v), v, 0)
         /\ Walks(TA_MULT(v), v, 0)
         /\ Walks(TA_DIV(v), v, 0)
         /\ Walks(TA_MEDPRICE(v), v, 0)
         /\ Walks(TA_TYPPRICE(v), v, 0)
         /\ Walks(TA_WCLPRICE(v), v, 0)
         /\ Walks(TA_AVGPRICE(v), v, 0)
         /\ Walks(TA_BOP(v), v, 0)
         /\ Walks(TA_OBV(v), v, 0)
         /\ Walks(TA_AD(v), v, 0)
         /\ Walks(TA_TRANGE(v), v, 1)
<1>1. Walks(TA_MOM(v), v, v.period)
  BY Zenon DEF TA_MOM, Run, Walks
<1>2. Walks(TA_ROC(v), v, v.period)
  BY Zenon DEF TA_ROC, Run, Walks
<1>3. Walks(TA_ROCP(v), v, v.period)
  BY Zenon DEF TA_ROCP, Run, Walks
<1>4. Walks(TA_ROCR(v), v, v.period)
  BY Zenon DEF TA_ROCR, Run, Walks
<1>5. Walks(TA_ROCR100(v), v, v.period)
  BY Zenon DEF TA_ROCR100, Run, Walks
<1>6. Walks(TA_ADD(v), v, 0)
  BY Zenon DEF TA_ADD, Run, Walks
<1>7. Walks(TA_SUB(v), v, 0)
  BY Zenon DEF TA_SUB, Run, Walks
<1>8. Walks(TA_MULT(v), v, 0)
  BY Zenon DEF TA_MULT, Run, Walks
<1>9. Walks(TA_DIV(v), v, 0)
  BY Zenon DEF TA_DIV, Run, Walks
<1>10. Walks(TA_MEDPRICE(v), v, 0)
  BY Zenon DEF TA_MEDPRICE, Run, Walks
<1>11. Walks(TA_TYPPRICE(v), v, 0)
  BY Zenon DEF TA_TYPPRICE, Run, Walks
<1>12. Walks(TA_WCLPRICE(v), v, 0)
  BY Zenon DEF TA_WCLPRICE, Run, Walks
<1>13. Walks(TA_AVGPRICE(v), v, 0)
  BY Zenon DEF TA_AVGPRICE, Run, Walks
<1>14. Walks(TA_BOP(v), v, 0)
  BY Zenon DEF TA_BOP, Run, Walks
<1>15. Walks(TA_OBV(v), v, 0)
  BY Zenon DEF TA_OBV, Run, Walks
<1>16. Walks(TA_AD(v), v, 0)
  BY Zenon DEF TA_AD, Run, Walks
<1>17. Walks(TA_TRANGE(v), v, 1)
  BY Zenon DEF TA_TRANGE, Run, Walks
<1> QED
  BY <1>1, <1>2, <1>3, <1>4, <1>5, <1>6, <1>7, <1>8, <1>9, <1>10, <1>11,
     <1>12, <1>13, <1>14, <1>15, <1>16, <1>17

\* The functions that apply one of the C library to each element.
LEMMA ElementsWalk ==
  ASSUME NEW v
  PROVE  /\ Walks(TA_ACOS(v), v, 0)
         /\ Walks(TA_ASIN(v), v, 0)
         /\ Walks(TA_ATAN(v), v, 0)
         /\ Walks(TA_CEIL(v), v, 0)
         /\ Walks(TA_COS(v), v, 0)
         /\ Walks(TA_COSH(v), v, 0)
         /\ Walks(TA_EXP(v), v, 0)
         /\ Walks(TA_FLOOR(v), v, 0)
         /\ Walks(TA_LN(v), v, 0)
         /\ Walks(TA_LOG10(v), v, 0)
         /\ Walks(TA_SIN(v), v, 0)
         /\ Walks(TA_SINH(v), v, 0)
         /\ Walks(TA_SQRT(v), v, 0)
         /\ Walks(TA_TAN(v), v, 0)
         /\ Walks(TA_TANH(v), v, 0)
<1>1. Walks(TA_ACOS(v), v, 0)
  BY Zenon DEF TA_ACOS, Elementwise, Run, Walks
<1>2. Walks(TA_ASIN(v), v, 0)
  BY Zenon DEF TA_ASIN, Elementwise, Run, Walks
<1>3. Walks(TA_ATAN(v), v, 0)
  BY Zenon DEF TA_ATAN, Elementwise, Run, Walks
<1>4. Walks(TA_CEIL(v), v, 0)
  BY Zenon DEF TA_CEIL, Elementwise, Run, Walks
<1>5. Walks(TA_COS(v), v, 0)
  BY Zenon DEF TA_COS, Elementwise, Run, Walks
<1>6. Walks(TA_COSH(v), v, 0)
  BY Zenon DEF TA_COSH, Elementwise, Run, Walks
<1>7. Walks(TA_EXP(v), v, 0)
  BY Zenon DEF TA_EXP, Elementwise, Run, Walks
<1>8. Walks(TA_FLOOR(v), v, 0)
  BY Zenon DEF TA_FLOOR, Elementwise, Run, Walks
<1>9. Walks(TA_LN(v), v, 0)
  BY Zenon DEF TA_LN, Elementwise, Run, Walks
<1>10. Walks(TA_LOG10(v), v, 0)
  BY Zenon DEF TA_LOG10, Elementwise, Run, Walks
<1>11. Walks(TA_SIN(v), v, 0)
  BY Zenon DEF TA_SIN, Elementwise, Run, Walks
<1>12. Walks(TA_SINH(v), v, 0)
  BY Zenon DEF TA_SINH, Elementwise, Run, Walks
<1>13. Walks(TA_SQRT(v), v, 0)
  BY Zenon DEF TA_SQRT, Elementwise, Run, Walks
<1>14. Walks(TA_TAN(v), v, 0)
  BY Zenon DEF TA_TAN, Elementwise, Run, Walks
<1>15. Walks(TA_TANH(v), v, 0)
  BY Zenon DEF TA_TANH, Elementwise, Run, Walks
<1> QED
  BY <1>1, <1>2, <1>3, <1>4, <1>5, <1>6, <1>7, <1>8, <1>9, <1>10, <1>11, <1>12, <1>13, <1>14, <1>15

\* The extremes of a window and what is computed of them.
LEMMA ExtremesWalk ==
  ASSUME NEW v
  PROVE  /\ Walks(TA_MAX(v), v, PeriodLessOne(v))
         /\ Walks(TA_MAXINDEX(v), v, PeriodLessOne(v))
         /\ Walks(TA_MIN(v), v, PeriodLessOne(v))
         /\ Walks(TA_MININDEX(v), v, PeriodLessOne(v))
         /\ Walks(TA_MINMAX(v), v, PeriodLessOne(v))
         /\ Walks(TA_MINMAXINDEX(v), v, PeriodLessOne(v))
         /\ Walks(TA_MIDPOINT(v), v, PeriodLessOne(v))
         /\ Walks(TA_MIDPRICE(v), v, PeriodLessOne(v))
         /\ Walks(TA_WILLR(v), v, PeriodLessOne(v))
         /\ Walks(TA_AROON(v), v, v.period)
         /\ Walks(TA_AROONOSC(v), v, v.period)
<1>1. Walks(TA_MAX(v), v, PeriodLessOne(v))
  BY Zenon DEF TA_MAX, Run, Walks
<1>2. Walks(TA_MAXINDEX(v), v, PeriodLessOne(v))
  BY Zenon DEF TA_MAXINDEX, Run, Walks
<1>3. Walks(TA_MIN(v), v, PeriodLessOne(v))
  BY Zenon DEF TA_MIN, Run, Walks
<1>4. Walks(TA_MININDEX(v), v, PeriodLessOne(v))
  BY Zenon DEF TA_MININDEX, Run, Walks
<1>5. Walks(TA_MINMAX(v), v, PeriodLessOne(v))
  BY Zenon DEF TA_MINMAX, Run, Walks
<1>6. Walks(TA_MINMAXINDEX(v), v, PeriodLessOne(v))
  BY Zenon DEF TA_MINMAXINDEX, Run, Walks
<1>7. Walks(TA_MIDPOINT(v), v, PeriodLessOne(v))
  BY Zenon DEF TA_MIDPOINT, Run, Walks
<1>8. Walks(TA_MIDPRICE(v), v, PeriodLessOne(v))
  BY Zenon DEF TA_MIDPRICE, Run, Walks
<1>9. Walks(TA_WILLR(v), v, PeriodLessOne(v))
  BY Zenon DEF TA_WILLR, Run, Walks
<1>10. Walks(TA_AROON(v), v, v.period)
  BY Zenon DEF TA_AROON, Run, Walks
<1>11. Walks(TA_AROONOSC(v), v, v.period)
  BY Zenon DEF TA_AROONOSC, Run, Walks
<1> QED
  BY <1>1, <1>2, <1>3, <1>4, <1>5, <1>6, <1>7, <1>8, <1>9, <1>10, <1>11

\* The running sums of a window.
LEMMA SumsWalk ==
  ASSUME NEW v
  PROVE  /\ Walks(TA_SUM(v), v, PeriodLessOne(v))
         /\ Walks(TA_INT_SMA(v), v, PeriodLessOne(v))
         /\ Walks(TA_TRIMA(v), v, PeriodLessOne(v))
         /\ Walks(TA_INT_VAR(v), v, PeriodLessOne(v))
         /\ Walks(TA_CORREL(v), v, PeriodLessOne(v))
         /\ Walks(TA_LINEARREG(v), v, PeriodLessOne(v))
         /\ Walks(TA_LINEARREG_SLOPE(v), v, PeriodLessOne(v))
         /\ Walks(TA_LINEARREG_ANGLE(v), v, PeriodLessOne(v))
         /\ Walks(TA_LINEARREG_INTERCEPT(v), v, PeriodLessOne(v))
         /\ Walks(TA_TSF(v), v, PeriodLessOne(v))
         /\ Walks(TA_CCI(v), v, PeriodLessOne(v))
         /\ Walks(TA_BETA(v), v, v.period)
         /\ Walks(TA_MFI(v), v, v.period + v.unstable)
         /\ Walks(TA_ULTOSC(v), v, LongestOf3(v))
<1>1. Walks(TA_SUM(v), v, PeriodLessOne(v))
  BY Zenon DEF TA_SUM, Run, Walks
<1>2. Walks(TA_INT_SMA(v), v, PeriodLessOne(v))
  BY Zenon DEF TA_INT_SMA, Run, Walks
<1>3. Walks(TA_TRIMA(v), v, PeriodLessOne(v))
  BY Zenon DEF TA_TRIMA, Run, Walks
<1>4. Walks(TA_INT_VAR(v), v, PeriodLessOne(v))
  BY Zenon DEF TA_INT_VAR, Run, Walks
<1>5. Walks(TA_CORREL(v), v, PeriodLessOne(v))
  BY Zenon DEF TA_CORREL, Run, Walks
<1>6. Walks(TA_LINEARREG(v), v, PeriodLessOne(v))
  BY Zenon DEF TA_LINEARREG, Run, Walks
<1>7. Walks(TA_LINEARREG_SLOPE(v), v, PeriodLessOne(v))
  BY Zenon DEF TA_LINEARREG_SLOPE, Run, Walks
<1>8. Walks(TA_LINEARREG_ANGLE(v), v, PeriodLessOne(v))
  BY Zenon DEF TA_LINEARREG_ANGLE, Run, Walks
<1>9. Walks(TA_LINEARREG_INTERCEPT(v), v, PeriodLessOne(v))
  BY Zenon DEF TA_LINEARREG_INTERCEPT, Run, Walks
<1>10. Walks(TA_TSF(v), v, PeriodLessOne(v))
  BY Zenon DEF TA_TSF, Run, Walks
<1>11. Walks(TA_CCI(v), v, PeriodLessOne(v))
  BY Zenon DEF TA_CCI, Run, Walks
<1>12. Walks(TA_BETA(v), v, v.period)
  BY Zenon DEF TA_BETA, Run, Walks
<1>13. Walks(TA_MFI(v), v, v.period + v.unstable)
  BY Zenon DEF TA_MFI, Run, Walks
<1>14. Walks(TA_ULTOSC(v), v, LongestOf3(v))
  BY Zenon DEF TA_ULTOSC, Run, Walks
<1> QED
  BY <1>1, <1>2, <1>3, <1>4, <1>5, <1>6, <1>7, <1>8, <1>9, <1>10, <1>11, <1>12, <1>13, <1>14

\* The averages that remember all bars before, and the parabolic stops.
LEMMA AveragesWalk ==
  ASSUME NEW v
  PROVE  /\ Walks(TA_INT_EMA(v), v, EMA_Lookback(v))
         /\ Walks(TA_RSI(v), v, RSI_Lookback(v))
         /\ Walks(TA_CMO(v), v, RSI_Lookback(v))
         /\ Walks(TA_DX(v), v, DI_Lookback(v))
         /\ Walks(TA_ADX(v), v, ADX_Lookback(v))
         /\ Walks(TA_KAMA(v), v, KAMA_Lookback(v))
         /\ Walks(TA_T3(v), v, T3_Lookback(v))
         /\ Walks(TA_ADOSC(v), v, ADOSC_Lookback(v))
         /\ Walks(TA_SAR(v), v, 1)
         /\ Walks(TA_SAREXT(v), v, 1)
<1>1. Walks(TA_INT_EMA(v), v, EMA_Lookback(v))
  BY Zenon DEF TA_INT_EMA, Run, Walks
<1>2. Walks(TA_RSI(v), v, RSI_Lookback(v))
  BY Zenon DEF TA_RSI, Run, Walks
<1>3. Walks(TA_CMO(v), v, RSI_Lookback(v))
  BY Zenon DEF TA_CMO, Run, Walks
<1>4. Walks(TA_DX(v), v, DI_Lookback(v))
  BY Zenon DEF TA_DX, Run, Walks
<1>5. Walks(TA_ADX(v), v, ADX_Lookback(v))
  BY Zenon DEF TA_ADX, Run, Walks
<1>6. Walks(TA_KAMA(v), v, KAMA_Lookback(v))
  BY Zenon DEF TA_KAMA, Run, Walks
<1>7. Walks(TA_T3(v), v, T3_Lookback(v))
  BY Zenon DEF TA_T3, Run, Walks
<1>8. Walks(TA_ADOSC(v), v, ADOSC_Lookback(v))
  BY Zenon DEF TA_ADOSC, Run, Walks
<1>9. Walks(TA_SAR(v), v, 1)
  BY Zenon DEF TA_SAR, Run, Walks
<1>10. Walks(TA_SAREXT(v), v, 1)
  BY Zenon DEF TA_SAREXT, Run, Walks
<1> QED
  BY <1>1, <1>2, <1>3, <1>4, <1>5, <1>6, <1>7, <1>8, <1>9, <1>10

\* The cycle functions: their own lookback, 32 or 63 bars and the unstable period.
LEMMA CyclesWalk ==
  ASSUME NEW v
  PROVE  /\ Walks(TA_HT_PHASOR(v), v, Lookback32(v))
         /\ Walks(TA_HT_DCPERIOD(v), v, Lookback32(v))
         /\ Walks(TA_MAMA(v), v, Lookback32(v))
         /\ Walks(TA_HT_DCPHASE(v), v, Lookback63(v))
         /\ Walks(TA_HT_SINE(v), v, Lookback63(v))
         /\ Walks(TA_HT_TRENDLINE(v), v, Lookback63(v))
         /\ Walks(TA_HT_TRENDMODE(v), v, Lookback63(v))
<1>1. Walks(TA_HT_PHASOR(v), v, Lookback32(v))
  BY Zenon DEF TA_HT_PHASOR, RunCycles, Run, Walks
<1>2. Walks(TA_HT_DCPERIOD(v), v, Lookback32(v))
  BY Zenon DEF TA_HT_DCPERIOD, RunCycles, Run, Walks
<1>3. Walks(TA_MAMA(v), v, Lookback32(v))
  BY Zenon DEF TA_MAMA, RunCycles, Run, Walks
<1>4. Walks(TA_HT_DCPHASE(v), v, Lookback63(v))
  BY Zenon DEF TA_HT_DCPHASE, RunCycles, Run, Walks
<1>5. Walks(TA_HT_SINE(v), v, Lookback63(v))
  BY Zenon DEF TA_HT_SINE, RunCycles, Run, Walks
<1>6. Walks(TA_HT_TRENDLINE(v), v, Lookback63(v))
  BY Zenon DEF TA_HT_TRENDLINE, RunCycles, Run, Walks
<1>7. Walks(TA_HT_TRENDMODE(v), v, Lookback63(v))
  BY Zenon DEF TA_HT_TRENDMODE, RunCycles, Run, Walks
<1> QED
  BY <1>1, <1>2, <1>3, <1>4, <1>5, <1>6, <1>7

(* What the functions promise of the range. *)

\* r is a successful answer about the bars from start, or from lookback if that is later, to end.
Spans(r, start, end, lookback) ==
    /\ DOMAIN r = {"mem", "beg", "nb", "rc"}
    /\ r.rc = "TA_SUCCESS"
    /\ LET first == Larger(start, lookback)
       IN IF first > end THEN r.nb = 0 ELSE r.beg = first /\ r.nb = end - first + 1

Fields == {"mem", "start", "end", "from", "to", "unstable", "compatibility", "period", "period2",
           "period3", "maType", "maType2", "maType3"}

IsCall(v) ==
    /\ Fields \subseteq DOMAIN v
    /\ v.start \in Int
    /\ v.end \in Int
    /\ v.unstable \in Nat
    /\ v.period \in Nat
    /\ v.period2 \in Nat
    /\ v.period3 \in Nat

\* The range that a call of another function asks for.
SameParameters(w, v) ==
    /\ w.unstable = v.unstable
    /\ w.period = v.period
    /\ w.period2 = v.period2
    /\ w.period3 = v.period3
    /\ w.maType = v.maType
    /\ w.maType2 = v.maType2
    /\ w.maType3 = v.maType3

\* The frame of the functions that walk the bars keeps the promise.
LEMMA WalkSpans ==
  ASSUME NEW r, NEW v, NEW lookback, Walks(r, v, lookback)
  PROVE  Spans(r, v.start, v.end, lookback)
BY DEF Walks, Spans, Done, Nothing

\* A call of another function has the parameters of the caller, and the range it is given.
LEMMA CallingIsCall ==
  ASSUME NEW v, IsCall(v), NEW mem, NEW start \in Int, NEW end \in Int, NEW from, NEW to
  PROVE  LET w == Calling(v, mem, start, end, from, to)
         IN /\ IsCall(w)
            /\ SameParameters(w, v)
            /\ w.start = start
            /\ w.end = end
            /\ w.from = from
            /\ w.to = to
            /\ w.mem = mem
BY DEF Calling, IsCall, Fields, SameParameters

\* Another period and type of average leave a call a call.
LEMMA TypedIsCall ==
  ASSUME NEW v, IsCall(v), NEW period \in Nat, NEW maType
  PROVE  LET w == Typed(v, period, maType)
         IN /\ IsCall(w)
            /\ w.start = v.start
            /\ w.end = v.end
            /\ w.unstable = v.unstable
            /\ w.period = period
            /\ w.maType = maType
BY DEF Typed, IsCall, Fields

\* A range that is moved up to the lookback.
LEMMA FromIsCall ==
  ASSUME NEW v, IsCall(v), NEW lookback \in Int
  PROVE  /\ IsCall(From(v, lookback))
         /\ SameParameters(From(v, lookback), v)
         /\ From(v, lookback).start = Larger(v.start, lookback)
         /\ From(v, lookback).end = v.end
         /\ From(v, lookback).from = v.from
         /\ From(v, lookback).to = v.to
         /\ From(v, lookback).mem = v.mem
BY DEF From, IsCall, Fields, SameParameters, Larger

-----------------------------------------------------------------------------
(* Averages of averages. *)

\* An answer without elements, for a range that ends before the first bar.
LEMMA NothingSpans ==
  ASSUME NEW v, NEW start \in Int, NEW end \in Int, NEW lookback \in Int,
         Larger(start, lookback) > end
  PROVE  Spans(Nothing(v), start, end, lookback)
BY DEF Nothing, Done, Spans

\* An answer for the bars from the first to the end.
LEMMA DoneSpans ==
  ASSUME NEW mem, NEW start \in Int, NEW end \in Int, NEW lookback \in Int,
         NEW beg, beg = Larger(start, lookback), beg =< end, NEW nb, nb = end - beg + 1
  PROVE  Spans(Done(mem, beg, nb), start, end, lookback)
BY DEF Done, Spans, Larger

\* A range that starts after the lookback is answered whole.
LEMMA SpansWhole ==
  ASSUME NEW r, NEW start \in Int, NEW end \in Int, NEW lookback \in Int,
         start >= lookback, start =< end, Spans(r, start, end, lookback)
  PROVE  r.beg = start /\ r.nb = end - start + 1
BY DEF Spans, Larger

\* A call on the n elements another call left.
LEMMA SpansRest ==
  ASSUME NEW r, NEW n \in Int, NEW lookback \in Nat, n > lookback,
         Spans(r, 0, n - 1, lookback)
  PROVE  r.beg = lookback /\ r.nb = n - lookback
BY DEF Spans, Larger

\* An exponential average of one array in another.
LEMMA IntEMASpans ==
  ASSUME NEW v, IsCall(v), NEW mem, NEW start \in Int, NEW end \in Int, NEW input, NEW output
  PROVE  Spans(IntEMA(v, mem, start, end, input, output), start, end, EMA_Lookback(v))
<1> DEFINE w == OnReal(v, mem, start, end, input, output)
           u == [w EXCEPT !.k = PerToK(v.period)]
<1>1. IsCall(w) /\ SameParameters(w, v) /\ w.start = start /\ w.end = end
  BY CallingIsCall DEF OnReal
<1>2. /\ u.start = start /\ u.end = end
      /\ u.period = v.period /\ u.unstable = v.unstable
  BY <1>1 DEF IsCall, Fields, SameParameters
<1>3. EMA_Lookback(u) = EMA_Lookback(v)
  BY <1>2 DEF EMA_Lookback
<1>4. Spans(TA_INT_EMA(u), start, end, EMA_Lookback(v))
  BY <1>2, <1>3, AveragesWalk, WalkSpans
<1> QED
  BY <1>4 DEF IntEMA

LEMMA EMA_LookbackIsNat ==
  ASSUME NEW v, IsCall(v), v.period >= 1
  PROVE  EMA_Lookback(v) \in Nat
BY DEF EMA_Lookback, IsCall

\* EMA sets its smoothing constant and asks the common function.
LEMMA EMASpans ==
  ASSUME NEW v, IsCall(v)
  PROVE  Spans(TA_EMA(v), v.start, v.end, EMA_Lookback(v))
<1> DEFINE u == [v EXCEPT !.k = PerToK(v.period)]
<1>1. /\ u.start = v.start /\ u.end = v.end
      /\ u.period = v.period /\ u.unstable = v.unstable
  BY DEF IsCall, Fields
<1>2. EMA_Lookback(u) = EMA_Lookback(v)
  BY <1>1 DEF EMA_Lookback
<1>3. Spans(TA_INT_EMA(u), v.start, v.end, EMA_Lookback(v))
  BY <1>1, <1>2, AveragesWalk, WalkSpans
<1> QED
  BY <1>3 DEF TA_EMA

\* WMA copies for a period of 1.
LEMMA WMASpans ==
  ASSUME NEW v, IsCall(v), v.start \in Nat, v.period >= 1
  PROVE  Spans(TA_WMA(v), v.start, v.end, PeriodLessOne(v))
<1>1. CASE v.period = 1 /\ v.start =< v.end
  <2>1. TA_WMA(v) = Copied(v) /\ PeriodLessOne(v) = 0
    BY <1>1 DEF TA_WMA, PeriodLessOne
  <2> QED
    BY <2>1, <1>1 DEF Copied, Done, Spans, Larger, IsCall
<1>2. CASE ~(v.period = 1 /\ v.start =< v.end)
  <2>1. Walks(TA_WMA(v), v, PeriodLessOne(v))
    BY <1>2, Zenon DEF TA_WMA, Run, Walks
  <2> QED
    BY <2>1, WalkSpans
<1> QED
  BY <1>1, <1>2

\* A copy of the range begins at its start.
LEMMA CopiedSpans ==
  ASSUME NEW v, IsCall(v), v.start \in Nat, v.start =< v.end
  PROVE  Spans(Copied(v), v.start, v.end, 0)
BY DEF Copied, Done, Spans, Larger, IsCall

LEMMA DoubledIsDone ==
  ASSUME NEW v, NEW one, NEW first, NEW second
  PROVE  \E mem : Doubled(v, one, first, second) = Done(mem, first.beg + second.beg, second.nb)
BY Zenon DEF Doubled

\* DEMA begins after two lookbacks: what the first average leaves is what the second needs.
LEMMA DEMASpans ==
  ASSUME NEW u, IsCall(u), u.period >= 1
  PROVE  Spans(TA_DEMA(u), u.start, u.end, DEMA_Lookback(u))
<1> DEFINE L      == EMA_Lookback(u)
           v      == From(u, DEMA_Lookback(u))
           one    == IF Input(v) = Out(v, 1) THEN Out(v, 1) ELSE "firstEMA"
           room   == IF one = "firstEMA"
                     THEN Allocate(v.mem, one, DEMA_Lookback(v) + Outputs(v)) ELSE v.mem
           first  == IntEMA(v, room, v.start - EMA_Lookback(v), v.end, Input(v), one)
           second == Again(v, Allocate(first.mem, "secondEMA", first.nb), first.nb, one,
                           "secondEMA")
<1>1. L \in Nat /\ DEMA_Lookback(u) = 2 * L /\ DEMA_Lookback(u) \in Int
  BY EMA_LookbackIsNat DEF DEMA_Lookback
<1>2. /\ IsCall(v) /\ SameParameters(v, u) /\ v.end = u.end
      /\ v.start = Larger(u.start, DEMA_Lookback(u))
  BY <1>1, FromIsCall
<1>3. v.start >= 2 * L /\ v.start \in Int /\ v.end \in Int /\ u.start \in Int
  BY <1>1, <1>2 DEF Larger, IsCall
<1>4. EMA_Lookback(v) = L
  BY <1>2 DEF EMA_Lookback, SameParameters
<1>5. TA_DEMA(u) = IF v.start > v.end THEN Nothing(v) ELSE DEMAOf(v, one, first)
  BY DEF TA_DEMA, Empty
<1>6. DEMAOf(v, one, first) = Doubled(v, one, first, second)
  BY DEF DEMAOf
<1>7. \E mem : Doubled(v, one, first, second) = Done(mem, first.beg + second.beg, second.nb)
  <2> HIDE DEF v, one, room, first, second
  <2> QED
    BY DoubledIsDone
<1> HIDE DEF v, one, room
<1>8. Spans(first, v.start - L, v.end, L)
  BY <1>1, <1>2, <1>3, <1>4, IntEMASpans
<1> HIDE DEF first
<1>9. CASE v.start > v.end
  BY <1>9, <1>5, <1>1, <1>2, <1>3, NothingSpans
<1>10. CASE v.start =< v.end
  <2>1. first.beg = v.start - L /\ first.nb = v.end - v.start + L + 1
    BY <1>8, <1>1, <1>3, <1>10, SpansWhole
  <2>2. Spans(second, 0, first.nb - 1, L)
    BY <2>1, <1>1, <1>2, <1>3, <1>4, IntEMASpans DEF Again
  <2> HIDE DEF second, L
  <2>3. first.nb \in Int /\ first.nb > L /\ first.nb - L = v.end - v.start + 1
    BY <2>1, <1>1, <1>3, <1>10
  <2>4. second.beg = L /\ second.nb = v.end - v.start + 1
    BY <2>2, <2>3, <1>1, SpansRest
  <2>5. \E mem : TA_DEMA(u) = Done(mem, v.start, v.end - v.start + 1)
    BY <2>1, <2>4, <1>1, <1>3, <1>5, <1>6, <1>7, <1>10
  <2> QED
    BY <2>5, <1>1, <1>2, <1>3, <1>10, DoneSpans
<1> QED
  BY <1>3, <1>9, <1>10

\* TEMA begins after three.
LEMMA TEMASpans ==
  ASSUME NEW u, IsCall(u), u.period >= 1
  PROVE  Spans(TA_TEMA(u), u.start, u.end, TEMA_Lookback(u))
<1> DEFINE L      == EMA_Lookback(u)
           v      == From(u, TEMA_Lookback(u))
           room   == Allocate(v.mem, "firstEMA", TEMA_Lookback(v) + Outputs(v))
           first  == IntEMA(v, room, v.start - 2 * EMA_Lookback(v), v.end, Input(v), "firstEMA")
           second == Again(v, Allocate(first.mem, "secondEMA", first.nb), first.nb,
                           "firstEMA", "secondEMA")
           third  == Again(v, second.mem, second.nb, "secondEMA", Out(v, 1))
<1>1. L \in Nat /\ TEMA_Lookback(u) = 3 * L /\ TEMA_Lookback(u) \in Int
  BY EMA_LookbackIsNat DEF TEMA_Lookback
<1>2. /\ IsCall(v) /\ SameParameters(v, u) /\ v.end = u.end
      /\ v.start = Larger(u.start, TEMA_Lookback(u))
  BY <1>1, FromIsCall
<1>3. v.start >= 3 * L /\ v.start \in Int /\ v.end \in Int /\ u.start \in Int
  BY <1>1, <1>2 DEF Larger, IsCall
<1>4. EMA_Lookback(v) = L
  BY <1>2 DEF EMA_Lookback, SameParameters
<1>5. TA_TEMA(u) = IF v.start > v.end THEN Nothing(v) ELSE TEMAOf(v, first)
  BY DEF TA_TEMA, Empty
<1>6. TEMAOf(v, first) = Tripled(v, first, second, third)
  BY DEF TEMAOf, OfSecond
<1>7. \E mem : Tripled(v, first, second, third)
               = Done(mem, third.beg + second.beg + first.beg, third.nb)
  BY Zenon DEF Tripled
<1> HIDE DEF v, room
<1>8. Spans(first, v.start - 2 * L, v.end, L)
  BY <1>1, <1>2, <1>3, <1>4, IntEMASpans
<1> HIDE DEF first
<1>9. CASE v.start > v.end
  BY <1>9, <1>5, <1>1, <1>2, <1>3, NothingSpans
<1>10. CASE v.start =< v.end
  <2>1. first.beg = v.start - 2 * L /\ first.nb = v.end - v.start + 2 * L + 1
    BY <1>8, <1>1, <1>3, <1>10, SpansWhole
  <2>2. Spans(second, 0, first.nb - 1, L)
    BY <2>1, <1>1, <1>2, <1>3, <1>4, IntEMASpans DEF Again
  <2> HIDE DEF second, L
  <2>3. first.nb \in Int /\ first.nb > L /\ first.nb - L = v.end - v.start + L + 1
    BY <2>1, <1>1, <1>3, <1>10
  <2>4. second.beg = L /\ second.nb = v.end - v.start + L + 1
    BY <2>2, <2>3, <1>1, SpansRest
  <2>5. second.nb \in Int /\ second.nb > L /\ second.nb - L = v.end - v.start + 1
    BY <2>4, <1>1, <1>3, <1>10
  <2>6. Spans(third, 0, second.nb - 1, L)
    BY <2>5, <1>1, <1>2, <1>4, IntEMASpans DEF Again, L
  <2> HIDE DEF third
  <2>7. third.beg = L /\ third.nb = v.end - v.start + 1
    BY <2>5, <2>6, <1>1, SpansRest
  <2>8. \E mem : TA_TEMA(u) = Done(mem, v.start, v.end - v.start + 1)
    BY <2>1, <2>4, <2>7, <1>1, <1>3, <1>5, <1>6, <1>7, <1>10
  <2> QED
    BY <2>8, <1>1, <1>2, <1>3, <1>10, DoneSpans
<1> QED
  BY <1>3, <1>9, <1>10

-----------------------------------------------------------------------------
(* MA and what asks it. *)

\* The averages that MA calls and that walk the bars.
LEMMA OfTypesSpans ==
  ASSUME NEW v, IsCall(v)
  PROVE  /\ Spans(TA_SMA(v), v.start, v.end, PeriodLessOne(v))
         /\ Spans(TA_TRIMA(v), v.start, v.end, PeriodLessOne(v))
         /\ Spans(TA_KAMA(v), v.start, v.end, KAMA_Lookback(v))
         /\ Spans(TA_T3([v EXCEPT !.vFactor = (7 * Unit) \div 10]), v.start, v.end, T3_Lookback(v))
         /\ Spans(MAOfMAMA(v), v.start, v.end, Lookback32(v))
<1> DEFINE t == [v EXCEPT !.vFactor = (7 * Unit) \div 10]
           m == [v EXCEPT !.fastLimit = Unit \div 2, !.slowLimit = Unit \div 20,
                          !.to = <<Out(v, 1), "dummyBuffer">>,
                          !.mem = Allocate(@, "dummyBuffer", v.end - v.start + 1)]
<1>1. Spans(TA_SMA(v), v.start, v.end, PeriodLessOne(v))
  BY SumsWalk, WalkSpans DEF TA_SMA
<1>2. Spans(TA_TRIMA(v), v.start, v.end, PeriodLessOne(v))
  BY SumsWalk, WalkSpans
<1>3. Spans(TA_KAMA(v), v.start, v.end, KAMA_Lookback(v))
  BY AveragesWalk, WalkSpans
<1>4. t.start = v.start /\ t.end = v.end /\ t.period = v.period /\ t.unstable = v.unstable
  BY DEF IsCall, Fields
<1>5. T3_Lookback(t) = T3_Lookback(v)
  BY <1>4 DEF T3_Lookback
<1>6. Spans(TA_T3(t), v.start, v.end, T3_Lookback(v))
  BY <1>4, <1>5, AveragesWalk, WalkSpans
<1>7. m.start = v.start /\ m.end = v.end /\ m.unstable = v.unstable
  BY DEF IsCall, Fields
<1>8. Lookback32(m) = Lookback32(v) /\ MAOfMAMA(v) = TA_MAMA(m)
  BY <1>7 DEF Lookback32, MAOfMAMA
<1>9. Spans(TA_MAMA(m), v.start, v.end, Lookback32(v))
  BY <1>7, <1>8, CyclesWalk, WalkSpans
<1> QED
  BY <1>1, <1>2, <1>3, <1>6, <1>8, <1>9

\* MA's range is the one of the average of the type, or of the copy for a period of 1.
LEMMA MASpans ==
  ASSUME NEW v, IsCall(v), v.start \in Nat, v.start =< v.end, v.period >= 1, v.maType \in MATypes
  PROVE  Spans(TA_MA(v), v.start, v.end, MA_Lookback(v))
<1>1. CASE v.period = 1
  BY <1>1, CopiedSpans DEF TA_MA, MA_Lookback
<1>2. CASE v.period # 1
  <2>1. ~(v.period =< 1) /\ v.period # 1
    BY <1>2 DEF IsCall
  <2>2. CASE v.maType = "SMA"
    BY <2>1, <2>2, OfTypesSpans DEF TA_MA, MA_Lookback
  <2>3. CASE v.maType = "EMA"
    BY <2>1, <2>3, EMASpans DEF TA_MA, MA_Lookback
  <2>4. CASE v.maType = "WMA"
    BY <2>1, <2>4, WMASpans DEF TA_MA, MA_Lookback
  <2>5. CASE v.maType = "DEMA"
    BY <2>1, <2>5, DEMASpans DEF TA_MA, MA_Lookback
  <2>6. CASE v.maType = "TEMA"
    BY <2>1, <2>6, TEMASpans DEF TA_MA, MA_Lookback
  <2>7. CASE v.maType = "TRIMA"
    BY <2>1, <2>7, OfTypesSpans DEF TA_MA, MA_Lookback
  <2>8. CASE v.maType = "KAMA"
    BY <2>1, <2>8, OfTypesSpans DEF TA_MA, MA_Lookback
  <2>9. CASE v.maType = "T3"
    BY <2>1, <2>9, OfTypesSpans DEF TA_MA, MA_Lookback
  <2>10. CASE v.maType = "MAMA"
    BY <2>1, <2>10, OfTypesSpans DEF TA_MA, MA_Lookback
  <2> QED
    BY <2>2, <2>3, <2>4, <2>5, <2>6, <2>7, <2>8, <2>9, <2>10 DEF MATypes
<1> QED
  BY <1>1, <1>2

\* The lookback of MA is a number of bars.
LEMMA MA_LookbackIsNat ==
  ASSUME NEW v, IsCall(v), v.maType \in MATypes
  PROVE  MA_Lookback(v) \in Nat
<1>1. CASE v.period =< 1
  BY <1>1 DEF MA_Lookback
<1>2. CASE ~(v.period =< 1)
  BY <1>2 DEF MA_Lookback, MATypes, IsCall, PeriodLessOne, EMA_Lookback, DEMA_Lookback,
              TEMA_Lookback, KAMA_Lookback, T3_Lookback, Lookback32
<1> QED
  BY <1>1, <1>2

\* The lookback of MA is of the period, the type and the unstable period alone.
LEMMA MA_LookbackAgrees ==
  ASSUME NEW v, NEW w, v.period = w.period, v.maType = w.maType, v.unstable = w.unstable
  PROVE  MA_Lookback(v) = MA_Lookback(w)
BY DEF MA_Lookback, PeriodLessOne, EMA_Lookback, DEMA_Lookback, TEMA_Lookback, KAMA_Lookback,
       T3_Lookback, Lookback32

\* The same for a period and a type that are given.
LEMMA MA_LookbackOfIsNat ==
  ASSUME NEW v, IsCall(v), NEW period \in Nat, NEW maType \in MATypes
  PROVE  MA_LookbackOf(v, period, maType) \in Nat
BY TypedIsCall, MA_LookbackIsNat DEF MA_LookbackOf

\* Two calls under one unstable period give MA the same lookback.
LEMMA MA_LookbackOfAgrees ==
  ASSUME NEW v, NEW w, IsCall(v), IsCall(w), v.unstable = w.unstable,
         NEW period \in Nat, NEW maType
  PROVE  MA_LookbackOf(v, period, maType) = MA_LookbackOf(w, period, maType)
BY TypedIsCall, MA_LookbackAgrees DEF MA_LookbackOf

\* MA of a period and a type, of one array in another.
LEMMA MAOfSpans ==
  ASSUME NEW v, IsCall(v), NEW period \in Nat, period >= 1, NEW maType \in MATypes, NEW mem,
         NEW start \in Nat, NEW end \in Int, start =< end, NEW input, NEW output
  PROVE  Spans(MAOf(v, period, maType, mem, start, end, input, output), start, end,
               MA_LookbackOf(v, period, maType))
<1> DEFINE w == OnReal(v, mem, start, end, input, output)
           t == Typed(w, period, maType)
<1>1. IsCall(w) /\ SameParameters(w, v) /\ w.start = start /\ w.end = end
  BY CallingIsCall DEF OnReal
<1> HIDE DEF w
<1>2. /\ IsCall(t) /\ t.start = start /\ t.end = end /\ t.unstable = w.unstable
      /\ t.period = period /\ t.maType = maType
  BY <1>1, TypedIsCall
<1>3. MA_Lookback(t) = MA_LookbackOf(v, period, maType)
  BY <1>1, <1>2, TypedIsCall, MA_LookbackAgrees DEF MA_LookbackOf, SameParameters
<1> HIDE DEF t
<1>4. Spans(TA_MA(t), t.start, t.end, MA_Lookback(t))
  BY <1>2, MASpans
<1>5. MAOf(v, period, maType, mem, start, end, input, output) = TA_MA(t)
  BY DEF MAOf, t, w
<1> QED
  BY <1>2, <1>3, <1>4, <1>5

\* MAVP begins after the lookback of its longest period, whatever the periods of the bars are.
LEMMA MAVPSpans ==
  ASSUME NEW u, IsCall(u), u.period2 >= 1, u.maType \in MATypes
  PROVE  Spans(TA_MAVP(u), u.start, u.end, MA_LookbackOf(u, u.period2, u.maType))
<1> DEFINE L == MA_LookbackOf(u, u.period2, u.maType)
           v == From(u, L)
<1>1. L \in Int
  BY MA_LookbackOfIsNat DEF IsCall
<1>2. v.end = u.end /\ v.start = Larger(u.start, L) /\ u.start \in Int /\ u.end \in Int
  BY <1>1, FromIsCall DEF IsCall
<1>3. TA_MAVP(u) = Nothing(v) \/ \E mem : TA_MAVP(u) = Done(mem, v.start, Outputs(v))
  BY Zenon DEF TA_MAVP
<1>4. v.start > v.end => TA_MAVP(u) = Nothing(v)
  BY DEF TA_MAVP, Empty
<1>5. ~(v.start > v.end) => \E mem : TA_MAVP(u) = Done(mem, v.start, Outputs(v))
  BY Zenon DEF TA_MAVP, Empty
<1> HIDE DEF v, L
<1>6. CASE v.start > v.end
  BY <1>6, <1>1, <1>2, <1>4, NothingSpans DEF L
<1>7. CASE ~(v.start > v.end)
  <2>1. v.start \in Int /\ v.start =< v.end /\ Outputs(v) = v.end - v.start + 1
    BY <1>1, <1>2, <1>7 DEF Larger, Outputs
  <2>2. PICK mem : TA_MAVP(u) = Done(mem, v.start, Outputs(v))
    BY <1>5, <1>7
  <2> QED
    BY <2>1, <2>2, <1>1, <1>2, DoneSpans DEF L
<1> QED
  BY <1>6, <1>7

\* TRIX sizes its buffer so that the rate of change ends at the last bar.
LEMMA TRIXSpans ==
  ASSUME NEW u, IsCall(u), u.period >= 1
  PROVE  Spans(TA_TRIX(u), u.start, u.end, TRIX_Lookback(u))
<1> DEFINE v    == From(u, TRIX_Lookback(u))
           size == Outputs(v) + TRIX_Lookback(v)
           left(n) == size - n * EMA_Lookback(v)
           again(one, n) == Again(v, one.mem, left(n), "tempBuffer", "tempBuffer")
           mem  == again(again(IntEMA(v, Allocate(v.mem, "tempBuffer", size),
                                      v.start - TRIX_Lookback(v), v.end, Input(v),
                                      "tempBuffer"), 1), 2).mem
           w == OnReal(v, mem, 0, left(3) - 1, "tempBuffer", Out(v, 1))
           x == [w EXCEPT !.period = 1]
<1>1. TRIX_Lookback(u) \in Int /\ EMA_Lookback(u) \in Int
  BY EMA_LookbackIsNat DEF TRIX_Lookback
<1>2. /\ IsCall(v) /\ SameParameters(v, u) /\ v.end = u.end
      /\ v.start = Larger(u.start, TRIX_Lookback(u)) /\ u.start \in Int /\ u.end \in Int
  BY <1>1, FromIsCall DEF IsCall
<1>3. EMA_Lookback(v) = EMA_Lookback(u)
  BY <1>2 DEF EMA_Lookback, SameParameters
<1>4. TA_TRIX(u) = IF v.start > v.end THEN Nothing(v) ELSE Reported(v, TA_ROC(x))
  BY DEF TA_TRIX, Empty
<1> HIDE DEF v, mem
<1>5. left(3) = Outputs(v) + 1 /\ Outputs(v) = v.end - v.start + 1 /\ v.start \in Int
  BY <1>1, <1>2, <1>3 DEF TRIX_Lookback, Outputs, Larger
<1>6. IsCall(w) /\ w.start = 0 /\ w.end = Outputs(v)
  BY <1>2, <1>5, CallingIsCall DEF OnReal
<1> HIDE DEF w
<1>7. x.start = 0 /\ x.end = Outputs(v) /\ x.period = 1
  BY <1>6 DEF IsCall, Fields
<1> HIDE DEF x
<1>8. Spans(TA_ROC(x), 0, Outputs(v), 1)
  BY <1>7, ChangesWalk, WalkSpans
<1>9. CASE v.start > v.end
  BY <1>9, <1>1, <1>2, <1>4, NothingSpans
<1>10. CASE ~(v.start > v.end)
  <2>1. v.start =< v.end /\ Outputs(v) >= 1 /\ Outputs(v) \in Int
    BY <1>10, <1>5, <1>2
  <2>2. TA_ROC(x).nb = Outputs(v)
    BY <2>1, <1>8 DEF Spans, Larger
  <2>3. TA_TRIX(u) = Done(TA_ROC(x).mem, v.start, Outputs(v))
    BY <2>2, <1>4, <1>10 DEF Reported
  <2> QED
    BY <2>1, <2>3, <1>1, <1>2, <1>5, DoneSpans
<1> QED
  BY <1>9, <1>10

\* STDDEV is the root of VAR, element by element.
LEMMA STDDEVSpans ==
  ASSUME NEW v
  PROVE  Spans(TA_STDDEV(v), v.start, v.end, PeriodLessOne(v))
<1>1. Spans(TA_INT_VAR(v), v.start, v.end, PeriodLessOne(v))
  BY SumsWalk, WalkSpans
<1>2. PICK mem : TA_STDDEV(v) = [TA_INT_VAR(v) EXCEPT !.mem = mem]
  BY Zenon DEF TA_STDDEV, DeviationsFrom
<1> QED
  BY <1>1, <1>2 DEF Spans

\* ATR and NATR for a period of 1 are the true ranges.
LEMMA NotSmoothedSpans ==
  ASSUME NEW v, IsCall(v), v.period >= 1
  PROVE  Spans(NotSmoothed(v), v.start, v.end, ATR_Lookback(v))
<1> DEFINE u == [v EXCEPT !.start = Larger(@, ATR_Lookback(v))]
<1>1. /\ u.start = Larger(v.start, ATR_Lookback(v)) /\ u.end = v.end
      /\ ATR_Lookback(v) \in Int /\ ATR_Lookback(v) >= 1 /\ v.start \in Int /\ v.end \in Int
  BY DEF IsCall, Fields, ATR_Lookback
<1>2. Spans(TA_TRANGE(u), u.start, u.end, 1)
  BY ChangesWalk, WalkSpans
<1>3. NotSmoothed(v) = TA_TRANGE(u)
  BY DEF NotSmoothed
<1> HIDE DEF u
<1> QED
  BY <1>1, <1>2, <1>3 DEF Spans, Larger

\* ATR and NATR.
LEMMA RangesSmoothedSpan ==
  ASSUME NEW v, IsCall(v), v.period >= 1
  PROVE  /\ Spans(TA_ATR(v), v.start, v.end, ATR_Lookback(v))
         /\ Spans(TA_NATR(v), v.start, v.end, ATR_Lookback(v))
<1>1. CASE v.period =< 1
  BY <1>1, NotSmoothedSpans DEF TA_ATR, TA_NATR
<1>2. CASE ~(v.period =< 1)
  <2>1. Walks(TA_ATR(v), v, ATR_Lookback(v)) /\ Walks(TA_NATR(v), v, ATR_Lookback(v))
    BY <1>2, Zenon DEF TA_ATR, TA_NATR, Run, Walks
  <2> QED
    BY <2>1, WalkSpans
<1> QED
  BY <1>1, <1>2

\* The directional movements, with a loop of their own for a period of 1.
LEMMA DirectionsSpan ==
  ASSUME NEW v
  PROVE  /\ Spans(TA_PLUS_DM(v), v.start, v.end, DM_Lookback(v))
         /\ Spans(TA_MINUS_DM(v), v.start, v.end, DM_Lookback(v))
         /\ Spans(TA_PLUS_DI(v), v.start, v.end, DI_Lookback(v))
         /\ Spans(TA_MINUS_DI(v), v.start, v.end, DI_Lookback(v))
<1>1. Walks(TA_PLUS_DM(v), v, DM_Lookback(v))
  BY Zenon DEF TA_PLUS_DM, Run, Walks
<1>2. Walks(TA_MINUS_DM(v), v, DM_Lookback(v))
  BY Zenon DEF TA_MINUS_DM, Run, Walks
<1>3. Walks(TA_PLUS_DI(v), v, DI_Lookback(v))
  BY Zenon DEF TA_PLUS_DI, Run, Walks
<1>4. Walks(TA_MINUS_DI(v), v, DI_Lookback(v))
  BY Zenon DEF TA_MINUS_DI, Run, Walks
<1> QED
  BY <1>1, <1>2, <1>3, <1>4, WalkSpans

\* ADXR asks ADX for a period more than it answers for.
LEMMA ADXRSpans ==
  ASSUME NEW u, IsCall(u), u.period >= 1
  PROVE  Spans(TA_ADXR(u), u.start, u.end, ADXR_Lookback(u))
<1> DEFINE v == From(u, ADXR_Lookback(u))
<1>1. ADXR_Lookback(u) \in Int
  BY DEF ADXR_Lookback, ADX_Lookback, PeriodLessOne, IsCall
<1>2. /\ v.end = u.end /\ v.start = Larger(u.start, ADXR_Lookback(u))
      /\ u.start \in Int /\ u.end \in Int
  BY <1>1, FromIsCall DEF IsCall
<1>3. v.start > v.end => TA_ADXR(u) = Nothing(v)
  BY DEF TA_ADXR, Empty
<1>4. ~(v.start > v.end) => \E mem : TA_ADXR(u) = Done(mem, v.start, Outputs(v))
  BY Zenon DEF TA_ADXR, Empty, Rating
<1> HIDE DEF v
<1>5. CASE v.start > v.end
  BY <1>5, <1>1, <1>2, <1>3, NothingSpans
<1>6. CASE ~(v.start > v.end)
  <2>1. v.start \in Int /\ v.start =< v.end /\ Outputs(v) = v.end - v.start + 1
    BY <1>1, <1>2, <1>6 DEF Larger, Outputs
  <2>2. PICK mem : TA_ADXR(u) = Done(mem, v.start, Outputs(v))
    BY <1>4, <1>6
  <2> QED
    BY <2>1, <2>2, <1>1, <1>2, DoneSpans
<1> QED
  BY <1>5, <1>6

-----------------------------------------------------------------------------
(* MACD: two averages and the average of their difference. *)

\* The exponential averages of MACD.
LEMMA EMAOfSpans ==
  ASSUME NEW v, IsCall(v), NEW average, average.period \in Nat, NEW mem, NEW start \in Int,
         NEW end \in Int, NEW input, NEW output
  PROVE  Spans(EMAOf(v, average, mem, start, end, input, output), start, end,
               average.period - 1 + v.unstable)
<1> DEFINE w == OnReal(v, mem, start, end, input, output)
           u == [w EXCEPT !.period = average.period, !.k = average.k]
<1>1. IsCall(w) /\ SameParameters(w, v) /\ w.start = start /\ w.end = end
  BY CallingIsCall DEF OnReal
<1>2. /\ u.start = start /\ u.end = end
      /\ u.period = average.period /\ u.unstable = v.unstable
  BY <1>1 DEF IsCall, Fields, SameParameters
<1>3. Spans(TA_INT_EMA(u), start, end, average.period - 1 + v.unstable)
  BY <1>2, AveragesWalk, WalkSpans DEF EMA_Lookback
<1> QED
  BY <1>3 DEF EMAOf

\* The lookback of an exponential average of another period.
LEMMA EMA_LookbackOfIs ==
  ASSUME NEW v, IsCall(v), NEW period \in Nat
  PROVE  EMA_LookbackOf(v, period) = period - 1 + v.unstable
BY DEF EMA_LookbackOf, EMA_Lookback, IsCall, Fields

\* The fast period, with its type, and the slow one change places when the slow one is smaller.
LEMMA PeriodsAreSorted ==
  ASSUME NEW u, IsCall(u)
  PROVE  /\ IsCall(PeriodsSorted(u))
         /\ PeriodsSorted(u).start = u.start
         /\ PeriodsSorted(u).end = u.end
         /\ PeriodsSorted(u).unstable = u.unstable
         /\ PeriodsSorted(u).period =< PeriodsSorted(u).period2
         /\ PeriodsSorted(u).period2 = Larger(u.period, u.period2)
         /\ PeriodsSorted(u).period = Smaller(u.period, u.period2)
         /\ PeriodsSorted(u).period3 = u.period3
         /\ PeriodsSorted(u).maType3 = u.maType3
         /\ \/ /\ PeriodsSorted(u).period = u.period /\ PeriodsSorted(u).maType = u.maType
               /\ PeriodsSorted(u).period2 = u.period2 /\ PeriodsSorted(u).maType2 = u.maType2
            \/ /\ PeriodsSorted(u).period = u.period2 /\ PeriodsSorted(u).maType = u.maType2
               /\ PeriodsSorted(u).period2 = u.period /\ PeriodsSorted(u).maType2 = u.maType
BY DEF PeriodsSorted, IsCall, Fields, Larger, Smaller

\* What is left of the answer when fast and slow are answered alike: the check that is not
\* expected to fail does not.
LEMMA ConvergenceSpans ==
  ASSUME NEW w, IsCall(w), NEW start \in Int, NEW lookback \in Int, NEW L \in Nat,
         w.start = Larger(start, lookback), w.start =< w.end, L =< lookback,
         NEW fastOut, NEW slowOut, NEW signal, NEW fast \in Int, NEW slow \in Int,
         fast + L =< lookback, slow + L =< lookback,
         Spans(slowOut, w.start - L, w.end, slow),
         Spans(fastOut, w.start - L, w.end, fast),
         Spans(signal, 0, (Outputs(w) + L) - 1, L),
         NEW r,
         r = IF Agree(slowOut, fastOut, w.start - L, Outputs(w) + L)
             THEN Histogram(w, signal)
             ELSE [Done(fastOut.mem, 0, 0) EXCEPT !.rc = "TA_INTERNAL_ERROR"]
  PROVE  Spans(r, start, w.end, lookback)
<1>1. /\ w.start \in Int /\ w.end \in Int /\ w.start >= lookback
      /\ w.start - L \in Int /\ w.start - L =< w.end
      /\ w.start - L >= slow /\ w.start - L >= fast
  BY DEF IsCall, Larger
<1>2. slowOut.beg = w.start - L /\ slowOut.nb = w.end - (w.start - L) + 1
  BY <1>1, SpansWhole
<1>3. fastOut.beg = w.start - L /\ fastOut.nb = w.end - (w.start - L) + 1
  BY <1>1, SpansWhole
<1>4. /\ Outputs(w) = w.end - w.start + 1 /\ Outputs(w) + L \in Int /\ Outputs(w) + L > L
      /\ w.end - (w.start - L) + 1 = Outputs(w) + L
  BY <1>1 DEF Outputs
<1>5. Agree(slowOut, fastOut, w.start - L, Outputs(w) + L)
  BY <1>2, <1>3, <1>4 DEF Agree
<1>6. \A n \in Int : n > L /\ Spans(signal, 0, n - 1, L) => signal.nb = n - L
  BY SpansRest
<1>7. signal.nb = Outputs(w)
  BY <1>1, <1>4, <1>6
<1>8. \E mem : Histogram(w, signal) = Done(mem, w.start, signal.nb)
  BY Zenon DEF Histogram
<1>9. \E mem : r = Done(mem, w.start, w.end - w.start + 1)
  BY <1>4, <1>5, <1>7, <1>8
<1> QED
  BY <1>1, <1>9, DoneSpans

\* MACD begins after the lookback of the slow average and that of the signal; the check that both
\* averages answer for the same bars never fails.
LEMMA INT_MACDSpans ==
  ASSUME NEW u, IsCall(u), u.period3 >= 1,
         (u.period >= 1 /\ u.period2 >= 1) \/ (u.period = 0 /\ u.period2 = 0)
  PROVE  Spans(TA_INT_MACD(u), u.start, u.end,
               SlowOf(PeriodsSorted(u)).period - 1 + u.unstable + (u.period3 - 1 + u.unstable))
<1> DEFINE v == PeriodsSorted(u)
           L == EMA_LookbackOf(v, v.period3)
           lookback == L + EMA_LookbackOf(v, SlowOf(v).period)
           w == From(v, lookback)
           n == Outputs(w) + L
           room == Allocate(Allocate(w.mem, "fastBuffer", n), "slowBuffer", n)
           signalOf == [period |-> w.period3, k |-> PerToK(w.period3)]
           slow == EMAOf(w, SlowOf(w), room, w.start - L, w.end, Input(w), "slowBuffer")
           fast == EMAOf(w, FastOf(w), slow.mem, w.start - L, w.end, Input(w), "fastBuffer")
           signal == EMAOf(w, signalOf, Subtracted(w, fast.mem, n, L), 0, n - 1, "fastBuffer",
                           Out(w, 2))
<1>1. /\ IsCall(v) /\ v.start = u.start /\ v.end = u.end /\ v.unstable = u.unstable
      /\ v.period3 = u.period3 /\ v.period =< v.period2
      /\ (v.period >= 1 /\ v.period2 >= 1) \/ (v.period = 0 /\ v.period2 = 0)
  BY PeriodsAreSorted DEF IsCall, Larger, Smaller
<1>2. TA_INT_MACD(u) =
        IF Empty(w) THEN Nothing(w)
        ELSE IF Agree(slow, fast, w.start - L, n) THEN Histogram(w, signal)
        ELSE [Done(fast.mem, 0, 0) EXCEPT !.rc = "TA_INTERNAL_ERROR"]
  BY DEF TA_INT_MACD, Convergence, AfterSlow, AfterBoth
<1> HIDE DEF v
<1>3. /\ SlowOf(v).period \in Nat /\ FastOf(v).period \in Nat
      /\ SlowOf(v).period >= 1 /\ FastOf(v).period =< SlowOf(v).period
  BY <1>1 DEF SlowOf, FastOf, IsCall
<1>4. /\ L = u.period3 - 1 + u.unstable /\ L \in Nat
      /\ lookback = L + (SlowOf(v).period - 1 + u.unstable) /\ lookback \in Int
      /\ u.unstable \in Nat
  BY <1>1, <1>3, EMA_LookbackOfIs DEF IsCall
<1> HIDE DEF L, lookback
<1>5. /\ IsCall(w) /\ SameParameters(w, v) /\ w.end = u.end /\ w.start = Larger(u.start, lookback)
      /\ u.start \in Int /\ u.end \in Int
  BY <1>1, <1>4, FromIsCall DEF IsCall
<1> HIDE DEF w
<1>6. SlowOf(w).period = SlowOf(v).period /\ FastOf(w).period = FastOf(v).period
  BY <1>5 DEF SlowOf, FastOf, SameParameters
<1>7. signalOf.period = u.period3 /\ w.unstable = u.unstable /\ u.period3 \in Nat
  BY <1>1, <1>5 DEF SameParameters, IsCall
<1>8. w.start \in Int /\ w.end \in Int /\ n \in Int /\ w.start - L \in Int /\ n - 1 \in Int
  BY <1>4, <1>5 DEF Outputs, Larger
<1>9. Spans(slow, w.start - L, w.end, SlowOf(v).period - 1 + u.unstable)
  BY <1>3, <1>5, <1>6, <1>7, <1>8, EMAOfSpans
<1>10. Spans(fast, w.start - L, w.end, FastOf(v).period - 1 + u.unstable)
  BY <1>3, <1>5, <1>6, <1>7, <1>8, EMAOfSpans
<1>11. Spans(signal, 0, n - 1, L)
  BY <1>4, <1>5, <1>7, <1>8, EMAOfSpans
<1> HIDE DEF slow, fast, signal
<1>12. lookback = SlowOf(v).period - 1 + u.unstable + (u.period3 - 1 + u.unstable)
  BY <1>3, <1>4, <1>7
<1>13. CASE w.start > w.end
  <2>1. TA_INT_MACD(u) = Nothing(w) /\ Larger(u.start, lookback) > u.end
    BY <1>13, <1>2, <1>5 DEF Empty
  <2>2. Spans(TA_INT_MACD(u), u.start, u.end, lookback)
    BY <2>1, <1>4, <1>5, NothingSpans
  <2> QED
    BY <2>2, <1>12 DEF v
<1>14. CASE ~(w.start > w.end)
  <2>1. w.start =< w.end /\ ~Empty(w)
    BY <1>8, <1>14 DEF Empty
  <2>2. /\ SlowOf(v).period - 1 + u.unstable \in Int /\ FastOf(v).period - 1 + u.unstable \in Int
        /\ SlowOf(v).period - 1 + u.unstable + L =< lookback
        /\ FastOf(v).period - 1 + u.unstable + L =< lookback
        /\ L =< lookback
    BY <1>3, <1>4
  <2>3. TA_INT_MACD(u) =
          IF Agree(slow, fast, w.start - L, Outputs(w) + L) THEN Histogram(w, signal)
          ELSE [Done(fast.mem, 0, 0) EXCEPT !.rc = "TA_INTERNAL_ERROR"]
    BY <2>1, <1>2
  <2>4. Spans(signal, 0, (Outputs(w) + L) - 1, L)
    BY <1>11, Zenon
  <2>5. Spans(TA_INT_MACD(u), u.start, w.end, lookback)
    BY <2>1, <2>2, <2>3, <2>4, <1>4, <1>5, <1>9, <1>10, ConvergenceSpans
  <2> QED
    BY <2>5, <1>5, <1>12 DEF v
<1> QED
  BY <1>5, <1>8, <1>13, <1>14

\* The signal's lookback and the slow one's are the two halves of MACD's.
LEMMA MACDSpans ==
  ASSUME NEW u, IsCall(u), u.period >= 1, u.period2 >= 1, u.period3 >= 1
  PROVE  Spans(TA_MACD(u), u.start, u.end, MACD_Lookback(u))
<1> DEFINE v == PeriodsSorted(u)
           m == Larger(u.period, u.period2)
<1>1. IsCall(v) /\ v.period2 = m /\ m \in Nat /\ m >= 1 /\ u.period3 \in Nat /\ u.unstable \in Nat
  BY PeriodsAreSorted DEF IsCall, Larger
<1> HIDE DEF v, m
<1>2. SlowOf(v).period = m
  BY <1>1 DEF SlowOf
<1>3. MACD_Lookback(u) = (m - 1 + u.unstable) + (u.period3 - 1 + u.unstable)
  BY <1>1, EMA_LookbackOfIs DEF MACD_Lookback, m
<1>4. SlowOf(v).period - 1 + u.unstable + (u.period3 - 1 + u.unstable) = MACD_Lookback(u)
  BY <1>1, <1>2, <1>3
<1>5. Spans(TA_INT_MACD(u), u.start, u.end,
            SlowOf(v).period - 1 + u.unstable + (u.period3 - 1 + u.unstable))
  BY INT_MACDSpans DEF v
<1> QED
  BY <1>4, <1>5 DEF TA_MACD

\* MACDFIX, whose periods of 12 and 26 are passed as 0.
LEMMA MACDFIXSpans ==
  ASSUME NEW u, IsCall(u), u.period3 >= 1
  PROVE  Spans(TA_MACDFIX(u), u.start, u.end, MACDFIX_Lookback(u))
<1> DEFINE w == [u EXCEPT !.period = 0, !.period2 = 0]
           v == PeriodsSorted(w)
<1>1. /\ IsCall(w) /\ w.period = 0 /\ w.period2 = 0 /\ w.period3 = u.period3
      /\ w.start = u.start /\ w.end = u.end /\ w.unstable = u.unstable
      /\ u.period3 \in Nat /\ u.unstable \in Nat
  BY DEF IsCall, Fields
<1>2. TA_MACDFIX(u) = TA_INT_MACD(w)
  BY DEF TA_MACDFIX
<1> HIDE DEF w
<1>3. v.period2 = 0
  BY <1>1, PeriodsAreSorted DEF Larger
<1>4. SlowOf(v).period = 26
  BY <1>3 DEF SlowOf
<1>5. MACDFIX_Lookback(u) = (26 - 1 + u.unstable) + (u.period3 - 1 + u.unstable)
  BY <1>1, EMA_LookbackOfIs DEF MACDFIX_Lookback
<1>6. SlowOf(v).period - 1 + w.unstable + (w.period3 - 1 + w.unstable) = MACDFIX_Lookback(u)
  BY <1>1, <1>4, <1>5
<1>7. Spans(TA_INT_MACD(w), w.start, w.end,
            SlowOf(v).period - 1 + w.unstable + (w.period3 - 1 + w.unstable))
  BY <1>1, INT_MACDSpans DEF v
<1> QED
  BY <1>1, <1>2, <1>6, <1>7

\* Whichever period is the slow one, both lookbacks are at most the larger.
LEMMA SortedKeepsLookbacks ==
  ASSUME NEW u, IsCall(u), u.maType \in MATypes, u.maType2 \in MATypes
  PROVE  LET v    == PeriodsSorted(u)
             one  == MA_LookbackOf(u, u.period, u.maType)
             two  == MA_LookbackOf(u, u.period2, u.maType2)
             fast == MA_LookbackOf(v, v.period, v.maType)
             slow == MA_LookbackOf(v, v.period2, v.maType2)
         IN /\ v.maType \in MATypes /\ v.maType2 \in MATypes
            /\ fast \in Nat /\ slow \in Nat
            /\ fast =< Larger(one, two) /\ slow =< Larger(one, two)
            /\ Larger(one, two) \in Nat
<1> DEFINE v    == PeriodsSorted(u)
           one  == MA_LookbackOf(u, u.period, u.maType)
           two  == MA_LookbackOf(u, u.period2, u.maType2)
           fast == MA_LookbackOf(v, v.period, v.maType)
           slow == MA_LookbackOf(v, v.period2, v.maType2)
<1>1. /\ IsCall(v) /\ v.unstable = u.unstable
      /\ u.period \in Nat /\ u.period2 \in Nat
      /\ \/ /\ v.period = u.period /\ v.maType = u.maType
            /\ v.period2 = u.period2 /\ v.maType2 = u.maType2
         \/ /\ v.period = u.period2 /\ v.maType = u.maType2
            /\ v.period2 = u.period /\ v.maType2 = u.maType
  BY PeriodsAreSorted DEF IsCall
<1> HIDE DEF v
<1>2. one \in Nat /\ two \in Nat
  BY <1>1, MA_LookbackOfIsNat
<1>3. (fast = one /\ slow = two) \/ (fast = two /\ slow = one)
  BY <1>1, MA_LookbackOfAgrees
<1>4. v.maType \in MATypes /\ v.maType2 \in MATypes
  BY <1>1
<1> HIDE DEF one, two, fast, slow
<1>5. /\ fast \in Nat /\ slow \in Nat
      /\ fast =< Larger(one, two) /\ slow =< Larger(one, two)
      /\ Larger(one, two) \in Nat
  BY <1>2, <1>3 DEF Larger
<1> QED
  BY <1>4, <1>5 DEF v, one, two, fast, slow

\* MACDEXT with any three types of average: the averages may have different lookbacks, and still
\* answer for the same bars.
LEMMA MACDEXTSpans ==
  ASSUME NEW u, IsCall(u), u.start \in Nat, u.period >= 1, u.period2 >= 1, u.period3 >= 1,
         u.maType \in MATypes, u.maType2 \in MATypes, u.maType3 \in MATypes
  PROVE  Spans(TA_MACDEXT(u), u.start, u.end, MACDEXT_Lookback(u))
<1> DEFINE v == PeriodsSorted(u)
           lookback == MACDEXT_Lookback(u)
           w == From(v, lookback)
           L == MA_LookbackOf(w, w.period3, w.maType3)
           n == Outputs(w) + L
           room == Allocate(Allocate(w.mem, "fastBuffer", n), "slowBuffer", n)
           slow == MAOf(w, w.period2, w.maType2, room, w.start - L, w.end, Input(w), "slowBuffer")
           fast == MAOf(w, w.period, w.maType, slow.mem, w.start - L, w.end, Input(w),
                        "fastBuffer")
           signal == MAOf(w, w.period3, w.maType3, Subtracted(w, fast.mem, n, L), 0, n - 1,
                          "fastBuffer", Out(w, 2))
           slowL == MA_LookbackOf(w, w.period2, w.maType2)
           fastL == MA_LookbackOf(w, w.period, w.maType)
           most  == Larger(MA_LookbackOf(u, u.period, u.maType),
                           MA_LookbackOf(u, u.period2, u.maType2))
<1>1. TA_MACDEXT(u) =
        IF Empty(w) THEN Nothing(w)
        ELSE IF Agree(slow, fast, w.start - L, n) THEN Histogram(w, signal)
        ELSE [Done(fast.mem, 0, 0) EXCEPT !.rc = "TA_INTERNAL_ERROR"]
  BY DEF TA_MACDEXT, Convergence, AfterSlow, AfterBoth
<1>2. /\ IsCall(v) /\ v.start = u.start /\ v.end = u.end /\ v.unstable = u.unstable
      /\ v.period3 = u.period3 /\ v.maType3 = u.maType3
      /\ v.period \in Nat /\ v.period2 \in Nat /\ u.period3 \in Nat
      /\ v.period >= 1 /\ v.period2 >= 1
  BY PeriodsAreSorted DEF IsCall, Larger, Smaller
<1>3. /\ v.maType \in MATypes /\ v.maType2 \in MATypes
      /\ MA_LookbackOf(v, v.period, v.maType) \in Nat
      /\ MA_LookbackOf(v, v.period2, v.maType2) \in Nat
      /\ MA_LookbackOf(v, v.period, v.maType) =< most
      /\ MA_LookbackOf(v, v.period2, v.maType2) =< most
      /\ most \in Nat
  BY SortedKeepsLookbacks
<1> HIDE DEF v, most
<1>4. MA_LookbackOf(u, u.period3, u.maType3) \in Nat
  BY <1>2, MA_LookbackOfIsNat
<1>5. lookback = most + MA_LookbackOf(u, u.period3, u.maType3) /\ lookback \in Int
  BY <1>3, <1>4 DEF MACDEXT_Lookback, most
<1> HIDE DEF lookback
<1>6. /\ IsCall(w) /\ SameParameters(w, v) /\ w.end = u.end /\ w.start = Larger(u.start, lookback)
      /\ u.start \in Int /\ u.end \in Int
  BY <1>2, <1>5, FromIsCall DEF IsCall
<1> HIDE DEF w
<1>7. /\ w.period = v.period /\ w.period2 = v.period2 /\ w.period3 = u.period3
      /\ w.maType = v.maType /\ w.maType2 = v.maType2 /\ w.maType3 = u.maType3
      /\ w.unstable = v.unstable
  BY <1>2, <1>6 DEF SameParameters
<1>8. L = MA_LookbackOf(u, u.period3, u.maType3) /\ L \in Nat
  BY <1>2, <1>4, <1>6, <1>7, MA_LookbackOfAgrees
<1>9. /\ fastL = MA_LookbackOf(v, v.period, v.maType)
      /\ slowL = MA_LookbackOf(v, v.period2, v.maType2)
  BY <1>2, <1>6, <1>7, MA_LookbackOfAgrees
<1> HIDE DEF L, fastL, slowL
<1>10. CASE w.start > w.end
  <2>1. TA_MACDEXT(u) = Nothing(w) /\ Larger(u.start, lookback) > u.end
    BY <1>10, <1>1, <1>6 DEF Empty
  <2> QED
    BY <2>1, <1>5, <1>6, NothingSpans DEF lookback
<1>11. CASE ~(w.start > w.end)
  <2>1. w.start \in Int /\ w.end \in Int /\ w.start =< w.end /\ ~Empty(w)
    BY <1>5, <1>6, <1>11 DEF Empty, Larger
  <2>2. /\ n \in Int /\ n - 1 \in Int /\ 0 =< n - 1 /\ n = Outputs(w) + L
        /\ w.start - L \in Nat /\ w.start - L =< w.end
    BY <2>1, <1>3, <1>5, <1>6, <1>8 DEF Outputs, Larger
  <2>3. Spans(slow, w.start - L, w.end, slowL)
    BY <2>1, <2>2, <1>2, <1>3, <1>6, <1>7, MAOfSpans DEF slowL
  <2>4. Spans(fast, w.start - L, w.end, fastL)
    BY <2>1, <2>2, <1>2, <1>3, <1>6, <1>7, MAOfSpans DEF fastL
  <2>5. Spans(signal, 0, n - 1, L)
    BY <2>2, <1>2, <1>6, <1>7, MAOfSpans DEF L
  <2> HIDE DEF slow, fast, signal
  <2>6. Spans(signal, 0, (Outputs(w) + L) - 1, L)
    BY <2>5, <2>2, Zenon
  <2>7. TA_MACDEXT(u) =
          IF Agree(slow, fast, w.start - L, Outputs(w) + L) THEN Histogram(w, signal)
          ELSE [Done(fast.mem, 0, 0) EXCEPT !.rc = "TA_INTERNAL_ERROR"]
    BY <2>1, <1>1
  <2>8. /\ fastL \in Int /\ slowL \in Int /\ fastL + L =< lookback /\ slowL + L =< lookback
        /\ L =< lookback
    BY <1>3, <1>5, <1>8, <1>9
  <2>9. Spans(TA_MACDEXT(u), u.start, w.end, lookback)
    BY <2>1, <2>3, <2>4, <2>6, <2>7, <2>8, <1>5, <1>6, <1>8, ConvergenceSpans
  <2> QED
    BY <2>9, <1>6 DEF lookback
<1> QED
  BY <1>10, <1>11

\* APO and PPO begin where the slow average does.
LEMMA DifferenceSpans ==
  ASSUME NEW u, IsCall(u), u.start \in Nat, u.start =< u.end, u.period >= 1, u.period2 >= 1,
         u.maType \in MATypes, NEW percentage
  PROVE  Spans(TA_INT_PO(u, percentage), u.start, u.end, PO_Lookback(u))
<1> DEFINE s == PeriodsSorted(u)
           v == [s EXCEPT !.maType = u.maType]
           room == Allocate(v.mem, "tempBuffer", Outputs(v))
           fast == MAOf(v, v.period, v.maType, room, v.start, v.end, Input(v), "tempBuffer")
           slow == MAOf(v, v.period2, v.maType, fast.mem, v.start, v.end, Input(v), Out(v, 1))
<1>1. TA_INT_PO(u, percentage) = Difference(v, percentage, slow.beg - fast.beg, slow)
  BY DEF TA_INT_PO, AfterFast, FromSlowStart
<1>2. \E mem : Difference(v, percentage, slow.beg - fast.beg, slow) = Done(mem, slow.beg, slow.nb)
  BY Zenon DEF Difference
<1>3. /\ IsCall(s) /\ s.start = u.start /\ s.end = u.end /\ s.unstable = u.unstable
      /\ s.period2 = Larger(u.period, u.period2)
  BY PeriodsAreSorted
<1> HIDE DEF s
<1>4. /\ IsCall(v) /\ v.start = u.start /\ v.end = u.end /\ v.unstable = u.unstable
      /\ v.period2 = Larger(u.period, u.period2) /\ v.maType = u.maType
      /\ v.period2 \in Nat /\ v.period2 >= 1 /\ u.end \in Int
  BY <1>3 DEF IsCall, Fields, Larger
<1> HIDE DEF v, fast
<1>5. Spans(slow, v.start, v.end, MA_LookbackOf(v, v.period2, v.maType))
  BY <1>4, MAOfSpans
<1>6. MA_LookbackOf(v, v.period2, v.maType) = PO_Lookback(u)
  BY <1>4, MA_LookbackOfAgrees DEF PO_Lookback
<1> HIDE DEF slow
<1> QED
  BY <1>1, <1>2, <1>4, <1>5, <1>6 DEF Spans, Done

(* BBANDS. *)

\* The check of BBANDS for tricky callers passes when its outputs are three arrays.
LEMMA BuffersAreNotTheInput ==
  ASSUME NEW v, Out(v, 1) # Out(v, 2), Out(v, 1) # Out(v, 3), Out(v, 2) # Out(v, 3)
  PROVE  Input(v) \notin Range(BandBuffers(v))
BY DEF BandBuffers, Range

\* BBANDS begins at the later of the first bar of the average and that of the deviation.
LEMMA BBANDSSpans ==
  ASSUME NEW v, IsCall(v), v.start \in Nat, v.start =< v.end, v.period >= 1, v.maType \in MATypes,
         Out(v, 1) # Out(v, 2), Out(v, 1) # Out(v, 3), Out(v, 2) # Out(v, 3)
  PROVE  Spans(TA_BBANDS(v), v.start, v.end, Larger(PeriodLessOne(v), MA_Lookback(v)))
<1> DEFINE buffers == BandBuffers(v)
           average == MAOf(v, v.period, v.maType, v.mem, v.start, v.end, Input(v), buffers[1])
           width   == Width(v, buffers, average)
           o       == OnReal(v, average.mem, average.beg, v.end, Input(v), buffers[2])
           d       == [o EXCEPT !.nbDevUp = Unit]
           L       == MA_Lookback(v)
           P       == PeriodLessOne(v)
<1>1. TA_BBANDS(v) = IF average.nb = 0 THEN average ELSE Bands(v, buffers, width)
  BY BuffersAreNotTheInput DEF TA_BBANDS, About
<1>2. \E mem : Bands(v, buffers, width) = Done(mem, width.beg, width.nb)
  BY Zenon DEF Bands
<1>3. /\ v.start \in Int /\ v.end \in Int /\ P \in Int /\ L \in Nat
      /\ v.period \in Nat
  BY MA_LookbackIsNat DEF IsCall, PeriodLessOne
<1>4. v.maType = "SMA" => \E mem : width = [average EXCEPT !.mem = mem]
  BY Zenon DEF Width
<1>5. v.maType # "SMA" => width = TA_STDDEV(d)
  BY DEF Width
<1>6. v.maType = "SMA" => L = P
  BY DEF MA_Lookback, PeriodLessOne, IsCall
<1>7. MA_LookbackOf(v, v.period, v.maType) = L
  BY <1>3, TypedIsCall, MA_LookbackAgrees DEF MA_LookbackOf
<1> HIDE DEF L, buffers
<1>8. Spans(average, v.start, v.end, L)
  BY <1>3, <1>7, MAOfSpans
<1> HIDE DEF average, width
<1>9. CASE average.nb = 0
  <2>1. Larger(v.start, L) > v.end
    BY <1>3, <1>8, <1>9 DEF Spans, Larger
  <2>2. TA_BBANDS(v) = average
    BY <1>1, <1>9
  <2> QED
    BY <2>1, <2>2, <1>3, <1>8, <1>9 DEF Spans, Larger, L
<1>10. CASE average.nb # 0
  <2>1. average.beg = Larger(v.start, L) /\ average.beg =< v.end /\ average.beg \in Int
    BY <1>3, <1>8, <1>10 DEF Spans, Larger
  <2>2. PICK mem : TA_BBANDS(v) = Done(mem, width.beg, width.nb)
    BY <1>1, <1>2, <1>10
  <2>3. CASE v.maType = "SMA"
    <3>1. width.beg = average.beg /\ width.nb = average.nb
      BY <2>3, <1>4, <1>8 DEF Spans
    <3> QED
      BY <3>1, <2>1, <2>2, <2>3, <1>3, <1>6, <1>8 DEF Spans, Larger, Done, L
  <2>4. CASE v.maType # "SMA"
    <3>1. IsCall(o) /\ o.start = average.beg /\ o.end = v.end /\ o.period = v.period
      BY <2>1, <1>3, CallingIsCall DEF OnReal, SameParameters
    <3> HIDE DEF o
    <3>2. d.start = average.beg /\ d.end = v.end /\ d.period = v.period
      BY <3>1 DEF IsCall, Fields
    <3>3. PeriodLessOne(d) = P
      BY <3>2 DEF PeriodLessOne
    <3> HIDE DEF d, P
    <3>4. Spans(width, average.beg, v.end, P)
      BY <2>4, <3>2, <3>3, <1>5, STDDEVSpans
    <3>5. Spans(TA_BBANDS(v), v.start, v.end, Larger(P, L))
      BY <3>4, <2>1, <2>2, <1>3 DEF Spans, Larger, Done
    <3> QED
      BY <3>5 DEF P, L
  <2> QED
    BY <2>3, <2>4
<1> QED
  BY <1>9, <1>10

-----------------------------------------------------------------------------
(* STOCHF, STOCH, STOCHRSI. *)

\* The raw values of the stochastics, for the bars the averages need before the range.
LEMMA RawKSpans ==
  ASSUME NEW v, IsCall(v), NEW lookback \in Int
  PROVE  Spans(RawK(v, lookback), v.start - lookback, v.end, PeriodLessOne(v))
<1> DEFINE n    == Outputs(v) + lookback
           room == IF StochBuffer(v) = "tempBuffer" THEN Allocate(v.mem, "tempBuffer", n)
                   ELSE v.mem
           w    == Calling(v, room, v.start - lookback, v.end, v.from, <<StochBuffer(v)>>)
<1>1. v.start - lookback \in Int /\ v.end \in Int
  BY DEF IsCall
<1>2. RawK(v, lookback) = Run(w, PeriodLessOne(v), ChannelBegin, FastK)
  BY DEF RawK
<1> HIDE DEF room
<1>3. w.start = v.start - lookback /\ w.end = v.end
  BY <1>1, CallingIsCall
<1> HIDE DEF w
<1>4. Walks(RawK(v, lookback), w, PeriodLessOne(v))
  BY <1>2, Zenon DEF Run, Walks
<1> QED
  BY <1>3, <1>4, WalkSpans

\* An average of them.
LEMMA SmoothedKSpans ==
  ASSUME NEW v, IsCall(v), NEW raw, raw.nb \in Nat, raw.nb >= 1, NEW period \in Nat, period >= 1,
         NEW maType \in MATypes, NEW output
  PROVE  Spans(SmoothedK(v, raw, period, maType, output), 0, raw.nb - 1,
               MA_LookbackOf(v, period, maType))
<1>1. raw.nb - 1 \in Int /\ 0 =< raw.nb - 1 /\ 0 \in Nat
  OBVIOUS
<1>2. Spans(MAOf(v, period, maType, raw.mem, 0, raw.nb - 1, StochBuffer(v), output),
            0, raw.nb - 1, MA_LookbackOf(v, period, maType))
  BY <1>1, MAOfSpans
<1> QED
  BY <1>2 DEF SmoothedK

\* STOCHF: the raw values left over by its average are those of the range.
LEMMA STOCHFSpans ==
  ASSUME NEW u, IsCall(u), u.period >= 1, u.period2 >= 1, u.maType \in MATypes
  PROVE  /\ STOCHF_Lookback(u) \in Nat
         /\ Spans(TA_STOCHF(u), u.start, u.end, STOCHF_Lookback(u))
<1> DEFINE lookback == STOCHF_Lookback(u)
           v   == From(u, lookback)
           L   == MA_LookbackOf(v, v.period2, v.maType)
           P   == PeriodLessOne(u)
           raw == RawK(v, L)
           D   == SmoothedK(v, raw, v.period2, v.maType, Out(v, 2))
<1>1. TA_STOCHF(u) = IF Empty(v) THEN Nothing(v) ELSE FromBuffer(v, L, D)
  BY DEF TA_STOCHF
<1>2. \E mem : FromBuffer(v, L, D) = Done(mem, v.start, D.nb)
  BY Zenon DEF FromBuffer
<1>3. /\ u.period \in Nat /\ u.period2 \in Nat /\ u.start \in Int /\ u.end \in Int
      /\ P \in Nat /\ MA_LookbackOf(u, u.period2, u.maType) \in Nat
  BY MA_LookbackOfIsNat DEF IsCall, PeriodLessOne
<1>4. lookback = P + MA_LookbackOf(u, u.period2, u.maType) /\ lookback \in Nat /\ lookback \in Int
  BY <1>3 DEF STOCHF_Lookback
<1> HIDE DEF lookback
<1>5. /\ IsCall(v) /\ SameParameters(v, u) /\ v.end = u.end /\ v.start = Larger(u.start, lookback)
  BY <1>4, FromIsCall
<1> HIDE DEF v
<1>6. /\ v.period = u.period /\ v.period2 = u.period2 /\ v.maType = u.maType
      /\ v.unstable = u.unstable
  BY <1>5 DEF SameParameters
<1>7. L = MA_LookbackOf(u, u.period2, u.maType) /\ PeriodLessOne(v) = P
  BY <1>3, <1>5, <1>6, MA_LookbackOfAgrees DEF PeriodLessOne
<1> HIDE DEF L, P
<1>8. CASE v.start > v.end
  <2>1. TA_STOCHF(u) = Nothing(v)
    BY <1>1, <1>8 DEF Empty
  <2> QED
    BY <2>1, <1>3, <1>4, <1>5, <1>8, NothingSpans DEF lookback
<1>9. CASE ~(v.start > v.end)
  <2>1. /\ v.start \in Int /\ v.end \in Int /\ v.start =< v.end /\ v.start - L >= P
        /\ v.start - L \in Int /\ v.start - L =< v.end /\ L \in Nat
    BY <1>3, <1>4, <1>5, <1>7, <1>9 DEF Larger
  <2>2. Spans(raw, v.start - L, v.end, P)
    BY <2>1, <1>5, <1>7, RawKSpans
  <2> HIDE DEF raw
  <2>3. raw.nb = (v.end - v.start + 1) + L /\ raw.nb \in Nat /\ raw.nb >= 1 /\ raw.nb > L
    BY <2>1, <2>2, <1>3, SpansWhole
  <2>4. Spans(D, 0, raw.nb - 1, L)
    BY <2>3, <1>3, <1>5, <1>6, SmoothedKSpans DEF L
  <2> HIDE DEF D
  <2>5. D.nb = v.end - v.start + 1
    BY <2>1, <2>3, <2>4, SpansRest
  <2>6. \E mem : TA_STOCHF(u) = Done(mem, v.start, v.end - v.start + 1)
    BY <2>1, <2>5, <1>1, <1>2 DEF Empty
  <2> QED
    BY <2>1, <2>6, <1>3, <1>4, <1>5, DoneSpans DEF lookback
<1> QED
  BY <1>8, <1>9

\* STOCH: the same through two averages.
LEMMA STOCHSpans ==
  ASSUME NEW u, IsCall(u), u.period >= 1, u.period2 >= 1, u.period3 >= 1, u.maType \in MATypes,
         u.maType2 \in MATypes
  PROVE  Spans(TA_STOCH(u), u.start, u.end, STOCH_Lookback(u))
<1> DEFINE lookback == STOCH_Lookback(u)
           v   == From(u, lookback)
           DL  == MA_LookbackOf(v, v.period3, v.maType2)
           KL  == MA_LookbackOf(v, v.period2, v.maType)
           P   == PeriodLessOne(u)
           raw == RawK(v, DL + KL)
           K   == SmoothedK(v, raw, v.period2, v.maType, StochBuffer(v))
           D   == SmoothedK(v, K, v.period3, v.maType2, Out(v, 2))
<1>1. TA_STOCH(u) = IF Empty(v) THEN Nothing(v) ELSE FromBuffer(v, DL, D)
  BY DEF TA_STOCH
<1>2. \E mem : FromBuffer(v, DL, D) = Done(mem, v.start, D.nb)
  BY Zenon DEF FromBuffer
<1>3. /\ u.period \in Nat /\ u.period2 \in Nat /\ u.period3 \in Nat
      /\ u.start \in Int /\ u.end \in Int
      /\ P \in Nat /\ MA_LookbackOf(u, u.period2, u.maType) \in Nat
      /\ MA_LookbackOf(u, u.period3, u.maType2) \in Nat
  BY MA_LookbackOfIsNat DEF IsCall, PeriodLessOne
<1>4. /\ lookback = P + MA_LookbackOf(u, u.period2, u.maType)
                      + MA_LookbackOf(u, u.period3, u.maType2)
      /\ lookback \in Nat /\ lookback \in Int
  BY <1>3 DEF STOCH_Lookback
<1> HIDE DEF lookback
<1>5. /\ IsCall(v) /\ SameParameters(v, u) /\ v.end = u.end /\ v.start = Larger(u.start, lookback)
  BY <1>4, FromIsCall
<1> HIDE DEF v
<1>6. /\ v.period = u.period /\ v.period2 = u.period2 /\ v.period3 = u.period3
      /\ v.maType = u.maType /\ v.maType2 = u.maType2 /\ v.unstable = u.unstable
  BY <1>5 DEF SameParameters
<1>7. /\ DL = MA_LookbackOf(u, u.period3, u.maType2) /\ KL = MA_LookbackOf(u, u.period2, u.maType)
      /\ PeriodLessOne(v) = P
  BY <1>3, <1>5, <1>6, MA_LookbackOfAgrees DEF PeriodLessOne
<1> HIDE DEF DL, KL, P
<1>8. CASE v.start > v.end
  <2>1. TA_STOCH(u) = Nothing(v)
    BY <1>1, <1>8 DEF Empty
  <2> QED
    BY <2>1, <1>3, <1>4, <1>5, <1>8, NothingSpans DEF lookback
<1>9. CASE ~(v.start > v.end)
  <2>1. /\ v.start \in Int /\ v.end \in Int /\ v.start =< v.end /\ v.start - (DL + KL) >= P
        /\ v.start - (DL + KL) \in Int /\ v.start - (DL + KL) =< v.end
        /\ DL \in Nat /\ KL \in Nat /\ DL + KL \in Int
    BY <1>3, <1>4, <1>5, <1>7, <1>9 DEF Larger
  <2>2. Spans(raw, v.start - (DL + KL), v.end, P)
    BY <2>1, <1>5, <1>7, RawKSpans
  <2> HIDE DEF raw
  <2>3. /\ raw.nb = ((v.end - v.start + 1) + DL) + KL
        /\ raw.nb \in Nat /\ raw.nb >= 1 /\ raw.nb > KL
    BY <2>1, <2>2, <1>3, SpansWhole
  <2>4. Spans(K, 0, raw.nb - 1, KL)
    BY <2>3, <1>3, <1>5, <1>6, SmoothedKSpans DEF KL
  <2> HIDE DEF K
  <2>5. K.nb = (v.end - v.start + 1) + DL /\ K.nb \in Nat /\ K.nb >= 1 /\ K.nb > DL
    BY <2>1, <2>3, <2>4, SpansRest
  <2>6. Spans(D, 0, K.nb - 1, DL)
    BY <2>5, <1>3, <1>5, <1>6, SmoothedKSpans DEF DL
  <2> HIDE DEF D
  <2>7. D.nb = v.end - v.start + 1
    BY <2>1, <2>5, <2>6, SpansRest
  <2>8. \E mem : TA_STOCH(u) = Done(mem, v.start, v.end - v.start + 1)
    BY <2>1, <2>7, <1>1, <1>2 DEF Empty
  <2> QED
    BY <2>1, <2>8, <1>3, <1>4, <1>5, DoneSpans DEF lookback
<1> QED
  BY <1>8, <1>9

\* STOCHRSI asks RSI for the bars that STOCHF needs.
LEMMA STOCHRSISpans ==
  ASSUME NEW u, IsCall(u), u.period >= 1, u.period2 >= 1, u.period3 >= 1, u.maType \in MATypes
  PROVE  Spans(TA_STOCHRSI(u), u.start, u.end, STOCHRSI_Lookback(u))
<1> DEFINE other    == [u EXCEPT !.period = u.period2, !.period2 = u.period3]
           v        == From(u, STOCHRSI_Lookback(u))
           inner    == [v EXCEPT !.period = v.period2, !.period2 = v.period3]
           lookback == STOCHF_Lookback(inner)
           n        == Outputs(v) + lookback
           rsi      == TA_RSI(OnReal(v, Allocate(v.mem, "tempRSIBuffer", n),
                                     v.start - lookback, v.end, Input(v), "tempRSIBuffer"))
           buffer   == [inHigh |-> "tempRSIBuffer", inLow |-> "tempRSIBuffer",
                        inClose |-> "tempRSIBuffer"]
           w        == Calling(inner, rsi.mem, 0, n - 1, buffer, v.to)
<1>1. TA_STOCHRSI(u) = IF Empty(v) THEN Nothing(v) ELSE Reported(v, TA_STOCHF(w))
  BY DEF TA_STOCHRSI, StochOf
<1>2. /\ u.period \in Nat /\ u.period2 \in Nat /\ u.period3 \in Nat
      /\ u.start \in Int /\ u.end \in Int /\ u.unstable \in Nat
  BY DEF IsCall
<1>3. /\ IsCall(other) /\ other.period = u.period2 /\ other.period2 = u.period3
      /\ other.maType = u.maType /\ other.unstable = u.unstable
  BY DEF IsCall, Fields
<1>4. STOCHRSI_Lookback(u) = RSI_Lookback(u) + STOCHF_Lookback(other)
  BY DEF STOCHRSI_Lookback
<1> HIDE DEF other
<1>5. STOCHF_Lookback(other) \in Nat
  BY <1>3, STOCHFSpans
<1>6. RSI_Lookback(u) \in Nat
  BY <1>2 DEF RSI_Lookback
<1>7. STOCHRSI_Lookback(u) \in Int /\ STOCHRSI_Lookback(u) >= STOCHF_Lookback(other)
  BY <1>4, <1>5, <1>6
<1>8. /\ IsCall(v) /\ SameParameters(v, u) /\ v.end = u.end
      /\ v.start = Larger(u.start, STOCHRSI_Lookback(u))
  BY <1>7, FromIsCall
<1> HIDE DEF v
<1>9. /\ IsCall(inner) /\ inner.period = u.period2 /\ inner.period2 = u.period3
      /\ inner.maType = u.maType /\ inner.unstable = u.unstable
  BY <1>8 DEF IsCall, Fields, SameParameters
<1> HIDE DEF inner
<1>10. MA_LookbackOf(inner, u.period3, u.maType) = MA_LookbackOf(other, u.period3, u.maType)
  BY <1>2, <1>3, <1>9, MA_LookbackOfAgrees
<1>11. lookback = STOCHF_Lookback(other)
  BY <1>3, <1>9, <1>10 DEF STOCHF_Lookback, PeriodLessOne
<1> HIDE DEF lookback
<1>12. Outputs(v) = v.end - v.start + 1 /\ v.start \in Int /\ v.end \in Int
  BY <1>2, <1>7, <1>8 DEF Outputs, Larger
<1>13. n \in Int /\ n - 1 \in Int /\ lookback \in Nat
  BY <1>5, <1>11, <1>12
<1> HIDE DEF rsi, n
<1>14. IsCall(w) /\ SameParameters(w, inner) /\ w.start = 0 /\ w.end = n - 1
  BY <1>9, <1>13, CallingIsCall
<1> HIDE DEF w
<1>15. /\ w.period = u.period2 /\ w.period2 = u.period3 /\ w.maType = u.maType
       /\ w.unstable = inner.unstable
  BY <1>9, <1>14 DEF SameParameters
<1>16. MA_LookbackOf(w, u.period3, u.maType) = MA_LookbackOf(inner, u.period3, u.maType)
  BY <1>2, <1>9, <1>14, <1>15, MA_LookbackOfAgrees
<1>17. STOCHF_Lookback(w) = lookback
  BY <1>9, <1>15, <1>16 DEF STOCHF_Lookback, PeriodLessOne, lookback
<1>18. Spans(TA_STOCHF(w), 0, n - 1, lookback)
  BY <1>2, <1>14, <1>15, <1>17, STOCHFSpans
<1>19. CASE v.start > v.end
  <2>1. TA_STOCHRSI(u) = Nothing(v)
    BY <1>1, <1>19 DEF Empty
  <2> QED
    BY <2>1, <1>2, <1>7, <1>8, <1>19, NothingSpans
<1>20. CASE ~(v.start > v.end)
  <2>1. n = (v.end - v.start + 1) + lookback /\ n > lookback /\ v.start =< v.end
    BY <1>12, <1>13, <1>20 DEF n
  <2>2. TA_STOCHF(w).nb = v.end - v.start + 1
    BY <2>1, <1>12, <1>13, <1>18, SpansRest
  <2>3. TA_STOCHRSI(u) = Done(TA_STOCHF(w).mem, v.start, v.end - v.start + 1)
    BY <2>2, <1>1, <1>20 DEF Empty, Reported
  <2> QED
    BY <2>1, <2>3, <1>2, <1>7, <1>8, <1>12, DoneSpans
<1> QED
  BY <1>19, <1>20

(* Which function and which lookback a name stands for. *)

\* The function of a name.
LEMMA TAIs ==
  ASSUME NEW v
  PROVE  /\ TA("MAX", v) = TA_MAX(v) /\ TA("MIN", v) = TA_MIN(v)
         /\ TA("MAXINDEX", v) = TA_MAXINDEX(v) /\ TA("MININDEX", v) = TA_MININDEX(v)
         /\ TA("MINMAX", v) = TA_MINMAX(v) /\ TA("MINMAXINDEX", v) = TA_MINMAXINDEX(v)
         /\ TA("MIDPOINT", v) = TA_MIDPOINT(v) /\ TA("MIDPRICE", v) = TA_MIDPRICE(v)
         /\ TA("WILLR", v) = TA_WILLR(v) /\ TA("AROON", v) = TA_AROON(v)
         /\ TA("AROONOSC", v) = TA_AROONOSC(v) /\ TA("SUM", v) = TA_SUM(v)
         /\ TA("SMA", v) = TA_SMA(v) /\ TA("WMA", v) = TA_WMA(v) /\ TA("TRIMA", v) = TA_TRIMA(v)
         /\ TA("VAR", v) = TA_VAR(v) /\ TA("CORREL", v) = TA_CORREL(v)
         /\ TA("BETA", v) = TA_BETA(v) /\ TA("LINEARREG", v) = TA_LINEARREG(v)
         /\ TA("LINEARREG_SLOPE", v) = TA_LINEARREG_SLOPE(v)
         /\ TA("LINEARREG_INTERCEPT", v) = TA_LINEARREG_INTERCEPT(v) /\ TA("TSF", v) = TA_TSF(v)
         /\ TA("MFI", v) = TA_MFI(v) /\ TA("ULTOSC", v) = TA_ULTOSC(v) /\ TA("CCI", v) = TA_CCI(v)
         /\ TA("MOM", v) = TA_MOM(v) /\ TA("ROC", v) = TA_ROC(v) /\ TA("ROCP", v) = TA_ROCP(v)
         /\ TA("ROCR", v) = TA_ROCR(v) /\ TA("ROCR100", v) = TA_ROCR100(v)
         /\ TA("ADD", v) = TA_ADD(v) /\ TA("SUB", v) = TA_SUB(v) /\ TA("MULT", v) = TA_MULT(v)
         /\ TA("DIV", v) = TA_DIV(v) /\ TA("MEDPRICE", v) = TA_MEDPRICE(v)
         /\ TA("TYPPRICE", v) = TA_TYPPRICE(v) /\ TA("WCLPRICE", v) = TA_WCLPRICE(v)
         /\ TA("AVGPRICE", v) = TA_AVGPRICE(v) /\ TA("BOP", v) = TA_BOP(v)
         /\ TA("TRANGE", v) = TA_TRANGE(v) /\ TA("OBV", v) = TA_OBV(v) /\ TA("AD", v) = TA_AD(v)
         /\ TA("EMA", v) = TA_EMA(v) /\ TA("RSI", v) = TA_RSI(v) /\ TA("CMO", v) = TA_CMO(v)
         /\ TA("ATR", v) = TA_ATR(v) /\ TA("NATR", v) = TA_NATR(v)
         /\ TA("PLUS_DM", v) = TA_PLUS_DM(v) /\ TA("MINUS_DM", v) = TA_MINUS_DM(v)
         /\ TA("PLUS_DI", v) = TA_PLUS_DI(v) /\ TA("MINUS_DI", v) = TA_MINUS_DI(v)
         /\ TA("DX", v) = TA_DX(v) /\ TA("ADX", v) = TA_ADX(v) /\ TA("KAMA", v) = TA_KAMA(v)
         /\ TA("T3", v) = TA_T3(v) /\ TA("ADOSC", v) = TA_ADOSC(v) /\ TA("SAR", v) = TA_SAR(v)
         /\ TA("SAREXT", v) = TA_SAREXT(v) /\ TA("STDDEV", v) = TA_STDDEV(v)
         /\ TA("DEMA", v) = TA_DEMA(v) /\ TA("TEMA", v) = TA_TEMA(v) /\ TA("MA", v) = TA_MA(v)
         /\ TA("MAVP", v) = TA_MAVP(v) /\ TA("TRIX", v) = TA_TRIX(v) /\ TA("MACD", v) = TA_MACD(v)
         /\ TA("MACDFIX", v) = TA_MACDFIX(v) /\ TA("MACDEXT", v) = TA_MACDEXT(v)
         /\ TA("APO", v) = TA_APO(v) /\ TA("PPO", v) = TA_PPO(v) /\ TA("BBANDS", v) = TA_BBANDS(v)
         /\ TA("STOCHF", v) = TA_STOCHF(v) /\ TA("STOCH", v) = TA_STOCH(v)
         /\ TA("STOCHRSI", v) = TA_STOCHRSI(v) /\ TA("ADXR", v) = TA_ADXR(v)
         /\ TA("LINEARREG_ANGLE", v) = TA_LINEARREG_ANGLE(v)
         /\ TA("HT_DCPERIOD", v) = TA_HT_DCPERIOD(v) /\ TA("HT_DCPHASE", v) = TA_HT_DCPHASE(v)
         /\ TA("HT_PHASOR", v) = TA_HT_PHASOR(v) /\ TA("HT_SINE", v) = TA_HT_SINE(v)
         /\ TA("HT_TRENDLINE", v) = TA_HT_TRENDLINE(v)
         /\ TA("HT_TRENDMODE", v) = TA_HT_TRENDMODE(v) /\ TA("MAMA", v) = TA_MAMA(v)
         /\ TA("ACOS", v) = TA_ACOS(v) /\ TA("ASIN", v) = TA_ASIN(v) /\ TA("ATAN", v) = TA_ATAN(v)
         /\ TA("CEIL", v) = TA_CEIL(v) /\ TA("COS", v) = TA_COS(v) /\ TA("COSH", v) = TA_COSH(v)
         /\ TA("EXP", v) = TA_EXP(v) /\ TA("FLOOR", v) = TA_FLOOR(v) /\ TA("LN", v) = TA_LN(v)
         /\ TA("LOG10", v) = TA_LOG10(v) /\ TA("SIN", v) = TA_SIN(v) /\ TA("SINH", v) = TA_SINH(v)
         /\ TA("SQRT", v) = TA_SQRT(v) /\ TA("TAN", v) = TA_TAN(v) /\ TA("TANH", v) = TA_TANH(v)
<1>1. /\ TA("MAX", v) = TA_MAX(v) /\ TA("MIN", v) = TA_MIN(v) /\ TA("MAXINDEX", v) = TA_MAXINDEX(v)
      /\ TA("MININDEX", v) = TA_MININDEX(v) /\ TA("MINMAX", v) = TA_MINMAX(v)
      /\ TA("MINMAXINDEX", v) = TA_MINMAXINDEX(v) /\ TA("MIDPOINT", v) = TA_MIDPOINT(v)
      /\ TA("MIDPRICE", v) = TA_MIDPRICE(v) /\ TA("WILLR", v) = TA_WILLR(v)
      /\ TA("AROON", v) = TA_AROON(v) /\ TA("AROONOSC", v) = TA_AROONOSC(v)
      /\ TA("SUM", v) = TA_SUM(v) /\ TA("SMA", v) = TA_SMA(v) /\ TA("WMA", v) = TA_WMA(v)
  BY SMT DEF TA
<1>2. /\ TA("TRIMA", v) = TA_TRIMA(v) /\ TA("VAR", v) = TA_VAR(v) /\ TA("CORREL", v) = TA_CORREL(v)
      /\ TA("BETA", v) = TA_BETA(v) /\ TA("LINEARREG", v) = TA_LINEARREG(v)
      /\ TA("LINEARREG_SLOPE", v) = TA_LINEARREG_SLOPE(v)
      /\ TA("LINEARREG_INTERCEPT", v) = TA_LINEARREG_INTERCEPT(v) /\ TA("TSF", v) = TA_TSF(v)
      /\ TA("MFI", v) = TA_MFI(v) /\ TA("ULTOSC", v) = TA_ULTOSC(v) /\ TA("CCI", v) = TA_CCI(v)
      /\ TA("MOM", v) = TA_MOM(v) /\ TA("ROC", v) = TA_ROC(v) /\ TA("ROCP", v) = TA_ROCP(v)
  BY SMT DEF TA
<1>3. /\ TA("ROCR", v) = TA_ROCR(v) /\ TA("ROCR100", v) = TA_ROCR100(v) /\ TA("ADD", v) = TA_ADD(v)
      /\ TA("SUB", v) = TA_SUB(v) /\ TA("MULT", v) = TA_MULT(v) /\ TA("DIV", v) = TA_DIV(v)
      /\ TA("MEDPRICE", v) = TA_MEDPRICE(v) /\ TA("TYPPRICE", v) = TA_TYPPRICE(v)
      /\ TA("WCLPRICE", v) = TA_WCLPRICE(v) /\ TA("AVGPRICE", v) = TA_AVGPRICE(v)
      /\ TA("BOP", v) = TA_BOP(v) /\ TA("TRANGE", v) = TA_TRANGE(v) /\ TA("OBV", v) = TA_OBV(v)
      /\ TA("AD", v) = TA_AD(v)
  BY SMT DEF TA
<1>4. /\ TA("EMA", v) = TA_EMA(v) /\ TA("RSI", v) = TA_RSI(v) /\ TA("CMO", v) = TA_CMO(v)
      /\ TA("ATR", v) = TA_ATR(v) /\ TA("NATR", v) = TA_NATR(v) /\ TA("PLUS_DM", v) = TA_PLUS_DM(v)
      /\ TA("MINUS_DM", v) = TA_MINUS_DM(v) /\ TA("PLUS_DI", v) = TA_PLUS_DI(v)
      /\ TA("MINUS_DI", v) = TA_MINUS_DI(v) /\ TA("DX", v) = TA_DX(v) /\ TA("ADX", v) = TA_ADX(v)
      /\ TA("KAMA", v) = TA_KAMA(v) /\ TA("T3", v) = TA_T3(v) /\ TA("ADOSC", v) = TA_ADOSC(v)
  BY SMT DEF TA
<1>5. /\ TA("SAR", v) = TA_SAR(v) /\ TA("SAREXT", v) = TA_SAREXT(v)
      /\ TA("STDDEV", v) = TA_STDDEV(v) /\ TA("DEMA", v) = TA_DEMA(v) /\ TA("TEMA", v) = TA_TEMA(v)
      /\ TA("MA", v) = TA_MA(v) /\ TA("MAVP", v) = TA_MAVP(v) /\ TA("TRIX", v) = TA_TRIX(v)
      /\ TA("MACD", v) = TA_MACD(v) /\ TA("MACDFIX", v) = TA_MACDFIX(v)
      /\ TA("MACDEXT", v) = TA_MACDEXT(v) /\ TA("APO", v) = TA_APO(v) /\ TA("PPO", v) = TA_PPO(v)
      /\ TA("BBANDS", v) = TA_BBANDS(v)
  BY SMT DEF TA
<1>6. /\ TA("STOCHF", v) = TA_STOCHF(v) /\ TA("STOCH", v) = TA_STOCH(v)
      /\ TA("STOCHRSI", v) = TA_STOCHRSI(v) /\ TA("ADXR", v) = TA_ADXR(v)
      /\ TA("LINEARREG_ANGLE", v) = TA_LINEARREG_ANGLE(v)
      /\ TA("HT_DCPERIOD", v) = TA_HT_DCPERIOD(v) /\ TA("HT_DCPHASE", v) = TA_HT_DCPHASE(v)
      /\ TA("HT_PHASOR", v) = TA_HT_PHASOR(v) /\ TA("HT_SINE", v) = TA_HT_SINE(v)
      /\ TA("HT_TRENDLINE", v) = TA_HT_TRENDLINE(v) /\ TA("HT_TRENDMODE", v) = TA_HT_TRENDMODE(v)
      /\ TA("MAMA", v) = TA_MAMA(v) /\ TA("ACOS", v) = TA_ACOS(v) /\ TA("ASIN", v) = TA_ASIN(v)
  BY SMT DEF TA
<1>7. /\ TA("ATAN", v) = TA_ATAN(v) /\ TA("CEIL", v) = TA_CEIL(v) /\ TA("COS", v) = TA_COS(v)
      /\ TA("COSH", v) = TA_COSH(v) /\ TA("EXP", v) = TA_EXP(v) /\ TA("FLOOR", v) = TA_FLOOR(v)
      /\ TA("LN", v) = TA_LN(v) /\ TA("LOG10", v) = TA_LOG10(v) /\ TA("SIN", v) = TA_SIN(v)
      /\ TA("SINH", v) = TA_SINH(v) /\ TA("SQRT", v) = TA_SQRT(v) /\ TA("TAN", v) = TA_TAN(v)
      /\ TA("TANH", v) = TA_TANH(v)
  BY SMT DEF TA
<1> QED
  BY <1>1, <1>2, <1>3, <1>4, <1>5, <1>6, <1>7

\* The lookback of a name.
LEMMA LookbackIs ==
  ASSUME NEW v
  PROVE  /\ Lookback("MAX", v) = PeriodLessOne(v) /\ Lookback("MIN", v) = PeriodLessOne(v)
         /\ Lookback("MAXINDEX", v) = PeriodLessOne(v)
         /\ Lookback("MININDEX", v) = PeriodLessOne(v) /\ Lookback("MINMAX", v) = PeriodLessOne(v)
         /\ Lookback("MINMAXINDEX", v) = PeriodLessOne(v)
         /\ Lookback("MIDPOINT", v) = PeriodLessOne(v)
         /\ Lookback("MIDPRICE", v) = PeriodLessOne(v) /\ Lookback("WILLR", v) = PeriodLessOne(v)
         /\ Lookback("AROON", v) = v.period /\ Lookback("AROONOSC", v) = v.period
         /\ Lookback("SUM", v) = PeriodLessOne(v) /\ Lookback("SMA", v) = PeriodLessOne(v)
         /\ Lookback("WMA", v) = PeriodLessOne(v) /\ Lookback("TRIMA", v) = PeriodLessOne(v)
         /\ Lookback("VAR", v) = PeriodLessOne(v) /\ Lookback("CORREL", v) = PeriodLessOne(v)
         /\ Lookback("BETA", v) = v.period /\ Lookback("LINEARREG", v) = PeriodLessOne(v)
         /\ Lookback("LINEARREG_SLOPE", v) = PeriodLessOne(v)
         /\ Lookback("LINEARREG_INTERCEPT", v) = PeriodLessOne(v)
         /\ Lookback("TSF", v) = PeriodLessOne(v) /\ Lookback("MFI", v) = v.period + v.unstable
         /\ Lookback("ULTOSC", v) = LongestOf3(v) /\ Lookback("CCI", v) = PeriodLessOne(v)
         /\ Lookback("MOM", v) = v.period /\ Lookback("ROC", v) = v.period
         /\ Lookback("ROCP", v) = v.period /\ Lookback("ROCR", v) = v.period
         /\ Lookback("ROCR100", v) = v.period /\ Lookback("ADD", v) = 0 /\ Lookback("SUB", v) = 0
         /\ Lookback("MULT", v) = 0 /\ Lookback("DIV", v) = 0 /\ Lookback("MEDPRICE", v) = 0
         /\ Lookback("TYPPRICE", v) = 0 /\ Lookback("WCLPRICE", v) = 0
         /\ Lookback("AVGPRICE", v) = 0 /\ Lookback("BOP", v) = 0 /\ Lookback("TRANGE", v) = 1
         /\ Lookback("OBV", v) = 0 /\ Lookback("AD", v) = 0 /\ Lookback("EMA", v) = EMA_Lookback(v)
         /\ Lookback("RSI", v) = RSI_Lookback(v) /\ Lookback("CMO", v) = RSI_Lookback(v)
         /\ Lookback("ATR", v) = ATR_Lookback(v) /\ Lookback("NATR", v) = ATR_Lookback(v)
         /\ Lookback("PLUS_DM", v) = DM_Lookback(v) /\ Lookback("MINUS_DM", v) = DM_Lookback(v)
         /\ Lookback("PLUS_DI", v) = DI_Lookback(v) /\ Lookback("MINUS_DI", v) = DI_Lookback(v)
         /\ Lookback("DX", v) = DI_Lookback(v) /\ Lookback("ADX", v) = ADX_Lookback(v)
         /\ Lookback("KAMA", v) = KAMA_Lookback(v) /\ Lookback("T3", v) = T3_Lookback(v)
         /\ Lookback("ADOSC", v) = ADOSC_Lookback(v) /\ Lookback("SAR", v) = 1
         /\ Lookback("SAREXT", v) = 1 /\ Lookback("STDDEV", v) = PeriodLessOne(v)
         /\ Lookback("DEMA", v) = DEMA_Lookback(v) /\ Lookback("TEMA", v) = TEMA_Lookback(v)
         /\ Lookback("MA", v) = MA_Lookback(v)
         /\ Lookback("MAVP", v) = MA_LookbackOf(v, v.period2, v.maType)
         /\ Lookback("TRIX", v) = TRIX_Lookback(v) /\ Lookback("MACD", v) = MACD_Lookback(v)
         /\ Lookback("MACDFIX", v) = MACDFIX_Lookback(v)
         /\ Lookback("MACDEXT", v) = MACDEXT_Lookback(v) /\ Lookback("APO", v) = PO_Lookback(v)
         /\ Lookback("PPO", v) = PO_Lookback(v) /\ Lookback("BBANDS", v) = MA_Lookback(v)
         /\ Lookback("STOCHF", v) = STOCHF_Lookback(v) /\ Lookback("STOCH", v) = STOCH_Lookback(v)
         /\ Lookback("STOCHRSI", v) = STOCHRSI_Lookback(v)
         /\ Lookback("ADXR", v) = ADXR_Lookback(v)
         /\ Lookback("LINEARREG_ANGLE", v) = PeriodLessOne(v)
         /\ Lookback("HT_DCPERIOD", v) = Lookback32(v) /\ Lookback("HT_DCPHASE", v) = Lookback63(v)
         /\ Lookback("HT_PHASOR", v) = Lookback32(v) /\ Lookback("HT_SINE", v) = Lookback63(v)
         /\ Lookback("HT_TRENDLINE", v) = Lookback63(v)
         /\ Lookback("HT_TRENDMODE", v) = Lookback63(v) /\ Lookback("MAMA", v) = Lookback32(v)
         /\ Lookback("ACOS", v) = 0 /\ Lookback("ASIN", v) = 0 /\ Lookback("ATAN", v) = 0
         /\ Lookback("CEIL", v) = 0 /\ Lookback("COS", v) = 0 /\ Lookback("COSH", v) = 0
         /\ Lookback("EXP", v) = 0 /\ Lookback("FLOOR", v) = 0 /\ Lookback("LN", v) = 0
         /\ Lookback("LOG10", v) = 0 /\ Lookback("SIN", v) = 0 /\ Lookback("SINH", v) = 0
         /\ Lookback("SQRT", v) = 0 /\ Lookback("TAN", v) = 0 /\ Lookback("TANH", v) = 0
<1>1. /\ Lookback("MAX", v) = PeriodLessOne(v) /\ Lookback("MIN", v) = PeriodLessOne(v)
      /\ Lookback("MAXINDEX", v) = PeriodLessOne(v) /\ Lookback("MININDEX", v) = PeriodLessOne(v)
      /\ Lookback("MINMAX", v) = PeriodLessOne(v) /\ Lookback("MINMAXINDEX", v) = PeriodLessOne(v)
      /\ Lookback("MIDPOINT", v) = PeriodLessOne(v) /\ Lookback("MIDPRICE", v) = PeriodLessOne(v)
      /\ Lookback("WILLR", v) = PeriodLessOne(v) /\ Lookback("AROON", v) = v.period
      /\ Lookback("AROONOSC", v) = v.period /\ Lookback("SUM", v) = PeriodLessOne(v)
      /\ Lookback("SMA", v) = PeriodLessOne(v) /\ Lookback("WMA", v) = PeriodLessOne(v)
  BY SMT DEF Lookback, MathNames, ShortCycles, LongCycles
<1>2. /\ Lookback("TRIMA", v) = PeriodLessOne(v) /\ Lookback("VAR", v) = PeriodLessOne(v)
      /\ Lookback("CORREL", v) = PeriodLessOne(v) /\ Lookback("BETA", v) = v.period
      /\ Lookback("LINEARREG", v) = PeriodLessOne(v)
      /\ Lookback("LINEARREG_SLOPE", v) = PeriodLessOne(v)
      /\ Lookback("LINEARREG_INTERCEPT", v) = PeriodLessOne(v)
      /\ Lookback("TSF", v) = PeriodLessOne(v) /\ Lookback("MFI", v) = v.period + v.unstable
      /\ Lookback("ULTOSC", v) = LongestOf3(v) /\ Lookback("CCI", v) = PeriodLessOne(v)
      /\ Lookback("MOM", v) = v.period /\ Lookback("ROC", v) = v.period
      /\ Lookback("ROCP", v) = v.period
  BY SMT DEF Lookback, MathNames, ShortCycles, LongCycles
<1>3. /\ Lookback("ROCR", v) = v.period /\ Lookback("ROCR100", v) = v.period
      /\ Lookback("ADD", v) = 0 /\ Lookback("SUB", v) = 0 /\ Lookback("MULT", v) = 0
      /\ Lookback("DIV", v) = 0 /\ Lookback("MEDPRICE", v) = 0 /\ Lookback("TYPPRICE", v) = 0
      /\ Lookback("WCLPRICE", v) = 0 /\ Lookback("AVGPRICE", v) = 0 /\ Lookback("BOP", v) = 0
      /\ Lookback("TRANGE", v) = 1 /\ Lookback("OBV", v) = 0 /\ Lookback("AD", v) = 0
  BY SMT DEF Lookback, MathNames, ShortCycles, LongCycles
<1>4. /\ Lookback("EMA", v) = EMA_Lookback(v) /\ Lookback("RSI", v) = RSI_Lookback(v)
      /\ Lookback("CMO", v) = RSI_Lookback(v) /\ Lookback("ATR", v) = ATR_Lookback(v)
      /\ Lookback("NATR", v) = ATR_Lookback(v) /\ Lookback("PLUS_DM", v) = DM_Lookback(v)
      /\ Lookback("MINUS_DM", v) = DM_Lookback(v) /\ Lookback("PLUS_DI", v) = DI_Lookback(v)
      /\ Lookback("MINUS_DI", v) = DI_Lookback(v) /\ Lookback("DX", v) = DI_Lookback(v)
      /\ Lookback("ADX", v) = ADX_Lookback(v) /\ Lookback("KAMA", v) = KAMA_Lookback(v)
      /\ Lookback("T3", v) = T3_Lookback(v) /\ Lookback("ADOSC", v) = ADOSC_Lookback(v)
  BY SMT DEF Lookback, MathNames, ShortCycles, LongCycles
<1>5. /\ Lookback("SAR", v) = 1 /\ Lookback("SAREXT", v) = 1
      /\ Lookback("STDDEV", v) = PeriodLessOne(v) /\ Lookback("DEMA", v) = DEMA_Lookback(v)
      /\ Lookback("TEMA", v) = TEMA_Lookback(v) /\ Lookback("MA", v) = MA_Lookback(v)
      /\ Lookback("MAVP", v) = MA_LookbackOf(v, v.period2, v.maType)
      /\ Lookback("TRIX", v) = TRIX_Lookback(v) /\ Lookback("MACD", v) = MACD_Lookback(v)
      /\ Lookback("MACDFIX", v) = MACDFIX_Lookback(v)
      /\ Lookback("MACDEXT", v) = MACDEXT_Lookback(v) /\ Lookback("APO", v) = PO_Lookback(v)
      /\ Lookback("PPO", v) = PO_Lookback(v) /\ Lookback("BBANDS", v) = MA_Lookback(v)
  BY SMT DEF Lookback, MathNames, ShortCycles, LongCycles
<1>6. /\ Lookback("STOCHF", v) = STOCHF_Lookback(v) /\ Lookback("STOCH", v) = STOCH_Lookback(v)
      /\ Lookback("STOCHRSI", v) = STOCHRSI_Lookback(v) /\ Lookback("ADXR", v) = ADXR_Lookback(v)
      /\ Lookback("LINEARREG_ANGLE", v) = PeriodLessOne(v)
      /\ Lookback("HT_DCPERIOD", v) = Lookback32(v) /\ Lookback("HT_DCPHASE", v) = Lookback63(v)
      /\ Lookback("HT_PHASOR", v) = Lookback32(v) /\ Lookback("HT_SINE", v) = Lookback63(v)
      /\ Lookback("HT_TRENDLINE", v) = Lookback63(v) /\ Lookback("HT_TRENDMODE", v) = Lookback63(v)
      /\ Lookback("MAMA", v) = Lookback32(v) /\ Lookback("ACOS", v) = 0 /\ Lookback("ASIN", v) = 0
  BY SMT DEF Lookback, MathNames, ShortCycles, LongCycles
<1>7. /\ Lookback("ATAN", v) = 0 /\ Lookback("CEIL", v) = 0 /\ Lookback("COS", v) = 0
      /\ Lookback("COSH", v) = 0 /\ Lookback("EXP", v) = 0 /\ Lookback("FLOOR", v) = 0
      /\ Lookback("LN", v) = 0 /\ Lookback("LOG10", v) = 0 /\ Lookback("SIN", v) = 0
      /\ Lookback("SINH", v) = 0 /\ Lookback("SQRT", v) = 0 /\ Lookback("TAN", v) = 0
      /\ Lookback("TANH", v) = 0
  BY SMT DEF Lookback, MathNames, ShortCycles, LongCycles
<1> QED
  BY <1>1, <1>2, <1>3, <1>4, <1>5, <1>6, <1>7

\* A call of each function on a range that is one.
LEMMA TASpans ==
  ASSUME NEW v, IsCall(v), v.start \in Nat, v.start =< v.end,
         v.period >= 1, v.period2 >= 1, v.period3 >= 1,
         v.maType \in MATypes, v.maType2 \in MATypes, v.maType3 \in MATypes,
         NEW fn \in Functions,
         fn = "BBANDS" => Out(v, 1) # Out(v, 2) /\ Out(v, 1) # Out(v, 3) /\ Out(v, 2) # Out(v, 3)
  PROVE  Spans(TA(fn, v), v.start, v.end,
               IF fn = "BBANDS" THEN Larger(PeriodLessOne(v), Lookback(fn, v))
               ELSE Lookback(fn, v))
<1> DEFINE Goal == Spans(TA(fn, v), v.start, v.end, Lookback(fn, v))
<1>1. fn \in {"MOM", "ROC", "ROCP", "ROCR", "ROCR100", "ADD", "SUB", "MULT", "DIV", "MEDPRICE",
              "TYPPRICE", "WCLPRICE", "AVGPRICE", "BOP", "OBV", "AD", "TRANGE"} => Goal
  BY TAIs, LookbackIs, ChangesWalk, WalkSpans
<1>2. fn \in {"ACOS", "ASIN", "ATAN", "CEIL", "COS", "COSH", "EXP", "FLOOR", "LN", "LOG10", "SIN",
              "SINH", "SQRT", "TAN", "TANH"} => Goal
  BY TAIs, LookbackIs, ElementsWalk, WalkSpans
<1>3. fn \in {"MAX", "MAXINDEX", "MIN", "MININDEX", "MINMAX", "MINMAXINDEX", "MIDPOINT",
              "MIDPRICE", "WILLR", "AROON", "AROONOSC"} => Goal
  BY TAIs, LookbackIs, ExtremesWalk, WalkSpans
<1>4. fn \in {"SUM", "SMA", "TRIMA", "VAR", "CORREL", "LINEARREG", "LINEARREG_SLOPE",
              "LINEARREG_ANGLE", "LINEARREG_INTERCEPT", "TSF", "CCI", "BETA", "MFI",
              "ULTOSC"} => Goal
  BY TAIs, LookbackIs, SumsWalk, WalkSpans DEF TA_SMA, TA_VAR
<1>5. fn \in {"RSI", "CMO", "DX", "ADX", "KAMA", "T3", "ADOSC", "SAR", "SAREXT"} => Goal
  BY TAIs, LookbackIs, AveragesWalk, WalkSpans
<1>6. fn \in {"HT_PHASOR", "HT_DCPERIOD", "MAMA", "HT_DCPHASE", "HT_SINE", "HT_TRENDLINE",
              "HT_TRENDMODE"} => Goal
  BY TAIs, LookbackIs, CyclesWalk, WalkSpans
<1>7. fn \in {"EMA", "WMA", "DEMA", "TEMA", "MA", "MAVP", "TRIX", "STDDEV"} => Goal
  BY TAIs, LookbackIs, EMASpans, WMASpans, DEMASpans, TEMASpans, MASpans, MAVPSpans,
     TRIXSpans, STDDEVSpans
<1>8. fn \in {"ATR", "NATR", "PLUS_DM", "MINUS_DM", "PLUS_DI", "MINUS_DI", "ADXR"} => Goal
  BY TAIs, LookbackIs, RangesSmoothedSpan, DirectionsSpan, ADXRSpans
<1>9. fn \in {"MACD", "MACDFIX", "MACDEXT"} => Goal
  BY TAIs, LookbackIs, MACDSpans, MACDFIXSpans, MACDEXTSpans
<1>10. fn \in {"APO", "PPO"} => Goal
  <2>1. Spans(TA_APO(v), v.start, v.end, PO_Lookback(v))
    BY DifferenceSpans DEF TA_APO
  <2>2. Spans(TA_PPO(v), v.start, v.end, PO_Lookback(v))
    BY DifferenceSpans DEF TA_PPO
  <2> QED
    BY <2>1, <2>2, TAIs, LookbackIs
<1>11. fn \in {"STOCHF", "STOCH", "STOCHRSI"} => Goal
  BY TAIs, LookbackIs, STOCHFSpans, STOCHSpans, STOCHRSISpans
<1>12. CASE fn = "BBANDS"
  BY <1>12, TAIs, LookbackIs, BBANDSSpans
<1>13. CASE fn # "BBANDS"
  <2>1. Goal
    BY <1>13, <1>1, <1>2, <1>3, <1>4, <1>5, <1>6, <1>7, <1>8, <1>9, <1>10, <1>11
       DEF Functions, MathNames, OfCyclesOnly, ShortCycles, LongCycles
  <2> QED
    BY <2>1, <1>13
<1> QED
  BY <1>12, <1>13

(* The caller. *)

\* A request makes a call.
LEMMA AskedIsCall ==
  ASSUME NEW r, IsRequest(r), NEW mem, NEW start \in Int, NEW end \in Int, NEW to,
         unstable \in Nat
  PROVE  LET v == Asked(r, mem, start, end, to)
         IN /\ IsCall(v)
            /\ v.mem = mem /\ v.start = start /\ v.end = end /\ v.to = to
            /\ v.fn = r.fn /\ v.from = r.from /\ v.outs = r.outs
            /\ v.period = r.period /\ v.period2 = r.period2 /\ v.period3 = r.period3
            /\ v.maType = r.maType /\ v.maType2 = r.maType2 /\ v.maType3 = r.maType3
            /\ "start" \in DOMAIN v
<1> DEFINE own == [mem |-> mem, start |-> start, end |-> end, to |-> to, unstable |-> unstable,
                   compatibility |-> compatibility]
           v   == Asked(r, mem, start, end, to)
<1>1. v = [x \in DOMAIN own \cup DOMAIN r |-> IF x \in DOMAIN own THEN own[x] ELSE r[x]]
  BY DEF Asked
<1> HIDE DEF v
<1>2. /\ DOMAIN v = {"mem", "start", "end", "to", "unstable", "compatibility"} \cup DOMAIN r
      /\ v.mem = mem /\ v.start = start /\ v.end = end /\ v.to = to
      /\ v.unstable = unstable /\ v.compatibility = compatibility
  BY <1>1
<1>3. /\ v.fn = r.fn /\ v.from = r.from /\ v.outs = r.outs
      /\ v.period = r.period /\ v.period2 = r.period2 /\ v.period3 = r.period3
      /\ v.maType = r.maType /\ v.maType2 = r.maType2 /\ v.maType3 = r.maType3
  BY <1>1 DEF IsRequest, RequestFields
<1>4. IsCall(v)
  BY <1>2, <1>3 DEF IsCall, IsRequest, RequestFields, Fields
<1> QED
  BY <1>2, <1>3, <1>4 DEF v

\* The range of a call that a caller can make.
LEMMA CalledSpans ==
  ASSUME NEW r \in Requests, NEW start \in Starts(r), NEW end \in Ends(r),
         NEW to \in Destinations(r), NEW mem, unstable \in Nat, start >= 0, end >= start
  PROVE  LET v == Asked(r, mem, start, end, to)
         IN Spans(Called(v), start, end,
                  IF v.fn = "BBANDS" THEN Larger(PeriodLessOne(v), Lookback(v.fn, v))
                  ELSE Lookback(v.fn, v))
<1> DEFINE v == Asked(r, mem, start, end, to)
<1>1. IsRequest(r) /\ PassesArrays(r) /\ start \in Int /\ end \in Int
  BY RequestsAssumption
<1>2. /\ IsCall(v)
      /\ v.start = start /\ v.end = end /\ v.to = to
      /\ v.fn = r.fn
      /\ v.period = r.period /\ v.period2 = r.period2 /\ v.period3 = r.period3
      /\ v.maType = r.maType /\ v.maType2 = r.maType2 /\ v.maType3 = r.maType3
  BY <1>1, AskedIsCall
<1> HIDE DEF v
<1>3. /\ v.start \in Nat /\ v.start =< v.end /\ v.fn \in Functions
      /\ v.period >= 1 /\ v.period2 >= 1 /\ v.period3 >= 1
      /\ v.maType \in MATypes /\ v.maType2 \in MATypes /\ v.maType3 \in MATypes
  BY <1>1, <1>2 DEF IsRequest
<1>4. r.fn = "BBANDS" => to \in [1 .. 3 -> {r.from[x] : x \in DOMAIN r.from}
                                            \cup {Fresh[n] : n \in 1 .. 3}]
                         /\ IsInjective(to)
  BY <1>1 DEF Destinations, PassesArrays, OutputsOf
<1>5. v.fn = "BBANDS" =>
        Out(v, 1) # Out(v, 2) /\ Out(v, 1) # Out(v, 3) /\ Out(v, 2) # Out(v, 3)
  BY <1>2, <1>4 DEF Out, IsInjective
<1>6. Spans(TA(v.fn, v), v.start, v.end,
            IF v.fn = "BBANDS" THEN Larger(PeriodLessOne(v), Lookback(v.fn, v))
            ELSE Lookback(v.fn, v))
  BY <1>2, <1>3, <1>5, TASpans
<1>7. Called(v) = TA(v.fn, v)
  BY <1>1, <1>2 DEF Called
<1> QED
  BY <1>2, <1>6, <1>7 DEF v

\* What the invariant needs: the unstable period a caller may set is a number of bars.
RangeInv == unstable \in Nat /\ RangeAsPromised

\* A step of the caller that calls a function.
LEMMA CallKeepsRange ==
  ASSUME unstable \in Nat, NEW market, NEW r \in Requests, NEW start \in Starts(r),
         NEW end \in Ends(r), NEW to \in Destinations(r), Call(market, r, start, end, to)
  PROVE  RangeAsPromised'
<1> DEFINE mem == Memory(market, r, start, end, to)
           v   == Asked(r, mem, start, end, to)
           c   == Called(v)
           lookback == IF v.fn = "BBANDS" THEN Larger(PeriodLessOne(v), Lookback(v.fn, v))
                       ELSE Lookback(v.fn, v)
<1>1. call' = v /\ result' = [c EXCEPT !.mem = Restrict(@, DOMAIN v.mem)]
  BY DEF Call
<1>2. v.start = start /\ v.end = end
  BY RequestsAssumption, AskedIsCall
<1>3. FirstBar(v) = Larger(start, lookback)
  BY <1>2 DEF FirstBar
<1>4. ASSUME start >= 0, end >= start
      PROVE  Spans(c, start, end, lookback)
  BY <1>4, CalledSpans
<1> HIDE DEF v, c, lookback
<1>5. ASSUME start >= 0, end >= start
      PROVE  /\ result'.rc = "TA_SUCCESS"
             /\ IF FirstBar(v) > end THEN result'.nb = 0
                ELSE result'.beg = FirstBar(v) /\ result'.nb = end - FirstBar(v) + 1
  BY <1>1, <1>3, <1>4, <1>5 DEF Spans
<1> QED
  BY <1>1, <1>2, <1>5 DEF RangeAsPromised

\* RangeAsPromised: every call on a range that is one succeeds and answers for the bars from the
\* first it can to the last it was asked for, whichever functions it calls on the way.
THEOREM RangesArePromised == Spec => []RangeAsPromised
<1>1. Init => RangeInv
  BY DEF Init, RangeInv, RangeAsPromised
<1>2. RangeInv /\ [Next]_vars => RangeInv'
  <2> SUFFICES ASSUME RangeInv, [Next]_vars
               PROVE  RangeInv'
    OBVIOUS
  <2>1. ASSUME NEW n \in UnstablePeriods, SetUnstablePeriod(n)
        PROVE  RangeInv'
    BY <2>1, UnstablePeriodsAssumption DEF SetUnstablePeriod, RangeInv, RangeAsPromised
  <2>2. ASSUME NEW c \in {"default", "metastock"}, SetCompatibility(c)
        PROVE  RangeInv'
    BY <2>2 DEF SetCompatibility, RangeInv, RangeAsPromised
  <2>3. ASSUME NEW market \in Markets, NEW r \in Requests, NEW start \in Starts(r),
               NEW end \in Ends(r), NEW to \in Destinations(r), Call(market, r, start, end, to)
        PROVE  RangeInv'
    <3>1. RangeAsPromised'
      BY <2>3, CallKeepsRange DEF RangeInv
    <3> QED
      BY <3>1, <2>3 DEF RangeInv, Call
  <2>4. CASE Finish
    BY <2>4 DEF Finish, RangeInv, RangeAsPromised
  <2>5. CASE UNCHANGED vars
    BY <2>5 DEF vars, RangeInv, RangeAsPromised
  <2> QED
    BY <2>1, <2>2, <2>3, <2>4, <2>5 DEF Next
<1>3. RangeInv => RangeAsPromised
  BY DEF RangeInv
<1> QED
  BY <1>1, <1>2, <1>3, PTL DEF Spec

=============================================================================
