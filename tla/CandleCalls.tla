------------------------------ MODULE CandleCalls ------------------------------
(***************************************************************************)
(* Calls of the candlestick functions TA_CDL*(startIdx, endIdx, inOpen,    *)
(* inHigh, inLow, inClose, ...) on one series of bars, between changes of  *)
(* the candle settings.  A function validates its range, moves the start   *)
(* up to its lookback, sums the ranges of the bars its averages need, and  *)
(* then walks the bars: an iteration writes one output from the running    *)
(* totals, then adds the current bar to each total and takes its oldest    *)
(* one off.  A call is run by the actions Call, Iterate and Return.        *)
(***************************************************************************)
EXTENDS CandleSequences, Sequences, Functions

CONSTANTS
    AllBars,       \* the series to check, each a function from 0 .. n - 1 to bars
    Patterns,      \* the functions to call
    Ranges,        \* the <<startIdx, endIdx>> to call them with, endIdx inside the arrays
    Penetrations,  \* the values of optInPenetration
    Start,         \* the settings to start from
    Changes,       \* the <<settingType, setting>> TA_SetCandleSettings is called with
    Resets         \* the sets of types TA_RestoreCandleDefaultSettings is called for

VARIABLES
    pc,            \* "ready" to call, "loop" in the do-while loop, "returned" to the caller
    pattern,       \* the function called
    startIdx, endIdx,
    i,             \* the bar of the next iteration
    totals,        \* the ...PeriodTotal variables, by name
    trailing,      \* the ...TrailingIdx of each of them
    hk,            \* patternIdx and patternResult of the hikkake functions
    outInteger,    \* the outputs written
    outBegIdx,     \* *outBegIdx, -1 as long as the call has not written it
    retCode

call == <<pc, pattern, startIdx, endIdx, i, totals, trailing, hk, outInteger, outBegIdx, retCode>>
vars == <<bars, settings, penetration, call>>

AllPatterns ==
    {"CDL2CROWS", "CDL3BLACKCROWS", "CDL3INSIDE", "CDL3LINESTRIKE",
     "CDL3OUTSIDE", "CDL3STARSINSOUTH", "CDL3WHITESOLDIERS", "CDLABANDONEDBABY",
     "CDLADVANCEBLOCK", "CDLBELTHOLD", "CDLBREAKAWAY", "CDLCLOSINGMARUBOZU",
     "CDLCONCEALBABYSWALL", "CDLCOUNTERATTACK", "CDLDARKCLOUDCOVER", "CDLDOJI",
     "CDLDOJISTAR", "CDLDRAGONFLYDOJI", "CDLENGULFING", "CDLEVENINGDOJISTAR",
     "CDLEVENINGSTAR", "CDLGAPSIDESIDEWHITE", "CDLGRAVESTONEDOJI", "CDLHAMMER",
     "CDLHANGINGMAN", "CDLHARAMI", "CDLHARAMICROSS", "CDLHIGHWAVE",
     "CDLHIKKAKE", "CDLHIKKAKEMOD", "CDLHOMINGPIGEON", "CDLIDENTICAL3CROWS",
     "CDLINNECK", "CDLINVERTEDHAMMER", "CDLKICKING", "CDLKICKINGBYLENGTH",
     "CDLLADDERBOTTOM", "CDLLONGLEGGEDDOJI", "CDLLONGLINE", "CDLMARUBOZU",
     "CDLMATCHINGLOW", "CDLMATHOLD", "CDLMORNINGDOJISTAR", "CDLMORNINGSTAR",
     "CDLONNECK", "CDLPIERCING", "CDLRICKSHAWMAN", "CDLRISEFALL3METHODS",
     "CDLSEPARATINGLINES", "CDLSHOOTINGSTAR", "CDLSHORTLINE", "CDLSPINNINGTOP",
     "CDLSTALLEDPATTERN", "CDLSTICKSANDWICH", "CDLTAKURI", "CDLTASUKIGAP",
     "CDLTHRUSTING", "CDLTRISTAR", "CDLUNIQUE3RIVER", "CDLUPSIDEGAP2CROWS",
     "CDLXSIDEGAP3METHODS"}

PlanOf(p) ==
    CASE p = "CDL2CROWS" -> CDL2CROWS_Plan
      [] p = "CDL3BLACKCROWS" -> CDL3BLACKCROWS_Plan
      [] p = "CDL3INSIDE" -> CDL3INSIDE_Plan
      [] p = "CDL3LINESTRIKE" -> CDL3LINESTRIKE_Plan
      [] p = "CDL3OUTSIDE" -> CDL3OUTSIDE_Plan
      [] p = "CDL3STARSINSOUTH" -> CDL3STARSINSOUTH_Plan
      [] p = "CDL3WHITESOLDIERS" -> CDL3WHITESOLDIERS_Plan
      [] p = "CDLABANDONEDBABY" -> CDLABANDONEDBABY_Plan
      [] p = "CDLADVANCEBLOCK" -> CDLADVANCEBLOCK_Plan
      [] p = "CDLBELTHOLD" -> CDLBELTHOLD_Plan
      [] p = "CDLBREAKAWAY" -> CDLBREAKAWAY_Plan
      [] p = "CDLCLOSINGMARUBOZU" -> CDLCLOSINGMARUBOZU_Plan
      [] p = "CDLCONCEALBABYSWALL" -> CDLCONCEALBABYSWALL_Plan
      [] p = "CDLCOUNTERATTACK" -> CDLCOUNTERATTACK_Plan
      [] p = "CDLDARKCLOUDCOVER" -> CDLDARKCLOUDCOVER_Plan
      [] p = "CDLDOJI" -> CDLDOJI_Plan
      [] p = "CDLDOJISTAR" -> CDLDOJISTAR_Plan
      [] p = "CDLDRAGONFLYDOJI" -> CDLDRAGONFLYDOJI_Plan
      [] p = "CDLENGULFING" -> CDLENGULFING_Plan
      [] p = "CDLEVENINGDOJISTAR" -> CDLEVENINGDOJISTAR_Plan
      [] p = "CDLEVENINGSTAR" -> CDLEVENINGSTAR_Plan
      [] p = "CDLGAPSIDESIDEWHITE" -> CDLGAPSIDESIDEWHITE_Plan
      [] p = "CDLGRAVESTONEDOJI" -> CDLGRAVESTONEDOJI_Plan
      [] p = "CDLHAMMER" -> CDLHAMMER_Plan
      [] p = "CDLHANGINGMAN" -> CDLHANGINGMAN_Plan
      [] p = "CDLHARAMI" -> CDLHARAMI_Plan
      [] p = "CDLHARAMICROSS" -> CDLHARAMICROSS_Plan
      [] p = "CDLHIGHWAVE" -> CDLHIGHWAVE_Plan
      [] p = "CDLHIKKAKE" -> CDLHIKKAKE_Plan
      [] p = "CDLHIKKAKEMOD" -> CDLHIKKAKEMOD_Plan
      [] p = "CDLHOMINGPIGEON" -> CDLHOMINGPIGEON_Plan
      [] p = "CDLIDENTICAL3CROWS" -> CDLIDENTICAL3CROWS_Plan
      [] p = "CDLINNECK" -> CDLINNECK_Plan
      [] p = "CDLINVERTEDHAMMER" -> CDLINVERTEDHAMMER_Plan
      [] p = "CDLKICKING" -> CDLKICKING_Plan
      [] p = "CDLKICKINGBYLENGTH" -> CDLKICKINGBYLENGTH_Plan
      [] p = "CDLLADDERBOTTOM" -> CDLLADDERBOTTOM_Plan
      [] p = "CDLLONGLEGGEDDOJI" -> CDLLONGLEGGEDDOJI_Plan
      [] p = "CDLLONGLINE" -> CDLLONGLINE_Plan
      [] p = "CDLMARUBOZU" -> CDLMARUBOZU_Plan
      [] p = "CDLMATCHINGLOW" -> CDLMATCHINGLOW_Plan
      [] p = "CDLMATHOLD" -> CDLMATHOLD_Plan
      [] p = "CDLMORNINGDOJISTAR" -> CDLMORNINGDOJISTAR_Plan
      [] p = "CDLMORNINGSTAR" -> CDLMORNINGSTAR_Plan
      [] p = "CDLONNECK" -> CDLONNECK_Plan
      [] p = "CDLPIERCING" -> CDLPIERCING_Plan
      [] p = "CDLRICKSHAWMAN" -> CDLRICKSHAWMAN_Plan
      [] p = "CDLRISEFALL3METHODS" -> CDLRISEFALL3METHODS_Plan
      [] p = "CDLSEPARATINGLINES" -> CDLSEPARATINGLINES_Plan
      [] p = "CDLSHOOTINGSTAR" -> CDLSHOOTINGSTAR_Plan
      [] p = "CDLSHORTLINE" -> CDLSHORTLINE_Plan
      [] p = "CDLSPINNINGTOP" -> CDLSPINNINGTOP_Plan
      [] p = "CDLSTALLEDPATTERN" -> CDLSTALLEDPATTERN_Plan
      [] p = "CDLSTICKSANDWICH" -> CDLSTICKSANDWICH_Plan
      [] p = "CDLTAKURI" -> CDLTAKURI_Plan
      [] p = "CDLTASUKIGAP" -> CDLTASUKIGAP_Plan
      [] p = "CDLTHRUSTING" -> CDLTHRUSTING_Plan
      [] p = "CDLTRISTAR" -> CDLTRISTAR_Plan
      [] p = "CDLUNIQUE3RIVER" -> CDLUNIQUE3RIVER_Plan
      [] p = "CDLUPSIDEGAP2CROWS" -> CDLUPSIDEGAP2CROWS_Plan
      [] p = "CDLXSIDEGAP3METHODS" -> CDLXSIDEGAP3METHODS_Plan

\* The output of function p at bar j, with the memory it leaves to the next iteration.
Output(p, j, T, memory) ==
    LET plain(v) == [value |-> v, hk |-> memory] IN
    CASE p = "CDL2CROWS" -> plain(CDL2CROWS(j, T))
      [] p = "CDL3BLACKCROWS" -> plain(CDL3BLACKCROWS(j, T))
      [] p = "CDL3INSIDE" -> plain(CDL3INSIDE(j, T))
      [] p = "CDL3LINESTRIKE" -> plain(CDL3LINESTRIKE(j, T))
      [] p = "CDL3OUTSIDE" -> plain(CDL3OUTSIDE(j, T))
      [] p = "CDL3STARSINSOUTH" -> plain(CDL3STARSINSOUTH(j, T))
      [] p = "CDL3WHITESOLDIERS" -> plain(CDL3WHITESOLDIERS(j, T))
      [] p = "CDLABANDONEDBABY" -> plain(CDLABANDONEDBABY(j, T))
      [] p = "CDLADVANCEBLOCK" -> plain(CDLADVANCEBLOCK(j, T))
      [] p = "CDLBELTHOLD" -> plain(CDLBELTHOLD(j, T))
      [] p = "CDLBREAKAWAY" -> plain(CDLBREAKAWAY(j, T))
      [] p = "CDLCLOSINGMARUBOZU" -> plain(CDLCLOSINGMARUBOZU(j, T))
      [] p = "CDLCONCEALBABYSWALL" -> plain(CDLCONCEALBABYSWALL(j, T))
      [] p = "CDLCOUNTERATTACK" -> plain(CDLCOUNTERATTACK(j, T))
      [] p = "CDLDARKCLOUDCOVER" -> plain(CDLDARKCLOUDCOVER(j, T))
      [] p = "CDLDOJI" -> plain(CDLDOJI(j, T))
      [] p = "CDLDOJISTAR" -> plain(CDLDOJISTAR(j, T))
      [] p = "CDLDRAGONFLYDOJI" -> plain(CDLDRAGONFLYDOJI(j, T))
      [] p = "CDLENGULFING" -> plain(CDLENGULFING(j, T))
      [] p = "CDLEVENINGDOJISTAR" -> plain(CDLEVENINGDOJISTAR(j, T))
      [] p = "CDLEVENINGSTAR" -> plain(CDLEVENINGSTAR(j, T))
      [] p = "CDLGAPSIDESIDEWHITE" -> plain(CDLGAPSIDESIDEWHITE(j, T))
      [] p = "CDLGRAVESTONEDOJI" -> plain(CDLGRAVESTONEDOJI(j, T))
      [] p = "CDLHAMMER" -> plain(CDLHAMMER(j, T))
      [] p = "CDLHANGINGMAN" -> plain(CDLHANGINGMAN(j, T))
      [] p = "CDLHARAMI" -> plain(CDLHARAMI(j, T))
      [] p = "CDLHARAMICROSS" -> plain(CDLHARAMICROSS(j, T))
      [] p = "CDLHIGHWAVE" -> plain(CDLHIGHWAVE(j, T))
      [] p = "CDLHIKKAKE" -> CDLHIKKAKE(j, memory)
      [] p = "CDLHIKKAKEMOD" -> CDLHIKKAKEMOD(j, T, memory)
      [] p = "CDLHOMINGPIGEON" -> plain(CDLHOMINGPIGEON(j, T))
      [] p = "CDLIDENTICAL3CROWS" -> plain(CDLIDENTICAL3CROWS(j, T))
      [] p = "CDLINNECK" -> plain(CDLINNECK(j, T))
      [] p = "CDLINVERTEDHAMMER" -> plain(CDLINVERTEDHAMMER(j, T))
      [] p = "CDLKICKING" -> plain(CDLKICKING(j, T))
      [] p = "CDLKICKINGBYLENGTH" -> plain(CDLKICKINGBYLENGTH(j, T))
      [] p = "CDLLADDERBOTTOM" -> plain(CDLLADDERBOTTOM(j, T))
      [] p = "CDLLONGLEGGEDDOJI" -> plain(CDLLONGLEGGEDDOJI(j, T))
      [] p = "CDLLONGLINE" -> plain(CDLLONGLINE(j, T))
      [] p = "CDLMARUBOZU" -> plain(CDLMARUBOZU(j, T))
      [] p = "CDLMATCHINGLOW" -> plain(CDLMATCHINGLOW(j, T))
      [] p = "CDLMATHOLD" -> plain(CDLMATHOLD(j, T))
      [] p = "CDLMORNINGDOJISTAR" -> plain(CDLMORNINGDOJISTAR(j, T))
      [] p = "CDLMORNINGSTAR" -> plain(CDLMORNINGSTAR(j, T))
      [] p = "CDLONNECK" -> plain(CDLONNECK(j, T))
      [] p = "CDLPIERCING" -> plain(CDLPIERCING(j, T))
      [] p = "CDLRICKSHAWMAN" -> plain(CDLRICKSHAWMAN(j, T))
      [] p = "CDLRISEFALL3METHODS" -> plain(CDLRISEFALL3METHODS(j, T))
      [] p = "CDLSEPARATINGLINES" -> plain(CDLSEPARATINGLINES(j, T))
      [] p = "CDLSHOOTINGSTAR" -> plain(CDLSHOOTINGSTAR(j, T))
      [] p = "CDLSHORTLINE" -> plain(CDLSHORTLINE(j, T))
      [] p = "CDLSPINNINGTOP" -> plain(CDLSPINNINGTOP(j, T))
      [] p = "CDLSTALLEDPATTERN" -> plain(CDLSTALLEDPATTERN(j, T))
      [] p = "CDLSTICKSANDWICH" -> plain(CDLSTICKSANDWICH(j, T))
      [] p = "CDLTAKURI" -> plain(CDLTAKURI(j, T))
      [] p = "CDLTASUKIGAP" -> plain(CDLTASUKIGAP(j, T))
      [] p = "CDLTHRUSTING" -> plain(CDLTHRUSTING(j, T))
      [] p = "CDLTRISTAR" -> plain(CDLTRISTAR(j, T))
      [] p = "CDLUNIQUE3RIVER" -> plain(CDLUNIQUE3RIVER(j, T))
      [] p = "CDLUPSIDEGAP2CROWS" -> plain(CDLUPSIDEGAP2CROWS(j, T))
      [] p = "CDLXSIDEGAP3METHODS" -> plain(CDLXSIDEGAP3METHODS(j, T))

-----------------------------------------------------------------------------
(* TA_SetCandleSettings and TA_RestoreCandleDefaultSettings (ta_global.c). *)

DefaultSettings ==
    LET setting(type, period, num, den) ==
          [rangeType |-> type, avgPeriod |-> period, factor |-> <<num, den>>]
    IN [BodyLong |-> setting("RealBody", 10, 1, 1), BodyVeryLong |-> setting("RealBody", 10, 3, 1),
        BodyShort |-> setting("RealBody", 10, 1, 1), BodyDoji |-> setting("HighLow", 10, 1, 10),
        ShadowLong |-> setting("RealBody", 0, 1, 1), ShadowVeryLong |-> setting("RealBody", 0, 2, 1),
        ShadowShort |-> setting("Shadows", 10, 1, 1),
        ShadowVeryShort |-> setting("HighLow", 10, 1, 10),
        Near |-> setting("HighLow", 5, 1, 5), Far |-> setting("HighLow", 5, 3, 5),
        Equal |-> setting("HighLow", 5, 1, 20)]

\* A series is an array of bars, the arguments are integers, the functions those of the library,
\* factors and penetrations are fractions, and the settings those a caller may choose, the defaults
\* among them.
ASSUME CandleAssumption ==
    /\ \A b \in AllBars :
          /\ IsFiniteSet(DOMAIN b) /\ DOMAIN b = 0 .. (Cardinality(DOMAIN b) - 1)
          /\ \A k \in DOMAIN b : b[k] \in [o : Int, h : Int, l : Int, c : Int] /\ IsBar(b[k])
    /\ Patterns \subseteq AllPatterns
    /\ Ranges \subseteq Int \X Int
    /\ Periods \subseteq Nat
    /\ Factors \subseteq Int \X (Nat \ {0})
    /\ Penetrations \subseteq Int \X (Nat \ {0})
    /\ Start \subseteq [CandleSettingTypes -> CandleSettings]
    /\ \A change \in Changes : change[1] \in CandleSettingTypes /\ change[2] \in CandleSettings
    /\ Resets \subseteq SUBSET CandleSettingTypes
    /\ DefaultSettings \in [CandleSettingTypes -> CandleSettings]

SetCandleSettings(type, setting) ==
    /\ pc = "ready"
    /\ settings' = [settings EXCEPT ![type] = setting]
    /\ UNCHANGED <<bars, penetration, call>>

RestoreCandleDefaultSettings(types) ==
    /\ pc = "ready"
    /\ settings' = [type \in CandleSettingTypes |->
                       IF type \in types THEN DefaultSettings[type] ELSE settings[type]]
    /\ UNCHANGED <<bars, penetration, call>>

-----------------------------------------------------------------------------

NoPattern == [idx |-> 0, result |-> 0]

Init ==
    /\ bars \in AllBars
    /\ settings \in Start
    /\ penetration \in Penetrations
    /\ pc = "ready" /\ pattern = "none"
    /\ startIdx = 0 /\ endIdx = 0 /\ i = 0
    /\ totals = <<>> /\ trailing = <<>> /\ hk = NoPattern
    /\ outInteger = <<>> /\ outBegIdx = -1
    /\ retCode = "none"

\* A return before any output; only a valid range with too few bars writes outBegIdx.
Refuse(code) ==
    /\ pc' = "returned"
    /\ retCode' = code
    /\ outBegIdx' = IF code = "TA_SUCCESS" THEN 0 ELSE -1
    /\ UNCHANGED <<startIdx, endIdx, i, totals, trailing, hk, outInteger>>

WarmUp(t, first) ==
    RangeSum(t.set, first - t.off - AvgPeriod(t.set) - t.warm, t.off + AvgPeriod(t.set) - t.until)

\* The validation of the range, the lookback and the warm-up loops.
Call(p, s, e) ==
    /\ pattern' = p
    /\ UNCHANGED <<bars, settings, penetration>>
    /\ \E plan \in {PlanOf(p)} :
       LET start == Larger(s, plan.lookback)
           first == start - plan.early
       IN CASE s < 0 -> Refuse("TA_OUT_OF_RANGE_START_INDEX")
            [] s >= 0 /\ (e < 0 \/ e < s) -> Refuse("TA_OUT_OF_RANGE_END_INDEX")
            [] s >= 0 /\ e >= s /\ start > e -> Refuse("TA_SUCCESS")
            [] s >= 0 /\ e >= s /\ start =< e ->
                 /\ pc' = "loop"
                 /\ startIdx' = start /\ endIdx' = e
                 /\ totals' = [t \in DOMAIN plan.totals |-> WarmUp(plan.totals[t], first)]
                 /\ trailing' = [t \in DOMAIN plan.totals |->
                       first - plan.totals[t].off - AvgPeriod(plan.totals[t].set)]
                 /\ i' = first
                 /\ UNCHANGED <<hk, outInteger, outBegIdx, retCode>>

\* One iteration of the loop; those before startIdx (hikkake) write nothing.
Iterate ==
    /\ pc = "loop" /\ i =< endIdx
    /\ \E o \in {Output(pattern, i, totals, hk)} :
          /\ hk' = o.hk
          /\ outInteger' = IF i < startIdx THEN outInteger ELSE Append(outInteger, o.value)
    /\ \E plan \in {PlanOf(pattern).totals} :
          totals' = [t \in DOMAIN totals |->
              totals[t] + CandleRange(plan[t].set, i - plan[t].add)
                        - CandleRange(plan[t].set, trailing[t] - plan[t].drop)]
    /\ i' = i + 1
    /\ trailing' = [t \in DOMAIN trailing |-> trailing[t] + 1]
    /\ UNCHANGED <<bars, settings, penetration, pc, pattern, startIdx, endIdx, outBegIdx, retCode>>

ReturnEarly ==
    /\ pc = "loop" /\ i > endIdx
    /\ pc' = "returned"
    /\ outBegIdx' = startIdx - PlanOf(pattern).early
    /\ retCode' = "TA_SUCCESS"
    /\ UNCHANGED <<bars, settings, penetration, pattern, startIdx, endIdx, i, totals, trailing, hk,
                   outInteger>>
Return ==
    /\ pc = "loop" /\ i > endIdx
    /\ pc' = "returned"
    /\ outBegIdx' = startIdx
    /\ retCode' = "TA_SUCCESS"
    /\ UNCHANGED <<bars, settings, penetration, pattern, startIdx, endIdx, i, totals, trailing, hk,
                   outInteger>>

\* The caller takes the outputs; the next call gets fresh ones.
Collect ==
    /\ pc = "returned"
    /\ pc' = "ready" /\ pattern' = "none"
    /\ startIdx' = 0 /\ endIdx' = 0 /\ i' = 0
    /\ totals' = <<>> /\ trailing' = <<>> /\ hk' = NoPattern
    /\ outInteger' = <<>> /\ outBegIdx' = -1
    /\ retCode' = "none"
    /\ UNCHANGED <<bars, settings, penetration>>

Next ==
    \/ \E change \in Changes : SetCandleSettings(change[1], change[2])
    \/ \E types \in Resets : RestoreCandleDefaultSettings(types)
    \/ /\ pc = "ready"
       /\ \E p \in Patterns, range \in {r \in Ranges : r[2] < Cardinality(DOMAIN bars)} :
             Call(p, range[1], range[2])
    \/ Iterate
    \/ Return
    \/ Collect

Spec == Init /\ [][Next]_vars
=============================================================================
