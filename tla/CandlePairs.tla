------------------------------ MODULE CandlePairs ------------------------------
(***************************************************************************)
(* The patterns of two candles, bars i-1 and i. A definition CDLx gives    *)
(* outInteger for bar i from the running totals T, CDLx_Plan what the      *)
(* function sets up before its loop.                                       *)
(***************************************************************************)
EXTENDS CandleSingles

\* Counterattack
CDLCOUNTERATTACK_Plan ==
    Plan(Max({AvgPeriod("Equal"), AvgPeriod("BodyLong")}) + 1, 1,
         [equal |-> Shifted("Equal", 1), bodyLong1 |-> Shifted("BodyLong", 1),
          bodyLong0 |-> Behind("BodyLong", 0)])
CDLCOUNTERATTACK(i, T) ==
    IF /\ Color(i-1) = -Color(i) /\ RealBody(i-1) > Average("BodyLong", T.bodyLong1, i-1)
       /\ RealBody(i) > Average("BodyLong", T.bodyLong0, i)
       /\ Close(i) =< Close(i-1) + Average("Equal", T.equal, i-1)
       /\ Close(i) >= Close(i-1) - Average("Equal", T.equal, i-1)
    THEN Color(i) * 100 ELSE 0

\* Dark Cloud Cover
CDLDARKCLOUDCOVER_Plan ==
    Plan(AvgPeriod("BodyLong") + 1, 1,
         [bodyLong |-> Shifted("BodyLong", 1)])
CDLDARKCLOUDCOVER(i, T) ==
    IF /\ White(i-1) /\ RealBody(i-1) > Average("BodyLong", T.bodyLong, i-1)
       /\ Black(i) /\ Open(i) > High(i-1) /\ Close(i) > Open(i-1)
       /\ Close(i) < Close(i-1) - Penetration(RealBody(i-1))
    THEN -100 ELSE 0

\* Doji Star
CDLDOJISTAR_Plan ==
    Plan(Max({AvgPeriod("BodyDoji"), AvgPeriod("BodyLong")}) + 1, 1,
         [bodyLong |-> Behind("BodyLong", 1), bodyDoji |-> Behind("BodyDoji", 0)])
CDLDOJISTAR(i, T) ==
    IF /\ RealBody(i-1) > Average("BodyLong", T.bodyLong, i-1)
       /\ RealBody(i) =< Average("BodyDoji", T.bodyDoji, i)
       /\ \/ /\ White(i-1)
             /\ RealBodyGapUp(i, i-1)
          \/ /\ Black(i-1)
             /\ RealBodyGapDown(i, i-1)
    THEN -Color(i-1) * 100 ELSE 0

\* Engulfing Pattern
Engulfing_PlanShort == Plan(0, 1, <<>>)
CDLENGULFING_Plan == Plan(2, 1, <<>>)
CDLENGULFING(i, T) ==
    IF \/ /\ White(i)
          /\ Black(i-1)
          /\ Close(i) > Open(i-1) /\ Open(i) < Close(i-1)
       \/ /\ Black(i)
          /\ White(i-1)
          /\ Open(i) > Close(i-1) /\ Close(i) < Open(i-1)
    THEN Color(i) * 100 ELSE 0

\* Hammer
CDLHAMMER_Plan ==
    Plan(Max({AvgPeriod("BodyShort"), AvgPeriod("ShadowLong"), AvgPeriod("ShadowVeryShort"),
         AvgPeriod("Near")}) + 1, 1,
         [body |-> Behind("BodyShort", 0), shadowLong |-> Behind("ShadowLong", 0),
          shadowVeryShort |-> Behind("ShadowVeryShort", 0), near |-> Behind("Near", 1)])
CDLHAMMER(i, T) ==
    IF /\ RealBody(i) < Average("BodyShort", T.body, i)
       /\ LowerShadow(i) > Average("ShadowLong", T.shadowLong, i)
       /\ UpperShadow(i) < Average("ShadowVeryShort", T.shadowVeryShort, i)
       /\ BodyBottom(i) =< Low(i-1) + Average("Near", T.near, i-1)
    THEN 100 ELSE 0

\* Hanging Man
CDLHANGINGMAN_Plan ==
    Plan(Max({AvgPeriod("BodyShort"), AvgPeriod("ShadowLong"), AvgPeriod("ShadowVeryShort"),
         AvgPeriod("Near")}) + 1, 1,
         [body |-> Behind("BodyShort", 0), shadowLong |-> Behind("ShadowLong", 0),
          shadowVeryShort |-> Behind("ShadowVeryShort", 0), near |-> Behind("Near", 1)])
CDLHANGINGMAN(i, T) ==
    IF /\ RealBody(i) < Average("BodyShort", T.body, i)
       /\ LowerShadow(i) > Average("ShadowLong", T.shadowLong, i)
       /\ UpperShadow(i) < Average("ShadowVeryShort", T.shadowVeryShort, i)
       /\ BodyBottom(i) >= High(i-1) - Average("Near", T.near, i-1)
    THEN -100 ELSE 0

\* Harami Pattern
CDLHARAMI_Plan ==
    Plan(Max({AvgPeriod("BodyShort"), AvgPeriod("BodyLong")}) + 1, 1,
         [bodyLong |-> Behind("BodyLong", 1), bodyShort |-> Behind("BodyShort", 0)])
CDLHARAMI(i, T) ==
    IF /\ RealBody(i-1) > Average("BodyLong", T.bodyLong, i-1)
       /\ RealBody(i) =< Average("BodyShort", T.bodyShort, i) /\ BodyTop(i) < BodyTop(i-1)
       /\ BodyBottom(i) > BodyBottom(i-1)
    THEN -Color(i-1) * 100 ELSE 0

\* Harami Cross Pattern
CDLHARAMICROSS_Plan ==
    Plan(Max({AvgPeriod("BodyDoji"), AvgPeriod("BodyLong")}) + 1, 1,
         [bodyLong |-> Behind("BodyLong", 1), bodyDoji |-> Behind("BodyDoji", 0)])
CDLHARAMICROSS(i, T) ==
    IF /\ RealBody(i-1) > Average("BodyLong", T.bodyLong, i-1)
       /\ RealBody(i) =< Average("BodyDoji", T.bodyDoji, i) /\ BodyTop(i) < BodyTop(i-1)
       /\ BodyBottom(i) > BodyBottom(i-1)
    THEN -Color(i-1) * 100 ELSE 0

\* Homing Pigeon
CDLHOMINGPIGEON_Plan ==
    Plan(Max({AvgPeriod("BodyShort"), AvgPeriod("BodyLong")}) + 1, 1,
         [bodyLong |-> Shifted("BodyLong", 1), bodyShort |-> Behind("BodyShort", 0)])
CDLHOMINGPIGEON(i, T) ==
    IF /\ Black(i-1)
       /\ Black(i)
       /\ RealBody(i-1) > Average("BodyLong", T.bodyLong, i-1)
       /\ RealBody(i) =< Average("BodyShort", T.bodyShort, i) /\ Open(i) < Open(i-1)
       /\ Close(i) > Close(i-1)
    THEN 100 ELSE 0

\* In-Neck Pattern
CDLINNECK_Plan ==
    Plan(Max({AvgPeriod("Equal"), AvgPeriod("BodyLong")}) + 1, 1,
         [equal |-> Shifted("Equal", 1), bodyLong |-> Shifted("BodyLong", 1)])
CDLINNECK(i, T) ==
    IF /\ Black(i-1) /\ RealBody(i-1) > Average("BodyLong", T.bodyLong, i-1)
       /\ White(i) /\ Open(i) < Low(i-1)
       /\ Close(i) =< Close(i-1) + Average("Equal", T.equal, i-1) /\ Close(i) >= Close(i-1)
    THEN -100 ELSE 0

\* Inverted Hammer
CDLINVERTEDHAMMER_Plan ==
    Plan(Max({AvgPeriod("BodyShort"), AvgPeriod("ShadowLong"),
         AvgPeriod("ShadowVeryShort")}) + 1, 1,
         [body |-> Behind("BodyShort", 0), shadowLong |-> Behind("ShadowLong", 0),
          shadowVeryShort |-> Behind("ShadowVeryShort", 0)])
CDLINVERTEDHAMMER(i, T) ==
    IF /\ RealBody(i) < Average("BodyShort", T.body, i)
       /\ UpperShadow(i) > Average("ShadowLong", T.shadowLong, i)
       /\ LowerShadow(i) < Average("ShadowVeryShort", T.shadowVeryShort, i)
       /\ RealBodyGapDown(i, i-1)
    THEN 100 ELSE 0

\* Kicking
CDLKICKING_Plan ==
    Plan(Max({AvgPeriod("ShadowVeryShort"), AvgPeriod("BodyLong")}) + 1, 1,
         [shadowVeryShort1 |-> Shifted("ShadowVeryShort", 1),
          shadowVeryShort0 |-> Behind("ShadowVeryShort", 0), bodyLong1 |-> Shifted("BodyLong", 1),
          bodyLong0 |-> Behind("BodyLong", 0)])
CDLKICKING(i, T) ==
    IF /\ Color(i-1) = -Color(i) /\ RealBody(i-1) > Average("BodyLong", T.bodyLong1, i-1)
       /\ UpperShadow(i-1) < Average("ShadowVeryShort", T.shadowVeryShort1, i-1)
       /\ LowerShadow(i-1) < Average("ShadowVeryShort", T.shadowVeryShort1, i-1)
       /\ RealBody(i) > Average("BodyLong", T.bodyLong0, i)
       /\ UpperShadow(i) < Average("ShadowVeryShort", T.shadowVeryShort0, i)
       /\ LowerShadow(i) < Average("ShadowVeryShort", T.shadowVeryShort0, i)
       /\ \/ /\ Black(i-1)
             /\ CandleGapUp(i, i-1)
          \/ /\ White(i-1)
             /\ CandleGapDown(i, i-1)
    THEN Color(i) * 100 ELSE 0

\* Kicking - bull/bear determined by the longer marubozu
CDLKICKINGBYLENGTH_Plan ==
    Plan(Max({AvgPeriod("ShadowVeryShort"), AvgPeriod("BodyLong")}) + 1, 1,
         [shadowVeryShort1 |-> Shifted("ShadowVeryShort", 1),
          shadowVeryShort0 |-> Behind("ShadowVeryShort", 0), bodyLong1 |-> Shifted("BodyLong", 1),
          bodyLong0 |-> Behind("BodyLong", 0)])
CDLKICKINGBYLENGTH(i, T) ==
    IF /\ Color(i-1) = -Color(i) /\ RealBody(i-1) > Average("BodyLong", T.bodyLong1, i-1)
       /\ UpperShadow(i-1) < Average("ShadowVeryShort", T.shadowVeryShort1, i-1)
       /\ LowerShadow(i-1) < Average("ShadowVeryShort", T.shadowVeryShort1, i-1)
       /\ RealBody(i) > Average("BodyLong", T.bodyLong0, i)
       /\ UpperShadow(i) < Average("ShadowVeryShort", T.shadowVeryShort0, i)
       /\ LowerShadow(i) < Average("ShadowVeryShort", T.shadowVeryShort0, i)
       /\ \/ /\ Black(i-1)
             /\ CandleGapUp(i, i-1)
          \/ /\ White(i-1)
             /\ CandleGapDown(i, i-1)
    THEN Color((IF RealBody(i) > RealBody(i-1) THEN i ELSE i-1)) * 100 ELSE 0

\* Matching Low
CDLMATCHINGLOW_Plan == Plan(AvgPeriod("Equal") + 1, 1, [equal |-> Shifted("Equal", 1)])
CDLMATCHINGLOW(i, T) ==
    IF /\ Black(i-1)
       /\ Black(i) /\ Close(i) =< Close(i-1) + Average("Equal", T.equal, i-1)
       /\ Close(i) >= Close(i-1) - Average("Equal", T.equal, i-1)
    THEN 100 ELSE 0

\* On-Neck Pattern
CDLONNECK_Plan ==
    Plan(Max({AvgPeriod("Equal"), AvgPeriod("BodyLong")}) + 1, 1,
         [equal |-> Shifted("Equal", 1), bodyLong |-> Shifted("BodyLong", 1)])
CDLONNECK(i, T) ==
    IF /\ Black(i-1) /\ RealBody(i-1) > Average("BodyLong", T.bodyLong, i-1)
       /\ White(i) /\ Open(i) < Low(i-1)
       /\ Close(i) =< Low(i-1) + Average("Equal", T.equal, i-1)
       /\ Close(i) >= Low(i-1) - Average("Equal", T.equal, i-1)
    THEN -100 ELSE 0

\* Piercing Pattern
CDLPIERCING_Plan ==
    Plan(AvgPeriod("BodyLong") + 1, 1,
         [bodyLong1 |-> Shifted("BodyLong", 1), bodyLong0 |-> Behind("BodyLong", 0)])
PiercingAnyClose(i, T) ==
    IF /\ Black(i-1) /\ RealBody(i-1) > Average("BodyLong", T.bodyLong1, i-1)
       /\ White(i) /\ RealBody(i) > Average("BodyLong", T.bodyLong0, i) /\ Open(i) < Low(i-1)
       /\ Close(i) < Open(i-1)
    THEN 100 ELSE 0
CDLPIERCING(i, T) ==
    IF /\ Black(i-1) /\ RealBody(i-1) > Average("BodyLong", T.bodyLong1, i-1)
       /\ White(i) /\ RealBody(i) > Average("BodyLong", T.bodyLong0, i) /\ Open(i) < Low(i-1)
       /\ Close(i) < Open(i-1) /\ Close(i) > Close(i-1) + Half(RealBody(i-1))
    THEN 100 ELSE 0

\* Separating Lines
CDLSEPARATINGLINES_Plan ==
    Plan(Max({AvgPeriod("ShadowVeryShort"), AvgPeriod("BodyLong"), AvgPeriod("Equal")}) + 1, 1,
         [shadowVeryShort |-> Behind("ShadowVeryShort", 0), bodyLong |-> Behind("BodyLong", 0),
          equal |-> Shifted("Equal", 1)])
CDLSEPARATINGLINES(i, T) ==
    IF /\ Color(i-1) = -Color(i)
       /\ Open(i) =< Open(i-1) + Average("Equal", T.equal, i-1)
       /\ Open(i) >= Open(i-1) - Average("Equal", T.equal, i-1)
       /\ RealBody(i) > Average("BodyLong", T.bodyLong, i)
       /\ \/ /\ White(i) /\ LowerShadow(i) < Average("ShadowVeryShort", T.shadowVeryShort, i)
          \/ /\ Black(i) /\ UpperShadow(i) < Average("ShadowVeryShort", T.shadowVeryShort, i)
    THEN Color(i) * 100 ELSE 0

\* Shooting Star
CDLSHOOTINGSTAR_Plan ==
    Plan(Max({AvgPeriod("BodyShort"), AvgPeriod("ShadowLong"),
         AvgPeriod("ShadowVeryShort")}) + 1, 1,
         [body |-> Behind("BodyShort", 0), shadowLong |-> Behind("ShadowLong", 0),
          shadowVeryShort |-> Behind("ShadowVeryShort", 0)])
CDLSHOOTINGSTAR(i, T) ==
    IF /\ RealBody(i) < Average("BodyShort", T.body, i)
       /\ UpperShadow(i) > Average("ShadowLong", T.shadowLong, i)
       /\ LowerShadow(i) < Average("ShadowVeryShort", T.shadowVeryShort, i)
       /\ RealBodyGapUp(i, i-1)
    THEN -100 ELSE 0

\* Thrusting Pattern
CDLTHRUSTING_Plan ==
    Plan(Max({AvgPeriod("Equal"), AvgPeriod("BodyLong")}) + 1, 1,
         [equal |-> Shifted("Equal", 1), bodyLong |-> Shifted("BodyLong", 1)])
CDLTHRUSTING(i, T) ==
    IF /\ Black(i-1) /\ RealBody(i-1) > Average("BodyLong", T.bodyLong, i-1)
       /\ White(i) /\ Open(i) < Low(i-1)
       /\ Close(i) > Close(i-1) + Average("Equal", T.equal, i-1)
       /\ Close(i) =< Close(i-1) + Half(RealBody(i-1))
    THEN -100 ELSE 0
=============================================================================
