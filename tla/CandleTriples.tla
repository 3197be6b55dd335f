------------------------------ MODULE CandleTriples ------------------------------
(***************************************************************************)
(* The patterns of three candles, bars i-2 to i. A definition CDLx gives   *)
(* outInteger for bar i from the running totals T, CDLx_Plan what the      *)
(* function sets up before its loop.                                       *)
(***************************************************************************)
EXTENDS CandlePairs

\* Two Crows
CDL2CROWS_Plan == Plan(AvgPeriod("BodyLong") + 2, 2, [bodyLong |-> Behind("BodyLong", 2)])
CDL2CROWS(i, T) ==
    IF /\ White(i-2) /\ RealBody(i-2) > Average("BodyLong", T.bodyLong, i-2)
       /\ Black(i-1) /\ RealBodyGapUp(i-1, i-2)
       /\ Black(i) /\ Open(i) < Open(i-1) /\ Open(i) > Close(i-1) /\ Close(i) > Open(i-2)
       /\ Close(i) < Close(i-2)
    THEN -100 ELSE 0

\* Three Inside Up/Down
CDL3INSIDE_Plan ==
    Plan(Max({AvgPeriod("BodyShort"), AvgPeriod("BodyLong")}) + 2, 2,
         [bodyLong |-> Behind("BodyLong", 2), bodyShort |-> Behind("BodyShort", 1)])
InsideSign(i, T) ==
    IF /\ RealBody(i-2) > Average("BodyLong", T.bodyLong, i-2)
       /\ RealBody(i-1) =< Average("BodyShort", T.bodyShort, i-1) /\ BodyTop(i-1) < BodyTop(i-2)
       /\ BodyBottom(i-1) > BodyBottom(i-2)
       /\ \/ White(i-2) /\ Black(i) /\ Close(i) < Open(i-2)
          \/ Black(i-2) /\ White(i) /\ Close(i) > Open(i-2)
    THEN Color(i-2) * 100 ELSE 0
CDL3INSIDE(i, T) ==
    IF /\ RealBody(i-2) > Average("BodyLong", T.bodyLong, i-2)
       /\ RealBody(i-1) =< Average("BodyShort", T.bodyShort, i-1) /\ BodyTop(i-1) < BodyTop(i-2)
       /\ BodyBottom(i-1) > BodyBottom(i-2)
       /\ \/ /\ White(i-2)
             /\ Black(i) /\ Close(i) < Open(i-2)
          \/ /\ Black(i-2)
             /\ White(i) /\ Close(i) > Open(i-2)
    THEN -Color(i-2) * 100 ELSE 0

\* Three Outside Up/Down
CDL3OUTSIDE_Plan == Plan(3, 2, <<>>)
OutsideBullish(i, T) ==
    IF \/ /\ White(i-1) /\ Black(i-2)
          /\ Close(i-1) > Open(i-2) /\ Open(i-1) < Close(i-2)
          /\ Close(i) > Close(i-1)
       \/ /\ Black(i-1) /\ White(i-2)
          /\ Open(i-1) > Close(i-2) /\ Close(i-1) < Open(i-2)
          /\ Close(i) > Close(i-1)
    THEN Color(i-1) * 100 ELSE 0
CDL3OUTSIDE(i, T) ==
    IF \/ /\ White(i-1)
          /\ Black(i-2)
          /\ Close(i-1) > Open(i-2) /\ Open(i-1) < Close(i-2)
          /\ Close(i) > Close(i-1)
       \/ /\ Black(i-1)
          /\ White(i-2)
          /\ Open(i-1) > Close(i-2) /\ Close(i-1) < Open(i-2)
          /\ Close(i) < Close(i-1)
    THEN Color(i-1) * 100 ELSE 0

\* Three Stars In The South
CDL3STARSINSOUTH_Plan ==
    Plan(Max({AvgPeriod("ShadowVeryShort"), AvgPeriod("ShadowLong"), AvgPeriod("BodyLong"),
         AvgPeriod("BodyShort")}) + 2, 2,
         [bodyLong |-> Shifted("BodyLong", 2), shadowLong |-> Shifted("ShadowLong", 2),
          shadowVeryShort1 |-> Shifted("ShadowVeryShort", 1),
          shadowVeryShort0 |-> Behind("ShadowVeryShort", 0),
          bodyShort |-> Behind("BodyShort", 0)])
CDL3STARSINSOUTH(i, T) ==
    IF /\ Black(i-2)
       /\ Black(i-1)
       /\ Black(i)
       /\ RealBody(i-2) > Average("BodyLong", T.bodyLong, i-2)
       /\ LowerShadow(i-2) > Average("ShadowLong", T.shadowLong, i-2)
       /\ RealBody(i-1) < RealBody(i-2) /\ Open(i-1) > Close(i-2) /\ Open(i-1) =< High(i-2)
       /\ Low(i-1) < Close(i-2) /\ Low(i-1) >= Low(i-2)
       /\ LowerShadow(i-1) > Average("ShadowVeryShort", T.shadowVeryShort1, i-1)
       /\ RealBody(i) < Average("BodyShort", T.bodyShort, i)
       /\ LowerShadow(i) < Average("ShadowVeryShort", T.shadowVeryShort0, i)
       /\ UpperShadow(i) < Average("ShadowVeryShort", T.shadowVeryShort0, i)
       /\ Low(i) > Low(i-1) /\ High(i) < High(i-1)
    THEN 100 ELSE 0

\* Three Advancing White Soldiers
CDL3WHITESOLDIERS_Plan ==
    Plan(Max({AvgPeriod("ShadowVeryShort"), AvgPeriod("BodyShort"), AvgPeriod("Far"),
         AvgPeriod("Near")}) + 2, 2,
         [shadowVeryShort2 |-> Shifted("ShadowVeryShort", 2),
          shadowVeryShort1 |-> Shifted("ShadowVeryShort", 1),
          shadowVeryShort0 |-> Behind("ShadowVeryShort", 0), near2 |-> Shifted("Near", 2),
          near1 |-> Shifted("Near", 1), far2 |-> Shifted("Far", 2), far1 |-> Shifted("Far", 1),
          bodyShort |-> Behind("BodyShort", 0)])
CDL3WHITESOLDIERS(i, T) ==
    IF /\ White(i-2) /\ UpperShadow(i-2) < Average("ShadowVeryShort", T.shadowVeryShort2, i-2)
       /\ White(i-1) /\ UpperShadow(i-1) < Average("ShadowVeryShort", T.shadowVeryShort1, i-1)
       /\ White(i) /\ UpperShadow(i) < Average("ShadowVeryShort", T.shadowVeryShort0, i)
       /\ Close(i) > Close(i-1)
       /\ Close(i-1) > Close(i-2) /\ Open(i-1) > Open(i-2)
       /\ Open(i-1) =< Close(i-2) + Average("Near", T.near2, i-2)
       /\ Open(i) > Open(i-1) /\ Open(i) =< Close(i-1) + Average("Near", T.near1, i-1)
       /\ RealBody(i-1) > RealBody(i-2) - Average("Far", T.far2, i-2)
       /\ RealBody(i) > RealBody(i-1) - Average("Far", T.far1, i-1)
       /\ RealBody(i) > Average("BodyShort", T.bodyShort, i)
    THEN 100 ELSE 0

\* Abandoned Baby
CDLABANDONEDBABY_Plan ==
    Plan(Max({AvgPeriod("BodyDoji"), AvgPeriod("BodyLong"), AvgPeriod("BodyShort")}) + 2, 2,
         [bodyLong |-> Behind("BodyLong", 2), bodyDoji |-> Behind("BodyDoji", 1),
          bodyShort |-> Behind("BodyShort", 0)])
CDLABANDONEDBABY(i, T) ==
    IF /\ RealBody(i-2) > Average("BodyLong", T.bodyLong, i-2)
       /\ RealBody(i-1) =< Average("BodyDoji", T.bodyDoji, i-1)
       /\ RealBody(i) > Average("BodyShort", T.bodyShort, i)
       /\ \/ /\ White(i-2)
             /\ Black(i) /\ Close(i) < Close(i-2) - Penetration(RealBody(i-2))
             /\ CandleGapUp(i-1, i-2)
             /\ CandleGapDown(i, i-1)
          \/ /\ Black(i-2)
             /\ White(i) /\ Close(i) > Close(i-2) + Penetration(RealBody(i-2))
             /\ CandleGapDown(i-1, i-2)
             /\ CandleGapUp(i, i-1)
    THEN Color(i) * 100 ELSE 0

\* Advance Block
CDLADVANCEBLOCK_Plan ==
    Plan(Max({AvgPeriod("ShadowLong"), AvgPeriod("ShadowShort"), AvgPeriod("Far"),
         AvgPeriod("Near"), AvgPeriod("BodyLong")}) + 2, 2,
         [shadowShort2 |-> Shifted("ShadowShort", 2), shadowShort1 |-> Shifted("ShadowShort", 1),
          shadowShort0 |-> Behind("ShadowShort", 0), shadowLong1 |-> Shifted("ShadowLong", 1),
          shadowLong0 |-> Behind("ShadowLong", 0), near2 |-> Shifted("Near", 2),
          near1 |-> Shifted("Near", 1), far2 |-> Shifted("Far", 2), far1 |-> Shifted("Far", 1),
          bodyLong |-> Shifted("BodyLong", 2)])
CDLADVANCEBLOCK(i, T) ==
    IF /\ White(i-2)
       /\ White(i-1)
       /\ White(i) /\ Close(i) > Close(i-1)
       /\ Close(i-1) > Close(i-2) /\ Open(i-1) > Open(i-2)
       /\ Open(i-1) =< Close(i-2) + Average("Near", T.near2, i-2)
       /\ Open(i) > Open(i-1) /\ Open(i) =< Close(i-1) + Average("Near", T.near1, i-1)
       /\ RealBody(i-2) > Average("BodyLong", T.bodyLong, i-2)
       /\ UpperShadow(i-2) < Average("ShadowShort", T.shadowShort2, i-2)
       /\ \/ /\ RealBody(i-1) < RealBody(i-2) - Average("Far", T.far2, i-2)
             /\ RealBody(i) < RealBody(i-1) + Average("Near", T.near1, i-1)
          \/ RealBody(i) < RealBody(i-1) - Average("Far", T.far1, i-1)
          \/ /\ RealBody(i) < RealBody(i-1)
             /\ RealBody(i-1) < RealBody(i-2)
             /\ \/ UpperShadow(i) > Average("ShadowShort", T.shadowShort0, i)
                \/ UpperShadow(i-1) > Average("ShadowShort", T.shadowShort1, i-1)
          \/ /\ RealBody(i) < RealBody(i-1)
             /\ UpperShadow(i) > Average("ShadowLong", T.shadowLong0, i)
    THEN -100 ELSE 0

\* Evening Doji Star
CDLEVENINGDOJISTAR_Plan ==
    Plan(Max({AvgPeriod("BodyDoji"), AvgPeriod("BodyLong"), AvgPeriod("BodyShort")}) + 2, 2,
         [bodyLong |-> Behind("BodyLong", 2), bodyDoji |-> Behind("BodyDoji", 1),
          bodyShort |-> Behind("BodyShort", 0)])
CDLEVENINGDOJISTAR(i, T) ==
    IF /\ RealBody(i-2) > Average("BodyLong", T.bodyLong, i-2) /\ White(i-2)
       /\ RealBody(i-1) =< Average("BodyDoji", T.bodyDoji, i-1) /\ RealBodyGapUp(i-1, i-2)
       /\ RealBody(i) > Average("BodyShort", T.bodyShort, i) /\ Black(i)
       /\ Close(i) < Close(i-2) - Penetration(RealBody(i-2))
    THEN -100 ELSE 0

\* Evening Star
CDLEVENINGSTAR_Plan ==
    Plan(Max({AvgPeriod("BodyShort"), AvgPeriod("BodyLong")}) + 2, 2,
         [bodyLong |-> Behind("BodyLong", 2), bodyShort |-> Behind("BodyShort", 1),
          bodyShort2 |-> Total("BodyShort", 1, 1, -1, 0, -1)])
CDLEVENINGSTAR(i, T) ==
    IF /\ RealBody(i-2) > Average("BodyLong", T.bodyLong, i-2) /\ White(i-2)
       /\ RealBody(i-1) =< Average("BodyShort", T.bodyShort, i-1) /\ RealBodyGapUp(i-1, i-2)
       /\ RealBody(i) > Average("BodyShort", T.bodyShort2, i) /\ Black(i)
       /\ Close(i) < Close(i-2) - Penetration(RealBody(i-2))
    THEN -100 ELSE 0

\* Up/Down-gap side-by-side white lines
CDLGAPSIDESIDEWHITE_Plan ==
    Plan(Max({AvgPeriod("Near"), AvgPeriod("Equal")}) + 2, 2,
         [near |-> Shifted("Near", 1), equal |-> Shifted("Equal", 1)])
CDLGAPSIDESIDEWHITE(i, T) ==
    IF /\ \/ /\ RealBodyGapUp(i-1, i-2)
             /\ RealBodyGapUp(i, i-2)
          \/ /\ RealBodyGapDown(i-1, i-2)
             /\ RealBodyGapDown(i, i-2)
       /\ White(i-1)
       /\ White(i) /\ RealBody(i) >= RealBody(i-1) - Average("Near", T.near, i-1)
       /\ RealBody(i) =< RealBody(i-1) + Average("Near", T.near, i-1)
       /\ Open(i) >= Open(i-1) - Average("Equal", T.equal, i-1)
       /\ Open(i) =< Open(i-1) + Average("Equal", T.equal, i-1)
    THEN (IF RealBodyGapUp(i-1, i-2) THEN 100 ELSE -100) ELSE 0

\* Identical Three Crows
CDLIDENTICAL3CROWS_Plan ==
    Plan(Max({AvgPeriod("ShadowVeryShort"), AvgPeriod("Equal")}) + 2, 2,
         [shadowVeryShort2 |-> Shifted("ShadowVeryShort", 2),
          shadowVeryShort1 |-> Shifted("ShadowVeryShort", 1),
          shadowVeryShort0 |-> Behind("ShadowVeryShort", 0), equal2 |-> Shifted("Equal", 2),
          equal1 |-> Shifted("Equal", 1)])
CDLIDENTICAL3CROWS(i, T) ==
    IF /\ Black(i-2) /\ LowerShadow(i-2) < Average("ShadowVeryShort", T.shadowVeryShort2, i-2)
       /\ Black(i-1) /\ LowerShadow(i-1) < Average("ShadowVeryShort", T.shadowVeryShort1, i-1)
       /\ Black(i) /\ LowerShadow(i) < Average("ShadowVeryShort", T.shadowVeryShort0, i)
       /\ Close(i-2) > Close(i-1)
       /\ Close(i-1) > Close(i) /\ Open(i-1) =< Close(i-2) + Average("Equal", T.equal2, i-2)
       /\ Open(i-1) >= Close(i-2) - Average("Equal", T.equal2, i-2)
       /\ Open(i) =< Close(i-1) + Average("Equal", T.equal1, i-1)
       /\ Open(i) >= Close(i-1) - Average("Equal", T.equal1, i-1)
    THEN -100 ELSE 0

\* Morning Doji Star
CDLMORNINGDOJISTAR_Plan ==
    Plan(Max({AvgPeriod("BodyDoji"), AvgPeriod("BodyLong"), AvgPeriod("BodyShort")}) + 2, 2,
         [bodyLong |-> Behind("BodyLong", 2), bodyDoji |-> Behind("BodyDoji", 1),
          bodyShort |-> Behind("BodyShort", 0)])
CDLMORNINGDOJISTAR(i, T) ==
    IF /\ RealBody(i-2) > Average("BodyLong", T.bodyLong, i-2) /\ Black(i-2)
       /\ RealBody(i-1) =< Average("BodyDoji", T.bodyDoji, i-1) /\ RealBodyGapDown(i-1, i-2)
       /\ RealBody(i) > Average("BodyShort", T.bodyShort, i) /\ White(i)
       /\ Close(i) > Close(i-2) + Penetration(RealBody(i-2))
    THEN 100 ELSE 0

\* Morning Star
CDLMORNINGSTAR_Plan ==
    Plan(Max({AvgPeriod("BodyShort"), AvgPeriod("BodyLong")}) + 2, 2,
         [bodyLong |-> Behind("BodyLong", 2), bodyShort |-> Behind("BodyShort", 1),
          bodyShort2 |-> Total("BodyShort", 1, 1, -1, 0, -1)])
CDLMORNINGSTAR(i, T) ==
    IF /\ RealBody(i-2) > Average("BodyLong", T.bodyLong, i-2) /\ Black(i-2)
       /\ RealBody(i-1) =< Average("BodyShort", T.bodyShort, i-1) /\ RealBodyGapDown(i-1, i-2)
       /\ RealBody(i) > Average("BodyShort", T.bodyShort2, i) /\ White(i)
       /\ Close(i) > Close(i-2) + Penetration(RealBody(i-2))
    THEN 100 ELSE 0

\* Stalled Pattern
CDLSTALLEDPATTERN_Plan ==
    Plan(Max({AvgPeriod("BodyLong"), AvgPeriod("BodyShort"), AvgPeriod("ShadowVeryShort"),
         AvgPeriod("Near")}) + 2, 2,
         [bodyLong2 |-> Shifted("BodyLong", 2), bodyLong1 |-> Shifted("BodyLong", 1),
          bodyShort |-> Behind("BodyShort", 0), shadowVeryShort |-> Shifted("ShadowVeryShort", 1),
          near2 |-> Shifted("Near", 2), near1 |-> Shifted("Near", 1)])
CDLSTALLEDPATTERN(i, T) ==
    IF /\ White(i-2)
       /\ White(i-1)
       /\ White(i) /\ Close(i) > Close(i-1)
       /\ Close(i-1) > Close(i-2)
       /\ RealBody(i-2) > Average("BodyLong", T.bodyLong2, i-2)
       /\ RealBody(i-1) > Average("BodyLong", T.bodyLong1, i-1)
       /\ UpperShadow(i-1) < Average("ShadowVeryShort", T.shadowVeryShort, i-1)
       /\ Open(i-1) > Open(i-2) /\ Open(i-1) =< Close(i-2) + Average("Near", T.near2, i-2)
       /\ RealBody(i) < Average("BodyShort", T.bodyShort, i)
       /\ Open(i) >= Close(i-1) - RealBody(i) - Average("Near", T.near1, i-1)
    THEN -100 ELSE 0

\* Stick Sandwich
CDLSTICKSANDWICH_Plan == Plan(AvgPeriod("Equal") + 2, 2, [equal |-> Shifted("Equal", 2)])
CDLSTICKSANDWICH(i, T) ==
    IF /\ Black(i-2)
       /\ White(i-1)
       /\ Black(i)
       /\ Low(i-1) > Close(i-2)
       /\ Close(i) =< Close(i-2) + Average("Equal", T.equal, i-2)
       /\ Close(i) >= Close(i-2) - Average("Equal", T.equal, i-2)
    THEN 100 ELSE 0

\* Tasuki Gap
CDLTASUKIGAP_Plan == Plan(AvgPeriod("Near") + 2, 2, [near |-> Shifted("Near", 1)])
CDLTASUKIGAP(i, T) ==
    IF \/ /\ RealBodyGapUp(i-1, i-2) /\ White(i-1)
          /\ Black(i) /\ Open(i) < Close(i-1) /\ Open(i) > Open(i-1) /\ Close(i) < Open(i-1)
          /\ Close(i) > BodyTop(i-2)
          /\ Abs(RealBody(i-1) - RealBody(i)) < Average("Near", T.near, i-1)
       \/ /\ RealBodyGapDown(i-1, i-2) /\ Black(i-1)
          /\ White(i) /\ Open(i) < Open(i-1) /\ Open(i) > Close(i-1) /\ Close(i) > Open(i-1)
          /\ Close(i) < BodyBottom(i-2)
          /\ Abs(RealBody(i-1) - RealBody(i)) < Average("Near", T.near, i-1)
    THEN Color(i-1) * 100 ELSE 0

\* Tristar Pattern
CDLTRISTAR_Plan == Plan(AvgPeriod("BodyDoji") + 2, 2, [body |-> Behind("BodyDoji", 2)])
CDLTRISTAR(i, T) ==
    LET IsDoji(j) == RealBody(j) =< Average("BodyDoji", T.body, i-2)
    IN IF ~(IsDoji(i-2) /\ IsDoji(i-1) /\ IsDoji(i)) THEN 0
       ELSE IF RealBodyGapDown(i-1, i-2) /\ BodyBottom(i) > BodyBottom(i-1) THEN 100
       ELSE IF RealBodyGapUp(i-1, i-2) /\ BodyTop(i) < BodyTop(i-1) THEN -100
       ELSE 0

\* Unique 3 River
CDLUNIQUE3RIVER_Plan ==
    Plan(Max({AvgPeriod("BodyShort"), AvgPeriod("BodyLong")}) + 2, 2,
         [bodyLong |-> Behind("BodyLong", 2), bodyShort |-> Behind("BodyShort", 0)])
CDLUNIQUE3RIVER(i, T) ==
    IF /\ RealBody(i-2) > Average("BodyLong", T.bodyLong, i-2) /\ Black(i-2)
       /\ Black(i-1) /\ Close(i-1) > Close(i-2) /\ Open(i-1) =< Open(i-2) /\ Low(i-1) < Low(i-2)
       /\ RealBody(i) < Average("BodyShort", T.bodyShort, i) /\ White(i) /\ Open(i) > Low(i-1)
    THEN 100 ELSE 0

\* Upside Gap Two Crows
CDLUPSIDEGAP2CROWS_Plan ==
    Plan(Max({AvgPeriod("BodyShort"), AvgPeriod("BodyLong")}) + 2, 2,
         [bodyLong |-> Behind("BodyLong", 2), bodyShort |-> Behind("BodyShort", 1)])
CDLUPSIDEGAP2CROWS(i, T) ==
    IF /\ White(i-2) /\ RealBody(i-2) > Average("BodyLong", T.bodyLong, i-2)
       /\ Black(i-1) /\ RealBody(i-1) =< Average("BodyShort", T.bodyShort, i-1)
       /\ RealBodyGapUp(i-1, i-2)
       /\ Black(i) /\ Open(i) > Open(i-1) /\ Close(i) < Close(i-1) /\ Close(i) > Close(i-2)
    THEN -100 ELSE 0

\* Upside/Downside Gap Three Methods
CDLXSIDEGAP3METHODS_Plan == Plan(2, 2, <<>>)
CDLXSIDEGAP3METHODS(i, T) ==
    IF /\ Color(i-2) = Color(i-1)
       /\ Color(i-1) = -Color(i)
       /\ Open(i) < BodyTop(i-1) /\ Open(i) > BodyBottom(i-1) /\ Close(i) < BodyTop(i-2)
       /\ Close(i) > BodyBottom(i-2)
       /\ \/ /\ White(i-2)
             /\ RealBodyGapUp(i-1, i-2)
          \/ /\ Black(i-2)
             /\ RealBodyGapDown(i-1, i-2)
    THEN Color(i-2) * 100 ELSE 0
=============================================================================
