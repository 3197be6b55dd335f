------------------------------ MODULE CandleSingles ------------------------------
(***************************************************************************)
(* The patterns of one candle: each is found in bar i alone, against       *)
(* averages of the bars before it. A definition CDLx gives outInteger for  *)
(* bar i from the running totals T, CDLx_Plan what the function sets up    *)
(* before its loop.                                                        *)
(***************************************************************************)
EXTENDS Candles

\* Belt-hold
CDLBELTHOLD_Plan ==
    Plan(Max({AvgPeriod("BodyLong"), AvgPeriod("ShadowVeryShort")}), 0,
         [bodyLong |-> Behind("BodyLong", 0), shadowVeryShort |-> Behind("ShadowVeryShort", 0)])
CDLBELTHOLD(i, T) ==
    IF /\ RealBody(i) > Average("BodyLong", T.bodyLong, i)
       /\ \/ /\ White(i) /\ LowerShadow(i) < Average("ShadowVeryShort", T.shadowVeryShort, i)
          \/ /\ Black(i) /\ UpperShadow(i) < Average("ShadowVeryShort", T.shadowVeryShort, i)
    THEN Color(i) * 100 ELSE 0

\* Closing Marubozu
CDLCLOSINGMARUBOZU_Plan ==
    Plan(Max({AvgPeriod("BodyLong"), AvgPeriod("ShadowVeryShort")}), 0,
         [bodyLong |-> Behind("BodyLong", 0), shadowVeryShort |-> Behind("ShadowVeryShort", 0)])
CDLCLOSINGMARUBOZU(i, T) ==
    IF /\ RealBody(i) > Average("BodyLong", T.bodyLong, i)
       /\ \/ /\ White(i) /\ UpperShadow(i) < Average("ShadowVeryShort", T.shadowVeryShort, i)
          \/ /\ Black(i) /\ LowerShadow(i) < Average("ShadowVeryShort", T.shadowVeryShort, i)
    THEN Color(i) * 100 ELSE 0

\* Doji
CDLDOJI_Plan == Plan(AvgPeriod("BodyDoji"), 0, [bodyDoji |-> Behind("BodyDoji", 0)])
CDLDOJI(i, T) ==
    IF RealBody(i) =< Average("BodyDoji", T.bodyDoji, i)
    THEN 100 ELSE 0

\* Dragonfly Doji
CDLDRAGONFLYDOJI_Plan ==
    Plan(Max({AvgPeriod("BodyDoji"), AvgPeriod("ShadowVeryShort")}), 0,
         [bodyDoji |-> Behind("BodyDoji", 0), shadowVeryShort |-> Behind("ShadowVeryShort", 0)])
CDLDRAGONFLYDOJI(i, T) ==
    IF /\ RealBody(i) =< Average("BodyDoji", T.bodyDoji, i)
       /\ UpperShadow(i) < Average("ShadowVeryShort", T.shadowVeryShort, i)
       /\ LowerShadow(i) > Average("ShadowVeryShort", T.shadowVeryShort, i)
    THEN 100 ELSE 0

\* Gravestone Doji
CDLGRAVESTONEDOJI_Plan ==
    Plan(Max({AvgPeriod("BodyDoji"), AvgPeriod("ShadowVeryShort")}), 0,
         [bodyDoji |-> Behind("BodyDoji", 0), shadowVeryShort |-> Behind("ShadowVeryShort", 0)])
CDLGRAVESTONEDOJI(i, T) ==
    IF /\ RealBody(i) =< Average("BodyDoji", T.bodyDoji, i)
       /\ LowerShadow(i) < Average("ShadowVeryShort", T.shadowVeryShort, i)
       /\ UpperShadow(i) > Average("ShadowVeryShort", T.shadowVeryShort, i)
    THEN 100 ELSE 0

\* High-Wave Candle
CDLHIGHWAVE_Plan ==
    Plan(Max({AvgPeriod("BodyShort"), AvgPeriod("ShadowVeryLong")}), 0,
         [body |-> Behind("BodyShort", 0), shadow |-> Behind("ShadowVeryLong", 0)])
CDLHIGHWAVE(i, T) ==
    IF /\ RealBody(i) < Average("BodyShort", T.body, i)
       /\ UpperShadow(i) > Average("ShadowVeryLong", T.shadow, i)
       /\ LowerShadow(i) > Average("ShadowVeryLong", T.shadow, i)
    THEN Color(i) * 100 ELSE 0

\* Long Legged Doji
CDLLONGLEGGEDDOJI_Plan ==
    Plan(Max({AvgPeriod("BodyDoji"), AvgPeriod("ShadowLong")}), 0,
         [bodyDoji |-> Behind("BodyDoji", 0), shadowLong |-> Behind("ShadowLong", 0)])
CDLLONGLEGGEDDOJI(i, T) ==
    IF /\ RealBody(i) =< Average("BodyDoji", T.bodyDoji, i)
       /\ \/ LowerShadow(i) > Average("ShadowLong", T.shadowLong, i)
          \/ UpperShadow(i) > Average("ShadowLong", T.shadowLong, i)
    THEN 100 ELSE 0

\* Long Line Candle
CDLLONGLINE_Plan ==
    Plan(Max({AvgPeriod("BodyLong"), AvgPeriod("ShadowShort")}), 0,
         [body |-> Behind("BodyLong", 0), shadow |-> Behind("ShadowShort", 0)])
CDLLONGLINE(i, T) ==
    IF /\ RealBody(i) > Average("BodyLong", T.body, i)
       /\ UpperShadow(i) < Average("ShadowShort", T.shadow, i)
       /\ LowerShadow(i) < Average("ShadowShort", T.shadow, i)
    THEN Color(i) * 100 ELSE 0

\* Marubozu
CDLMARUBOZU_Plan ==
    Plan(Max({AvgPeriod("BodyLong"), AvgPeriod("ShadowVeryShort")}), 0,
         [bodyLong |-> Behind("BodyLong", 0), shadowVeryShort |-> Behind("ShadowVeryShort", 0)])
CDLMARUBOZU(i, T) ==
    IF /\ RealBody(i) > Average("BodyLong", T.bodyLong, i)
       /\ UpperShadow(i) < Average("ShadowVeryShort", T.shadowVeryShort, i)
       /\ LowerShadow(i) < Average("ShadowVeryShort", T.shadowVeryShort, i)
    THEN Color(i) * 100 ELSE 0

\* Rickshaw Man
CDLRICKSHAWMAN_Plan ==
    Plan(Max({AvgPeriod("BodyDoji"), AvgPeriod("ShadowLong"), AvgPeriod("Near")}), 0,
         [bodyDoji |-> Behind("BodyDoji", 0), shadowLong |-> Behind("ShadowLong", 0),
          near |-> Behind("Near", 0)])
CDLRICKSHAWMAN(i, T) ==
    IF /\ RealBody(i) =< Average("BodyDoji", T.bodyDoji, i)
       /\ LowerShadow(i) > Average("ShadowLong", T.shadowLong, i)
       /\ UpperShadow(i) > Average("ShadowLong", T.shadowLong, i)
       /\ BodyBottom(i) =< Low(i) + Half(HighLowRange(i)) + Average("Near", T.near, i)
       /\ BodyTop(i) >= Low(i) + Half(HighLowRange(i)) - Average("Near", T.near, i)
    THEN 100 ELSE 0

\* Short Line Candle
CDLSHORTLINE_Plan ==
    Plan(Max({AvgPeriod("BodyShort"), AvgPeriod("ShadowShort")}), 0,
         [body |-> Behind("BodyShort", 0), shadow |-> Behind("ShadowShort", 0)])
CDLSHORTLINE(i, T) ==
    IF /\ RealBody(i) < Average("BodyShort", T.body, i)
       /\ UpperShadow(i) < Average("ShadowShort", T.shadow, i)
       /\ LowerShadow(i) < Average("ShadowShort", T.shadow, i)
    THEN Color(i) * 100 ELSE 0

\* Spinning Top
CDLSPINNINGTOP_Plan == Plan(AvgPeriod("BodyShort"), 0, [body |-> Behind("BodyShort", 0)])
CDLSPINNINGTOP(i, T) ==
    IF /\ RealBody(i) < Average("BodyShort", T.body, i) /\ UpperShadow(i) > RealBody(i)
       /\ LowerShadow(i) > RealBody(i)
    THEN Color(i) * 100 ELSE 0

\* Takuri (Dragonfly Doji with very long lower shadow)
CDLTAKURI_Plan ==
    Plan(Max({AvgPeriod("BodyDoji"), AvgPeriod("ShadowVeryShort"), AvgPeriod("ShadowVeryLong")}),
         0,
         [bodyDoji |-> Behind("BodyDoji", 0), shadowVeryShort |-> Behind("ShadowVeryShort", 0),
          shadowVeryLong |-> Behind("ShadowVeryLong", 0)])
CDLTAKURI(i, T) ==
    IF /\ RealBody(i) =< Average("BodyDoji", T.bodyDoji, i)
       /\ UpperShadow(i) < Average("ShadowVeryShort", T.shadowVeryShort, i)
       /\ LowerShadow(i) > Average("ShadowVeryLong", T.shadowVeryLong, i)
    THEN 100 ELSE 0
=============================================================================
