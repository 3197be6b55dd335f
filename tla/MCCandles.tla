------------------------------- MODULE MCCandles -------------------------------
(***************************************************************************)
(* The candlestick functions on small instances.                           *)
(***************************************************************************)
EXTENDS CandleProperties, TLC

MCPeriods == {0, 1, 2, 5, 10}
MCFactors == {<<1, 1>>, <<1, 2>>, <<1, 4>>, <<2, 1>>, <<3, 1>>, <<1, 5>>, <<3, 5>>, <<1, 10>>, <<1, 20>>}
MCPenetrations == {<<1, 2>>}

Setting(type, period, num, den) ==
    [rangeType |-> type, avgPeriod |-> period, factor |-> <<num, den>>]

\* Settings with the shape of the defaults and averages over at most two bars.
ShortSettings ==
    [BodyLong |-> Setting("RealBody", 1, 1, 1),
     BodyVeryLong |-> Setting("RealBody", 1, 1, 1),
     BodyShort |-> Setting("RealBody", 2, 1, 1),
     BodyDoji |-> Setting("HighLow", 2, 1, 4),
     ShadowLong |-> Setting("RealBody", 0, 1, 1),
     ShadowVeryLong |-> Setting("RealBody", 0, 2, 1),
     ShadowShort |-> Setting("Shadows", 1, 1, 1),
     ShadowVeryShort |-> Setting("HighLow", 1, 1, 4),
     Near |-> Setting("HighLow", 1, 1, 2),
     Far |-> Setting("HighLow", 2, 1, 4),
     Equal |-> Setting("HighLow", 1, 1, 4)]

Bar(o, h, l, c) == [o |-> Unit * o, h |-> Unit * h, l |-> Unit * l, c |-> Unit * c]
Series(s) == [k \in 0 .. Len(s) - 1 |-> Bar(s[k+1][1], s[k+1][2], s[k+1][3], s[k+1][4])]

\* Series on which every function reports each of its results under ShortSettings.
Gallery == {Series(s) : s \in {
    <<<<3,5,3,5>>, <<5,10,5,10>>, <<7,10,7,10>>, <<12,15,11,11>>, <<6,13,4,10>>, <<12,12,4,4>>, <<7,7,2,5>>, <<8,8,4,5>>>>,
    <<<<10,10,5,6>>, <<11,12,11,12>>, <<11,14,5,6>>, <<4,4,3,3>>, <<5,12,5,12>>, <<8,8,7,8>>, <<13,13,9,9>>, <<6,7,5,7>>>>,
    <<<<7,10,7,10>>, <<12,13,12,13>>, <<14,16,10,10>>, <<9,10,9,9>>, <<10,10,10,10>>, <<10,10,10,10>>, <<12,12,8,8>>, <<7,9,4,8>>>>,
    <<<<7,7,7,7>>, <<7,10,7,10>>, <<12,18,12,16>>, <<18,18,14,17>>, <<16,16,15,15>>, <<15,18,14,15>>, <<16,20,16,20>>, <<18,25,15,22>>>>,
    <<<<8,14,8,12>>, <<10,12,8,8>>, <<10,10,8,8>>, <<9,9,8,8>>, <<7,13,7,11>>, <<13,17,13,15>>, <<14,16,14,16>>, <<14,14,8,10>>>>,
    <<<<7,7,6,7>>, <<8,10,8,10>>, <<9,9,9,9>>, <<7,7,6,7>>, <<8,12,8,10>>, <<11,14,11,14>>, <<15,15,15,15>>, <<13,13,11,11>>>>,
    <<<<5,8,4,8>>, <<3,11,3,8>>, <<9,12,3,5>>, <<8,8,4,7>>, <<5,5,5,5>>, <<8,8,7,7>>, <<9,9,7,7>>, <<6,9,0,3>>>>,
    <<<<11,14,11,14>>, <<15,18,13,13>>, <<11,14,11,14>>, <<14,18,14,18>>, <<18,20,18,20>>, <<18,24,18,21>>, <<21,21,18,19>>, <<21,24,21,24>>>>,
    <<<<8,12,8,12>>, <<14,15,13,15>>, <<17,17,15,15>>, <<15,18,11,14>>, <<15,18,9,12>>, <<14,18,12,18>>, <<17,17,16,16>>, <<17,17,14,14>>>>,
    <<<<10,10,3,3>>, <<10,13,10,10>>, <<8,11,7,11>>, <<6,6,4,4>>, <<7,9,5,9>>, <<8,11,8,11>>, <<7,7,3,3>>, <<8,13,8,12>>>>,
    <<<<6,6,3,3>>, <<7,7,3,6>>, <<7,8,7,8>>, <<5,5,3,3>>, <<7,10,7,10>>, <<10,10,5,5>>, <<10,10,7,7>>, <<4,12,3,9>>>>,
    <<<<8,9,5,9>>, <<10,10,8,8>>, <<8,14,7,11>>, <<9,12,6,12>>, <<13,17,13,17>>, <<18,20,14,14>>, <<13,16,8,9>>, <<8,8,7,7>>>>,
    <<<<7,7,4,7>>, <<7,11,4,11>>, <<10,11,10,11>>, <<11,14,11,13>>, <<15,22,15,19>>, <<20,20,16,16>>, <<18,18,18,18>>, <<17,17,14,16>>>>,
    <<<<8,10,1,3>>, <<4,5,4,5>>, <<8,10,5,8>>, <<6,6,1,3>>, <<4,7,4,7>>, <<4,11,4,9>>, <<5,5,3,3>>, <<4,5,4,5>>>>,
    <<<<3,9,3,9>>, <<5,7,5,7>>, <<10,11,10,11>>, <<7,8,4,5>>, <<3,6,2,6>>, <<11,11,9,9>>, <<14,14,8,8>>, <<6,8,6,8>>>>,
    <<<<5,9,5,9>>, <<11,11,2,4>>, <<10,10,4,5>>, <<5,6,5,6>>, <<3,4,3,4>>, <<3,5,3,5>>, <<9,9,8,8>>, <<6,9,6,8>>>>,
    <<<<9,9,3,3>>, <<4,7,4,7>>, <<6,11,6,11>>, <<7,7,3,6>>, <<6,8,6,8>>, <<7,10,7,10>>, <<8,11,8,11>>, <<12,12,3,3>>>>,
    <<<<7,8,7,7>>, <<7,7,7,7>>, <<8,8,8,8>>, <<7,9,7,7>>, <<7,7,7,7>>, <<7,7,7,7>>, <<7,9,7,7>>, <<7,10,7,7>>>>,
    <<<<7,11,7,8>>, <<10,14,10,14>>, <<15,17,15,17>>, <<17,20,14,14>>, <<12,14,12,14>>, <<12,16,12,16>>, <<15,15,12,14>>, <<12,12,5,8>>>>,
    <<<<7,8,5,8>>, <<3,7,3,5>>, <<10,11,5,5>>, <<4,4,0,3>>, <<9,10,9,10>>, <<7,11,7,11>>, <<6,10,6,7>>, <<4,11,1,9>>>>,
    <<<<9,9,5,5>>, <<5,11,5,9>>, <<8,8,3,3>>, <<5,7,5,7>>, <<8,9,7,9>>, <<5,5,5,5>>, <<7,7,3,3>>, <<3,6,3,6>>>>,
    <<<<8,8,5,5>>, <<5,8,5,8>>, <<6,7,4,7>>, <<4,7,4,4>>, <<3,3,3,3>>, <<5,5,5,5>>, <<3,3,0,3>>, <<3,5,3,5>>>>,
    <<<<9,9,7,7>>, <<10,10,7,7>>, <<3,7,3,7>>, <<6,10,4,8>>, <<3,10,3,10>>, <<5,11,3,11>>, <<9,14,9,11>>, <<7,12,7,12>>>>,
    <<<<8,12,8,12>>, <<11,14,9,9>>, <<10,12,10,11>>, <<13,17,13,16>>, <<15,15,12,12>>, <<11,12,9,12>>, <<13,13,13,13>>, <<11,11,8,8>>>>,
    <<<<6,10,5,10>>, <<3,12,1,11>>, <<12,12,5,6>>, <<5,9,5,6>>, <<9,9,6,9>>, <<10,11,10,11>>, <<12,12,9,9>>, <<5,11,4,11>>>>,
    <<<<8,8,8,8>>, <<8,12,8,11>>, <<3,5,3,5>>, <<8,13,8,10>>, <<9,9,4,4>>, <<11,11,11,11>>, <<12,12,10,10>>, <<9,12,8,8>>>>,
    <<<<9,13,8,13>>, <<15,20,14,18>>, <<17,21,15,21>>, <<23,23,21,21>>, <<20,23,16,16>>, <<15,15,12,12>>, <<13,20,13,17>>, <<17,20,17,20>>>>,
    <<<<7,8,7,8>>, <<10,13,7,7>>, <<7,10,7,9>>, <<10,13,7,11>>, <<12,15,9,15>>, <<13,13,10,10>>, <<11,12,11,12>>, <<14,17,12,17>>>>,
    <<<<6,6,1,4>>, <<5,7,3,7>>, <<9,13,9,13>>, <<8,11,8,11>>, <<13,13,7,7>>, <<10,10,6,9>>, <<11,11,11,11>>, <<11,13,7,10>>>>,
    <<<<8,10,8,10>>, <<11,14,11,14>>, <<13,13,10,10>>, <<12,14,12,14>>, <<12,16,12,16>>, <<14,14,12,12>>, <<13,13,10,10>>, <<11,14,8,8>>>>,
    <<<<7,8,7,8>>, <<8,9,8,8>>, <<7,7,5,5>>, <<8,8,5,5>>, <<4,7,3,3>>, <<8,8,1,4>>, <<6,7,6,7>>, <<7,7,5,5>>>>,
    <<<<3,8,3,8>>, <<5,11,5,11>>, <<5,12,5,12>>, <<9,12,9,12>>, <<3,11,0,11>>, <<14,17,12,12>>, <<13,13,7,7>>, <<6,6,3,6>>>>,
    <<<<4,11,2,9>>, <<9,9,8,8>>, <<12,12,6,6>>, <<9,10,2,5>>, <<3,12,3,11>>, <<3,4,3,4>>, <<9,11,9,11>>, <<5,8,5,8>>>>,
    <<<<3,11,3,11>>, <<12,13,4,4>>, <<8,14,8,11>>, <<11,11,3,5>>, <<3,4,3,4>>, <<7,7,7,7>>, <<9,9,9,9>>, <<7,7,3,3>>>>,
    <<<<9,11,6,11>>, <<13,17,13,17>>, <<17,17,11,14>>, <<12,12,10,10>>, <<10,10,5,8>>, <<8,10,7,7>>, <<9,11,9,11>>, <<13,19,13,16>>>>,
    <<<<7,7,7,7>>, <<7,11,7,11>>, <<13,14,13,14>>, <<16,16,15,15>>, <<16,17,16,17>>, <<16,18,12,12>>, <<14,14,11,11>>, <<9,10,7,7>>>>,
    <<<<7,10,7,10>>, <<10,10,7,7>>, <<7,8,7,8>>, <<9,13,9,13>>, <<12,12,11,11>>, <<12,12,10,10>>, <<10,10,9,9>>, <<11,14,11,14>>>>,
    <<<<7,11,7,9>>, <<10,14,10,14>>, <<15,15,15,15>>, <<17,17,12,15>>, <<17,20,13,16>>, <<15,15,14,14>>, <<12,12,12,12>>, <<12,13,9,13>>>>,
    <<<<8,14,8,14>>, <<3,7,3,4>>, <<3,6,3,6>>, <<14,14,9,9>>, <<6,7,5,5>>, <<4,6,4,6>>, <<4,4,3,3>>, <<5,8,5,8>>>>}}

\* One series after the other: bars enough for the averages of the default settings.
Joined(b, c) == [k \in 0 .. 15 |-> IF k < 8 THEN b[k] ELSE c[k - 8]]
LongSeries == {Joined(b, b) : b \in {b \in Gallery : b[0].c = 12 * Unit}}

AllSeries == Gallery \cup LongSeries
StartShort == {ShortSettings}
OneChange  == {<<"Near", Setting("HighLow", 0, 1, 2)>>}
AllTypes   == {CandleSettingTypes}

AnyRange  == {<<s, 7>> : s \in 0 .. 7} \cup
             {<<0, 5>>, <<-1, 5>>, <<3, 2>>, <<2, -1>>, <<0, 15>>, <<12, 15>>}
=============================================================================
