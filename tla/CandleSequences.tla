------------------------------ MODULE CandleSequences ------------------------------
(***************************************************************************)
(* The patterns of four and five candles, and the two that remember a      *)
(* pattern until it is confirmed. A definition CDLx gives outInteger for   *)
(* bar i from the running totals T, CDLx_Plan what the function sets up    *)
(* before its loop.                                                        *)
(***************************************************************************)
EXTENDS CandleTriples

\* Three Black Crows
CDL3BLACKCROWS_Plan ==
    Plan(AvgPeriod("ShadowVeryShort") + 3, 3,
         [shadowVeryShort2 |-> Shifted("ShadowVeryShort", 2),
          shadowVeryShort1 |-> Shifted("ShadowVeryShort", 1),
          shadowVeryShort0 |-> Behind("ShadowVeryShort", 0)])
CDL3BLACKCROWS(i, T) ==
    IF /\ White(i-3)
       /\ Black(i-2) /\ LowerShadow(i-2) < Average("ShadowVeryShort", T.shadowVeryShort2, i-2)
       /\ Black(i-1) /\ LowerShadow(i-1) < Average("ShadowVeryShort", T.shadowVeryShort1, i-1)
       /\ Black(i) /\ LowerShadow(i) < Average("ShadowVeryShort", T.shadowVeryShort0, i)
       /\ Open(i-1) < Open(i-2) /\ Open(i-1) > Close(i-2)
       /\ Open(i) < Open(i-1) /\ Open(i) > Close(i-1)
       /\ High(i-3) > Close(i-2)
       /\ Close(i-2) > Close(i-1)
       /\ Close(i-1) > Close(i)
    THEN -100 ELSE 0

\* Three-Line Strike
CDL3LINESTRIKE_Plan ==
    Plan(AvgPeriod("Near") + 3, 3,
         [near3 |-> Shifted("Near", 3), near2 |-> Shifted("Near", 2)])
CDL3LINESTRIKE(i, T) ==
    IF /\ Color(i-3) = Color(i-2)
       /\ Color(i-2) = Color(i-1)
       /\ Color(i) = -Color(i-1)
       /\ Open(i-2) >= BodyBottom(i-3) - Average("Near", T.near3, i-3)
       /\ Open(i-2) =< BodyTop(i-3) + Average("Near", T.near3, i-3)
       /\ Open(i-1) >= BodyBottom(i-2) - Average("Near", T.near2, i-2)
       /\ Open(i-1) =< BodyTop(i-2) + Average("Near", T.near2, i-2)
       /\ \/ /\ White(i-1) /\ Close(i-1) > Close(i-2)
             /\ Close(i-2) > Close(i-3)
             /\ Open(i) > Close(i-1) /\ Close(i) < Open(i-3)
          \/ /\ Black(i-1) /\ Close(i-1) < Close(i-2)
             /\ Close(i-2) < Close(i-3)
             /\ Open(i) < Close(i-1) /\ Close(i) > Open(i-3)
    THEN Color(i-1) * 100 ELSE 0

\* Breakaway
CDLBREAKAWAY_Plan == Plan(AvgPeriod("BodyLong") + 4, 4, [bodyLong |-> Shifted("BodyLong", 4)])
CDLBREAKAWAY(i, T) ==
    IF /\ RealBody(i-4) > Average("BodyLong", T.bodyLong, i-4) /\ Color(i-4) = Color(i-3)
       /\ Color(i-3) = Color(i-1)
       /\ Color(i-1) = -Color(i)
       /\ \/ /\ Black(i-4)
             /\ RealBodyGapDown(i-3, i-4)
             /\ High(i-2) < High(i-3) /\ Low(i-2) < Low(i-3)
             /\ High(i-1) < High(i-2) /\ Low(i-1) < Low(i-2)
             /\ Close(i) > Open(i-3) /\ Close(i) < Close(i-4)
          \/ /\ White(i-4)
             /\ RealBodyGapUp(i-3, i-4)
             /\ High(i-2) > High(i-3) /\ Low(i-2) > Low(i-3)
             /\ High(i-1) > High(i-2) /\ Low(i-1) > Low(i-2)
             /\ Close(i) < Open(i-3) /\ Close(i) > Close(i-4)
    THEN Color(i) * 100 ELSE 0

\* Concealing Baby Swallow
CDLCONCEALBABYSWALL_Plan ==
    Plan(AvgPeriod("ShadowVeryShort") + 3, 3,
         [shadowVeryShort3 |-> Shifted("ShadowVeryShort", 3),
          shadowVeryShort2 |-> Shifted("ShadowVeryShort", 2),
          shadowVeryShort1 |-> Shifted("ShadowVeryShort", 1)])
CDLCONCEALBABYSWALL(i, T) ==
    IF /\ Black(i-3)
       /\ Black(i-2)
       /\ Black(i-1)
       /\ Black(i)
       /\ LowerShadow(i-3) < Average("ShadowVeryShort", T.shadowVeryShort3, i-3)
       /\ UpperShadow(i-3) < Average("ShadowVeryShort", T.shadowVeryShort3, i-3)
       /\ LowerShadow(i-2) < Average("ShadowVeryShort", T.shadowVeryShort2, i-2)
       /\ UpperShadow(i-2) < Average("ShadowVeryShort", T.shadowVeryShort2, i-2)
       /\ RealBodyGapDown(i-1, i-2)
       /\ UpperShadow(i-1) > Average("ShadowVeryShort", T.shadowVeryShort1, i-1)
       /\ High(i-1) > Close(i-2)
       /\ High(i) > High(i-1) /\ Low(i) < Low(i-1)
    THEN 100 ELSE 0

\* Ladder Bottom
CDLLADDERBOTTOM_Plan ==
    Plan(AvgPeriod("ShadowVeryShort") + 4, 4,
         [shadowVeryShort |-> Shifted("ShadowVeryShort", 1)])
CDLLADDERBOTTOM(i, T) ==
    IF /\ Black(i-4)
       /\ Black(i-3)
       /\ Black(i-2)
       /\ Open(i-4) > Open(i-3)
       /\ Open(i-3) > Open(i-2)
       /\ Close(i-4) > Close(i-3)
       /\ Close(i-3) > Close(i-2)
       /\ Black(i-1) /\ UpperShadow(i-1) > Average("ShadowVeryShort", T.shadowVeryShort, i-1)
       /\ White(i) /\ Open(i) > Open(i-1) /\ Close(i) > High(i-1)
    THEN 100 ELSE 0

\* Mat Hold
CDLMATHOLD_Plan ==
    Plan(Max({AvgPeriod("BodyShort"), AvgPeriod("BodyLong")}) + 4, 4,
         [body3 |-> Shifted("BodyShort", 3), body2 |-> Shifted("BodyShort", 2),
          body1 |-> Shifted("BodyShort", 1), body4 |-> Shifted("BodyLong", 4)])
CDLMATHOLD(i, T) ==
    IF /\ RealBody(i-4) > Average("BodyLong", T.body4, i-4)
       /\ RealBody(i-3) < Average("BodyShort", T.body3, i-3)
       /\ RealBody(i-2) < Average("BodyShort", T.body2, i-2)
       /\ RealBody(i-1) < Average("BodyShort", T.body1, i-1)
       /\ White(i-4)
       /\ Black(i-3)
       /\ White(i)
       /\ RealBodyGapUp(i-3, i-4)
       /\ BodyBottom(i-2) < Close(i-4)
       /\ BodyBottom(i-1) < Close(i-4)
       /\ BodyBottom(i-2) > Close(i-4) - Penetration(RealBody(i-4))
       /\ BodyBottom(i-1) > Close(i-4) - Penetration(RealBody(i-4))
       /\ BodyTop(i-2) < Open(i-3)
       /\ BodyTop(i-1) < BodyTop(i-2)
       /\ Open(i) > Close(i-1) /\ Close(i) > Larger(Larger(High(i-3), High(i-2)), High(i-1))
    THEN 100 ELSE 0

\* Rising/Falling Three Methods
CDLRISEFALL3METHODS_Plan ==
    Plan(Max({AvgPeriod("BodyShort"), AvgPeriod("BodyLong")}) + 4, 4,
         [body3 |-> Shifted("BodyShort", 3), body2 |-> Shifted("BodyShort", 2),
          body1 |-> Shifted("BodyShort", 1), body4 |-> Shifted("BodyLong", 4),
          body0 |-> Behind("BodyLong", 0)])
CDLRISEFALL3METHODS(i, T) ==
    IF /\ RealBody(i-4) > Average("BodyLong", T.body4, i-4)
       /\ RealBody(i-3) < Average("BodyShort", T.body3, i-3)
       /\ RealBody(i-2) < Average("BodyShort", T.body2, i-2)
       /\ RealBody(i-1) < Average("BodyShort", T.body1, i-1)
       /\ RealBody(i) > Average("BodyLong", T.body0, i)
       /\ Color(i-4) = -Color(i-3)
       /\ Color(i-3) = Color(i-2)
       /\ Color(i-2) = Color(i-1)
       /\ Color(i-1) = -Color(i)
       /\ BodyBottom(i-3) < High(i-4) /\ BodyTop(i-3) > Low(i-4)
       /\ BodyBottom(i-2) < High(i-4) /\ BodyTop(i-2) > Low(i-4)
       /\ BodyBottom(i-1) < High(i-4) /\ BodyTop(i-1) > Low(i-4)
       /\ Close(i-2) * Color(i-4) < Close(i-3) * Color(i-4)
       /\ Close(i-1) * Color(i-4) < Close(i-2) * Color(i-4)
       /\ Open(i) * Color(i-4) > Close(i-1) * Color(i-4)
       /\ Close(i) * Color(i-4) > Close(i-4) * Color(i-4)
    THEN Color(i-4) * 100 ELSE 0

(***************************************************************************)
(* The two hikkake functions remember the last pattern (hk.idx is          *)
(* patternIdx, 0 for none, and hk.result patternResult) for its            *)
(* confirmation by one of the next three bars, and run three iterations    *)
(* before startIdx to find it.  An iteration returns the output and the    *)
(* new memory.                                                             *)
(***************************************************************************)
HikkakeForgotten(setup, i, hk) ==
    LET result == IF High(i) < High(i-1) THEN 100 ELSE -100
        confirmed == /\ i =< hk.idx + 3
                     /\ \/ hk.result > 0 /\ Close(i) > High(hk.idx - 1)
                        \/ hk.result < 0 /\ Close(i) < Low(hk.idx - 1)
    IN CASE setup              -> [value |-> result, hk |-> [idx |-> i, result |-> result]]
         [] ~setup /\ confirmed -> [value |-> 2 * hk.result, hk |-> hk]
         [] OTHER              -> [value |-> 0, hk |-> hk]
HikkakeDoubled(setup, i, hk) ==
    LET o == HikkakeForgotten(setup, i, hk)
    IN [o EXCEPT !.hk.result = IF setup THEN @ ELSE o.value]
HikkakeIteration(setup, i, hk) ==
    LET result == IF High(i) < High(i-1) THEN 100 ELSE -100
        confirmed == /\ i =< hk.idx + 3
                     /\ \/ hk.result > 0 /\ Close(i) > High(hk.idx - 1)
                        \/ hk.result < 0 /\ Close(i) < Low(hk.idx - 1)
    IN CASE setup              -> [value |-> result, hk |-> [idx |-> i, result |-> result]]
         [] ~setup /\ confirmed -> [value |-> 2 * hk.result, hk |-> [hk EXCEPT !.idx = 0]]
         [] OTHER              -> [value |-> 0, hk |-> hk]

\* Hikkake Pattern
CDLHIKKAKE_Plan == [Plan(5, 2, <<>>) EXCEPT !.early = 3]
HikkakeSetup(i) ==
    /\ High(i-1) < High(i-2) /\ Low(i-1) > Low(i-2)
    /\ \/ High(i) < High(i-1) /\ Low(i) < Low(i-1)
       \/ High(i) > High(i-1) /\ Low(i) > Low(i-1)
CDLHIKKAKE(i, hk) == HikkakeIteration(HikkakeSetup(i), i, hk)

\* Modified Hikkake Pattern
CDLHIKKAKEMOD_Plan ==
    [Plan(Max({1, AvgPeriod("Near")}) + 5, 3, [near |-> Shifted("Near", 2)]) EXCEPT !.early = 3]
HikkakeModSetup(i, T) ==
    /\ High(i-2) < High(i-3) /\ Low(i-2) > Low(i-3)
    /\ High(i-1) < High(i-2) /\ Low(i-1) > Low(i-2)
    /\ \/ /\ High(i) < High(i-1) /\ Low(i) < Low(i-1)
          /\ Close(i-2) =< Low(i-2) + Average("Near", T.near, i-2)
       \/ /\ High(i) > High(i-1) /\ Low(i) > Low(i-1)
          /\ Close(i-2) >= High(i-2) - Average("Near", T.near, i-2)
CDLHIKKAKEMOD(i, T, hk) == HikkakeIteration(HikkakeModSetup(i, T), i, hk)
=============================================================================
