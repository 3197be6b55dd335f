--------------------------- MODULE CandleProperties ---------------------------
(***************************************************************************)
(* What the candlestick functions promise, whatever range they are called  *)
(* for, and what the patterns promise about one another.                   *)
(***************************************************************************)
EXTENDS CandleCalls

\* The totals an iteration at bar j needs, summed afresh: the ranges of the avgPeriod bars
\* before the one the average is compared with.
SumAt(total, j) ==
    RangeSum(total.set, j - total.add - AvgPeriod(total.set), AvgPeriod(total.set))
SumsAt(plan, j) == [t \in DOMAIN plan |-> SumAt(plan[t], j)]
Exact(p, j)     == SumsAt(PlanOf(p).totals, j)

\* The output of a function without memory at bar j, from the bars alone; none before its
\* lookback.
Found(p, j) ==
    IF j < PlanOf(p).lookback THEN 0 ELSE Output(p, j, Exact(p, j), NoPattern).value

\* The hikkake functions from the bars alone: a pattern at j is reported; otherwise the
\* last pattern of the three bars before j is confirmed at j if j is the first bar since to
\* close beyond the inside bar.
IsSetup(p, k) == IF p = "CDLHIKKAKE" THEN HikkakeSetup(k) ELSE HikkakeModSetup(k, Exact(p, k))
Direction(k)  == IF High(k) < High(k-1) THEN 100 ELSE -100
Beyond(k, j)  == IF Direction(k) > 0 THEN Close(j) > High(k-1) ELSE Close(j) < Low(k-1)

\* setups are the bars from j-3 on with a pattern.
Awaited(setups, j) ==
    {k \in setups \ {j} : \A m \in (k+1) .. (j-1) : m \notin setups /\ ~Beyond(k, m)}
Told(setups, j) ==
    LET confirmed == {k \in Awaited(setups, j) : Beyond(k, j)} IN
    CASE j \in setups                      -> Direction(j)
      [] j \notin setups /\ confirmed # {} -> 2 * Direction(CHOOSE k \in confirmed : TRUE)
      [] OTHER                             -> 0

HikkakeFound(p, j) == Told({k \in (j-3) .. j : IsSetup(p, k)}, j)

Hikkakes == {"CDLHIKKAKE", "CDLHIKKAKEMOD"}

FoundAt(p, j) == IF p \in Hikkakes THEN HikkakeFound(p, j) ELSE Found(p, j)

-----------------------------------------------------------------------------
\* The type invariant: the bars and settings, the totals a call keeps,
\* the results a pattern reports and the codes it returns.
TypeOK ==
    /\ \A k \in DOMAIN bars : IsBar(bars[k])
    /\ settings \in [CandleSettingTypes -> CandleSettings]
    /\ pc \in {"ready", "loop", "returned"}
    /\ pattern \in Patterns \cup {"none"}
    /\ DOMAIN totals = DOMAIN trailing
    /\ \A t \in DOMAIN totals : totals[t] \in Int /\ trailing[t] \in Int
    /\ \A n \in DOMAIN outInteger : outInteger[n] \in {-200, -100, 0, 100, 200}
    /\ retCode \in {"none", "TA_SUCCESS", "TA_OUT_OF_RANGE_START_INDEX", "TA_OUT_OF_RANGE_END_INDEX"}

-----------------------------------------------------------------------------
(* One function. *)

\* What a function writes for a bar depends on the bars alone, not on the startIdx the
\* caller happened to pass nor on the totals carried from bar to bar: output n is what the
\* bars around startIdx + n - 1 say.
SameFromAnyStart ==
    pc = "loop" =>
        \A n \in DOMAIN outInteger : outInteger[n] = FoundAt(pattern, startIdx + n - 1)

\* No iteration reads before the first element of the input arrays, neither through the
\* bars of the pattern, nor the trailing bar of an average, nor a remembered pattern.
ReadsInsideInput ==
    (pc = "loop" /\ i =< endIdx) =>
        /\ i >= PlanOf(pattern).reach
        /\ \A t \in DOMAIN totals : trailing[t] >= PlanOf(pattern).totals[t].drop
        /\ (hk.result # 0 /\ i =< hk.idx + 3) => hk.idx >= 1

\* A hikkake is confirmed once, within three bars, in its own direction, and nothing is
\* reported in between; one from before the first output is confirmed before anything else.
ConfirmationFollowsHikkake ==
    pattern \in Hikkakes =>
        \A n \in DOMAIN outInteger : outInteger[n] \in {-200, 200} =>
            \/ \E m \in ((n-3) .. (n-1)) \cap DOMAIN outInteger :
                  /\ 2 * outInteger[m] = outInteger[n]
                  /\ \A k \in (m+1) .. (n-1) : outInteger[k] = 0
            \/ n =< 3 /\ \A k \in 1 .. (n-1) : outInteger[k] = 0

\* A call that had bars enough writes one output for each bar from outBegIdx to endIdx, and
\* outBegIdx is not before the function's lookback.
Complete ==
    [][(pc = "loop" /\ pc' = "returned") =>
          /\ Len(outInteger) = endIdx - outBegIdx' + 1
          /\ outBegIdx' >= PlanOf(pattern).lookback]_vars

-----------------------------------------------------------------------------
(* The patterns about one another, at the bar the loop is at. *)

AtBar == pc = "loop" /\ i =< endIdx

\* What each function finds at this bar and the one before.
FoundNow == [p \in AllPatterns |-> [j \in {i-1, i} |-> Found(p, j)]]

\* The special dojis are dojis, and the rickshaw man is a long legged one.
DojiFamily(found) ==
    /\ \A p \in {"CDLDRAGONFLYDOJI", "CDLGRAVESTONEDOJI", "CDLLONGLEGGEDDOJI",
                  "CDLRICKSHAWMAN", "CDLTAKURI"} : found[p][i] # 0 => found["CDLDOJI"][i] # 0
    /\ found["CDLRICKSHAWMAN"][i] # 0 => found["CDLLONGLEGGEDDOJI"][i] # 0

\* A marubozu is a belt-hold that is also a closing marubozu, of the same colour; a kicking
\* is two marubozus of opposite colours, the later giving its sign, and the by-length
\* variant finds the same bars.
MarubozuFamily(found) ==
    LET belt == found["CDLBELTHOLD"][i]
        closing == found["CDLCLOSINGMARUBOZU"][i]
        kicking == found["CDLKICKING"][i]
        separating == found["CDLSEPARATINGLINES"][i]
    IN /\ found["CDLMARUBOZU"][i] = IF closing # 0 THEN belt ELSE 0
       /\ kicking # 0 => /\ found["CDLMARUBOZU"][i] = kicking
                         /\ found["CDLMARUBOZU"][i-1] = -kicking
       /\ (kicking # 0) <=> (found["CDLKICKINGBYLENGTH"][i] # 0)
       /\ separating # 0 => separating = belt

\* The pattern a third candle confirms was reported at the second with the same sign, by
\* the function named for it.
ConfirmedPatterns(found) ==
    /\ \A pair \in {<<"CDL3INSIDE", "CDLHARAMI">>, <<"CDL3OUTSIDE", "CDLENGULFING">>,
                    <<"CDLMORNINGDOJISTAR", "CDLDOJISTAR">>,
                    <<"CDLEVENINGDOJISTAR", "CDLDOJISTAR">>} :
          found[pair[1]][i] # 0 => found[pair[2]][i-1] = found[pair[1]][i]
    /\ found["CDLABANDONEDBABY"][i] # 0 =>
          found["CDLABANDONEDBABY"][i] =
              found["CDLMORNINGDOJISTAR"][i] + found["CDLEVENINGDOJISTAR"][i]

Kindred(found) == DojiFamily(found) /\ MarubozuFamily(found) /\ ConfirmedPatterns(found)

\* A pattern that is a special case of another is found only with it.
Kinships == AtBar => Kindred(FoundNow)

\* Patterns that share their first candles and are told apart by the last are never found
\* together.
ToldApart ==
    AtBar =>
        \A pair \in {{"CDLPIERCING", "CDLTHRUSTING"}, {"CDLINNECK", "CDLTHRUSTING"},
                     {"CDL2CROWS", "CDLUPSIDEGAP2CROWS"}, {"CDLHARAMI", "CDLENGULFING"},
                     {"CDLTASUKIGAP", "CDLXSIDEGAP3METHODS"},
                     {"CDLINVERTEDHAMMER", "CDLSHOOTINGSTAR"}} :
            \E p \in pair : Found(p, i) = 0

-----------------------------------------------------------------------------
(* Turning the chart upside down. *)

Mirror == INSTANCE CandleCalls WITH
    bars <- [k \in DOMAIN bars |->
               [o |-> -bars[k].o, h |-> -bars[k].l, l |-> -bars[k].h, c |-> -bars[k].c]]

Symmetric ==
    {"CDL3INSIDE", "CDL3LINESTRIKE", "CDL3OUTSIDE", "CDLABANDONEDBABY", "CDLBELTHOLD",
     "CDLBREAKAWAY", "CDLCLOSINGMARUBOZU", "CDLCOUNTERATTACK", "CDLDOJISTAR", "CDLENGULFING",
     "CDLHARAMI", "CDLHARAMICROSS", "CDLHIGHWAVE", "CDLHIKKAKE", "CDLHIKKAKEMOD", "CDLKICKING",
     "CDLKICKINGBYLENGTH", "CDLLONGLINE", "CDLMARUBOZU", "CDLRISEFALL3METHODS",
     "CDLSEPARATINGLINES", "CDLSHORTLINE", "CDLSPINNINGTOP", "CDLTASUKIGAP", "CDLTRISTAR",
     "CDLXSIDEGAP3METHODS"}

Opposites == {<<"CDLMORNINGSTAR", "CDLEVENINGSTAR">>, <<"CDLMORNINGDOJISTAR", "CDLEVENINGDOJISTAR">>}
             \cup {<<p, p>> : p \in Symmetric}

\* The functions with a bullish and a bearish form report the one where, on the chart
\* turned upside down, they report the other (bars that close where they open count as
\* white either way up and are left out).
MirrorImage ==
    (AtBar /\ \A k \in DOMAIN bars : Open(k) # Close(k)) =>
        \A pair \in Opposites :
            pattern = pair[1] =>
                Mirror!Output(pair[2], i, totals, [hk EXCEPT !.result = -@]).value =
                    -Output(pattern, i, totals, hk).value

=============================================================================
