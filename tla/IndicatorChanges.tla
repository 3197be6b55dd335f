--------------------------- MODULE IndicatorChanges ---------------------------
(***************************************************************************)
(* The functions that need a bar or two at a time: changes over a period,  *)
(* arithmetic on two series, averages of a bar's prices, and the two       *)
(* cumulative volume lines, which count from startIdx.                     *)
(***************************************************************************)
EXTENDS Indicators

-----------------------------------------------------------------------------
(* MOM and the rates of change. *)

Trailing(v, i) == Real(v, i - v.period)

Ratio(v, i, rate) == IF Trailing(v, i) # 0 THEN rate ELSE 0

MOM(v, L, i)     == Wrote(L, Real(v, i) - Trailing(v, i))
ROC(v, L, i)     == Wrote(L, Ratio(v, i, (Over(Real(v, i), Trailing(v, i)) - Unit) * 100))
ROCP(v, L, i)    == Wrote(L, Ratio(v, i, Over(Real(v, i) - Trailing(v, i), Trailing(v, i))))
ROCR(v, L, i)    == Wrote(L, Ratio(v, i, Over(Real(v, i), Trailing(v, i))))
ROCR100(v, L, i) == Wrote(L, Ratio(v, i, Over(Real(v, i), Trailing(v, i)) * 100))

TA_MOM(v)     == Run(v, v.period, NoLocals, MOM)
TA_ROC(v)     == Run(v, v.period, NoLocals, ROC)
TA_ROCP(v)    == Run(v, v.period, NoLocals, ROCP)
TA_ROCR(v)    == Run(v, v.period, NoLocals, ROCR)
TA_ROCR100(v) == Run(v, v.period, NoLocals, ROCR100)

-----------------------------------------------------------------------------
(* ADD, SUB, MULT, DIV (which does not look for a zero). *)

ADD(v, L, i)  == Wrote(L, Real(v, i) + Real1(v, i))
SUB(v, L, i)  == Wrote(L, Real(v, i) - Real1(v, i))
MULT(v, L, i) == Wrote(L, Times(Real(v, i), Real1(v, i)))
DIV(v, L, i)  == Wrote(L, Over(Real(v, i), Real1(v, i)))

TA_ADD(v)  == Run(v, 0, NoLocals, ADD)
TA_SUB(v)  == Run(v, 0, NoLocals, SUB)
TA_MULT(v) == Run(v, 0, NoLocals, MULT)
TA_DIV(v)  == Run(v, 0, NoLocals, DIV)

-----------------------------------------------------------------------------
(* The averages of a bar's prices, its balance of power, its true range. *)

MEDPRICE(v, L, i) == Wrote(L, (High(v, i) + Low(v, i)) \div 2)
TYPPRICE(v, L, i) == Wrote(L, TypicalPrice(v, i))
WCLPRICE(v, L, i) == Wrote(L, (High(v, i) + Low(v, i) + 2 * Close(v, i)) \div 4)
AVGPRICE(v, L, i) == Wrote(L, (High(v, i) + Low(v, i) + Close(v, i) + Open(v, i)) \div 4)
BOP(v, L, i) ==
    LET range == High(v, i) - Low(v, i)
    IN Wrote(L, IF range =< 0 THEN 0 ELSE Over(Close(v, i) - Open(v, i), range))
TRANGE(v, L, i) == Wrote(L, TrueRange(v, i))

TA_MEDPRICE(v) == Run(v, 0, NoLocals, MEDPRICE)
TA_TYPPRICE(v) == Run(v, 0, NoLocals, TYPPRICE)
TA_WCLPRICE(v) == Run(v, 0, NoLocals, WCLPRICE)
TA_AVGPRICE(v) == Run(v, 0, NoLocals, AVGPRICE)
TA_BOP(v)      == Run(v, 0, NoLocals, BOP)
TA_TRANGE(v)   == Run(v, 1, NoLocals, TRANGE)

-----------------------------------------------------------------------------
(* OBV: the volume of rising bars less that of falling ones. *)

OBV_Begin(v, s) == [obv |-> Volume(v, s), last |-> Real(v, s)]

OBV(v, L, i) ==
    LET obv == IF Real(v, i) > L.last THEN L.obv + Volume(v, i)
               ELSE IF Real(v, i) < L.last THEN L.obv - Volume(v, i) ELSE L.obv
    IN Wrote([obv |-> obv, last |-> Real(v, i)], obv)

TA_OBV(v) == Run(v, 0, OBV_Begin, OBV)

-----------------------------------------------------------------------------
(* AD: each bar's volume, weighted by where in its range it closed. *)

MoneyFlow(v, k) ==
    LET range == High(v, k) - Low(v, k)
        place == (Close(v, k) - Low(v, k)) - (High(v, k) - Close(v, k))
    IN IF range > 0 THEN Times(Over(place, range), Volume(v, k)) ELSE 0

AD_Begin(v, s) == 0
AD(v, ad, i) == Wrote(ad + MoneyFlow(v, i), ad + MoneyFlow(v, i))

TA_AD(v) == Run(v, 0, AD_Begin, AD)
=============================================================================
