---------------------------- MODULE AbstractFrames ----------------------------
(***************************************************************************)
(* The frames of TA-Lib's abstract interface (ta_abstract/frames/          *)
(* ta_frame.c): for each function, the places of a TA_ParamHolderPriv its  *)
(* frame passes to it, in the order of its parameters, and the places the  *)
(* lookback frame passes to its TA_X_Lookback.  startIdx, endIdx,          *)
(* outBegIdx and outNBElement, which every frame passes on as they are,    *)
(* are left out.                                                           *)
(*                                                                         *)
(* A place is <<array, index, member of the union "data">>; indexes start  *)
(* at 0, as in the code.                                                   *)
(***************************************************************************)
EXTENDS FunctionChecks, AbstractPrototypes

Real(i)            == <<<<"in", i, "real">>>>
Prices(i, members) == [k \in 1 .. Len(members) |-> <<"in", i, members[k]>>]
IntegerOpt(i)      == <<"optIn", i, "integer">>
RealOpt(i)         == <<"optIn", i, "real">>
IntegerOut(i)      == <<"out", i, "integer">>
RealOut(i)         == <<"out", i, "real">>

\* The members of TA_PricePtrs that are passed together.
OHLC == <<"open", "high", "low", "close">>
HLCV == <<"high", "low", "close", "volume">>
HLC  == <<"high", "low", "close">>
HL   == <<"high", "low">>
C    == <<"close">>
V    == <<"volume">>

\* Every lookback frame passes the optional inputs its frame passes, and nothing else; "parameters"
\* are those of the prototype, "checks" those of the function and the lookback function they call.
OptFrame(parameters, ins, opts, outs, checks) ==
    [parameters |-> parameters, call |-> ins \o opts \o outs, lookback |-> opts, checks |-> checks]
Frame(parameters, ins, outs) == OptFrame(parameters, ins, <<>>, outs, <<>>)

TA_ACOS_FramePP == Frame(TA_ACOS, Real(0), <<RealOut(0)>>)
TA_AD_FramePP == Frame(TA_AD, Prices(0, HLCV), <<RealOut(0)>>)
TA_ADD_FramePP == Frame(TA_ADD, Real(0) \o Real(1), <<RealOut(0)>>)
\* Mutant of TA_ADOSC_FramePP: the periods change places.
TA_ADOSC_FramePPSwapped ==
    OptFrame(TA_ADOSC, Prices(0, HLCV), <<IntegerOpt(1), IntegerOpt(0)>>, <<RealOut(0)>>,
        TA_ADOSC_Checks)
TA_ADOSC_FramePP ==
    OptFrame(TA_ADOSC, Prices(0, HLCV), <<IntegerOpt(0), IntegerOpt(1)>>, <<RealOut(0)>>,
        TA_ADOSC_Checks)
TA_ADX_FramePP == OptFrame(TA_ADX, Prices(0, HLC), <<IntegerOpt(0)>>, <<RealOut(0)>>, TA_ADX_Checks)
TA_ADXR_FramePP ==
    OptFrame(TA_ADXR, Prices(0, HLC), <<IntegerOpt(0)>>, <<RealOut(0)>>, TA_ADXR_Checks)
TA_APO_FramePP ==
    OptFrame(TA_APO, Real(0), <<IntegerOpt(0), IntegerOpt(1), IntegerOpt(2)>>, <<RealOut(0)>>,
        TA_APO_Checks)
TA_AROON_FramePP ==
    OptFrame(TA_AROON, Prices(0, HL), <<IntegerOpt(0)>>, <<RealOut(0), RealOut(1)>>,
        TA_AROON_Checks)
TA_AROONOSC_FramePP ==
    OptFrame(TA_AROONOSC, Prices(0, HL), <<IntegerOpt(0)>>, <<RealOut(0)>>, TA_AROONOSC_Checks)
TA_ASIN_FramePP == Frame(TA_ASIN, Real(0), <<RealOut(0)>>)
TA_ATAN_FramePP == Frame(TA_ATAN, Real(0), <<RealOut(0)>>)
TA_ATR_FramePP == OptFrame(TA_ATR, Prices(0, HLC), <<IntegerOpt(0)>>, <<RealOut(0)>>, TA_ATR_Checks)
TA_AVGPRICE_FramePP == Frame(TA_AVGPRICE, Prices(0, OHLC), <<RealOut(0)>>)
TA_BBANDS_FramePP ==
    OptFrame(TA_BBANDS, Real(0), <<IntegerOpt(0), RealOpt(1), RealOpt(2), IntegerOpt(3)>>,
        <<RealOut(0), RealOut(1), RealOut(2)>>, TA_BBANDS_Checks)
TA_BETA_FramePP ==
    OptFrame(TA_BETA, Real(0) \o Real(1), <<IntegerOpt(0)>>, <<RealOut(0)>>, TA_BETA_Checks)
TA_BOP_FramePP == Frame(TA_BOP, Prices(0, OHLC), <<RealOut(0)>>)
TA_CCI_FramePP == OptFrame(TA_CCI, Prices(0, HLC), <<IntegerOpt(0)>>, <<RealOut(0)>>, TA_CCI_Checks)
TA_CDL2CROWS_FramePP == Frame(TA_CDL2CROWS, Prices(0, OHLC), <<IntegerOut(0)>>)
TA_CDL3BLACKCROWS_FramePP == Frame(TA_CDL3BLACKCROWS, Prices(0, OHLC), <<IntegerOut(0)>>)
TA_CDL3INSIDE_FramePP == Frame(TA_CDL3INSIDE, Prices(0, OHLC), <<IntegerOut(0)>>)
TA_CDL3LINESTRIKE_FramePP == Frame(TA_CDL3LINESTRIKE, Prices(0, OHLC), <<IntegerOut(0)>>)
TA_CDL3OUTSIDE_FramePP == Frame(TA_CDL3OUTSIDE, Prices(0, OHLC), <<IntegerOut(0)>>)
TA_CDL3STARSINSOUTH_FramePP == Frame(TA_CDL3STARSINSOUTH, Prices(0, OHLC), <<IntegerOut(0)>>)
TA_CDL3WHITESOLDIERS_FramePP == Frame(TA_CDL3WHITESOLDIERS, Prices(0, OHLC), <<IntegerOut(0)>>)
TA_CDLABANDONEDBABY_FramePP ==
    OptFrame(TA_CDLABANDONEDBABY, Prices(0, OHLC), <<RealOpt(0)>>, <<IntegerOut(0)>>,
        TA_CDLABANDONEDBABY_Checks)
TA_CDLADVANCEBLOCK_FramePP == Frame(TA_CDLADVANCEBLOCK, Prices(0, OHLC), <<IntegerOut(0)>>)
TA_CDLBELTHOLD_FramePP == Frame(TA_CDLBELTHOLD, Prices(0, OHLC), <<IntegerOut(0)>>)
TA_CDLBREAKAWAY_FramePP == Frame(TA_CDLBREAKAWAY, Prices(0, OHLC), <<IntegerOut(0)>>)
TA_CDLCLOSINGMARUBOZU_FramePP == Frame(TA_CDLCLOSINGMARUBOZU, Prices(0, OHLC), <<IntegerOut(0)>>)
TA_CDLCONCEALBABYSWALL_FramePP == Frame(TA_CDLCONCEALBABYSWALL, Prices(0, OHLC), <<IntegerOut(0)>>)
TA_CDLCOUNTERATTACK_FramePP == Frame(TA_CDLCOUNTERATTACK, Prices(0, OHLC), <<IntegerOut(0)>>)
TA_CDLDARKCLOUDCOVER_FramePP ==
    OptFrame(TA_CDLDARKCLOUDCOVER, Prices(0, OHLC), <<RealOpt(0)>>, <<IntegerOut(0)>>,
        TA_CDLDARKCLOUDCOVER_Checks)
TA_CDLDOJI_FramePP == Frame(TA_CDLDOJI, Prices(0, OHLC), <<IntegerOut(0)>>)
TA_CDLDOJISTAR_FramePP == Frame(TA_CDLDOJISTAR, Prices(0, OHLC), <<IntegerOut(0)>>)
TA_CDLDRAGONFLYDOJI_FramePP == Frame(TA_CDLDRAGONFLYDOJI, Prices(0, OHLC), <<IntegerOut(0)>>)
TA_CDLENGULFING_FramePP == Frame(TA_CDLENGULFING, Prices(0, OHLC), <<IntegerOut(0)>>)
TA_CDLEVENINGDOJISTAR_FramePP ==
    OptFrame(TA_CDLEVENINGDOJISTAR, Prices(0, OHLC), <<RealOpt(0)>>, <<IntegerOut(0)>>,
        TA_CDLEVENINGDOJISTAR_Checks)
TA_CDLEVENINGSTAR_FramePP ==
    OptFrame(TA_CDLEVENINGSTAR, Prices(0, OHLC), <<RealOpt(0)>>, <<IntegerOut(0)>>,
        TA_CDLEVENINGSTAR_Checks)
TA_CDLGAPSIDESIDEWHITE_FramePP == Frame(TA_CDLGAPSIDESIDEWHITE, Prices(0, OHLC), <<IntegerOut(0)>>)
TA_CDLGRAVESTONEDOJI_FramePP == Frame(TA_CDLGRAVESTONEDOJI, Prices(0, OHLC), <<IntegerOut(0)>>)
TA_CDLHAMMER_FramePP == Frame(TA_CDLHAMMER, Prices(0, OHLC), <<IntegerOut(0)>>)
TA_CDLHANGINGMAN_FramePP == Frame(TA_CDLHANGINGMAN, Prices(0, OHLC), <<IntegerOut(0)>>)
TA_CDLHARAMI_FramePP == Frame(TA_CDLHARAMI, Prices(0, OHLC), <<IntegerOut(0)>>)
TA_CDLHARAMICROSS_FramePP == Frame(TA_CDLHARAMICROSS, Prices(0, OHLC), <<IntegerOut(0)>>)
TA_CDLHIGHWAVE_FramePP == Frame(TA_CDLHIGHWAVE, Prices(0, OHLC), <<IntegerOut(0)>>)
TA_CDLHIKKAKE_FramePP == Frame(TA_CDLHIKKAKE, Prices(0, OHLC), <<IntegerOut(0)>>)
TA_CDLHIKKAKEMOD_FramePP == Frame(TA_CDLHIKKAKEMOD, Prices(0, OHLC), <<IntegerOut(0)>>)
TA_CDLHOMINGPIGEON_FramePP == Frame(TA_CDLHOMINGPIGEON, Prices(0, OHLC), <<IntegerOut(0)>>)
TA_CDLIDENTICAL3CROWS_FramePP == Frame(TA_CDLIDENTICAL3CROWS, Prices(0, OHLC), <<IntegerOut(0)>>)
TA_CDLINNECK_FramePP == Frame(TA_CDLINNECK, Prices(0, OHLC), <<IntegerOut(0)>>)
TA_CDLINVERTEDHAMMER_FramePP == Frame(TA_CDLINVERTEDHAMMER, Prices(0, OHLC), <<IntegerOut(0)>>)
TA_CDLKICKING_FramePP == Frame(TA_CDLKICKING, Prices(0, OHLC), <<IntegerOut(0)>>)
TA_CDLKICKINGBYLENGTH_FramePP == Frame(TA_CDLKICKINGBYLENGTH, Prices(0, OHLC), <<IntegerOut(0)>>)
TA_CDLLADDERBOTTOM_FramePP == Frame(TA_CDLLADDERBOTTOM, Prices(0, OHLC), <<IntegerOut(0)>>)
TA_CDLLONGLEGGEDDOJI_FramePP == Frame(TA_CDLLONGLEGGEDDOJI, Prices(0, OHLC), <<IntegerOut(0)>>)
TA_CDLLONGLINE_FramePP == Frame(TA_CDLLONGLINE, Prices(0, OHLC), <<IntegerOut(0)>>)
TA_CDLMARUBOZU_FramePP == Frame(TA_CDLMARUBOZU, Prices(0, OHLC), <<IntegerOut(0)>>)
TA_CDLMATCHINGLOW_FramePP == Frame(TA_CDLMATCHINGLOW, Prices(0, OHLC), <<IntegerOut(0)>>)
TA_CDLMATHOLD_FramePP ==
    OptFrame(TA_CDLMATHOLD, Prices(0, OHLC), <<RealOpt(0)>>, <<IntegerOut(0)>>,
        TA_CDLMATHOLD_Checks)
TA_CDLMORNINGDOJISTAR_FramePP ==
    OptFrame(TA_CDLMORNINGDOJISTAR, Prices(0, OHLC), <<RealOpt(0)>>, <<IntegerOut(0)>>,
        TA_CDLMORNINGDOJISTAR_Checks)
TA_CDLMORNINGSTAR_FramePP ==
    OptFrame(TA_CDLMORNINGSTAR, Prices(0, OHLC), <<RealOpt(0)>>, <<IntegerOut(0)>>,
        TA_CDLMORNINGSTAR_Checks)
TA_CDLONNECK_FramePP == Frame(TA_CDLONNECK, Prices(0, OHLC), <<IntegerOut(0)>>)
TA_CDLPIERCING_FramePP == Frame(TA_CDLPIERCING, Prices(0, OHLC), <<IntegerOut(0)>>)
TA_CDLRICKSHAWMAN_FramePP == Frame(TA_CDLRICKSHAWMAN, Prices(0, OHLC), <<IntegerOut(0)>>)
TA_CDLRISEFALL3METHODS_FramePP == Frame(TA_CDLRISEFALL3METHODS, Prices(0, OHLC), <<IntegerOut(0)>>)
TA_CDLSEPARATINGLINES_FramePP == Frame(TA_CDLSEPARATINGLINES, Prices(0, OHLC), <<IntegerOut(0)>>)
TA_CDLSHOOTINGSTAR_FramePP == Frame(TA_CDLSHOOTINGSTAR, Prices(0, OHLC), <<IntegerOut(0)>>)
TA_CDLSHORTLINE_FramePP == Frame(TA_CDLSHORTLINE, Prices(0, OHLC), <<IntegerOut(0)>>)
TA_CDLSPINNINGTOP_FramePP == Frame(TA_CDLSPINNINGTOP, Prices(0, OHLC), <<IntegerOut(0)>>)
TA_CDLSTALLEDPATTERN_FramePP == Frame(TA_CDLSTALLEDPATTERN, Prices(0, OHLC), <<IntegerOut(0)>>)
TA_CDLSTICKSANDWICH_FramePP == Frame(TA_CDLSTICKSANDWICH, Prices(0, OHLC), <<IntegerOut(0)>>)
TA_CDLTAKURI_FramePP == Frame(TA_CDLTAKURI, Prices(0, OHLC), <<IntegerOut(0)>>)
TA_CDLTASUKIGAP_FramePP == Frame(TA_CDLTASUKIGAP, Prices(0, OHLC), <<IntegerOut(0)>>)
TA_CDLTHRUSTING_FramePP == Frame(TA_CDLTHRUSTING, Prices(0, OHLC), <<IntegerOut(0)>>)
TA_CDLTRISTAR_FramePP == Frame(TA_CDLTRISTAR, Prices(0, OHLC), <<IntegerOut(0)>>)
TA_CDLUNIQUE3RIVER_FramePP == Frame(TA_CDLUNIQUE3RIVER, Prices(0, OHLC), <<IntegerOut(0)>>)
TA_CDLUPSIDEGAP2CROWS_FramePP == Frame(TA_CDLUPSIDEGAP2CROWS, Prices(0, OHLC), <<IntegerOut(0)>>)
TA_CDLXSIDEGAP3METHODS_FramePP == Frame(TA_CDLXSIDEGAP3METHODS, Prices(0, OHLC), <<IntegerOut(0)>>)
TA_CEIL_FramePP == Frame(TA_CEIL, Real(0), <<RealOut(0)>>)
TA_CMO_FramePP == OptFrame(TA_CMO, Real(0), <<IntegerOpt(0)>>, <<RealOut(0)>>, TA_CMO_Checks)
TA_CORREL_FramePP ==
    OptFrame(TA_CORREL, Real(0) \o Real(1), <<IntegerOpt(0)>>, <<RealOut(0)>>, TA_CORREL_Checks)
TA_COS_FramePP == Frame(TA_COS, Real(0), <<RealOut(0)>>)
TA_COSH_FramePP == Frame(TA_COSH, Real(0), <<RealOut(0)>>)
TA_DEMA_FramePP == OptFrame(TA_DEMA, Real(0), <<IntegerOpt(0)>>, <<RealOut(0)>>, TA_DEMA_Checks)
TA_DIV_FramePP == Frame(TA_DIV, Real(0) \o Real(1), <<RealOut(0)>>)
TA_DX_FramePP == OptFrame(TA_DX, Prices(0, HLC), <<IntegerOpt(0)>>, <<RealOut(0)>>, TA_DX_Checks)
TA_EMA_FramePP == OptFrame(TA_EMA, Real(0), <<IntegerOpt(0)>>, <<RealOut(0)>>, TA_EMA_Checks)
TA_EXP_FramePP == Frame(TA_EXP, Real(0), <<RealOut(0)>>)
TA_FLOOR_FramePP == Frame(TA_FLOOR, Real(0), <<RealOut(0)>>)
TA_HT_DCPERIOD_FramePP == Frame(TA_HT_DCPERIOD, Real(0), <<RealOut(0)>>)
TA_HT_DCPHASE_FramePP == Frame(TA_HT_DCPHASE, Real(0), <<RealOut(0)>>)
TA_HT_PHASOR_FramePP == Frame(TA_HT_PHASOR, Real(0), <<RealOut(0), RealOut(1)>>)
TA_HT_SINE_FramePP == Frame(TA_HT_SINE, Real(0), <<RealOut(0), RealOut(1)>>)
TA_HT_TRENDLINE_FramePP == Frame(TA_HT_TRENDLINE, Real(0), <<RealOut(0)>>)
TA_HT_TRENDMODE_FramePP == Frame(TA_HT_TRENDMODE, Real(0), <<IntegerOut(0)>>)
TA_KAMA_FramePP == OptFrame(TA_KAMA, Real(0), <<IntegerOpt(0)>>, <<RealOut(0)>>, TA_KAMA_Checks)
TA_LINEARREG_FramePP ==
    OptFrame(TA_LINEARREG, Real(0), <<IntegerOpt(0)>>, <<RealOut(0)>>, TA_LINEARREG_Checks)
TA_LINEARREG_ANGLE_FramePP ==
    OptFrame(TA_LINEARREG_ANGLE, Real(0), <<IntegerOpt(0)>>, <<RealOut(0)>>,
        TA_LINEARREG_ANGLE_Checks)
TA_LINEARREG_INTERCEPT_FramePP ==
    OptFrame(TA_LINEARREG_INTERCEPT, Real(0), <<IntegerOpt(0)>>, <<RealOut(0)>>,
        TA_LINEARREG_INTERCEPT_Checks)
TA_LINEARREG_SLOPE_FramePP ==
    OptFrame(TA_LINEARREG_SLOPE, Real(0), <<IntegerOpt(0)>>, <<RealOut(0)>>,
        TA_LINEARREG_SLOPE_Checks)
TA_LN_FramePP == Frame(TA_LN, Real(0), <<RealOut(0)>>)
TA_LOG10_FramePP == Frame(TA_LOG10, Real(0), <<RealOut(0)>>)
TA_MA_FramePP ==
    OptFrame(TA_MA, Real(0), <<IntegerOpt(0), IntegerOpt(1)>>, <<RealOut(0)>>, TA_MA_Checks)
TA_MACD_FramePP ==
    OptFrame(TA_MACD, Real(0), <<IntegerOpt(0), IntegerOpt(1), IntegerOpt(2)>>, <<RealOut(0),
        RealOut(1), RealOut(2)>>, TA_MACD_Checks)
TA_MACDEXT_FramePP ==
    OptFrame(TA_MACDEXT, Real(0), <<IntegerOpt(0), IntegerOpt(1), IntegerOpt(2), IntegerOpt(3),
        IntegerOpt(4), IntegerOpt(5)>>, <<RealOut(0), RealOut(1), RealOut(2)>>, TA_MACDEXT_Checks)
TA_MACDFIX_FramePP ==
    OptFrame(TA_MACDFIX, Real(0), <<IntegerOpt(0)>>, <<RealOut(0), RealOut(1), RealOut(2)>>,
        TA_MACDFIX_Checks)
TA_MAMA_FramePP ==
    OptFrame(TA_MAMA, Real(0), <<RealOpt(0), RealOpt(1)>>, <<RealOut(0), RealOut(1)>>,
        TA_MAMA_Checks)
TA_MAVP_FramePP ==
    OptFrame(TA_MAVP, Real(0) \o Real(1), <<IntegerOpt(0), IntegerOpt(1), IntegerOpt(2)>>,
        <<RealOut(0)>>, TA_MAVP_Checks)
TA_MAX_FramePP == OptFrame(TA_MAX, Real(0), <<IntegerOpt(0)>>, <<RealOut(0)>>, TA_MAX_Checks)
TA_MAXINDEX_FramePP ==
    OptFrame(TA_MAXINDEX, Real(0), <<IntegerOpt(0)>>, <<IntegerOut(0)>>, TA_MAXINDEX_Checks)
TA_MEDPRICE_FramePP == Frame(TA_MEDPRICE, Prices(0, HL), <<RealOut(0)>>)
TA_MFI_FramePP ==
    OptFrame(TA_MFI, Prices(0, HLCV), <<IntegerOpt(0)>>, <<RealOut(0)>>, TA_MFI_Checks)
TA_MIDPOINT_FramePP ==
    OptFrame(TA_MIDPOINT, Real(0), <<IntegerOpt(0)>>, <<RealOut(0)>>, TA_MIDPOINT_Checks)
TA_MIDPRICE_FramePP ==
    OptFrame(TA_MIDPRICE, Prices(0, HL), <<IntegerOpt(0)>>, <<RealOut(0)>>, TA_MIDPRICE_Checks)
TA_MIN_FramePP == OptFrame(TA_MIN, Real(0), <<IntegerOpt(0)>>, <<RealOut(0)>>, TA_MIN_Checks)
TA_MININDEX_FramePP ==
    OptFrame(TA_MININDEX, Real(0), <<IntegerOpt(0)>>, <<IntegerOut(0)>>, TA_MININDEX_Checks)
TA_MINMAX_FramePP ==
    OptFrame(TA_MINMAX, Real(0), <<IntegerOpt(0)>>, <<RealOut(0), RealOut(1)>>, TA_MINMAX_Checks)
TA_MINMAXINDEX_FramePP ==
    OptFrame(TA_MINMAXINDEX, Real(0), <<IntegerOpt(0)>>, <<IntegerOut(0), IntegerOut(1)>>,
        TA_MINMAXINDEX_Checks)
TA_MINUS_DI_FramePP ==
    OptFrame(TA_MINUS_DI, Prices(0, HLC), <<IntegerOpt(0)>>, <<RealOut(0)>>, TA_MINUS_DI_Checks)
TA_MINUS_DM_FramePP ==
    OptFrame(TA_MINUS_DM, Prices(0, HL), <<IntegerOpt(0)>>, <<RealOut(0)>>, TA_MINUS_DM_Checks)
TA_MOM_FramePP == OptFrame(TA_MOM, Real(0), <<IntegerOpt(0)>>, <<RealOut(0)>>, TA_MOM_Checks)
TA_MULT_FramePP == Frame(TA_MULT, Real(0) \o Real(1), <<RealOut(0)>>)
TA_NATR_FramePP ==
    OptFrame(TA_NATR, Prices(0, HLC), <<IntegerOpt(0)>>, <<RealOut(0)>>, TA_NATR_Checks)
TA_OBV_FramePP == Frame(TA_OBV, Real(0) \o Prices(1, V), <<RealOut(0)>>)
TA_PLUS_DI_FramePP ==
    OptFrame(TA_PLUS_DI, Prices(0, HLC), <<IntegerOpt(0)>>, <<RealOut(0)>>, TA_PLUS_DI_Checks)
TA_PLUS_DM_FramePP ==
    OptFrame(TA_PLUS_DM, Prices(0, HL), <<IntegerOpt(0)>>, <<RealOut(0)>>, TA_PLUS_DM_Checks)
TA_PPO_FramePP ==
    OptFrame(TA_PPO, Real(0), <<IntegerOpt(0), IntegerOpt(1), IntegerOpt(2)>>, <<RealOut(0)>>,
        TA_PPO_Checks)
TA_ROC_FramePP == OptFrame(TA_ROC, Real(0), <<IntegerOpt(0)>>, <<RealOut(0)>>, TA_ROC_Checks)
TA_ROCP_FramePP == OptFrame(TA_ROCP, Real(0), <<IntegerOpt(0)>>, <<RealOut(0)>>, TA_ROCP_Checks)
TA_ROCR_FramePP == OptFrame(TA_ROCR, Real(0), <<IntegerOpt(0)>>, <<RealOut(0)>>, TA_ROCR_Checks)
TA_ROCR100_FramePP ==
    OptFrame(TA_ROCR100, Real(0), <<IntegerOpt(0)>>, <<RealOut(0)>>, TA_ROCR100_Checks)
TA_RSI_FramePP == OptFrame(TA_RSI, Real(0), <<IntegerOpt(0)>>, <<RealOut(0)>>, TA_RSI_Checks)
TA_SAR_FramePP ==
    OptFrame(TA_SAR, Prices(0, HL), <<RealOpt(0), RealOpt(1)>>, <<RealOut(0)>>, TA_SAR_Checks)
TA_SAREXT_FramePP ==
    OptFrame(TA_SAREXT, Prices(0, HL), <<RealOpt(0), RealOpt(1), RealOpt(2), RealOpt(3),
        RealOpt(4), RealOpt(5), RealOpt(6), RealOpt(7)>>, <<RealOut(0)>>, TA_SAREXT_Checks)
TA_SIN_FramePP == Frame(TA_SIN, Real(0), <<RealOut(0)>>)
TA_SINH_FramePP == Frame(TA_SINH, Real(0), <<RealOut(0)>>)
TA_SMA_FramePP == OptFrame(TA_SMA, Real(0), <<IntegerOpt(0)>>, <<RealOut(0)>>, TA_SMA_Checks)
TA_SQRT_FramePP == Frame(TA_SQRT, Real(0), <<RealOut(0)>>)
TA_STDDEV_FramePP ==
    OptFrame(TA_STDDEV, Real(0), <<IntegerOpt(0), RealOpt(1)>>, <<RealOut(0)>>, TA_STDDEV_Checks)
TA_STOCH_FramePP ==
    OptFrame(TA_STOCH, Prices(0, HLC), <<IntegerOpt(0), IntegerOpt(1), IntegerOpt(2),
        IntegerOpt(3), IntegerOpt(4)>>, <<RealOut(0), RealOut(1)>>, TA_STOCH_Checks)
TA_STOCHF_FramePP ==
    OptFrame(TA_STOCHF, Prices(0, HLC), <<IntegerOpt(0), IntegerOpt(1), IntegerOpt(2)>>,
        <<RealOut(0), RealOut(1)>>, TA_STOCHF_Checks)
TA_STOCHRSI_FramePP ==
    OptFrame(TA_STOCHRSI, Real(0), <<IntegerOpt(0), IntegerOpt(1), IntegerOpt(2), IntegerOpt(3)>>,
        <<RealOut(0), RealOut(1)>>, TA_STOCHRSI_Checks)
TA_SUB_FramePP == Frame(TA_SUB, Real(0) \o Real(1), <<RealOut(0)>>)
TA_SUM_FramePP == OptFrame(TA_SUM, Real(0), <<IntegerOpt(0)>>, <<RealOut(0)>>, TA_SUM_Checks)
TA_T3_FramePP ==
    OptFrame(TA_T3, Real(0), <<IntegerOpt(0), RealOpt(1)>>, <<RealOut(0)>>, TA_T3_Checks)
TA_TAN_FramePP == Frame(TA_TAN, Real(0), <<RealOut(0)>>)
TA_TANH_FramePP == Frame(TA_TANH, Real(0), <<RealOut(0)>>)
TA_TEMA_FramePP == OptFrame(TA_TEMA, Real(0), <<IntegerOpt(0)>>, <<RealOut(0)>>, TA_TEMA_Checks)
TA_TRANGE_FramePP == Frame(TA_TRANGE, Prices(0, HLC), <<RealOut(0)>>)
TA_TRIMA_FramePP == OptFrame(TA_TRIMA, Real(0), <<IntegerOpt(0)>>, <<RealOut(0)>>, TA_TRIMA_Checks)
TA_TRIX_FramePP == OptFrame(TA_TRIX, Real(0), <<IntegerOpt(0)>>, <<RealOut(0)>>, TA_TRIX_Checks)
TA_TSF_FramePP == OptFrame(TA_TSF, Real(0), <<IntegerOpt(0)>>, <<RealOut(0)>>, TA_TSF_Checks)
TA_TYPPRICE_FramePP == Frame(TA_TYPPRICE, Prices(0, HLC), <<RealOut(0)>>)
TA_ULTOSC_FramePP ==
    OptFrame(TA_ULTOSC, Prices(0, HLC), <<IntegerOpt(0), IntegerOpt(1), IntegerOpt(2)>>,
        <<RealOut(0)>>, TA_ULTOSC_Checks)
TA_VAR_FramePP ==
    OptFrame(TA_VAR, Real(0), <<IntegerOpt(0), RealOpt(1)>>, <<RealOut(0)>>, TA_VAR_Checks)
TA_WCLPRICE_FramePP == Frame(TA_WCLPRICE, Prices(0, HLC), <<RealOut(0)>>)
TA_WILLR_FramePP ==
    OptFrame(TA_WILLR, Prices(0, HLC), <<IntegerOpt(0)>>, <<RealOut(0)>>, TA_WILLR_Checks)
TA_WMA_FramePP == OptFrame(TA_WMA, Real(0), <<IntegerOpt(0)>>, <<RealOut(0)>>, TA_WMA_Checks)
===============================================================================
