---------------------------- MODULE AbstractTables ----------------------------
(***************************************************************************)
(* What TA-Lib's abstract interface says of every function (ta_abstract/   *)
(* tables/table_*.c): its group, its inputs, optional inputs and outputs,  *)
(* and its frame.                                                          *)
(***************************************************************************)
EXTENDS AbstractParameters, Sequences

TA_DEF_ACOS == DEF_MATH_UNARY_OPERATOR("ACOS", TA_ACOS_FramePP)
TA_DEF_AD ==
    DEF_FUNCTION("AD", "Volume Indicators", <<TA_DEF_UI_Input_Price_HLCV>>, <<>>,
        <<TA_DEF_UI_Output_Real>>, TA_AD_FramePP)
TA_DEF_ADD == DEF_MATH_BINARY_OPERATOR("ADD", TA_ADD_FramePP)
TA_DEF_ADOSC ==
    DEF_FUNCTION("ADOSC", "Volume Indicators", <<TA_DEF_UI_Input_Price_HLCV>>,
        <<TA_DEF_UI_FastADOSC_Period, TA_DEF_UI_SlowADOSC_Period>>, <<TA_DEF_UI_Output_Real>>,
        TA_ADOSC_FramePP)
TA_DEF_ADX ==
    DEF_FUNCTION("ADX", "Momentum Indicators", <<TA_DEF_UI_Input_Price_HLC>>,
        <<TA_DEF_UI_TimePeriod_14_MINIMUM2>>, <<TA_DEF_UI_Output_Real>>, TA_ADX_FramePP)
TA_DEF_ADXR ==
    DEF_FUNCTION("ADXR", "Momentum Indicators", <<TA_DEF_UI_Input_Price_HLC>>,
        <<TA_DEF_UI_TimePeriod_14_MINIMUM2>>, <<TA_DEF_UI_Output_Real>>, TA_ADXR_FramePP)
TA_DEF_APO ==
    DEF_FUNCTION("APO", "Momentum Indicators", <<TA_DEF_UI_Input_Real>>, <<TA_DEF_UI_Fast_Period,
        TA_DEF_UI_Slow_Period, TA_DEF_UI_MA_Method>>, <<TA_DEF_UI_Output_Real>>, TA_APO_FramePP)
TA_DEF_AROON ==
    DEF_FUNCTION("AROON", "Momentum Indicators", <<TA_DEF_UI_Input_Price_HL>>,
        <<TA_DEF_UI_TimePeriod_14_MINIMUM2>>, <<TA_DEF_UI_Output_Real_AroonUp,
        TA_DEF_UI_Output_Real_AroonDown>>, TA_AROON_FramePP)
TA_DEF_AROONOSC ==
    DEF_FUNCTION("AROONOSC", "Momentum Indicators", <<TA_DEF_UI_Input_Price_HL>>,
        <<TA_DEF_UI_TimePeriod_14_MINIMUM2>>, <<TA_DEF_UI_Output_Real>>, TA_AROONOSC_FramePP)
TA_DEF_ASIN == DEF_MATH_UNARY_OPERATOR("ASIN", TA_ASIN_FramePP)
TA_DEF_ATAN == DEF_MATH_UNARY_OPERATOR("ATAN", TA_ATAN_FramePP)
TA_DEF_ATR ==
    DEF_FUNCTION("ATR", "Volatility Indicators", <<TA_DEF_UI_Input_Price_HLC>>,
        <<TA_DEF_UI_TimePeriod_14>>, <<TA_DEF_UI_Output_Real>>, TA_ATR_FramePP)
TA_DEF_AVGPRICE ==
    DEF_FUNCTION("AVGPRICE", "Price Transform", <<TA_DEF_UI_Input_Price_OHLC>>, <<>>,
        <<TA_DEF_UI_Output_Real>>, TA_AVGPRICE_FramePP)
TA_DEF_TableA ==
    <<TA_DEF_ACOS, TA_DEF_AD, TA_DEF_ADD, TA_DEF_ADOSC, TA_DEF_ADX, TA_DEF_ADXR, TA_DEF_APO,
      TA_DEF_AROON, TA_DEF_AROONOSC, TA_DEF_ASIN, TA_DEF_ATAN, TA_DEF_ATR, TA_DEF_AVGPRICE>>

TA_DEF_BBANDS ==
    DEF_FUNCTION("BBANDS", "Overlap Studies", <<TA_DEF_UI_Input_Real>>,
        <<TA_DEF_UI_TimePeriod_5_MINIMUM2, TA_DEF_UI_NbDeviationUp, TA_DEF_UI_NbDeviationDn,
        TA_DEF_UI_MA_Method>>, <<TA_DEF_UI_Output_Real_BBANDS_Upper,
        TA_DEF_UI_Output_Real_BBANDS_Middle, TA_DEF_UI_Output_Real_BBANDS_Lower>>,
        TA_BBANDS_FramePP)
TA_DEF_BETA ==
    DEF_FUNCTION("BETA", "Statistic Functions", <<TA_DEF_UI_Input_Real0, TA_DEF_UI_Input_Real1>>,
        <<TA_DEF_UI_TimePeriod_5>>, <<TA_DEF_UI_Output_Real>>, TA_BETA_FramePP)
TA_DEF_BOP ==
    DEF_FUNCTION("BOP", "Momentum Indicators", <<TA_DEF_UI_Input_Price_OHLC>>, <<>>,
        <<TA_DEF_UI_Output_Real>>, TA_BOP_FramePP)
TA_DEF_TableB ==
    <<TA_DEF_BBANDS, TA_DEF_BETA, TA_DEF_BOP>>

TA_DEF_CCI ==
    DEF_FUNCTION("CCI", "Momentum Indicators", <<TA_DEF_UI_Input_Price_HLC>>,
        <<TA_DEF_UI_TimePeriod_14_MINIMUM2>>, <<TA_DEF_UI_Output_Real>>, TA_CCI_FramePP)
TA_DEF_CDL2CROWS == Pattern("CDL2CROWS", TA_CDL2CROWS_FramePP)
TA_DEF_CDL3BLACKCROWS == Pattern("CDL3BLACKCROWS", TA_CDL3BLACKCROWS_FramePP)
TA_DEF_CDL3INSIDE == Pattern("CDL3INSIDE", TA_CDL3INSIDE_FramePP)
TA_DEF_CDL3LINESTRIKE == Pattern("CDL3LINESTRIKE", TA_CDL3LINESTRIKE_FramePP)
TA_DEF_CDL3OUTSIDE == Pattern("CDL3OUTSIDE", TA_CDL3OUTSIDE_FramePP)
TA_DEF_CDL3STARSINSOUTH == Pattern("CDL3STARSINSOUTH", TA_CDL3STARSINSOUTH_FramePP)
TA_DEF_CDL3WHITESOLDIERS == Pattern("CDL3WHITESOLDIERS", TA_CDL3WHITESOLDIERS_FramePP)
TA_DEF_CDLABANDONEDBABY ==
    DEF_FUNCTION("CDLABANDONEDBABY", "Pattern Recognition", <<TA_DEF_UI_Input_Price_OHLC>>,
        <<TA_DEF_UI_Penetration_30>>, <<TA_DEF_UI_Output_Integer>>, TA_CDLABANDONEDBABY_FramePP)
TA_DEF_CDLADVANCEBLOCK == Pattern("CDLADVANCEBLOCK", TA_CDLADVANCEBLOCK_FramePP)
TA_DEF_CDLBELTHOLD == Pattern("CDLBELTHOLD", TA_CDLBELTHOLD_FramePP)
TA_DEF_CDLBREAKAWAY == Pattern("CDLBREAKAWAY", TA_CDLBREAKAWAY_FramePP)
TA_DEF_CDLCLOSINGMARUBOZU == Pattern("CDLCLOSINGMARUBOZU", TA_CDLCLOSINGMARUBOZU_FramePP)
TA_DEF_CDLCONCEALBABYSWALL == Pattern("CDLCONCEALBABYSWALL", TA_CDLCONCEALBABYSWALL_FramePP)
TA_DEF_CDLCOUNTERATTACK == Pattern("CDLCOUNTERATTACK", TA_CDLCOUNTERATTACK_FramePP)
TA_DEF_CDLDARKCLOUDCOVER ==
    DEF_FUNCTION("CDLDARKCLOUDCOVER", "Pattern Recognition", <<TA_DEF_UI_Input_Price_OHLC>>,
        <<TA_DEF_UI_Penetration_50>>, <<TA_DEF_UI_Output_Integer>>, TA_CDLDARKCLOUDCOVER_FramePP)
TA_DEF_CDLDOJI == Pattern("CDLDOJI", TA_CDLDOJI_FramePP)
TA_DEF_CDLDOJISTAR == Pattern("CDLDOJISTAR", TA_CDLDOJISTAR_FramePP)
TA_DEF_CDLDRAGONFLYDOJI == Pattern("CDLDRAGONFLYDOJI", TA_CDLDRAGONFLYDOJI_FramePP)
TA_DEF_CDLENGULFING == Pattern("CDLENGULFING", TA_CDLENGULFING_FramePP)
TA_DEF_CDLEVENINGDOJISTAR ==
    DEF_FUNCTION("CDLEVENINGDOJISTAR", "Pattern Recognition", <<TA_DEF_UI_Input_Price_OHLC>>,
        <<TA_DEF_UI_Penetration_30>>, <<TA_DEF_UI_Output_Integer>>, TA_CDLEVENINGDOJISTAR_FramePP)
TA_DEF_CDLEVENINGSTAR ==
    DEF_FUNCTION("CDLEVENINGSTAR", "Pattern Recognition", <<TA_DEF_UI_Input_Price_OHLC>>,
        <<TA_DEF_UI_Penetration_30>>, <<TA_DEF_UI_Output_Integer>>, TA_CDLEVENINGSTAR_FramePP)
TA_DEF_CDLGAPSIDESIDEWHITE == Pattern("CDLGAPSIDESIDEWHITE", TA_CDLGAPSIDESIDEWHITE_FramePP)
TA_DEF_CDLGRAVESTONEDOJI == Pattern("CDLGRAVESTONEDOJI", TA_CDLGRAVESTONEDOJI_FramePP)
TA_DEF_CDLHAMMER == Pattern("CDLHAMMER", TA_CDLHAMMER_FramePP)
TA_DEF_CDLHANGINGMAN == Pattern("CDLHANGINGMAN", TA_CDLHANGINGMAN_FramePP)
TA_DEF_CDLHARAMI == Pattern("CDLHARAMI", TA_CDLHARAMI_FramePP)
TA_DEF_CDLHARAMICROSS == Pattern("CDLHARAMICROSS", TA_CDLHARAMICROSS_FramePP)
TA_DEF_CDLHIGHWAVE == Pattern("CDLHIGHWAVE", TA_CDLHIGHWAVE_FramePP)
TA_DEF_CDLHIKKAKE == Pattern("CDLHIKKAKE", TA_CDLHIKKAKE_FramePP)
TA_DEF_CDLHIKKAKEMOD == Pattern("CDLHIKKAKEMOD", TA_CDLHIKKAKEMOD_FramePP)
TA_DEF_CDLHOMINGPIGEON == Pattern("CDLHOMINGPIGEON", TA_CDLHOMINGPIGEON_FramePP)
TA_DEF_CDLIDENTICAL3CROWS == Pattern("CDLIDENTICAL3CROWS", TA_CDLIDENTICAL3CROWS_FramePP)
TA_DEF_CDLINNECK == Pattern("CDLINNECK", TA_CDLINNECK_FramePP)
TA_DEF_CDLINVERTEDHAMMER == Pattern("CDLINVERTEDHAMMER", TA_CDLINVERTEDHAMMER_FramePP)
TA_DEF_CDLKICKING == Pattern("CDLKICKING", TA_CDLKICKING_FramePP)
TA_DEF_CDLKICKINGBYLENGTH == Pattern("CDLKICKINGBYLENGTH", TA_CDLKICKINGBYLENGTH_FramePP)
TA_DEF_CDLLADDERBOTTOM == Pattern("CDLLADDERBOTTOM", TA_CDLLADDERBOTTOM_FramePP)
TA_DEF_CDLLONGLEGGEDDOJI == Pattern("CDLLONGLEGGEDDOJI", TA_CDLLONGLEGGEDDOJI_FramePP)
TA_DEF_CDLLONGLINE == Pattern("CDLLONGLINE", TA_CDLLONGLINE_FramePP)
TA_DEF_CDLMARUBOZU == Pattern("CDLMARUBOZU", TA_CDLMARUBOZU_FramePP)
TA_DEF_CDLMATCHINGLOW == Pattern("CDLMATCHINGLOW", TA_CDLMATCHINGLOW_FramePP)
TA_DEF_CDLMATHOLD ==
    DEF_FUNCTION("CDLMATHOLD", "Pattern Recognition", <<TA_DEF_UI_Input_Price_OHLC>>,
        <<TA_DEF_UI_Penetration_50>>, <<TA_DEF_UI_Output_Integer>>, TA_CDLMATHOLD_FramePP)
TA_DEF_CDLMORNINGDOJISTAR ==
    DEF_FUNCTION("CDLMORNINGDOJISTAR", "Pattern Recognition", <<TA_DEF_UI_Input_Price_OHLC>>,
        <<TA_DEF_UI_Penetration_30>>, <<TA_DEF_UI_Output_Integer>>, TA_CDLMORNINGDOJISTAR_FramePP)
TA_DEF_CDLMORNINGSTAR ==
    DEF_FUNCTION("CDLMORNINGSTAR", "Pattern Recognition", <<TA_DEF_UI_Input_Price_OHLC>>,
        <<TA_DEF_UI_Penetration_30>>, <<TA_DEF_UI_Output_Integer>>, TA_CDLMORNINGSTAR_FramePP)
TA_DEF_CDLONNECK == Pattern("CDLONNECK", TA_CDLONNECK_FramePP)
TA_DEF_CDLPIERCING == Pattern("CDLPIERCING", TA_CDLPIERCING_FramePP)
TA_DEF_CDLRICKSHAWMAN == Pattern("CDLRICKSHAWMAN", TA_CDLRICKSHAWMAN_FramePP)
TA_DEF_CDLRISEFALL3METHODS == Pattern("CDLRISEFALL3METHODS", TA_CDLRISEFALL3METHODS_FramePP)
TA_DEF_CDLSEPARATINGLINES == Pattern("CDLSEPARATINGLINES", TA_CDLSEPARATINGLINES_FramePP)
TA_DEF_CDLSHOOTINGSTAR == Pattern("CDLSHOOTINGSTAR", TA_CDLSHOOTINGSTAR_FramePP)
TA_DEF_CDLSHORTLINE == Pattern("CDLSHORTLINE", TA_CDLSHORTLINE_FramePP)
TA_DEF_CDLSPINNINGTOP == Pattern("CDLSPINNINGTOP", TA_CDLSPINNINGTOP_FramePP)
TA_DEF_CDLSTALLEDPATTERN == Pattern("CDLSTALLEDPATTERN", TA_CDLSTALLEDPATTERN_FramePP)
TA_DEF_CDLSTICKSANDWICH == Pattern("CDLSTICKSANDWICH", TA_CDLSTICKSANDWICH_FramePP)
TA_DEF_CDLTAKURI == Pattern("CDLTAKURI", TA_CDLTAKURI_FramePP)
TA_DEF_CDLTASUKIGAP == Pattern("CDLTASUKIGAP", TA_CDLTASUKIGAP_FramePP)
TA_DEF_CDLTHRUSTING == Pattern("CDLTHRUSTING", TA_CDLTHRUSTING_FramePP)
TA_DEF_CDLTRISTAR == Pattern("CDLTRISTAR", TA_CDLTRISTAR_FramePP)
TA_DEF_CDLUNIQUE3RIVER == Pattern("CDLUNIQUE3RIVER", TA_CDLUNIQUE3RIVER_FramePP)
TA_DEF_CDLUPSIDEGAP2CROWS == Pattern("CDLUPSIDEGAP2CROWS", TA_CDLUPSIDEGAP2CROWS_FramePP)
TA_DEF_CDLXSIDEGAP3METHODS == Pattern("CDLXSIDEGAP3METHODS", TA_CDLXSIDEGAP3METHODS_FramePP)
TA_DEF_CEIL == DEF_MATH_UNARY_OPERATOR("CEIL", TA_CEIL_FramePP)
TA_DEF_CMO ==
    DEF_FUNCTION("CMO", "Momentum Indicators", <<TA_DEF_UI_Input_Real>>,
        <<TA_DEF_UI_TimePeriod_14_MINIMUM2>>, <<TA_DEF_UI_Output_Real>>, TA_CMO_FramePP)
TA_DEF_CORREL ==
    DEF_FUNCTION("CORREL", "Statistic Functions", <<TA_DEF_UI_Input_Real0, TA_DEF_UI_Input_Real1>>,
        <<TA_DEF_UI_TimePeriod_30>>, <<TA_DEF_UI_Output_Real>>, TA_CORREL_FramePP)
TA_DEF_COS == DEF_MATH_UNARY_OPERATOR("COS", TA_COS_FramePP)
TA_DEF_COSH == DEF_MATH_UNARY_OPERATOR("COSH", TA_COSH_FramePP)
TA_DEF_TableC ==
    <<TA_DEF_CCI, TA_DEF_CDL2CROWS, TA_DEF_CDL3BLACKCROWS, TA_DEF_CDL3INSIDE,
      TA_DEF_CDL3LINESTRIKE, TA_DEF_CDL3OUTSIDE, TA_DEF_CDL3STARSINSOUTH,
      TA_DEF_CDL3WHITESOLDIERS, TA_DEF_CDLABANDONEDBABY, TA_DEF_CDLADVANCEBLOCK,
      TA_DEF_CDLBELTHOLD, TA_DEF_CDLBREAKAWAY, TA_DEF_CDLCLOSINGMARUBOZU,
      TA_DEF_CDLCONCEALBABYSWALL, TA_DEF_CDLCOUNTERATTACK, TA_DEF_CDLDARKCLOUDCOVER,
      TA_DEF_CDLDOJI, TA_DEF_CDLDOJISTAR, TA_DEF_CDLDRAGONFLYDOJI, TA_DEF_CDLENGULFING,
      TA_DEF_CDLEVENINGDOJISTAR, TA_DEF_CDLEVENINGSTAR, TA_DEF_CDLGAPSIDESIDEWHITE,
      TA_DEF_CDLGRAVESTONEDOJI, TA_DEF_CDLHAMMER, TA_DEF_CDLHANGINGMAN, TA_DEF_CDLHARAMI,
      TA_DEF_CDLHARAMICROSS, TA_DEF_CDLHIGHWAVE, TA_DEF_CDLHIKKAKE, TA_DEF_CDLHIKKAKEMOD,
      TA_DEF_CDLHOMINGPIGEON, TA_DEF_CDLIDENTICAL3CROWS, TA_DEF_CDLINNECK,
      TA_DEF_CDLINVERTEDHAMMER, TA_DEF_CDLKICKING, TA_DEF_CDLKICKINGBYLENGTH,
      TA_DEF_CDLLADDERBOTTOM, TA_DEF_CDLLONGLEGGEDDOJI, TA_DEF_CDLLONGLINE, TA_DEF_CDLMARUBOZU,
      TA_DEF_CDLMATCHINGLOW, TA_DEF_CDLMATHOLD, TA_DEF_CDLMORNINGDOJISTAR, TA_DEF_CDLMORNINGSTAR,
      TA_DEF_CDLONNECK, TA_DEF_CDLPIERCING, TA_DEF_CDLRICKSHAWMAN, TA_DEF_CDLRISEFALL3METHODS,
      TA_DEF_CDLSEPARATINGLINES, TA_DEF_CDLSHOOTINGSTAR, TA_DEF_CDLSHORTLINE,
      TA_DEF_CDLSPINNINGTOP, TA_DEF_CDLSTALLEDPATTERN, TA_DEF_CDLSTICKSANDWICH, TA_DEF_CDLTAKURI,
      TA_DEF_CDLTASUKIGAP, TA_DEF_CDLTHRUSTING, TA_DEF_CDLTRISTAR, TA_DEF_CDLUNIQUE3RIVER,
      TA_DEF_CDLUPSIDEGAP2CROWS, TA_DEF_CDLXSIDEGAP3METHODS, TA_DEF_CEIL, TA_DEF_CMO,
      TA_DEF_CORREL, TA_DEF_COS, TA_DEF_COSH>>

TA_DEF_DEMA ==
    DEF_FUNCTION("DEMA", "Overlap Studies", <<TA_DEF_UI_Input_Real>>,
        <<TA_DEF_UI_TimePeriod_30_MINIMUM2>>, <<TA_DEF_UI_Output_Real>>, TA_DEMA_FramePP)
TA_DEF_DIV == DEF_MATH_BINARY_OPERATOR("DIV", TA_DIV_FramePP)
TA_DEF_DX ==
    DEF_FUNCTION("DX", "Momentum Indicators", <<TA_DEF_UI_Input_Price_HLC>>,
        <<TA_DEF_UI_TimePeriod_14_MINIMUM2>>, <<TA_DEF_UI_Output_Real>>, TA_DX_FramePP)
TA_DEF_TableD ==
    <<TA_DEF_DEMA, TA_DEF_DIV, TA_DEF_DX>>

TA_DEF_EMA ==
    DEF_FUNCTION("EMA", "Overlap Studies", <<TA_DEF_UI_Input_Real>>,
        <<TA_DEF_UI_TimePeriod_30_MINIMUM2>>, <<TA_DEF_UI_Output_Real>>, TA_EMA_FramePP)
TA_DEF_EXP == DEF_MATH_UNARY_OPERATOR("EXP", TA_EXP_FramePP)
TA_DEF_TableE ==
    <<TA_DEF_EMA, TA_DEF_EXP>>

TA_DEF_FLOOR == DEF_MATH_UNARY_OPERATOR("FLOOR", TA_FLOOR_FramePP)
TA_DEF_TableF ==
    <<TA_DEF_FLOOR>>

TA_DEF_HT_DCPERIOD ==
    DEF_FUNCTION("HT_DCPERIOD", "Cycle Indicators", <<TA_DEF_UI_Input_Real>>, <<>>,
        <<TA_DEF_UI_Output_Real>>, TA_HT_DCPERIOD_FramePP)
TA_DEF_HT_DCPHASE ==
    DEF_FUNCTION("HT_DCPHASE", "Cycle Indicators", <<TA_DEF_UI_Input_Real>>, <<>>,
        <<TA_DEF_UI_Output_Real>>, TA_HT_DCPHASE_FramePP)
TA_DEF_HT_PHASOR ==
    DEF_FUNCTION("HT_PHASOR", "Cycle Indicators", <<TA_DEF_UI_Input_Real>>, <<>>,
        <<TA_DEF_UI_Output_Real_InPhase, TA_DEF_UI_Output_Real_Quadrature>>, TA_HT_PHASOR_FramePP)
TA_DEF_HT_SINE ==
    DEF_FUNCTION("HT_SINE", "Cycle Indicators", <<TA_DEF_UI_Input_Real>>, <<>>,
        <<TA_DEF_UI_Output_Real_Sine, TA_DEF_UI_Output_Real_LeadSine>>, TA_HT_SINE_FramePP)
TA_DEF_HT_TRENDLINE ==
    DEF_FUNCTION("HT_TRENDLINE", "Overlap Studies", <<TA_DEF_UI_Input_Real>>, <<>>,
        <<TA_DEF_UI_Output_Real>>, TA_HT_TRENDLINE_FramePP)
TA_DEF_HT_TRENDMODE ==
    DEF_FUNCTION("HT_TRENDMODE", "Cycle Indicators", <<TA_DEF_UI_Input_Real>>, <<>>,
        <<TA_DEF_UI_Output_Integer>>, TA_HT_TRENDMODE_FramePP)
TA_DEF_TableH ==
    <<TA_DEF_HT_DCPERIOD, TA_DEF_HT_DCPHASE, TA_DEF_HT_PHASOR, TA_DEF_HT_SINE,
      TA_DEF_HT_TRENDLINE, TA_DEF_HT_TRENDMODE>>

TA_DEF_KAMA ==
    DEF_FUNCTION("KAMA", "Overlap Studies", <<TA_DEF_UI_Input_Real>>,
        <<TA_DEF_UI_TimePeriod_30_MINIMUM2>>, <<TA_DEF_UI_Output_Real>>, TA_KAMA_FramePP)
TA_DEF_TableK ==
    <<TA_DEF_KAMA>>

TA_DEF_LINEARREG ==
    DEF_FUNCTION("LINEARREG", "Statistic Functions", <<TA_DEF_UI_Input_Real>>,
        <<TA_DEF_UI_TimePeriod_14_MINIMUM2>>, <<TA_DEF_UI_Output_Real>>, TA_LINEARREG_FramePP)
TA_DEF_LINEARREG_ANGLE ==
    DEF_FUNCTION("LINEARREG_ANGLE", "Statistic Functions", <<TA_DEF_UI_Input_Real>>,
        <<TA_DEF_UI_TimePeriod_14_MINIMUM2>>, <<TA_DEF_UI_Output_Real>>,
        TA_LINEARREG_ANGLE_FramePP)
TA_DEF_LINEARREG_INTERCEPT ==
    DEF_FUNCTION("LINEARREG_INTERCEPT", "Statistic Functions", <<TA_DEF_UI_Input_Real>>,
        <<TA_DEF_UI_TimePeriod_14_MINIMUM2>>, <<TA_DEF_UI_Output_Real>>,
        TA_LINEARREG_INTERCEPT_FramePP)
TA_DEF_LINEARREG_SLOPE ==
    DEF_FUNCTION("LINEARREG_SLOPE", "Statistic Functions", <<TA_DEF_UI_Input_Real>>,
        <<TA_DEF_UI_TimePeriod_14_MINIMUM2>>, <<TA_DEF_UI_Output_Real>>,
        TA_LINEARREG_SLOPE_FramePP)
TA_DEF_LN == DEF_MATH_UNARY_OPERATOR("LN", TA_LN_FramePP)
TA_DEF_LOG10 == DEF_MATH_UNARY_OPERATOR("LOG10", TA_LOG10_FramePP)
TA_DEF_TableL ==
    <<TA_DEF_LINEARREG, TA_DEF_LINEARREG_ANGLE, TA_DEF_LINEARREG_INTERCEPT,
      TA_DEF_LINEARREG_SLOPE, TA_DEF_LN, TA_DEF_LOG10>>

TA_DEF_MA ==
    DEF_FUNCTION("MA", "Overlap Studies", <<TA_DEF_UI_Input_Real>>, <<TA_DEF_UI_TimePeriod_30,
        TA_DEF_UI_MA_Method>>, <<TA_DEF_UI_Output_Real>>, TA_MA_FramePP)
TA_DEF_MACD ==
    DEF_FUNCTION("MACD", "Momentum Indicators", <<TA_DEF_UI_Input_Real>>, <<TA_DEF_UI_Fast_Period,
        TA_DEF_UI_Slow_Period, TA_DEF_UI_Signal_Period>>, <<TA_DEF_UI_Output_Real_MACD,
        TA_DEF_UI_Output_Real_MACDSignal, TA_DEF_UI_Output_Real_MACDHist>>, TA_MACD_FramePP)
TA_DEF_MACDEXT ==
    DEF_FUNCTION("MACDEXT", "Momentum Indicators", <<TA_DEF_UI_Input_Real>>,
        <<TA_DEF_UI_Fast_Period, TA_DEF_UI_Fast_MA_Type, TA_DEF_UI_Slow_Period,
        TA_DEF_UI_Slow_MA_Type, TA_DEF_UI_Signal_Period, TA_DEF_UI_Signal_MA_Type>>,
        <<TA_DEF_UI_Output_Real_MACD, TA_DEF_UI_Output_Real_MACDSignal,
        TA_DEF_UI_Output_Real_MACDHist>>, TA_MACDEXT_FramePP)
TA_DEF_MACDFIX ==
    DEF_FUNCTION("MACDFIX", "Momentum Indicators", <<TA_DEF_UI_Input_Real>>,
        <<TA_DEF_UI_Signal_Period>>, <<TA_DEF_UI_Output_Real_MACD,
        TA_DEF_UI_Output_Real_MACDSignal, TA_DEF_UI_Output_Real_MACDHist>>, TA_MACDFIX_FramePP)
TA_DEF_MAMA ==
    DEF_FUNCTION("MAMA", "Overlap Studies", <<TA_DEF_UI_Input_Real>>, <<TA_DEF_UI_MAMA_FastLimit,
        TA_DEF_UI_MAMA_SlowLimit>>, <<TA_DEF_UI_Output_Real_MAMA, TA_DEF_UI_Output_Real_FAMA>>,
        TA_MAMA_FramePP)
TA_DEF_MAVP ==
    DEF_FUNCTION("MAVP", "Overlap Studies", <<TA_DEF_UI_Input_Real, TA_DEF_UI_Input_Periods>>,
        <<TA_DEF_UI_MinPeriod, TA_DEF_UI_MaxPeriod, TA_DEF_UI_MA_Method>>,
        <<TA_DEF_UI_Output_Real>>, TA_MAVP_FramePP)
TA_DEF_MAX ==
    DEF_FUNCTION("MAX", "Math Operators", <<TA_DEF_UI_Input_Real>>,
        <<TA_DEF_UI_TimePeriod_30_MINIMUM2>>, <<TA_DEF_UI_Output_Real>>, TA_MAX_FramePP)
TA_DEF_MAXINDEX ==
    DEF_FUNCTION("MAXINDEX", "Math Operators", <<TA_DEF_UI_Input_Real>>,
        <<TA_DEF_UI_TimePeriod_30_MINIMUM2>>, <<TA_DEF_UI_Output_Integer>>, TA_MAXINDEX_FramePP)
TA_DEF_MEDPRICE ==
    DEF_FUNCTION("MEDPRICE", "Price Transform", <<TA_DEF_UI_Input_Price_HL>>, <<>>,
        <<TA_DEF_UI_Output_Real>>, TA_MEDPRICE_FramePP)
TA_DEF_MFI ==
    DEF_FUNCTION("MFI", "Momentum Indicators", <<TA_DEF_UI_Input_Price_HLCV>>,
        <<TA_DEF_UI_TimePeriod_14_MINIMUM2>>, <<TA_DEF_UI_Output_Real>>, TA_MFI_FramePP)
TA_DEF_MIDPOINT ==
    DEF_FUNCTION("MIDPOINT", "Overlap Studies", <<TA_DEF_UI_Input_Real>>,
        <<TA_DEF_UI_TimePeriod_14_MINIMUM2>>, <<TA_DEF_UI_Output_Real>>, TA_MIDPOINT_FramePP)
TA_DEF_MIDPRICE ==
    DEF_FUNCTION("MIDPRICE", "Overlap Studies", <<TA_DEF_UI_Input_Price_HL>>,
        <<TA_DEF_UI_TimePeriod_14_MINIMUM2>>, <<TA_DEF_UI_Output_Real>>, TA_MIDPRICE_FramePP)
TA_DEF_MIN ==
    DEF_FUNCTION("MIN", "Math Operators", <<TA_DEF_UI_Input_Real>>,
        <<TA_DEF_UI_TimePeriod_30_MINIMUM2>>, <<TA_DEF_UI_Output_Real>>, TA_MIN_FramePP)
TA_DEF_MININDEX ==
    DEF_FUNCTION("MININDEX", "Math Operators", <<TA_DEF_UI_Input_Real>>,
        <<TA_DEF_UI_TimePeriod_30_MINIMUM2>>, <<TA_DEF_UI_Output_Integer>>, TA_MININDEX_FramePP)
TA_DEF_MINMAX ==
    DEF_FUNCTION("MINMAX", "Math Operators", <<TA_DEF_UI_Input_Real>>,
        <<TA_DEF_UI_TimePeriod_30_MINIMUM2>>, <<TA_DEF_UI_Output_Real_Min,
        TA_DEF_UI_Output_Real_Max>>, TA_MINMAX_FramePP)
TA_DEF_MINMAXINDEX ==
    DEF_FUNCTION("MINMAXINDEX", "Math Operators", <<TA_DEF_UI_Input_Real>>,
        <<TA_DEF_UI_TimePeriod_30_MINIMUM2>>, <<TA_DEF_UI_Output_Integer_MinIdx,
        TA_DEF_UI_Output_Integer_MaxIdx>>, TA_MINMAXINDEX_FramePP)
TA_DEF_MINUS_DI ==
    DEF_FUNCTION("MINUS_DI", "Momentum Indicators", <<TA_DEF_UI_Input_Price_HLC>>,
        <<TA_DEF_UI_TimePeriod_14>>, <<TA_DEF_UI_Output_Real>>, TA_MINUS_DI_FramePP)
TA_DEF_MINUS_DM ==
    DEF_FUNCTION("MINUS_DM", "Momentum Indicators", <<TA_DEF_UI_Input_Price_HL>>,
        <<TA_DEF_UI_TimePeriod_14>>, <<TA_DEF_UI_Output_Real>>, TA_MINUS_DM_FramePP)
TA_DEF_MOM ==
    DEF_FUNCTION("MOM", "Momentum Indicators", <<TA_DEF_UI_Input_Real>>,
        <<TA_DEF_UI_TimePeriod_10>>, <<TA_DEF_UI_Output_Real>>, TA_MOM_FramePP)
TA_DEF_MULT == DEF_MATH_BINARY_OPERATOR("MULT", TA_MULT_FramePP)
TA_DEF_TableM ==
    <<TA_DEF_MA, TA_DEF_MACD, TA_DEF_MACDEXT, TA_DEF_MACDFIX, TA_DEF_MAMA, TA_DEF_MAVP,
      TA_DEF_MAX, TA_DEF_MAXINDEX, TA_DEF_MEDPRICE, TA_DEF_MFI, TA_DEF_MIDPOINT, TA_DEF_MIDPRICE,
      TA_DEF_MIN, TA_DEF_MININDEX, TA_DEF_MINMAX, TA_DEF_MINMAXINDEX, TA_DEF_MINUS_DI,
      TA_DEF_MINUS_DM, TA_DEF_MOM, TA_DEF_MULT>>

TA_DEF_NATR ==
    DEF_FUNCTION("NATR", "Volatility Indicators", <<TA_DEF_UI_Input_Price_HLC>>,
        <<TA_DEF_UI_TimePeriod_14>>, <<TA_DEF_UI_Output_Real>>, TA_NATR_FramePP)
TA_DEF_TableN ==
    <<TA_DEF_NATR>>

TA_DEF_OBV ==
    DEF_FUNCTION("OBV", "Volume Indicators", <<TA_DEF_UI_Input_Real, TA_DEF_UI_Input_Price_V>>,
        <<>>, <<TA_DEF_UI_Output_Real>>, TA_OBV_FramePP)
TA_DEF_TableO ==
    <<TA_DEF_OBV>>

TA_DEF_PLUS_DI ==
    DEF_FUNCTION("PLUS_DI", "Momentum Indicators", <<TA_DEF_UI_Input_Price_HLC>>,
        <<TA_DEF_UI_TimePeriod_14>>, <<TA_DEF_UI_Output_Real>>, TA_PLUS_DI_FramePP)
TA_DEF_PLUS_DM ==
    DEF_FUNCTION("PLUS_DM", "Momentum Indicators", <<TA_DEF_UI_Input_Price_HL>>,
        <<TA_DEF_UI_TimePeriod_14>>, <<TA_DEF_UI_Output_Real>>, TA_PLUS_DM_FramePP)
TA_DEF_PPO ==
    DEF_FUNCTION("PPO", "Momentum Indicators", <<TA_DEF_UI_Input_Real>>, <<TA_DEF_UI_Fast_Period,
        TA_DEF_UI_Slow_Period, TA_DEF_UI_MA_Method>>, <<TA_DEF_UI_Output_Real>>, TA_PPO_FramePP)
TA_DEF_TableP ==
    <<TA_DEF_PLUS_DI, TA_DEF_PLUS_DM, TA_DEF_PPO>>

TA_DEF_ROC ==
    DEF_FUNCTION("ROC", "Momentum Indicators", <<TA_DEF_UI_Input_Real>>,
        <<TA_DEF_UI_TimePeriod_10>>, <<TA_DEF_UI_Output_Real>>, TA_ROC_FramePP)
TA_DEF_ROCP ==
    DEF_FUNCTION("ROCP", "Momentum Indicators", <<TA_DEF_UI_Input_Real>>,
        <<TA_DEF_UI_TimePeriod_10>>, <<TA_DEF_UI_Output_Real>>, TA_ROCP_FramePP)
TA_DEF_ROCR ==
    DEF_FUNCTION("ROCR", "Momentum Indicators", <<TA_DEF_UI_Input_Real>>,
        <<TA_DEF_UI_TimePeriod_10>>, <<TA_DEF_UI_Output_Real>>, TA_ROCR_FramePP)
TA_DEF_ROCR100 ==
    DEF_FUNCTION("ROCR100", "Momentum Indicators", <<TA_DEF_UI_Input_Real>>,
        <<TA_DEF_UI_TimePeriod_10>>, <<TA_DEF_UI_Output_Real>>, TA_ROCR100_FramePP)
TA_DEF_RSI ==
    DEF_FUNCTION("RSI", "Momentum Indicators", <<TA_DEF_UI_Input_Real>>,
        <<TA_DEF_UI_TimePeriod_14_MINIMUM2>>, <<TA_DEF_UI_Output_Real>>, TA_RSI_FramePP)
TA_DEF_TableR ==
    <<TA_DEF_ROC, TA_DEF_ROCP, TA_DEF_ROCR, TA_DEF_ROCR100, TA_DEF_RSI>>

TA_DEF_SAR ==
    DEF_FUNCTION("SAR", "Overlap Studies", <<TA_DEF_UI_Input_Price_HL>>,
        <<TA_DEF_UI_D_AccelerationFactor, TA_DEF_UI_D_AccelerationMaximum>>,
        <<TA_DEF_UI_Output_Real>>, TA_SAR_FramePP)
TA_DEF_SAREXT ==
    DEF_FUNCTION("SAREXT", "Overlap Studies", <<TA_DEF_UI_Input_Price_HL>>,
        <<TA_DEF_UI_D_StartValue, TA_DEF_UI_D_OffsetOnReverse, TA_DEF_UI_D_AccelerationInitLong,
        TA_DEF_UI_D_AccelerationLong, TA_DEF_UI_D_AccelerationMaxLong,
        TA_DEF_UI_D_AccelerationInitShort, TA_DEF_UI_D_AccelerationShort,
        TA_DEF_UI_D_AccelerationMaxShort>>, <<TA_DEF_UI_Output_Real>>, TA_SAREXT_FramePP)
TA_DEF_SIN == DEF_MATH_UNARY_OPERATOR("SIN", TA_SIN_FramePP)
TA_DEF_SINH == DEF_MATH_UNARY_OPERATOR("SINH", TA_SINH_FramePP)
TA_DEF_SMA ==
    DEF_FUNCTION("SMA", "Overlap Studies", <<TA_DEF_UI_Input_Real>>,
        <<TA_DEF_UI_TimePeriod_30_MINIMUM2>>, <<TA_DEF_UI_Output_Real>>, TA_SMA_FramePP)
TA_DEF_SQRT == DEF_MATH_UNARY_OPERATOR("SQRT", TA_SQRT_FramePP)
TA_DEF_STDDEV ==
    DEF_FUNCTION("STDDEV", "Statistic Functions", <<TA_DEF_UI_Input_Real>>,
        <<TA_DEF_UI_TimePeriod_5_MINIMUM2, TA_DEF_UI_NbDeviation>>, <<TA_DEF_UI_Output_Real>>,
        TA_STDDEV_FramePP)
TA_DEF_STOCH ==
    DEF_FUNCTION("STOCH", "Momentum Indicators", <<TA_DEF_UI_Input_Price_HLC>>,
        <<TA_DEF_UI_FastK_Period, TA_DEF_UI_SlowK_Period, TA_DEF_UI_SlowK_MAType,
        TA_DEF_UI_SlowD_Period, TA_DEF_UI_SlowD_MAType>>, <<TA_DEF_UI_Output_SlowK,
        TA_DEF_UI_Output_SlowD>>, TA_STOCH_FramePP)
TA_DEF_STOCHF ==
    DEF_FUNCTION("STOCHF", "Momentum Indicators", <<TA_DEF_UI_Input_Price_HLC>>,
        <<TA_DEF_UI_FastK_Period, TA_DEF_UI_FastD_Period, TA_DEF_UI_FastD_MAType>>,
        <<TA_DEF_UI_Output_FastK, TA_DEF_UI_Output_FastD>>, TA_STOCHF_FramePP)
TA_DEF_STOCHRSI ==
    DEF_FUNCTION("STOCHRSI", "Momentum Indicators", <<TA_DEF_UI_Input_Real>>,
        <<TA_DEF_UI_TimePeriod_14_MINIMUM2, TA_DEF_UI_FastK_Period, TA_DEF_UI_FastD_Period,
        TA_DEF_UI_FastD_MAType>>, <<TA_DEF_UI_Output_FastK, TA_DEF_UI_Output_FastD>>,
        TA_STOCHRSI_FramePP)
TA_DEF_SUB == DEF_MATH_BINARY_OPERATOR("SUB", TA_SUB_FramePP)
TA_DEF_SUM ==
    DEF_FUNCTION("SUM", "Math Operators", <<TA_DEF_UI_Input_Real>>,
        <<TA_DEF_UI_TimePeriod_30_MINIMUM2>>, <<TA_DEF_UI_Output_Real>>, TA_SUM_FramePP)
TA_DEF_TableS ==
    <<TA_DEF_SAR, TA_DEF_SAREXT, TA_DEF_SIN, TA_DEF_SINH, TA_DEF_SMA, TA_DEF_SQRT,
      TA_DEF_STDDEV, TA_DEF_STOCH, TA_DEF_STOCHF, TA_DEF_STOCHRSI, TA_DEF_SUB, TA_DEF_SUM>>

TA_DEF_T3 ==
    DEF_FUNCTION("T3", "Overlap Studies", <<TA_DEF_UI_Input_Real>>,
        <<TA_DEF_UI_TimePeriod_5_MINIMUM2, TA_DEF_UI_VFactor>>, <<TA_DEF_UI_Output_Real>>,
        TA_T3_FramePP)
TA_DEF_TAN == DEF_MATH_UNARY_OPERATOR("TAN", TA_TAN_FramePP)
TA_DEF_TANH == DEF_MATH_UNARY_OPERATOR("TANH", TA_TANH_FramePP)
TA_DEF_TEMA ==
    DEF_FUNCTION("TEMA", "Overlap Studies", <<TA_DEF_UI_Input_Real>>,
        <<TA_DEF_UI_TimePeriod_30_MINIMUM2>>, <<TA_DEF_UI_Output_Real>>, TA_TEMA_FramePP)
TA_DEF_TRANGE ==
    DEF_FUNCTION("TRANGE", "Volatility Indicators", <<TA_DEF_UI_Input_Price_HLC>>, <<>>,
        <<TA_DEF_UI_Output_Real>>, TA_TRANGE_FramePP)
TA_DEF_TRIMA ==
    DEF_FUNCTION("TRIMA", "Overlap Studies", <<TA_DEF_UI_Input_Real>>,
        <<TA_DEF_UI_TimePeriod_30_MINIMUM2>>, <<TA_DEF_UI_Output_Real>>, TA_TRIMA_FramePP)
TA_DEF_TRIX ==
    DEF_FUNCTION("TRIX", "Momentum Indicators", <<TA_DEF_UI_Input_Real>>,
        <<TA_DEF_UI_TimePeriod_30>>, <<TA_DEF_UI_Output_Real>>, TA_TRIX_FramePP)
TA_DEF_TSF ==
    DEF_FUNCTION("TSF", "Statistic Functions", <<TA_DEF_UI_Input_Real>>,
        <<TA_DEF_UI_TimePeriod_14_MINIMUM2>>, <<TA_DEF_UI_Output_Real>>, TA_TSF_FramePP)
TA_DEF_TYPPRICE ==
    DEF_FUNCTION("TYPPRICE", "Price Transform", <<TA_DEF_UI_Input_Price_HLC>>, <<>>,
        <<TA_DEF_UI_Output_Real>>, TA_TYPPRICE_FramePP)
TA_DEF_TableT ==
    <<TA_DEF_T3, TA_DEF_TAN, TA_DEF_TANH, TA_DEF_TEMA, TA_DEF_TRANGE, TA_DEF_TRIMA, TA_DEF_TRIX,
      TA_DEF_TSF, TA_DEF_TYPPRICE>>

TA_DEF_ULTOSC ==
    DEF_FUNCTION("ULTOSC", "Momentum Indicators", <<TA_DEF_UI_Input_Price_HLC>>,
        <<TA_DEF_UI_TimePeriod_7_PER1, TA_DEF_UI_TimePeriod_14_PER2,
        TA_DEF_UI_TimePeriod_28_PER3>>, <<TA_DEF_UI_Output_Real>>, TA_ULTOSC_FramePP)
TA_DEF_TableU ==
    <<TA_DEF_ULTOSC>>

TA_DEF_VAR ==
    DEF_FUNCTION("VAR", "Statistic Functions", <<TA_DEF_UI_Input_Real>>, <<TA_DEF_UI_TimePeriod_5,
        TA_DEF_UI_NbDeviation>>, <<TA_DEF_UI_Output_Real>>, TA_VAR_FramePP)
TA_DEF_TableV ==
    <<TA_DEF_VAR>>

TA_DEF_WCLPRICE ==
    DEF_FUNCTION("WCLPRICE", "Price Transform", <<TA_DEF_UI_Input_Price_HLC>>, <<>>,
        <<TA_DEF_UI_Output_Real>>, TA_WCLPRICE_FramePP)
TA_DEF_WILLR ==
    DEF_FUNCTION("WILLR", "Momentum Indicators", <<TA_DEF_UI_Input_Price_HLC>>,
        <<TA_DEF_UI_TimePeriod_14_MINIMUM2>>, <<TA_DEF_UI_Output_Real>>, TA_WILLR_FramePP)
TA_DEF_WMA ==
    DEF_FUNCTION("WMA", "Overlap Studies", <<TA_DEF_UI_Input_Real>>,
        <<TA_DEF_UI_TimePeriod_30_MINIMUM2>>, <<TA_DEF_UI_Output_Real>>, TA_WMA_FramePP)
TA_DEF_TableW ==
    <<TA_DEF_WCLPRICE, TA_DEF_WILLR, TA_DEF_WMA>>

\* All functions, in the order of the tables; the other letters have an empty table.
\* Letters no function starts with.
TA_DEF_TableG == <<>>
TA_DEF_TableI == <<>>
TA_DEF_TableJ == <<>>
TA_DEF_TableQ == <<>>
TA_DEF_TableX == <<>>
TA_DEF_TableY == <<>>
TA_DEF_TableZ == <<>>

\* One table per letter.
TA_DEF_Tables ==
    <<TA_DEF_TableA, TA_DEF_TableB, TA_DEF_TableC, TA_DEF_TableD, TA_DEF_TableE, TA_DEF_TableF,
      TA_DEF_TableG, TA_DEF_TableH, TA_DEF_TableI, TA_DEF_TableJ, TA_DEF_TableK, TA_DEF_TableL,
      TA_DEF_TableM, TA_DEF_TableN, TA_DEF_TableO, TA_DEF_TableP, TA_DEF_TableQ, TA_DEF_TableR,
      TA_DEF_TableS, TA_DEF_TableT, TA_DEF_TableU, TA_DEF_TableV, TA_DEF_TableW, TA_DEF_TableX,
      TA_DEF_TableY, TA_DEF_TableZ>>
===============================================================================
