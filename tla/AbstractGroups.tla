---------------------------- MODULE AbstractGroups ----------------------------
(***************************************************************************)
(* The groups (ta_abstract/ta_def_ui.c) and the functions each of them     *)
(* lists (ta_abstract/ta_group_idx.c).                                     *)
(***************************************************************************)

TA_GroupString ==
    <<"Math Operators", "Math Transform", "Overlap Studies", "Volatility Indicators",
      "Momentum Indicators", "Cycle Indicators", "Volume Indicators", "Pattern Recognition",
      "Statistic Functions", "Price Transform">>

TA_PerGroupFunc_0 ==
    <<"ADD", "DIV", "MAX", "MAXINDEX", "MIN", "MININDEX", "MINMAX", "MINMAXINDEX", "MULT",
      "SUB", "SUM">>
TA_PerGroupFunc_1 ==
    <<"ACOS", "ASIN", "ATAN", "CEIL", "COS", "COSH", "EXP", "FLOOR", "LN", "LOG10", "SIN",
      "SINH", "SQRT", "TAN", "TANH">>
TA_PerGroupFunc_2 ==
    <<"BBANDS", "DEMA", "EMA", "HT_TRENDLINE", "KAMA", "MA", "MAMA", "MAVP", "MIDPOINT",
      "MIDPRICE", "SAR", "SAREXT", "SMA", "T3", "TEMA", "TRIMA", "WMA">>
TA_PerGroupFunc_3 ==
    <<"ATR", "NATR", "TRANGE">>
TA_PerGroupFunc_4 ==
    <<"ADX", "ADXR", "APO", "AROON", "AROONOSC", "BOP", "CCI", "CMO", "DX", "MACD", "MACDEXT",
      "MACDFIX", "MFI", "MINUS_DI", "MINUS_DM", "MOM", "PLUS_DI", "PLUS_DM", "PPO", "ROC",
      "ROCP", "ROCR", "ROCR100", "RSI", "STOCH", "STOCHF", "STOCHRSI", "TRIX", "ULTOSC", "WILLR">>
TA_PerGroupFunc_5 ==
    <<"HT_DCPERIOD", "HT_DCPHASE", "HT_PHASOR", "HT_SINE", "HT_TRENDMODE">>
TA_PerGroupFunc_6 ==
    <<"AD", "ADOSC", "OBV">>
TA_PerGroupFunc_7 ==
    <<"CDL2CROWS", "CDL3BLACKCROWS", "CDL3INSIDE", "CDL3LINESTRIKE", "CDL3OUTSIDE",
      "CDL3STARSINSOUTH", "CDL3WHITESOLDIERS", "CDLABANDONEDBABY", "CDLADVANCEBLOCK",
      "CDLBELTHOLD", "CDLBREAKAWAY", "CDLCLOSINGMARUBOZU", "CDLCONCEALBABYSWALL",
      "CDLCOUNTERATTACK", "CDLDARKCLOUDCOVER", "CDLDOJI", "CDLDOJISTAR", "CDLDRAGONFLYDOJI",
      "CDLENGULFING", "CDLEVENINGDOJISTAR", "CDLEVENINGSTAR", "CDLGAPSIDESIDEWHITE",
      "CDLGRAVESTONEDOJI", "CDLHAMMER", "CDLHANGINGMAN", "CDLHARAMI", "CDLHARAMICROSS",
      "CDLHIGHWAVE", "CDLHIKKAKE", "CDLHIKKAKEMOD", "CDLHOMINGPIGEON", "CDLIDENTICAL3CROWS",
      "CDLINNECK", "CDLINVERTEDHAMMER", "CDLKICKING", "CDLKICKINGBYLENGTH", "CDLLADDERBOTTOM",
      "CDLLONGLEGGEDDOJI", "CDLLONGLINE", "CDLMARUBOZU", "CDLMATCHINGLOW", "CDLMATHOLD",
      "CDLMORNINGDOJISTAR", "CDLMORNINGSTAR", "CDLONNECK", "CDLPIERCING", "CDLRICKSHAWMAN",
      "CDLRISEFALL3METHODS", "CDLSEPARATINGLINES", "CDLSHOOTINGSTAR", "CDLSHORTLINE",
      "CDLSPINNINGTOP", "CDLSTALLEDPATTERN", "CDLSTICKSANDWICH", "CDLTAKURI", "CDLTASUKIGAP",
      "CDLTHRUSTING", "CDLTRISTAR", "CDLUNIQUE3RIVER", "CDLUPSIDEGAP2CROWS", "CDLXSIDEGAP3METHODS">>

\* Mutant of TA_PerGroupFunc_8: not generated again since LINEARREG_ANGLE was added.
TA_PerGroupFunc_8Before ==
    <<"BETA", "CORREL", "LINEARREG", "LINEARREG_INTERCEPT",
      "LINEARREG_SLOPE", "STDDEV", "TSF", "VAR">>

TA_PerGroupFunc_8 ==
    <<"BETA", "CORREL", "LINEARREG", "LINEARREG_ANGLE", "LINEARREG_INTERCEPT",
      "LINEARREG_SLOPE", "STDDEV", "TSF", "VAR">>
TA_PerGroupFunc_9 ==
    <<"AVGPRICE", "MEDPRICE", "TYPPRICE", "WCLPRICE">>

\* The lists in the order of TA_GroupString.
TA_PerGroupFuncDef ==
    <<TA_PerGroupFunc_0, TA_PerGroupFunc_1, TA_PerGroupFunc_2, TA_PerGroupFunc_3,
      TA_PerGroupFunc_4, TA_PerGroupFunc_5, TA_PerGroupFunc_6, TA_PerGroupFunc_7,
      TA_PerGroupFunc_8, TA_PerGroupFunc_9>>
===============================================================================
