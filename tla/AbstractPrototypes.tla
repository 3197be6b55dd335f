-------------------------- MODULE AbstractPrototypes --------------------------
(***************************************************************************)
(* The parameters of every TA-Lib function, in the order its prototype     *)
(* declares them (include/ta_func.h).  startIdx, endIdx, outBegIdx and     *)
(* outNBElement are left out.                                              *)
(***************************************************************************)
EXTENDS Sequences

inOHLC == <<"inOpen", "inHigh", "inLow", "inClose">>
inHLCV == <<"inHigh", "inLow", "inClose", "inVolume">>
inHLC  == <<"inHigh", "inLow", "inClose">>
inHL   == <<"inHigh", "inLow">>

TA_ACOS == <<"inReal", "outReal">>
TA_AD == inHLCV \o <<"outReal">>
TA_ADD == <<"inReal0", "inReal1", "outReal">>
TA_ADOSC == inHLCV \o <<"optInFastPeriod", "optInSlowPeriod", "outReal">>
TA_ADX == inHLC \o <<"optInTimePeriod", "outReal">>
TA_ADXR == inHLC \o <<"optInTimePeriod", "outReal">>
TA_APO == <<"inReal", "optInFastPeriod", "optInSlowPeriod", "optInMAType", "outReal">>
TA_AROON == inHL \o <<"optInTimePeriod", "outAroonDown", "outAroonUp">>
TA_AROONOSC == inHL \o <<"optInTimePeriod", "outReal">>
TA_ASIN == <<"inReal", "outReal">>
TA_ATAN == <<"inReal", "outReal">>
TA_ATR == inHLC \o <<"optInTimePeriod", "outReal">>
TA_AVGPRICE == inOHLC \o <<"outReal">>
TA_BBANDS ==
    <<"inReal", "optInTimePeriod", "optInNbDevUp", "optInNbDevDn", "optInMAType",
        "outRealUpperBand", "outRealMiddleBand", "outRealLowerBand">>
TA_BETA == <<"inReal0", "inReal1", "optInTimePeriod", "outReal">>
TA_BOP == inOHLC \o <<"outReal">>
TA_CCI == inHLC \o <<"optInTimePeriod", "outReal">>
TA_CDL2CROWS == inOHLC \o <<"outInteger">>
TA_CDL3BLACKCROWS == inOHLC \o <<"outInteger">>
TA_CDL3INSIDE == inOHLC \o <<"outInteger">>
TA_CDL3LINESTRIKE == inOHLC \o <<"outInteger">>
TA_CDL3OUTSIDE == inOHLC \o <<"outInteger">>
TA_CDL3STARSINSOUTH == inOHLC \o <<"outInteger">>
TA_CDL3WHITESOLDIERS == inOHLC \o <<"outInteger">>
TA_CDLABANDONEDBABY == inOHLC \o <<"optInPenetration", "outInteger">>
TA_CDLADVANCEBLOCK == inOHLC \o <<"outInteger">>
TA_CDLBELTHOLD == inOHLC \o <<"outInteger">>
TA_CDLBREAKAWAY == inOHLC \o <<"outInteger">>
TA_CDLCLOSINGMARUBOZU == inOHLC \o <<"outInteger">>
TA_CDLCONCEALBABYSWALL == inOHLC \o <<"outInteger">>
TA_CDLCOUNTERATTACK == inOHLC \o <<"outInteger">>
TA_CDLDARKCLOUDCOVER == inOHLC \o <<"optInPenetration", "outInteger">>
TA_CDLDOJI == inOHLC \o <<"outInteger">>
TA_CDLDOJISTAR == inOHLC \o <<"outInteger">>
TA_CDLDRAGONFLYDOJI == inOHLC \o <<"outInteger">>
TA_CDLENGULFING == inOHLC \o <<"outInteger">>
TA_CDLEVENINGDOJISTAR == inOHLC \o <<"optInPenetration", "outInteger">>
TA_CDLEVENINGSTAR == inOHLC \o <<"optInPenetration", "outInteger">>
TA_CDLGAPSIDESIDEWHITE == inOHLC \o <<"outInteger">>
TA_CDLGRAVESTONEDOJI == inOHLC \o <<"outInteger">>
TA_CDLHAMMER == inOHLC \o <<"outInteger">>
TA_CDLHANGINGMAN == inOHLC \o <<"outInteger">>
TA_CDLHARAMI == inOHLC \o <<"outInteger">>
TA_CDLHARAMICROSS == inOHLC \o <<"outInteger">>
TA_CDLHIGHWAVE == inOHLC \o <<"outInteger">>
TA_CDLHIKKAKE == inOHLC \o <<"outInteger">>
TA_CDLHIKKAKEMOD == inOHLC \o <<"outInteger">>
TA_CDLHOMINGPIGEON == inOHLC \o <<"outInteger">>
TA_CDLIDENTICAL3CROWS == inOHLC \o <<"outInteger">>
TA_CDLINNECK == inOHLC \o <<"outInteger">>
TA_CDLINVERTEDHAMMER == inOHLC \o <<"outInteger">>
TA_CDLKICKING == inOHLC \o <<"outInteger">>
TA_CDLKICKINGBYLENGTH == inOHLC \o <<"outInteger">>
TA_CDLLADDERBOTTOM == inOHLC \o <<"outInteger">>
TA_CDLLONGLEGGEDDOJI == inOHLC \o <<"outInteger">>
TA_CDLLONGLINE == inOHLC \o <<"outInteger">>
TA_CDLMARUBOZU == inOHLC \o <<"outInteger">>
TA_CDLMATCHINGLOW == inOHLC \o <<"outInteger">>
TA_CDLMATHOLD == inOHLC \o <<"optInPenetration", "outInteger">>
TA_CDLMORNINGDOJISTAR == inOHLC \o <<"optInPenetration", "outInteger">>
TA_CDLMORNINGSTAR == inOHLC \o <<"optInPenetration", "outInteger">>
TA_CDLONNECK == inOHLC \o <<"outInteger">>
TA_CDLPIERCING == inOHLC \o <<"outInteger">>
TA_CDLRICKSHAWMAN == inOHLC \o <<"outInteger">>
TA_CDLRISEFALL3METHODS == inOHLC \o <<"outInteger">>
TA_CDLSEPARATINGLINES == inOHLC \o <<"outInteger">>
TA_CDLSHOOTINGSTAR == inOHLC \o <<"outInteger">>
TA_CDLSHORTLINE == inOHLC \o <<"outInteger">>
TA_CDLSPINNINGTOP == inOHLC \o <<"outInteger">>
TA_CDLSTALLEDPATTERN == inOHLC \o <<"outInteger">>
TA_CDLSTICKSANDWICH == inOHLC \o <<"outInteger">>
TA_CDLTAKURI == inOHLC \o <<"outInteger">>
TA_CDLTASUKIGAP == inOHLC \o <<"outInteger">>
TA_CDLTHRUSTING == inOHLC \o <<"outInteger">>
TA_CDLTRISTAR == inOHLC \o <<"outInteger">>
TA_CDLUNIQUE3RIVER == inOHLC \o <<"outInteger">>
TA_CDLUPSIDEGAP2CROWS == inOHLC \o <<"outInteger">>
TA_CDLXSIDEGAP3METHODS == inOHLC \o <<"outInteger">>
TA_CEIL == <<"inReal", "outReal">>
TA_CMO == <<"inReal", "optInTimePeriod", "outReal">>
TA_CORREL == <<"inReal0", "inReal1", "optInTimePeriod", "outReal">>
TA_COS == <<"inReal", "outReal">>
TA_COSH == <<"inReal", "outReal">>
TA_DEMA == <<"inReal", "optInTimePeriod", "outReal">>
TA_DIV == <<"inReal0", "inReal1", "outReal">>
TA_DX == inHLC \o <<"optInTimePeriod", "outReal">>
TA_EMA == <<"inReal", "optInTimePeriod", "outReal">>
TA_EXP == <<"inReal", "outReal">>
TA_FLOOR == <<"inReal", "outReal">>
TA_HT_DCPERIOD == <<"inReal", "outReal">>
TA_HT_DCPHASE == <<"inReal", "outReal">>
TA_HT_PHASOR == <<"inReal", "outInPhase", "outQuadrature">>
TA_HT_SINE == <<"inReal", "outSine", "outLeadSine">>
TA_HT_TRENDLINE == <<"inReal", "outReal">>
TA_HT_TRENDMODE == <<"inReal", "outInteger">>
TA_KAMA == <<"inReal", "optInTimePeriod", "outReal">>
TA_LINEARREG == <<"inReal", "optInTimePeriod", "outReal">>
TA_LINEARREG_ANGLE == <<"inReal", "optInTimePeriod", "outReal">>
TA_LINEARREG_INTERCEPT == <<"inReal", "optInTimePeriod", "outReal">>
TA_LINEARREG_SLOPE == <<"inReal", "optInTimePeriod", "outReal">>
TA_LN == <<"inReal", "outReal">>
TA_LOG10 == <<"inReal", "outReal">>
TA_MA == <<"inReal", "optInTimePeriod", "optInMAType", "outReal">>
TA_MACD ==
    <<"inReal", "optInFastPeriod", "optInSlowPeriod", "optInSignalPeriod", "outMACD",
        "outMACDSignal", "outMACDHist">>
TA_MACDEXT ==
    <<"inReal", "optInFastPeriod", "optInFastMAType", "optInSlowPeriod", "optInSlowMAType",
        "optInSignalPeriod", "optInSignalMAType", "outMACD", "outMACDSignal", "outMACDHist">>
TA_MACDFIX == <<"inReal", "optInSignalPeriod", "outMACD", "outMACDSignal", "outMACDHist">>
TA_MAMA == <<"inReal", "optInFastLimit", "optInSlowLimit", "outMAMA", "outFAMA">>
TA_MAVP == <<"inReal", "inPeriods", "optInMinPeriod", "optInMaxPeriod", "optInMAType", "outReal">>
TA_MAX == <<"inReal", "optInTimePeriod", "outReal">>
TA_MAXINDEX == <<"inReal", "optInTimePeriod", "outInteger">>
TA_MEDPRICE == inHL \o <<"outReal">>
TA_MFI == inHLCV \o <<"optInTimePeriod", "outReal">>
TA_MIDPOINT == <<"inReal", "optInTimePeriod", "outReal">>
TA_MIDPRICE == inHL \o <<"optInTimePeriod", "outReal">>
TA_MIN == <<"inReal", "optInTimePeriod", "outReal">>
TA_MININDEX == <<"inReal", "optInTimePeriod", "outInteger">>
TA_MINMAX == <<"inReal", "optInTimePeriod", "outMin", "outMax">>
TA_MINMAXINDEX == <<"inReal", "optInTimePeriod", "outMinIdx", "outMaxIdx">>
TA_MINUS_DI == inHLC \o <<"optInTimePeriod", "outReal">>
TA_MINUS_DM == inHL \o <<"optInTimePeriod", "outReal">>
TA_MOM == <<"inReal", "optInTimePeriod", "outReal">>
TA_MULT == <<"inReal0", "inReal1", "outReal">>
TA_NATR == inHLC \o <<"optInTimePeriod", "outReal">>
TA_OBV == <<"inReal", "inVolume", "outReal">>
TA_PLUS_DI == inHLC \o <<"optInTimePeriod", "outReal">>
TA_PLUS_DM == inHL \o <<"optInTimePeriod", "outReal">>
TA_PPO == <<"inReal", "optInFastPeriod", "optInSlowPeriod", "optInMAType", "outReal">>
TA_ROC == <<"inReal", "optInTimePeriod", "outReal">>
TA_ROCP == <<"inReal", "optInTimePeriod", "outReal">>
TA_ROCR == <<"inReal", "optInTimePeriod", "outReal">>
TA_ROCR100 == <<"inReal", "optInTimePeriod", "outReal">>
TA_RSI == <<"inReal", "optInTimePeriod", "outReal">>
TA_SAR == inHL \o <<"optInAcceleration", "optInMaximum", "outReal">>
TA_SAREXT ==
    inHL \o <<"optInStartValue", "optInOffsetOnReverse", "optInAccelerationInitLong",
        "optInAccelerationLong", "optInAccelerationMaxLong", "optInAccelerationInitShort",
        "optInAccelerationShort", "optInAccelerationMaxShort", "outReal">>
TA_SIN == <<"inReal", "outReal">>
TA_SINH == <<"inReal", "outReal">>
TA_SMA == <<"inReal", "optInTimePeriod", "outReal">>
TA_SQRT == <<"inReal", "outReal">>
TA_STDDEV == <<"inReal", "optInTimePeriod", "optInNbDev", "outReal">>
TA_STOCH ==
    inHLC \o <<"optInFastK_Period", "optInSlowK_Period", "optInSlowK_MAType", "optInSlowD_Period",
        "optInSlowD_MAType", "outSlowK", "outSlowD">>
TA_STOCHF ==
    inHLC \o <<"optInFastK_Period", "optInFastD_Period", "optInFastD_MAType", "outFastK",
        "outFastD">>
TA_STOCHRSI ==
    <<"inReal", "optInTimePeriod", "optInFastK_Period", "optInFastD_Period", "optInFastD_MAType",
        "outFastK", "outFastD">>
TA_SUB == <<"inReal0", "inReal1", "outReal">>
TA_SUM == <<"inReal", "optInTimePeriod", "outReal">>
TA_T3 == <<"inReal", "optInTimePeriod", "optInVFactor", "outReal">>
TA_TAN == <<"inReal", "outReal">>
TA_TANH == <<"inReal", "outReal">>
TA_TEMA == <<"inReal", "optInTimePeriod", "outReal">>
TA_TRANGE == inHLC \o <<"outReal">>
TA_TRIMA == <<"inReal", "optInTimePeriod", "outReal">>
TA_TRIX == <<"inReal", "optInTimePeriod", "outReal">>
TA_TSF == <<"inReal", "optInTimePeriod", "outReal">>
TA_TYPPRICE == inHLC \o <<"outReal">>
TA_ULTOSC == inHLC \o <<"optInTimePeriod1", "optInTimePeriod2", "optInTimePeriod3", "outReal">>
TA_VAR == <<"inReal", "optInTimePeriod", "optInNbDev", "outReal">>
TA_WCLPRICE == inHLC \o <<"outReal">>
TA_WILLR == inHLC \o <<"optInTimePeriod", "outReal">>
TA_WMA == <<"inReal", "optInTimePeriod", "outReal">>
===============================================================================
