---------------------------- MODULE FunctionChecks ----------------------------
(***************************************************************************)
(* The checks every TA_X and every TA_X_Lookback make of their optional    *)
(* inputs before anything else (ta_func/ta_X.c): a value outside its range *)
(* is refused; TA_INTEGER_DEFAULT and TA_REAL_DEFAULT are replaced by the  *)
(* function's own default.  Each definition gives the checks of a function *)
(* in the order of its parameters.                                         *)
(***************************************************************************)
EXTENDS Integers

\* Real parameters are counted in hundredths; TA_REAL_MAX stands for 3e+37.
TA_REAL_MAX == 1000000

\* TA_INTEGER_DEFAULT and TA_REAL_DEFAULT: the smallest integer, a real below -TA_REAL_MAX.
TA_DEFAULT == -2000000

Checks(low, high, default) == [low |-> low, high |-> high, default |-> default]

\* The ranges in use.
Period1(default)   == Checks(1, 100000, default)
Period2(default)   == Checks(2, 100000, default)
MAType(default)    == Checks(0, 8, default)
Positive(default)  == Checks(0, TA_REAL_MAX, default)
AnyReal(default)   == Checks(-TA_REAL_MAX, TA_REAL_MAX, default)
ZeroToOne(default) == Checks(0, 100, default)
Limit(default)     == Checks(1, 99, default)

TA_ADOSC_Checks == <<Period2(3), Period2(10)>>
TA_ADX_Checks == <<Period2(14)>>
TA_ADXR_Checks == <<Period2(14)>>
TA_APO_Checks == <<Period2(12), Period2(26), MAType(0)>>
TA_AROON_Checks == <<Period2(14)>>
TA_AROONOSC_Checks == <<Period2(14)>>
TA_ATR_Checks == <<Period1(14)>>
\* Mutant of TA_BBANDS_Checks: another default for the lower band.
TA_BBANDS_ChecksUneven == <<Period2(5), AnyReal(200), AnyReal(100), MAType(0)>>
TA_BBANDS_Checks == <<Period2(5), AnyReal(200), AnyReal(200), MAType(0)>>
TA_BETA_Checks == <<Period1(5)>>
TA_CCI_Checks == <<Period2(14)>>
TA_CDLABANDONEDBABY_Checks == <<Positive(30)>>
TA_CDLDARKCLOUDCOVER_Checks == <<Positive(50)>>
TA_CDLEVENINGDOJISTAR_Checks == <<Positive(30)>>
TA_CDLEVENINGSTAR_Checks == <<Positive(30)>>
TA_CDLMATHOLD_Checks == <<Positive(50)>>
TA_CDLMORNINGDOJISTAR_Checks == <<Positive(30)>>
TA_CDLMORNINGSTAR_Checks == <<Positive(30)>>
TA_CMO_Checks == <<Period2(14)>>
TA_CORREL_Checks == <<Period1(30)>>
TA_DEMA_Checks == <<Period2(30)>>
TA_DX_Checks == <<Period2(14)>>
TA_EMA_Checks == <<Period2(30)>>
TA_KAMA_Checks == <<Period2(30)>>
TA_LINEARREG_Checks == <<Period2(14)>>
TA_LINEARREG_ANGLE_Checks == <<Period2(14)>>
TA_LINEARREG_INTERCEPT_Checks == <<Period2(14)>>
TA_LINEARREG_SLOPE_Checks == <<Period2(14)>>
TA_MA_Checks == <<Period1(30), MAType(0)>>
TA_MACD_Checks == <<Period2(12), Period2(26), Period1(9)>>
TA_MACDEXT_Checks == <<Period2(12), MAType(0), Period2(26), MAType(0), Period1(9), MAType(0)>>
\* Mutant of TA_MACDFIX_Checks: a signal period of 1 is refused.
TA_MACDFIX_ChecksFrom2 == <<Period2(9)>>
TA_MACDFIX_Checks == <<Period1(9)>>
TA_MAMA_Checks == <<Limit(50), Limit(5)>>
TA_MAVP_Checks == <<Period2(2), Period2(30), MAType(0)>>
TA_MAX_Checks == <<Period2(30)>>
TA_MAXINDEX_Checks == <<Period2(30)>>
TA_MFI_Checks == <<Period2(14)>>
TA_MIDPOINT_Checks == <<Period2(14)>>
TA_MIDPRICE_Checks == <<Period2(14)>>
TA_MIN_Checks == <<Period2(30)>>
TA_MININDEX_Checks == <<Period2(30)>>
TA_MINMAX_Checks == <<Period2(30)>>
TA_MINMAXINDEX_Checks == <<Period2(30)>>
TA_MINUS_DI_Checks == <<Period1(14)>>
TA_MINUS_DM_Checks == <<Period1(14)>>
TA_MOM_Checks == <<Period1(10)>>
TA_NATR_Checks == <<Period1(14)>>
TA_PLUS_DI_Checks == <<Period1(14)>>
TA_PLUS_DM_Checks == <<Period1(14)>>
TA_PPO_Checks == <<Period2(12), Period2(26), MAType(0)>>
TA_ROC_Checks == <<Period1(10)>>
TA_ROCP_Checks == <<Period1(10)>>
TA_ROCR_Checks == <<Period1(10)>>
TA_ROCR100_Checks == <<Period1(10)>>
TA_RSI_Checks == <<Period2(14)>>
TA_SAR_Checks == <<Positive(2), Positive(20)>>
TA_SAREXT_Checks ==
    <<AnyReal(0), Positive(0), Positive(2), Positive(2),
      Positive(20), Positive(2), Positive(2), Positive(20)>>
TA_SMA_Checks == <<Period2(30)>>
TA_STDDEV_Checks == <<Period2(5), AnyReal(100)>>
TA_STOCH_Checks == <<Period1(5), Period1(3), MAType(0), Period1(3), MAType(0)>>
TA_STOCHF_Checks == <<Period1(5), Period1(3), MAType(0)>>
TA_STOCHRSI_Checks == <<Period2(14), Period1(5), Period1(3), MAType(0)>>
TA_SUM_Checks == <<Period2(30)>>
TA_T3_Checks == <<Period2(5), ZeroToOne(70)>>
TA_TEMA_Checks == <<Period2(30)>>
TA_TRIMA_Checks == <<Period2(30)>>
TA_TRIX_Checks == <<Period1(30)>>
TA_TSF_Checks == <<Period2(14)>>
TA_ULTOSC_Checks == <<Period1(7), Period1(14), Period1(28)>>
TA_VAR_Checks == <<Period1(5), AnyReal(100)>>
TA_WILLR_Checks == <<Period2(14)>>
TA_WMA_Checks == <<Period2(30)>>
===============================================================================
