-------------------------- MODULE AbstractParameters --------------------------
(***************************************************************************)
(* The parameters TA-Lib's abstract interface declares once for the        *)
(* functions to share, and the macros that declare a function              *)
(* (ta_abstract/ta_def_ui.c, ta_def_ui.h).  Real numbers are in            *)
(* hundredths; display names, hints and flags are left out.                *)
(***************************************************************************)
EXTENDS AbstractFrames, TLC

\* The parameter of a prototype that takes a component of the price bars.
PriceParameter ==
    [open |-> "inOpen", high |-> "inHigh", low |-> "inLow", close |-> "inClose",
     volume |-> "inVolume"]

RealInput(paramName) ==
    [type |-> "Real", components |-> <<"real">>, parameters |-> <<paramName>>]
PriceInput(members) ==
    [type |-> "Price", components |-> members,
     parameters |-> [k \in DOMAIN members |-> PriceParameter[members[k]]]]

RealRange(low, high)    == [type |-> "RealRange", low |-> low, high |-> high]
IntegerRange(low, high) == [type |-> "IntegerRange", low |-> low, high |-> high]

Opt(paramName, dataSet, defaultValue) ==
    dataSet @@ [paramName |-> paramName, defaultValue |-> defaultValue]

RealOutput(paramName)    == [type |-> "Real", paramName |-> paramName]
IntegerOutput(paramName) == [type |-> "Integer", paramName |-> paramName]

DEF_FUNCTION(name, groupId, inputs, optInputs, outputs, function) ==
    [name |-> name, groupId |-> groupId, inputs |-> inputs, optInputs |-> optInputs,
     outputs |-> outputs, function |-> function]

\* Inputs.
TA_DEF_UI_Input_Price_OHLC == PriceInput(OHLC)
TA_DEF_UI_Input_Price_HLC  == PriceInput(HLC)
TA_DEF_UI_Input_Price_HLCV == PriceInput(HLCV)
TA_DEF_UI_Input_Price_HL   == PriceInput(HL)
TA_DEF_UI_Input_Price_V    == PriceInput(V)
TA_DEF_UI_Input_Real       == RealInput("inReal")
TA_DEF_UI_Input_Periods    == RealInput("inPeriods")
TA_DEF_UI_Input_Real0      == RealInput("inReal0")
TA_DEF_UI_Input_Real1      == RealInput("inReal1")

\* Ranges and lists of optional inputs.
TA_DEF_TimePeriod_Positive          == IntegerRange(1, 100000)
TA_DEF_TimePeriod_Positive_Minimum2 == IntegerRange(2, 100000)
TA_DEF_NbDeviation                  == RealRange(-TA_REAL_MAX, TA_REAL_MAX)
TA_DEF_ZeroToOne                    == RealRange(0, 100)
TA_DEF_RealPositive                 == RealRange(0, TA_REAL_MAX)
TA_MA_TypeList                      == [type |-> "IntegerList", low |-> 0, high |-> 8]
TA_DEF_MAMA_FastLimit               == RealRange(1, 99)
TA_DEF_MAMA_SlowLimit               == RealRange(1, 99)
TA_DEF_AccelerationFactor           == RealRange(0, TA_REAL_MAX)
TA_DEF_AccelerationMax              == RealRange(0, TA_REAL_MAX)
TA_DEF_AccelerationInit             == RealRange(0, TA_REAL_MAX)
TA_DEF_SARStartValue                == RealRange(-TA_REAL_MAX, TA_REAL_MAX)
TA_DEF_SAROffsetOnReverse           == RealRange(0, TA_REAL_MAX)

\* Optional inputs.
TA_DEF_UI_MinPeriod               == Opt("optInMinPeriod", TA_DEF_TimePeriod_Positive_Minimum2, 2)
TA_DEF_UI_MaxPeriod               == Opt("optInMaxPeriod", TA_DEF_TimePeriod_Positive_Minimum2, 30)
TA_DEF_UI_TimePeriod_30_MINIMUM2  == Opt("optInTimePeriod", TA_DEF_TimePeriod_Positive_Minimum2, 30)
TA_DEF_UI_TimePeriod_14_MINIMUM2  == Opt("optInTimePeriod", TA_DEF_TimePeriod_Positive_Minimum2, 14)
TA_DEF_UI_TimePeriod_5_MINIMUM2   == Opt("optInTimePeriod", TA_DEF_TimePeriod_Positive_Minimum2, 5)
TA_DEF_UI_TimePeriod_30           == Opt("optInTimePeriod", TA_DEF_TimePeriod_Positive, 30)
TA_DEF_UI_TimePeriod_14           == Opt("optInTimePeriod", TA_DEF_TimePeriod_Positive, 14)
TA_DEF_UI_TimePeriod_10           == Opt("optInTimePeriod", TA_DEF_TimePeriod_Positive, 10)
TA_DEF_UI_TimePeriod_5            == Opt("optInTimePeriod", TA_DEF_TimePeriod_Positive, 5)
TA_DEF_UI_NbDeviation             == Opt("optInNbDev", TA_DEF_NbDeviation, 100)
TA_DEF_UI_Penetration_30          == Opt("optInPenetration", TA_DEF_RealPositive, 30)
TA_DEF_UI_Penetration_50          == Opt("optInPenetration", TA_DEF_RealPositive, 50)
TA_DEF_UI_MA_Method               == Opt("optInMAType", TA_MA_TypeList, 0)
TA_DEF_UI_Fast_Period             == Opt("optInFastPeriod", TA_DEF_TimePeriod_Positive_Minimum2, 12)
TA_DEF_UI_Slow_Period             == Opt("optInSlowPeriod", TA_DEF_TimePeriod_Positive_Minimum2, 26)
TA_DEF_UI_FastADOSC_Period        == Opt("optInFastPeriod", TA_DEF_TimePeriod_Positive_Minimum2, 3)
TA_DEF_UI_SlowADOSC_Period        == Opt("optInSlowPeriod", TA_DEF_TimePeriod_Positive_Minimum2, 10)
TA_DEF_UI_NbDeviationUp           == Opt("optInNbDevUp", TA_DEF_NbDeviation, 200)
TA_DEF_UI_NbDeviationDn           == Opt("optInNbDevDn", TA_DEF_NbDeviation, 200)
TA_DEF_UI_Signal_Period           == Opt("optInSignalPeriod", TA_DEF_TimePeriod_Positive, 9)
TA_DEF_UI_Slow_MA_Type            == Opt("optInSlowMAType", TA_MA_TypeList, 0)
TA_DEF_UI_Fast_MA_Type            == Opt("optInFastMAType", TA_MA_TypeList, 0)
TA_DEF_UI_Signal_MA_Type          == Opt("optInSignalMAType", TA_MA_TypeList, 0)
TA_DEF_UI_MAMA_FastLimit          == Opt("optInFastLimit", TA_DEF_MAMA_FastLimit, 50)
TA_DEF_UI_MAMA_SlowLimit          == Opt("optInSlowLimit", TA_DEF_MAMA_SlowLimit, 5)
TA_DEF_UI_D_AccelerationFactor    == Opt("optInAcceleration", TA_DEF_AccelerationFactor, 2)
TA_DEF_UI_D_AccelerationMaximum   == Opt("optInMaximum", TA_DEF_AccelerationMax, 20)
TA_DEF_UI_D_StartValue            == Opt("optInStartValue", TA_DEF_SARStartValue, 0)
TA_DEF_UI_D_OffsetOnReverse       == Opt("optInOffsetOnReverse", TA_DEF_SAROffsetOnReverse, 0)
TA_DEF_UI_D_AccelerationInitLong  == Opt("optInAccelerationInitLong", TA_DEF_AccelerationInit, 2)
TA_DEF_UI_D_AccelerationLong      == Opt("optInAccelerationLong", TA_DEF_AccelerationFactor, 2)
TA_DEF_UI_D_AccelerationMaxLong   == Opt("optInAccelerationMaxLong", TA_DEF_AccelerationMax, 20)
TA_DEF_UI_D_AccelerationInitShort == Opt("optInAccelerationInitShort", TA_DEF_AccelerationInit, 2)
TA_DEF_UI_D_AccelerationShort     == Opt("optInAccelerationShort", TA_DEF_AccelerationFactor, 2)
TA_DEF_UI_D_AccelerationMaxShort  == Opt("optInAccelerationMaxShort", TA_DEF_AccelerationMax, 20)
TA_DEF_UI_FastK_Period            == Opt("optInFastK_Period", TA_DEF_TimePeriod_Positive, 5)
TA_DEF_UI_SlowK_Period            == Opt("optInSlowK_Period", TA_DEF_TimePeriod_Positive, 3)
TA_DEF_UI_SlowD_Period            == Opt("optInSlowD_Period", TA_DEF_TimePeriod_Positive, 3)
TA_DEF_UI_SlowK_MAType            == Opt("optInSlowK_MAType", TA_MA_TypeList, 0)
TA_DEF_UI_SlowD_MAType            == Opt("optInSlowD_MAType", TA_MA_TypeList, 0)
TA_DEF_UI_FastD_Period            == Opt("optInFastD_Period", TA_DEF_TimePeriod_Positive, 3)
TA_DEF_UI_FastD_MAType            == Opt("optInFastD_MAType", TA_MA_TypeList, 0)
TA_DEF_UI_VFactor                 == Opt("optInVFactor", TA_DEF_ZeroToOne, 70)
TA_DEF_UI_TimePeriod_7_PER1       == Opt("optInTimePeriod1", TA_DEF_TimePeriod_Positive, 7)
TA_DEF_UI_TimePeriod_14_PER2      == Opt("optInTimePeriod2", TA_DEF_TimePeriod_Positive, 14)
TA_DEF_UI_TimePeriod_28_PER3      == Opt("optInTimePeriod3", TA_DEF_TimePeriod_Positive, 28)

\* Outputs.
TA_DEF_UI_Output_Real               == RealOutput("outReal")
TA_DEF_UI_Output_Integer            == IntegerOutput("outInteger")
TA_DEF_UI_Output_Real_AroonUp       == RealOutput("outAroonDown")
TA_DEF_UI_Output_Real_AroonDown     == RealOutput("outAroonUp")
TA_DEF_UI_Output_Real_BBANDS_Upper  == RealOutput("outRealUpperBand")
TA_DEF_UI_Output_Real_BBANDS_Middle == RealOutput("outRealMiddleBand")
TA_DEF_UI_Output_Real_BBANDS_Lower  == RealOutput("outRealLowerBand")
TA_DEF_UI_Output_Real_InPhase       == RealOutput("outInPhase")
TA_DEF_UI_Output_Real_Quadrature    == RealOutput("outQuadrature")
TA_DEF_UI_Output_Real_Sine          == RealOutput("outSine")
TA_DEF_UI_Output_Real_LeadSine      == RealOutput("outLeadSine")
TA_DEF_UI_Output_Real_MACD          == RealOutput("outMACD")
TA_DEF_UI_Output_Real_MACDSignal    == RealOutput("outMACDSignal")
TA_DEF_UI_Output_Real_MACDHist      == RealOutput("outMACDHist")
TA_DEF_UI_Output_Real_MAMA          == RealOutput("outMAMA")
TA_DEF_UI_Output_Real_FAMA          == RealOutput("outFAMA")
TA_DEF_UI_Output_Real_Min           == RealOutput("outMin")
TA_DEF_UI_Output_Real_Max           == RealOutput("outMax")
TA_DEF_UI_Output_Integer_MinIdx     == IntegerOutput("outMinIdx")
TA_DEF_UI_Output_Integer_MaxIdx     == IntegerOutput("outMaxIdx")
TA_DEF_UI_Output_SlowK              == RealOutput("outSlowK")
TA_DEF_UI_Output_SlowD              == RealOutput("outSlowD")
TA_DEF_UI_Output_FastK              == RealOutput("outFastK")
TA_DEF_UI_Output_FastD              == RealOutput("outFastD")

\* The macros, and what they share.
DEF_MATH_UNARY_OPERATOR(name, function) ==
    DEF_FUNCTION(name, "Math Transform", <<TA_DEF_UI_Input_Real>>, <<>>,
                 <<TA_DEF_UI_Output_Real>>, function)
DEF_MATH_BINARY_OPERATOR(name, function) ==
    DEF_FUNCTION(name, "Math Operators", <<TA_DEF_UI_Input_Real0, TA_DEF_UI_Input_Real1>>, <<>>,
                 <<TA_DEF_UI_Output_Real>>, function)

\* Every pattern without an optional input is declared in the same words.
Pattern(name, function) ==
    DEF_FUNCTION(name, "Pattern Recognition", <<TA_DEF_UI_Input_Price_OHLC>>, <<>>,
                 <<TA_DEF_UI_Output_Integer>>, function)
===============================================================================
