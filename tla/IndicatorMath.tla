----------------------------- MODULE IndicatorMath -----------------------------
(***************************************************************************)
(* The functions that apply one of the C library's to each element.        *)
(***************************************************************************)
EXTENDS Indicators

CONSTANT MathFunction(_, _)  \* std_acos(x) and so on, by the function's name

MathNames == {"ACOS", "ASIN", "ATAN", "CEIL", "COS", "COSH", "EXP", "FLOOR", "LN", "LOG10", "SIN",
              "SINH", "SQRT", "TAN", "TANH"}

Elementwise(name, v) ==
    Run(v, 0, NoLocals, LAMBDA u, L, i : Wrote(L, MathFunction(name, Real(u, i))))

TA_ACOS(v)  == Elementwise("ACOS", v)
TA_ASIN(v)  == Elementwise("ASIN", v)
TA_ATAN(v)  == Elementwise("ATAN", v)
TA_CEIL(v)  == Elementwise("CEIL", v)
TA_COS(v)   == Elementwise("COS", v)
TA_COSH(v)  == Elementwise("COSH", v)
TA_EXP(v)   == Elementwise("EXP", v)
TA_FLOOR(v) == Elementwise("FLOOR", v)
TA_LN(v)    == Elementwise("LN", v)
TA_LOG10(v) == Elementwise("LOG10", v)
TA_SIN(v)   == Elementwise("SIN", v)
TA_SINH(v)  == Elementwise("SINH", v)
TA_SQRT(v)  == Elementwise("SQRT", v)
TA_TAN(v)   == Elementwise("TAN", v)
TA_TANH(v)  == Elementwise("TANH", v)
=============================================================================
