----------------------------- MODULE IndicatorSums -----------------------------
(***************************************************************************)
(* The functions over the sums of a window.  Most carry running sums: an   *)
(* iteration adds the bar that enters the window and takes off the one     *)
(* that leaves it, which it reads before it writes its output, for the     *)
(* output may be the array of the input.                                   *)
(***************************************************************************)
EXTENDS Indicators

-----------------------------------------------------------------------------
(* SUM, SMA. *)

TotalBegin(v, s) == Total(LAMBDA k : Real(v, k), s - PeriodLessOne(v), s - 1)

SUM(v, L, i) ==
    LET total == L + Real(v, i) IN Wrote(total - Real(v, i - PeriodLessOne(v)), total)
SMA(v, L, i) ==
    LET total == L + Real(v, i)
    IN Wrote(total - Real(v, i - PeriodLessOne(v)), Quotient(total, v.period))

TA_SUM(v)     == Run(v, PeriodLessOne(v), TotalBegin, SUM)
TA_INT_SMA(v) == Run(v, PeriodLessOne(v), TotalBegin, SMA)
TA_SMA(v)     == TA_INT_SMA(v)

-----------------------------------------------------------------------------
(* WMA: periodSum weighs each value by its place in the window; taking the *)
(* plain sum of the window off it lowers every weight by one.              *)

WMA_Begin(v, s) ==
    LET first == s - PeriodLessOne(v)
    IN [sum |-> Total(LAMBDA k : Real(v, k) * (k - first + 1), first, s - 1),
        sub |-> Total(LAMBDA k : Real(v, k), first, s - 1),
        trailing |-> 0]

WMA(v, L, i) ==
    LET sub == L.sub + Real(v, i) - L.trailing
        sum == L.sum + Real(v, i) * v.period
    IN Wrote([sum |-> sum - sub, sub |-> sub, trailing |-> Real(v, i - PeriodLessOne(v))],
             Quotient(sum, (v.period * (v.period + 1)) \div 2))

\* Mutant of Copied: one element too many.
CopiedOneMore(v) ==
    LET s == v.start
        n == v.end - s + 2
    IN Done(Move(v.mem, v.to[1], v.from["inReal"], s, n), s, n)

\* With a period of 1 the input is copied.
Copied(v) ==
    LET s == v.start
        n == v.end - s + 1
    IN Done(Move(v.mem, v.to[1], v.from["inReal"], s, n), s, n)

TA_WMA(v) ==
    IF v.period = 1 /\ v.start =< v.end THEN Copied(v)
    ELSE Run(v, PeriodLessOne(v), WMA_Begin, WMA)

-----------------------------------------------------------------------------
(* TRIMA: the weights rise to the middle of the window and fall after it.  *)
(* sub is the sum of the rising half, add that of the falling one; at is   *)
(* the bar the numerator is for.                                           *)

Odd(v)  == v.period % 2 = 1
Half(v) == v.period \div 2

TRIMA_Begin(v, s) ==
    LET first  == s - PeriodLessOne(v)
        middle == IF Odd(v) THEN first + Half(v) ELSE first + Half(v) - 1
    IN [at  |-> s,
        num |-> Total(LAMBDA k : Real(v, k) * (k - first + 1), first, middle) +
                Total(LAMBDA k : Real(v, k) * (s - k + 1), middle + 1, s),
        sub |-> Total(LAMBDA k : Real(v, k), first, middle),
        add |-> Total(LAMBDA k : Real(v, k), middle + 1, s),
        trailing |-> Real(v, first)]

\* Mutant of TRIMA_Next: the value that leaves the window is read when it does, not before the write.
TRIMA_NextUnsaved(v, L, i) ==
    LET middle == Real(v, i - Half(v))
        today  == Real(v, i)
        falling == IF Odd(v) THEN L.add ELSE L.add - middle
    IN [at |-> i,
        num |-> L.num - L.sub + falling + today,
        sub |-> L.sub - Real(v, i - v.period) + middle,
        add |-> L.add - middle + today,
        trailing |-> Real(v, i - PeriodLessOne(v))]

TRIMA_Next(v, L, i) ==
    LET middle == Real(v, i - Half(v))
        today  == Real(v, i)
        falling == IF Odd(v) THEN L.add ELSE L.add - middle
    IN [at |-> i,
        num |-> L.num - L.sub + falling + today,
        sub |-> L.sub - L.trailing + middle,
        add |-> L.add - middle + today,
        trailing |-> Real(v, i - PeriodLessOne(v))]

Weights(v) == IF Odd(v) THEN (Half(v) + 1) * (Half(v) + 1) ELSE Half(v) * (Half(v) + 1)

TRIMA(v, L, i) ==
    Keeping(IF L.at = i THEN L ELSE TRIMA_Next(v, L, i), LAMBDA now : Quotient(now.num, Weights(v)))

TA_TRIMA(v) == Run(v, PeriodLessOne(v), TRIMA_Begin, TRIMA)

-----------------------------------------------------------------------------
(* VAR: the mean of the squares less the square of the mean. *)

Square(a) == Times(a, a)

VAR_Begin(v, s) ==
    [total1 |-> TotalBegin(v, s),
     total2 |-> Total(LAMBDA k : Square(Real(v, k)), s - PeriodLessOne(v), s - 1)]

VAR(v, L, i) ==
    LET total1 == L.total1 + Real(v, i)
        total2 == L.total2 + Square(Real(v, i))
        trailing == Real(v, i - PeriodLessOne(v))
    IN Wrote([total1 |-> total1 - trailing, total2 |-> total2 - Square(trailing)],
             Quotient(total2, v.period) - Square(Quotient(total1, v.period)))

TA_INT_VAR(v) == Run(v, PeriodLessOne(v), VAR_Begin, VAR)
TA_VAR(v)     == TA_INT_VAR(v)

-----------------------------------------------------------------------------
(* CORREL: Pearson's coefficient; at is the bar the sums are for. *)

Sums(v, a, b) ==
    [x  |-> Total(LAMBDA k : Real(v, k), a, b),
     y  |-> Total(LAMBDA k : Real1(v, k), a, b),
     xx |-> Total(LAMBDA k : Square(Real(v, k)), a, b),
     yy |-> Total(LAMBDA k : Square(Real1(v, k)), a, b),
     xy |-> Total(LAMBDA k : Times(Real(v, k), Real1(v, k)), a, b)]

Moved(S, x0, y0, x1, y1) ==
    [x  |-> S.x - x0 + x1, y |-> S.y - y0 + y1,
     xx |-> S.xx - Square(x0) + Square(x1), yy |-> S.yy - Square(y0) + Square(y1),
     xy |-> S.xy - Times(x0, y0) + Times(x1, y1)]

CommonSpread(S, n) == Times(S.xx - Quotient(Square(S.x), n), S.yy - Quotient(Square(S.y), n))
Coefficient(S, n, spread) ==
    IF spread > 0 THEN Over(S.xy - Quotient(Times(S.x, S.y), n), Sqrt(spread)) ELSE 0

CORREL_Begin(v, s) ==
    [at |-> s, sums |-> Sums(v, s - PeriodLessOne(v), s), x |-> 0, y |-> 0]

CORREL_Sums(v, L, i) ==
    IF L.at = i THEN L.sums ELSE Moved(L.sums, L.x, L.y, Real(v, i), Real1(v, i))
CORREL(v, L, i) ==
    LET first == i - PeriodLessOne(v)
    IN Keeping([at |-> i, sums |-> CORREL_Sums(v, L, i),
                x |-> Real(v, first), y |-> Real1(v, first)],
               LAMBDA now : Coefficient(now.sums, v.period, CommonSpread(now.sums, v.period)))

TA_CORREL(v) == Run(v, PeriodLessOne(v), CORREL_Begin, CORREL)

-----------------------------------------------------------------------------
(* BETA: the slope of one series' returns against the other's.  The last   *)
(* price and the last price that left the window are kept for both.        *)

Return(price, last) == IF last # 0 THEN Over(price - last, last) ELSE 0

BETA_Enter(v, L, k) ==
    [L EXCEPT !.last = <<Real(v, k), Real1(v, k)>>,
              !.sums = Moved(@, 0, 0, Return(Real(v, k), L.last[1]), Return(Real1(v, k), L.last[2]))]

BETA_Begin(v, s) ==
    LET first == <<Real(v, s - v.period), Real1(v, s - v.period)>>
        none  == [last |-> first, trailing |-> first,
                  sums |-> [x |-> 0, y |-> 0, xx |-> 0, yy |-> 0, xy |-> 0]]
    IN Repeated(LAMBDA L, k : BETA_Enter(v, L, k), none, s - v.period + 1, s - 1)

ReturnsSlope(S, n, spread) ==
    IF spread # 0 THEN Over(n * S.xy - Times(S.x, S.y), spread) ELSE 0

\* left: the price of each series that leaves the window.
BETA_Leave(L, left) ==
    [L EXCEPT !.trailing = left,
              !.sums = Moved(@, Return(left[1], L.trailing[1]), Return(left[2], L.trailing[2]), 0, 0)]

BETA_Wrote(v, L, left) ==
    Wrote(BETA_Leave(L, left),
          ReturnsSlope(L.sums, v.period, v.period * L.sums.xx - Square(L.sums.x)))
BETA(v, L, i) ==
    BETA_Wrote(v, BETA_Enter(v, L, i), <<Real(v, i - v.period + 1), Real1(v, i - v.period + 1)>>)

TA_BETA(v) == Run(v, v.period, BETA_Begin, BETA)

-----------------------------------------------------------------------------
(* LINEARREG, its slope and intercept, and TSF, summed afresh for each bar *)
(* with the bars counted backwards from it.                                *)

SumX(v)    == (v.period * (v.period - 1)) \div 2
SumXSqr(v) == (v.period * (v.period - 1) * (2 * v.period - 1)) \div 6
Divisor(v) == SumX(v) * SumX(v) - v.period * SumXSqr(v)
SumY(v, i)  == Total(LAMBDA back : Real(v, i - back), 0, v.period - 1)
SumXY(v, i) == Total(LAMBDA back : back * Real(v, i - back), 0, v.period - 1)

Slope(v, i) == Quotient(v.period * SumXY(v, i) - SumX(v) * SumY(v, i), Divisor(v))
Intercept(v, i) == Quotient(SumY(v, i) - Slope(v, i) * SumX(v), v.period)

LINEARREG(v, L, i) == Wrote(L, Intercept(v, i) + Slope(v, i) * (v.period - 1))
LINEARREG_SLOPE(v, L, i)     == Wrote(L, Slope(v, i))
LINEARREG_ANGLE(v, L, i)     == Wrote(L, ArcTan(Slope(v, i), Unit))
LINEARREG_INTERCEPT(v, L, i) == Wrote(L, Intercept(v, i))
TSF(v, L, i) == Wrote(L, Intercept(v, i) + Slope(v, i) * v.period)

TA_LINEARREG(v)           == Run(v, PeriodLessOne(v), NoLocals, LINEARREG)
TA_LINEARREG_SLOPE(v)     == Run(v, PeriodLessOne(v), NoLocals, LINEARREG_SLOPE)
TA_LINEARREG_ANGLE(v)     == Run(v, PeriodLessOne(v), NoLocals, LINEARREG_ANGLE)
TA_LINEARREG_INTERCEPT(v) == Run(v, PeriodLessOne(v), NoLocals, LINEARREG_INTERCEPT)
TA_TSF(v)                 == Run(v, PeriodLessOne(v), NoLocals, TSF)

-----------------------------------------------------------------------------
(* MFI: the money that flowed up and down, the flows of the window in a    *)
(* circular buffer.                                                        *)

Flow(last, typical, money) ==
    [up |-> IF typical > last THEN money ELSE 0, down |-> IF typical < last THEN money ELSE 0]

FlowAdded(L, typical, flow) ==
    [up |-> L.up + flow.up, down |-> L.down + flow.down,
     last |-> typical, flows |-> Append(L.flows, flow)]
MoneyAdded(L, typical, volume) ==
    FlowAdded(L, typical, Flow(L.last, typical, Times(typical, volume)))

MFI_Enter(v, L, k) == MoneyAdded(L, TypicalPrice(v, k), Volume(v, k))
MFI_Next(v, L, k) ==
    MFI_Enter(v, [L EXCEPT !.up = @ - Head(L.flows).up, !.down = @ - Head(L.flows).down,
                           !.flows = Tail(@)], k)

\* The flows of the first window; the iteration for startIdx walks over the unstable period.
\* M.at is the bar the locals M.L are for.
MFI_Begin(v, s) ==
    LET first == s - (v.period + v.unstable)
        none  == [up |-> 0, down |-> 0, last |-> TypicalPrice(v, first), flows |-> <<>>]
    IN [at |-> first + v.period,
        L |-> Repeated(LAMBDA L, k : MFI_Enter(v, L, k), none, first + 1, first + v.period)]

UpPercent(up, total) == IF total < Unit THEN 0 ELSE 100 * Over(up, total)

MFI(v, M, i) ==
    Keeping([at |-> i, L |-> Repeated(LAMBDA L, k : MFI_Next(v, L, k), M.L, M.at + 1, i)],
            LAMBDA now : UpPercent(now.L.up, now.L.up + now.L.down))

TA_MFI(v) == Run(v, v.period + v.unstable, MFI_Begin, MFI)

-----------------------------------------------------------------------------
(* ULTOSC: three windows, the periods sorted. *)

Periods3(v)   == <<v.period, v.period2, v.period3>>
LongestOf3(v) == Max({v.period, v.period2, v.period3})
Sorted3(v) == SortSeq(Periods3(v), <)

TrueLow(v, k) == Smaller(Low(v, k), Close(v, k-1))
Pressure(v, k) == Close(v, k) - TrueLow(v, k)

FirstOf(v, n, i) == i - Sorted3(v)[n] + 1

ULTOSC_Begin(v, s) ==
    [n \in 1 .. 3 |-> [a |-> Total(LAMBDA k : Pressure(v, k), FirstOf(v, n, s), s - 1),
                       b |-> Total(LAMBDA k : TrueRange(v, k), FirstOf(v, n, s), s - 1)]]

BarAdded(L, pressure, range) == [n \in 1 .. 3 |-> [a |-> L[n].a + pressure, b |-> L[n].b + range]]
FirstTaken(v, L, i) ==
    [n \in 1 .. 3 |-> [a |-> L[n].a - Pressure(v, FirstOf(v, n, i)),
                       b |-> L[n].b - TrueRange(v, FirstOf(v, n, i))]]

BarsPart(S)  == IF S.b # 0 THEN Over(S.a, S.b) ELSE 0
Ultimate(L)  == Quotient(100 * (4 * BarsPart(L[1]) + 2 * BarsPart(L[2]) + BarsPart(L[3])), 7)

ULTOSC_Wrote(v, L, i) == Wrote(FirstTaken(v, L, i), Ultimate(L))
ULTOSC(v, L, i) == ULTOSC_Wrote(v, BarAdded(L, Pressure(v, i), TrueRange(v, i)), i)

TA_ULTOSC(v) == Run(v, LongestOf3(v), ULTOSC_Begin, ULTOSC)

-----------------------------------------------------------------------------
(* CCI: the typical prices of the window in a circular buffer. *)

CCI_Begin(v, s) ==
    [n \in 1 .. PeriodLessOne(v) |-> TypicalPrice(v, s - v.period + n)]

Distances(window, average) == FoldLeft(LAMBDA sum, x : sum + Abs(x - average), 0, window)
Commodity(v, away, spread) ==
    IF away # 0 /\ spread # 0 THEN Quotient(200 * Over(away * v.period, spread), 3) ELSE 0

CCI_About(v, window, average) ==
    Wrote(Tail(window), Commodity(v, Last(window) - average, Distances(window, average)))
CCI_Wrote(v, window) == CCI_About(v, window, Quotient(FoldLeft(+, 0, window), v.period))
CCI(v, L, i) == CCI_Wrote(v, Append(L, TypicalPrice(v, i)))

TA_CCI(v) == Run(v, PeriodLessOne(v), CCI_Begin, CCI)
=============================================================================
