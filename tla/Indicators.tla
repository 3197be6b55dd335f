------------------------------ MODULE Indicators ------------------------------
(***************************************************************************)
(* What the indicator functions TA_* of ta_func share.                     *)
(*                                                                         *)
(* A call v of a function is a record: the memory it finds (v.mem, the     *)
(* arrays by name), which array each input and each output is (v.from,     *)
(* v.to: an output may be the array of an input), the range start .. end,  *)
(* its optional parameters, and the global settings it reads.  TA_X(v) is  *)
(* what the call leaves: the memory, *outBegIdx, *outNBElement and the     *)
(* return code.  A function that calls others composes their memories.     *)
(*                                                                         *)
(* A real number is modelled in fixed point: the integer n stands for      *)
(* n / Unit, and a quotient is rounded down to the next 1 / Unit.          *)
(***************************************************************************)
EXTENDS Integers, SequencesExt, FiniteSetsExt

CONSTANT Unit
ASSUME UnitAssumption == Unit \in Nat \ {0}

-----------------------------------------------------------------------------
(* Arithmetic. *)

Quotient(a, n) == IF n > 0 THEN a \div n ELSE (-a) \div (-n)
Over(a, b)     == Quotient(a * Unit, b)
Times(a, b)    == (a * b) \div Unit
Abs(a)         == IF a < 0 THEN -a ELSE a
Larger(a, b)   == IF a > b THEN a ELSE b
Smaller(a, b)  == IF a < b THEN a ELSE b

\* std_sqrt
Sqrt(a) == LET root(n) == n * n =< a * Unit /\ (n + 1) * (n + 1) > a * Unit
           IN CHOOSE n \in 0 .. Larger(a, Unit) : root(n)

\* std_atan(a / b) in degrees, from a polynomial for 0 .. 1.  Only 0 has the angle 0.
SmallAngle(x) == 45 * x + Times(Times(x, Unit - x), 14 * Unit + (383 * x) \div 100)
AngleOf(r)    == IF r =< Unit THEN SmallAngle(r) ELSE 90 * Unit - SmallAngle(Over(Unit, r))
Signed(r, x)  == IF r < 0 THEN -x ELSE x
RatioAngle(r) == Signed(r, AngleOf(IF r < 0 THEN -r ELSE Larger(r, 1)))
ArcTan(a, b)  == IF a = 0 THEN 0 ELSE RatioAngle(Over(a, b))

\* std_sin, std_cos of an angle in degrees: Bhaskara's formula, in steps of 1/72 of a degree.
SinOfParts(p)   == (4 * p * Unit) \div (40500 * 72 - p)
SinOfSteps(x)   == SinOfParts((x * (180 * 72 - x)) \div 72)
SinInTurn(turn) == Signed(IF turn < 180 * Unit THEN 1 ELSE -1,
                          SinOfSteps(((turn % (180 * Unit)) * 72) \div Unit))
Sin(d) == SinInTurn(d % (360 * Unit))
Cos(d) == Sin(d + 90 * Unit)

\* The sum of term(k) for k from a to b.
Total(term(_), a, b) == MapThenSumSet(term, a .. b)

\* The locals L after step(L, k) for k from a to b.  A bound variable holds the locals between
\* two steps, for TLC evaluates those at once and a definition only where it is used.
Repeated(step(_, _), L, a, b) ==
    LET after[k \in (a-1) .. b] ==
            IF k < a THEN L ELSE CHOOSE M \in {step(last, k) : last \in {after[k-1]}} : TRUE
    IN IF b < a THEN L ELSE after[b]

-----------------------------------------------------------------------------
(* Memory. *)

\* What a read outside an array returns, and a new array holds: a number no series has.
Garbage == -7 * Unit

Array(size) == [k \in 0 .. (size - 1) |-> Garbage]

Allocate(mem, name, size) ==
    [a \in DOMAIN mem \cup {name} |-> IF a = name THEN Array(size) ELSE mem[a]]

Element(mem, name, k) == IF k \in DOMAIN mem[name] THEN mem[name][k] ELSE Garbage

\* A write outside the array is kept apart, in mem.stray.
Store(mem, name, k, value) ==
    IF k \in DOMAIN mem[name] THEN [mem EXCEPT ![name][k] = value]
    ELSE [mem EXCEPT !["stray"] = Append(@, <<name, k>>)]

\* array[k] = value(k) for k from 0 to n-1, in this order, each seeing the writes before it.
StoreEach(mem, name, n, value(_, _)) ==
    Repeated(LAMBDA m, k : Store(m, name, k, value(m, k)), mem, 0, n - 1)

\* ARRAY_MEMMOVE
Move(mem, dest, src, from, n) ==
    Repeated(LAMBDA m, k : Store(m, dest, k, Element(mem, src, from + k)), mem, 0, n - 1)

In(v, x, k) == Element(v.mem, v.from[x], k)

Real(v, k)   == In(v, "inReal", k)
Real1(v, k)  == In(v, "inReal1", k)
Open(v, k)   == In(v, "inOpen", k)
High(v, k)   == In(v, "inHigh", k)
Low(v, k)    == In(v, "inLow", k)
Close(v, k)  == In(v, "inClose", k)
Volume(v, k) == In(v, "inVolume", k)

\* TRUE_RANGE (ta_ADX.c and others) and its copies.
TrueRangeOf(high, low, lastClose) ==
    Larger(high - low, Larger(Abs(lastClose - high), Abs(lastClose - low)))
TrueRange(v, k) == TrueRangeOf(High(v, k), Low(v, k), Close(v, k-1))

TypicalPrice(v, k) == (High(v, k) + Low(v, k) + Close(v, k)) \div 3

-----------------------------------------------------------------------------
(* A call. *)

\* What an iteration leaves in the local variables, and writes to element outIdx of each output.
Wrote(L, value)      == [L |-> L, out |-> <<value>>, first |-> FALSE]
WroteBoth(L, v1, v2) == [L |-> L, out |-> <<v1, v2>>, first |-> FALSE]


\* An iteration whose element is a function of the locals it leaves.
Keeping(now, value(_)) == Wrote(now, value(now))

NoLocals(v, s) == <<>>

Done(mem, beg, nb) == [mem |-> mem, beg |-> beg, nb |-> nb, rc |-> "TA_SUCCESS"]
Nothing(v)         == Done(v.mem, 0, 0)

\* What an iteration that returned now leaves: the element it wrote to slot of its output, or of
\* its two outputs.
StoreFirst(v, slot, mem, now) ==
    [L |-> now.L, mem |-> Store(mem, v.to[1], IF now.first THEN 0 ELSE slot, now.out[1])]
Written(v, slot, mem, now) ==
    IF Len(now.out) = 1 THEN StoreFirst(v, slot, mem, now)
    ELSE [L |-> now.L, mem |-> Store(Store(mem, v.to[1], slot, now.out[1]), v.to[2], slot, now.out[2])]

\* The frame of the functions that walk the bars: the start moves up to the lookback, begin
\* prepares the locals for bar s, and each iteration writes one element of each output.
Run(v, lookback, begin(_, _), step(_, _, _)) ==
    LET s == Larger(v.start, lookback)
    IN IF s > v.end THEN Nothing(v)
       ELSE Done(Repeated(LAMBDA S, i : Written(v, i - s, S.mem,
                                                step([v EXCEPT !.mem = S.mem], S.L, i)),
                          [L |-> begin(v, s), mem |-> v.mem], s, v.end).mem,
                 s, v.end - s + 1)

\* A call of another function on range start .. end, from array input to array output.
Calling(v, mem, start, end, from, to) ==
    [v EXCEPT !.mem = mem, !.start = start, !.end = end, !.from = from, !.to = to]
OnReal(v, mem, start, end, input, output) ==
    Calling(v, mem, start, end, [inReal |-> input], <<output>>)

PeriodLessOne(v) == v.period - 1
=============================================================================
