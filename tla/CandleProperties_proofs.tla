----------------------- MODULE CandleProperties_proofs -----------------------
(***************************************************************************)
(* What the candlestick functions promise, for every series of bars, every *)
(* range a caller may ask for and every setting of the averages.           *)
(*                                                                         *)
(* First the running totals, and the sixty-one functions themselves, one   *)
(* by one: what they prepare before their loops (a lookback that covers    *)
(* the bars their conditions read and those their averages are over, and   *)
(* running totals that start where they belong, for every avgPeriod a      *)
(* caller may set), which values they write, and that these depend on      *)
(* bars, settings and penetration alone.                                   *)
(*                                                                         *)
(* Then the inductive invariant IInv, which says what the loop keeps from  *)
(* bar to bar: the running totals are the sums the next average needs, and *)
(* the memory of a hikkake is the pattern that still waits for its         *)
(* confirmation.                                                           *)
(*                                                                         *)
(* Last, what the patterns promise about one another: a pattern that is a  *)
(* special case of another is found only with it, patterns told apart by   *)
(* their last candle are never found together, and on the chart turned     *)
(* upside down a function with two forms reports the other.                *)
(***************************************************************************)
EXTENDS CandleProperties, WellFoundedInduction, FiniteSetTheorems, SequenceTheorems, TLAPS

-----------------------------------------------------------------------------
(* Induction, for sets and functions: the theorems of the library take an  *)
(* operator, which no backend can instantiate.                             *)

Below == {p \in Nat \X Nat : p[1] < p[2]}

LEMMA BelowIsWellFounded == IsWellFoundedOn(Below, Nat)
<1>1. OpToRel(<, Nat) = Below
  BY DEF OpToRel, Below
<1>2. QED
  BY <1>1, NatLessThanWellFounded, Zenon

\* A set that holds 0, and with every number the next one, holds every natural number.
LEMMA SetInduction ==
  ASSUME NEW S, 0 \in S, \A n \in Nat : n \in S => n + 1 \in S
  PROVE  Nat \subseteq S
<1> SUFFICES ASSUME Nat \ S # {} PROVE FALSE
  OBVIOUS
<1> DEFINE T == Nat \ S
<1>1. T \subseteq Nat /\ T # {}
  OBVIOUS
<1>2. PICK m \in T : \A k \in T : <<k, m>> \notin Below
  <2> HIDE DEF T
  <2>1. QED
    BY <1>1, WFMin, BelowIsWellFounded, Zenon
<1>3. m \in Nat /\ m # 0 /\ m - 1 \in Nat /\ m - 1 < m /\ m \notin S
  BY <1>2
<1>4. <<m - 1, m>> \in Below
  BY <1>3 DEF Below
<1>5. m - 1 \in S
  BY <1>2, <1>3, <1>4
<1>6. QED
  BY <1>3, <1>5

-----------------------------------------------------------------------------
(* The running totals: a sum of ranges moves to the next bar by adding the *)
(* bar that comes in and taking off the one that falls out.                *)

\* The partial sums of f.
PartialSums(f) == CHOOSE s : s = [k \in Nat |-> IF k = 0 THEN 0 ELSE s[k - 1] + f[k]]

\* Up to every bound there are partial sums, and no two ways to choose them.
IsSumUpTo(s, f, n) ==
  /\ s = [k \in 0 .. n |-> s[k]] /\ s[0] = 0
  /\ \A k \in 1 .. n : s[k] = s[k - 1] + f[k]

LEMMA SumsUpToExist ==
  ASSUME NEW f
  PROVE  \A n \in Nat : \E s : IsSumUpTo(s, f, n)
<1> DEFINE S == {n \in Nat : \E s : IsSumUpTo(s, f, n)}
<1>1. 0 \in S
  <2>1. IsSumUpTo([k \in 0 .. 0 |-> 0], f, 0)
    BY DEF IsSumUpTo
  <2>2. QED
    BY <2>1
<1>2. ASSUME NEW n \in Nat, n \in S PROVE n + 1 \in S
  <2>1. PICK s : IsSumUpTo(s, f, n)
    BY <1>2
  <2> DEFINE t == [k \in 0 .. n + 1 |-> IF k = n + 1 THEN s[n] + f[n + 1] ELSE s[k]]
  <2>2. t = [k \in 0 .. n + 1 |-> t[k]]
    OBVIOUS
  <2>3. t[0] = 0
    BY <2>1 DEF IsSumUpTo
  <2>4. ASSUME NEW k \in 1 .. n + 1 PROVE t[k] = t[k - 1] + f[k]
    <3>1. CASE k = n + 1
      BY <3>1
    <3>2. CASE k # n + 1
      <4>1. k \in 1 .. n /\ k \in 0 .. n + 1 /\ k - 1 \in 0 .. n + 1 /\ k - 1 # n + 1
        BY <3>2
      <4>2. t[k] = s[k] /\ t[k - 1] = s[k - 1]
        BY <3>2, <4>1
      <4>3. QED
        BY <2>1, <4>1, <4>2 DEF IsSumUpTo
    <3>3. QED
      BY <3>1, <3>2
  <2>5. IsSumUpTo(t, f, n + 1)
    <3> HIDE DEF t
    <3>1. QED
      BY <2>2, <2>3, <2>4 DEF IsSumUpTo
  <2>6. QED
    BY <2>5
<1>3. Nat \subseteq S
  <2> HIDE DEF S
  <2>1. QED
    BY <1>1, <1>2, SetInduction
<1>4. QED
  BY <1>3

LEMMA SumsUpToAgree ==
  ASSUME NEW f, NEW m \in Nat, NEW n \in Nat, m <= n,
         NEW s, IsSumUpTo(s, f, m), NEW t, IsSumUpTo(t, f, n)
  PROVE  s[m] = t[m]
<1> DEFINE S == {k \in Nat : k <= m => s[k] = t[k]}
<1>1. 0 \in S
  BY DEF IsSumUpTo
<1>2. ASSUME NEW k \in Nat, k \in S PROVE k + 1 \in S
  <2> SUFFICES ASSUME k + 1 <= m PROVE s[k + 1] = t[k + 1]
    OBVIOUS
  <2>1. k + 1 \in 1 .. m /\ k + 1 \in 1 .. n /\ (k + 1) - 1 = k
    OBVIOUS
  <2>2. s[k] = t[k]
    BY <1>2
  <2>3. s[k + 1] = s[(k + 1) - 1] + f[k + 1] /\ t[k + 1] = t[(k + 1) - 1] + f[k + 1]
    BY <2>1 DEF IsSumUpTo
  <2>4. QED
    BY <2>1, <2>2, <2>3
<1>3. Nat \subseteq S
  <2> HIDE DEF S
  <2>1. QED
    BY <1>1, <1>2, SetInduction
<1>4. QED
  BY <1>3

\* Partial sums are what their definition says.
LEMMA PartialSumsStep ==
  ASSUME NEW f
  PROVE  /\ PartialSums(f)[0] = 0
         /\ \A n \in Nat : PartialSums(f)[n + 1] = PartialSums(f)[n] + f[n + 1]
<1> DEFINE upTo(n) == CHOOSE s : IsSumUpTo(s, f, n)
           all == [k \in Nat |-> upTo(k)[k]]
<1>1. \A n \in Nat : IsSumUpTo(upTo(n), f, n)
  BY SumsUpToExist
<1> HIDE DEF upTo
<1>2. all[0] = 0
  BY <1>1 DEF IsSumUpTo
<1>3. ASSUME NEW n \in Nat PROVE all[n + 1] = all[n] + f[n + 1]
  <2>1. upTo(n)[n] = upTo(n + 1)[n]
    BY <1>1, SumsUpToAgree
  <2>2. IsSumUpTo(upTo(n + 1), f, n + 1) /\ n + 1 \in 1 .. n + 1 /\ (n + 1) - 1 = n
    BY <1>1
  <2>3. upTo(n + 1)[n + 1] = upTo(n + 1)[(n + 1) - 1] + f[n + 1]
    BY <2>2 DEF IsSumUpTo
  <2>4. QED
    BY <2>1, <2>2, <2>3
<1>4. all = [k \in Nat |-> IF k = 0 THEN 0 ELSE all[k - 1] + f[k]]
  <2> DEFINE next == [k \in Nat |-> IF k = 0 THEN 0 ELSE all[k - 1] + f[k]]
  <2>1. ASSUME NEW k \in Nat PROVE all[k] = next[k]
    <3>1. CASE k = 0
      BY <1>2, <3>1
    <3>2. CASE k # 0
      <4>1. k - 1 \in Nat /\ (k - 1) + 1 = k
        BY <3>2
      <4>2. all[(k - 1) + 1] = all[k - 1] + f[(k - 1) + 1]
        BY <1>3, <4>1
      <4>3. all[k] = all[k - 1] + f[k]
        BY <4>1, <4>2
      <4> HIDE DEF all
      <4>4. QED
        BY <3>2, <4>3
    <3>3. QED
      BY <3>1, <3>2
  <2>2. QED
    BY <2>1
<1> HIDE DEF all
<1>5. PartialSums(f) = [k \in Nat |-> IF k = 0 THEN 0 ELSE PartialSums(f)[k - 1] + f[k]]
  BY <1>4 DEF PartialSums
<1>6. QED
  BY <1>5

-----------------------------------------------------------------------------
\* RangeSum adds the ranges one after the other.
LEMMA RangeSumStep ==
  ASSUME NEW set, NEW from, NEW n \in Nat
  PROVE  /\ RangeSum(set, from, 0) = 0
         /\ RangeSum(set, from, n + 1) = RangeSum(set, from, n) + CandleRange(set, from + (n + 1) - 1)
<1> DEFINE f == [k \in Nat |-> CandleRange(set, from + k - 1)]
           sum == CHOOSE s : s = [k \in Nat |-> IF k = 0 THEN 0
                                                ELSE s[k - 1] + CandleRange(set, from + k - 1)]
<1>1. \A s : [k \in Nat |-> IF k = 0 THEN 0 ELSE s[k - 1] + f[k]]
             = [k \in Nat |-> IF k = 0 THEN 0 ELSE s[k - 1] + CandleRange(set, from + k - 1)]
  OBVIOUS
<1>2. sum = PartialSums(f)
  <2> HIDE DEF f
  <2>1. QED
    BY <1>1 DEF PartialSums
<1>3. \A k \in Nat : RangeSum(set, from, k) = sum[k]
  BY DEF RangeSum
<1>4. f[n + 1] = CandleRange(set, from + (n + 1) - 1)
  OBVIOUS
<1> HIDE DEF f, sum
<1>5. sum[0] = 0 /\ sum[n + 1] = sum[n] + f[n + 1]
  BY <1>2, PartialSumsStep
<1>6. QED
  BY <1>3, <1>4, <1>5

BarType == [o : Int, h : Int, l : Int, c : Int]

\* The settings have their type; the range of a bar is then an integer.
SettingsOK == settings \in [CandleSettingTypes -> CandleSettings] /\ Periods \subseteq Nat

LEMMA RangeIsInt ==
  ASSUME SettingsOK, NEW set \in CandleSettingTypes, NEW k, bars[k] \in BarType
  PROVE  CandleRange(set, k) \in Int
<1>1. settings[set].rangeType \in {"RealBody", "HighLow", "Shadows"}
  BY DEF SettingsOK, CandleSettings, RangeTypes
<1>2. Open(k) \in Int /\ High(k) \in Int /\ Low(k) \in Int /\ Close(k) \in Int
  BY DEF BarType, Open, High, Low, Close
<1>3. /\ RealBody(k) \in Int /\ HighLowRange(k) \in Int
      /\ UpperShadow(k) \in Int /\ LowerShadow(k) \in Int
  BY <1>2 DEF RealBody, HighLowRange, UpperShadow, LowerShadow, BodyTop, BodyBottom, Abs, Larger, Smaller
<1>4. QED
  BY <1>1, <1>3 DEF CandleRange

LEMMA PeriodIsNat ==
  ASSUME SettingsOK, NEW set \in CandleSettingTypes
  PROVE  AvgPeriod(set) \in Nat
  BY DEF SettingsOK, CandleSettings, AvgPeriod

\* The sum of the ranges of bars of the series is an integer.
LEMMA RangeSumIsInt ==
  ASSUME SettingsOK, NEW set \in CandleSettingTypes, NEW from \in Int, NEW n \in Nat,
         \A k \in from .. from + n - 1 : bars[k] \in BarType
  PROVE  RangeSum(set, from, n) \in Int
<1> DEFINE S == {m \in Nat : m <= n => RangeSum(set, from, m) \in Int}
<1>1. 0 \in S
  BY RangeSumStep
<1>2. ASSUME NEW m \in Nat, m \in S PROVE m + 1 \in S
  <2> SUFFICES ASSUME m + 1 <= n PROVE RangeSum(set, from, m + 1) \in Int
    OBVIOUS
  <2>1. RangeSum(set, from, m) \in Int
    BY <1>2
  <2>2. CandleRange(set, from + (m + 1) - 1) \in Int
    <3>1. from + (m + 1) - 1 \in from .. from + n - 1
      OBVIOUS
    <3>2. QED
      BY <3>1, RangeIsInt
  <2>3. QED
    BY <2>1, <2>2, RangeSumStep
<1>3. Nat \subseteq S
  <2> HIDE DEF S
  <2>1. QED
    BY <1>1, <1>2, SetInduction
<1>4. QED
  BY <1>3

\* A sum moves to the next bar by adding the bar that comes in and taking off the one that falls
\* out.
LEMMA RangeSumMoves ==
  ASSUME SettingsOK, NEW set \in CandleSettingTypes, NEW from \in Int, NEW n \in Nat,
         \A k \in from .. from + n : bars[k] \in BarType
  PROVE  RangeSum(set, from + 1, n)
           = RangeSum(set, from, n) + CandleRange(set, from + n) - CandleRange(set, from)
<1> DEFINE S == {m \in Nat : m <= n =>
                    RangeSum(set, from + 1, m)
                      = RangeSum(set, from, m) + CandleRange(set, from + m) - CandleRange(set, from)}
<1>0. \A m \in 0 .. n : CandleRange(set, from + m) \in Int /\ RangeSum(set, from, m) \in Int
  <2> SUFFICES ASSUME NEW m \in 0 .. n
               PROVE  CandleRange(set, from + m) \in Int /\ RangeSum(set, from, m) \in Int
    OBVIOUS
  <2>1. from + m \in from .. from + n /\ from .. from + m - 1 \subseteq from .. from + n
    OBVIOUS
  <2>2. QED
    BY <2>1, RangeIsInt, RangeSumIsInt
<1>1. 0 \in S
  <2>1. from + 0 = from /\ 0 \in 0 .. n
    OBVIOUS
  <2>2. CandleRange(set, from) \in Int /\ CandleRange(set, from + 0) = CandleRange(set, from)
    BY <1>0, <2>1
  <2>3. QED
    BY <2>2, RangeSumStep
<1>2. ASSUME NEW m \in Nat, m \in S PROVE m + 1 \in S
  <2> SUFFICES ASSUME m + 1 <= n
               PROVE  RangeSum(set, from + 1, m + 1)
                        = RangeSum(set, from, m + 1) + CandleRange(set, from + (m + 1))
                          - CandleRange(set, from)
    OBVIOUS
  <2>1. RangeSum(set, from + 1, m)
          = RangeSum(set, from, m) + CandleRange(set, from + m) - CandleRange(set, from)
    BY <1>2
  <2>2. /\ RangeSum(set, from + 1, m + 1)
             = RangeSum(set, from + 1, m) + CandleRange(set, from + (m + 1))
        /\ RangeSum(set, from, m + 1) = RangeSum(set, from, m) + CandleRange(set, from + m)
    <3>1. from + 1 + (m + 1) - 1 = from + (m + 1) /\ from + (m + 1) - 1 = from + m
      OBVIOUS
    <3>2. QED
      BY <3>1, RangeSumStep
  <2>3. /\ CandleRange(set, from + m) \in Int /\ CandleRange(set, from + (m + 1)) \in Int
        /\ CandleRange(set, from) \in Int /\ RangeSum(set, from, m) \in Int
    <3>1. m \in 0 .. n /\ m + 1 \in 0 .. n /\ 0 \in 0 .. n /\ from + 0 = from
      OBVIOUS
    <3>2. QED
      BY <1>0, <3>1
  <2>4. QED
    BY <2>1, <2>2, <2>3
<1>3. Nat \subseteq S
  <2> HIDE DEF S
  <2>1. QED
    BY <1>1, <1>2, SetInduction
<1>4. QED
  BY <1>3

\* A sum stays what it is while the bars and the settings do.
LEMMA RangeSumStays ==
  ASSUME UNCHANGED <<bars, settings>>, NEW set, NEW from, NEW n \in Nat
  PROVE  RangeSum(set, from, n)' = RangeSum(set, from, n)
  BY DEF RangeSum, CandleRange, RealBody, HighLowRange, UpperShadow, LowerShadow, BodyTop, BodyBottom,
         Open, High, Low, Close, Abs, Larger, Smaller

-----------------------------------------------------------------------------
(* The plans of the functions. *)

\* A total starts as the sum over the avgPeriod bars before the one its average is compared with
\* (add bars behind the loop), takes off the bar that falls out of them, and needs no more than
\* room bars in front of the first bar of the loop.
Serves(total, room) ==
  /\ total \in [set : CandleSettingTypes, off : Int, until : Int, warm : Int, add : Int, drop : Int]
  /\ total.until = total.off
  /\ total.off + total.warm = total.add /\ total.off + total.drop = total.add
  /\ total.add >= 0 /\ total.add + AvgPeriod(total.set) <= room

\* The lookback covers the early iterations, the bars the condition reads and the totals.
WellPlanned(plan) ==
  /\ plan.lookback \in Nat /\ plan.early \in Nat /\ plan.reach \in Nat
  /\ plan.reach + plan.early <= plan.lookback
  /\ \A t \in DOMAIN plan.totals : Serves(plan.totals[t], plan.lookback - plan.early)

-----------------------------------------------------------------------------
\* The largest element of a set of integers that has one.
LEMMA MaxIsLargest ==
  ASSUME NEW S, NEW m \in S, \A x \in S : m >= x
  PROVE  Max(S) \in S /\ \A x \in S : Max(S) >= x
  BY DEF Max

LEMMA MaxOfTwo ==
  ASSUME NEW a \in Nat, NEW b \in Nat
  PROVE  Max({a, b}) \in Nat /\ Max({a, b}) >= a /\ Max({a, b}) >= b
<1>1. \E m \in {a, b} : \A x \in {a, b} : m >= x
  OBVIOUS
<1>2. QED
  BY <1>1, MaxIsLargest

LEMMA MaxOfThree ==
  ASSUME NEW a \in Nat, NEW b \in Nat, NEW c \in Nat
  PROVE  /\ Max({a, b, c}) \in Nat
         /\ Max({a, b, c}) >= a /\ Max({a, b, c}) >= b /\ Max({a, b, c}) >= c
<1>1. \E m \in {a, b, c} : \A x \in {a, b, c} : m >= x
  OBVIOUS
<1>2. QED
  BY <1>1, MaxIsLargest

LEMMA MaxOfFour ==
  ASSUME NEW a \in Nat, NEW b \in Nat, NEW c \in Nat, NEW d \in Nat
  PROVE  /\ Max({a, b, c, d}) \in Nat
         /\ Max({a, b, c, d}) >= a /\ Max({a, b, c, d}) >= b
         /\ Max({a, b, c, d}) >= c /\ Max({a, b, c, d}) >= d
<1>1. \E m \in {a, b, c, d} : \A x \in {a, b, c, d} : m >= x
  OBVIOUS
<1>2. QED
  BY <1>1, MaxIsLargest

LEMMA MaxOfFive ==
  ASSUME NEW a \in Nat, NEW b \in Nat, NEW c \in Nat, NEW d \in Nat, NEW e \in Nat
  PROVE  /\ Max({a, b, c, d, e}) \in Nat
         /\ Max({a, b, c, d, e}) >= a /\ Max({a, b, c, d, e}) >= b
         /\ Max({a, b, c, d, e}) >= c /\ Max({a, b, c, d, e}) >= d /\ Max({a, b, c, d, e}) >= e
<1>1. \E m \in {a, b, c, d, e} : \A x \in {a, b, c, d, e} : m >= x
  OBVIOUS
<1>2. QED
  BY <1>1, MaxIsLargest

\* The two ways the functions write a total are the same total.
LEMMA BehindServes ==
  ASSUME NEW set \in CandleSettingTypes, NEW lag \in Nat, NEW room, lag + AvgPeriod(set) <= room
  PROVE  Serves(Behind(set, lag), room)
  BY DEF Serves, Behind, Total

LEMMA ShiftedServes ==
  ASSUME NEW set \in CandleSettingTypes, NEW lag \in Nat, NEW room, lag + AvgPeriod(set) <= room
  PROVE  Serves(Shifted(set, lag), room)
  BY DEF Serves, Shifted, Total

\* Every avgPeriod is a natural number.
LEMMA PeriodsAreNats ==
  ASSUME SettingsOK
  PROVE  /\ AvgPeriod("BodyLong") \in Nat /\ AvgPeriod("BodyShort") \in Nat
         /\ AvgPeriod("BodyDoji") \in Nat /\ AvgPeriod("ShadowLong") \in Nat
         /\ AvgPeriod("ShadowVeryLong") \in Nat /\ AvgPeriod("ShadowShort") \in Nat
         /\ AvgPeriod("ShadowVeryShort") \in Nat /\ AvgPeriod("Near") \in Nat
         /\ AvgPeriod("Far") \in Nat /\ AvgPeriod("Equal") \in Nat
  BY PeriodIsNat DEF CandleSettingTypes

\* The stars' second total of BodyShort starts one bar behind the bars it is over.
LEMMA StarServes ==
  ASSUME SettingsOK, NEW room, AvgPeriod("BodyShort") <= room
  PROVE  Serves(Total("BodyShort", 1, 1, -1, 0, -1), room)
  BY PeriodsAreNats DEF Serves, Total, CandleSettingTypes

\* The functions of one candle.
LEMMA SinglesAreWellPlanned ==
  ASSUME SettingsOK
  PROVE  /\ WellPlanned(CDLBELTHOLD_Plan)
         /\ WellPlanned(CDLCLOSINGMARUBOZU_Plan)
         /\ WellPlanned(CDLDOJI_Plan)
         /\ WellPlanned(CDLDRAGONFLYDOJI_Plan)
         /\ WellPlanned(CDLGRAVESTONEDOJI_Plan)
         /\ WellPlanned(CDLHIGHWAVE_Plan)
         /\ WellPlanned(CDLLONGLEGGEDDOJI_Plan)
         /\ WellPlanned(CDLLONGLINE_Plan)
         /\ WellPlanned(CDLMARUBOZU_Plan)
         /\ WellPlanned(CDLRICKSHAWMAN_Plan)
         /\ WellPlanned(CDLSHORTLINE_Plan)
         /\ WellPlanned(CDLSPINNINGTOP_Plan)
         /\ WellPlanned(CDLTAKURI_Plan)
<1>1. WellPlanned(CDLBELTHOLD_Plan)
  BY PeriodsAreNats, MaxOfTwo, BehindServes DEF WellPlanned, CDLBELTHOLD_Plan, Plan, CandleSettingTypes
<1>2. WellPlanned(CDLCLOSINGMARUBOZU_Plan)
  BY PeriodsAreNats, MaxOfTwo, BehindServes DEF WellPlanned, CDLCLOSINGMARUBOZU_Plan, Plan, CandleSettingTypes
<1>3. WellPlanned(CDLDOJI_Plan)
  BY PeriodsAreNats, BehindServes DEF WellPlanned, CDLDOJI_Plan, Plan, CandleSettingTypes
<1>4. WellPlanned(CDLDRAGONFLYDOJI_Plan)
  BY PeriodsAreNats, MaxOfTwo, BehindServes DEF WellPlanned, CDLDRAGONFLYDOJI_Plan, Plan, CandleSettingTypes
<1>5. WellPlanned(CDLGRAVESTONEDOJI_Plan)
  BY PeriodsAreNats, MaxOfTwo, BehindServes DEF WellPlanned, CDLGRAVESTONEDOJI_Plan, Plan, CandleSettingTypes
<1>6. WellPlanned(CDLHIGHWAVE_Plan)
  BY PeriodsAreNats, MaxOfTwo, BehindServes DEF WellPlanned, CDLHIGHWAVE_Plan, Plan, CandleSettingTypes
<1>7. WellPlanned(CDLLONGLEGGEDDOJI_Plan)
  BY PeriodsAreNats, MaxOfTwo, BehindServes DEF WellPlanned, CDLLONGLEGGEDDOJI_Plan, Plan, CandleSettingTypes
<1>8. WellPlanned(CDLLONGLINE_Plan)
  BY PeriodsAreNats, MaxOfTwo, BehindServes DEF WellPlanned, CDLLONGLINE_Plan, Plan, CandleSettingTypes
<1>9. WellPlanned(CDLMARUBOZU_Plan)
  BY PeriodsAreNats, MaxOfTwo, BehindServes DEF WellPlanned, CDLMARUBOZU_Plan, Plan, CandleSettingTypes
<1>10. WellPlanned(CDLRICKSHAWMAN_Plan)
  BY PeriodsAreNats, MaxOfThree, BehindServes DEF WellPlanned, CDLRICKSHAWMAN_Plan, Plan, CandleSettingTypes
<1>11. WellPlanned(CDLSHORTLINE_Plan)
  BY PeriodsAreNats, MaxOfTwo, BehindServes DEF WellPlanned, CDLSHORTLINE_Plan, Plan, CandleSettingTypes
<1>12. WellPlanned(CDLSPINNINGTOP_Plan)
  BY PeriodsAreNats, BehindServes DEF WellPlanned, CDLSPINNINGTOP_Plan, Plan, CandleSettingTypes
<1>13. WellPlanned(CDLTAKURI_Plan)
  BY PeriodsAreNats, MaxOfThree, BehindServes DEF WellPlanned, CDLTAKURI_Plan, Plan, CandleSettingTypes
<1>14. QED
  BY <1>1, <1>2, <1>3, <1>4, <1>5, <1>6, <1>7, <1>8, <1>9, <1>10, <1>11, <1>12, <1>13

\* The functions of two candles.
LEMMA PairsAreWellPlanned ==
  ASSUME SettingsOK
  PROVE  /\ WellPlanned(CDLCOUNTERATTACK_Plan)
         /\ WellPlanned(CDLDARKCLOUDCOVER_Plan)
         /\ WellPlanned(CDLDOJISTAR_Plan)
         /\ WellPlanned(CDLENGULFING_Plan)
         /\ WellPlanned(CDLHAMMER_Plan)
         /\ WellPlanned(CDLHANGINGMAN_Plan)
         /\ WellPlanned(CDLHARAMI_Plan)
         /\ WellPlanned(CDLHARAMICROSS_Plan)
         /\ WellPlanned(CDLHOMINGPIGEON_Plan)
         /\ WellPlanned(CDLINNECK_Plan)
         /\ WellPlanned(CDLINVERTEDHAMMER_Plan)
         /\ WellPlanned(CDLKICKING_Plan)
         /\ WellPlanned(CDLKICKINGBYLENGTH_Plan)
         /\ WellPlanned(CDLMATCHINGLOW_Plan)
         /\ WellPlanned(CDLONNECK_Plan)
         /\ WellPlanned(CDLPIERCING_Plan)
         /\ WellPlanned(CDLSEPARATINGLINES_Plan)
         /\ WellPlanned(CDLSHOOTINGSTAR_Plan)
         /\ WellPlanned(CDLTHRUSTING_Plan)
<1>1. WellPlanned(CDLCOUNTERATTACK_Plan)
  BY PeriodsAreNats, MaxOfTwo, BehindServes, ShiftedServes DEF WellPlanned, CDLCOUNTERATTACK_Plan, Plan, CandleSettingTypes
<1>2. WellPlanned(CDLDARKCLOUDCOVER_Plan)
  BY PeriodsAreNats, ShiftedServes DEF WellPlanned, CDLDARKCLOUDCOVER_Plan, Plan, CandleSettingTypes
<1>3. WellPlanned(CDLDOJISTAR_Plan)
  BY PeriodsAreNats, MaxOfTwo, BehindServes DEF WellPlanned, CDLDOJISTAR_Plan, Plan, CandleSettingTypes
<1>4. WellPlanned(CDLENGULFING_Plan)
  BY DEF WellPlanned, CDLENGULFING_Plan, Plan, CandleSettingTypes
<1>5. WellPlanned(CDLHAMMER_Plan)
  <2> DEFINE longest == Max({AvgPeriod("BodyShort"), AvgPeriod("ShadowLong"), AvgPeriod("ShadowVeryShort"),
                              AvgPeriod("Near")})
  <2>1. /\ longest \in Nat
        /\ longest >= AvgPeriod("BodyShort") /\ longest >= AvgPeriod("ShadowLong")
        /\ longest >= AvgPeriod("ShadowVeryShort") /\ longest >= AvgPeriod("Near")
    BY PeriodsAreNats, MaxOfFour
  <2> HIDE DEF longest
  <2>2. /\ Serves(Behind("BodyShort", 0), longest + 1)
        /\ Serves(Behind("ShadowLong", 0), longest + 1)
        /\ Serves(Behind("ShadowVeryShort", 0), longest + 1)
        /\ Serves(Behind("Near", 1), longest + 1)
    BY <2>1, PeriodsAreNats, BehindServes DEF CandleSettingTypes
  <2>3. CDLHAMMER_Plan.lookback = longest + 1 /\ CDLHAMMER_Plan.reach = 1 /\ CDLHAMMER_Plan.early = 0
    BY DEF CDLHAMMER_Plan, Plan, longest
  <2>4. \A t \in DOMAIN CDLHAMMER_Plan.totals : Serves(CDLHAMMER_Plan.totals[t], longest + 1)
    BY <2>2 DEF CDLHAMMER_Plan, Plan
  <2>5. QED
    BY <2>1, <2>3, <2>4 DEF WellPlanned
<1>6. WellPlanned(CDLHANGINGMAN_Plan)
  <2> DEFINE longest == Max({AvgPeriod("BodyShort"), AvgPeriod("ShadowLong"), AvgPeriod("ShadowVeryShort"),
                              AvgPeriod("Near")})
  <2>1. /\ longest \in Nat
        /\ longest >= AvgPeriod("BodyShort") /\ longest >= AvgPeriod("ShadowLong")
        /\ longest >= AvgPeriod("ShadowVeryShort") /\ longest >= AvgPeriod("Near")
    BY PeriodsAreNats, MaxOfFour
  <2> HIDE DEF longest
  <2>2. /\ Serves(Behind("BodyShort", 0), longest + 1)
        /\ Serves(Behind("ShadowLong", 0), longest + 1)
        /\ Serves(Behind("ShadowVeryShort", 0), longest + 1)
        /\ Serves(Behind("Near", 1), longest + 1)
    BY <2>1, PeriodsAreNats, BehindServes DEF CandleSettingTypes
  <2>3. CDLHANGINGMAN_Plan.lookback = longest + 1 /\ CDLHANGINGMAN_Plan.reach = 1 /\ CDLHANGINGMAN_Plan.early = 0
    BY DEF CDLHANGINGMAN_Plan, Plan, longest
  <2>4. \A t \in DOMAIN CDLHANGINGMAN_Plan.totals : Serves(CDLHANGINGMAN_Plan.totals[t], longest + 1)
    BY <2>2 DEF CDLHANGINGMAN_Plan, Plan
  <2>5. QED
    BY <2>1, <2>3, <2>4 DEF WellPlanned
<1>7. WellPlanned(CDLHARAMI_Plan)
  BY PeriodsAreNats, MaxOfTwo, BehindServes DEF WellPlanned, CDLHARAMI_Plan, Plan, CandleSettingTypes
<1>8. WellPlanned(CDLHARAMICROSS_Plan)
  BY PeriodsAreNats, MaxOfTwo, BehindServes DEF WellPlanned, CDLHARAMICROSS_Plan, Plan, CandleSettingTypes
<1>9. WellPlanned(CDLHOMINGPIGEON_Plan)
  BY PeriodsAreNats, MaxOfTwo, BehindServes, ShiftedServes DEF WellPlanned, CDLHOMINGPIGEON_Plan, Plan, CandleSettingTypes
<1>10. WellPlanned(CDLINNECK_Plan)
  BY PeriodsAreNats, MaxOfTwo, ShiftedServes DEF WellPlanned, CDLINNECK_Plan, Plan, CandleSettingTypes
<1>11. WellPlanned(CDLINVERTEDHAMMER_Plan)
  BY PeriodsAreNats, MaxOfThree, BehindServes DEF WellPlanned, CDLINVERTEDHAMMER_Plan, Plan, CandleSettingTypes
<1>12. WellPlanned(CDLKICKING_Plan)
  BY PeriodsAreNats, MaxOfTwo, BehindServes, ShiftedServes DEF WellPlanned, CDLKICKING_Plan, Plan, CandleSettingTypes
<1>13. WellPlanned(CDLKICKINGBYLENGTH_Plan)
  BY PeriodsAreNats, MaxOfTwo, BehindServes, ShiftedServes DEF WellPlanned, CDLKICKINGBYLENGTH_Plan, Plan, CandleSettingTypes
<1>14. WellPlanned(CDLMATCHINGLOW_Plan)
  BY PeriodsAreNats, ShiftedServes DEF WellPlanned, CDLMATCHINGLOW_Plan, Plan, CandleSettingTypes
<1>15. WellPlanned(CDLONNECK_Plan)
  BY PeriodsAreNats, MaxOfTwo, ShiftedServes DEF WellPlanned, CDLONNECK_Plan, Plan, CandleSettingTypes
<1>16. WellPlanned(CDLPIERCING_Plan)
  BY PeriodsAreNats, BehindServes, ShiftedServes DEF WellPlanned, CDLPIERCING_Plan, Plan, CandleSettingTypes
<1>17. WellPlanned(CDLSEPARATINGLINES_Plan)
  BY PeriodsAreNats, MaxOfThree, BehindServes, ShiftedServes DEF WellPlanned, CDLSEPARATINGLINES_Plan, Plan, CandleSettingTypes
<1>18. WellPlanned(CDLSHOOTINGSTAR_Plan)
  BY PeriodsAreNats, MaxOfThree, BehindServes DEF WellPlanned, CDLSHOOTINGSTAR_Plan, Plan, CandleSettingTypes
<1>19. WellPlanned(CDLTHRUSTING_Plan)
  BY PeriodsAreNats, MaxOfTwo, ShiftedServes DEF WellPlanned, CDLTHRUSTING_Plan, Plan, CandleSettingTypes
<1>20. QED
  BY <1>1, <1>2, <1>3, <1>4, <1>5, <1>6, <1>7, <1>8, <1>9, <1>10, <1>11, <1>12, <1>13, <1>14, <1>15, <1>16, <1>17, <1>18, <1>19

\* The functions of three candles.
LEMMA TriplesAreWellPlanned ==
  ASSUME SettingsOK
  PROVE  /\ WellPlanned(CDL2CROWS_Plan)
         /\ WellPlanned(CDL3INSIDE_Plan)
         /\ WellPlanned(CDL3OUTSIDE_Plan)
         /\ WellPlanned(CDL3STARSINSOUTH_Plan)
         /\ WellPlanned(CDL3WHITESOLDIERS_Plan)
         /\ WellPlanned(CDLABANDONEDBABY_Plan)
         /\ WellPlanned(CDLADVANCEBLOCK_Plan)
         /\ WellPlanned(CDLEVENINGDOJISTAR_Plan)
         /\ WellPlanned(CDLEVENINGSTAR_Plan)
         /\ WellPlanned(CDLGAPSIDESIDEWHITE_Plan)
         /\ WellPlanned(CDLIDENTICAL3CROWS_Plan)
         /\ WellPlanned(CDLMORNINGDOJISTAR_Plan)
         /\ WellPlanned(CDLMORNINGSTAR_Plan)
         /\ WellPlanned(CDLSTALLEDPATTERN_Plan)
         /\ WellPlanned(CDLSTICKSANDWICH_Plan)
         /\ WellPlanned(CDLTASUKIGAP_Plan)
         /\ WellPlanned(CDLTRISTAR_Plan)
         /\ WellPlanned(CDLUNIQUE3RIVER_Plan)
         /\ WellPlanned(CDLUPSIDEGAP2CROWS_Plan)
         /\ WellPlanned(CDLXSIDEGAP3METHODS_Plan)
<1>1. WellPlanned(CDL2CROWS_Plan)
  BY PeriodsAreNats, BehindServes DEF WellPlanned, CDL2CROWS_Plan, Plan, CandleSettingTypes
<1>2. WellPlanned(CDL3INSIDE_Plan)
  BY PeriodsAreNats, MaxOfTwo, BehindServes DEF WellPlanned, CDL3INSIDE_Plan, Plan, CandleSettingTypes
<1>3. WellPlanned(CDL3OUTSIDE_Plan)
  BY DEF WellPlanned, CDL3OUTSIDE_Plan, Plan, CandleSettingTypes
<1>4. WellPlanned(CDL3STARSINSOUTH_Plan)
  <2> DEFINE longest == Max({AvgPeriod("ShadowVeryShort"), AvgPeriod("ShadowLong"), AvgPeriod("BodyLong"),
                              AvgPeriod("BodyShort")})
  <2>1. /\ longest \in Nat
        /\ longest >= AvgPeriod("ShadowVeryShort") /\ longest >= AvgPeriod("ShadowLong")
        /\ longest >= AvgPeriod("BodyLong") /\ longest >= AvgPeriod("BodyShort")
    BY PeriodsAreNats, MaxOfFour
  <2> HIDE DEF longest
  <2>2. /\ Serves(Shifted("BodyLong", 2), longest + 2)
        /\ Serves(Shifted("ShadowLong", 2), longest + 2)
        /\ Serves(Shifted("ShadowVeryShort", 1), longest + 2)
        /\ Serves(Behind("ShadowVeryShort", 0), longest + 2)
        /\ Serves(Behind("BodyShort", 0), longest + 2)
    BY <2>1, PeriodsAreNats, BehindServes, ShiftedServes DEF CandleSettingTypes
  <2>3. CDL3STARSINSOUTH_Plan.lookback = longest + 2 /\ CDL3STARSINSOUTH_Plan.reach = 2 /\ CDL3STARSINSOUTH_Plan.early = 0
    BY DEF CDL3STARSINSOUTH_Plan, Plan, longest
  <2>4. \A t \in DOMAIN CDL3STARSINSOUTH_Plan.totals : Serves(CDL3STARSINSOUTH_Plan.totals[t], longest + 2)
    BY <2>2 DEF CDL3STARSINSOUTH_Plan, Plan
  <2>5. QED
    BY <2>1, <2>3, <2>4 DEF WellPlanned
<1>5. WellPlanned(CDL3WHITESOLDIERS_Plan)
  <2> DEFINE longest == Max({AvgPeriod("ShadowVeryShort"), AvgPeriod("BodyShort"), AvgPeriod("Far"),
                              AvgPeriod("Near")})
  <2>1. /\ longest \in Nat
        /\ longest >= AvgPeriod("ShadowVeryShort") /\ longest >= AvgPeriod("BodyShort")
        /\ longest >= AvgPeriod("Far") /\ longest >= AvgPeriod("Near")
    BY PeriodsAreNats, MaxOfFour
  <2> HIDE DEF longest
  <2>2. /\ Serves(Shifted("ShadowVeryShort", 2), longest + 2)
        /\ Serves(Shifted("ShadowVeryShort", 1), longest + 2)
        /\ Serves(Behind("ShadowVeryShort", 0), longest + 2)
        /\ Serves(Shifted("Near", 2), longest + 2)
        /\ Serves(Shifted("Near", 1), longest + 2)
        /\ Serves(Shifted("Far", 2), longest + 2)
        /\ Serves(Shifted("Far", 1), longest + 2)
        /\ Serves(Behind("BodyShort", 0), longest + 2)
    BY <2>1, PeriodsAreNats, BehindServes, ShiftedServes DEF CandleSettingTypes
  <2>3. CDL3WHITESOLDIERS_Plan.lookback = longest + 2 /\ CDL3WHITESOLDIERS_Plan.reach = 2 /\ CDL3WHITESOLDIERS_Plan.early = 0
    BY DEF CDL3WHITESOLDIERS_Plan, Plan, longest
  <2>4. \A t \in DOMAIN CDL3WHITESOLDIERS_Plan.totals : Serves(CDL3WHITESOLDIERS_Plan.totals[t], longest + 2)
    BY <2>2 DEF CDL3WHITESOLDIERS_Plan, Plan
  <2>5. QED
    BY <2>1, <2>3, <2>4 DEF WellPlanned
<1>6. WellPlanned(CDLABANDONEDBABY_Plan)
  BY PeriodsAreNats, MaxOfThree, BehindServes DEF WellPlanned, CDLABANDONEDBABY_Plan, Plan, CandleSettingTypes
<1>7. WellPlanned(CDLADVANCEBLOCK_Plan)
  <2> DEFINE longest == Max({AvgPeriod("ShadowLong"), AvgPeriod("ShadowShort"), AvgPeriod("Far"),
                              AvgPeriod("Near"), AvgPeriod("BodyLong")})
  <2>1. /\ longest \in Nat
        /\ longest >= AvgPeriod("ShadowLong") /\ longest >= AvgPeriod("ShadowShort")
        /\ longest >= AvgPeriod("Far") /\ longest >= AvgPeriod("Near")
        /\ longest >= AvgPeriod("BodyLong")
    BY PeriodsAreNats, MaxOfFive
  <2> HIDE DEF longest
  <2>2. /\ Serves(Shifted("ShadowShort", 2), longest + 2)
        /\ Serves(Shifted("ShadowShort", 1), longest + 2)
        /\ Serves(Behind("ShadowShort", 0), longest + 2)
        /\ Serves(Shifted("ShadowLong", 1), longest + 2)
        /\ Serves(Behind("ShadowLong", 0), longest + 2)
        /\ Serves(Shifted("Near", 2), longest + 2)
        /\ Serves(Shifted("Near", 1), longest + 2)
        /\ Serves(Shifted("Far", 2), longest + 2)
        /\ Serves(Shifted("Far", 1), longest + 2)
        /\ Serves(Shifted("BodyLong", 2), longest + 2)
    BY <2>1, PeriodsAreNats, BehindServes, ShiftedServes DEF CandleSettingTypes
  <2>3. CDLADVANCEBLOCK_Plan.lookback = longest + 2 /\ CDLADVANCEBLOCK_Plan.reach = 2 /\ CDLADVANCEBLOCK_Plan.early = 0
    BY DEF CDLADVANCEBLOCK_Plan, Plan, longest
  <2>4. \A t \in DOMAIN CDLADVANCEBLOCK_Plan.totals : Serves(CDLADVANCEBLOCK_Plan.totals[t], longest + 2)
    BY <2>2 DEF CDLADVANCEBLOCK_Plan, Plan
  <2>5. QED
    BY <2>1, <2>3, <2>4 DEF WellPlanned
<1>8. WellPlanned(CDLEVENINGDOJISTAR_Plan)
  BY PeriodsAreNats, MaxOfThree, BehindServes DEF WellPlanned, CDLEVENINGDOJISTAR_Plan, Plan, CandleSettingTypes
<1>9. WellPlanned(CDLEVENINGSTAR_Plan)
  <2> DEFINE longest == Max({AvgPeriod("BodyShort"), AvgPeriod("BodyLong")})
  <2>1. /\ longest \in Nat
        /\ longest >= AvgPeriod("BodyShort") /\ longest >= AvgPeriod("BodyLong")
    BY PeriodsAreNats, MaxOfTwo
  <2> HIDE DEF longest
  <2>2. /\ Serves(Behind("BodyLong", 2), longest + 2)
        /\ Serves(Behind("BodyShort", 1), longest + 2)
        /\ Serves(Total("BodyShort", 1, 1, -1, 0, -1), longest + 2)
    BY <2>1, PeriodsAreNats, BehindServes, StarServes DEF CandleSettingTypes
  <2>3. CDLEVENINGSTAR_Plan.lookback = longest + 2 /\ CDLEVENINGSTAR_Plan.reach = 2 /\ CDLEVENINGSTAR_Plan.early = 0
    BY DEF CDLEVENINGSTAR_Plan, Plan, longest
  <2>4. \A t \in DOMAIN CDLEVENINGSTAR_Plan.totals : Serves(CDLEVENINGSTAR_Plan.totals[t], longest + 2)
    BY <2>2 DEF CDLEVENINGSTAR_Plan, Plan
  <2>5. QED
    BY <2>1, <2>3, <2>4 DEF WellPlanned
<1>10. WellPlanned(CDLGAPSIDESIDEWHITE_Plan)
  BY PeriodsAreNats, MaxOfTwo, ShiftedServes DEF WellPlanned, CDLGAPSIDESIDEWHITE_Plan, Plan, CandleSettingTypes
<1>11. WellPlanned(CDLIDENTICAL3CROWS_Plan)
  BY PeriodsAreNats, MaxOfTwo, BehindServes, ShiftedServes DEF WellPlanned, CDLIDENTICAL3CROWS_Plan, Plan, CandleSettingTypes
<1>12. WellPlanned(CDLMORNINGDOJISTAR_Plan)
  BY PeriodsAreNats, MaxOfThree, BehindServes DEF WellPlanned, CDLMORNINGDOJISTAR_Plan, Plan, CandleSettingTypes
<1>13. WellPlanned(CDLMORNINGSTAR_Plan)
  <2> DEFINE longest == Max({AvgPeriod("BodyShort"), AvgPeriod("BodyLong")})
  <2>1. /\ longest \in Nat
        /\ longest >= AvgPeriod("BodyShort") /\ longest >= AvgPeriod("BodyLong")
    BY PeriodsAreNats, MaxOfTwo
  <2> HIDE DEF longest
  <2>2. /\ Serves(Behind("BodyLong", 2), longest + 2)
        /\ Serves(Behind("BodyShort", 1), longest + 2)
        /\ Serves(Total("BodyShort", 1, 1, -1, 0, -1), longest + 2)
    BY <2>1, PeriodsAreNats, BehindServes, StarServes DEF CandleSettingTypes
  <2>3. CDLMORNINGSTAR_Plan.lookback = longest + 2 /\ CDLMORNINGSTAR_Plan.reach = 2 /\ CDLMORNINGSTAR_Plan.early = 0
    BY DEF CDLMORNINGSTAR_Plan, Plan, longest
  <2>4. \A t \in DOMAIN CDLMORNINGSTAR_Plan.totals : Serves(CDLMORNINGSTAR_Plan.totals[t], longest + 2)
    BY <2>2 DEF CDLMORNINGSTAR_Plan, Plan
  <2>5. QED
    BY <2>1, <2>3, <2>4 DEF WellPlanned
<1>14. WellPlanned(CDLSTALLEDPATTERN_Plan)
  <2> DEFINE longest == Max({AvgPeriod("BodyLong"), AvgPeriod("BodyShort"), AvgPeriod("ShadowVeryShort"),
                              AvgPeriod("Near")})
  <2>1. /\ longest \in Nat
        /\ longest >= AvgPeriod("BodyLong") /\ longest >= AvgPeriod("BodyShort")
        /\ longest >= AvgPeriod("ShadowVeryShort") /\ longest >= AvgPeriod("Near")
    BY PeriodsAreNats, MaxOfFour
  <2> HIDE DEF longest
  <2>2. /\ Serves(Shifted("BodyLong", 2), longest + 2)
        /\ Serves(Shifted("BodyLong", 1), longest + 2)
        /\ Serves(Behind("BodyShort", 0), longest + 2)
        /\ Serves(Shifted("ShadowVeryShort", 1), longest + 2)
        /\ Serves(Shifted("Near", 2), longest + 2)
        /\ Serves(Shifted("Near", 1), longest + 2)
    BY <2>1, PeriodsAreNats, BehindServes, ShiftedServes DEF CandleSettingTypes
  <2>3. CDLSTALLEDPATTERN_Plan.lookback = longest + 2 /\ CDLSTALLEDPATTERN_Plan.reach = 2 /\ CDLSTALLEDPATTERN_Plan.early = 0
    BY DEF CDLSTALLEDPATTERN_Plan, Plan, longest
  <2>4. \A t \in DOMAIN CDLSTALLEDPATTERN_Plan.totals : Serves(CDLSTALLEDPATTERN_Plan.totals[t], longest + 2)
    BY <2>2 DEF CDLSTALLEDPATTERN_Plan, Plan
  <2>5. QED
    BY <2>1, <2>3, <2>4 DEF WellPlanned
<1>15. WellPlanned(CDLSTICKSANDWICH_Plan)
  BY PeriodsAreNats, ShiftedServes DEF WellPlanned, CDLSTICKSANDWICH_Plan, Plan, CandleSettingTypes
<1>16. WellPlanned(CDLTASUKIGAP_Plan)
  BY PeriodsAreNats, ShiftedServes DEF WellPlanned, CDLTASUKIGAP_Plan, Plan, CandleSettingTypes
<1>17. WellPlanned(CDLTRISTAR_Plan)
  BY PeriodsAreNats, BehindServes DEF WellPlanned, CDLTRISTAR_Plan, Plan, CandleSettingTypes
<1>18. WellPlanned(CDLUNIQUE3RIVER_Plan)
  BY PeriodsAreNats, MaxOfTwo, BehindServes DEF WellPlanned, CDLUNIQUE3RIVER_Plan, Plan, CandleSettingTypes
<1>19. WellPlanned(CDLUPSIDEGAP2CROWS_Plan)
  BY PeriodsAreNats, MaxOfTwo, BehindServes DEF WellPlanned, CDLUPSIDEGAP2CROWS_Plan, Plan, CandleSettingTypes
<1>20. WellPlanned(CDLXSIDEGAP3METHODS_Plan)
  BY DEF WellPlanned, CDLXSIDEGAP3METHODS_Plan, Plan, CandleSettingTypes
<1>21. QED
  BY <1>1, <1>2, <1>3, <1>4, <1>5, <1>6, <1>7, <1>8, <1>9, <1>10, <1>11, <1>12, <1>13, <1>14, <1>15, <1>16, <1>17, <1>18, <1>19, <1>20

\* The functions of four and five candles, and the hikkakes.
LEMMA SequencesAreWellPlanned ==
  ASSUME SettingsOK
  PROVE  /\ WellPlanned(CDL3BLACKCROWS_Plan)
         /\ WellPlanned(CDL3LINESTRIKE_Plan)
         /\ WellPlanned(CDLBREAKAWAY_Plan)
         /\ WellPlanned(CDLCONCEALBABYSWALL_Plan)
         /\ WellPlanned(CDLLADDERBOTTOM_Plan)
         /\ WellPlanned(CDLMATHOLD_Plan)
         /\ WellPlanned(CDLRISEFALL3METHODS_Plan)
         /\ WellPlanned(CDLHIKKAKE_Plan)
         /\ WellPlanned(CDLHIKKAKEMOD_Plan)
<1>1. WellPlanned(CDL3BLACKCROWS_Plan)
  BY PeriodsAreNats, BehindServes, ShiftedServes DEF WellPlanned, CDL3BLACKCROWS_Plan, Plan, CandleSettingTypes
<1>2. WellPlanned(CDL3LINESTRIKE_Plan)
  BY PeriodsAreNats, ShiftedServes DEF WellPlanned, CDL3LINESTRIKE_Plan, Plan, CandleSettingTypes
<1>3. WellPlanned(CDLBREAKAWAY_Plan)
  BY PeriodsAreNats, ShiftedServes DEF WellPlanned, CDLBREAKAWAY_Plan, Plan, CandleSettingTypes
<1>4. WellPlanned(CDLCONCEALBABYSWALL_Plan)
  BY PeriodsAreNats, ShiftedServes DEF WellPlanned, CDLCONCEALBABYSWALL_Plan, Plan, CandleSettingTypes
<1>5. WellPlanned(CDLLADDERBOTTOM_Plan)
  BY PeriodsAreNats, ShiftedServes DEF WellPlanned, CDLLADDERBOTTOM_Plan, Plan, CandleSettingTypes
<1>6. WellPlanned(CDLMATHOLD_Plan)
  BY PeriodsAreNats, MaxOfTwo, ShiftedServes DEF WellPlanned, CDLMATHOLD_Plan, Plan, CandleSettingTypes
<1>7. WellPlanned(CDLRISEFALL3METHODS_Plan)
  BY PeriodsAreNats, MaxOfTwo, BehindServes, ShiftedServes DEF WellPlanned, CDLRISEFALL3METHODS_Plan, Plan, CandleSettingTypes
<1>8. WellPlanned(CDLHIKKAKE_Plan)
  BY DEF WellPlanned, CDLHIKKAKE_Plan, Plan, CandleSettingTypes
<1>9. WellPlanned(CDLHIKKAKEMOD_Plan)
  <2> DEFINE longest == Max({1, AvgPeriod("Near")})
  <2>1. longest \in Nat /\ longest >= 1 /\ longest >= AvgPeriod("Near")
    BY PeriodsAreNats, MaxOfTwo
  <2> HIDE DEF longest
  <2>2. Serves(Shifted("Near", 2), longest + 2)
    BY <2>1, PeriodsAreNats, ShiftedServes DEF CandleSettingTypes
  <2>3. CDLHIKKAKEMOD_Plan = [lookback |-> longest + 5, reach |-> 3, early |-> 3,
                              totals |-> [near |-> Shifted("Near", 2)]]
    BY DEF CDLHIKKAKEMOD_Plan, Plan, longest
  <2>4. QED
    BY <2>1, <2>2, <2>3 DEF WellPlanned
<1>10. QED
  BY <1>1, <1>2, <1>3, <1>4, <1>5, <1>6, <1>7, <1>8, <1>9

-----------------------------------------------------------------------------
\* The plan of a function is the one that bears its name.
LEMMA PlansByName ==
  /\ PlanOf("CDL2CROWS") = CDL2CROWS_Plan
  /\ PlanOf("CDL3BLACKCROWS") = CDL3BLACKCROWS_Plan
  /\ PlanOf("CDL3INSIDE") = CDL3INSIDE_Plan
  /\ PlanOf("CDL3LINESTRIKE") = CDL3LINESTRIKE_Plan
  /\ PlanOf("CDL3OUTSIDE") = CDL3OUTSIDE_Plan
  /\ PlanOf("CDL3STARSINSOUTH") = CDL3STARSINSOUTH_Plan
  /\ PlanOf("CDL3WHITESOLDIERS") = CDL3WHITESOLDIERS_Plan
  /\ PlanOf("CDLABANDONEDBABY") = CDLABANDONEDBABY_Plan
  /\ PlanOf("CDLADVANCEBLOCK") = CDLADVANCEBLOCK_Plan
  /\ PlanOf("CDLBELTHOLD") = CDLBELTHOLD_Plan
  /\ PlanOf("CDLBREAKAWAY") = CDLBREAKAWAY_Plan
  /\ PlanOf("CDLCLOSINGMARUBOZU") = CDLCLOSINGMARUBOZU_Plan
  /\ PlanOf("CDLCONCEALBABYSWALL") = CDLCONCEALBABYSWALL_Plan
  /\ PlanOf("CDLCOUNTERATTACK") = CDLCOUNTERATTACK_Plan
  /\ PlanOf("CDLDARKCLOUDCOVER") = CDLDARKCLOUDCOVER_Plan
  /\ PlanOf("CDLDOJI") = CDLDOJI_Plan
  /\ PlanOf("CDLDOJISTAR") = CDLDOJISTAR_Plan
  /\ PlanOf("CDLDRAGONFLYDOJI") = CDLDRAGONFLYDOJI_Plan
  /\ PlanOf("CDLENGULFING") = CDLENGULFING_Plan
  /\ PlanOf("CDLEVENINGDOJISTAR") = CDLEVENINGDOJISTAR_Plan
  /\ PlanOf("CDLEVENINGSTAR") = CDLEVENINGSTAR_Plan
  /\ PlanOf("CDLGAPSIDESIDEWHITE") = CDLGAPSIDESIDEWHITE_Plan
  /\ PlanOf("CDLGRAVESTONEDOJI") = CDLGRAVESTONEDOJI_Plan
  /\ PlanOf("CDLHAMMER") = CDLHAMMER_Plan
  /\ PlanOf("CDLHANGINGMAN") = CDLHANGINGMAN_Plan
  /\ PlanOf("CDLHARAMI") = CDLHARAMI_Plan
  /\ PlanOf("CDLHARAMICROSS") = CDLHARAMICROSS_Plan
  /\ PlanOf("CDLHIGHWAVE") = CDLHIGHWAVE_Plan
  /\ PlanOf("CDLHIKKAKE") = CDLHIKKAKE_Plan
  /\ PlanOf("CDLHIKKAKEMOD") = CDLHIKKAKEMOD_Plan
  /\ PlanOf("CDLHOMINGPIGEON") = CDLHOMINGPIGEON_Plan
  /\ PlanOf("CDLIDENTICAL3CROWS") = CDLIDENTICAL3CROWS_Plan
  /\ PlanOf("CDLINNECK") = CDLINNECK_Plan
  /\ PlanOf("CDLINVERTEDHAMMER") = CDLINVERTEDHAMMER_Plan
  /\ PlanOf("CDLKICKING") = CDLKICKING_Plan
  /\ PlanOf("CDLKICKINGBYLENGTH") = CDLKICKINGBYLENGTH_Plan
  /\ PlanOf("CDLLADDERBOTTOM") = CDLLADDERBOTTOM_Plan
  /\ PlanOf("CDLLONGLEGGEDDOJI") = CDLLONGLEGGEDDOJI_Plan
  /\ PlanOf("CDLLONGLINE") = CDLLONGLINE_Plan
  /\ PlanOf("CDLMARUBOZU") = CDLMARUBOZU_Plan
  /\ PlanOf("CDLMATCHINGLOW") = CDLMATCHINGLOW_Plan
  /\ PlanOf("CDLMATHOLD") = CDLMATHOLD_Plan
  /\ PlanOf("CDLMORNINGDOJISTAR") = CDLMORNINGDOJISTAR_Plan
  /\ PlanOf("CDLMORNINGSTAR") = CDLMORNINGSTAR_Plan
  /\ PlanOf("CDLONNECK") = CDLONNECK_Plan
  /\ PlanOf("CDLPIERCING") = CDLPIERCING_Plan
  /\ PlanOf("CDLRICKSHAWMAN") = CDLRICKSHAWMAN_Plan
  /\ PlanOf("CDLRISEFALL3METHODS") = CDLRISEFALL3METHODS_Plan
  /\ PlanOf("CDLSEPARATINGLINES") = CDLSEPARATINGLINES_Plan
  /\ PlanOf("CDLSHOOTINGSTAR") = CDLSHOOTINGSTAR_Plan
  /\ PlanOf("CDLSHORTLINE") = CDLSHORTLINE_Plan
  /\ PlanOf("CDLSPINNINGTOP") = CDLSPINNINGTOP_Plan
  /\ PlanOf("CDLSTALLEDPATTERN") = CDLSTALLEDPATTERN_Plan
  /\ PlanOf("CDLSTICKSANDWICH") = CDLSTICKSANDWICH_Plan
  /\ PlanOf("CDLTAKURI") = CDLTAKURI_Plan
  /\ PlanOf("CDLTASUKIGAP") = CDLTASUKIGAP_Plan
  /\ PlanOf("CDLTHRUSTING") = CDLTHRUSTING_Plan
  /\ PlanOf("CDLTRISTAR") = CDLTRISTAR_Plan
  /\ PlanOf("CDLUNIQUE3RIVER") = CDLUNIQUE3RIVER_Plan
  /\ PlanOf("CDLUPSIDEGAP2CROWS") = CDLUPSIDEGAP2CROWS_Plan
  /\ PlanOf("CDLXSIDEGAP3METHODS") = CDLXSIDEGAP3METHODS_Plan
  BY SMTT(60) DEF PlanOf

\* Every function is well planned.
LEMMA FunctionsAreWellPlanned ==
  ASSUME SettingsOK, NEW p \in AllPatterns
  PROVE  WellPlanned(PlanOf(p))
  BY PlansByName, SinglesAreWellPlanned, PairsAreWellPlanned, TriplesAreWellPlanned,
     SequencesAreWellPlanned DEF AllPatterns

\* The plans depend on the settings alone.
LEMMA PlansStay ==
  ASSUME UNCHANGED settings, NEW p
  PROVE  UNCHANGED PlanOf(p)
  BY DEF PlanOf, Plan, Behind, Shifted, Total, AvgPeriod, CDL2CROWS_Plan, CDL3BLACKCROWS_Plan,
         CDL3INSIDE_Plan, CDL3LINESTRIKE_Plan, CDL3OUTSIDE_Plan, CDL3STARSINSOUTH_Plan,
         CDL3WHITESOLDIERS_Plan, CDLABANDONEDBABY_Plan, CDLADVANCEBLOCK_Plan, CDLBELTHOLD_Plan,
         CDLBREAKAWAY_Plan, CDLCLOSINGMARUBOZU_Plan, CDLCONCEALBABYSWALL_Plan,
         CDLCOUNTERATTACK_Plan, CDLDARKCLOUDCOVER_Plan, CDLDOJI_Plan, CDLDOJISTAR_Plan,
         CDLDRAGONFLYDOJI_Plan, CDLENGULFING_Plan, CDLEVENINGDOJISTAR_Plan, CDLEVENINGSTAR_Plan,
         CDLGAPSIDESIDEWHITE_Plan, CDLGRAVESTONEDOJI_Plan, CDLHAMMER_Plan, CDLHANGINGMAN_Plan,
         CDLHARAMI_Plan, CDLHARAMICROSS_Plan, CDLHIGHWAVE_Plan, CDLHIKKAKE_Plan,
         CDLHIKKAKEMOD_Plan, CDLHOMINGPIGEON_Plan, CDLIDENTICAL3CROWS_Plan, CDLINNECK_Plan,
         CDLINVERTEDHAMMER_Plan, CDLKICKING_Plan, CDLKICKINGBYLENGTH_Plan, CDLLADDERBOTTOM_Plan,
         CDLLONGLEGGEDDOJI_Plan, CDLLONGLINE_Plan, CDLMARUBOZU_Plan, CDLMATCHINGLOW_Plan,
         CDLMATHOLD_Plan, CDLMORNINGDOJISTAR_Plan, CDLMORNINGSTAR_Plan, CDLONNECK_Plan,
         CDLPIERCING_Plan, CDLRICKSHAWMAN_Plan, CDLRISEFALL3METHODS_Plan, CDLSEPARATINGLINES_Plan,
         CDLSHOOTINGSTAR_Plan, CDLSHORTLINE_Plan, CDLSPINNINGTOP_Plan, CDLSTALLEDPATTERN_Plan,
         CDLSTICKSANDWICH_Plan, CDLTAKURI_Plan, CDLTASUKIGAP_Plan, CDLTHRUSTING_Plan,
         CDLTRISTAR_Plan, CDLUNIQUE3RIVER_Plan, CDLUPSIDEGAP2CROWS_Plan, CDLXSIDEGAP3METHODS_Plan

-----------------------------------------------------------------------------
\* A candle is white or black.
LEMMA TwoColors ==
  \A k : Color(k) * 100 \in {-100, 100} /\ -Color(k) * 100 \in {-100, 100}
<1> TAKE k
<1>1. Color(k) = 1 \/ Color(k) = -1
  BY DEF Color
<1>2. QED
  BY <1>1

\* The functions without memory write -100, 0 or 100.
LEMMA ThreeValues ==
  ASSUME NEW j, NEW T
  PROVE  /\ CDL2CROWS(j, T) \in {-100, 0, 100}
         /\ CDL3BLACKCROWS(j, T) \in {-100, 0, 100}
         /\ CDL3INSIDE(j, T) \in {-100, 0, 100}
         /\ CDL3LINESTRIKE(j, T) \in {-100, 0, 100}
         /\ CDL3OUTSIDE(j, T) \in {-100, 0, 100}
         /\ CDL3STARSINSOUTH(j, T) \in {-100, 0, 100}
         /\ CDL3WHITESOLDIERS(j, T) \in {-100, 0, 100}
         /\ CDLABANDONEDBABY(j, T) \in {-100, 0, 100}
         /\ CDLADVANCEBLOCK(j, T) \in {-100, 0, 100}
         /\ CDLBELTHOLD(j, T) \in {-100, 0, 100}
         /\ CDLBREAKAWAY(j, T) \in {-100, 0, 100}
         /\ CDLCLOSINGMARUBOZU(j, T) \in {-100, 0, 100}
         /\ CDLCONCEALBABYSWALL(j, T) \in {-100, 0, 100}
         /\ CDLCOUNTERATTACK(j, T) \in {-100, 0, 100}
         /\ CDLDARKCLOUDCOVER(j, T) \in {-100, 0, 100}
         /\ CDLDOJI(j, T) \in {-100, 0, 100}
         /\ CDLDOJISTAR(j, T) \in {-100, 0, 100}
         /\ CDLDRAGONFLYDOJI(j, T) \in {-100, 0, 100}
         /\ CDLENGULFING(j, T) \in {-100, 0, 100}
         /\ CDLEVENINGDOJISTAR(j, T) \in {-100, 0, 100}
         /\ CDLEVENINGSTAR(j, T) \in {-100, 0, 100}
         /\ CDLGAPSIDESIDEWHITE(j, T) \in {-100, 0, 100}
         /\ CDLGRAVESTONEDOJI(j, T) \in {-100, 0, 100}
         /\ CDLHAMMER(j, T) \in {-100, 0, 100}
         /\ CDLHANGINGMAN(j, T) \in {-100, 0, 100}
         /\ CDLHARAMI(j, T) \in {-100, 0, 100}
         /\ CDLHARAMICROSS(j, T) \in {-100, 0, 100}
         /\ CDLHIGHWAVE(j, T) \in {-100, 0, 100}
         /\ CDLHOMINGPIGEON(j, T) \in {-100, 0, 100}
         /\ CDLIDENTICAL3CROWS(j, T) \in {-100, 0, 100}
         /\ CDLINNECK(j, T) \in {-100, 0, 100}
         /\ CDLINVERTEDHAMMER(j, T) \in {-100, 0, 100}
         /\ CDLKICKING(j, T) \in {-100, 0, 100}
         /\ CDLKICKINGBYLENGTH(j, T) \in {-100, 0, 100}
         /\ CDLLADDERBOTTOM(j, T) \in {-100, 0, 100}
         /\ CDLLONGLEGGEDDOJI(j, T) \in {-100, 0, 100}
         /\ CDLLONGLINE(j, T) \in {-100, 0, 100}
         /\ CDLMARUBOZU(j, T) \in {-100, 0, 100}
         /\ CDLMATCHINGLOW(j, T) \in {-100, 0, 100}
         /\ CDLMATHOLD(j, T) \in {-100, 0, 100}
         /\ CDLMORNINGDOJISTAR(j, T) \in {-100, 0, 100}
         /\ CDLMORNINGSTAR(j, T) \in {-100, 0, 100}
         /\ CDLONNECK(j, T) \in {-100, 0, 100}
         /\ CDLPIERCING(j, T) \in {-100, 0, 100}
         /\ CDLRICKSHAWMAN(j, T) \in {-100, 0, 100}
         /\ CDLRISEFALL3METHODS(j, T) \in {-100, 0, 100}
         /\ CDLSEPARATINGLINES(j, T) \in {-100, 0, 100}
         /\ CDLSHOOTINGSTAR(j, T) \in {-100, 0, 100}
         /\ CDLSHORTLINE(j, T) \in {-100, 0, 100}
         /\ CDLSPINNINGTOP(j, T) \in {-100, 0, 100}
         /\ CDLSTALLEDPATTERN(j, T) \in {-100, 0, 100}
         /\ CDLSTICKSANDWICH(j, T) \in {-100, 0, 100}
         /\ CDLTAKURI(j, T) \in {-100, 0, 100}
         /\ CDLTASUKIGAP(j, T) \in {-100, 0, 100}
         /\ CDLTHRUSTING(j, T) \in {-100, 0, 100}
         /\ CDLTRISTAR(j, T) \in {-100, 0, 100}
         /\ CDLUNIQUE3RIVER(j, T) \in {-100, 0, 100}
         /\ CDLUPSIDEGAP2CROWS(j, T) \in {-100, 0, 100}
         /\ CDLXSIDEGAP3METHODS(j, T) \in {-100, 0, 100}
<1>1. CDL2CROWS(j, T) \in {-100, 0, 100}
  BY TwoColors DEF CDL2CROWS
<1>2. CDL3BLACKCROWS(j, T) \in {-100, 0, 100}
  BY TwoColors DEF CDL3BLACKCROWS
<1>3. CDL3INSIDE(j, T) \in {-100, 0, 100}
  BY TwoColors DEF CDL3INSIDE
<1>4. CDL3LINESTRIKE(j, T) \in {-100, 0, 100}
  BY TwoColors DEF CDL3LINESTRIKE
<1>5. CDL3OUTSIDE(j, T) \in {-100, 0, 100}
  BY TwoColors DEF CDL3OUTSIDE
<1>6. CDL3STARSINSOUTH(j, T) \in {-100, 0, 100}
  BY TwoColors DEF CDL3STARSINSOUTH
<1>7. CDL3WHITESOLDIERS(j, T) \in {-100, 0, 100}
  BY TwoColors DEF CDL3WHITESOLDIERS
<1>8. CDLABANDONEDBABY(j, T) \in {-100, 0, 100}
  BY TwoColors DEF CDLABANDONEDBABY
<1>9. CDLADVANCEBLOCK(j, T) \in {-100, 0, 100}
  BY TwoColors DEF CDLADVANCEBLOCK
<1>10. CDLBELTHOLD(j, T) \in {-100, 0, 100}
  BY TwoColors DEF CDLBELTHOLD
<1>11. CDLBREAKAWAY(j, T) \in {-100, 0, 100}
  BY TwoColors DEF CDLBREAKAWAY
<1>12. CDLCLOSINGMARUBOZU(j, T) \in {-100, 0, 100}
  BY TwoColors DEF CDLCLOSINGMARUBOZU
<1>13. CDLCONCEALBABYSWALL(j, T) \in {-100, 0, 100}
  BY TwoColors DEF CDLCONCEALBABYSWALL
<1>14. CDLCOUNTERATTACK(j, T) \in {-100, 0, 100}
  BY TwoColors DEF CDLCOUNTERATTACK
<1>15. CDLDARKCLOUDCOVER(j, T) \in {-100, 0, 100}
  BY TwoColors DEF CDLDARKCLOUDCOVER
<1>16. CDLDOJI(j, T) \in {-100, 0, 100}
  BY TwoColors DEF CDLDOJI
<1>17. CDLDOJISTAR(j, T) \in {-100, 0, 100}
  BY TwoColors DEF CDLDOJISTAR
<1>18. CDLDRAGONFLYDOJI(j, T) \in {-100, 0, 100}
  BY TwoColors DEF CDLDRAGONFLYDOJI
<1>19. CDLENGULFING(j, T) \in {-100, 0, 100}
  BY TwoColors DEF CDLENGULFING
<1>20. CDLEVENINGDOJISTAR(j, T) \in {-100, 0, 100}
  BY TwoColors DEF CDLEVENINGDOJISTAR
<1>21. CDLEVENINGSTAR(j, T) \in {-100, 0, 100}
  BY TwoColors DEF CDLEVENINGSTAR
<1>22. CDLGAPSIDESIDEWHITE(j, T) \in {-100, 0, 100}
  BY TwoColors DEF CDLGAPSIDESIDEWHITE
<1>23. CDLGRAVESTONEDOJI(j, T) \in {-100, 0, 100}
  BY TwoColors DEF CDLGRAVESTONEDOJI
<1>24. CDLHAMMER(j, T) \in {-100, 0, 100}
  BY TwoColors DEF CDLHAMMER
<1>25. CDLHANGINGMAN(j, T) \in {-100, 0, 100}
  BY TwoColors DEF CDLHANGINGMAN
<1>26. CDLHARAMI(j, T) \in {-100, 0, 100}
  BY TwoColors DEF CDLHARAMI
<1>27. CDLHARAMICROSS(j, T) \in {-100, 0, 100}
  BY TwoColors DEF CDLHARAMICROSS
<1>28. CDLHIGHWAVE(j, T) \in {-100, 0, 100}
  BY TwoColors DEF CDLHIGHWAVE
<1>29. CDLHOMINGPIGEON(j, T) \in {-100, 0, 100}
  BY TwoColors DEF CDLHOMINGPIGEON
<1>30. CDLIDENTICAL3CROWS(j, T) \in {-100, 0, 100}
  BY TwoColors DEF CDLIDENTICAL3CROWS
<1>31. CDLINNECK(j, T) \in {-100, 0, 100}
  BY TwoColors DEF CDLINNECK
<1>32. CDLINVERTEDHAMMER(j, T) \in {-100, 0, 100}
  BY TwoColors DEF CDLINVERTEDHAMMER
<1>33. CDLKICKING(j, T) \in {-100, 0, 100}
  BY TwoColors DEF CDLKICKING
<1>34. CDLKICKINGBYLENGTH(j, T) \in {-100, 0, 100}
  BY TwoColors DEF CDLKICKINGBYLENGTH
<1>35. CDLLADDERBOTTOM(j, T) \in {-100, 0, 100}
  BY TwoColors DEF CDLLADDERBOTTOM
<1>36. CDLLONGLEGGEDDOJI(j, T) \in {-100, 0, 100}
  BY TwoColors DEF CDLLONGLEGGEDDOJI
<1>37. CDLLONGLINE(j, T) \in {-100, 0, 100}
  BY TwoColors DEF CDLLONGLINE
<1>38. CDLMARUBOZU(j, T) \in {-100, 0, 100}
  BY TwoColors DEF CDLMARUBOZU
<1>39. CDLMATCHINGLOW(j, T) \in {-100, 0, 100}
  BY TwoColors DEF CDLMATCHINGLOW
<1>40. CDLMATHOLD(j, T) \in {-100, 0, 100}
  BY TwoColors DEF CDLMATHOLD
<1>41. CDLMORNINGDOJISTAR(j, T) \in {-100, 0, 100}
  BY TwoColors DEF CDLMORNINGDOJISTAR
<1>42. CDLMORNINGSTAR(j, T) \in {-100, 0, 100}
  BY TwoColors DEF CDLMORNINGSTAR
<1>43. CDLONNECK(j, T) \in {-100, 0, 100}
  BY TwoColors DEF CDLONNECK
<1>44. CDLPIERCING(j, T) \in {-100, 0, 100}
  BY TwoColors DEF CDLPIERCING
<1>45. CDLRICKSHAWMAN(j, T) \in {-100, 0, 100}
  BY TwoColors DEF CDLRICKSHAWMAN
<1>46. CDLRISEFALL3METHODS(j, T) \in {-100, 0, 100}
  BY TwoColors DEF CDLRISEFALL3METHODS
<1>47. CDLSEPARATINGLINES(j, T) \in {-100, 0, 100}
  BY TwoColors DEF CDLSEPARATINGLINES
<1>48. CDLSHOOTINGSTAR(j, T) \in {-100, 0, 100}
  BY TwoColors DEF CDLSHOOTINGSTAR
<1>49. CDLSHORTLINE(j, T) \in {-100, 0, 100}
  BY TwoColors DEF CDLSHORTLINE
<1>50. CDLSPINNINGTOP(j, T) \in {-100, 0, 100}
  BY TwoColors DEF CDLSPINNINGTOP
<1>51. CDLSTALLEDPATTERN(j, T) \in {-100, 0, 100}
  BY TwoColors DEF CDLSTALLEDPATTERN
<1>52. CDLSTICKSANDWICH(j, T) \in {-100, 0, 100}
  BY TwoColors DEF CDLSTICKSANDWICH
<1>53. CDLTAKURI(j, T) \in {-100, 0, 100}
  BY TwoColors DEF CDLTAKURI
<1>54. CDLTASUKIGAP(j, T) \in {-100, 0, 100}
  BY TwoColors DEF CDLTASUKIGAP
<1>55. CDLTHRUSTING(j, T) \in {-100, 0, 100}
  BY TwoColors DEF CDLTHRUSTING
<1>56. CDLTRISTAR(j, T) \in {-100, 0, 100}
  BY TwoColors DEF CDLTRISTAR
<1>57. CDLUNIQUE3RIVER(j, T) \in {-100, 0, 100}
  BY TwoColors DEF CDLUNIQUE3RIVER
<1>58. CDLUPSIDEGAP2CROWS(j, T) \in {-100, 0, 100}
  BY TwoColors DEF CDLUPSIDEGAP2CROWS
<1>59. CDLXSIDEGAP3METHODS(j, T) \in {-100, 0, 100}
  BY TwoColors DEF CDLXSIDEGAP3METHODS
<1>60. QED
  BY <1>1, <1>2, <1>3, <1>4, <1>5, <1>6, <1>7, <1>8, <1>9, <1>10, <1>11, <1>12, <1>13, <1>14,
     <1>15, <1>16, <1>17, <1>18, <1>19, <1>20, <1>21, <1>22, <1>23, <1>24, <1>25, <1>26, <1>27,
     <1>28, <1>29, <1>30, <1>31, <1>32, <1>33, <1>34, <1>35, <1>36, <1>37, <1>38, <1>39, <1>40,
     <1>41, <1>42, <1>43, <1>44, <1>45, <1>46, <1>47, <1>48, <1>49, <1>50, <1>51, <1>52, <1>53,
     <1>54, <1>55, <1>56, <1>57, <1>58, <1>59

\* They leave the memory alone.
Writes(p, j, T, v) == \A memory : Output(p, j, T, memory) = [value |-> v, hk |-> memory]

LEMMA OutputsByName ==
  ASSUME NEW j, NEW T
  PROVE  /\ Writes("CDL2CROWS", j, T, CDL2CROWS(j, T))
         /\ Writes("CDL3BLACKCROWS", j, T, CDL3BLACKCROWS(j, T))
         /\ Writes("CDL3INSIDE", j, T, CDL3INSIDE(j, T))
         /\ Writes("CDL3LINESTRIKE", j, T, CDL3LINESTRIKE(j, T))
         /\ Writes("CDL3OUTSIDE", j, T, CDL3OUTSIDE(j, T))
         /\ Writes("CDL3STARSINSOUTH", j, T, CDL3STARSINSOUTH(j, T))
         /\ Writes("CDL3WHITESOLDIERS", j, T, CDL3WHITESOLDIERS(j, T))
         /\ Writes("CDLABANDONEDBABY", j, T, CDLABANDONEDBABY(j, T))
         /\ Writes("CDLADVANCEBLOCK", j, T, CDLADVANCEBLOCK(j, T))
         /\ Writes("CDLBELTHOLD", j, T, CDLBELTHOLD(j, T))
         /\ Writes("CDLBREAKAWAY", j, T, CDLBREAKAWAY(j, T))
         /\ Writes("CDLCLOSINGMARUBOZU", j, T, CDLCLOSINGMARUBOZU(j, T))
         /\ Writes("CDLCONCEALBABYSWALL", j, T, CDLCONCEALBABYSWALL(j, T))
         /\ Writes("CDLCOUNTERATTACK", j, T, CDLCOUNTERATTACK(j, T))
         /\ Writes("CDLDARKCLOUDCOVER", j, T, CDLDARKCLOUDCOVER(j, T))
         /\ Writes("CDLDOJI", j, T, CDLDOJI(j, T))
         /\ Writes("CDLDOJISTAR", j, T, CDLDOJISTAR(j, T))
         /\ Writes("CDLDRAGONFLYDOJI", j, T, CDLDRAGONFLYDOJI(j, T))
         /\ Writes("CDLENGULFING", j, T, CDLENGULFING(j, T))
         /\ Writes("CDLEVENINGDOJISTAR", j, T, CDLEVENINGDOJISTAR(j, T))
         /\ Writes("CDLEVENINGSTAR", j, T, CDLEVENINGSTAR(j, T))
         /\ Writes("CDLGAPSIDESIDEWHITE", j, T, CDLGAPSIDESIDEWHITE(j, T))
         /\ Writes("CDLGRAVESTONEDOJI", j, T, CDLGRAVESTONEDOJI(j, T))
         /\ Writes("CDLHAMMER", j, T, CDLHAMMER(j, T))
         /\ Writes("CDLHANGINGMAN", j, T, CDLHANGINGMAN(j, T))
         /\ Writes("CDLHARAMI", j, T, CDLHARAMI(j, T))
         /\ Writes("CDLHARAMICROSS", j, T, CDLHARAMICROSS(j, T))
         /\ Writes("CDLHIGHWAVE", j, T, CDLHIGHWAVE(j, T))
         /\ Writes("CDLHOMINGPIGEON", j, T, CDLHOMINGPIGEON(j, T))
         /\ Writes("CDLIDENTICAL3CROWS", j, T, CDLIDENTICAL3CROWS(j, T))
         /\ Writes("CDLINNECK", j, T, CDLINNECK(j, T))
         /\ Writes("CDLINVERTEDHAMMER", j, T, CDLINVERTEDHAMMER(j, T))
         /\ Writes("CDLKICKING", j, T, CDLKICKING(j, T))
         /\ Writes("CDLKICKINGBYLENGTH", j, T, CDLKICKINGBYLENGTH(j, T))
         /\ Writes("CDLLADDERBOTTOM", j, T, CDLLADDERBOTTOM(j, T))
         /\ Writes("CDLLONGLEGGEDDOJI", j, T, CDLLONGLEGGEDDOJI(j, T))
         /\ Writes("CDLLONGLINE", j, T, CDLLONGLINE(j, T))
         /\ Writes("CDLMARUBOZU", j, T, CDLMARUBOZU(j, T))
         /\ Writes("CDLMATCHINGLOW", j, T, CDLMATCHINGLOW(j, T))
         /\ Writes("CDLMATHOLD", j, T, CDLMATHOLD(j, T))
         /\ Writes("CDLMORNINGDOJISTAR", j, T, CDLMORNINGDOJISTAR(j, T))
         /\ Writes("CDLMORNINGSTAR", j, T, CDLMORNINGSTAR(j, T))
         /\ Writes("CDLONNECK", j, T, CDLONNECK(j, T))
         /\ Writes("CDLPIERCING", j, T, CDLPIERCING(j, T))
         /\ Writes("CDLRICKSHAWMAN", j, T, CDLRICKSHAWMAN(j, T))
         /\ Writes("CDLRISEFALL3METHODS", j, T, CDLRISEFALL3METHODS(j, T))
         /\ Writes("CDLSEPARATINGLINES", j, T, CDLSEPARATINGLINES(j, T))
         /\ Writes("CDLSHOOTINGSTAR", j, T, CDLSHOOTINGSTAR(j, T))
         /\ Writes("CDLSHORTLINE", j, T, CDLSHORTLINE(j, T))
         /\ Writes("CDLSPINNINGTOP", j, T, CDLSPINNINGTOP(j, T))
         /\ Writes("CDLSTALLEDPATTERN", j, T, CDLSTALLEDPATTERN(j, T))
         /\ Writes("CDLSTICKSANDWICH", j, T, CDLSTICKSANDWICH(j, T))
         /\ Writes("CDLTAKURI", j, T, CDLTAKURI(j, T))
         /\ Writes("CDLTASUKIGAP", j, T, CDLTASUKIGAP(j, T))
         /\ Writes("CDLTHRUSTING", j, T, CDLTHRUSTING(j, T))
         /\ Writes("CDLTRISTAR", j, T, CDLTRISTAR(j, T))
         /\ Writes("CDLUNIQUE3RIVER", j, T, CDLUNIQUE3RIVER(j, T))
         /\ Writes("CDLUPSIDEGAP2CROWS", j, T, CDLUPSIDEGAP2CROWS(j, T))
         /\ Writes("CDLXSIDEGAP3METHODS", j, T, CDLXSIDEGAP3METHODS(j, T))
<1> SUFFICES ASSUME NEW memory
             PROVE  /\ Output("CDL2CROWS", j, T, memory) = [value |-> CDL2CROWS(j, T), hk |-> memory]
                    /\ Output("CDL3BLACKCROWS", j, T, memory) = [value |-> CDL3BLACKCROWS(j, T), hk |-> memory]
                    /\ Output("CDL3INSIDE", j, T, memory) = [value |-> CDL3INSIDE(j, T), hk |-> memory]
                    /\ Output("CDL3LINESTRIKE", j, T, memory) = [value |-> CDL3LINESTRIKE(j, T), hk |-> memory]
                    /\ Output("CDL3OUTSIDE", j, T, memory) = [value |-> CDL3OUTSIDE(j, T), hk |-> memory]
                    /\ Output("CDL3STARSINSOUTH", j, T, memory) = [value |-> CDL3STARSINSOUTH(j, T), hk |-> memory]
                    /\ Output("CDL3WHITESOLDIERS", j, T, memory) = [value |-> CDL3WHITESOLDIERS(j, T), hk |-> memory]
                    /\ Output("CDLABANDONEDBABY", j, T, memory) = [value |-> CDLABANDONEDBABY(j, T), hk |-> memory]
                    /\ Output("CDLADVANCEBLOCK", j, T, memory) = [value |-> CDLADVANCEBLOCK(j, T), hk |-> memory]
                    /\ Output("CDLBELTHOLD", j, T, memory) = [value |-> CDLBELTHOLD(j, T), hk |-> memory]
                    /\ Output("CDLBREAKAWAY", j, T, memory) = [value |-> CDLBREAKAWAY(j, T), hk |-> memory]
                    /\ Output("CDLCLOSINGMARUBOZU", j, T, memory) = [value |-> CDLCLOSINGMARUBOZU(j, T), hk |-> memory]
                    /\ Output("CDLCONCEALBABYSWALL", j, T, memory) = [value |-> CDLCONCEALBABYSWALL(j, T), hk |-> memory]
                    /\ Output("CDLCOUNTERATTACK", j, T, memory) = [value |-> CDLCOUNTERATTACK(j, T), hk |-> memory]
                    /\ Output("CDLDARKCLOUDCOVER", j, T, memory) = [value |-> CDLDARKCLOUDCOVER(j, T), hk |-> memory]
                    /\ Output("CDLDOJI", j, T, memory) = [value |-> CDLDOJI(j, T), hk |-> memory]
                    /\ Output("CDLDOJISTAR", j, T, memory) = [value |-> CDLDOJISTAR(j, T), hk |-> memory]
                    /\ Output("CDLDRAGONFLYDOJI", j, T, memory) = [value |-> CDLDRAGONFLYDOJI(j, T), hk |-> memory]
                    /\ Output("CDLENGULFING", j, T, memory) = [value |-> CDLENGULFING(j, T), hk |-> memory]
                    /\ Output("CDLEVENINGDOJISTAR", j, T, memory) = [value |-> CDLEVENINGDOJISTAR(j, T), hk |-> memory]
                    /\ Output("CDLEVENINGSTAR", j, T, memory) = [value |-> CDLEVENINGSTAR(j, T), hk |-> memory]
                    /\ Output("CDLGAPSIDESIDEWHITE", j, T, memory) = [value |-> CDLGAPSIDESIDEWHITE(j, T), hk |-> memory]
                    /\ Output("CDLGRAVESTONEDOJI", j, T, memory) = [value |-> CDLGRAVESTONEDOJI(j, T), hk |-> memory]
                    /\ Output("CDLHAMMER", j, T, memory) = [value |-> CDLHAMMER(j, T), hk |-> memory]
                    /\ Output("CDLHANGINGMAN", j, T, memory) = [value |-> CDLHANGINGMAN(j, T), hk |-> memory]
                    /\ Output("CDLHARAMI", j, T, memory) = [value |-> CDLHARAMI(j, T), hk |-> memory]
                    /\ Output("CDLHARAMICROSS", j, T, memory) = [value |-> CDLHARAMICROSS(j, T), hk |-> memory]
                    /\ Output("CDLHIGHWAVE", j, T, memory) = [value |-> CDLHIGHWAVE(j, T), hk |-> memory]
                    /\ Output("CDLHOMINGPIGEON", j, T, memory) = [value |-> CDLHOMINGPIGEON(j, T), hk |-> memory]
                    /\ Output("CDLIDENTICAL3CROWS", j, T, memory) = [value |-> CDLIDENTICAL3CROWS(j, T), hk |-> memory]
                    /\ Output("CDLINNECK", j, T, memory) = [value |-> CDLINNECK(j, T), hk |-> memory]
                    /\ Output("CDLINVERTEDHAMMER", j, T, memory) = [value |-> CDLINVERTEDHAMMER(j, T), hk |-> memory]
                    /\ Output("CDLKICKING", j, T, memory) = [value |-> CDLKICKING(j, T), hk |-> memory]
                    /\ Output("CDLKICKINGBYLENGTH", j, T, memory) = [value |-> CDLKICKINGBYLENGTH(j, T), hk |-> memory]
                    /\ Output("CDLLADDERBOTTOM", j, T, memory) = [value |-> CDLLADDERBOTTOM(j, T), hk |-> memory]
                    /\ Output("CDLLONGLEGGEDDOJI", j, T, memory) = [value |-> CDLLONGLEGGEDDOJI(j, T), hk |-> memory]
                    /\ Output("CDLLONGLINE", j, T, memory) = [value |-> CDLLONGLINE(j, T), hk |-> memory]
                    /\ Output("CDLMARUBOZU", j, T, memory) = [value |-> CDLMARUBOZU(j, T), hk |-> memory]
                    /\ Output("CDLMATCHINGLOW", j, T, memory) = [value |-> CDLMATCHINGLOW(j, T), hk |-> memory]
                    /\ Output("CDLMATHOLD", j, T, memory) = [value |-> CDLMATHOLD(j, T), hk |-> memory]
                    /\ Output("CDLMORNINGDOJISTAR", j, T, memory) = [value |-> CDLMORNINGDOJISTAR(j, T), hk |-> memory]
                    /\ Output("CDLMORNINGSTAR", j, T, memory) = [value |-> CDLMORNINGSTAR(j, T), hk |-> memory]
                    /\ Output("CDLONNECK", j, T, memory) = [value |-> CDLONNECK(j, T), hk |-> memory]
                    /\ Output("CDLPIERCING", j, T, memory) = [value |-> CDLPIERCING(j, T), hk |-> memory]
                    /\ Output("CDLRICKSHAWMAN", j, T, memory) = [value |-> CDLRICKSHAWMAN(j, T), hk |-> memory]
                    /\ Output("CDLRISEFALL3METHODS", j, T, memory) = [value |-> CDLRISEFALL3METHODS(j, T), hk |-> memory]
                    /\ Output("CDLSEPARATINGLINES", j, T, memory) = [value |-> CDLSEPARATINGLINES(j, T), hk |-> memory]
                    /\ Output("CDLSHOOTINGSTAR", j, T, memory) = [value |-> CDLSHOOTINGSTAR(j, T), hk |-> memory]
                    /\ Output("CDLSHORTLINE", j, T, memory) = [value |-> CDLSHORTLINE(j, T), hk |-> memory]
                    /\ Output("CDLSPINNINGTOP", j, T, memory) = [value |-> CDLSPINNINGTOP(j, T), hk |-> memory]
                    /\ Output("CDLSTALLEDPATTERN", j, T, memory) = [value |-> CDLSTALLEDPATTERN(j, T), hk |-> memory]
                    /\ Output("CDLSTICKSANDWICH", j, T, memory) = [value |-> CDLSTICKSANDWICH(j, T), hk |-> memory]
                    /\ Output("CDLTAKURI", j, T, memory) = [value |-> CDLTAKURI(j, T), hk |-> memory]
                    /\ Output("CDLTASUKIGAP", j, T, memory) = [value |-> CDLTASUKIGAP(j, T), hk |-> memory]
                    /\ Output("CDLTHRUSTING", j, T, memory) = [value |-> CDLTHRUSTING(j, T), hk |-> memory]
                    /\ Output("CDLTRISTAR", j, T, memory) = [value |-> CDLTRISTAR(j, T), hk |-> memory]
                    /\ Output("CDLUNIQUE3RIVER", j, T, memory) = [value |-> CDLUNIQUE3RIVER(j, T), hk |-> memory]
                    /\ Output("CDLUPSIDEGAP2CROWS", j, T, memory) = [value |-> CDLUPSIDEGAP2CROWS(j, T), hk |-> memory]
                    /\ Output("CDLXSIDEGAP3METHODS", j, T, memory) = [value |-> CDLXSIDEGAP3METHODS(j, T), hk |-> memory]
  BY ZenonT(120) DEF Writes
<1>1. QED
  BY ZenonT(300) DEF Output

LEMMA PlainOutputs ==
  ASSUME NEW p \in AllPatterns \ Hikkakes, NEW j, NEW T, NEW memory
  PROVE  /\ Output(p, j, T, memory) = [value |-> Output(p, j, T, NoPattern).value, hk |-> memory]
         /\ Output(p, j, T, memory).value \in {-100, 0, 100}
<1>1. PICK v \in {-100, 0, 100} : Writes(p, j, T, v)
  BY OutputsByName, ThreeValues DEF AllPatterns, Hikkakes
<1>2. QED
  BY <1>1 DEF Writes

-----------------------------------------------------------------------------
\* The sums an average is over depend on the bars and the settings alone, ...
LEMMA SumsStay ==
  ASSUME UNCHANGED <<bars, settings>>, NEW p, NEW j
  PROVE  UNCHANGED Exact(p, j)
<1>1. UNCHANGED PlanOf(p)
  BY PlansStay
<1>2. QED
  BY <1>1 DEF Exact, SumsAt, SumAt, RangeSum, RealBody, HighLowRange, UpperShadow, LowerShadow,
              BodyTop, BodyBottom, Open, High, Low, Close, Abs, Larger, Smaller, CandleRange,
              AvgPeriod

\* ... and what a function finds there on the penetration besides.
LEMMA PlainFindsStay ==
  ASSUME UNCHANGED <<bars, settings, penetration>>, NEW p \in AllPatterns \ Hikkakes, NEW j
  PROVE  UNCHANGED Found(p, j)
<1> DEFINE T == Exact(p, j)
<1> USE DEF Color, White, Black, RealBody, HighLowRange, UpperShadow, LowerShadow, BodyTop,
            BodyBottom, Open, High, Low, Close, Abs, Larger, Smaller, Average, CandleRange,
            AvgPeriod, RealBodyGapUp, RealBodyGapDown, CandleGapUp, CandleGapDown, Penetration,
            Half
<1>0. T' = T
  BY SumsStay
<1> HIDE DEF T
<1>1. UNCHANGED CDL2CROWS(j, T)
  BY <1>0 DEF CDL2CROWS
<1>2. UNCHANGED CDL3BLACKCROWS(j, T)
  BY <1>0 DEF CDL3BLACKCROWS
<1>3. UNCHANGED CDL3INSIDE(j, T)
  BY <1>0 DEF CDL3INSIDE
<1>4. UNCHANGED CDL3LINESTRIKE(j, T)
  BY <1>0 DEF CDL3LINESTRIKE
<1>5. UNCHANGED CDL3OUTSIDE(j, T)
  BY <1>0 DEF CDL3OUTSIDE
<1>6. UNCHANGED CDL3STARSINSOUTH(j, T)
  BY <1>0 DEF CDL3STARSINSOUTH
<1>7. UNCHANGED CDL3WHITESOLDIERS(j, T)
  BY <1>0 DEF CDL3WHITESOLDIERS
<1>8. UNCHANGED CDLABANDONEDBABY(j, T)
  BY <1>0 DEF CDLABANDONEDBABY
<1>9. UNCHANGED CDLADVANCEBLOCK(j, T)
  BY <1>0 DEF CDLADVANCEBLOCK
<1>10. UNCHANGED CDLBELTHOLD(j, T)
  BY <1>0 DEF CDLBELTHOLD
<1>11. UNCHANGED CDLBREAKAWAY(j, T)
  BY <1>0 DEF CDLBREAKAWAY
<1>12. UNCHANGED CDLCLOSINGMARUBOZU(j, T)
  BY <1>0 DEF CDLCLOSINGMARUBOZU
<1>13. UNCHANGED CDLCONCEALBABYSWALL(j, T)
  BY <1>0 DEF CDLCONCEALBABYSWALL
<1>14. UNCHANGED CDLCOUNTERATTACK(j, T)
  BY <1>0 DEF CDLCOUNTERATTACK
<1>15. UNCHANGED CDLDARKCLOUDCOVER(j, T)
  BY <1>0 DEF CDLDARKCLOUDCOVER
<1>16. UNCHANGED CDLDOJI(j, T)
  BY <1>0 DEF CDLDOJI
<1>17. UNCHANGED CDLDOJISTAR(j, T)
  BY <1>0 DEF CDLDOJISTAR
<1>18. UNCHANGED CDLDRAGONFLYDOJI(j, T)
  BY <1>0 DEF CDLDRAGONFLYDOJI
<1>19. UNCHANGED CDLENGULFING(j, T)
  BY <1>0 DEF CDLENGULFING
<1>20. UNCHANGED CDLEVENINGDOJISTAR(j, T)
  BY <1>0 DEF CDLEVENINGDOJISTAR
<1>21. UNCHANGED CDLEVENINGSTAR(j, T)
  BY <1>0 DEF CDLEVENINGSTAR
<1>22. UNCHANGED CDLGAPSIDESIDEWHITE(j, T)
  BY <1>0 DEF CDLGAPSIDESIDEWHITE
<1>23. UNCHANGED CDLGRAVESTONEDOJI(j, T)
  BY <1>0 DEF CDLGRAVESTONEDOJI
<1>24. UNCHANGED CDLHAMMER(j, T)
  BY <1>0 DEF CDLHAMMER
<1>25. UNCHANGED CDLHANGINGMAN(j, T)
  BY <1>0 DEF CDLHANGINGMAN
<1>26. UNCHANGED CDLHARAMI(j, T)
  BY <1>0 DEF CDLHARAMI
<1>27. UNCHANGED CDLHARAMICROSS(j, T)
  BY <1>0 DEF CDLHARAMICROSS
<1>28. UNCHANGED CDLHIGHWAVE(j, T)
  BY <1>0 DEF CDLHIGHWAVE
<1>29. UNCHANGED CDLHOMINGPIGEON(j, T)
  BY <1>0 DEF CDLHOMINGPIGEON
<1>30. UNCHANGED CDLIDENTICAL3CROWS(j, T)
  BY <1>0 DEF CDLIDENTICAL3CROWS
<1>31. UNCHANGED CDLINNECK(j, T)
  BY <1>0 DEF CDLINNECK
<1>32. UNCHANGED CDLINVERTEDHAMMER(j, T)
  BY <1>0 DEF CDLINVERTEDHAMMER
<1>33. UNCHANGED CDLKICKING(j, T)
  BY <1>0 DEF CDLKICKING
<1>34. UNCHANGED CDLKICKINGBYLENGTH(j, T)
  BY <1>0 DEF CDLKICKINGBYLENGTH
<1>35. UNCHANGED CDLLADDERBOTTOM(j, T)
  BY <1>0 DEF CDLLADDERBOTTOM
<1>36. UNCHANGED CDLLONGLEGGEDDOJI(j, T)
  BY <1>0 DEF CDLLONGLEGGEDDOJI
<1>37. UNCHANGED CDLLONGLINE(j, T)
  BY <1>0 DEF CDLLONGLINE
<1>38. UNCHANGED CDLMARUBOZU(j, T)
  BY <1>0 DEF CDLMARUBOZU
<1>39. UNCHANGED CDLMATCHINGLOW(j, T)
  BY <1>0 DEF CDLMATCHINGLOW
<1>40. UNCHANGED CDLMATHOLD(j, T)
  BY <1>0 DEF CDLMATHOLD
<1>41. UNCHANGED CDLMORNINGDOJISTAR(j, T)
  BY <1>0 DEF CDLMORNINGDOJISTAR
<1>42. UNCHANGED CDLMORNINGSTAR(j, T)
  BY <1>0 DEF CDLMORNINGSTAR
<1>43. UNCHANGED CDLONNECK(j, T)
  BY <1>0 DEF CDLONNECK
<1>44. UNCHANGED CDLPIERCING(j, T)
  BY <1>0 DEF CDLPIERCING
<1>45. UNCHANGED CDLRICKSHAWMAN(j, T)
  BY <1>0 DEF CDLRICKSHAWMAN
<1>46. UNCHANGED CDLRISEFALL3METHODS(j, T)
  BY <1>0 DEF CDLRISEFALL3METHODS
<1>47. UNCHANGED CDLSEPARATINGLINES(j, T)
  BY <1>0 DEF CDLSEPARATINGLINES
<1>48. UNCHANGED CDLSHOOTINGSTAR(j, T)
  BY <1>0 DEF CDLSHOOTINGSTAR
<1>49. UNCHANGED CDLSHORTLINE(j, T)
  BY <1>0 DEF CDLSHORTLINE
<1>50. UNCHANGED CDLSPINNINGTOP(j, T)
  BY <1>0 DEF CDLSPINNINGTOP
<1>51. UNCHANGED CDLSTALLEDPATTERN(j, T)
  BY <1>0 DEF CDLSTALLEDPATTERN
<1>52. UNCHANGED CDLSTICKSANDWICH(j, T)
  BY <1>0 DEF CDLSTICKSANDWICH
<1>53. UNCHANGED CDLTAKURI(j, T)
  BY <1>0 DEF CDLTAKURI
<1>54. UNCHANGED CDLTASUKIGAP(j, T)
  BY <1>0 DEF CDLTASUKIGAP
<1>55. UNCHANGED CDLTHRUSTING(j, T)
  BY <1>0 DEF CDLTHRUSTING
<1>56. UNCHANGED CDLTRISTAR(j, T)
  BY <1>0 DEF CDLTRISTAR
<1>57. UNCHANGED CDLUNIQUE3RIVER(j, T)
  BY <1>0 DEF CDLUNIQUE3RIVER
<1>58. UNCHANGED CDLUPSIDEGAP2CROWS(j, T)
  BY <1>0 DEF CDLUPSIDEGAP2CROWS
<1>59. UNCHANGED CDLXSIDEGAP3METHODS(j, T)
  BY <1>0 DEF CDLXSIDEGAP3METHODS
<1> HIDE DEF Color, White, Black, RealBody, HighLowRange, UpperShadow, LowerShadow, BodyTop,
             BodyBottom, Open, High, Low, Close, Abs, Larger, Smaller, Average, CandleRange,
             AvgPeriod, RealBodyGapUp, RealBodyGapDown, CandleGapUp, CandleGapDown, Penetration,
             Half
<1>60. UNCHANGED Output(p, j, T, NoPattern)
  BY <1>1, <1>2, <1>3, <1>4, <1>5, <1>6, <1>7, <1>8, <1>9, <1>10, <1>11, <1>12, <1>13, <1>14,
     <1>15, <1>16, <1>17, <1>18, <1>19, <1>20, <1>21, <1>22, <1>23, <1>24, <1>25, <1>26, <1>27,
     <1>28, <1>29, <1>30, <1>31, <1>32, <1>33, <1>34, <1>35, <1>36, <1>37, <1>38, <1>39, <1>40,
     <1>41, <1>42, <1>43, <1>44, <1>45, <1>46, <1>47, <1>48, <1>49, <1>50, <1>51, <1>52, <1>53,
     <1>54, <1>55, <1>56, <1>57, <1>58, <1>59
  DEF Output, NoPattern, AllPatterns, Hikkakes
<1>61. UNCHANGED PlanOf(p)
  BY PlansStay
<1>62. QED
  BY <1>60, <1>61 DEF Found, T

-----------------------------------------------------------------------------
(* The proofs about the calls. *)

Results == {-200, -100, 0, 100, 200}

-----------------------------------------------------------------------------
(* The inductive invariant. *)

\* The bars are a series, the settings have their type and the penetration is one of a caller's, ...
SeriesOK ==
  /\ \E n \in Nat : DOMAIN bars = 0 .. (n - 1) /\ Cardinality(DOMAIN bars) = n
  /\ \A k \in DOMAIN bars : bars[k] \in BarType /\ IsBar(bars[k])
  /\ settings \in [CandleSettingTypes -> CandleSettings]
  /\ penetration \in Penetrations

\* ... and a call is of one of the functions.
CallOK ==
  /\ pc \in {"ready", "loop", "returned"}
  /\ pattern \in Patterns \cup {"none"} /\ startIdx \in Nat
  /\ retCode \in {"none", "TA_SUCCESS", "TA_OUT_OF_RANGE_START_INDEX", "TA_OUT_OF_RANGE_END_INDEX"}
  /\ DOMAIN totals = DOMAIN trailing
  /\ \A t \in DOMAIN totals : totals[t] \in Int /\ trailing[t] \in Int

\* Before a call there are no outputs and there is no memory of a pattern; outputs are of a call.
Fresh ==
  /\ pc = "ready" => outInteger = <<>> /\ hk = NoPattern
  /\ outInteger # <<>> => pattern \in Patterns

\* The outputs written are what the bars say, each at its bar.
OutputsExact ==
  /\ outInteger \in Seq(Int)
  /\ \A n \in DOMAIN outInteger :
        outInteger[n] \in Results /\ outInteger[n] = FoundAt(pattern, startIdx + n - 1)

\* Where the loop is: between its first bar and the end of the range, inside the arrays, with one
\* output for each bar from startIdx on.
LoopInRange ==
  /\ pattern \in Patterns
  /\ startIdx \in Nat /\ endIdx \in Nat /\ i \in Nat
  /\ PlanOf(pattern).lookback <= startIdx /\ startIdx <= endIdx /\ endIdx \in DOMAIN bars
  /\ startIdx - PlanOf(pattern).early <= i /\ i <= endIdx + 1
  /\ Len(outInteger) = IF i < startIdx THEN 0 ELSE i - startIdx

\* The running totals are the sums the next iteration needs, each with its trailing bar.
TrailingAt(plan, j) == [t \in DOMAIN plan |-> j - plan[t].off - AvgPeriod(plan[t].set)]
TotalsExact ==
  totals = Exact(pattern, i) /\ trailing = TrailingAt(PlanOf(pattern).totals, i)

\* Pattern k no longer waits at bar j: a later pattern took its place, or a bar confirmed it.
Settled(p, k, j) ==
  \E m \in (k + 1) .. (j - 1) : IsSetup(p, m) \/ (m <= k + 3 /\ Beyond(k, m))

Memories == [idx : Nat, result : {-100, 0, 100}]

\* The memory before bar j is the pattern found since bar first that still waits, if there is one.
Remembers(memory, p, first, j) ==
  /\ memory \in Memories
  /\ \/ /\ memory.idx \in first .. (j - 1) /\ memory.idx >= 1
        /\ IsSetup(p, memory.idx) /\ memory.result = Direction(memory.idx)
        /\ ~Settled(p, memory.idx, j)
     \/ /\ memory.idx = 0 /\ (memory.result = 0 \/ j > 3)
        /\ \A k \in first .. (j - 1) : IsSetup(p, k) => Settled(p, k, j)

LoopInv ==
  pc = "loop" =>
    /\ LoopInRange
    /\ TotalsExact
    /\ pattern \in Hikkakes => Remembers(hk, pattern, startIdx - PlanOf(pattern).early, i)
    /\ pattern \notin Hikkakes => hk = NoPattern

IInv == SeriesOK /\ CallOK /\ Fresh /\ OutputsExact /\ LoopInv

-----------------------------------------------------------------------------
(* The totals. *)

\* The bars a total is over lie inside the arrays, so its sum is an integer and moves from one bar
\* to the next by the bar an iteration adds and the one it takes off.
LEMMA TotalsMove ==
  ASSUME SeriesOK, Periods \subseteq Nat, NEW total, NEW room \in Int, NEW j \in Nat,
         Serves(total, room), room <= j, \A k \in 0 .. (j - 1) : k \in DOMAIN bars
  PROVE  /\ SumAt(total, j) \in Int
         /\ j \in DOMAIN bars =>
              SumAt(total, j + 1) = SumAt(total, j) + CandleRange(total.set, j - total.add)
                - CandleRange(total.set, (j - total.off - AvgPeriod(total.set)) - total.drop)
<1> DEFINE n == AvgPeriod(total.set)
           from == j - total.add - n
<1>0. SettingsOK
  BY DEF SettingsOK, SeriesOK
<1>1. total.set \in CandleSettingTypes /\ total.add \in Int /\ total.off \in Int /\ total.drop \in Int
  BY DEF Serves
<1>2. n \in Nat
  BY <1>0, <1>1, PeriodIsNat
<1>3. /\ from \in Nat /\ total.add \in Nat /\ from + n = j - total.add
      /\ (j + 1) - total.add - n = from + 1 /\ (j - total.off - n) - total.drop = from
  BY <1>1, <1>2 DEF Serves
<1> HIDE DEF n, from
<1>4. \A k \in from .. (from + n - 1) : bars[k] \in BarType
  <2> SUFFICES ASSUME NEW k \in from .. (from + n - 1) PROVE bars[k] \in BarType
    OBVIOUS
  <2>1. k \in 0 .. (j - 1)
    BY <1>2, <1>3
  <2>2. QED
    BY <2>1 DEF SeriesOK
<1>5. RangeSum(total.set, from, n) \in Int
  BY <1>0, <1>1, <1>2, <1>3, <1>4, RangeSumIsInt
<1>6. ASSUME j \in DOMAIN bars
      PROVE  RangeSum(total.set, from + 1, n)
               = RangeSum(total.set, from, n) + CandleRange(total.set, from + n)
                 - CandleRange(total.set, from)
  <2>1. \A k \in from .. (from + n) : bars[k] \in BarType
    <3> SUFFICES ASSUME NEW k \in from .. (from + n) PROVE bars[k] \in BarType
      OBVIOUS
    <3>1. k = j \/ k \in 0 .. (j - 1)
      BY <1>2, <1>3
    <3>2. QED
      BY <1>6, <3>1 DEF SeriesOK
  <2>2. QED
    BY <1>0, <1>1, <1>2, <1>3, <2>1, RangeSumMoves
<1>7. SumAt(total, j) = RangeSum(total.set, from, n)
  BY DEF SumAt, from, n
<1>8. SumAt(total, j + 1) = RangeSum(total.set, from + 1, n)
  BY <1>3 DEF SumAt, n
<1>9. QED
  BY <1>3, <1>5, <1>6, <1>7, <1>8 DEF n

\* The warm-up loops leave the sums the first iteration needs.
LEMMA WarmUpIsExact ==
  ASSUME SettingsOK, NEW total, NEW room \in Int, NEW first \in Int, Serves(total, room)
  PROVE  WarmUp(total, first) = SumAt(total, first)
<1>1. AvgPeriod(total.set) \in Nat
  BY PeriodIsNat DEF Serves
<1>2. /\ first - total.off - AvgPeriod(total.set) - total.warm
           = first - total.add - AvgPeriod(total.set)
      /\ total.off + AvgPeriod(total.set) - total.until = AvgPeriod(total.set)
  BY <1>1 DEF Serves
<1>3. QED
  BY <1>2 DEF WarmUp, SumAt

-----------------------------------------------------------------------------
(* The memory of the hikkakes. *)

LEMMA TwoDirections == \A k : Direction(k) \in {-100, 100}
  BY DEF Direction

\* Bar j confirms the pattern in memory: the condition of the loop.
Confirms(memory, j) ==
  /\ j <= memory.idx + 3
  /\ \/ memory.result > 0 /\ Close(j) > High(memory.idx - 1)
     \/ memory.result < 0 /\ Close(j) < Low(memory.idx - 1)

\* The iteration of the functions that remember.
Iteration(p, j, memory) == HikkakeIteration(IsSetup(p, j), j, memory)

LEMMA IterationFinds ==
  ASSUME NEW p, NEW j, NEW memory, IsSetup(p, j)
  PROVE  /\ Iteration(p, j, memory).value = Direction(j)
         /\ Iteration(p, j, memory).hk = [idx |-> j, result |-> Direction(j)]
  BY DEF Iteration, HikkakeIteration, Direction

LEMMA IterationConfirms ==
  ASSUME NEW p, NEW j, NEW memory \in Memories, ~IsSetup(p, j), Confirms(memory, j)
  PROVE  /\ Iteration(p, j, memory).value = 2 * memory.result
         /\ Iteration(p, j, memory).hk = [memory EXCEPT !.idx = 0]
  BY DEF Iteration, HikkakeIteration, Confirms

LEMMA ConfirmedValue ==
  ASSUME NEW p, NEW j, NEW memory, ~IsSetup(p, j), Confirms(memory, j)
  PROVE  Iteration(p, j, memory).value = 2 * memory.result
  BY DEF Iteration, HikkakeIteration, Confirms

LEMMA IterationWaits ==
  ASSUME NEW p, NEW j, NEW memory, ~IsSetup(p, j), ~Confirms(memory, j)
  PROVE  Iteration(p, j, memory).value = 0 /\ Iteration(p, j, memory).hk = memory
  BY DEF Iteration, HikkakeIteration, Confirms

\* What is in memory is confirmed exactly if it waits and the bar closes beyond it in time.
LEMMA ConfirmsWhatWaits ==
  ASSUME NEW p, NEW first, NEW j \in Nat, NEW memory, Remembers(memory, p, first, j)
  PROVE  Confirms(memory, j) <=> (memory.idx >= 1 /\ j <= memory.idx + 3 /\ Beyond(memory.idx, j))
<1>1. CASE memory.idx = 0
  BY <1>1 DEF Confirms, Remembers, Memories
<1>2. CASE memory.idx >= 1
  <2>1. memory.result = Direction(memory.idx)
    BY <1>2 DEF Remembers
  <2>2. QED
    BY <1>2, <2>1, TwoDirections DEF Confirms, Beyond
<1>3. QED
  BY <1>1, <1>2 DEF Remembers, Memories

\* An iteration keeps the memory right.
LEMMA MemoryMoves ==
  ASSUME NEW p, NEW first \in Nat, first >= 2, NEW j \in Nat, first <= j,
         NEW memory, Remembers(memory, p, first, j)
  PROVE  Remembers(Iteration(p, j, memory).hk, p, first, j + 1)
<1> DEFINE after == Iteration(p, j, memory).hk
<1>0. memory \in Memories
  BY DEF Remembers
<1>1. CASE IsSetup(p, j)
  <2>1. after = [idx |-> j, result |-> Direction(j)]
    BY <1>1, IterationFinds
  <2> HIDE DEF after
  <2>2. ~Settled(p, j, j + 1)
    BY DEF Settled
  <2>3. after \in Memories
    BY <2>1, TwoDirections DEF Memories
  <2>4. j \in first .. ((j + 1) - 1) /\ j >= 1
    OBVIOUS
  <2>5. after.idx = j /\ after.result = Direction(j)
    BY <2>1
  <2>6. QED
    BY <1>1, <2>2, <2>3, <2>4, <2>5 DEF Remembers, after
<1>2. CASE ~IsSetup(p, j) /\ Confirms(memory, j)
  <2>1. after = [memory EXCEPT !.idx = 0]
    BY <1>0, <1>2, IterationConfirms
  <2> HIDE DEF after
  <2>2. memory.idx >= 1 /\ j <= memory.idx + 3 /\ Beyond(memory.idx, j)
    BY <1>2, ConfirmsWhatWaits
  <2>3. /\ memory.idx \in first .. (j - 1) /\ IsSetup(p, memory.idx)
        /\ ~Settled(p, memory.idx, j)
    BY <2>2 DEF Remembers
  <2>4. ASSUME NEW k \in first .. j, IsSetup(p, k)
        PROVE  Settled(p, k, j + 1)
    <3>1. CASE k = memory.idx
      <4>1. j \in (k + 1) .. ((j + 1) - 1)
        BY <2>3, <3>1
      <4>2. QED
        BY <2>2, <3>1, <4>1 DEF Settled
    <3>2. CASE k < memory.idx
      <4>1. memory.idx \in (k + 1) .. ((j + 1) - 1)
        BY <2>3, <3>2
      <4>2. QED
        BY <2>3, <4>1 DEF Settled
    <3>3. CASE k > memory.idx
      <4>1. k # j
        BY <1>2, <2>4
      <4>2. k \in (memory.idx + 1) .. (j - 1)
        BY <2>3, <3>3, <4>1
      <4>3. QED
        BY <2>3, <2>4, <4>2 DEF Settled
    <3>4. QED
      BY <2>3, <3>1, <3>2, <3>3
  <2>5. after \in Memories /\ after.idx = 0
    BY <1>0, <2>1 DEF Memories
  <2>6. j + 1 > 3 /\ (j + 1) - 1 = j
    BY <2>3
  <2>7. QED
    BY <2>4, <2>5, <2>6 DEF Remembers, after
<1>3. CASE ~IsSetup(p, j) /\ ~Confirms(memory, j)
  <2>1. after = memory
    BY <1>3, IterationWaits
  <2> HIDE DEF after
  <2>2. ASSUME memory.idx >= 1
        PROVE  Remembers(memory, p, first, j + 1)
    <3>1. /\ memory.idx \in first .. (j - 1) /\ IsSetup(p, memory.idx)
          /\ memory.result = Direction(memory.idx) /\ ~Settled(p, memory.idx, j)
      BY <2>2 DEF Remembers
    <3>2. ~(j <= memory.idx + 3 /\ Beyond(memory.idx, j))
      BY <1>3, <2>2, ConfirmsWhatWaits
    <3>3. ~Settled(p, memory.idx, j + 1)
      <4>1. \A m \in (memory.idx + 1) .. ((j + 1) - 1) : m = j \/ m \in (memory.idx + 1) .. (j - 1)
        BY <3>1
      <4>2. QED
        BY <1>3, <3>1, <3>2, <4>1 DEF Settled
    <3>4. memory.idx \in first .. ((j + 1) - 1)
      BY <3>1
    <3>5. QED
      BY <1>0, <2>2, <3>1, <3>3, <3>4 DEF Remembers
  <2>3. ASSUME memory.idx = 0
        PROVE  Remembers(memory, p, first, j + 1)
    <3>1. /\ memory.result = 0 \/ j > 3
          /\ \A k \in first .. (j - 1) : IsSetup(p, k) => Settled(p, k, j)
      BY <2>3 DEF Remembers
    <3>2. ASSUME NEW k \in first .. ((j + 1) - 1), IsSetup(p, k)
          PROVE  Settled(p, k, j + 1)
      <4>1. k \in first .. (j - 1)
        BY <1>3, <3>2
      <4>2. Settled(p, k, j)
        BY <3>1, <3>2, <4>1
      <4>3. (k + 1) .. (j - 1) \subseteq (k + 1) .. ((j + 1) - 1)
        OBVIOUS
      <4>4. QED
        BY <4>2, <4>3 DEF Settled
    <3>3. memory.result = 0 \/ j + 1 > 3
      BY <3>1
    <3>4. QED
      BY <1>0, <2>3, <3>2, <3>3 DEF Remembers
  <2>4. QED
    BY <1>0, <2>1, <2>2, <2>3 DEF after, Memories
<1>4. QED
  BY <1>1, <1>2, <1>3

\* The patterns of the last three bars and this one.
Setups(p, j) == {k \in (j - 3) .. j : IsSetup(p, k)}

\* A pattern that still waits at bar j is the one in memory.
LEMMA AwaitedIsRemembered ==
  ASSUME NEW p, NEW first \in Nat, NEW j \in Nat, first + 3 <= j,
         NEW memory, Remembers(memory, p, first, j), NEW k \in Awaited(Setups(p, j), j)
  PROVE  memory.idx >= 1 /\ k = memory.idx
<1>1. /\ k \in first .. (j - 1) /\ k >= j - 3 /\ IsSetup(p, k)
      /\ \A m \in (k + 1) .. (j - 1) : m \notin Setups(p, j) /\ ~Beyond(k, m)
  BY DEF Awaited, Setups
<1>2. \A m \in (k + 1) .. (j - 1) : ~IsSetup(p, m) /\ ~Beyond(k, m)
  <2> SUFFICES ASSUME NEW m \in (k + 1) .. (j - 1) PROVE ~IsSetup(p, m) /\ ~Beyond(k, m)
    OBVIOUS
  <2>1. m \in (j - 3) .. j
    BY <1>1
  <2>2. QED
    BY <1>1, <2>1 DEF Setups
<1>3. ~Settled(p, k, j)
  BY <1>2 DEF Settled
<1>4. memory.idx >= 1
  BY <1>1, <1>3 DEF Remembers
<1>5. /\ memory.idx \in first .. (j - 1) /\ IsSetup(p, memory.idx)
      /\ \A m \in (memory.idx + 1) .. (j - 1) : ~IsSetup(p, m)
  BY <1>4 DEF Remembers, Settled
<1>6. ~(memory.idx > k)
  <2>1. memory.idx > k => memory.idx \in (k + 1) .. (j - 1)
    BY <1>1, <1>5
  <2>2. QED
    BY <1>2, <1>5, <2>1
<1>7. ~(k > memory.idx)
  <2>1. k > memory.idx => k \in (memory.idx + 1) .. (j - 1)
    BY <1>1, <1>5
  <2>2. QED
    BY <1>1, <1>5, <2>1
<1>8. QED
  BY <1>1, <1>4, <1>5, <1>6, <1>7

\* An iteration with three bars behind it writes what the bars say.
LEMMA IterationTells ==
  ASSUME NEW p, NEW first \in Nat, NEW j \in Nat, first + 3 <= j,
         NEW memory, Remembers(memory, p, first, j)
  PROVE  Iteration(p, j, memory).value = HikkakeFound(p, j)
<1> DEFINE S == Setups(p, j)
           confirmed == {k \in Awaited(S, j) : Beyond(k, j)}
<1>0. /\ HikkakeFound(p, j) = Told(S, j)
      /\ (j \in S <=> IsSetup(p, j))
  BY DEF HikkakeFound, Setups
<1>1. /\ j \in S => Told(S, j) = Direction(j)
      /\ (j \notin S /\ confirmed # {}) => Told(S, j) = 2 * Direction(CHOOSE k \in confirmed : TRUE)
      /\ (j \notin S /\ confirmed = {}) => Told(S, j) = 0
  BY DEF Told
<1>2. \A k \in Awaited(S, j) : memory.idx >= 1 /\ k = memory.idx
  BY AwaitedIsRemembered
<1> HIDE DEF S
<1>3. CASE IsSetup(p, j)
  BY <1>0, <1>1, <1>3, IterationFinds
<1>4. CASE ~IsSetup(p, j) /\ Confirms(memory, j)
  <2>1. memory.idx >= 1 /\ j <= memory.idx + 3 /\ Beyond(memory.idx, j)
    BY <1>4, ConfirmsWhatWaits
  <2>2. /\ memory.idx \in first .. (j - 1) /\ IsSetup(p, memory.idx)
        /\ memory.result = Direction(memory.idx) /\ ~Settled(p, memory.idx, j)
    BY <2>1 DEF Remembers
  <2>3. memory.idx \in (j - 3) .. j /\ memory.idx # j
    BY <2>1, <2>2
  <2>4. \A m \in (memory.idx + 1) .. (j - 1) : ~IsSetup(p, m) /\ ~Beyond(memory.idx, m)
    BY <2>1, <2>2 DEF Settled
  <2>5. memory.idx \in Awaited(S, j)
    BY <2>2, <2>3, <2>4 DEF Awaited, S, Setups
  <2>6. confirmed = {memory.idx}
    BY <1>2, <2>1, <2>5
  <2> HIDE DEF confirmed
  <2>7. Told(S, j) = 2 * Direction(memory.idx)
    BY <1>0, <1>1, <1>4, <2>6
  <2>8. Iteration(p, j, memory).value = 2 * memory.result
    BY <1>4, ConfirmedValue
  <2>9. QED
    BY <1>0, <2>2, <2>7, <2>8
<1>5. CASE ~IsSetup(p, j) /\ ~Confirms(memory, j)
  <2>1. confirmed = {}
    <3> SUFFICES ASSUME NEW k \in Awaited(S, j), Beyond(k, j) PROVE FALSE
      OBVIOUS
    <3>1. k = memory.idx /\ memory.idx >= 1
      BY <1>2
    <3>2. k >= j - 3
      BY DEF Awaited, S, Setups
    <3>3. j <= memory.idx + 3
      BY <3>1, <3>2 DEF Remembers, Memories
    <3>4. QED
      BY <1>5, <3>1, <3>3, ConfirmsWhatWaits
  <2>2. QED
    BY <1>0, <1>1, <1>5, <2>1, IterationWaits
<1>6. QED
  BY <1>3, <1>4, <1>5

\* While a pattern waits for the bar that confirms it, nothing is reported.
LEMMA QuietUntilConfirmed ==
  ASSUME NEW p, NEW j \in Int, NEW c \in Awaited(Setups(p, j), j), NEW q \in (c + 1) .. (j - 1)
  PROVE  HikkakeFound(p, q) = 0
<1>1. /\ c \in (j - 3) .. (j - 1) /\ IsSetup(p, c)
      /\ \A m \in (c + 1) .. (j - 1) : m \notin Setups(p, j) /\ ~Beyond(c, m)
  BY DEF Awaited, Setups
<1>2. \A m \in (c + 1) .. (j - 1) : ~IsSetup(p, m)
  <2> SUFFICES ASSUME NEW m \in (c + 1) .. (j - 1), IsSetup(p, m) PROVE FALSE
    OBVIOUS
  <2>1. m \in (j - 3) .. j
    BY <1>1
  <2>2. QED
    BY <1>1, <2>1 DEF Setups
<1>3. q \in Int /\ q > c /\ q < j
  BY <1>1
<1>4. q \notin Setups(p, q)
  BY <1>2 DEF Setups
<1>5. ASSUME NEW k \in Awaited(Setups(p, q), q), Beyond(k, q)
      PROVE  FALSE
  <2>1. /\ k \in (q - 3) .. (q - 1) /\ IsSetup(p, k)
        /\ \A m \in (k + 1) .. (q - 1) : m \notin Setups(p, q)
    BY <1>3 DEF Awaited, Setups
  <2>2. ~(k < c)
    <3>1. k < c => c \in (k + 1) .. (q - 1) /\ c \in (q - 3) .. q
      BY <1>1, <1>3, <2>1
    <3>2. QED
      BY <1>1, <2>1, <3>1 DEF Setups
  <2>3. ~(k > c)
    <3>1. k > c => k \in (c + 1) .. (j - 1)
      BY <1>1, <1>3, <2>1
    <3>2. QED
      BY <1>2, <2>1, <3>1
  <2>4. k = c
    BY <1>1, <2>1, <2>2, <2>3
  <2>5. QED
    BY <1>1, <1>5, <2>4
<1>6. HikkakeFound(p, q) = Told(Setups(p, q), q)
  BY DEF HikkakeFound, Setups
<1>7. {k \in Awaited(Setups(p, q), q) : Beyond(k, q)} = {}
  BY <1>5
<1>8. QED
  BY <1>4, <1>6, <1>7 DEF Told

\* A confirmation is of a pattern that waits, in its direction.
LEMMA ConfirmationIsOfAwaited ==
  ASSUME NEW p, NEW j \in Int, HikkakeFound(p, j) \in {-200, 200}
  PROVE  \E c \in Awaited(Setups(p, j), j) : HikkakeFound(p, j) = 2 * Direction(c)
<1> DEFINE S == Setups(p, j)
           confirmed == {k \in Awaited(S, j) : Beyond(k, j)}
<1>1. HikkakeFound(p, j) = Told(S, j)
  BY DEF HikkakeFound, Setups
<1>2. /\ j \in S => Told(S, j) = Direction(j)
      /\ (j \notin S /\ confirmed # {}) => Told(S, j) = 2 * Direction(CHOOSE k \in confirmed : TRUE)
      /\ (j \notin S /\ confirmed = {}) => Told(S, j) = 0
  BY DEF Told
<1> HIDE DEF S, confirmed
<1>3. confirmed # {} /\ Told(S, j) = 2 * Direction(CHOOSE k \in confirmed : TRUE)
  BY <1>1, <1>2, TwoDirections
<1>4. (CHOOSE k \in confirmed : TRUE) \in Awaited(S, j)
  BY <1>3 DEF confirmed
<1>5. QED
  BY <1>1, <1>3, <1>4 DEF S

\* The functions that remember run this iteration.
LEMMA HikkakeOutputs ==
  ASSUME NEW p \in Hikkakes, NEW j, NEW memory
  PROVE  Output(p, j, Exact(p, j), memory) = Iteration(p, j, memory)
<1>1. CASE p = "CDLHIKKAKE"
  <2>1. Output("CDLHIKKAKE", j, Exact(p, j), memory) = CDLHIKKAKE(j, memory)
    BY Zenon DEF Output
  <2>2. QED
    BY <1>1, <2>1 DEF CDLHIKKAKE, Iteration, IsSetup
<1>2. CASE p = "CDLHIKKAKEMOD"
  <2>1. Output("CDLHIKKAKEMOD", j, Exact(p, j), memory) = CDLHIKKAKEMOD(j, Exact(p, j), memory)
    BY Zenon DEF Output
  <2>2. QED
    BY <1>2, <2>1 DEF CDLHIKKAKEMOD, Iteration, IsSetup
<1>3. QED
  BY <1>1, <1>2 DEF Hikkakes

LEMMA HikkakePlans ==
  ASSUME NEW p \in Hikkakes, SettingsOK
  PROVE  PlanOf(p).early = 3 /\ PlanOf(p).lookback >= 5
<1>1. CDLHIKKAKE_Plan.early = 3 /\ CDLHIKKAKE_Plan.lookback = 5
  BY DEF CDLHIKKAKE_Plan, Plan
<1>2. CDLHIKKAKEMOD_Plan.early = 3 /\ CDLHIKKAKEMOD_Plan.lookback = Max({1, AvgPeriod("Near")}) + 5
  BY DEF CDLHIKKAKEMOD_Plan, Plan
<1>3. QED
  BY <1>1, <1>2, PlansByName, PeriodsAreNats, MaxOfTwo DEF Hikkakes

\* What is found at a bar is one of five results, ...
LEMMA FiveResults ==
  ASSUME NEW p \in AllPatterns, NEW j
  PROVE  FoundAt(p, j) \in Results
<1>1. CASE p \in Hikkakes
  BY <1>1, TwoDirections DEF FoundAt, HikkakeFound, Told, Results
<1>2. CASE p \notin Hikkakes
  <2>1. Output(p, j, Exact(p, j), NoPattern).value \in {-100, 0, 100}
    BY <1>2, PlainOutputs
  <2>2. QED
    BY <1>2, <2>1 DEF FoundAt, Found, Results
<1>3. QED
  BY <1>1, <1>2

LEMMA SetupsStay ==
  ASSUME UNCHANGED <<bars, settings>>, NEW p, NEW k
  PROVE  IsSetup(p, k)' <=> IsSetup(p, k)
<1> DEFINE T == Exact(p, k)
<1>1. T' = T
  BY SumsStay
<1> HIDE DEF T
<1>2. HikkakeSetup(k)' <=> HikkakeSetup(k)
  BY DEF HikkakeSetup, High, Low
<1>3. HikkakeModSetup(k, T)' <=> HikkakeModSetup(k, T)
  BY <1>1 DEF HikkakeModSetup, Average, AvgPeriod, CandleRange, RealBody, HighLowRange, UpperShadow,
              LowerShadow, BodyTop, BodyBottom, Open, High, Low, Close, Abs, Larger, Smaller
<1>4. QED
  BY <1>2, <1>3 DEF IsSetup, T

\* ... whatever the call that asks.
LEMMA FindsStay ==
  ASSUME UNCHANGED <<bars, settings, penetration>>, NEW p \in AllPatterns, NEW j
  PROVE  FoundAt(p, j)' = FoundAt(p, j)
<1>1. CASE p \notin Hikkakes
  BY <1>1, PlainFindsStay DEF FoundAt
<1>2. CASE p \in Hikkakes
  <2>1. \A k : IsSetup(p, k)' <=> IsSetup(p, k)
    BY SetupsStay
  <2> DEFINE S == Setups(p, j)
  <2>2. S' = S
    BY <2>1 DEF Setups
  <2> HIDE DEF S
  <2>3. Told(S, j)' = Told(S, j)
    BY <2>2 DEF Told, Awaited, Direction, Beyond, High, Low, Close
  <2>4. HikkakeFound(p, j) = Told(S, j) /\ HikkakeFound(p, j)' = Told(S, j)'
    BY DEF HikkakeFound, S, Setups
  <2>5. QED
    BY <1>2, <2>3, <2>4 DEF FoundAt
<1>3. QED
  BY <1>1, <1>2

LEMMA MemoryStays ==
  ASSUME UNCHANGED <<bars, settings>>, NEW memory, NEW p, NEW first, NEW j
  PROVE  Remembers(memory, p, first, j)' <=> Remembers(memory, p, first, j)
<1>1. \A k : IsSetup(p, k)' <=> IsSetup(p, k)
  BY SetupsStay
<1>2. \A k : Direction(k)' = Direction(k)
  BY DEF Direction, High
<1>3. \A k, m : Beyond(k, m)' <=> Beyond(k, m)
  BY DEF Direction, Beyond, High, Low, Close
<1>4. \A k : Settled(p, k, j)' <=> Settled(p, k, j)
  BY <1>1, <1>3 DEF Settled
<1>5. QED
  BY <1>1, <1>2, <1>4 DEF Remembers

-----------------------------------------------------------------------------
(* The invariant is inductive. *)

LEMMA SettingsTyped == SeriesOK => SettingsOK
  BY CandleAssumption DEF SeriesOK, SettingsOK

LEMMA InitInv == Init => IInv
<1> SUFFICES ASSUME Init PROVE IInv
  OBVIOUS
<1> USE DEF Init
<1>1. SeriesOK
  <2>1. Cardinality(DOMAIN bars) \in Nat
    BY CandleAssumption, FS_CardinalityType
  <2>2. QED
    BY <2>1, CandleAssumption DEF SeriesOK, BarType
<1>2. CallOK
  BY DEF CallOK
<1>3. Fresh /\ LoopInv
  BY DEF Fresh, LoopInv
<1>4. OutputsExact
  BY DEF OutputsExact
<1>5. QED
  BY <1>1, <1>2, <1>3, <1>4 DEF IInv

\* The sums and the trailing bars of a loop that is in range are integers.
LEMMA ExactIsInt ==
  ASSUME SeriesOK, NEW p \in AllPatterns, NEW j \in Nat,
         PlanOf(p).lookback - PlanOf(p).early <= j, \A k \in 0 .. (j - 1) : k \in DOMAIN bars
  PROVE  /\ DOMAIN Exact(p, j) = DOMAIN PlanOf(p).totals
         /\ DOMAIN TrailingAt(PlanOf(p).totals, j) = DOMAIN PlanOf(p).totals
         /\ \A t \in DOMAIN PlanOf(p).totals :
               Exact(p, j)[t] \in Int /\ TrailingAt(PlanOf(p).totals, j)[t] \in Int
<1> DEFINE plan == PlanOf(p)
<1>1. WellPlanned(plan) /\ SettingsOK
  BY SettingsTyped, FunctionsAreWellPlanned
<1> HIDE DEF plan
<1>2. DOMAIN SumsAt(plan.totals, j) = DOMAIN plan.totals
  BY DEF SumsAt
<1>3. DOMAIN TrailingAt(plan.totals, j) = DOMAIN plan.totals
  BY DEF TrailingAt
<1>4. ASSUME NEW t \in DOMAIN plan.totals
      PROVE  SumsAt(plan.totals, j)[t] \in Int /\ TrailingAt(plan.totals, j)[t] \in Int
  <2> DEFINE total == plan.totals[t]
  <2>1. Serves(total, plan.lookback - plan.early) /\ plan.lookback - plan.early \in Int
    BY <1>1, <1>4 DEF WellPlanned
  <2> HIDE DEF total
  <2>2. SumAt(total, j) \in Int
    BY <1>1, <2>1, TotalsMove DEF SettingsOK, plan
  <2>3. j - total.off - AvgPeriod(total.set) \in Int
    BY <1>1, <2>1, PeriodIsNat DEF Serves
  <2>4. QED
    BY <1>4, <2>2, <2>3 DEF SumsAt, TrailingAt, total
<1>5. QED
  BY <1>2, <1>3, <1>4 DEF Exact, plan

\* The settings change between calls only, so there is no loop whose totals they could spoil.
LEMMA SettingsStep ==
  ASSUME IInv, pc = "ready", UNCHANGED <<bars, penetration, call>>,
         settings' \in [CandleSettingTypes -> CandleSettings]
  PROVE  IInv'
<1> USE DEF call
<1>1. SeriesOK'
  BY DEF IInv, SeriesOK
<1>2. CallOK' /\ Fresh' /\ LoopInv'
  BY DEF IInv, CallOK, Fresh, LoopInv
<1>3. outInteger' = <<>>
  BY DEF IInv, Fresh
<1>4. OutputsExact'
  BY <1>3 DEF OutputsExact
<1>5. QED
  BY <1>1, <1>2, <1>4 DEF IInv

\* A call that is refused writes nothing; one that is not sums up what its first iteration needs.
LEMMA CallStep ==
  ASSUME IInv, pc = "ready", NEW p \in Patterns, NEW s \in Int, NEW e \in Int,
         e < Cardinality(DOMAIN bars), Call(p, s, e)
  PROVE  IInv'
<1> DEFINE plan  == PlanOf(p)
           start == Larger(s, plan.lookback)
           first == start - plan.early
<1>1. /\ pattern' = p /\ UNCHANGED <<bars, settings, penetration>>
      /\ p \in AllPatterns /\ SeriesOK /\ SettingsOK /\ outInteger = <<>> /\ hk = NoPattern
  BY CandleAssumption, SettingsTyped DEF Call, IInv, Fresh
<1>2. SeriesOK'
  BY <1>1 DEF SeriesOK
<1>3. CASE \E code \in {"TA_OUT_OF_RANGE_START_INDEX", "TA_OUT_OF_RANGE_END_INDEX", "TA_SUCCESS"} :
              Refuse(code)
  <2> USE DEF Refuse
  <2>1. CallOK'
    BY <1>1, <1>3 DEF IInv, CallOK
  <2>2. Fresh' /\ LoopInv'
    BY <1>1, <1>3 DEF Fresh, LoopInv
  <2>3. OutputsExact'
    BY <1>1, <1>3 DEF OutputsExact
  <2>4. QED
    BY <1>2, <2>1, <2>2, <2>3 DEF IInv
<1>4. CASE /\ s >= 0 /\ e >= s /\ start =< e
           /\ pc' = "loop"
           /\ startIdx' = start /\ endIdx' = e
           /\ totals' = [t \in DOMAIN plan.totals |-> WarmUp(plan.totals[t], first)]
           /\ trailing' = [t \in DOMAIN plan.totals |->
                 first - plan.totals[t].off - AvgPeriod(plan.totals[t].set)]
           /\ i' = first
           /\ UNCHANGED <<hk, outInteger, outBegIdx, retCode>>
  <2>1. WellPlanned(plan)
    BY <1>1, FunctionsAreWellPlanned
  <2> HIDE DEF plan
  <2>2. /\ plan.lookback \in Nat /\ plan.early \in Nat /\ plan.early <= plan.lookback
        /\ \A t \in DOMAIN plan.totals : Serves(plan.totals[t], plan.lookback - plan.early)
    BY <2>1 DEF WellPlanned
  <2>3. start \in Nat /\ start >= plan.lookback /\ start <= e
    BY <1>4, <2>2 DEF Larger
  <2>4. first \in Nat /\ first >= plan.lookback - plan.early /\ first <= start
    BY <2>2, <2>3
  <2>5. e \in DOMAIN bars /\ \A k \in 0 .. (first - 1) : k \in DOMAIN bars
    BY <1>1, <2>3, <2>4 DEF SeriesOK
  <2>6. totals' = Exact(p, first)
    <3>1. \A t \in DOMAIN plan.totals : WarmUp(plan.totals[t], first) = SumAt(plan.totals[t], first)
      BY <1>1, <2>2, <2>4, WarmUpIsExact
    <3>2. totals' = SumsAt(plan.totals, first)
      BY <1>4, <3>1 DEF SumsAt
    <3>3. QED
      BY <3>2 DEF Exact, plan
  <2>7. trailing' = TrailingAt(plan.totals, first)
    BY <1>4 DEF TrailingAt
  <2>8. CallOK'
    <3>1. /\ DOMAIN totals' = DOMAIN trailing'
          /\ \A t \in DOMAIN totals' : totals'[t] \in Int /\ trailing'[t] \in Int
      <4> HIDE DEF first
      <4>1. QED
        BY <1>1, <2>4, <2>5, <2>6, <2>7, ExactIsInt DEF plan
    <3>2. QED
      BY <1>1, <1>4, <2>3, <3>1 DEF IInv, CallOK
  <2>9. Fresh' /\ OutputsExact'
    BY <1>1, <1>4 DEF Fresh, OutputsExact
  <2>10. PlanOf(p)' = plan
    BY <1>1, PlansStay DEF plan
  <2>11. LoopInRange'
    <3>1. Len(outInteger') = 0 /\ ~(first > start)
      BY <1>1, <1>4, <2>3, <2>4
    <3> HIDE DEF start
    <3>2. QED
      BY <1>1, <1>4, <2>2, <2>3, <2>4, <2>5, <2>10, <3>1 DEF LoopInRange
  <2>12. TotalsExact'
    <3>1. ASSUME NEW j PROVE Exact(p, j)' = Exact(p, j)
      BY <1>1, SumsStay
    <3> HIDE DEF first
    <3>2. totals' = Exact(pattern, i)'
      BY <1>1, <1>4, <2>6, <3>1
    <3>3. trailing' = TrailingAt(PlanOf(pattern).totals, i)'
      <4>1. TrailingAt(plan.totals, first)
              = [t \in DOMAIN plan.totals |-> first - plan.totals[t].off - AvgPeriod(plan.totals[t].set)]
        BY DEF TrailingAt
      <4>2. PlanOf(pattern)' = plan
        BY <1>1, <2>10
      <4>3. QED
        BY <1>1, <1>4, <4>2 DEF TrailingAt, AvgPeriod
    <3>4. QED
      BY <3>2, <3>3 DEF TotalsExact
  <2>13. (pattern \in Hikkakes => Remembers(hk, pattern, startIdx - PlanOf(pattern).early, i))'
    <3>1. Remembers(NoPattern, p, first, first)
      BY <2>4 DEF Remembers, NoPattern, Memories
    <3> HIDE DEF start
    <3>2. startIdx' - PlanOf(pattern)'.early = first /\ i' = first /\ hk' = NoPattern
      BY <1>1, <1>4, <2>10
    <3> HIDE DEF first
    <3>3. ASSUME NEW q, NEW memory, NEW j, NEW k
          PROVE  Remembers(memory, q, j, k)' <=> Remembers(memory, q, j, k)
      BY <1>1, MemoryStays
    <3>4. QED
      BY <1>1, <3>1, <3>2, <3>3
  <2>14. (pattern \notin Hikkakes => hk = NoPattern)'
    BY <1>1, <1>4
  <2>15. QED
    BY <1>2, <2>8, <2>9, <2>11, <2>12, <2>13, <2>14 DEF IInv, LoopInv
<1>5. start \in Int
  <2>1. WellPlanned(plan)
    BY <1>1, FunctionsAreWellPlanned
  <2>2. QED
    BY <2>1 DEF WellPlanned, Larger
<1>6. QED
  <2>1. \/ s < 0 \/ (s >= 0 /\ (e < 0 \/ e < s)) \/ (s >= 0 /\ e >= s /\ start > e)
        \/ (s >= 0 /\ e >= s /\ start =< e)
    BY <1>5
  <2> HIDE DEF IInv
  <2>2. QED
    BY <1>3, <1>4, <2>1 DEF Call

\* An iteration writes what the bars say and leaves totals and memory as the next one needs them.
LEMMA IterateStep ==
  ASSUME IInv, Iterate
  PROVE  IInv'
<1> DEFINE plan  == PlanOf(pattern)
           first == startIdx - plan.early
           o     == Output(pattern, i, totals, hk)
<1>1. /\ pc = "loop" /\ pc' = "loop" /\ i <= endIdx /\ i' = i + 1
      /\ UNCHANGED <<bars, settings, penetration, pattern, startIdx, endIdx, outBegIdx, retCode>>
      /\ hk' = o.hk
      /\ outInteger' = IF i < startIdx THEN outInteger ELSE Append(outInteger, o.value)
      /\ totals' = [t \in DOMAIN totals |->
            totals[t] + CandleRange(plan.totals[t].set, i - plan.totals[t].add)
                      - CandleRange(plan.totals[t].set, trailing[t] - plan.totals[t].drop)]
      /\ trailing' = [t \in DOMAIN trailing |-> trailing[t] + 1]
  BY DEF Iterate
<1>2. /\ SeriesOK /\ SettingsOK /\ LoopInRange /\ TotalsExact /\ OutputsExact /\ CallOK
      /\ pattern \in Hikkakes => Remembers(hk, pattern, first, i)
      /\ pattern \notin Hikkakes => hk = NoPattern
  BY <1>1, SettingsTyped DEF IInv, LoopInv
<1>3. pattern \in AllPatterns
  BY <1>2, CandleAssumption DEF LoopInRange
<1>4. WellPlanned(plan)
  BY <1>2, <1>3, FunctionsAreWellPlanned
<1> HIDE DEF plan
<1>5. /\ plan.lookback \in Nat /\ plan.early \in Nat
      /\ \A t \in DOMAIN plan.totals : Serves(plan.totals[t], plan.lookback - plan.early)
  BY <1>4 DEF WellPlanned
<1>6. /\ startIdx \in Nat /\ endIdx \in Nat /\ i \in Nat /\ i + 1 \in Nat
      /\ plan.lookback <= startIdx /\ first <= i /\ plan.lookback - plan.early <= i
      /\ first \in Int
  BY <1>2, <1>5 DEF LoopInRange, plan
<1>7. i \in DOMAIN bars /\ (\A k \in 0 .. i : k \in DOMAIN bars)
      /\ \A k \in 0 .. ((i + 1) - 1) : k \in DOMAIN bars
  BY <1>1, <1>2, <1>6 DEF LoopInRange, SeriesOK
<1>8. totals = Exact(pattern, i) /\ totals = SumsAt(plan.totals, i)
      /\ trailing = TrailingAt(plan.totals, i)
  BY <1>2 DEF TotalsExact, Exact, plan
<1>9. totals' = Exact(pattern, i + 1)
  <2>1. DOMAIN totals = DOMAIN plan.totals
    BY <1>8 DEF SumsAt
  <2>2. ASSUME NEW t \in DOMAIN plan.totals
        PROVE  totals'[t] = SumAt(plan.totals[t], i + 1)
    <3> DEFINE total == plan.totals[t]
    <3>1. totals[t] = SumAt(total, i)
      BY <1>8, <2>2 DEF SumsAt
    <3>2. trailing[t] = i - total.off - AvgPeriod(total.set)
      BY <1>8, <2>2 DEF TrailingAt
    <3>3. totals'[t] = totals[t] + CandleRange(total.set, i - total.add)
                                 - CandleRange(total.set, trailing[t] - total.drop)
      BY <1>1, <2>1, <2>2
    <3>4. Serves(total, plan.lookback - plan.early) /\ plan.lookback - plan.early \in Int
      BY <1>5, <2>2
    <3> HIDE DEF total
    <3>5. SumAt(total, i + 1) = SumAt(total, i) + CandleRange(total.set, i - total.add)
            - CandleRange(total.set, (i - total.off - AvgPeriod(total.set)) - total.drop)
      BY <1>2, <1>6, <1>7, <3>4, TotalsMove DEF SettingsOK
    <3>6. QED
      BY <3>1, <3>2, <3>3, <3>5 DEF total
  <2>3. totals' = SumsAt(plan.totals, i + 1)
    BY <1>1, <2>1, <2>2 DEF SumsAt
  <2>4. QED
    BY <2>3 DEF Exact, plan
<1>10. trailing' = TrailingAt(plan.totals, i + 1)
  <2>1. DOMAIN trailing = DOMAIN plan.totals
    BY <1>8 DEF TrailingAt
  <2>2. ASSUME NEW t \in DOMAIN plan.totals
        PROVE  trailing'[t] = (i + 1) - plan.totals[t].off - AvgPeriod(plan.totals[t].set)
    <3>1. plan.totals[t].off \in Int /\ AvgPeriod(plan.totals[t].set) \in Nat
      BY <1>2, <1>5, <2>2, PeriodIsNat DEF Serves
    <3>2. trailing'[t] = (i - plan.totals[t].off - AvgPeriod(plan.totals[t].set)) + 1
      BY <1>1, <1>8, <2>1, <2>2 DEF TrailingAt
    <3>3. QED
      BY <1>6, <3>1, <3>2
  <2>3. QED
    BY <1>1, <2>1, <2>2 DEF TrailingAt
<1>11. SeriesOK'
  BY <1>1, <1>2 DEF SeriesOK
<1>12. CallOK'
  <2>1. /\ DOMAIN totals' = DOMAIN trailing'
        /\ \A t \in DOMAIN totals' : totals'[t] \in Int /\ trailing'[t] \in Int
    <3>1. PlanOf(pattern).lookback - PlanOf(pattern).early <= i + 1
      BY <1>5, <1>6 DEF plan
    <3>2. trailing' = TrailingAt(PlanOf(pattern).totals, i + 1)
      BY <1>10 DEF plan
    <3>3. QED
      BY <1>2, <1>3, <1>6, <1>7, <1>9, <3>1, <3>2, ExactIsInt
  <2>2. QED
    BY <1>1, <1>2, <2>1 DEF CallOK
<1>13. TotalsExact'
  <2>1. ASSUME NEW p, NEW j PROVE Exact(p, j)' = Exact(p, j)
    BY <1>1, SumsStay
  <2>2. totals' = Exact(pattern, i)'
    BY <1>1, <1>9, <2>1
  <2>3. PlanOf(pattern)' = plan
    <3>1. ASSUME NEW p PROVE PlanOf(p)' = PlanOf(p)
      BY <1>1, PlansStay
    <3>2. QED
      BY <1>1, <3>1 DEF plan
  <2>4. TrailingAt(plan.totals, i + 1)
          = [t \in DOMAIN plan.totals |->
               (i + 1) - plan.totals[t].off - AvgPeriod(plan.totals[t].set)]
    BY DEF TrailingAt
  <2>5. trailing' = TrailingAt(PlanOf(pattern).totals, i)'
    BY <1>1, <1>10, <2>3, <2>4 DEF TrailingAt, AvgPeriod
  <2>6. QED
    BY <2>2, <2>5 DEF TotalsExact
<1>14. ASSUME pattern \in Hikkakes
       PROVE  /\ first >= 2 /\ startIdx = first + 3
              /\ o.hk = Iteration(pattern, i, hk).hk /\ o.value = Iteration(pattern, i, hk).value
  <2>1. plan.early = 3 /\ plan.lookback >= 5
    BY <1>2, <1>14, HikkakePlans DEF plan
  <2>2. o = Iteration(pattern, i, hk)
    BY <1>8, <1>14, HikkakeOutputs
  <2>3. QED
    BY <1>5, <1>6, <2>1, <2>2
<1>15. ASSUME i >= startIdx
       PROVE  o.value \in Results /\ o.value = FoundAt(pattern, i)
  <2>1. FoundAt(pattern, i) \in Results
    BY <1>3, FiveResults
  <2>2. CASE pattern \in Hikkakes
    <3>1. o.value = HikkakeFound(pattern, i)
      BY <1>2, <1>6, <1>14, <1>15, <2>2, IterationTells
    <3>2. QED
      BY <2>1, <2>2, <3>1 DEF FoundAt
  <2>3. CASE pattern \notin Hikkakes
    <3>1. o = Output(pattern, i, Exact(pattern, i), NoPattern)
      BY <1>2, <1>8, <2>3
    <3>2. ~(i < plan.lookback)
      BY <1>5, <1>6, <1>15
    <3>3. Found(pattern, i) = o.value
      BY <3>1, <3>2 DEF Found, plan
    <3>4. QED
      BY <2>1, <2>3, <3>3 DEF FoundAt
  <2>4. QED
    BY <2>2, <2>3
<1> HIDE DEF o
<1>16. OutputsExact' /\ Len(outInteger') = IF i + 1 < startIdx THEN 0 ELSE (i + 1) - startIdx
  <2>0. outInteger \in Seq(Int) /\ Len(outInteger) = IF i < startIdx THEN 0 ELSE i - startIdx
    BY <1>2 DEF OutputsExact, LoopInRange
  <2>1. ASSUME NEW n \in 1 .. Len(outInteger)
        PROVE  outInteger[n] \in Results /\ outInteger[n] = FoundAt(pattern, startIdx + n - 1)
    BY <1>2, <2>0 DEF OutputsExact
  <2>2. ASSUME NEW p \in AllPatterns, NEW j PROVE FoundAt(p, j)' = FoundAt(p, j)
    BY <1>1, FindsStay
  <2>3. CASE i < startIdx
    <3>1. outInteger' = outInteger /\ Len(outInteger) = 0
      BY <1>1, <2>0, <2>3
    <3>2. outInteger = <<>>
      BY <2>0, <3>1
    <3>3. OutputsExact'
      BY <3>1, <3>2 DEF OutputsExact
    <3>4. QED
      BY <1>6, <2>3, <3>1, <3>3
  <2>4. CASE i >= startIdx
    <3>1. outInteger' = Append(outInteger, o.value) /\ o.value \in Int
      BY <1>1, <1>6, <1>15, <2>4 DEF Results
    <3>0. /\ outInteger' \in Seq(Int) /\ Len(outInteger') = Len(outInteger) + 1
          /\ \A n \in 1 .. Len(outInteger) : outInteger'[n] = outInteger[n]
          /\ outInteger'[Len(outInteger) + 1] = o.value
      BY <2>0, <3>1, AppendProperties
    <3>2. /\ outInteger' \in Seq(Int) /\ Len(outInteger') = (i + 1) - startIdx
          /\ DOMAIN outInteger' = 1 .. (i + 1) - startIdx
      BY <1>6, <2>0, <2>4, <3>0
    <3>3. ASSUME NEW n \in 1 .. (i + 1) - startIdx
          PROVE  outInteger'[n] \in Results /\ outInteger'[n] = FoundAt(pattern, startIdx + n - 1)
      <4>1. CASE n = (i + 1) - startIdx
        <5>1. outInteger'[n] = o.value /\ startIdx + n - 1 = i
          BY <1>6, <2>0, <2>4, <3>0, <4>1
        <5>2. QED
          BY <1>15, <2>4, <5>1
      <4>2. CASE n # (i + 1) - startIdx
        <5>0. Len(outInteger) = i - startIdx
          BY <1>6, <2>0, <2>4
        <5>1. n \in 1 .. Len(outInteger)
          BY <1>6, <4>2, <5>0
        <5>2. outInteger'[n] = outInteger[n]
          BY <3>0, <5>1
        <5>3. QED
          BY <2>1, <5>1, <5>2
      <4>3. QED
        BY <4>1, <4>2
    <3>4. OutputsExact'
      BY <1>1, <1>3, <2>2, <3>2, <3>3 DEF OutputsExact
    <3>5. QED
      BY <1>6, <2>4, <3>2, <3>4
  <2>5. QED
    BY <1>6, <2>3, <2>4
<1>17. LoopInRange'
  <2>1. PlanOf(pattern)' = plan
    <3>1. ASSUME NEW p PROVE PlanOf(p)' = PlanOf(p)
      BY <1>1, PlansStay
    <3>2. QED
      BY <1>1, <3>1 DEF plan
  <2>2. QED
    BY <1>1, <1>2, <1>5, <1>6, <1>16, <2>1 DEF LoopInRange
<1>18. (pattern \in Hikkakes => Remembers(hk, pattern, startIdx - PlanOf(pattern).early, i))'
  <2> SUFFICES ASSUME pattern' \in Hikkakes
               PROVE  Remembers(hk, pattern, startIdx - PlanOf(pattern).early, i)'
    OBVIOUS
  <2>1. Remembers(hk', pattern, first, i + 1)
    <3>1. pattern \in Hikkakes
      BY <1>1
    <3>2. first \in Nat /\ first >= 2
      BY <1>6, <1>14, <3>1
    <3> HIDE DEF first
    <3>3. QED
      BY <1>1, <1>2, <1>6, <1>14, <3>1, <3>2, MemoryMoves
  <2>2. ASSUME NEW p PROVE PlanOf(p)' = PlanOf(p)
    BY <1>1, PlansStay
  <2>3. startIdx' - PlanOf(pattern)'.early = first
    BY <1>1, <2>2 DEF plan
  <2>4. ASSUME NEW p, NEW memory, NEW j, NEW k
        PROVE  Remembers(memory, p, j, k)' <=> Remembers(memory, p, j, k)
    BY <1>1, MemoryStays
  <2> HIDE DEF first
  <2>5. QED
    BY <1>1, <2>1, <2>3, <2>4
<1>19. (pattern \notin Hikkakes => hk = NoPattern)'
  <2>1. pattern \notin Hikkakes => o.hk = hk
    BY <1>3, PlainOutputs DEF o
  <2>2. QED
    BY <1>1, <1>2, <2>1
<1>20. Fresh'
  BY <1>1, <1>2 DEF Fresh, LoopInRange
<1>21. QED
  BY <1>11, <1>12, <1>13, <1>16, <1>17, <1>18, <1>19, <1>20 DEF IInv, LoopInv

\* The return and the caller's collecting of the outputs.
LEMMA ReturnStep ==
  ASSUME IInv, Return
  PROVE  IInv'
<1> USE DEF Return
<1>1. SeriesOK' /\ CallOK' /\ Fresh' /\ LoopInv'
  BY DEF IInv, SeriesOK, CallOK, Fresh, LoopInv
<1>2. OutputsExact'
  <2>1. OutputsExact /\ pattern \in AllPatterns
    BY CandleAssumption DEF IInv, LoopInv, LoopInRange
  <2>2. ASSUME NEW p \in AllPatterns, NEW j PROVE FoundAt(p, j)' = FoundAt(p, j)
    BY FindsStay
  <2>3. QED
    BY <2>1, <2>2 DEF OutputsExact
<1>3. QED
  BY <1>1, <1>2 DEF IInv

LEMMA CollectStep ==
  ASSUME IInv, Collect
  PROVE  IInv'
<1> USE DEF Collect
<1>1. SeriesOK' /\ CallOK' /\ Fresh' /\ LoopInv'
  BY DEF IInv, SeriesOK, CallOK, Fresh, LoopInv
<1>2. OutputsExact'
  BY DEF OutputsExact
<1>3. QED
  BY <1>1, <1>2 DEF IInv

LEMMA NextInv == IInv /\ [Next]_vars => IInv'
<1> SUFFICES ASSUME IInv, [Next]_vars PROVE IInv'
  OBVIOUS
<1>0. SeriesOK
  BY DEF IInv
<1>1. ASSUME NEW change \in Changes, SetCandleSettings(change[1], change[2])
      PROVE  IInv'
  <2>1. settings' \in [CandleSettingTypes -> CandleSettings]
    BY <1>0, <1>1, CandleAssumption DEF SeriesOK, SetCandleSettings
  <2>2. QED
    BY <1>1, <2>1, SettingsStep DEF SetCandleSettings
<1>2. ASSUME NEW types \in Resets, RestoreCandleDefaultSettings(types)
      PROVE  IInv'
  <2>1. settings' \in [CandleSettingTypes -> CandleSettings]
    BY <1>0, <1>2, CandleAssumption DEF SeriesOK, RestoreCandleDefaultSettings
  <2>2. QED
    BY <1>2, <2>1, SettingsStep DEF RestoreCandleDefaultSettings
<1>3. ASSUME pc = "ready", NEW p \in Patterns, NEW range \in Ranges,
             range[2] < Cardinality(DOMAIN bars), Call(p, range[1], range[2])
      PROVE  IInv'
  <2>1. range[1] \in Int /\ range[2] \in Int
    BY CandleAssumption
  <2>2. QED
    BY <1>3, <2>1, CallStep
<1>4. CASE Iterate
  BY <1>4, IterateStep
<1>5. CASE Return
  BY <1>5, ReturnStep
<1>6. CASE Collect
  BY <1>6, CollectStep
<1>7. CASE UNCHANGED vars
  <2> USE <1>7 DEF vars, call
  <2>1. SeriesOK' /\ CallOK' /\ Fresh'
    BY DEF IInv, SeriesOK, CallOK, Fresh
  <2>2. OutputsExact'
    <3>1. ASSUME NEW p \in AllPatterns, NEW j PROVE FoundAt(p, j)' = FoundAt(p, j)
      BY FindsStay
    <3>2. OutputsExact /\ (outInteger = <<>> \/ pattern \in AllPatterns)
      BY CandleAssumption DEF IInv, Fresh
    <3>3. QED
      BY <3>1, <3>2 DEF OutputsExact
  <2>3. LoopInv'
    <3>1. ASSUME NEW p PROVE PlanOf(p)' = PlanOf(p)
      BY PlansStay
    <3>2. ASSUME NEW p, NEW j PROVE Exact(p, j)' = Exact(p, j)
      BY SumsStay
    <3>3. ASSUME NEW p, NEW memory, NEW j, NEW k
          PROVE  Remembers(memory, p, j, k)' <=> Remembers(memory, p, j, k)
      BY MemoryStays
    <3>4. LoopInRange' <=> LoopInRange
      BY <3>1 DEF LoopInRange
    <3>5. TotalsExact' <=> TotalsExact
      BY <3>1, <3>2 DEF TotalsExact, TrailingAt, AvgPeriod
    <3>6. QED
      BY <3>1, <3>3, <3>4, <3>5 DEF IInv, LoopInv
  <2>4. QED
    BY <2>1, <2>2, <2>3 DEF IInv
<1>8. QED
  BY <1>1, <1>2, <1>3, <1>4, <1>5, <1>6, <1>7 DEF Next

\* The totals and the memory a call carries are right at every step of every call.
THEOREM Invariance == Spec => []IInv
<1>1. QED
  BY InitInv, NextInv, PTL DEF Spec

-----------------------------------------------------------------------------
(* What the invariant says. *)

\* The bars, the settings, the totals and the results have their types.
THEOREM TypeCorrect == Spec => []TypeOK
<1>1. IInv => TypeOK
  <2> SUFFICES ASSUME IInv PROVE TypeOK
    OBVIOUS
  <2>1. SeriesOK /\ CallOK /\ OutputsExact
    BY DEF IInv
  <2>2. QED
    BY <2>1 DEF SeriesOK, CallOK, OutputsExact, TypeOK, Results
<1>2. QED
  BY <1>1, Invariance, PTL

\* What a function writes for a bar is what the bars around it say, whatever the startIdx of the
\* call and however long the totals and the memory have been carried from bar to bar.
THEOREM OutputsDependOnBarsAlone == Spec => []SameFromAnyStart
<1>1. IInv => SameFromAnyStart
  BY DEF IInv, OutputsExact, SameFromAnyStart
<1>2. QED
  BY <1>1, Invariance, PTL

LEMMA ReadsInside ==
  ASSUME IInv
  PROVE  ReadsInsideInput
<1> SUFFICES ASSUME pc = "loop", i =< endIdx
             PROVE  /\ i >= PlanOf(pattern).reach
                    /\ \A t \in DOMAIN totals : trailing[t] >= PlanOf(pattern).totals[t].drop
                    /\ (hk.result # 0 /\ i =< hk.idx + 3) => hk.idx >= 1
  BY DEF ReadsInsideInput
<1> DEFINE plan == PlanOf(pattern)
<1>1. /\ SettingsOK /\ LoopInRange /\ TotalsExact /\ pattern \in AllPatterns
      /\ pattern \in Hikkakes => Remembers(hk, pattern, startIdx - plan.early, i)
      /\ pattern \notin Hikkakes => hk = NoPattern
  BY CandleAssumption, SettingsTyped DEF IInv, LoopInv, LoopInRange
<1>2. WellPlanned(plan)
  BY <1>1, FunctionsAreWellPlanned
<1>3. /\ startIdx \in Nat /\ i \in Nat /\ plan.lookback <= startIdx
      /\ startIdx - plan.early <= i /\ trailing = TrailingAt(plan.totals, i)
      /\ DOMAIN totals = DOMAIN plan.totals
  BY <1>1 DEF LoopInRange, TotalsExact, Exact, SumsAt
<1> HIDE DEF plan
<1>4. i >= plan.reach
  BY <1>2, <1>3 DEF WellPlanned
<1>5. ASSUME NEW t \in DOMAIN plan.totals
      PROVE  trailing[t] >= plan.totals[t].drop
  <2> DEFINE total == plan.totals[t]
  <2>1. Serves(total, plan.lookback - plan.early) /\ plan.lookback - plan.early <= i
        /\ plan.lookback - plan.early \in Int
    BY <1>2, <1>3, <1>5 DEF WellPlanned
  <2>2. trailing[t] = i - total.off - AvgPeriod(total.set)
    BY <1>3, <1>5 DEF TrailingAt
  <2> HIDE DEF total
  <2>3. AvgPeriod(total.set) \in Nat
    BY <1>1, <2>1, PeriodIsNat DEF Serves
  <2>4. trailing[t] >= total.drop
    BY <1>3, <2>1, <2>2, <2>3 DEF Serves
  <2>5. QED
    BY <2>4 DEF total
<1>6. (hk.result # 0 /\ i =< hk.idx + 3) => hk.idx >= 1
  BY <1>1, <1>3 DEF Remembers, Memories, NoPattern
<1>7. QED
  BY <1>3, <1>4, <1>5, <1>6 DEF plan

\* No iteration of any function reads before the first bar, for no avgPeriod a caller may set.
THEOREM ReadsAreInside == Spec => []ReadsInsideInput
<1>1. QED
  BY ReadsInside, Invariance, PTL

\* A call that had bars enough writes one output for each bar from outBegIdx to endIdx.
THEOREM OutputsAreComplete == Spec => Complete
<1>1. IInv /\ [Next]_vars =>
        [(pc = "loop" /\ pc' = "returned") =>
           /\ Len(outInteger) = endIdx - outBegIdx' + 1
           /\ outBegIdx' >= PlanOf(pattern).lookback]_vars
  <2> SUFFICES ASSUME IInv, Next, pc = "loop", pc' = "returned"
               PROVE  /\ Len(outInteger) = endIdx - outBegIdx' + 1
                      /\ outBegIdx' >= PlanOf(pattern).lookback
    OBVIOUS
  <2>1. Return
    BY DEF Next, SetCandleSettings, RestoreCandleDefaultSettings, Iterate, Collect
  <2>2. LoopInRange /\ PlanOf(pattern).lookback \in Nat
    <3>1. LoopInRange /\ pattern \in AllPatterns /\ SettingsOK
      BY CandleAssumption, SettingsTyped DEF IInv, LoopInv, LoopInRange
    <3>2. QED
      BY <3>1, FunctionsAreWellPlanned DEF WellPlanned
  <2>3. QED
    BY <2>1, <2>2 DEF LoopInRange, Return
<1>2. QED
  BY <1>1, Invariance, PTL DEF Spec, Complete

\* A hikkake is confirmed once, within three bars, in its own direction, with nothing reported in
\* between; a confirmation without it is of a pattern from before the first output.
THEOREM ConfirmationsFollow == Spec => []ConfirmationFollowsHikkake
<1>1. IInv => ConfirmationFollowsHikkake
  <2> SUFFICES ASSUME IInv, pattern \in Hikkakes,
                      NEW n \in DOMAIN outInteger, outInteger[n] \in {-200, 200}
               PROVE  \/ \E m \in ((n-3) .. (n-1)) \cap DOMAIN outInteger :
                            /\ 2 * outInteger[m] = outInteger[n]
                            /\ \A k \in (m+1) .. (n-1) : outInteger[k] = 0
                      \/ n =< 3 /\ \A k \in 1 .. (n-1) : outInteger[k] = 0
    BY DEF ConfirmationFollowsHikkake
  <2> DEFINE bar(k) == startIdx + k - 1
  <2>1. /\ startIdx \in Nat /\ DOMAIN outInteger = 1 .. Len(outInteger) /\ Len(outInteger) \in Nat
        /\ \A k \in DOMAIN outInteger : outInteger[k] = HikkakeFound(pattern, bar(k))
    BY DEF IInv, CallOK, OutputsExact, FoundAt
  <2>2. n \in Int /\ bar(n) \in Int
    BY <2>1
  <2>3. PICK c \in Awaited(Setups(pattern, bar(n)), bar(n)) : outInteger[n] = 2 * Direction(c)
    BY <2>1, <2>2, ConfirmationIsOfAwaited
  <2>4. c \in (bar(n) - 3) .. (bar(n) - 1) /\ IsSetup(pattern, c)
    <3> HIDE DEF bar
    <3>1. QED
      BY <2>2 DEF Awaited, Setups
  <2>5. ASSUME NEW k \in 1 .. (n - 1), bar(k) > c
        PROVE  outInteger[k] = 0
    <3>1. k \in DOMAIN outInteger /\ bar(k) \in (c + 1) .. (bar(n) - 1)
      BY <2>1, <2>4, <2>5
    <3> HIDE DEF bar
    <3>2. HikkakeFound(pattern, bar(k)) = 0
      BY <2>2, <3>1, QuietUntilConfirmed
    <3>3. QED
      BY <2>1, <3>1, <3>2
  <2>6. CASE c >= startIdx
    <3> DEFINE m == c - startIdx + 1
    <3>1. m \in ((n-3) .. (n-1)) \cap DOMAIN outInteger /\ bar(m) = c
      BY <2>1, <2>4, <2>6
    <3>2. outInteger[m] = Direction(c)
      <4>1. HikkakeFound(pattern, c) = Direction(c)
        BY <2>4 DEF HikkakeFound, Told
      <4> HIDE DEF m, bar
      <4>2. QED
        BY <2>1, <3>1, <4>1
    <3>3. \A k \in (m+1) .. (n-1) : outInteger[k] = 0
      BY <2>1, <2>5, <3>1
    <3> HIDE DEF m
    <3>4. QED
      BY <2>3, <3>1, <3>2, <3>3
  <2>7. CASE c < startIdx
    <3>1. n =< 3
      BY <2>1, <2>4, <2>7
    <3>2. \A k \in 1 .. (n-1) : bar(k) > c
      BY <2>1, <2>4, <2>7
    <3>3. QED
      BY <2>5, <3>1, <3>2
  <2>8. QED
    BY <2>1, <2>4, <2>6, <2>7
<1>2. QED
  BY <1>1, Invariance, PTL

-----------------------------------------------------------------------------
(* What the patterns promise about one another. *)

\* The ranges of the bars before bar k, as many as the average of the setting is over.
Prior(set, k) == RangeSum(set, k - AvgPeriod(set), AvgPeriod(set))

LEMMA PriorBehind ==
  ASSUME NEW set, NEW lag, NEW j
  PROVE  SumAt(Behind(set, lag), j) = Prior(set, j - lag)
  BY DEF SumAt, Prior, Behind, Total

LEMMA PriorShifted ==
  ASSUME NEW set, NEW lag, NEW j
  PROVE  SumAt(Shifted(set, lag), j) = Prior(set, j - lag)
  BY DEF SumAt, Prior, Shifted, Total

LEMMA PriorNow ==
  ASSUME NEW set, NEW j \in Int
  PROVE  SumAt(Behind(set, 0), j) = Prior(set, j)
<1>1. j - 0 = j
  OBVIOUS
<1>2. QED
  BY <1>1, PriorBehind

\* From its lookback on a function finds at bar j the value v.
FoundAs(p, j, lookback, v) == Found(p, j) = IF j < lookback THEN 0 ELSE v

\* What the related functions find, from the ranges before the bars their averages are compared
\* with.
LEMMA DojisByName ==
  ASSUME NEW j \in Int
  PROVE  /\ FoundAs("CDLDOJI", j, CDLDOJI_Plan.lookback,
               CDLDOJI(j, [bodyDoji |-> Prior("BodyDoji", j)]))
         /\ FoundAs("CDLDRAGONFLYDOJI", j, CDLDRAGONFLYDOJI_Plan.lookback,
               CDLDRAGONFLYDOJI(j, [bodyDoji |-> Prior("BodyDoji", j),
                                    shadowVeryShort |-> Prior("ShadowVeryShort", j)]))
         /\ FoundAs("CDLGRAVESTONEDOJI", j, CDLGRAVESTONEDOJI_Plan.lookback,
               CDLGRAVESTONEDOJI(j, [bodyDoji |-> Prior("BodyDoji", j),
                                     shadowVeryShort |-> Prior("ShadowVeryShort", j)]))
         /\ FoundAs("CDLLONGLEGGEDDOJI", j, CDLLONGLEGGEDDOJI_Plan.lookback,
               CDLLONGLEGGEDDOJI(j, [bodyDoji |-> Prior("BodyDoji", j),
                                     shadowLong |-> Prior("ShadowLong", j)]))
         /\ FoundAs("CDLRICKSHAWMAN", j, CDLRICKSHAWMAN_Plan.lookback,
               CDLRICKSHAWMAN(j, [bodyDoji |-> Prior("BodyDoji", j),
                                  shadowLong |-> Prior("ShadowLong", j), near |-> Prior("Near", j)]))
         /\ FoundAs("CDLTAKURI", j, CDLTAKURI_Plan.lookback,
               CDLTAKURI(j, [bodyDoji |-> Prior("BodyDoji", j),
                             shadowVeryShort |-> Prior("ShadowVeryShort", j),
                             shadowVeryLong |-> Prior("ShadowVeryLong", j)]))
<1>1. FoundAs("CDLDOJI", j, CDLDOJI_Plan.lookback,
           CDLDOJI(j, [bodyDoji |-> Prior("BodyDoji", j)]))
  <2>1. PlanOf("CDLDOJI") = CDLDOJI_Plan
    BY PlansByName
  <2>2. Exact("CDLDOJI", j) = [bodyDoji |-> Prior("BodyDoji", j)]
    BY <2>1, PriorNow DEF Exact, SumsAt, CDLDOJI_Plan, Plan
  <2>3. QED
    BY <2>1, <2>2, OutputsByName DEF FoundAs, Found, Writes
<1>2. FoundAs("CDLDRAGONFLYDOJI", j, CDLDRAGONFLYDOJI_Plan.lookback,
           CDLDRAGONFLYDOJI(j, [bodyDoji |-> Prior("BodyDoji", j),
                                shadowVeryShort |-> Prior("ShadowVeryShort", j)]))
  <2>1. PlanOf("CDLDRAGONFLYDOJI") = CDLDRAGONFLYDOJI_Plan
    BY PlansByName
  <2>2. Exact("CDLDRAGONFLYDOJI", j) = [bodyDoji |-> Prior("BodyDoji", j),
                                        shadowVeryShort |-> Prior("ShadowVeryShort", j)]
    BY <2>1, PriorNow DEF Exact, SumsAt, CDLDRAGONFLYDOJI_Plan, Plan
  <2>3. QED
    BY <2>1, <2>2, OutputsByName DEF FoundAs, Found, Writes
<1>3. FoundAs("CDLGRAVESTONEDOJI", j, CDLGRAVESTONEDOJI_Plan.lookback,
           CDLGRAVESTONEDOJI(j, [bodyDoji |-> Prior("BodyDoji", j),
                                 shadowVeryShort |-> Prior("ShadowVeryShort", j)]))
  <2>1. PlanOf("CDLGRAVESTONEDOJI") = CDLGRAVESTONEDOJI_Plan
    BY PlansByName
  <2>2. Exact("CDLGRAVESTONEDOJI", j) = [bodyDoji |-> Prior("BodyDoji", j),
                                         shadowVeryShort |-> Prior("ShadowVeryShort", j)]
    BY <2>1, PriorNow DEF Exact, SumsAt, CDLGRAVESTONEDOJI_Plan, Plan
  <2>3. QED
    BY <2>1, <2>2, OutputsByName DEF FoundAs, Found, Writes
<1>4. FoundAs("CDLLONGLEGGEDDOJI", j, CDLLONGLEGGEDDOJI_Plan.lookback,
           CDLLONGLEGGEDDOJI(j, [bodyDoji |-> Prior("BodyDoji", j),
                                 shadowLong |-> Prior("ShadowLong", j)]))
  <2>1. PlanOf("CDLLONGLEGGEDDOJI") = CDLLONGLEGGEDDOJI_Plan
    BY PlansByName
  <2>2. Exact("CDLLONGLEGGEDDOJI", j) = [bodyDoji |-> Prior("BodyDoji", j),
                                         shadowLong |-> Prior("ShadowLong", j)]
    BY <2>1, PriorNow DEF Exact, SumsAt, CDLLONGLEGGEDDOJI_Plan, Plan
  <2>3. QED
    BY <2>1, <2>2, OutputsByName DEF FoundAs, Found, Writes
<1>5. FoundAs("CDLRICKSHAWMAN", j, CDLRICKSHAWMAN_Plan.lookback,
           CDLRICKSHAWMAN(j, [bodyDoji |-> Prior("BodyDoji", j),
                              shadowLong |-> Prior("ShadowLong", j), near |-> Prior("Near", j)]))
  <2>1. PlanOf("CDLRICKSHAWMAN") = CDLRICKSHAWMAN_Plan
    BY PlansByName
  <2>2. Exact("CDLRICKSHAWMAN", j) = [bodyDoji |-> Prior("BodyDoji", j),
                                      shadowLong |-> Prior("ShadowLong", j),
                                      near |-> Prior("Near", j)]
    BY <2>1, PriorNow DEF Exact, SumsAt, CDLRICKSHAWMAN_Plan, Plan
  <2>3. QED
    BY <2>1, <2>2, OutputsByName DEF FoundAs, Found, Writes
<1>6. FoundAs("CDLTAKURI", j, CDLTAKURI_Plan.lookback,
           CDLTAKURI(j, [bodyDoji |-> Prior("BodyDoji", j),
                         shadowVeryShort |-> Prior("ShadowVeryShort", j),
                         shadowVeryLong |-> Prior("ShadowVeryLong", j)]))
  <2>1. PlanOf("CDLTAKURI") = CDLTAKURI_Plan
    BY PlansByName
  <2>2. Exact("CDLTAKURI", j) = [bodyDoji |-> Prior("BodyDoji", j),
                                 shadowVeryShort |-> Prior("ShadowVeryShort", j),
                                 shadowVeryLong |-> Prior("ShadowVeryLong", j)]
    BY <2>1, PriorNow DEF Exact, SumsAt, CDLTAKURI_Plan, Plan
  <2>3. QED
    BY <2>1, <2>2, OutputsByName DEF FoundAs, Found, Writes
<1>7. QED
  BY <1>1, <1>2, <1>3, <1>4, <1>5, <1>6

LEMMA MarubozusByName ==
  ASSUME NEW j \in Int
  PROVE  /\ FoundAs("CDLBELTHOLD", j, CDLBELTHOLD_Plan.lookback,
               CDLBELTHOLD(j, [bodyLong |-> Prior("BodyLong", j),
                               shadowVeryShort |-> Prior("ShadowVeryShort", j)]))
         /\ FoundAs("CDLCLOSINGMARUBOZU", j, CDLCLOSINGMARUBOZU_Plan.lookback,
               CDLCLOSINGMARUBOZU(j, [bodyLong |-> Prior("BodyLong", j),
                                      shadowVeryShort |-> Prior("ShadowVeryShort", j)]))
         /\ FoundAs("CDLMARUBOZU", j, CDLMARUBOZU_Plan.lookback,
               CDLMARUBOZU(j, [bodyLong |-> Prior("BodyLong", j),
                               shadowVeryShort |-> Prior("ShadowVeryShort", j)]))
         /\ FoundAs("CDLKICKING", j, CDLKICKING_Plan.lookback,
               CDLKICKING(j, [shadowVeryShort1 |-> Prior("ShadowVeryShort", j - 1),
                              shadowVeryShort0 |-> Prior("ShadowVeryShort", j),
                              bodyLong1 |-> Prior("BodyLong", j - 1),
                              bodyLong0 |-> Prior("BodyLong", j)]))
         /\ FoundAs("CDLKICKINGBYLENGTH", j, CDLKICKINGBYLENGTH_Plan.lookback,
               CDLKICKINGBYLENGTH(j, [shadowVeryShort1 |-> Prior("ShadowVeryShort", j - 1),
                                      shadowVeryShort0 |-> Prior("ShadowVeryShort", j),
                                      bodyLong1 |-> Prior("BodyLong", j - 1),
                                      bodyLong0 |-> Prior("BodyLong", j)]))
         /\ FoundAs("CDLSEPARATINGLINES", j, CDLSEPARATINGLINES_Plan.lookback,
               CDLSEPARATINGLINES(j, [shadowVeryShort |-> Prior("ShadowVeryShort", j),
                                      bodyLong |-> Prior("BodyLong", j),
                                      equal |-> Prior("Equal", j - 1)]))
<1>1. FoundAs("CDLBELTHOLD", j, CDLBELTHOLD_Plan.lookback,
           CDLBELTHOLD(j, [bodyLong |-> Prior("BodyLong", j),
                           shadowVeryShort |-> Prior("ShadowVeryShort", j)]))
  <2>1. PlanOf("CDLBELTHOLD") = CDLBELTHOLD_Plan
    BY PlansByName
  <2>2. Exact("CDLBELTHOLD", j) = [bodyLong |-> Prior("BodyLong", j),
                                   shadowVeryShort |-> Prior("ShadowVeryShort", j)]
    BY <2>1, PriorNow DEF Exact, SumsAt, CDLBELTHOLD_Plan, Plan
  <2>3. QED
    BY <2>1, <2>2, OutputsByName DEF FoundAs, Found, Writes
<1>2. FoundAs("CDLCLOSINGMARUBOZU", j, CDLCLOSINGMARUBOZU_Plan.lookback,
           CDLCLOSINGMARUBOZU(j, [bodyLong |-> Prior("BodyLong", j),
                                  shadowVeryShort |-> Prior("ShadowVeryShort", j)]))
  <2>1. PlanOf("CDLCLOSINGMARUBOZU") = CDLCLOSINGMARUBOZU_Plan
    BY PlansByName
  <2>2. Exact("CDLCLOSINGMARUBOZU", j) = [bodyLong |-> Prior("BodyLong", j),
                                          shadowVeryShort |-> Prior("ShadowVeryShort", j)]
    BY <2>1, PriorNow DEF Exact, SumsAt, CDLCLOSINGMARUBOZU_Plan, Plan
  <2>3. QED
    BY <2>1, <2>2, OutputsByName DEF FoundAs, Found, Writes
<1>3. FoundAs("CDLMARUBOZU", j, CDLMARUBOZU_Plan.lookback,
           CDLMARUBOZU(j, [bodyLong |-> Prior("BodyLong", j),
                           shadowVeryShort |-> Prior("ShadowVeryShort", j)]))
  <2>1. PlanOf("CDLMARUBOZU") = CDLMARUBOZU_Plan
    BY PlansByName
  <2>2. Exact("CDLMARUBOZU", j) = [bodyLong |-> Prior("BodyLong", j),
                                   shadowVeryShort |-> Prior("ShadowVeryShort", j)]
    BY <2>1, PriorNow DEF Exact, SumsAt, CDLMARUBOZU_Plan, Plan
  <2>3. QED
    BY <2>1, <2>2, OutputsByName DEF FoundAs, Found, Writes
<1>4. FoundAs("CDLKICKING", j, CDLKICKING_Plan.lookback,
           CDLKICKING(j, [shadowVeryShort1 |-> Prior("ShadowVeryShort", j - 1),
                          shadowVeryShort0 |-> Prior("ShadowVeryShort", j),
                          bodyLong1 |-> Prior("BodyLong", j - 1),
                          bodyLong0 |-> Prior("BodyLong", j)]))
  <2>1. PlanOf("CDLKICKING") = CDLKICKING_Plan
    BY PlansByName
  <2>2. Exact("CDLKICKING", j) = [shadowVeryShort1 |-> Prior("ShadowVeryShort", j - 1),
                                  shadowVeryShort0 |-> Prior("ShadowVeryShort", j),
                                  bodyLong1 |-> Prior("BodyLong", j - 1),
                                  bodyLong0 |-> Prior("BodyLong", j)]
    BY <2>1, PriorShifted, PriorNow DEF Exact, SumsAt, CDLKICKING_Plan, Plan
  <2>3. QED
    BY <2>1, <2>2, OutputsByName DEF FoundAs, Found, Writes
<1>5. FoundAs("CDLKICKINGBYLENGTH", j, CDLKICKINGBYLENGTH_Plan.lookback,
           CDLKICKINGBYLENGTH(j, [shadowVeryShort1 |-> Prior("ShadowVeryShort", j - 1),
                                  shadowVeryShort0 |-> Prior("ShadowVeryShort", j),
                                  bodyLong1 |-> Prior("BodyLong", j - 1),
                                  bodyLong0 |-> Prior("BodyLong", j)]))
  <2>1. PlanOf("CDLKICKINGBYLENGTH") = CDLKICKINGBYLENGTH_Plan
    BY PlansByName
  <2>2. Exact("CDLKICKINGBYLENGTH", j) = [shadowVeryShort1 |-> Prior("ShadowVeryShort", j - 1),
                                          shadowVeryShort0 |-> Prior("ShadowVeryShort", j),
                                          bodyLong1 |-> Prior("BodyLong", j - 1),
                                          bodyLong0 |-> Prior("BodyLong", j)]
    BY <2>1, PriorShifted, PriorNow DEF Exact, SumsAt, CDLKICKINGBYLENGTH_Plan, Plan
  <2>3. QED
    BY <2>1, <2>2, OutputsByName DEF FoundAs, Found, Writes
<1>6. FoundAs("CDLSEPARATINGLINES", j, CDLSEPARATINGLINES_Plan.lookback,
           CDLSEPARATINGLINES(j, [shadowVeryShort |-> Prior("ShadowVeryShort", j),
                                  bodyLong |-> Prior("BodyLong", j),
                                  equal |-> Prior("Equal", j - 1)]))
  <2>1. PlanOf("CDLSEPARATINGLINES") = CDLSEPARATINGLINES_Plan
    BY PlansByName
  <2>2. Exact("CDLSEPARATINGLINES", j) = [shadowVeryShort |-> Prior("ShadowVeryShort", j),
                                          bodyLong |-> Prior("BodyLong", j),
                                          equal |-> Prior("Equal", j - 1)]
    BY <2>1, PriorShifted, PriorNow DEF Exact, SumsAt, CDLSEPARATINGLINES_Plan, Plan
  <2>3. QED
    BY <2>1, <2>2, OutputsByName DEF FoundAs, Found, Writes
<1>7. QED
  BY <1>1, <1>2, <1>3, <1>4, <1>5, <1>6

LEMMA ConfirmedByName ==
  ASSUME NEW j \in Int
  PROVE  /\ FoundAs("CDL3INSIDE", j, CDL3INSIDE_Plan.lookback,
               CDL3INSIDE(j, [bodyLong |-> Prior("BodyLong", j - 2),
                              bodyShort |-> Prior("BodyShort", j - 1)]))
         /\ FoundAs("CDLHARAMI", j, CDLHARAMI_Plan.lookback,
               CDLHARAMI(j, [bodyLong |-> Prior("BodyLong", j - 1),
                             bodyShort |-> Prior("BodyShort", j)]))
         /\ FoundAs("CDL3OUTSIDE", j, CDL3OUTSIDE_Plan.lookback,
               CDL3OUTSIDE(j, Exact("CDL3OUTSIDE", j)))
         /\ FoundAs("CDLENGULFING", j, CDLENGULFING_Plan.lookback,
               CDLENGULFING(j, Exact("CDLENGULFING", j)))
         /\ FoundAs("CDLMORNINGDOJISTAR", j, CDLMORNINGDOJISTAR_Plan.lookback,
               CDLMORNINGDOJISTAR(j, [bodyLong |-> Prior("BodyLong", j - 2),
                                      bodyDoji |-> Prior("BodyDoji", j - 1),
                                      bodyShort |-> Prior("BodyShort", j)]))
         /\ FoundAs("CDLEVENINGDOJISTAR", j, CDLEVENINGDOJISTAR_Plan.lookback,
               CDLEVENINGDOJISTAR(j, [bodyLong |-> Prior("BodyLong", j - 2),
                                      bodyDoji |-> Prior("BodyDoji", j - 1),
                                      bodyShort |-> Prior("BodyShort", j)]))
         /\ FoundAs("CDLDOJISTAR", j, CDLDOJISTAR_Plan.lookback,
               CDLDOJISTAR(j, [bodyLong |-> Prior("BodyLong", j - 1),
                               bodyDoji |-> Prior("BodyDoji", j)]))
         /\ FoundAs("CDLABANDONEDBABY", j, CDLABANDONEDBABY_Plan.lookback,
               CDLABANDONEDBABY(j, [bodyLong |-> Prior("BodyLong", j - 2),
                                    bodyDoji |-> Prior("BodyDoji", j - 1),
                                    bodyShort |-> Prior("BodyShort", j)]))
<1>1. FoundAs("CDL3INSIDE", j, CDL3INSIDE_Plan.lookback,
           CDL3INSIDE(j, [bodyLong |-> Prior("BodyLong", j - 2),
                          bodyShort |-> Prior("BodyShort", j - 1)]))
  <2>1. PlanOf("CDL3INSIDE") = CDL3INSIDE_Plan
    BY PlansByName
  <2>2. Exact("CDL3INSIDE", j) = [bodyLong |-> Prior("BodyLong", j - 2),
                                  bodyShort |-> Prior("BodyShort", j - 1)]
    BY <2>1, PriorBehind DEF Exact, SumsAt, CDL3INSIDE_Plan, Plan
  <2>3. QED
    BY <2>1, <2>2, OutputsByName DEF FoundAs, Found, Writes
<1>2. FoundAs("CDLHARAMI", j, CDLHARAMI_Plan.lookback,
           CDLHARAMI(j, [bodyLong |-> Prior("BodyLong", j - 1),
                         bodyShort |-> Prior("BodyShort", j)]))
  <2>1. PlanOf("CDLHARAMI") = CDLHARAMI_Plan
    BY PlansByName
  <2>2. Exact("CDLHARAMI", j) = [bodyLong |-> Prior("BodyLong", j - 1),
                                 bodyShort |-> Prior("BodyShort", j)]
    BY <2>1, PriorBehind, PriorNow DEF Exact, SumsAt, CDLHARAMI_Plan, Plan
  <2>3. QED
    BY <2>1, <2>2, OutputsByName DEF FoundAs, Found, Writes
<1>3. FoundAs("CDL3OUTSIDE", j, CDL3OUTSIDE_Plan.lookback,
           CDL3OUTSIDE(j, Exact("CDL3OUTSIDE", j)))
  <2>1. PlanOf("CDL3OUTSIDE") = CDL3OUTSIDE_Plan
    BY PlansByName
  <2>2. QED
    BY <2>1, OutputsByName DEF FoundAs, Found, Writes
<1>4. FoundAs("CDLENGULFING", j, CDLENGULFING_Plan.lookback,
           CDLENGULFING(j, Exact("CDLENGULFING", j)))
  <2>1. PlanOf("CDLENGULFING") = CDLENGULFING_Plan
    BY PlansByName
  <2>2. QED
    BY <2>1, OutputsByName DEF FoundAs, Found, Writes
<1>5. FoundAs("CDLMORNINGDOJISTAR", j, CDLMORNINGDOJISTAR_Plan.lookback,
           CDLMORNINGDOJISTAR(j, [bodyLong |-> Prior("BodyLong", j - 2),
                                  bodyDoji |-> Prior("BodyDoji", j - 1),
                                  bodyShort |-> Prior("BodyShort", j)]))
  <2>1. PlanOf("CDLMORNINGDOJISTAR") = CDLMORNINGDOJISTAR_Plan
    BY PlansByName
  <2>2. Exact("CDLMORNINGDOJISTAR", j) = [bodyLong |-> Prior("BodyLong", j - 2),
                                          bodyDoji |-> Prior("BodyDoji", j - 1),
                                          bodyShort |-> Prior("BodyShort", j)]
    BY <2>1, PriorBehind, PriorNow DEF Exact, SumsAt, CDLMORNINGDOJISTAR_Plan, Plan
  <2>3. QED
    BY <2>1, <2>2, OutputsByName DEF FoundAs, Found, Writes
<1>6. FoundAs("CDLEVENINGDOJISTAR", j, CDLEVENINGDOJISTAR_Plan.lookback,
           CDLEVENINGDOJISTAR(j, [bodyLong |-> Prior("BodyLong", j - 2),
                                  bodyDoji |-> Prior("BodyDoji", j - 1),
                                  bodyShort |-> Prior("BodyShort", j)]))
  <2>1. PlanOf("CDLEVENINGDOJISTAR") = CDLEVENINGDOJISTAR_Plan
    BY PlansByName
  <2>2. Exact("CDLEVENINGDOJISTAR", j) = [bodyLong |-> Prior("BodyLong", j - 2),
                                          bodyDoji |-> Prior("BodyDoji", j - 1),
                                          bodyShort |-> Prior("BodyShort", j)]
    BY <2>1, PriorBehind, PriorNow DEF Exact, SumsAt, CDLEVENINGDOJISTAR_Plan, Plan
  <2>3. QED
    BY <2>1, <2>2, OutputsByName DEF FoundAs, Found, Writes
<1>7. FoundAs("CDLDOJISTAR", j, CDLDOJISTAR_Plan.lookback,
           CDLDOJISTAR(j, [bodyLong |-> Prior("BodyLong", j - 1),
                           bodyDoji |-> Prior("BodyDoji", j)]))
  <2>1. PlanOf("CDLDOJISTAR") = CDLDOJISTAR_Plan
    BY PlansByName
  <2>2. Exact("CDLDOJISTAR", j) = [bodyLong |-> Prior("BodyLong", j - 1),
                                   bodyDoji |-> Prior("BodyDoji", j)]
    BY <2>1, PriorBehind, PriorNow DEF Exact, SumsAt, CDLDOJISTAR_Plan, Plan
  <2>3. QED
    BY <2>1, <2>2, OutputsByName DEF FoundAs, Found, Writes
<1>8. FoundAs("CDLABANDONEDBABY", j, CDLABANDONEDBABY_Plan.lookback,
           CDLABANDONEDBABY(j, [bodyLong |-> Prior("BodyLong", j - 2),
                                bodyDoji |-> Prior("BodyDoji", j - 1),
                                bodyShort |-> Prior("BodyShort", j)]))
  <2>1. PlanOf("CDLABANDONEDBABY") = CDLABANDONEDBABY_Plan
    BY PlansByName
  <2>2. Exact("CDLABANDONEDBABY", j) = [bodyLong |-> Prior("BodyLong", j - 2),
                                        bodyDoji |-> Prior("BodyDoji", j - 1),
                                        bodyShort |-> Prior("BodyShort", j)]
    BY <2>1, PriorBehind, PriorNow DEF Exact, SumsAt, CDLABANDONEDBABY_Plan, Plan
  <2>3. QED
    BY <2>1, <2>2, OutputsByName DEF FoundAs, Found, Writes
<1>9. QED
  BY <1>1, <1>2, <1>3, <1>4, <1>5, <1>6, <1>7, <1>8

LEMMA RivalsByName ==
  ASSUME NEW j \in Int
  PROVE  /\ FoundAs("CDLPIERCING", j, CDLPIERCING_Plan.lookback,
               CDLPIERCING(j, [bodyLong1 |-> Prior("BodyLong", j - 1),
                               bodyLong0 |-> Prior("BodyLong", j)]))
         /\ FoundAs("CDLTHRUSTING", j, CDLTHRUSTING_Plan.lookback,
               CDLTHRUSTING(j, [equal |-> Prior("Equal", j - 1),
                                bodyLong |-> Prior("BodyLong", j - 1)]))
         /\ FoundAs("CDLINNECK", j, CDLINNECK_Plan.lookback,
               CDLINNECK(j, [equal |-> Prior("Equal", j - 1),
                             bodyLong |-> Prior("BodyLong", j - 1)]))
         /\ FoundAs("CDL2CROWS", j, CDL2CROWS_Plan.lookback,
               CDL2CROWS(j, [bodyLong |-> Prior("BodyLong", j - 2)]))
         /\ FoundAs("CDLUPSIDEGAP2CROWS", j, CDLUPSIDEGAP2CROWS_Plan.lookback,
               CDLUPSIDEGAP2CROWS(j, [bodyLong |-> Prior("BodyLong", j - 2),
                                      bodyShort |-> Prior("BodyShort", j - 1)]))
         /\ FoundAs("CDLTASUKIGAP", j, CDLTASUKIGAP_Plan.lookback,
               CDLTASUKIGAP(j, [near |-> Prior("Near", j - 1)]))
         /\ FoundAs("CDLXSIDEGAP3METHODS", j, CDLXSIDEGAP3METHODS_Plan.lookback,
               CDLXSIDEGAP3METHODS(j, Exact("CDLXSIDEGAP3METHODS", j)))
         /\ FoundAs("CDLINVERTEDHAMMER", j, CDLINVERTEDHAMMER_Plan.lookback,
               CDLINVERTEDHAMMER(j, [body |-> Prior("BodyShort", j),
                                     shadowLong |-> Prior("ShadowLong", j),
                                     shadowVeryShort |-> Prior("ShadowVeryShort", j)]))
         /\ FoundAs("CDLSHOOTINGSTAR", j, CDLSHOOTINGSTAR_Plan.lookback,
               CDLSHOOTINGSTAR(j, [body |-> Prior("BodyShort", j),
                                   shadowLong |-> Prior("ShadowLong", j),
                                   shadowVeryShort |-> Prior("ShadowVeryShort", j)]))
<1>1. FoundAs("CDLPIERCING", j, CDLPIERCING_Plan.lookback,
           CDLPIERCING(j, [bodyLong1 |-> Prior("BodyLong", j - 1),
                           bodyLong0 |-> Prior("BodyLong", j)]))
  <2>1. PlanOf("CDLPIERCING") = CDLPIERCING_Plan
    BY PlansByName
  <2>2. Exact("CDLPIERCING", j) = [bodyLong1 |-> Prior("BodyLong", j - 1),
                                   bodyLong0 |-> Prior("BodyLong", j)]
    BY <2>1, PriorShifted, PriorNow DEF Exact, SumsAt, CDLPIERCING_Plan, Plan
  <2>3. QED
    BY <2>1, <2>2, OutputsByName DEF FoundAs, Found, Writes
<1>2. FoundAs("CDLTHRUSTING", j, CDLTHRUSTING_Plan.lookback,
           CDLTHRUSTING(j, [equal |-> Prior("Equal", j - 1), bodyLong |-> Prior("BodyLong", j - 1)]))
  <2>1. PlanOf("CDLTHRUSTING") = CDLTHRUSTING_Plan
    BY PlansByName
  <2>2. Exact("CDLTHRUSTING", j) = [equal |-> Prior("Equal", j - 1),
                                    bodyLong |-> Prior("BodyLong", j - 1)]
    BY <2>1, PriorShifted DEF Exact, SumsAt, CDLTHRUSTING_Plan, Plan
  <2>3. QED
    BY <2>1, <2>2, OutputsByName DEF FoundAs, Found, Writes
<1>3. FoundAs("CDLINNECK", j, CDLINNECK_Plan.lookback,
           CDLINNECK(j, [equal |-> Prior("Equal", j - 1), bodyLong |-> Prior("BodyLong", j - 1)]))
  <2>1. PlanOf("CDLINNECK") = CDLINNECK_Plan
    BY PlansByName
  <2>2. Exact("CDLINNECK", j) = [equal |-> Prior("Equal", j - 1),
                                 bodyLong |-> Prior("BodyLong", j - 1)]
    BY <2>1, PriorShifted DEF Exact, SumsAt, CDLINNECK_Plan, Plan
  <2>3. QED
    BY <2>1, <2>2, OutputsByName DEF FoundAs, Found, Writes
<1>4. FoundAs("CDL2CROWS", j, CDL2CROWS_Plan.lookback,
           CDL2CROWS(j, [bodyLong |-> Prior("BodyLong", j - 2)]))
  <2>1. PlanOf("CDL2CROWS") = CDL2CROWS_Plan
    BY PlansByName
  <2>2. Exact("CDL2CROWS", j) = [bodyLong |-> Prior("BodyLong", j - 2)]
    BY <2>1, PriorBehind DEF Exact, SumsAt, CDL2CROWS_Plan, Plan
  <2>3. QED
    BY <2>1, <2>2, OutputsByName DEF FoundAs, Found, Writes
<1>5. FoundAs("CDLUPSIDEGAP2CROWS", j, CDLUPSIDEGAP2CROWS_Plan.lookback,
           CDLUPSIDEGAP2CROWS(j, [bodyLong |-> Prior("BodyLong", j - 2),
                                  bodyShort |-> Prior("BodyShort", j - 1)]))
  <2>1. PlanOf("CDLUPSIDEGAP2CROWS") = CDLUPSIDEGAP2CROWS_Plan
    BY PlansByName
  <2>2. Exact("CDLUPSIDEGAP2CROWS", j) = [bodyLong |-> Prior("BodyLong", j - 2),
                                          bodyShort |-> Prior("BodyShort", j - 1)]
    BY <2>1, PriorBehind DEF Exact, SumsAt, CDLUPSIDEGAP2CROWS_Plan, Plan
  <2>3. QED
    BY <2>1, <2>2, OutputsByName DEF FoundAs, Found, Writes
<1>6. FoundAs("CDLTASUKIGAP", j, CDLTASUKIGAP_Plan.lookback,
           CDLTASUKIGAP(j, [near |-> Prior("Near", j - 1)]))
  <2>1. PlanOf("CDLTASUKIGAP") = CDLTASUKIGAP_Plan
    BY PlansByName
  <2>2. Exact("CDLTASUKIGAP", j) = [near |-> Prior("Near", j - 1)]
    BY <2>1, PriorShifted DEF Exact, SumsAt, CDLTASUKIGAP_Plan, Plan
  <2>3. QED
    BY <2>1, <2>2, OutputsByName DEF FoundAs, Found, Writes
<1>7. FoundAs("CDLXSIDEGAP3METHODS", j, CDLXSIDEGAP3METHODS_Plan.lookback,
           CDLXSIDEGAP3METHODS(j, Exact("CDLXSIDEGAP3METHODS", j)))
  <2>1. PlanOf("CDLXSIDEGAP3METHODS") = CDLXSIDEGAP3METHODS_Plan
    BY PlansByName
  <2>2. QED
    BY <2>1, OutputsByName DEF FoundAs, Found, Writes
<1>8. FoundAs("CDLINVERTEDHAMMER", j, CDLINVERTEDHAMMER_Plan.lookback,
           CDLINVERTEDHAMMER(j, [body |-> Prior("BodyShort", j),
                                 shadowLong |-> Prior("ShadowLong", j),
                                 shadowVeryShort |-> Prior("ShadowVeryShort", j)]))
  <2>1. PlanOf("CDLINVERTEDHAMMER") = CDLINVERTEDHAMMER_Plan
    BY PlansByName
  <2>2. Exact("CDLINVERTEDHAMMER", j) = [body |-> Prior("BodyShort", j),
                                         shadowLong |-> Prior("ShadowLong", j),
                                         shadowVeryShort |-> Prior("ShadowVeryShort", j)]
    BY <2>1, PriorNow DEF Exact, SumsAt, CDLINVERTEDHAMMER_Plan, Plan
  <2>3. QED
    BY <2>1, <2>2, OutputsByName DEF FoundAs, Found, Writes
<1>9. FoundAs("CDLSHOOTINGSTAR", j, CDLSHOOTINGSTAR_Plan.lookback,
           CDLSHOOTINGSTAR(j, [body |-> Prior("BodyShort", j),
                               shadowLong |-> Prior("ShadowLong", j),
                               shadowVeryShort |-> Prior("ShadowVeryShort", j)]))
  <2>1. PlanOf("CDLSHOOTINGSTAR") = CDLSHOOTINGSTAR_Plan
    BY PlansByName
  <2>2. Exact("CDLSHOOTINGSTAR", j) = [body |-> Prior("BodyShort", j),
                                       shadowLong |-> Prior("ShadowLong", j),
                                       shadowVeryShort |-> Prior("ShadowVeryShort", j)]
    BY <2>1, PriorNow DEF Exact, SumsAt, CDLSHOOTINGSTAR_Plan, Plan
  <2>3. QED
    BY <2>1, <2>2, OutputsByName DEF FoundAs, Found, Writes
<1>10. QED
  BY <1>1, <1>2, <1>3, <1>4, <1>5, <1>6, <1>7, <1>8, <1>9

-----------------------------------------------------------------------------
(* Special cases. *)

\* The largest of some numbers is one of them.
LEMMA LargestIsOne ==
  /\ \A a, b \in Nat : Max({a, b}) = a \/ Max({a, b}) = b
  /\ \A a, b, c \in Nat : Max({a, b, c}) = a \/ Max({a, b, c}) = b \/ Max({a, b, c}) = c
<1>1. ASSUME NEW a \in Nat, NEW b \in Nat
      PROVE  Max({a, b}) = a \/ Max({a, b}) = b
  <2>1. \E m \in {a, b} : \A x \in {a, b} : m >= x
    OBVIOUS
  <2>2. QED
    BY <2>1, MaxIsLargest
<1>2. ASSUME NEW a \in Nat, NEW b \in Nat, NEW c \in Nat
      PROVE  Max({a, b, c}) = a \/ Max({a, b, c}) = b \/ Max({a, b, c}) = c
  <2>1. PICK m \in {a, b, c} : \A x \in {a, b, c} : m >= x
    OBVIOUS
  <2>2. Max({a, b, c}) \in {a, b, c}
    BY <2>1, MaxIsLargest, Zenon
  <2>3. QED
    BY <2>2
<1>3. QED
  BY <1>1, <1>2

\* The lookback of a special case covers that of the general one.
LEMMA DojiLookbacks ==
  ASSUME SettingsOK
  PROVE  /\ CDLDOJI_Plan.lookback \in Nat /\ CDLLONGLEGGEDDOJI_Plan.lookback \in Nat
         /\ CDLRICKSHAWMAN_Plan.lookback \in Nat
         /\ CDLDRAGONFLYDOJI_Plan.lookback >= CDLDOJI_Plan.lookback
         /\ CDLGRAVESTONEDOJI_Plan.lookback >= CDLDOJI_Plan.lookback
         /\ CDLLONGLEGGEDDOJI_Plan.lookback >= CDLDOJI_Plan.lookback
         /\ CDLRICKSHAWMAN_Plan.lookback >= CDLLONGLEGGEDDOJI_Plan.lookback
         /\ CDLRICKSHAWMAN_Plan.lookback >= CDLDOJI_Plan.lookback
         /\ CDLTAKURI_Plan.lookback >= CDLDOJI_Plan.lookback
         /\ CDLTAKURI_Plan.lookback \in Nat /\ CDLDRAGONFLYDOJI_Plan.lookback \in Nat
         /\ CDLGRAVESTONEDOJI_Plan.lookback \in Nat
<1> DEFINE D == AvgPeriod("BodyDoji")
           V == AvgPeriod("ShadowVeryShort")
           W == AvgPeriod("ShadowVeryLong")
           L == AvgPeriod("ShadowLong")
           N == AvgPeriod("Near")
<1>1. D \in Nat /\ V \in Nat /\ W \in Nat /\ L \in Nat /\ N \in Nat
  BY PeriodsAreNats
<1>2. CDLDOJI_Plan.lookback = D
  BY DEF Plan, CDLDOJI_Plan
<1>3. /\ CDLDRAGONFLYDOJI_Plan.lookback = Max({D, V})
      /\ CDLGRAVESTONEDOJI_Plan.lookback = Max({D, V})
      /\ CDLLONGLEGGEDDOJI_Plan.lookback = Max({D, L})
  BY DEF Plan, CDLDRAGONFLYDOJI_Plan, CDLGRAVESTONEDOJI_Plan, CDLLONGLEGGEDDOJI_Plan
<1>4. /\ CDLRICKSHAWMAN_Plan.lookback = Max({D, L, N})
      /\ CDLTAKURI_Plan.lookback = Max({D, V, W})
  BY DEF Plan, CDLRICKSHAWMAN_Plan, CDLTAKURI_Plan
<1> HIDE DEF D, V, W, L, N
<1>5. Max({D, V}) \in Nat /\ Max({D, V}) >= D
  BY <1>1, MaxOfTwo
<1>6. /\ Max({D, L}) \in Nat /\ Max({D, L}) >= D
      /\ Max({D, L}) = D \/ Max({D, L}) = L
  BY <1>1, MaxOfTwo, LargestIsOne
<1>7. Max({D, V, W}) \in Nat /\ Max({D, V, W}) >= D
  BY <1>1, MaxOfThree
<1>8. Max({D, L, N}) \in Nat /\ Max({D, L, N}) >= D /\ Max({D, L, N}) >= L
  BY <1>1, MaxOfThree
<1>9. Max({D, L, N}) >= Max({D, L})
  BY <1>6, <1>8
<1>10. QED
  BY <1>1, <1>2, <1>3, <1>4, <1>5, <1>6, <1>7, <1>8, <1>9

\* The special dojis are dojis, and the rickshaw man is a long legged one.
LEMMA DojisAreKindred ==
  ASSUME SettingsOK, NEW j \in Int
  PROVE  /\ \A p \in {"CDLDRAGONFLYDOJI", "CDLGRAVESTONEDOJI", "CDLLONGLEGGEDDOJI",
                      "CDLRICKSHAWMAN", "CDLTAKURI"} : Found(p, j) # 0 => Found("CDLDOJI", j) # 0
         /\ Found("CDLRICKSHAWMAN", j) # 0 => Found("CDLLONGLEGGEDDOJI", j) # 0
<1>1. Found("CDLDOJI", j) = 0 =>
        j < CDLDOJI_Plan.lookback \/ ~(RealBody(j) =< Average("BodyDoji", Prior("BodyDoji", j), j))
  <2>1. FoundAs("CDLDOJI", j, CDLDOJI_Plan.lookback,
           CDLDOJI(j, [bodyDoji |-> Prior("BodyDoji", j)]))
    BY DojisByName
  <2>2. QED
    BY <2>1 DEF FoundAs, CDLDOJI
<1>2. Found("CDLDRAGONFLYDOJI", j) # 0 =>
        /\ ~(j < CDLDRAGONFLYDOJI_Plan.lookback)
        /\ RealBody(j) =< Average("BodyDoji", Prior("BodyDoji", j), j)
  BY DojisByName DEF FoundAs, CDLDRAGONFLYDOJI
<1>3. Found("CDLGRAVESTONEDOJI", j) # 0 =>
        /\ ~(j < CDLGRAVESTONEDOJI_Plan.lookback)
        /\ RealBody(j) =< Average("BodyDoji", Prior("BodyDoji", j), j)
  BY DojisByName DEF FoundAs, CDLGRAVESTONEDOJI
<1>4. Found("CDLLONGLEGGEDDOJI", j) # 0 =>
        /\ ~(j < CDLLONGLEGGEDDOJI_Plan.lookback)
        /\ RealBody(j) =< Average("BodyDoji", Prior("BodyDoji", j), j)
  BY DojisByName DEF FoundAs, CDLLONGLEGGEDDOJI
<1>5. Found("CDLRICKSHAWMAN", j) # 0 =>
        /\ ~(j < CDLRICKSHAWMAN_Plan.lookback)
        /\ RealBody(j) =< Average("BodyDoji", Prior("BodyDoji", j), j)
        /\ LowerShadow(j) > Average("ShadowLong", Prior("ShadowLong", j), j)
  BY DojisByName DEF FoundAs, CDLRICKSHAWMAN
<1>6. Found("CDLTAKURI", j) # 0 =>
        /\ ~(j < CDLTAKURI_Plan.lookback)
        /\ RealBody(j) =< Average("BodyDoji", Prior("BodyDoji", j), j)
  BY DojisByName DEF FoundAs, CDLTAKURI
<1>7. Found("CDLLONGLEGGEDDOJI", j) = 0 =>
        \/ j < CDLLONGLEGGEDDOJI_Plan.lookback
        \/ ~(RealBody(j) =< Average("BodyDoji", Prior("BodyDoji", j), j))
        \/ ~(LowerShadow(j) > Average("ShadowLong", Prior("ShadowLong", j), j))
  <2>1. FoundAs("CDLLONGLEGGEDDOJI", j, CDLLONGLEGGEDDOJI_Plan.lookback,
           CDLLONGLEGGEDDOJI(j, [bodyDoji |-> Prior("BodyDoji", j),
                                 shadowLong |-> Prior("ShadowLong", j)]))
    BY DojisByName
  <2>2. QED
    BY <2>1 DEF FoundAs, CDLLONGLEGGEDDOJI
<1>8. \A p \in {"CDLDRAGONFLYDOJI", "CDLGRAVESTONEDOJI", "CDLLONGLEGGEDDOJI",
                "CDLRICKSHAWMAN", "CDLTAKURI"} : Found(p, j) # 0 => Found("CDLDOJI", j) # 0
  BY <1>1, <1>2, <1>3, <1>4, <1>5, <1>6, DojiLookbacks
<1>9. Found("CDLRICKSHAWMAN", j) # 0 => Found("CDLLONGLEGGEDDOJI", j) # 0
  BY <1>5, <1>7, DojiLookbacks
<1>10. QED
  BY <1>8, <1>9

LEMMA MarubozuLookbacks ==
  ASSUME SettingsOK
  PROVE  /\ CDLMARUBOZU_Plan.lookback \in Nat
         /\ CDLBELTHOLD_Plan.lookback = CDLMARUBOZU_Plan.lookback
         /\ CDLCLOSINGMARUBOZU_Plan.lookback = CDLMARUBOZU_Plan.lookback
         /\ CDLKICKING_Plan.lookback = CDLMARUBOZU_Plan.lookback + 1
         /\ CDLKICKINGBYLENGTH_Plan.lookback = CDLMARUBOZU_Plan.lookback + 1
         /\ CDLSEPARATINGLINES_Plan.lookback \in Nat
         /\ CDLSEPARATINGLINES_Plan.lookback >= CDLMARUBOZU_Plan.lookback + 1
<1> DEFINE L == AvgPeriod("BodyLong")
           V == AvgPeriod("ShadowVeryShort")
           E == AvgPeriod("Equal")
<1>1. L \in Nat /\ V \in Nat /\ E \in Nat
  BY PeriodsAreNats
<1>2. /\ CDLMARUBOZU_Plan.lookback = Max({L, V}) /\ CDLBELTHOLD_Plan.lookback = Max({L, V})
      /\ CDLCLOSINGMARUBOZU_Plan.lookback = Max({L, V})
      /\ CDLKICKING_Plan.lookback = Max({V, L}) + 1 /\ CDLKICKINGBYLENGTH_Plan.lookback = Max({V, L}) + 1
      /\ CDLSEPARATINGLINES_Plan.lookback = Max({V, L, E}) + 1
  BY DEF Plan, CDLMARUBOZU_Plan, CDLBELTHOLD_Plan, CDLCLOSINGMARUBOZU_Plan, CDLKICKING_Plan,
         CDLKICKINGBYLENGTH_Plan, CDLSEPARATINGLINES_Plan
<1> HIDE DEF L, V, E
<1>3. {L, V} = {V, L}
  OBVIOUS
<1>4. Max({L, V}) \in Nat /\ Max({V, L, E}) \in Nat /\ Max({V, L, E}) >= Max({L, V})
  BY <1>1, MaxOfTwo, MaxOfThree, LargestIsOne
<1>5. QED
  BY <1>2, <1>3, <1>4

\* A colour is 1 or -1.
LEMMA ColorIsSign == \A k : (White(k) /\ Color(k) = 1) \/ (Black(k) /\ Color(k) = -1)
  BY DEF Color, Black

\* A marubozu is a belt-hold that is also a closing marubozu; a kicking is two marubozus of opposite
\* colours, and the by-length variant finds the same bars.
LEMMA MarubozusAreKindred ==
  ASSUME SettingsOK, NEW j \in Int
  PROVE  /\ Found("CDLMARUBOZU", j)
              = IF Found("CDLCLOSINGMARUBOZU", j) # 0 THEN Found("CDLBELTHOLD", j) ELSE 0
         /\ Found("CDLKICKING", j) # 0 => /\ Found("CDLMARUBOZU", j) = Found("CDLKICKING", j)
                                          /\ Found("CDLMARUBOZU", j - 1) = -Found("CDLKICKING", j)
         /\ (Found("CDLKICKING", j) # 0) <=> (Found("CDLKICKINGBYLENGTH", j) # 0)
         /\ Found("CDLSEPARATINGLINES", j) # 0 =>
              Found("CDLSEPARATINGLINES", j) = Found("CDLBELTHOLD", j)
<1> DEFINE long(k)  == RealBody(k) > Average("BodyLong", Prior("BodyLong", k), k)
           flat(k)  == UpperShadow(k) < Average("ShadowVeryShort", Prior("ShadowVeryShort", k), k)
           stout(k) == LowerShadow(k) < Average("ShadowVeryShort", Prior("ShadowVeryShort", k), k)
           from == CDLMARUBOZU_Plan.lookback
<1>1. ASSUME NEW k \in Int
      PROVE  Found("CDLMARUBOZU", k)
               = IF k >= from /\ long(k) /\ flat(k) /\ stout(k) THEN Color(k) * 100 ELSE 0
  <2>1. FoundAs("CDLMARUBOZU", k, from,
           CDLMARUBOZU(k, [bodyLong |-> Prior("BodyLong", k),
                           shadowVeryShort |-> Prior("ShadowVeryShort", k)]))
    BY MarubozusByName
  <2>2. QED
    BY <2>1, MarubozuLookbacks DEF FoundAs, CDLMARUBOZU
<1>2. Found("CDLBELTHOLD", j)
        = IF j >= from /\ long(j) /\ ((White(j) /\ stout(j)) \/ (Black(j) /\ flat(j)))
          THEN Color(j) * 100 ELSE 0
  <2>1. FoundAs("CDLBELTHOLD", j, from,
           CDLBELTHOLD(j, [bodyLong |-> Prior("BodyLong", j),
                           shadowVeryShort |-> Prior("ShadowVeryShort", j)]))
    BY MarubozusByName, MarubozuLookbacks
  <2>2. QED
    BY <2>1, MarubozuLookbacks DEF FoundAs, CDLBELTHOLD
<1>3. Found("CDLCLOSINGMARUBOZU", j)
        = IF j >= from /\ long(j) /\ ((White(j) /\ flat(j)) \/ (Black(j) /\ stout(j)))
          THEN Color(j) * 100 ELSE 0
  <2>1. FoundAs("CDLCLOSINGMARUBOZU", j, from,
           CDLCLOSINGMARUBOZU(j, [bodyLong |-> Prior("BodyLong", j),
                                  shadowVeryShort |-> Prior("ShadowVeryShort", j)]))
    BY MarubozusByName, MarubozuLookbacks
  <2>2. QED
    BY <2>1, MarubozuLookbacks DEF FoundAs, CDLCLOSINGMARUBOZU
<1> DEFINE pair == /\ j >= from + 1 /\ Color(j - 1) = -Color(j)
                   /\ long(j - 1) /\ flat(j - 1) /\ stout(j - 1)
                   /\ long(j) /\ flat(j) /\ stout(j)
                   /\ \/ Black(j - 1) /\ CandleGapUp(j, j - 1)
                      \/ White(j - 1) /\ CandleGapDown(j, j - 1)
           longer == IF RealBody(j) > RealBody(j - 1) THEN j ELSE j - 1
<1>4. Found("CDLKICKING", j) = IF pair THEN Color(j) * 100 ELSE 0
  <2>1. FoundAs("CDLKICKING", j, from + 1,
           CDLKICKING(j, [shadowVeryShort1 |-> Prior("ShadowVeryShort", j - 1),
                          shadowVeryShort0 |-> Prior("ShadowVeryShort", j),
                          bodyLong1 |-> Prior("BodyLong", j - 1),
                          bodyLong0 |-> Prior("BodyLong", j)]))
    BY MarubozusByName, MarubozuLookbacks
  <2>2. QED
    BY <2>1, MarubozuLookbacks DEF FoundAs, CDLKICKING
<1>5. Found("CDLKICKINGBYLENGTH", j) = IF pair THEN Color(longer) * 100 ELSE 0
  <2>1. FoundAs("CDLKICKINGBYLENGTH", j, from + 1,
           CDLKICKINGBYLENGTH(j, [shadowVeryShort1 |-> Prior("ShadowVeryShort", j - 1),
                                  shadowVeryShort0 |-> Prior("ShadowVeryShort", j),
                                  bodyLong1 |-> Prior("BodyLong", j - 1),
                                  bodyLong0 |-> Prior("BodyLong", j)]))
    BY MarubozusByName, MarubozuLookbacks
  <2>2. QED
    BY <2>1, MarubozuLookbacks DEF FoundAs, CDLKICKINGBYLENGTH
<1>6. Found("CDLSEPARATINGLINES", j) # 0 =>
        /\ j >= from /\ long(j) /\ ((White(j) /\ stout(j)) \/ (Black(j) /\ flat(j)))
        /\ Found("CDLSEPARATINGLINES", j) = Color(j) * 100
  <2>1. FoundAs("CDLSEPARATINGLINES", j, CDLSEPARATINGLINES_Plan.lookback,
           CDLSEPARATINGLINES(j, [shadowVeryShort |-> Prior("ShadowVeryShort", j),
                                  bodyLong |-> Prior("BodyLong", j),
                                  equal |-> Prior("Equal", j - 1)]))
    BY MarubozusByName
  <2>2. QED
    BY <2>1, MarubozuLookbacks DEF FoundAs, CDLSEPARATINGLINES
<1>7. from \in Nat
  BY MarubozuLookbacks
<1> HIDE DEF long, flat, stout, from
<1>8. Found("CDLMARUBOZU", j)
        = IF Found("CDLCLOSINGMARUBOZU", j) # 0 THEN Found("CDLBELTHOLD", j) ELSE 0
  BY <1>1, <1>2, <1>3, ColorIsSign DEF Black
<1>9. Found("CDLKICKING", j) # 0 => /\ Found("CDLMARUBOZU", j) = Found("CDLKICKING", j)
                                    /\ Found("CDLMARUBOZU", j - 1) = -Found("CDLKICKING", j)
  <2> SUFFICES ASSUME pair
               PROVE  /\ Found("CDLMARUBOZU", j) = Color(j) * 100
                      /\ Found("CDLMARUBOZU", j - 1) = -(Color(j) * 100)
    BY <1>4
  <2>1. Found("CDLMARUBOZU", j) = Color(j) * 100
    BY <1>1, <1>7
  <2>2. Found("CDLMARUBOZU", j - 1) = Color(j - 1) * 100
    BY <1>1, <1>7
  <2>3. Color(j - 1) * 100 = -(Color(j) * 100)
    BY ColorIsSign
  <2>4. QED
    BY <2>1, <2>2, <2>3
<1>10. (Found("CDLKICKING", j) # 0) <=> (Found("CDLKICKINGBYLENGTH", j) # 0)
  <2> HIDE DEF pair, longer
  <2>1. Color(j) * 100 # 0 /\ Color(longer) * 100 # 0
    BY ColorIsSign
  <2>2. QED
    BY <1>4, <1>5, <2>1
<1>11. Found("CDLSEPARATINGLINES", j) # 0 =>
         Found("CDLSEPARATINGLINES", j) = Found("CDLBELTHOLD", j)
  BY <1>2, <1>6
<1>12. QED
  BY <1>8, <1>9, <1>10, <1>11

\* A bar of the series: its prices are numbers, its body lies between its low and its high.
LEMMA BarFacts ==
  ASSUME SeriesOK, NEW k \in DOMAIN bars
  PROVE  /\ Open(k) \in Int /\ High(k) \in Int /\ Low(k) \in Int /\ Close(k) \in Int
         /\ BodyTop(k) \in Int /\ BodyBottom(k) \in Int
         /\ Low(k) <= BodyBottom(k) /\ BodyBottom(k) <= BodyTop(k) /\ BodyTop(k) <= High(k)
         /\ White(k) => BodyTop(k) = Close(k) /\ BodyBottom(k) = Open(k)
         /\ Black(k) => BodyTop(k) = Open(k) /\ BodyBottom(k) = Close(k)
         /\ RealBody(k) \in Int
<1>1. bars[k] \in BarType /\ IsBar(bars[k])
  BY DEF SeriesOK
<1>2. QED
  BY <1>1 DEF BarType, IsBar, Open, High, Low, Close, BodyTop, BodyBottom, Larger, Smaller, White,
              Black, RealBody, Abs

\* The bars before a bar of the series are bars of it.
LEMMA BarsBefore ==
  ASSUME SeriesOK, NEW j \in DOMAIN bars
  PROVE  j \in Nat /\ \A k \in 0 .. j : k \in DOMAIN bars
  BY DEF SeriesOK

LEMMA ConfirmedLookbacks ==
  ASSUME SettingsOK
  PROVE  /\ CDLHARAMI_Plan.lookback \in Nat /\ CDLENGULFING_Plan.lookback \in Nat
         /\ CDLDOJISTAR_Plan.lookback \in Nat /\ CDLMORNINGDOJISTAR_Plan.lookback \in Nat
         /\ CDL3INSIDE_Plan.lookback = CDLHARAMI_Plan.lookback + 1
         /\ CDL3OUTSIDE_Plan.lookback = CDLENGULFING_Plan.lookback + 1
         /\ CDLMORNINGDOJISTAR_Plan.lookback >= CDLDOJISTAR_Plan.lookback + 1
         /\ CDLMORNINGDOJISTAR_Plan.lookback >= 2
         /\ CDLEVENINGDOJISTAR_Plan.lookback = CDLMORNINGDOJISTAR_Plan.lookback
         /\ CDLABANDONEDBABY_Plan.lookback = CDLMORNINGDOJISTAR_Plan.lookback
<1> DEFINE L == AvgPeriod("BodyLong")
           S == AvgPeriod("BodyShort")
           D == AvgPeriod("BodyDoji")
<1>1. L \in Nat /\ S \in Nat /\ D \in Nat
  BY PeriodsAreNats
<1>2. /\ CDLHARAMI_Plan.lookback = Max({S, L}) + 1 /\ CDL3INSIDE_Plan.lookback = Max({S, L}) + 2
      /\ CDLENGULFING_Plan.lookback = 2 /\ CDL3OUTSIDE_Plan.lookback = 3
      /\ CDLDOJISTAR_Plan.lookback = Max({D, L}) + 1
      /\ CDLMORNINGDOJISTAR_Plan.lookback = Max({D, L, S}) + 2
      /\ CDLEVENINGDOJISTAR_Plan.lookback = Max({D, L, S}) + 2
      /\ CDLABANDONEDBABY_Plan.lookback = Max({D, L, S}) + 2
  BY DEF Plan, CDLHARAMI_Plan, CDL3INSIDE_Plan, CDLENGULFING_Plan, CDL3OUTSIDE_Plan,
         CDLDOJISTAR_Plan, CDLMORNINGDOJISTAR_Plan, CDLEVENINGDOJISTAR_Plan, CDLABANDONEDBABY_Plan
<1> HIDE DEF L, S, D
<1>3. /\ Max({S, L}) \in Nat /\ Max({D, L}) \in Nat /\ Max({D, L, S}) \in Nat
      /\ Max({D, L, S}) >= Max({D, L})
  BY <1>1, MaxOfTwo, MaxOfThree, LargestIsOne
<1>4. QED
  BY <1>2, <1>3

\* What a third candle confirms was reported at the second, with the same sign.
LEMMA InsideIsConfirmedHarami ==
  ASSUME SettingsOK, NEW j \in Int, Found("CDL3INSIDE", j) # 0
  PROVE  Found("CDLHARAMI", j - 1) = Found("CDL3INSIDE", j)
<1> DEFINE lb == CDLHARAMI_Plan.lookback
<1>1. FoundAs("CDL3INSIDE", j, lb + 1,
         CDL3INSIDE(j, [bodyLong |-> Prior("BodyLong", j - 2),
                        bodyShort |-> Prior("BodyShort", j - 1)]))
  BY ConfirmedByName, ConfirmedLookbacks
<1>2. /\ ~(j < lb + 1) /\ RealBody(j - 2) > Average("BodyLong", Prior("BodyLong", j - 2), j - 2)
      /\ RealBody(j - 1) =< Average("BodyShort", Prior("BodyShort", j - 1), j - 1)
      /\ BodyTop(j - 1) < BodyTop(j - 2) /\ BodyBottom(j - 1) > BodyBottom(j - 2)
      /\ Found("CDL3INSIDE", j) = -Color(j - 2) * 100
  BY <1>1 DEF FoundAs, CDL3INSIDE
<1>3. (j - 1) - 1 = j - 2 /\ j - 1 \in Int
  OBVIOUS
<1>4. FoundAs("CDLHARAMI", j - 1, lb,
         CDLHARAMI(j - 1, [bodyLong |-> Prior("BodyLong", j - 2),
                           bodyShort |-> Prior("BodyShort", j - 1)]))
  <2>1. FoundAs("CDLHARAMI", j - 1, lb,
           CDLHARAMI(j - 1, [bodyLong |-> Prior("BodyLong", (j - 1) - 1),
                             bodyShort |-> Prior("BodyShort", j - 1)]))
    BY <1>3, ConfirmedByName
  <2>2. QED
    BY <1>3, <2>1
<1>5. ~(j - 1 < lb)
  BY <1>2, ConfirmedLookbacks
<1>6. CDLHARAMI(j - 1, [bodyLong |-> Prior("BodyLong", j - 2),
                        bodyShort |-> Prior("BodyShort", j - 1)]) = -Color(j - 2) * 100
  BY <1>2, <1>3 DEF CDLHARAMI
<1>7. QED
  BY <1>2, <1>4, <1>5, <1>6 DEF FoundAs

LEMMA OutsideIsConfirmedEngulfing ==
  ASSUME SettingsOK, NEW j \in Int, Found("CDL3OUTSIDE", j) # 0
  PROVE  Found("CDLENGULFING", j - 1) = Found("CDL3OUTSIDE", j)
<1>1. (j - 1) - 1 = j - 2 /\ j - 1 \in Int
  OBVIOUS
<1>2. FoundAs("CDL3OUTSIDE", j, CDLENGULFING_Plan.lookback + 1, CDL3OUTSIDE(j, Exact("CDL3OUTSIDE", j)))
  BY ConfirmedByName, ConfirmedLookbacks
<1>3. /\ ~(j < CDLENGULFING_Plan.lookback + 1)
      /\ Found("CDL3OUTSIDE", j) = Color(j - 1) * 100
      /\ \/ /\ White(j - 1) /\ Black(j - 2)
            /\ Close(j - 1) > Open(j - 2) /\ Open(j - 1) < Close(j - 2)
         \/ /\ Black(j - 1) /\ White(j - 2)
            /\ Open(j - 1) > Close(j - 2) /\ Close(j - 1) < Open(j - 2)
  BY <1>2 DEF FoundAs, CDL3OUTSIDE
<1>4. FoundAs("CDLENGULFING", j - 1, CDLENGULFING_Plan.lookback,
         CDLENGULFING(j - 1, Exact("CDLENGULFING", j - 1)))
  BY <1>1, ConfirmedByName
<1>5. ~(j - 1 < CDLENGULFING_Plan.lookback)
  BY <1>3, ConfirmedLookbacks
<1>6. CDLENGULFING(j - 1, Exact("CDLENGULFING", j - 1)) = Color(j - 1) * 100
  BY <1>1, <1>3 DEF CDLENGULFING
<1>7. QED
  BY <1>3, <1>4, <1>5, <1>6 DEF FoundAs

\* The doji stars: a long candle, then a doji whose body lies beyond it.
LEMMA StarsAreConfirmedDojiStars ==
  ASSUME SettingsOK, NEW j \in Int
  PROVE  /\ Found("CDLMORNINGDOJISTAR", j) # 0 =>
              Found("CDLDOJISTAR", j - 1) = Found("CDLMORNINGDOJISTAR", j)
         /\ Found("CDLEVENINGDOJISTAR", j) # 0 =>
              Found("CDLDOJISTAR", j - 1) = Found("CDLEVENINGDOJISTAR", j)
<1> DEFINE from == CDLMORNINGDOJISTAR_Plan.lookback
           T == [bodyLong |-> Prior("BodyLong", j - 2), bodyDoji |-> Prior("BodyDoji", j - 1),
                 bodyShort |-> Prior("BodyShort", j)]
           star == [bodyLong |-> Prior("BodyLong", j - 2), bodyDoji |-> Prior("BodyDoji", j - 1)]
           long == RealBody(j - 2) > Average("BodyLong", Prior("BodyLong", j - 2), j - 2)
           doji == RealBody(j - 1) =< Average("BodyDoji", Prior("BodyDoji", j - 1), j - 1)
<1>1. (j - 1) - 1 = j - 2 /\ j - 1 \in Int
  OBVIOUS
<1>2. Found("CDLMORNINGDOJISTAR", j) # 0 =>
        /\ ~(j < from) /\ long /\ doji /\ Black(j - 2) /\ RealBodyGapDown(j - 1, j - 2)
        /\ Found("CDLMORNINGDOJISTAR", j) = 100
  <2>1. FoundAs("CDLMORNINGDOJISTAR", j, from, CDLMORNINGDOJISTAR(j, T))
    BY ConfirmedByName
  <2>2. QED
    BY <2>1 DEF FoundAs, CDLMORNINGDOJISTAR
<1>3. Found("CDLEVENINGDOJISTAR", j) # 0 =>
        /\ ~(j < from) /\ long /\ doji /\ White(j - 2) /\ RealBodyGapUp(j - 1, j - 2)
        /\ Found("CDLEVENINGDOJISTAR", j) = -100
  <2>1. FoundAs("CDLEVENINGDOJISTAR", j, from, CDLEVENINGDOJISTAR(j, T))
    BY ConfirmedByName, ConfirmedLookbacks
  <2>2. QED
    BY <2>1 DEF FoundAs, CDLEVENINGDOJISTAR
<1>4. FoundAs("CDLDOJISTAR", j - 1, CDLDOJISTAR_Plan.lookback, CDLDOJISTAR(j - 1, star))
  <2>1. FoundAs("CDLDOJISTAR", j - 1, CDLDOJISTAR_Plan.lookback,
           CDLDOJISTAR(j - 1, [bodyLong |-> Prior("BodyLong", (j - 1) - 1),
                               bodyDoji |-> Prior("BodyDoji", j - 1)]))
    BY <1>1, ConfirmedByName
  <2>2. QED
    BY <1>1, <2>1
<1>5. /\ (long /\ doji /\ Black(j - 2) /\ RealBodyGapDown(j - 1, j - 2)) =>
           CDLDOJISTAR(j - 1, star) = -Color(j - 2) * 100
      /\ (long /\ doji /\ White(j - 2) /\ RealBodyGapUp(j - 1, j - 2)) =>
           CDLDOJISTAR(j - 1, star) = -Color(j - 2) * 100
  BY <1>1 DEF CDLDOJISTAR
<1> HIDE DEF T, star, long, doji
<1>6. ~(j < from) => ~(j - 1 < CDLDOJISTAR_Plan.lookback)
  BY ConfirmedLookbacks
<1>7. /\ Black(j - 2) => -Color(j - 2) * 100 = 100
      /\ White(j - 2) => -Color(j - 2) * 100 = -100
  BY ColorIsSign DEF Black
<1>8. QED
  BY <1>2, <1>3, <1>4, <1>5, <1>6, <1>7 DEF FoundAs

\* An abandoned baby is a doji star, of the side its last candle says, and not of the other.
LEMMA BabyIsDojiStar ==
  ASSUME SeriesOK, NEW j \in Int, j \in DOMAIN bars, Found("CDLABANDONEDBABY", j) # 0
  PROVE  Found("CDLABANDONEDBABY", j)
           = Found("CDLMORNINGDOJISTAR", j) + Found("CDLEVENINGDOJISTAR", j)
<1> DEFINE from == CDLMORNINGDOJISTAR_Plan.lookback
           T == [bodyLong |-> Prior("BodyLong", j - 2), bodyDoji |-> Prior("BodyDoji", j - 1),
                 bodyShort |-> Prior("BodyShort", j)]
<1>0. SettingsOK /\ j \in Nat
  BY SettingsTyped, BarsBefore
<1>1. /\ FoundAs("CDLABANDONEDBABY", j, from, CDLABANDONEDBABY(j, T))
      /\ FoundAs("CDLMORNINGDOJISTAR", j, from, CDLMORNINGDOJISTAR(j, T))
      /\ FoundAs("CDLEVENINGDOJISTAR", j, from, CDLEVENINGDOJISTAR(j, T))
  <2>1. FoundAs("CDLABANDONEDBABY", j, from, CDLABANDONEDBABY(j, T))
    BY <1>0, ConfirmedByName, ConfirmedLookbacks
  <2>2. FoundAs("CDLMORNINGDOJISTAR", j, from, CDLMORNINGDOJISTAR(j, T))
    BY <1>0, ConfirmedByName
  <2>3. FoundAs("CDLEVENINGDOJISTAR", j, from, CDLEVENINGDOJISTAR(j, T))
    BY <1>0, ConfirmedByName, ConfirmedLookbacks
  <2>4. QED
    BY <2>1, <2>2, <2>3
<1> HIDE DEF T
<1>2. ~(j < from) /\ CDLABANDONEDBABY(j, T) # 0
  BY <1>1 DEF FoundAs
<1>3. j - 1 \in DOMAIN bars /\ j - 2 \in DOMAIN bars
  BY <1>0, <1>2, BarsBefore, ConfirmedLookbacks
<1>4. /\ CandleGapUp(j - 1, j - 2) => RealBodyGapUp(j - 1, j - 2)
      /\ CandleGapDown(j - 1, j - 2) => RealBodyGapDown(j - 1, j - 2)
  BY <1>3, BarFacts DEF CandleGapUp, CandleGapDown, RealBodyGapUp, RealBodyGapDown
<1>5. CASE White(j - 2)
  <2>1. ~Black(j - 2)
    BY <1>5 DEF Black
  <2>2. /\ RealBody(j - 2) > Average("BodyLong", T.bodyLong, j - 2)
        /\ RealBody(j - 1) =< Average("BodyDoji", T.bodyDoji, j - 1)
        /\ RealBody(j) > Average("BodyShort", T.bodyShort, j)
        /\ Black(j) /\ Close(j) < Close(j - 2) - Penetration(RealBody(j - 2))
        /\ CandleGapUp(j - 1, j - 2) /\ CDLABANDONEDBABY(j, T) = Color(j) * 100
    BY <1>2, <2>1 DEF CDLABANDONEDBABY
  <2>3. CDLEVENINGDOJISTAR(j, T) = -100
    BY <1>4, <1>5, <2>2 DEF CDLEVENINGDOJISTAR
  <2>4. CDLMORNINGDOJISTAR(j, T) = 0
    BY <2>1 DEF CDLMORNINGDOJISTAR
  <2>5. CDLABANDONEDBABY(j, T) = -100
    BY <2>2, ColorIsSign DEF Black
  <2>6. QED
    BY <1>1, <1>2, <2>3, <2>4, <2>5 DEF FoundAs
<1>6. CASE Black(j - 2)
  <2>1. ~White(j - 2)
    BY <1>6 DEF Black
  <2>2. /\ RealBody(j - 2) > Average("BodyLong", T.bodyLong, j - 2)
        /\ RealBody(j - 1) =< Average("BodyDoji", T.bodyDoji, j - 1)
        /\ RealBody(j) > Average("BodyShort", T.bodyShort, j)
        /\ White(j) /\ Close(j) > Close(j - 2) + Penetration(RealBody(j - 2))
        /\ CandleGapDown(j - 1, j - 2) /\ CDLABANDONEDBABY(j, T) = Color(j) * 100
    BY <1>2, <2>1 DEF CDLABANDONEDBABY
  <2>3. CDLMORNINGDOJISTAR(j, T) = 100
    BY <1>4, <1>6, <2>2 DEF CDLMORNINGDOJISTAR
  <2>4. CDLEVENINGDOJISTAR(j, T) = 0
    BY <2>1 DEF CDLEVENINGDOJISTAR
  <2>5. CDLABANDONEDBABY(j, T) = 100
    BY <2>2, ColorIsSign DEF Black
  <2>6. QED
    BY <1>1, <1>2, <2>3, <2>4, <2>5 DEF FoundAs
<1>7. QED
  BY <1>5, <1>6 DEF Black

\* Where the loop is there is a bar.
LEMMA LoopBar ==
  ASSUME IInv, AtBar
  PROVE  SeriesOK /\ SettingsOK /\ i \in DOMAIN bars /\ i \in Nat
<1>1. SeriesOK /\ LoopInRange
  BY DEF IInv, LoopInv, AtBar
<1>2. i \in Nat /\ endIdx \in DOMAIN bars /\ i <= endIdx
  BY <1>1 DEF LoopInRange, AtBar
<1>3. i \in DOMAIN bars
  BY <1>1, <1>2, BarsBefore
<1>4. QED
  BY <1>1, <1>2, <1>3, SettingsTyped

\* A pattern that is a special case of another is found only with it, whatever the functions are
\* called for.
THEOREM PatternsAreKindred == Spec => []Kinships
<1>1. IInv => Kinships
  <2> SUFFICES ASSUME IInv, AtBar PROVE Kindred(FoundNow)
    BY DEF Kinships
  <2>1. SeriesOK /\ SettingsOK /\ i \in DOMAIN bars /\ i \in Nat
    BY LoopBar
  <2>2. \A p \in AllPatterns : /\ FoundNow[p][i] = Found(p, i)
                               /\ FoundNow[p][i-1] = Found(p, i - 1)
    BY DEF FoundNow
  <2>3. DojiFamily(FoundNow)
    <3>1. \A p \in {"CDLDOJI", "CDLDRAGONFLYDOJI", "CDLGRAVESTONEDOJI", "CDLLONGLEGGEDDOJI",
                    "CDLRICKSHAWMAN", "CDLTAKURI"} : FoundNow[p][i] = Found(p, i)
      BY <2>2 DEF AllPatterns
    <3> HIDE DEF FoundNow
    <3>2. QED
      BY <2>1, <3>1, DojisAreKindred DEF DojiFamily
  <2>4. MarubozuFamily(FoundNow)
    <3>1. /\ \A p \in {"CDLBELTHOLD", "CDLCLOSINGMARUBOZU", "CDLKICKING", "CDLKICKINGBYLENGTH",
                       "CDLMARUBOZU", "CDLSEPARATINGLINES"} : FoundNow[p][i] = Found(p, i)
          /\ FoundNow["CDLMARUBOZU"][i-1] = Found("CDLMARUBOZU", i - 1)
      BY <2>2 DEF AllPatterns
    <3>2. QED
      BY <2>1, <3>1, MarubozusAreKindred DEF MarubozuFamily
  <2>5. ConfirmedPatterns(FoundNow)
    <3>1. /\ \A p \in {"CDL3INSIDE", "CDL3OUTSIDE", "CDLMORNINGDOJISTAR", "CDLEVENINGDOJISTAR",
                       "CDLABANDONEDBABY"} : FoundNow[p][i] = Found(p, i)
          /\ \A p \in {"CDLHARAMI", "CDLENGULFING", "CDLDOJISTAR"} :
                FoundNow[p][i-1] = Found(p, i - 1)
      BY <2>2 DEF AllPatterns
    <3>2. QED
      BY <2>1, <3>1, InsideIsConfirmedHarami, OutsideIsConfirmedEngulfing,
         StarsAreConfirmedDojiStars, BabyIsDojiStar DEF ConfirmedPatterns
  <2>6. QED
    BY <2>3, <2>4, <2>5 DEF Kindred
<1>2. QED
  BY <1>1, Invariance, PTL

-----------------------------------------------------------------------------
(* Rivals. *)

\* The range of a bar of the series is an integer, and so is an average over integers.
LEMMA AverageIsInt ==
  ASSUME SeriesOK, NEW set \in CandleSettingTypes, NEW sum \in Int, NEW k \in DOMAIN bars
  PROVE  Average(set, sum, k) \in Int
<1>1. CandleRange(set, k) \in Int
  BY SettingsTyped, RangeIsInt DEF SeriesOK
<1>2. AvgPeriod(set) \in Nat
  BY SettingsTyped, PeriodIsNat
<1>3. settings[set].factor[1] \in Int /\ settings[set].factor[2] \in Nat \ {0}
  BY CandleAssumption DEF SeriesOK, CandleSettings
<1> DEFINE base == IF AvgPeriod(set) # 0 THEN sum \div AvgPeriod(set) ELSE CandleRange(set, k)
           halves == IF settings[set].rangeType = "Shadows" THEN 2 ELSE 1
           num == settings[set].factor[1]
           den == settings[set].factor[2]
<1>4. base \in Int /\ halves \in 1 .. 2
  BY <1>1, <1>2
<1>5. Average(set, sum, k) = (num * base) \div (den * halves)
  BY DEF Average
<1>6. num \in Int /\ den \in Nat /\ den > 0
  BY <1>3
<1> HIDE DEF base, halves, num, den
<1>7. num * base \in Int
  BY <1>4, <1>6
<1>8. den * halves \in Int /\ den * halves > 0
  <2>1. halves = 1 \/ halves = 2
    BY <1>4
  <2>2. QED
    BY <1>6, <2>1
<1>9. QED
  BY <1>5, <1>7, <1>8

\* The totals of a function without early iterations are integers from its lookback on.
LEMMA SumsAreInts ==
  ASSUME SeriesOK, NEW p \in AllPatterns, NEW j \in Nat, j \in DOMAIN bars,
         PlanOf(p).early = 0, PlanOf(p).lookback <= j
  PROVE  \A t \in DOMAIN PlanOf(p).totals : Exact(p, j)[t] \in Int
<1>1. \A k \in 0 .. (j - 1) : k \in DOMAIN bars
  BY BarsBefore
<1>2. PlanOf(p).lookback \in Nat
  BY SettingsTyped, FunctionsAreWellPlanned DEF WellPlanned
<1>3. PlanOf(p).lookback - PlanOf(p).early <= j
  BY <1>2
<1>4. QED
  BY <1>1, <1>3, ExactIsInt

LEMMA RivalLookbacks ==
  ASSUME SettingsOK
  PROVE  /\ CDLPIERCING_Plan.lookback \in Nat /\ CDLTHRUSTING_Plan.lookback \in Nat
         /\ CDLINNECK_Plan.lookback \in Nat
         /\ CDLPIERCING_Plan.lookback >= 1 /\ CDLTHRUSTING_Plan.lookback >= 1
         /\ CDLINNECK_Plan.lookback = CDLTHRUSTING_Plan.lookback
         /\ CDL2CROWS_Plan.lookback \in Nat /\ CDL2CROWS_Plan.lookback >= 2
         /\ CDLHARAMI_Plan.lookback \in Nat /\ CDLHARAMI_Plan.lookback >= 1
         /\ CDLTASUKIGAP_Plan.lookback \in Nat /\ CDLTASUKIGAP_Plan.lookback >= 2
         /\ CDLSHOOTINGSTAR_Plan.lookback \in Nat /\ CDLSHOOTINGSTAR_Plan.lookback >= 1
<1> DEFINE L == AvgPeriod("BodyLong")
           S == AvgPeriod("BodyShort")
           E == AvgPeriod("Equal")
           N == AvgPeriod("Near")
           W == AvgPeriod("ShadowLong")
           V == AvgPeriod("ShadowVeryShort")
<1>1. L \in Nat /\ S \in Nat /\ E \in Nat /\ N \in Nat /\ W \in Nat /\ V \in Nat
  BY PeriodsAreNats
<1>2. /\ CDLPIERCING_Plan.lookback = L + 1 /\ CDLTHRUSTING_Plan.lookback = Max({E, L}) + 1
      /\ CDLINNECK_Plan.lookback = Max({E, L}) + 1 /\ CDL2CROWS_Plan.lookback = L + 2
      /\ CDLHARAMI_Plan.lookback = Max({S, L}) + 1 /\ CDLTASUKIGAP_Plan.lookback = N + 2
      /\ CDLSHOOTINGSTAR_Plan.lookback = Max({S, W, V}) + 1
  BY DEF Plan, CDLPIERCING_Plan, CDLTHRUSTING_Plan, CDLINNECK_Plan, CDL2CROWS_Plan, CDLHARAMI_Plan,
         CDLTASUKIGAP_Plan, CDLSHOOTINGSTAR_Plan
<1> HIDE DEF L, S, E, N, W, V
<1>3. Max({E, L}) \in Nat /\ Max({S, L}) \in Nat /\ Max({S, W, V}) \in Nat
  BY <1>1, MaxOfTwo, MaxOfThree
<1>4. QED
  BY <1>1, <1>2, <1>3

\* A second candle that closes above the middle of the first one's body does not close below it.
LEMMA PiercingOrThrusting ==
  ASSUME SeriesOK, NEW j \in Int, j \in DOMAIN bars, Found("CDLPIERCING", j) # 0
  PROVE  Found("CDLTHRUSTING", j) = 0
<1>0. SettingsOK /\ j \in Nat
  BY SettingsTyped, BarsBefore
<1>1. FoundAs("CDLPIERCING", j, CDLPIERCING_Plan.lookback,
         CDLPIERCING(j, [bodyLong1 |-> Prior("BodyLong", j - 1), bodyLong0 |-> Prior("BodyLong", j)]))
  BY RivalsByName
<1>2. ~(j < CDLPIERCING_Plan.lookback) /\ Close(j) > Close(j - 1) + Half(RealBody(j - 1))
  BY <1>1 DEF FoundAs, CDLPIERCING
<1>3. j - 1 \in DOMAIN bars
  BY <1>0, <1>2, RivalLookbacks, BarsBefore
<1>4. Close(j) \in Int /\ Close(j - 1) + Half(RealBody(j - 1)) \in Int
  BY <1>3, BarFacts DEF Half
<1>5. ~(Close(j) =< Close(j - 1) + Half(RealBody(j - 1)))
  BY <1>2, <1>4
<1>6. FoundAs("CDLTHRUSTING", j, CDLTHRUSTING_Plan.lookback,
         CDLTHRUSTING(j, [equal |-> Prior("Equal", j - 1), bodyLong |-> Prior("BodyLong", j - 1)]))
  BY RivalsByName
<1>7. QED
  BY <1>5, <1>6 DEF FoundAs, CDLTHRUSTING

\* A close at the first candle's close is not a close above it.
LEMMA InNeckOrThrusting ==
  ASSUME SeriesOK, NEW j \in Int, j \in DOMAIN bars, Found("CDLINNECK", j) # 0
  PROVE  Found("CDLTHRUSTING", j) = 0
<1> DEFINE T == [equal |-> Prior("Equal", j - 1), bodyLong |-> Prior("BodyLong", j - 1)]
           near == Close(j - 1) + Average("Equal", T.equal, j - 1)
<1>0. SettingsOK /\ j \in Nat
  BY SettingsTyped, BarsBefore
<1>1. /\ FoundAs("CDLINNECK", j, CDLINNECK_Plan.lookback, CDLINNECK(j, T))
      /\ FoundAs("CDLTHRUSTING", j, CDLTHRUSTING_Plan.lookback, CDLTHRUSTING(j, T))
  BY RivalsByName
<1>2. T.equal \in Int
  <2>1. /\ PlanOf("CDLINNECK") = CDLINNECK_Plan /\ "CDLINNECK" \in AllPatterns
        /\ Exact("CDLINNECK", j).equal = SumAt(CDLINNECK_Plan.totals.equal, j)
        /\ CDLINNECK_Plan.totals.equal = Shifted("Equal", 1) /\ CDLINNECK_Plan.early = 0
        /\ "equal" \in DOMAIN CDLINNECK_Plan.totals
    BY PlansByName DEF AllPatterns, Exact, SumsAt, CDLINNECK_Plan, Plan
  <2>2. CDLINNECK_Plan.lookback <= j
    <3> HIDE DEF T
    <3>1. ~(j < CDLINNECK_Plan.lookback)
      BY <1>1 DEF FoundAs
    <3>2. QED
      BY <1>0, <3>1, RivalLookbacks
  <2>3. Exact("CDLINNECK", j).equal \in Int
    BY <1>0, <2>1, <2>2, SumsAreInts
  <2>4. SumAt(Shifted("Equal", 1), j) = Prior("Equal", j - 1)
    BY PriorShifted
  <2>5. QED
    BY <2>1, <2>3, <2>4
<1> HIDE DEF T
<1>3. ~(j < CDLINNECK_Plan.lookback) /\ Close(j) =< near
  BY <1>1 DEF FoundAs, CDLINNECK
<1>4. j - 1 \in DOMAIN bars
  BY <1>0, <1>3, RivalLookbacks, BarsBefore
<1>5. Close(j) \in Int /\ near \in Int
  BY <1>2, <1>4, BarFacts, AverageIsInt DEF CandleSettingTypes
<1>6. ~(Close(j) > near)
  BY <1>3, <1>5
<1>7. QED
  BY <1>1, <1>6 DEF FoundAs, CDLTHRUSTING

\* The third candle of two crows opens below the second's open, that of upside gap two crows above.
LEMMA TwoCrowsOrUpsideGap ==
  ASSUME SeriesOK, NEW j \in Int, j \in DOMAIN bars, Found("CDL2CROWS", j) # 0
  PROVE  Found("CDLUPSIDEGAP2CROWS", j) = 0
<1>0. SettingsOK /\ j \in Nat
  BY SettingsTyped, BarsBefore
<1>1. FoundAs("CDL2CROWS", j, CDL2CROWS_Plan.lookback,
         CDL2CROWS(j, [bodyLong |-> Prior("BodyLong", j - 2)]))
  BY RivalsByName
<1>2. ~(j < CDL2CROWS_Plan.lookback) /\ Open(j) < Open(j - 1)
  BY <1>1 DEF FoundAs, CDL2CROWS
<1>3. j - 1 \in DOMAIN bars
  BY <1>0, <1>2, RivalLookbacks, BarsBefore
<1>4. ~(Open(j) > Open(j - 1))
  BY <1>2, <1>3, BarFacts
<1>5. FoundAs("CDLUPSIDEGAP2CROWS", j, CDLUPSIDEGAP2CROWS_Plan.lookback,
         CDLUPSIDEGAP2CROWS(j, [bodyLong |-> Prior("BodyLong", j - 2),
                                bodyShort |-> Prior("BodyShort", j - 1)]))
  BY RivalsByName
<1>6. QED
  BY <1>4, <1>5 DEF FoundAs, CDLUPSIDEGAP2CROWS

\* A body inside the one before does not engulf it.
LEMMA HaramiOrEngulfing ==
  ASSUME SeriesOK, NEW j \in Int, j \in DOMAIN bars, Found("CDLHARAMI", j) # 0
  PROVE  Found("CDLENGULFING", j) = 0
<1>0. SettingsOK /\ j \in Nat
  BY SettingsTyped, BarsBefore
<1>1. FoundAs("CDLHARAMI", j, CDLHARAMI_Plan.lookback,
         CDLHARAMI(j, [bodyLong |-> Prior("BodyLong", j - 1), bodyShort |-> Prior("BodyShort", j)]))
  BY ConfirmedByName
<1>2. /\ ~(j < CDLHARAMI_Plan.lookback)
      /\ BodyTop(j) < BodyTop(j - 1) /\ BodyBottom(j) > BodyBottom(j - 1)
  BY <1>1 DEF FoundAs, CDLHARAMI
<1>3. j - 1 \in DOMAIN bars
  BY <1>0, <1>2, RivalLookbacks, BarsBefore
<1>4. /\ ~(/\ White(j) /\ Black(j - 1) /\ Close(j) > Open(j - 1) /\ Open(j) < Close(j - 1))
      /\ ~(/\ Black(j) /\ White(j - 1) /\ Open(j) > Close(j - 1) /\ Close(j) < Open(j - 1))
  BY <1>2, <1>3, BarFacts
<1>5. FoundAs("CDLENGULFING", j, CDLENGULFING_Plan.lookback,
         CDLENGULFING(j, Exact("CDLENGULFING", j)))
  BY ConfirmedByName
<1>6. QED
  BY <1>4, <1>5 DEF FoundAs, CDLENGULFING

\* The third candle leaves the gap open or closes it.
LEMMA TasukiOrGapThree ==
  ASSUME SeriesOK, NEW j \in Int, j \in DOMAIN bars, Found("CDLTASUKIGAP", j) # 0
  PROVE  Found("CDLXSIDEGAP3METHODS", j) = 0
<1>0. SettingsOK /\ j \in Nat
  BY SettingsTyped, BarsBefore
<1>1. FoundAs("CDLTASUKIGAP", j, CDLTASUKIGAP_Plan.lookback,
         CDLTASUKIGAP(j, [near |-> Prior("Near", j - 1)]))
  BY RivalsByName
<1>2. /\ ~(j < CDLTASUKIGAP_Plan.lookback)
      /\ \/ RealBodyGapUp(j - 1, j - 2) /\ Close(j) > BodyTop(j - 2)
         \/ RealBodyGapDown(j - 1, j - 2) /\ Close(j) < BodyBottom(j - 2)
  BY <1>1 DEF FoundAs, CDLTASUKIGAP
<1>3. j - 1 \in DOMAIN bars /\ j - 2 \in DOMAIN bars
  BY <1>0, <1>2, RivalLookbacks, BarsBefore
<1>4. ~(Close(j) < BodyTop(j - 2) /\ Close(j) > BodyBottom(j - 2))
  <2>1. /\ Close(j) \in Int /\ BodyTop(j - 2) \in Int /\ BodyBottom(j - 2) \in Int
        /\ BodyBottom(j - 2) <= BodyTop(j - 2)
    BY <1>3, BarFacts
  <2>2. QED
    BY <1>2, <2>1
<1>5. FoundAs("CDLXSIDEGAP3METHODS", j, CDLXSIDEGAP3METHODS_Plan.lookback,
         CDLXSIDEGAP3METHODS(j, Exact("CDLXSIDEGAP3METHODS", j)))
  BY RivalsByName
<1>6. QED
  BY <1>4, <1>5 DEF FoundAs, CDLXSIDEGAP3METHODS

\* A body does not lie both above and below the one before.
LEMMA StarOrInvertedHammer ==
  ASSUME SeriesOK, NEW j \in Int, j \in DOMAIN bars, Found("CDLSHOOTINGSTAR", j) # 0
  PROVE  Found("CDLINVERTEDHAMMER", j) = 0
<1> DEFINE T == [body |-> Prior("BodyShort", j), shadowLong |-> Prior("ShadowLong", j),
                 shadowVeryShort |-> Prior("ShadowVeryShort", j)]
<1>0. SettingsOK /\ j \in Nat
  BY SettingsTyped, BarsBefore
<1>1. /\ FoundAs("CDLSHOOTINGSTAR", j, CDLSHOOTINGSTAR_Plan.lookback, CDLSHOOTINGSTAR(j, T))
      /\ FoundAs("CDLINVERTEDHAMMER", j, CDLINVERTEDHAMMER_Plan.lookback, CDLINVERTEDHAMMER(j, T))
  BY RivalsByName
<1> HIDE DEF T
<1>2. ~(j < CDLSHOOTINGSTAR_Plan.lookback) /\ RealBodyGapUp(j, j - 1)
  BY <1>1 DEF FoundAs, CDLSHOOTINGSTAR
<1>3. j - 1 \in DOMAIN bars
  BY <1>0, <1>2, RivalLookbacks, BarsBefore
<1>4. ~RealBodyGapDown(j, j - 1)
  <2>1. /\ BodyTop(j) \in Int /\ BodyBottom(j) \in Int /\ BodyBottom(j) <= BodyTop(j)
        /\ BodyTop(j - 1) \in Int /\ BodyBottom(j - 1) \in Int /\ BodyBottom(j - 1) <= BodyTop(j - 1)
    BY <1>3, BarFacts
  <2>2. QED
    BY <1>2, <2>1 DEF RealBodyGapUp, RealBodyGapDown
<1>5. QED
  BY <1>1, <1>4 DEF FoundAs, CDLINVERTEDHAMMER

\* Patterns that share their first candles and are told apart by the last are never found together.
THEOREM RivalsAreToldApart == Spec => []ToldApart
<1>1. IInv => ToldApart
  <2> SUFFICES ASSUME IInv, AtBar,
                      NEW pair \in {{"CDLPIERCING", "CDLTHRUSTING"}, {"CDLINNECK", "CDLTHRUSTING"},
                                    {"CDL2CROWS", "CDLUPSIDEGAP2CROWS"},
                                    {"CDLHARAMI", "CDLENGULFING"},
                                    {"CDLTASUKIGAP", "CDLXSIDEGAP3METHODS"},
                                    {"CDLINVERTEDHAMMER", "CDLSHOOTINGSTAR"}}
               PROVE  \E p \in pair : Found(p, i) = 0
    BY DEF ToldApart
  <2>1. SeriesOK /\ i \in DOMAIN bars /\ i \in Int
    BY LoopBar
  <2>2. QED
    BY <2>1, PiercingOrThrusting, InNeckOrThrusting, TwoCrowsOrUpsideGap, HaramiOrEngulfing,
       TasukiOrGapThree, StarOrInvertedHammer
<1>2. QED
  BY <1>1, Invariance, PTL

-----------------------------------------------------------------------------
(* The chart upside down. *)

\* Upside down, a bar that does not close where it opens changes its colour and turns its body and
\* its shadows round; the averages stay what they are.
Turned(k) ==
  /\ Open(k) \in Int /\ Close(k) \in Int /\ High(k) \in Int /\ Low(k) \in Int
  /\ BodyTop(k) \in Int /\ BodyBottom(k) \in Int /\ BodyBottom(k) <= BodyTop(k)
  /\ RealBody(k) \in Int
  /\ (White(k) /\ ~Black(k) /\ Color(k) = 1) \/ (Black(k) /\ ~White(k) /\ Color(k) = -1)
  /\ Mirror!Open(k) = -Open(k) /\ Mirror!Close(k) = -Close(k)
  /\ Mirror!High(k) = -Low(k) /\ Mirror!Low(k) = -High(k)
  /\ (Mirror!White(k) <=> Black(k)) /\ (Mirror!Black(k) <=> White(k))
  /\ Mirror!Color(k) = -Color(k)
  /\ Mirror!BodyTop(k) = -BodyBottom(k) /\ Mirror!BodyBottom(k) = -BodyTop(k)
  /\ Mirror!RealBody(k) = RealBody(k)
  /\ Mirror!UpperShadow(k) = LowerShadow(k) /\ Mirror!LowerShadow(k) = UpperShadow(k)
  /\ \A set \in CandleSettingTypes : \A sum : Mirror!Average(set, sum, k) = Average(set, sum, k)

LEMMA BarsAreTurned ==
  ASSUME SeriesOK, NEW k \in DOMAIN bars, Open(k) # Close(k)
  PROVE  Turned(k)
<1>1. /\ Open(k) \in Int /\ Close(k) \in Int /\ High(k) \in Int /\ Low(k) \in Int
      /\ BodyTop(k) \in Int /\ BodyBottom(k) \in Int /\ BodyBottom(k) <= BodyTop(k)
      /\ RealBody(k) \in Int
  BY BarFacts
<1>2. /\ Mirror!Open(k) = -Open(k) /\ Mirror!Close(k) = -Close(k)
      /\ Mirror!High(k) = -Low(k) /\ Mirror!Low(k) = -High(k)
  BY DEF Mirror!Open, Mirror!High, Mirror!Low, Mirror!Close, Open, High, Low, Close
<1>3. (White(k) /\ ~Black(k) /\ Color(k) = 1) \/ (Black(k) /\ ~White(k) /\ Color(k) = -1)
  BY DEF White, Black, Color
<1>4. /\ (Mirror!White(k) <=> Black(k)) /\ (Mirror!Black(k) <=> White(k))
      /\ Mirror!Color(k) = -Color(k)
  BY <1>1, <1>2 DEF Mirror!White, Mirror!Black, Mirror!Color, White, Black, Color
<1>5. /\ Mirror!BodyTop(k) = -BodyBottom(k) /\ Mirror!BodyBottom(k) = -BodyTop(k)
      /\ Mirror!RealBody(k) = RealBody(k)
  BY <1>1, <1>2 DEF Mirror!BodyTop, Mirror!BodyBottom, Mirror!RealBody, Mirror!Larger,
                    Mirror!Smaller, Mirror!Abs, BodyTop, BodyBottom, RealBody, Larger, Smaller, Abs
<1>6. /\ Mirror!UpperShadow(k) = LowerShadow(k) /\ Mirror!LowerShadow(k) = UpperShadow(k)
      /\ Mirror!HighLowRange(k) = HighLowRange(k)
      /\ UpperShadow(k) \in Int /\ LowerShadow(k) \in Int
  BY <1>1, <1>2, <1>5 DEF Mirror!UpperShadow, Mirror!LowerShadow, Mirror!HighLowRange, UpperShadow,
                          LowerShadow, HighLowRange
<1>7. ASSUME NEW set \in CandleSettingTypes, NEW sum
      PROVE  Mirror!Average(set, sum, k) = Average(set, sum, k)
  <2>1. settings[set].rangeType \in {"RealBody", "HighLow", "Shadows"}
    BY DEF SeriesOK, CandleSettings, RangeTypes
  <2>2. Mirror!CandleRange(set, k) = CandleRange(set, k)
    BY <1>5, <1>6, <2>1 DEF Mirror!CandleRange, CandleRange
  <2>3. QED
    BY <2>2 DEF Mirror!Average, Average, Mirror!AvgPeriod, AvgPeriod
<1>8. QED
  BY <1>1, <1>2, <1>3, <1>4, <1>5, <1>6, <1>7 DEF Turned

\* A gap up becomes a gap down, and what is measured in bodies does not change.
LEMMA GapsAreTurned ==
  ASSUME NEW k, NEW m, Turned(k), Turned(m)
  PROVE  /\ Mirror!RealBodyGapUp(k, m) <=> RealBodyGapDown(k, m)
         /\ Mirror!RealBodyGapDown(k, m) <=> RealBodyGapUp(k, m)
         /\ Mirror!CandleGapUp(k, m) <=> CandleGapDown(k, m)
         /\ Mirror!CandleGapDown(k, m) <=> CandleGapUp(k, m)
         /\ ~(RealBodyGapUp(k, m) /\ RealBodyGapDown(k, m))
  BY DEF Turned, Mirror!RealBodyGapUp, Mirror!RealBodyGapDown, Mirror!CandleGapUp,
         Mirror!CandleGapDown, RealBodyGapUp, RealBodyGapDown, CandleGapUp, CandleGapDown

LEMMA MeasuresStay == \A x : Mirror!Penetration(x) = Penetration(x) /\ Mirror!Abs(x) = Abs(x)
  BY DEF Mirror!Penetration, Penetration, Mirror!Abs, Abs

\* What a function without memory writes on the chart turned upside down.
WritesTurned(p, j, T, v) == \A memory : Mirror!Output(p, j, T, memory).value = v

LEMMA TurnedOutputsByName ==
  ASSUME NEW j, NEW T
  PROVE  /\ WritesTurned("CDL3INSIDE", j, T, Mirror!CDL3INSIDE(j, T))
         /\ WritesTurned("CDL3LINESTRIKE", j, T, Mirror!CDL3LINESTRIKE(j, T))
         /\ WritesTurned("CDL3OUTSIDE", j, T, Mirror!CDL3OUTSIDE(j, T))
         /\ WritesTurned("CDLABANDONEDBABY", j, T, Mirror!CDLABANDONEDBABY(j, T))
         /\ WritesTurned("CDLBELTHOLD", j, T, Mirror!CDLBELTHOLD(j, T))
         /\ WritesTurned("CDLBREAKAWAY", j, T, Mirror!CDLBREAKAWAY(j, T))
         /\ WritesTurned("CDLCLOSINGMARUBOZU", j, T, Mirror!CDLCLOSINGMARUBOZU(j, T))
         /\ WritesTurned("CDLCOUNTERATTACK", j, T, Mirror!CDLCOUNTERATTACK(j, T))
         /\ WritesTurned("CDLDOJISTAR", j, T, Mirror!CDLDOJISTAR(j, T))
         /\ WritesTurned("CDLENGULFING", j, T, Mirror!CDLENGULFING(j, T))
         /\ WritesTurned("CDLHARAMI", j, T, Mirror!CDLHARAMI(j, T))
         /\ WritesTurned("CDLHARAMICROSS", j, T, Mirror!CDLHARAMICROSS(j, T))
         /\ WritesTurned("CDLHIGHWAVE", j, T, Mirror!CDLHIGHWAVE(j, T))
         /\ WritesTurned("CDLKICKING", j, T, Mirror!CDLKICKING(j, T))
         /\ WritesTurned("CDLKICKINGBYLENGTH", j, T, Mirror!CDLKICKINGBYLENGTH(j, T))
         /\ WritesTurned("CDLLONGLINE", j, T, Mirror!CDLLONGLINE(j, T))
         /\ WritesTurned("CDLMARUBOZU", j, T, Mirror!CDLMARUBOZU(j, T))
         /\ WritesTurned("CDLRISEFALL3METHODS", j, T, Mirror!CDLRISEFALL3METHODS(j, T))
         /\ WritesTurned("CDLSEPARATINGLINES", j, T, Mirror!CDLSEPARATINGLINES(j, T))
         /\ WritesTurned("CDLSHORTLINE", j, T, Mirror!CDLSHORTLINE(j, T))
         /\ WritesTurned("CDLSPINNINGTOP", j, T, Mirror!CDLSPINNINGTOP(j, T))
         /\ WritesTurned("CDLTASUKIGAP", j, T, Mirror!CDLTASUKIGAP(j, T))
         /\ WritesTurned("CDLTRISTAR", j, T, Mirror!CDLTRISTAR(j, T))
         /\ WritesTurned("CDLXSIDEGAP3METHODS", j, T, Mirror!CDLXSIDEGAP3METHODS(j, T))
         /\ WritesTurned("CDLEVENINGSTAR", j, T, Mirror!CDLEVENINGSTAR(j, T))
         /\ WritesTurned("CDLEVENINGDOJISTAR", j, T, Mirror!CDLEVENINGDOJISTAR(j, T))
<1>1. WritesTurned("CDL3INSIDE", j, T, Mirror!CDL3INSIDE(j, T))
  BY Zenon DEF WritesTurned, Mirror!Output
<1>2. WritesTurned("CDL3LINESTRIKE", j, T, Mirror!CDL3LINESTRIKE(j, T))
  BY Zenon DEF WritesTurned, Mirror!Output
<1>3. WritesTurned("CDL3OUTSIDE", j, T, Mirror!CDL3OUTSIDE(j, T))
  BY Zenon DEF WritesTurned, Mirror!Output
<1>4. WritesTurned("CDLABANDONEDBABY", j, T, Mirror!CDLABANDONEDBABY(j, T))
  BY Zenon DEF WritesTurned, Mirror!Output
<1>5. WritesTurned("CDLBELTHOLD", j, T, Mirror!CDLBELTHOLD(j, T))
  BY Zenon DEF WritesTurned, Mirror!Output
<1>6. WritesTurned("CDLBREAKAWAY", j, T, Mirror!CDLBREAKAWAY(j, T))
  BY Zenon DEF WritesTurned, Mirror!Output
<1>7. WritesTurned("CDLCLOSINGMARUBOZU", j, T, Mirror!CDLCLOSINGMARUBOZU(j, T))
  BY Zenon DEF WritesTurned, Mirror!Output
<1>8. WritesTurned("CDLCOUNTERATTACK", j, T, Mirror!CDLCOUNTERATTACK(j, T))
  BY Zenon DEF WritesTurned, Mirror!Output
<1>9. WritesTurned("CDLDOJISTAR", j, T, Mirror!CDLDOJISTAR(j, T))
  BY Zenon DEF WritesTurned, Mirror!Output
<1>10. WritesTurned("CDLENGULFING", j, T, Mirror!CDLENGULFING(j, T))
  BY Zenon DEF WritesTurned, Mirror!Output
<1>11. WritesTurned("CDLHARAMI", j, T, Mirror!CDLHARAMI(j, T))
  BY Zenon DEF WritesTurned, Mirror!Output
<1>12. WritesTurned("CDLHARAMICROSS", j, T, Mirror!CDLHARAMICROSS(j, T))
  BY Zenon DEF WritesTurned, Mirror!Output
<1>13. WritesTurned("CDLHIGHWAVE", j, T, Mirror!CDLHIGHWAVE(j, T))
  BY Zenon DEF WritesTurned, Mirror!Output
<1>14. WritesTurned("CDLKICKING", j, T, Mirror!CDLKICKING(j, T))
  BY Zenon DEF WritesTurned, Mirror!Output
<1>15. WritesTurned("CDLKICKINGBYLENGTH", j, T, Mirror!CDLKICKINGBYLENGTH(j, T))
  BY Zenon DEF WritesTurned, Mirror!Output
<1>16. WritesTurned("CDLLONGLINE", j, T, Mirror!CDLLONGLINE(j, T))
  BY Zenon DEF WritesTurned, Mirror!Output
<1>17. WritesTurned("CDLMARUBOZU", j, T, Mirror!CDLMARUBOZU(j, T))
  BY Zenon DEF WritesTurned, Mirror!Output
<1>18. WritesTurned("CDLRISEFALL3METHODS", j, T, Mirror!CDLRISEFALL3METHODS(j, T))
  BY Zenon DEF WritesTurned, Mirror!Output
<1>19. WritesTurned("CDLSEPARATINGLINES", j, T, Mirror!CDLSEPARATINGLINES(j, T))
  BY Zenon DEF WritesTurned, Mirror!Output
<1>20. WritesTurned("CDLSHORTLINE", j, T, Mirror!CDLSHORTLINE(j, T))
  BY Zenon DEF WritesTurned, Mirror!Output
<1>21. WritesTurned("CDLSPINNINGTOP", j, T, Mirror!CDLSPINNINGTOP(j, T))
  BY Zenon DEF WritesTurned, Mirror!Output
<1>22. WritesTurned("CDLTASUKIGAP", j, T, Mirror!CDLTASUKIGAP(j, T))
  BY Zenon DEF WritesTurned, Mirror!Output
<1>23. WritesTurned("CDLTRISTAR", j, T, Mirror!CDLTRISTAR(j, T))
  BY Zenon DEF WritesTurned, Mirror!Output
<1>24. WritesTurned("CDLXSIDEGAP3METHODS", j, T, Mirror!CDLXSIDEGAP3METHODS(j, T))
  BY Zenon DEF WritesTurned, Mirror!Output
<1>25. WritesTurned("CDLEVENINGSTAR", j, T, Mirror!CDLEVENINGSTAR(j, T))
  BY Zenon DEF WritesTurned, Mirror!Output
<1>26. WritesTurned("CDLEVENINGDOJISTAR", j, T, Mirror!CDLEVENINGDOJISTAR(j, T))
  BY Zenon DEF WritesTurned, Mirror!Output
<1>27. QED
  BY <1>1, <1>2, <1>3, <1>4, <1>5, <1>6, <1>7, <1>8, <1>9, <1>10, <1>11, <1>12, <1>13, <1>14,
     <1>15, <1>16, <1>17, <1>18, <1>19, <1>20, <1>21, <1>22, <1>23, <1>24, <1>25, <1>26

\* Function q reports on the chart turned upside down the opposite of what function p reports.
Opposed(p, q, j, T) ==
  \A memory, turned : Mirror!Output(q, j, T, turned).value = -Output(p, j, T, memory).value

LEMMA OpposedByName ==
  ASSUME NEW p, NEW q, NEW j, NEW T, NEW v, NEW w,
         Writes(p, j, T, v), WritesTurned(q, j, T, w), w = -v
  PROVE  Opposed(p, q, j, T)
  BY DEF Opposed, Writes, WritesTurned

LEMMA OneCandleTurned ==
  ASSUME NEW j, NEW T, Turned(j)
  PROVE  /\ Opposed("CDLBELTHOLD", "CDLBELTHOLD", j, T)
         /\ Opposed("CDLCLOSINGMARUBOZU", "CDLCLOSINGMARUBOZU", j, T)
         /\ Opposed("CDLHIGHWAVE", "CDLHIGHWAVE", j, T)
         /\ Opposed("CDLLONGLINE", "CDLLONGLINE", j, T)
         /\ Opposed("CDLMARUBOZU", "CDLMARUBOZU", j, T)
         /\ Opposed("CDLSHORTLINE", "CDLSHORTLINE", j, T)
         /\ Opposed("CDLSPINNINGTOP", "CDLSPINNINGTOP", j, T)
<1>1. Opposed("CDLBELTHOLD", "CDLBELTHOLD", j, T)
  <2>1. Mirror!CDLBELTHOLD(j, T) = -CDLBELTHOLD(j, T)
    BY DEF Turned, CandleSettingTypes, Mirror!CDLBELTHOLD,
           CDLBELTHOLD
  <2>2. QED
    BY <2>1, OutputsByName, TurnedOutputsByName, OpposedByName
<1>2. Opposed("CDLCLOSINGMARUBOZU", "CDLCLOSINGMARUBOZU", j, T)
  <2>1. Mirror!CDLCLOSINGMARUBOZU(j, T) = -CDLCLOSINGMARUBOZU(j, T)
    BY DEF Turned, CandleSettingTypes, Mirror!CDLCLOSINGMARUBOZU,
           CDLCLOSINGMARUBOZU
  <2>2. QED
    BY <2>1, OutputsByName, TurnedOutputsByName, OpposedByName
<1>3. Opposed("CDLHIGHWAVE", "CDLHIGHWAVE", j, T)
  <2>1. Mirror!CDLHIGHWAVE(j, T) = -CDLHIGHWAVE(j, T)
    BY DEF Turned, CandleSettingTypes, Mirror!CDLHIGHWAVE,
           CDLHIGHWAVE
  <2>2. QED
    BY <2>1, OutputsByName, TurnedOutputsByName, OpposedByName
<1>4. Opposed("CDLLONGLINE", "CDLLONGLINE", j, T)
  <2>1. Mirror!CDLLONGLINE(j, T) = -CDLLONGLINE(j, T)
    BY DEF Turned, CandleSettingTypes, Mirror!CDLLONGLINE,
           CDLLONGLINE
  <2>2. QED
    BY <2>1, OutputsByName, TurnedOutputsByName, OpposedByName
<1>5. Opposed("CDLMARUBOZU", "CDLMARUBOZU", j, T)
  <2>1. Mirror!CDLMARUBOZU(j, T) = -CDLMARUBOZU(j, T)
    BY DEF Turned, CandleSettingTypes, Mirror!CDLMARUBOZU,
           CDLMARUBOZU
  <2>2. QED
    BY <2>1, OutputsByName, TurnedOutputsByName, OpposedByName
<1>6. Opposed("CDLSHORTLINE", "CDLSHORTLINE", j, T)
  <2>1. Mirror!CDLSHORTLINE(j, T) = -CDLSHORTLINE(j, T)
    BY DEF Turned, CandleSettingTypes, Mirror!CDLSHORTLINE,
           CDLSHORTLINE
  <2>2. QED
    BY <2>1, OutputsByName, TurnedOutputsByName, OpposedByName
<1>7. Opposed("CDLSPINNINGTOP", "CDLSPINNINGTOP", j, T)
  <2>1. Mirror!CDLSPINNINGTOP(j, T) = -CDLSPINNINGTOP(j, T)
    BY DEF Turned, CandleSettingTypes, Mirror!CDLSPINNINGTOP,
           CDLSPINNINGTOP
  <2>2. QED
    BY <2>1, OutputsByName, TurnedOutputsByName, OpposedByName
<1>8. QED
  BY <1>1, <1>2, <1>3, <1>4, <1>5, <1>6, <1>7

LEMMA TwoCandlesTurned ==
  ASSUME NEW j, NEW T, Turned(j), Turned(j - 1)
  PROVE  /\ Average("Equal", T.equal, j - 1) \in Int
             => Opposed("CDLCOUNTERATTACK", "CDLCOUNTERATTACK", j, T)
         /\ Opposed("CDLDOJISTAR", "CDLDOJISTAR", j, T)
         /\ Opposed("CDLENGULFING", "CDLENGULFING", j, T)
         /\ Opposed("CDLHARAMI", "CDLHARAMI", j, T)
         /\ Opposed("CDLHARAMICROSS", "CDLHARAMICROSS", j, T)
         /\ Opposed("CDLKICKING", "CDLKICKING", j, T)
         /\ Opposed("CDLKICKINGBYLENGTH", "CDLKICKINGBYLENGTH", j, T)
         /\ Average("Equal", T.equal, j - 1) \in Int
             => Opposed("CDLSEPARATINGLINES", "CDLSEPARATINGLINES", j, T)
<1>1. ASSUME Average("Equal", T.equal, j - 1) \in Int
      PROVE  Opposed("CDLCOUNTERATTACK", "CDLCOUNTERATTACK", j, T)
  <2>1. Mirror!CDLCOUNTERATTACK(j, T) = -CDLCOUNTERATTACK(j, T)
    BY <1>1 DEF Turned, CandleSettingTypes, Mirror!CDLCOUNTERATTACK,
           CDLCOUNTERATTACK
  <2>2. QED
    BY <2>1, OutputsByName, TurnedOutputsByName, OpposedByName
<1>2. Opposed("CDLDOJISTAR", "CDLDOJISTAR", j, T)
  <2>1. Mirror!CDLDOJISTAR(j, T) = -CDLDOJISTAR(j, T)
    BY GapsAreTurned DEF Turned, CandleSettingTypes, Mirror!CDLDOJISTAR,
           CDLDOJISTAR
  <2>2. QED
    BY <2>1, OutputsByName, TurnedOutputsByName, OpposedByName
<1>3. Opposed("CDLENGULFING", "CDLENGULFING", j, T)
  <2>1. Mirror!CDLENGULFING(j, T) = -CDLENGULFING(j, T)
    BY DEF Turned, CandleSettingTypes, Mirror!CDLENGULFING,
           CDLENGULFING
  <2>2. QED
    BY <2>1, OutputsByName, TurnedOutputsByName, OpposedByName
<1>4. Opposed("CDLHARAMI", "CDLHARAMI", j, T)
  <2>1. Mirror!CDLHARAMI(j, T) = -CDLHARAMI(j, T)
    BY DEF Turned, CandleSettingTypes, Mirror!CDLHARAMI, CDLHARAMI
  <2>2. QED
    BY <2>1, OutputsByName, TurnedOutputsByName, OpposedByName
<1>5. Opposed("CDLHARAMICROSS", "CDLHARAMICROSS", j, T)
  <2>1. Mirror!CDLHARAMICROSS(j, T) = -CDLHARAMICROSS(j, T)
    BY DEF Turned, CandleSettingTypes, Mirror!CDLHARAMICROSS,
           CDLHARAMICROSS
  <2>2. QED
    BY <2>1, OutputsByName, TurnedOutputsByName, OpposedByName
<1>6. Opposed("CDLKICKING", "CDLKICKING", j, T)
  <2>1. Mirror!CDLKICKING(j, T) = -CDLKICKING(j, T)
    BY GapsAreTurned DEF Turned, CandleSettingTypes, Mirror!CDLKICKING, CDLKICKING
  <2>2. QED
    BY <2>1, OutputsByName, TurnedOutputsByName, OpposedByName
<1>7. Opposed("CDLKICKINGBYLENGTH", "CDLKICKINGBYLENGTH", j, T)
  <2>1. Mirror!CDLKICKINGBYLENGTH(j, T) = -CDLKICKINGBYLENGTH(j, T)
    BY GapsAreTurned DEF Turned, CandleSettingTypes, Mirror!CDLKICKINGBYLENGTH,
           CDLKICKINGBYLENGTH
  <2>2. QED
    BY <2>1, OutputsByName, TurnedOutputsByName, OpposedByName
<1>8. ASSUME Average("Equal", T.equal, j - 1) \in Int
      PROVE  Opposed("CDLSEPARATINGLINES", "CDLSEPARATINGLINES", j, T)
  <2>1. Mirror!CDLSEPARATINGLINES(j, T) = -CDLSEPARATINGLINES(j, T)
    BY <1>8 DEF Turned, CandleSettingTypes, Mirror!CDLSEPARATINGLINES,
           CDLSEPARATINGLINES
  <2>2. QED
    BY <2>1, OutputsByName, TurnedOutputsByName, OpposedByName
<1>9. QED
  BY <1>1, <1>2, <1>3, <1>4, <1>5, <1>6, <1>7, <1>8

LEMMA ThreeCandlesTurned ==
  ASSUME NEW j, NEW T, Turned(j), Turned(j - 1), Turned(j - 2)
  PROVE  /\ Opposed("CDL3INSIDE", "CDL3INSIDE", j, T)
         /\ Opposed("CDL3OUTSIDE", "CDL3OUTSIDE", j, T)
         /\ Penetration(RealBody(j - 2)) \in Int
             => Opposed("CDLABANDONEDBABY", "CDLABANDONEDBABY", j, T)
         /\ Opposed("CDLTASUKIGAP", "CDLTASUKIGAP", j, T)
         /\ Opposed("CDLTRISTAR", "CDLTRISTAR", j, T)
         /\ Opposed("CDLXSIDEGAP3METHODS", "CDLXSIDEGAP3METHODS", j, T)
         /\ Penetration(RealBody(j - 2)) \in Int
             => Opposed("CDLMORNINGSTAR", "CDLEVENINGSTAR", j, T)
         /\ Penetration(RealBody(j - 2)) \in Int
             => Opposed("CDLMORNINGDOJISTAR", "CDLEVENINGDOJISTAR", j, T)
<1>1. Opposed("CDL3INSIDE", "CDL3INSIDE", j, T)
  <2>1. Mirror!CDL3INSIDE(j, T) = -CDL3INSIDE(j, T)
    BY DEF Turned, CandleSettingTypes, Mirror!CDL3INSIDE, CDL3INSIDE
  <2>2. QED
    BY <2>1, OutputsByName, TurnedOutputsByName, OpposedByName
<1>2. Opposed("CDL3OUTSIDE", "CDL3OUTSIDE", j, T)
  <2>1. Mirror!CDL3OUTSIDE(j, T) = -CDL3OUTSIDE(j, T)
    BY DEF Turned, CandleSettingTypes, Mirror!CDL3OUTSIDE,
           CDL3OUTSIDE
  <2>2. QED
    BY <2>1, OutputsByName, TurnedOutputsByName, OpposedByName
<1>3. ASSUME Penetration(RealBody(j - 2)) \in Int
      PROVE  Opposed("CDLABANDONEDBABY", "CDLABANDONEDBABY", j, T)
  <2>1. Mirror!CDLABANDONEDBABY(j, T) = -CDLABANDONEDBABY(j, T)
    BY <1>3, GapsAreTurned, MeasuresStay DEF Turned, CandleSettingTypes, Mirror!CDLABANDONEDBABY,
           CDLABANDONEDBABY
  <2>2. QED
    BY <2>1, OutputsByName, TurnedOutputsByName, OpposedByName
<1>4. Opposed("CDLTASUKIGAP", "CDLTASUKIGAP", j, T)
  <2>1. Mirror!CDLTASUKIGAP(j, T) = -CDLTASUKIGAP(j, T)
    BY GapsAreTurned, MeasuresStay DEF Turned, CandleSettingTypes, Mirror!CDLTASUKIGAP,
           CDLTASUKIGAP
  <2>2. QED
    BY <2>1, OutputsByName, TurnedOutputsByName, OpposedByName
<1>5. Opposed("CDLTRISTAR", "CDLTRISTAR", j, T)
  <2>1. Mirror!CDLTRISTAR(j, T) = -CDLTRISTAR(j, T)
    BY GapsAreTurned DEF Turned, CandleSettingTypes, Mirror!CDLTRISTAR, CDLTRISTAR
  <2>2. QED
    BY <2>1, OutputsByName, TurnedOutputsByName, OpposedByName
<1>6. Opposed("CDLXSIDEGAP3METHODS", "CDLXSIDEGAP3METHODS", j, T)
  <2>1. Mirror!CDLXSIDEGAP3METHODS(j, T) = -CDLXSIDEGAP3METHODS(j, T)
    BY GapsAreTurned DEF Turned, CandleSettingTypes, Mirror!CDLXSIDEGAP3METHODS,
           CDLXSIDEGAP3METHODS
  <2>2. QED
    BY <2>1, OutputsByName, TurnedOutputsByName, OpposedByName
<1>7. ASSUME Penetration(RealBody(j - 2)) \in Int
      PROVE  Opposed("CDLMORNINGSTAR", "CDLEVENINGSTAR", j, T)
  <2>1. Mirror!CDLEVENINGSTAR(j, T) = -CDLMORNINGSTAR(j, T)
    BY <1>7, GapsAreTurned, MeasuresStay DEF Turned, CandleSettingTypes, Mirror!CDLEVENINGSTAR,
           CDLMORNINGSTAR
  <2>2. QED
    BY <2>1, OutputsByName, TurnedOutputsByName, OpposedByName
<1>8. ASSUME Penetration(RealBody(j - 2)) \in Int
      PROVE  Opposed("CDLMORNINGDOJISTAR", "CDLEVENINGDOJISTAR", j, T)
  <2>1. Mirror!CDLEVENINGDOJISTAR(j, T) = -CDLMORNINGDOJISTAR(j, T)
    BY <1>8, GapsAreTurned, MeasuresStay DEF Turned, CandleSettingTypes, Mirror!CDLEVENINGDOJISTAR,
           CDLMORNINGDOJISTAR
  <2>2. QED
    BY <2>1, OutputsByName, TurnedOutputsByName, OpposedByName
<1>9. QED
  BY <1>1, <1>2, <1>3, <1>4, <1>5, <1>6, <1>7, <1>8

LEMMA FourCandlesTurned ==
  ASSUME NEW j, NEW T, Turned(j), Turned(j - 1), Turned(j - 2), Turned(j - 3)
  PROVE  /\ Average("Near", T.near3, j - 3) \in Int /\ Average("Near", T.near2, j - 2) \in Int
             => Opposed("CDL3LINESTRIKE", "CDL3LINESTRIKE", j, T)
<1>1. ASSUME Average("Near", T.near3, j - 3) \in Int, Average("Near", T.near2, j - 2) \in Int
      PROVE  Opposed("CDL3LINESTRIKE", "CDL3LINESTRIKE", j, T)
  <2>1. Mirror!CDL3LINESTRIKE(j, T) = -CDL3LINESTRIKE(j, T)
    BY <1>1 DEF Turned, CandleSettingTypes, Mirror!CDL3LINESTRIKE,
           CDL3LINESTRIKE
  <2>2. QED
    BY <2>1, OutputsByName, TurnedOutputsByName, OpposedByName
<1>2. QED
  BY <1>1

LEMMA FiveCandlesTurned ==
  ASSUME NEW j, NEW T, Turned(j), Turned(j - 1), Turned(j - 2), Turned(j - 3), Turned(j - 4)
  PROVE  /\ Opposed("CDLBREAKAWAY", "CDLBREAKAWAY", j, T)
         /\ Opposed("CDLRISEFALL3METHODS", "CDLRISEFALL3METHODS", j, T)
<1>1. Opposed("CDLBREAKAWAY", "CDLBREAKAWAY", j, T)
  <2>1. Mirror!CDLBREAKAWAY(j, T) = -CDLBREAKAWAY(j, T)
    BY GapsAreTurned DEF Turned, CandleSettingTypes, Mirror!CDLBREAKAWAY,
           CDLBREAKAWAY
  <2>2. QED
    BY <2>1, OutputsByName, TurnedOutputsByName, OpposedByName
<1>2. Opposed("CDLRISEFALL3METHODS", "CDLRISEFALL3METHODS", j, T)
  <2>1. Mirror!CDLRISEFALL3METHODS(j, T) = -CDLRISEFALL3METHODS(j, T)
    BY DEF Turned, CandleSettingTypes, Mirror!CDLRISEFALL3METHODS,
           CDLRISEFALL3METHODS
  <2>2. QED
    BY <2>1, OutputsByName, TurnedOutputsByName, OpposedByName
<1>3. QED
  BY <1>1, <1>2

\* A pattern of one direction becomes one of the other, remembered as such, and is confirmed by the
\* same bar.
LEMMA IterationTurned ==
  ASSUME NEW j \in Nat, NEW setup \in BOOLEAN, NEW turned \in BOOLEAN, setup = turned,
         Turned(j), Turned(j - 1),
         setup => \/ High(j) < High(j - 1) /\ Low(j) < Low(j - 1)
                  \/ High(j) > High(j - 1) /\ Low(j) > Low(j - 1),
         NEW memory \in Memories,
         memory.result # 0 /\ j <= memory.idx + 3 => Turned(memory.idx - 1)
  PROVE  Mirror!HikkakeIteration(turned, j, [memory EXCEPT !.result = -@]).value
           = -HikkakeIteration(setup, j, memory).value
<1> DEFINE mirrored == [memory EXCEPT !.result = -@]
<1>1. /\ mirrored.idx = memory.idx /\ mirrored.result = -memory.result
      /\ memory.idx \in Nat /\ memory.result \in {-100, 0, 100}
  BY DEF Memories
<1> HIDE DEF mirrored
<1>2. CASE setup
  BY <1>2 DEF Turned, HikkakeIteration, Mirror!HikkakeIteration
<1>3. CASE ~setup
  <2>1. (/\ j <= memory.idx + 3
         /\ \/ memory.result > 0 /\ Close(j) > High(memory.idx - 1)
            \/ memory.result < 0 /\ Close(j) < Low(memory.idx - 1))
        <=> (/\ j <= mirrored.idx + 3
             /\ \/ mirrored.result > 0 /\ Mirror!Close(j) > Mirror!High(mirrored.idx - 1)
                \/ mirrored.result < 0 /\ Mirror!Close(j) < Mirror!Low(mirrored.idx - 1))
    BY <1>1 DEF Turned
  <2>2. QED
    BY <1>1, <1>3, <2>1 DEF HikkakeIteration, Mirror!HikkakeIteration
<1>4. QED
  BY <1>2, <1>3 DEF mirrored

LEMMA HikkakesTurned ==
  ASSUME NEW j \in Nat, NEW T, Turned(j), Turned(j - 1), Turned(j - 2), NEW memory \in Memories,
         memory.result # 0 /\ j <= memory.idx + 3 => Turned(memory.idx - 1)
  PROVE  /\ Mirror!Output("CDLHIKKAKE", j, T, [memory EXCEPT !.result = -@]).value
              = -Output("CDLHIKKAKE", j, T, memory).value
         /\ Turned(j - 3) /\ Average("Near", T.near, j - 2) \in Int
            => Mirror!Output("CDLHIKKAKEMOD", j, T, [memory EXCEPT !.result = -@]).value
                 = -Output("CDLHIKKAKEMOD", j, T, memory).value
<1> DEFINE mirrored == [memory EXCEPT !.result = -@]
<1>1. /\ Mirror!HikkakeSetup(j) = HikkakeSetup(j)
      /\ HikkakeSetup(j) \in BOOLEAN
      /\ HikkakeSetup(j) => \/ High(j) < High(j - 1) /\ Low(j) < Low(j - 1)
                            \/ High(j) > High(j - 1) /\ Low(j) > Low(j - 1)
  BY DEF Turned, HikkakeSetup, Mirror!HikkakeSetup
<1>2. Mirror!HikkakeIteration(Mirror!HikkakeSetup(j), j, mirrored).value
        = -HikkakeIteration(HikkakeSetup(j), j, memory).value
  BY <1>1, IterationTurned
<1>3. ASSUME Turned(j - 3), Average("Near", T.near, j - 2) \in Int
      PROVE  Mirror!HikkakeIteration(Mirror!HikkakeModSetup(j, T), j, mirrored).value
               = -HikkakeIteration(HikkakeModSetup(j, T), j, memory).value
  <2>1. /\ Mirror!HikkakeModSetup(j, T) = HikkakeModSetup(j, T)
        /\ HikkakeModSetup(j, T) \in BOOLEAN
        /\ HikkakeModSetup(j, T) => \/ High(j) < High(j - 1) /\ Low(j) < Low(j - 1)
                                    \/ High(j) > High(j - 1) /\ Low(j) > Low(j - 1)
    BY <1>3 DEF Turned, CandleSettingTypes, HikkakeModSetup, Mirror!HikkakeModSetup
  <2>2. QED
    BY <2>1, IterationTurned
<1> HIDE DEF mirrored
<1>4. /\ Output("CDLHIKKAKE", j, T, memory) = CDLHIKKAKE(j, memory)
      /\ Mirror!Output("CDLHIKKAKE", j, T, mirrored) = Mirror!CDLHIKKAKE(j, mirrored)
  BY Zenon DEF Output, Mirror!Output
<1>5. /\ Output("CDLHIKKAKEMOD", j, T, memory) = CDLHIKKAKEMOD(j, T, memory)
      /\ Mirror!Output("CDLHIKKAKEMOD", j, T, mirrored) = Mirror!CDLHIKKAKEMOD(j, T, mirrored)
  BY Zenon DEF Output, Mirror!Output
<1>6. Mirror!Output("CDLHIKKAKE", j, T, mirrored).value = -Output("CDLHIKKAKE", j, T, memory).value
  BY <1>2, <1>4 DEF CDLHIKKAKE, Mirror!CDLHIKKAKE
<1>7. ASSUME Turned(j - 3), Average("Near", T.near, j - 2) \in Int
      PROVE  Mirror!Output("CDLHIKKAKEMOD", j, T, mirrored).value
               = -Output("CDLHIKKAKEMOD", j, T, memory).value
  BY <1>3, <1>5, <1>7 DEF CDLHIKKAKEMOD, Mirror!CDLHIKKAKEMOD
<1>8. QED
  BY <1>6, <1>7 DEF mirrored

\* How far back the functions read.
OneCandle ==
  {"CDLBELTHOLD", "CDLCLOSINGMARUBOZU", "CDLHIGHWAVE", "CDLLONGLINE", "CDLMARUBOZU", "CDLSHORTLINE",
   "CDLSPINNINGTOP"}
TwoCandles ==
  {"CDLCOUNTERATTACK", "CDLDOJISTAR", "CDLENGULFING", "CDLHARAMI", "CDLHARAMICROSS", "CDLKICKING",
   "CDLKICKINGBYLENGTH", "CDLSEPARATINGLINES"}
ThreeCandles ==
  {"CDL3INSIDE", "CDL3OUTSIDE", "CDLABANDONEDBABY", "CDLTASUKIGAP", "CDLTRISTAR",
   "CDLXSIDEGAP3METHODS", "CDLMORNINGSTAR", "CDLMORNINGDOJISTAR", "CDLHIKKAKE"}
FourCandles == {"CDL3LINESTRIKE", "CDLHIKKAKEMOD"}
FiveCandles == {"CDLBREAKAWAY", "CDLRISEFALL3METHODS"}

LEMMA Reaches ==
  /\ \A p \in TwoCandles : PlanOf(p).reach = 1
  /\ \A p \in ThreeCandles : PlanOf(p).reach = 2
  /\ \A p \in FourCandles : PlanOf(p).reach = 3
  /\ \A p \in FiveCandles : PlanOf(p).reach = 4
<1>1. ASSUME NEW p \in TwoCandles PROVE PlanOf(p).reach = 1
  BY <1>1, PlansByName
  DEF TwoCandles, Plan, CDLCOUNTERATTACK_Plan, CDLDOJISTAR_Plan, CDLENGULFING_Plan, CDLHARAMI_Plan,
      CDLHARAMICROSS_Plan, CDLKICKING_Plan, CDLKICKINGBYLENGTH_Plan, CDLSEPARATINGLINES_Plan
<1>2. ASSUME NEW p \in ThreeCandles PROVE PlanOf(p).reach = 2
  BY <1>2, PlansByName
  DEF ThreeCandles, Plan, CDL3INSIDE_Plan, CDL3OUTSIDE_Plan, CDLABANDONEDBABY_Plan,
      CDLTASUKIGAP_Plan, CDLTRISTAR_Plan, CDLXSIDEGAP3METHODS_Plan, CDLMORNINGSTAR_Plan,
      CDLMORNINGDOJISTAR_Plan, CDLHIKKAKE_Plan
<1>3. ASSUME NEW p \in FourCandles PROVE PlanOf(p).reach = 3
  BY <1>3, PlansByName DEF FourCandles, Plan, CDL3LINESTRIKE_Plan, CDLHIKKAKEMOD_Plan
<1>4. ASSUME NEW p \in FiveCandles PROVE PlanOf(p).reach = 4
  BY <1>4, PlansByName DEF FiveCandles, Plan, CDLBREAKAWAY_Plan, CDLRISEFALL3METHODS_Plan
<1>5. QED
  BY <1>1, <1>2, <1>3, <1>4

\* The totals that are added to a price or taken from one.
LEMMA TotalsByName ==
  /\ \A p \in {"CDLCOUNTERATTACK", "CDLSEPARATINGLINES"} : "equal" \in DOMAIN PlanOf(p).totals
  /\ "near2" \in DOMAIN PlanOf("CDL3LINESTRIKE").totals
  /\ "near3" \in DOMAIN PlanOf("CDL3LINESTRIKE").totals
  /\ "near" \in DOMAIN PlanOf("CDLHIKKAKEMOD").totals
  BY PlansByName DEF Plan, CDLCOUNTERATTACK_Plan, CDLSEPARATINGLINES_Plan, CDL3LINESTRIKE_Plan,
                     CDLHIKKAKEMOD_Plan

LEMMA PenetrationIsInt ==
  ASSUME SeriesOK, NEW x \in Int
  PROVE  Penetration(x) \in Int
<1>1. penetration[1] \in Int /\ penetration[2] \in Nat \ {0}
  BY CandleAssumption DEF SeriesOK
<1> DEFINE num == penetration[1]
           den == penetration[2]
<1>2. Penetration(x) = (x * num) \div den
  BY DEF Penetration
<1>3. num \in Int /\ den \in Int /\ den > 0
  BY <1>1
<1> HIDE DEF num, den
<1>4. x * num \in Int
  BY <1>3
<1>5. \A y \in Int : y \div den \in Int
  BY <1>3
<1>6. QED
  BY <1>2, <1>4, <1>5

\* A function stands for itself turned upside down, but for the stars.
LEMMA PairsByName ==
  ASSUME NEW pair \in Opposites
  PROVE  \/ /\ pair[1] \in OneCandle \cup TwoCandles \cup FourCandles \cup FiveCandles
            /\ pair[2] = pair[1]
         \/ /\ pair[1] \in ThreeCandles \ {"CDLMORNINGSTAR", "CDLMORNINGDOJISTAR"}
            /\ pair[2] = pair[1]
         \/ pair[1] = "CDLMORNINGSTAR" /\ pair[2] = "CDLEVENINGSTAR"
         \/ pair[1] = "CDLMORNINGDOJISTAR" /\ pair[2] = "CDLEVENINGDOJISTAR"
  BY DEF Opposites, Symmetric, OneCandle, TwoCandles, ThreeCandles, FourCandles, FiveCandles

\* The functions with a bullish and a bearish form report the one where, on the chart turned upside
\* down, they report the other.
THEOREM FormsAreMirrorImages == Spec => []MirrorImage
<1>1. IInv => MirrorImage
  <2> SUFFICES ASSUME IInv, AtBar, \A k \in DOMAIN bars : Open(k) # Close(k),
                      NEW pair \in Opposites, pattern = pair[1]
               PROVE  Mirror!Output(pair[2], i, totals, [hk EXCEPT !.result = -@]).value
                        = -Output(pattern, i, totals, hk).value
    BY DEF MirrorImage
  <2>1. SeriesOK /\ SettingsOK /\ i \in DOMAIN bars /\ i \in Nat
    BY LoopBar
  <2>2. i >= PlanOf(pattern).reach /\ (hk.result # 0 /\ i <= hk.idx + 3 => hk.idx >= 1)
    BY ReadsInside DEF ReadsInsideInput, AtBar
  <2>3. \A k \in 0 .. i : k \in DOMAIN bars /\ Turned(k)
    BY <2>1, BarsBefore, BarsAreTurned
  <2>4. \A t \in DOMAIN PlanOf(pattern).totals : totals[t] \in Int
    <3>1. DOMAIN totals = DOMAIN PlanOf(pattern).totals
      BY DEF IInv, LoopInv, TotalsExact, AtBar, Exact, SumsAt
    <3>2. QED
      BY <3>1 DEF IInv, CallOK
  <2>5. Turned(i)
    BY <2>1, <2>3
  <2>6. ASSUME pattern \in Hikkakes
        PROVE  hk \in Memories /\ (hk.result # 0 /\ i <= hk.idx + 3 => Turned(hk.idx - 1))
    <3>1. Remembers(hk, pattern, startIdx - PlanOf(pattern).early, i)
      BY <2>6 DEF IInv, LoopInv, AtBar
    <3>2. startIdx - PlanOf(pattern).early \in Int
      BY <2>1, <2>6, HikkakePlans DEF IInv, CallOK
    <3>3. hk \in Memories /\ (hk.idx < i \/ hk.idx = 0)
      BY <2>1, <3>1, <3>2 DEF Remembers
    <3>4. hk.idx \in Nat
      BY <3>3 DEF Memories
    <3>5. hk.result # 0 /\ i <= hk.idx + 3 => hk.idx - 1 \in 0 .. i
      BY <2>1, <2>2, <3>3, <3>4
    <3>6. QED
      BY <2>3, <3>3, <3>5
  <2>7. CASE pattern \in OneCandle
    <3>1. pair[2] = pattern
      BY <2>7, PairsByName DEF OneCandle, ThreeCandles
    <3>2. Opposed(pattern, pattern, i, totals)
      BY <2>5, <2>7, OneCandleTurned DEF OneCandle
    <3>3. QED
      BY <3>1, <3>2 DEF Opposed
  <2>8. CASE pattern \in TwoCandles
    <3>1. pair[2] = pattern
      BY <2>8, PairsByName DEF TwoCandles, ThreeCandles
    <3>2. i - 1 \in 0 .. i
      BY <2>1, <2>2, <2>8, Reaches
    <3>3. Turned(i - 1) /\ i - 1 \in DOMAIN bars
      BY <2>3, <3>2
    <3>4. pattern \in {"CDLCOUNTERATTACK", "CDLSEPARATINGLINES"}
            => Average("Equal", totals.equal, i - 1) \in Int
      BY <2>1, <2>4, <3>3, TotalsByName, AverageIsInt DEF CandleSettingTypes
    <3>5. Opposed(pattern, pattern, i, totals)
      BY <2>5, <2>8, <3>3, <3>4, TwoCandlesTurned DEF TwoCandles
    <3>6. QED
      BY <3>1, <3>5 DEF Opposed
  <2>9. CASE pattern \in ThreeCandles
    <3>1. i - 1 \in 0 .. i /\ i - 2 \in 0 .. i
      BY <2>1, <2>2, <2>9, Reaches
    <3>2. Turned(i - 1) /\ Turned(i - 2)
      BY <2>3, <3>1
    <3>3. Penetration(RealBody(i - 2)) \in Int
      BY <2>1, <3>2, PenetrationIsInt DEF Turned
    <3>4. CASE pattern = "CDLHIKKAKE"
      <4>1. pair[2] = pattern
        BY <3>4, PairsByName DEF OneCandle, TwoCandles, FourCandles, FiveCandles
      <4>2. hk \in Memories /\ (hk.result # 0 /\ i <= hk.idx + 3 => Turned(hk.idx - 1))
        BY <2>6, <3>4 DEF Hikkakes
      <4>3. QED
        BY <2>1, <2>5, <3>2, <3>4, <4>1, <4>2, HikkakesTurned
    <3>5. CASE pattern # "CDLHIKKAKE"
      <4>1. Opposed(pattern, pair[2], i, totals)
        BY <2>5, <2>9, <3>2, <3>3, <3>5, ThreeCandlesTurned DEF ThreeCandles, Opposites, Symmetric
      <4>2. QED
        BY <4>1 DEF Opposed
    <3>6. QED
      BY <3>4, <3>5
  <2>10. CASE pattern \in FourCandles
    <3>1. pair[2] = pattern
      BY <2>10, PairsByName DEF FourCandles, ThreeCandles
    <3>2. i - 1 \in 0 .. i /\ i - 2 \in 0 .. i /\ i - 3 \in 0 .. i
      BY <2>1, <2>2, <2>10, Reaches
    <3>3. /\ Turned(i - 1) /\ Turned(i - 2) /\ Turned(i - 3)
          /\ i - 2 \in DOMAIN bars /\ i - 3 \in DOMAIN bars
      BY <2>3, <3>2
    <3>4. CASE pattern = "CDLHIKKAKEMOD"
      <4>1. Average("Near", totals.near, i - 2) \in Int
        BY <2>1, <2>4, <3>3, <3>4, TotalsByName, AverageIsInt DEF CandleSettingTypes
      <4>2. hk \in Memories /\ (hk.result # 0 /\ i <= hk.idx + 3 => Turned(hk.idx - 1))
        BY <2>6, <3>4 DEF Hikkakes
      <4>3. QED
        BY <2>1, <2>5, <3>1, <3>3, <3>4, <4>1, <4>2, HikkakesTurned
    <3>5. CASE pattern = "CDL3LINESTRIKE"
      <4>1. /\ Average("Near", totals.near3, i - 3) \in Int
            /\ Average("Near", totals.near2, i - 2) \in Int
        BY <2>1, <2>4, <3>3, <3>5, TotalsByName, AverageIsInt DEF CandleSettingTypes
      <4>2. Opposed(pattern, pattern, i, totals)
        BY <2>5, <3>3, <3>5, <4>1, FourCandlesTurned
      <4>3. QED
        BY <3>1, <4>2 DEF Opposed
    <3>6. QED
      BY <2>10, <3>4, <3>5 DEF FourCandles
  <2>11. CASE pattern \in FiveCandles
    <3>1. pair[2] = pattern
      BY <2>11, PairsByName DEF FiveCandles, ThreeCandles
    <3>2. i - 1 \in 0 .. i /\ i - 2 \in 0 .. i /\ i - 3 \in 0 .. i /\ i - 4 \in 0 .. i
      BY <2>1, <2>2, <2>11, Reaches
    <3>3. Turned(i - 1) /\ Turned(i - 2) /\ Turned(i - 3) /\ Turned(i - 4)
      BY <2>3, <3>2
    <3>4. Opposed(pattern, pattern, i, totals)
      BY <2>5, <2>11, <3>3, FiveCandlesTurned DEF FiveCandles
    <3>5. QED
      BY <3>1, <3>4 DEF Opposed
  <2>12. QED
    BY <2>7, <2>8, <2>9, <2>10, <2>11, PairsByName DEF ThreeCandles
<1>2. QED
  BY <1>1, Invariance, PTL
=============================================================================
