------------------------ MODULE IndicatorOutputs_proofs ------------------------
(***************************************************************************)
(* No call writes where its caller does not expect it (OutputsAlwaysFit),  *)
(* for every market, every request and every unstable period.              *)
(*                                                                         *)
(* A function that walks the bars writes one element of each output for    *)
(* each bar of its range, and the outputs have that many.  Each walk is    *)
(* the same induction over its bars (Loops), with the iteration of its     *)
(* function.  A function that calls others writes their arrays too: what a *)
(* call may write (Touches) is an allowance of so many elements of some    *)
(* arrays and of anything in the temporary ones, and it is shown from the  *)
(* inside out, as the ranges are (IndicatorCalls_proofs), that the calls   *)
(* of a function, its copies and its loops keep to its own allowance.      *)
(***************************************************************************)
EXTENDS IndicatorCalls_proofs, WellFoundedInduction

-----------------------------------------------------------------------------
(* What a call may write.                                                  *)
(*                                                                         *)
(* T tells how many elements of which arrays may change, temps which       *)
(* arrays may change in any way: from the memory m to the memory w nothing *)
(* else did.                                                               *)

\* Array a has the size it had, and changed in its first n elements only.
Within(m, w, a, n) ==
    /\ DOMAIN w[a] = DOMAIN m[a]
    /\ \A k \in DOMAIN m[a] : k \notin 0 .. (n - 1) => w[a][k] = m[a][k]

\* What may have changed between m and w.
Touches(T, temps, m, w) ==
    /\ DOMAIN m \subseteq DOMAIN w
    /\ \A a \in DOMAIN m \ temps : IF a \in DOMAIN T THEN Within(m, w, a, T[a]) ELSE w[a] = m[a]

\* Array a is there, with n elements at least.
HasRoom(m, a, n) == a \in DOMAIN m /\ 0 .. (n - 1) \subseteq DOMAIN m[a]

\* The same number of elements of each of some arrays.
Uniform(arrays, n) == [a \in arrays |-> n]

\* T and temps allow all that T1 and temps1 do.
Covers(T, temps, T1, temps1) ==
    /\ temps1 \subseteq temps
    /\ \A a \in DOMAIN T1 \ temps : a \in DOMAIN T /\ 0 .. (T1[a] - 1) \subseteq 0 .. (T[a] - 1)

\* The outputs of a call.
Outs(v) == {v.to[x] : x \in DOMAIN v.to}

\* The elements from the lookback, or the start if that is later, to the end.
Count(v, lookback) == v.end - Larger(v.start, lookback) + 1

\* No change is within every allowance.
LEMMA TouchesNothing ==
  ASSUME NEW T, NEW temps, NEW m
  PROVE  Touches(T, temps, m, m)
BY DEF Touches, Within

\* An allowance may be stated more widely, and used bit by bit.
LEMMA TouchesThen ==
  ASSUME NEW T, NEW temps, NEW m, NEW w, Touches(T, temps, m, w),
         NEW T1, NEW temps1, NEW x, Touches(T1, temps1, w, x), Covers(T, temps, T1, temps1)
  PROVE  Touches(T, temps, m, x)
<1>1. DOMAIN m \subseteq DOMAIN x
  BY DEF Touches
<1>2. ASSUME NEW a \in DOMAIN m \ temps
      PROVE  IF a \in DOMAIN T THEN Within(m, x, a, T[a]) ELSE x[a] = m[a]
  <2>1. a \in DOMAIN w \ temps1
    BY DEF Touches, Covers
  <2>2. IF a \in DOMAIN T THEN Within(m, w, a, T[a]) ELSE w[a] = m[a]
    BY DEF Touches
  <2>3. CASE a \in DOMAIN T1
    <3>1. Within(w, x, a, T1[a])
      BY <2>1, <2>3 DEF Touches
    <3>2. a \in DOMAIN T /\ 0 .. (T1[a] - 1) \subseteq 0 .. (T[a] - 1)
      BY <2>3 DEF Covers
    <3> QED
      BY <2>2, <3>1, <3>2 DEF Within
  <2>4. CASE a \notin DOMAIN T1
    <3>1. x[a] = w[a]
      BY <2>1, <2>4 DEF Touches
    <3> QED
      BY <2>2, <3>1 DEF Within
  <2> QED
    BY <2>3, <2>4
<1> QED
  BY <1>1, <1>2 DEF Touches

\* An allowance may be stated more widely.
LEMMA TouchesLess ==
  ASSUME NEW T, NEW temps, NEW m, NEW T1, NEW temps1, NEW x, Touches(T1, temps1, m, x),
         Covers(T, temps, T1, temps1)
  PROVE  Touches(T, temps, m, x)
BY TouchesNothing, TouchesThen

\* Arrays keep their sizes.
LEMMA RoomKept ==
  ASSUME NEW T, NEW temps, NEW m, NEW w, Touches(T, temps, m, w),
         NEW a, a \notin temps, NEW n, HasRoom(m, a, n)
  PROVE  HasRoom(w, a, n)
BY DEF HasRoom, Touches, Within

\* What a write inside an array changes.
LEMMA StoreIs ==
  ASSUME NEW m, NEW a \in DOMAIN m, NEW k \in DOMAIN m[a], NEW value
  PROVE  /\ DOMAIN Store(m, a, k, value) = DOMAIN m
         /\ \A b \in DOMAIN m \ {a} : Store(m, a, k, value)[b] = m[b]
         /\ DOMAIN Store(m, a, k, value)[a] = DOMAIN m[a]
         /\ \A j \in DOMAIN m[a] \ {k} : Store(m, a, k, value)[a][j] = m[a][j]
BY DEF Store

\* A write to an element that may change, of an array that has it.
LEMMA StoreTouches ==
  ASSUME NEW T, NEW temps, NEW m, NEW w, Touches(T, temps, m, w),
         NEW a \in DOMAIN T, NEW k \in 0 .. (T[a] - 1), HasRoom(w, a, T[a]), NEW value
  PROVE  Touches(T, temps, m, Store(w, a, k, value))
<1> DEFINE x == Store(w, a, k, value)
<1>1. a \in DOMAIN w /\ k \in DOMAIN w[a] /\ DOMAIN m \subseteq DOMAIN w
  BY DEF HasRoom, Touches
<1>2. /\ DOMAIN x = DOMAIN w
      /\ \A b \in DOMAIN w \ {a} : x[b] = w[b]
      /\ DOMAIN x[a] = DOMAIN w[a]
      /\ \A j \in DOMAIN w[a] \ {k} : x[a][j] = w[a][j]
  BY <1>1, StoreIs
<1> HIDE DEF x
<1>3. ASSUME NEW b \in DOMAIN m \ temps
      PROVE  IF b \in DOMAIN T THEN Within(m, x, b, T[b]) ELSE x[b] = m[b]
  <2>1. IF b \in DOMAIN T THEN Within(m, w, b, T[b]) ELSE w[b] = m[b]
    BY DEF Touches
  <2>2. CASE b = a
    BY <1>1, <1>2, <2>1, <2>2 DEF Within
  <2>3. CASE b # a
    BY <1>1, <1>2, <2>1, <2>3 DEF Within
  <2> QED
    BY <2>2, <2>3
<1> QED
  BY <1>1, <1>2, <1>3 DEF Touches, x

\* The induction that LoopInduction (Loops) asks for.
LessThan == {p \in Nat \X Nat : p[1] < p[2]}

\* The order of the natural numbers.
LEMMA LessThanIsWellFounded == IsWellFoundedOn(LessThan, Nat)
<1>1. OpToRel(<, Nat) = LessThan
  BY DEF OpToRel, LessThan
<1> QED
  BY <1>1, NatLessThanWellFounded, Zenon

\* A set that holds 0, and with every number the next one, holds every natural number.
LEMMA SetInduction ==
  \A N : 0 \in N /\ (\A n \in Nat : n \in N => n + 1 \in N) => Nat \subseteq N
<1> SUFFICES ASSUME NEW N, 0 \in N, \A n \in Nat : n \in N => n + 1 \in N, Nat \ N # {}
             PROVE  FALSE
  OBVIOUS
<1> DEFINE M == Nat \ N
<1>1. M \subseteq Nat /\ M # {}
  OBVIOUS
<1>2. PICK m \in M : \A k \in M : <<k, m>> \notin LessThan
  <2> HIDE DEF M
  <2> QED
    BY <1>1, WFMin, LessThanIsWellFounded, Zenon
<1>3. m \in Nat /\ m # 0 /\ m - 1 \in Nat /\ m - 1 < m /\ m \notin N
  BY <1>2
<1>4. <<m - 1, m>> \in LessThan
  BY <1>3 DEF LessThan
<1>5. m - 1 \in N
  BY <1>2, <1>3, <1>4
<1> QED
  BY <1>3, <1>5

-----------------------------------------------------------------------------
(* A walk over the bars writes one element of each output for each bar:    *)
(* the first one for the first bar it is asked for.                        *)

\* The outputs have room for a walk from the lookback, or the start if that is later, to the end.
CanWalk(v, lookback, outs) ==
    /\ v.start \in Int /\ v.end \in Int /\ lookback \in Int
    /\ 1 .. outs \subseteq DOMAIN v.to
    /\ \A o \in Outs(v) : HasRoom(v.mem, o, Count(v, lookback))

\* What the walk r of v wrote.
WroteWalk(r, v, lookback) == Touches(Uniform(Outs(v), Count(v, lookback)), {}, v.mem, r.mem)

\* What was written between S, before the walk, and T, after bar i.
WalkKeeps(v, s, z, S, T, i) == Touches(Uniform(Outs(v), i - s + 1), {}, S.mem, T.mem)

\* The writes of one iteration.
LEMMA WrittenTouches ==
  ASSUME NEW v, NEW m, NEW w, NEW slot \in Nat, NEW now, NEW outs \in {1, 2},
         Len(now.out) = outs, 1 .. outs \subseteq DOMAIN v.to,
         Touches(Uniform(Outs(v), slot), {}, m, w), \A o \in Outs(v) : HasRoom(m, o, slot + 1)
  PROVE  Touches(Uniform(Outs(v), slot + 1), {}, m, Written(v, slot, w, now).mem)
<1> DEFINE T == Uniform(Outs(v), slot + 1)
<1>1. Touches(T, {}, m, w)
  BY TouchesLess DEF Covers, Uniform
<1>2. DOMAIN T = Outs(v) /\ \A o \in Outs(v) : T[o] = slot + 1
  BY DEF Uniform
<1> HIDE DEF T
<1>3. ASSUME NEW x, Touches(T, {}, m, x), NEW o \in Outs(v), NEW k \in 0 .. slot, NEW value
      PROVE  Touches(T, {}, m, Store(x, o, k, value))
  <2>1. HasRoom(x, o, slot + 1)
    BY <1>3, RoomKept
  <2>2. (slot + 1) - 1 = slot
    OBVIOUS
  <2> QED
    BY <1>2, <1>3, <2>1, <2>2, StoreTouches
<1>4. CASE outs = 1
  <2>1. v.to[1] \in Outs(v)
    BY <1>4 DEF Outs
  <2> DEFINE at == IF now.first THEN 0 ELSE slot
  <2>2. at \in 0 .. slot
    OBVIOUS
  <2>3. Written(v, slot, w, now).mem = Store(w, v.to[1], at, now.out[1])
    BY <1>4 DEF Written, StoreFirst
  <2> HIDE DEF at
  <2> QED
    BY <1>1, <1>3, <2>1, <2>2, <2>3 DEF T
<1>5. CASE outs = 2
  <2>1. v.to[1] \in Outs(v) /\ v.to[2] \in Outs(v) /\ slot \in 0 .. slot
    BY <1>5 DEF Outs
  <2> DEFINE x == Store(w, v.to[1], slot, now.out[1])
  <2>2. Written(v, slot, w, now).mem = Store(x, v.to[2], slot, now.out[2])
    BY <1>5 DEF Written
  <2>3. Touches(T, {}, m, x)
    BY <1>1, <1>3, <2>1
  <2> HIDE DEF x
  <2> QED
    BY <1>3, <2>1, <2>2, <2>3 DEF T
<1> QED
  BY <1>4, <1>5

\* An iteration keeps what a walk is allowed.
LEMMA BarKeeps ==
  ASSUME NEW v, NEW lookback, NEW outs \in {1, 2}, CanWalk(v, lookback, outs),
         NEW s, s = Larger(v.start, lookback), NEW S, S.mem = v.mem,
         NEW T, NEW i \in s .. v.end, WalkKeeps(v, s, 0, S, T, i - 1),
         NEW now, Len(now.out) = outs
  PROVE  WalkKeeps(v, s, 0, S, Written(v, i - s, T.mem, now), i)
<1>1. s \in Int /\ v.end \in Int /\ i - s \in Nat /\ (i - 1) - s + 1 = i - s /\ i \in Int
  BY DEF CanWalk, Larger
<1>2. 0 .. (((i - s) + 1) - 1) \subseteq 0 .. (Count(v, lookback) - 1)
  BY <1>1 DEF Count
<1>3. \A o \in Outs(v) : HasRoom(S.mem, o, (i - s) + 1)
  BY <1>2 DEF CanWalk, HasRoom
<1>4. Touches(Uniform(Outs(v), i - s), {}, S.mem, T.mem)
  BY <1>1 DEF WalkKeeps
<1>5. Touches(Uniform(Outs(v), (i - s) + 1), {}, S.mem, Written(v, i - s, T.mem, now).mem)
  BY <1>1, <1>3, <1>4, WrittenTouches DEF CanWalk
<1> QED
  BY <1>5 DEF WalkKeeps

\* A walk starts with nothing written.
LEMMA WalkBegins ==
  ASSUME NEW v, NEW lookback, NEW outs, CanWalk(v, lookback, outs), NEW S
  PROVE  LET s == Larger(v.start, lookback)
         IN s \in Int /\ v.end \in Int /\ WalkKeeps(v, s, 0, S, S, s - 1)
BY TouchesNothing DEF CanWalk, Larger, WalkKeeps

\* The frame Run returns the memory of the loop.
LEMMA WalkEnds ==
  ASSUME NEW v, NEW lookback, NEW outs, CanWalk(v, lookback, outs),
         NEW s, s = Larger(v.start, lookback), NEW S, S.mem = v.mem,
         NEW R, WalkKeeps(v, s, 0, S, R, IF v.end < s THEN s - 1 ELSE v.end),
         NEW r, r = IF s > v.end THEN Nothing(v) ELSE Done(R.mem, s, v.end - s + 1)
  PROVE  WroteWalk(r, v, lookback)
<1>1. s \in Int /\ v.end \in Int /\ Count(v, lookback) = v.end - s + 1
  BY DEF CanWalk, Larger, Count
<1>2. CASE s > v.end
  BY <1>2, TouchesNothing DEF WroteWalk, Nothing, Done
<1>3. CASE ~(s > v.end)
  BY <1>1, <1>3 DEF WalkKeeps, WroteWalk, Done
<1> QED
  BY <1>2, <1>3

(* The walks that other functions call. *)

\* SMA, bar by bar.
SMA_Bar(v, s, z, S, i) == Written(v, i - s, S.mem, SMA([v EXCEPT !.mem = S.mem], S.L, i))
SMAs == INSTANCE Loops WITH Step <- SMA_Bar, Keeps <- WalkKeeps
LEMMA SMATouches ==
  ASSUME NEW v, NEW lookback, CanWalk(v, lookback, 1)
  PROVE  WroteWalk(Run(v, lookback, TotalBegin, SMA), v, lookback)
<1> DEFINE s == Larger(v.start, lookback)
           S == [L |-> TotalBegin(v, s), mem |-> v.mem]
<1>1. \A u, L, i : Len(SMA(u, L, i).out) = 1
  BY DEF SMA, Wrote
<1>2. Run(v, lookback, TotalBegin, SMA) = IF s > v.end THEN Nothing(v)
      ELSE Done(SMAs!Loop(v, s, 0, S, s, v.end).mem, s, v.end - s + 1)
  BY Zenon DEF Run, Repeated, SMAs!Loop, SMA_Bar
<1>3. S.mem = v.mem
  OBVIOUS
<1> HIDE DEF s, S
<1>4. \A T : \A i \in s .. v.end :
         WalkKeeps(v, s, 0, S, T, i - 1) => WalkKeeps(v, s, 0, S, SMA_Bar(v, s, 0, T, i), i)
  BY <1>1, <1>3, BarKeeps DEF SMA_Bar, s
<1>5. WalkKeeps(v, s, 0, S, SMAs!Loop(v, s, 0, S, s, v.end), IF v.end < s THEN s - 1 ELSE v.end)
  BY <1>4, WalkBegins, SetInduction, SMAs!LoopInduction, Zenon DEF s
<1> QED
  BY <1>2, <1>3, <1>5, WalkEnds DEF s

\* TRIMA, bar by bar.
TRIMA_Bar(v, s, z, S, i) == Written(v, i - s, S.mem, TRIMA([v EXCEPT !.mem = S.mem], S.L, i))
TRIMAs == INSTANCE Loops WITH Step <- TRIMA_Bar, Keeps <- WalkKeeps
LEMMA TRIMATouches ==
  ASSUME NEW v, NEW lookback, CanWalk(v, lookback, 1)
  PROVE  WroteWalk(Run(v, lookback, TRIMA_Begin, TRIMA), v, lookback)
<1> DEFINE s == Larger(v.start, lookback)
           S == [L |-> TRIMA_Begin(v, s), mem |-> v.mem]
<1>1. \A u, L, i : Len(TRIMA(u, L, i).out) = 1
  BY DEF TRIMA, Keeping, Wrote
<1>2. Run(v, lookback, TRIMA_Begin, TRIMA) = IF s > v.end THEN Nothing(v)
      ELSE Done(TRIMAs!Loop(v, s, 0, S, s, v.end).mem, s, v.end - s + 1)
  BY Zenon DEF Run, Repeated, TRIMAs!Loop, TRIMA_Bar
<1>3. S.mem = v.mem
  OBVIOUS
<1> HIDE DEF s, S
<1>4. \A T : \A i \in s .. v.end :
         WalkKeeps(v, s, 0, S, T, i - 1) => WalkKeeps(v, s, 0, S, TRIMA_Bar(v, s, 0, T, i), i)
  BY <1>1, <1>3, BarKeeps DEF TRIMA_Bar, s
<1>5. WalkKeeps(v, s, 0, S, TRIMAs!Loop(v, s, 0, S, s, v.end), IF v.end < s THEN s - 1 ELSE v.end)
  BY <1>4, WalkBegins, SetInduction, TRIMAs!LoopInduction, Zenon DEF s
<1> QED
  BY <1>2, <1>3, <1>5, WalkEnds DEF s

\* WMA, bar by bar.
WMA_Bar(v, s, z, S, i) == Written(v, i - s, S.mem, WMA([v EXCEPT !.mem = S.mem], S.L, i))
WMAs == INSTANCE Loops WITH Step <- WMA_Bar, Keeps <- WalkKeeps
LEMMA WMATouches ==
  ASSUME NEW v, NEW lookback, CanWalk(v, lookback, 1)
  PROVE  WroteWalk(Run(v, lookback, WMA_Begin, WMA), v, lookback)
<1> DEFINE s == Larger(v.start, lookback)
           S == [L |-> WMA_Begin(v, s), mem |-> v.mem]
<1>1. \A u, L, i : Len(WMA(u, L, i).out) = 1
  BY DEF WMA, Wrote
<1>2. Run(v, lookback, WMA_Begin, WMA) = IF s > v.end THEN Nothing(v)
      ELSE Done(WMAs!Loop(v, s, 0, S, s, v.end).mem, s, v.end - s + 1)
  BY Zenon DEF Run, Repeated, WMAs!Loop, WMA_Bar
<1>3. S.mem = v.mem
  OBVIOUS
<1> HIDE DEF s, S
<1>4. \A T : \A i \in s .. v.end :
         WalkKeeps(v, s, 0, S, T, i - 1) => WalkKeeps(v, s, 0, S, WMA_Bar(v, s, 0, T, i), i)
  BY <1>1, <1>3, BarKeeps DEF WMA_Bar, s
<1>5. WalkKeeps(v, s, 0, S, WMAs!Loop(v, s, 0, S, s, v.end), IF v.end < s THEN s - 1 ELSE v.end)
  BY <1>4, WalkBegins, SetInduction, WMAs!LoopInduction, Zenon DEF s
<1> QED
  BY <1>2, <1>3, <1>5, WalkEnds DEF s

\* VAR, bar by bar.
VAR_Bar(v, s, z, S, i) == Written(v, i - s, S.mem, VAR([v EXCEPT !.mem = S.mem], S.L, i))
VARs == INSTANCE Loops WITH Step <- VAR_Bar, Keeps <- WalkKeeps
LEMMA VARTouches ==
  ASSUME NEW v, NEW lookback, CanWalk(v, lookback, 1)
  PROVE  WroteWalk(Run(v, lookback, VAR_Begin, VAR), v, lookback)
<1> DEFINE s == Larger(v.start, lookback)
           S == [L |-> VAR_Begin(v, s), mem |-> v.mem]
<1>1. \A u, L, i : Len(VAR(u, L, i).out) = 1
  BY DEF VAR, Wrote
<1>2. Run(v, lookback, VAR_Begin, VAR) = IF s > v.end THEN Nothing(v)
      ELSE Done(VARs!Loop(v, s, 0, S, s, v.end).mem, s, v.end - s + 1)
  BY Zenon DEF Run, Repeated, VARs!Loop, VAR_Bar
<1>3. S.mem = v.mem
  OBVIOUS
<1> HIDE DEF s, S
<1>4. \A T : \A i \in s .. v.end :
         WalkKeeps(v, s, 0, S, T, i - 1) => WalkKeeps(v, s, 0, S, VAR_Bar(v, s, 0, T, i), i)
  BY <1>1, <1>3, BarKeeps DEF VAR_Bar, s
<1>5. WalkKeeps(v, s, 0, S, VARs!Loop(v, s, 0, S, s, v.end), IF v.end < s THEN s - 1 ELSE v.end)
  BY <1>4, WalkBegins, SetInduction, VARs!LoopInduction, Zenon DEF s
<1> QED
  BY <1>2, <1>3, <1>5, WalkEnds DEF s

\* EMA, bar by bar.
EMA_Bar(v, s, z, S, i) == Written(v, i - s, S.mem, EMA([v EXCEPT !.mem = S.mem], S.L, i))
EMAs == INSTANCE Loops WITH Step <- EMA_Bar, Keeps <- WalkKeeps
LEMMA EMATouches ==
  ASSUME NEW v, NEW lookback, CanWalk(v, lookback, 1)
  PROVE  WroteWalk(Run(v, lookback, EMA_Begin, EMA), v, lookback)
<1> DEFINE s == Larger(v.start, lookback)
           S == [L |-> EMA_Begin(v, s), mem |-> v.mem]
<1>1. \A u, L, i : Len(EMA(u, L, i).out) = 1
  BY DEF EMA, Keeping, Wrote
<1>2. Run(v, lookback, EMA_Begin, EMA) = IF s > v.end THEN Nothing(v)
      ELSE Done(EMAs!Loop(v, s, 0, S, s, v.end).mem, s, v.end - s + 1)
  BY Zenon DEF Run, Repeated, EMAs!Loop, EMA_Bar
<1>3. S.mem = v.mem
  OBVIOUS
<1> HIDE DEF s, S
<1>4. \A T : \A i \in s .. v.end :
         WalkKeeps(v, s, 0, S, T, i - 1) => WalkKeeps(v, s, 0, S, EMA_Bar(v, s, 0, T, i), i)
  BY <1>1, <1>3, BarKeeps DEF EMA_Bar, s
<1>5. WalkKeeps(v, s, 0, S, EMAs!Loop(v, s, 0, S, s, v.end), IF v.end < s THEN s - 1 ELSE v.end)
  BY <1>4, WalkBegins, SetInduction, EMAs!LoopInduction, Zenon DEF s
<1> QED
  BY <1>2, <1>3, <1>5, WalkEnds DEF s

\* KAMA, bar by bar.
KAMA_Bar(v, s, z, S, i) == Written(v, i - s, S.mem, KAMA([v EXCEPT !.mem = S.mem], S.L, i))
KAMAs == INSTANCE Loops WITH Step <- KAMA_Bar, Keeps <- WalkKeeps
LEMMA KAMATouches ==
  ASSUME NEW v, NEW lookback, CanWalk(v, lookback, 1)
  PROVE  WroteWalk(Run(v, lookback, KAMA_Begin, KAMA), v, lookback)
<1> DEFINE s == Larger(v.start, lookback)
           S == [L |-> KAMA_Begin(v, s), mem |-> v.mem]
<1>1. \A u, L, i : Len(KAMA(u, L, i).out) = 1
  BY DEF KAMA, Keeping, Wrote
<1>2. Run(v, lookback, KAMA_Begin, KAMA) = IF s > v.end THEN Nothing(v)
      ELSE Done(KAMAs!Loop(v, s, 0, S, s, v.end).mem, s, v.end - s + 1)
  BY Zenon DEF Run, Repeated, KAMAs!Loop, KAMA_Bar
<1>3. S.mem = v.mem
  OBVIOUS
<1> HIDE DEF s, S
<1>4. \A T : \A i \in s .. v.end :
         WalkKeeps(v, s, 0, S, T, i - 1) => WalkKeeps(v, s, 0, S, KAMA_Bar(v, s, 0, T, i), i)
  BY <1>1, <1>3, BarKeeps DEF KAMA_Bar, s
<1>5. WalkKeeps(v, s, 0, S, KAMAs!Loop(v, s, 0, S, s, v.end), IF v.end < s THEN s - 1 ELSE v.end)
  BY <1>4, WalkBegins, SetInduction, KAMAs!LoopInduction, Zenon DEF s
<1> QED
  BY <1>2, <1>3, <1>5, WalkEnds DEF s

\* T3, bar by bar.
T3_Bar(v, s, z, S, i) == Written(v, i - s, S.mem, T3([v EXCEPT !.mem = S.mem], S.L, i))
T3s == INSTANCE Loops WITH Step <- T3_Bar, Keeps <- WalkKeeps
LEMMA T3Touches ==
  ASSUME NEW v, NEW lookback, CanWalk(v, lookback, 1)
  PROVE  WroteWalk(Run(v, lookback, T3_Begin, T3), v, lookback)
<1> DEFINE s == Larger(v.start, lookback)
           S == [L |-> T3_Begin(v, s), mem |-> v.mem]
<1>1. \A u, L, i : Len(T3(u, L, i).out) = 1
  BY DEF T3, Keeping, Wrote
<1>2. Run(v, lookback, T3_Begin, T3) = IF s > v.end THEN Nothing(v)
      ELSE Done(T3s!Loop(v, s, 0, S, s, v.end).mem, s, v.end - s + 1)
  BY Zenon DEF Run, Repeated, T3s!Loop, T3_Bar
<1>3. S.mem = v.mem
  OBVIOUS
<1> HIDE DEF s, S
<1>4. \A T : \A i \in s .. v.end :
         WalkKeeps(v, s, 0, S, T, i - 1) => WalkKeeps(v, s, 0, S, T3_Bar(v, s, 0, T, i), i)
  BY <1>1, <1>3, BarKeeps DEF T3_Bar, s
<1>5. WalkKeeps(v, s, 0, S, T3s!Loop(v, s, 0, S, s, v.end), IF v.end < s THEN s - 1 ELSE v.end)
  BY <1>4, WalkBegins, SetInduction, T3s!LoopInduction, Zenon DEF s
<1> QED
  BY <1>2, <1>3, <1>5, WalkEnds DEF s

\* RSI, bar by bar.
RSI_Bar(v, s, z, S, i) == Written(v, i - s, S.mem, RSI([v EXCEPT !.mem = S.mem], S.L, i))
RSIs == INSTANCE Loops WITH Step <- RSI_Bar, Keeps <- WalkKeeps
LEMMA RSITouches ==
  ASSUME NEW v, NEW lookback, CanWalk(v, lookback, 1)
  PROVE  WroteWalk(Run(v, lookback, RSI_Begin, RSI), v, lookback)
<1> DEFINE s == Larger(v.start, lookback)
           S == [L |-> RSI_Begin(v, s), mem |-> v.mem]
<1>1. \A u, L, i : Len(RSI(u, L, i).out) = 1
  BY DEF RSI, RSI_Wrote, Wrote
<1>2. Run(v, lookback, RSI_Begin, RSI) = IF s > v.end THEN Nothing(v)
      ELSE Done(RSIs!Loop(v, s, 0, S, s, v.end).mem, s, v.end - s + 1)
  BY Zenon DEF Run, Repeated, RSIs!Loop, RSI_Bar
<1>3. S.mem = v.mem
  OBVIOUS
<1> HIDE DEF s, S
<1>4. \A T : \A i \in s .. v.end :
         WalkKeeps(v, s, 0, S, T, i - 1) => WalkKeeps(v, s, 0, S, RSI_Bar(v, s, 0, T, i), i)
  BY <1>1, <1>3, BarKeeps DEF RSI_Bar, s
<1>5. WalkKeeps(v, s, 0, S, RSIs!Loop(v, s, 0, S, s, v.end), IF v.end < s THEN s - 1 ELSE v.end)
  BY <1>4, WalkBegins, SetInduction, RSIs!LoopInduction, Zenon DEF s
<1> QED
  BY <1>2, <1>3, <1>5, WalkEnds DEF s

\* ADX, bar by bar.
ADX_Bar(v, s, z, S, i) == Written(v, i - s, S.mem, ADX([v EXCEPT !.mem = S.mem], S.L, i))
ADXs == INSTANCE Loops WITH Step <- ADX_Bar, Keeps <- WalkKeeps
LEMMA ADXTouches ==
  ASSUME NEW v, NEW lookback, CanWalk(v, lookback, 1)
  PROVE  WroteWalk(Run(v, lookback, ADX_Begin, ADX), v, lookback)
<1> DEFINE s == Larger(v.start, lookback)
           S == [L |-> ADX_Begin(v, s), mem |-> v.mem]
<1>1. \A u, L, i : Len(ADX(u, L, i).out) = 1
  BY DEF ADX, Keeping, Wrote
<1>2. Run(v, lookback, ADX_Begin, ADX) = IF s > v.end THEN Nothing(v)
      ELSE Done(ADXs!Loop(v, s, 0, S, s, v.end).mem, s, v.end - s + 1)
  BY Zenon DEF Run, Repeated, ADXs!Loop, ADX_Bar
<1>3. S.mem = v.mem
  OBVIOUS
<1> HIDE DEF s, S
<1>4. \A T : \A i \in s .. v.end :
         WalkKeeps(v, s, 0, S, T, i - 1) => WalkKeeps(v, s, 0, S, ADX_Bar(v, s, 0, T, i), i)
  BY <1>1, <1>3, BarKeeps DEF ADX_Bar, s
<1>5. WalkKeeps(v, s, 0, S, ADXs!Loop(v, s, 0, S, s, v.end), IF v.end < s THEN s - 1 ELSE v.end)
  BY <1>4, WalkBegins, SetInduction, ADXs!LoopInduction, Zenon DEF s
<1> QED
  BY <1>2, <1>3, <1>5, WalkEnds DEF s

\* ROC, bar by bar.
ROC_Bar(v, s, z, S, i) == Written(v, i - s, S.mem, ROC([v EXCEPT !.mem = S.mem], S.L, i))
ROCs == INSTANCE Loops WITH Step <- ROC_Bar, Keeps <- WalkKeeps
LEMMA ROCTouches ==
  ASSUME NEW v, NEW lookback, CanWalk(v, lookback, 1)
  PROVE  WroteWalk(Run(v, lookback, NoLocals, ROC), v, lookback)
<1> DEFINE s == Larger(v.start, lookback)
           S == [L |-> NoLocals(v, s), mem |-> v.mem]
<1>1. \A u, L, i : Len(ROC(u, L, i).out) = 1
  BY DEF ROC, Wrote
<1>2. Run(v, lookback, NoLocals, ROC) = IF s > v.end THEN Nothing(v)
      ELSE Done(ROCs!Loop(v, s, 0, S, s, v.end).mem, s, v.end - s + 1)
  BY Zenon DEF Run, Repeated, ROCs!Loop, ROC_Bar
<1>3. S.mem = v.mem
  OBVIOUS
<1> HIDE DEF s, S
<1>4. \A T : \A i \in s .. v.end :
         WalkKeeps(v, s, 0, S, T, i - 1) => WalkKeeps(v, s, 0, S, ROC_Bar(v, s, 0, T, i), i)
  BY <1>1, <1>3, BarKeeps DEF ROC_Bar, s
<1>5. WalkKeeps(v, s, 0, S, ROCs!Loop(v, s, 0, S, s, v.end), IF v.end < s THEN s - 1 ELSE v.end)
  BY <1>4, WalkBegins, SetInduction, ROCs!LoopInduction, Zenon DEF s
<1> QED
  BY <1>2, <1>3, <1>5, WalkEnds DEF s

\* FastK, bar by bar.
FastK_Bar(v, s, z, S, i) == Written(v, i - s, S.mem, FastK([v EXCEPT !.mem = S.mem], S.L, i))
FastKs == INSTANCE Loops WITH Step <- FastK_Bar, Keeps <- WalkKeeps
LEMMA FastKTouches ==
  ASSUME NEW v, NEW lookback, CanWalk(v, lookback, 1)
  PROVE  WroteWalk(Run(v, lookback, ChannelBegin, FastK), v, lookback)
<1> DEFINE s == Larger(v.start, lookback)
           S == [L |-> ChannelBegin(v, s), mem |-> v.mem]
<1>1. \A u, L, i : Len(FastK(u, L, i).out) = 1
  BY DEF FastK, Keeping, Wrote
<1>2. Run(v, lookback, ChannelBegin, FastK) = IF s > v.end THEN Nothing(v)
      ELSE Done(FastKs!Loop(v, s, 0, S, s, v.end).mem, s, v.end - s + 1)
  BY Zenon DEF Run, Repeated, FastKs!Loop, FastK_Bar
<1>3. S.mem = v.mem
  OBVIOUS
<1> HIDE DEF s, S
<1>4. \A T : \A i \in s .. v.end :
         WalkKeeps(v, s, 0, S, T, i - 1) => WalkKeeps(v, s, 0, S, FastK_Bar(v, s, 0, T, i), i)
  BY <1>1, <1>3, BarKeeps DEF FastK_Bar, s
<1>5. WalkKeeps(v, s, 0, S, FastKs!Loop(v, s, 0, S, s, v.end), IF v.end < s THEN s - 1 ELSE v.end)
  BY <1>4, WalkBegins, SetInduction, FastKs!LoopInduction, Zenon DEF s
<1> QED
  BY <1>2, <1>3, <1>5, WalkEnds DEF s

\* MAMA, bar by bar.
MAMA_Step(u, L, i) == Shown(MAMA(u, L, i), LAMBDA M : <<M.mama, M.fama>>)
MAMA_Bar(v, s, z, S, i) == Written(v, i - s, S.mem, MAMA_Step([v EXCEPT !.mem = S.mem], S.L, i))
MAMAs == INSTANCE Loops WITH Step <- MAMA_Bar, Keeps <- WalkKeeps
LEMMA MAMATouches ==
  ASSUME NEW v, CanWalk(v, Lookback32(v), 2)
  PROVE  WroteWalk(TA_MAMA(v), v, Lookback32(v))
<1> DEFINE s == Larger(v.start, Lookback32(v))
           S == [L |-> CyclesBegin(v, s, Lookback32(v), 9, MAMA,
                                    [prevPhase |-> 0, mama |-> 0, fama |-> 0]),
                 mem |-> v.mem]
<1>1. \A u, L, i : Len(MAMA_Step(u, L, i).out) = 2
  BY DEF MAMA_Step, Shown
<1>2. TA_MAMA(v) = IF s > v.end THEN Nothing(v)
      ELSE Done(MAMAs!Loop(v, s, 0, S, s, v.end).mem, s, v.end - s + 1)
  BY Zenon DEF Run, Repeated, MAMAs!Loop, MAMA_Bar, TA_MAMA, RunCycles, MAMA_Step
<1>3. S.mem = v.mem
  OBVIOUS
<1> HIDE DEF s, S
<1>4. \A T : \A i \in s .. v.end :
         WalkKeeps(v, s, 0, S, T, i - 1) => WalkKeeps(v, s, 0, S, MAMA_Bar(v, s, 0, T, i), i)
  BY <1>1, <1>3, BarKeeps DEF MAMA_Bar, s
<1>5. WalkKeeps(v, s, 0, S, MAMAs!Loop(v, s, 0, S, s, v.end), IF v.end < s THEN s - 1 ELSE v.end)
  BY <1>4, WalkBegins, SetInduction, MAMAs!LoopInduction, Zenon DEF s
<1> QED
  BY <1>2, <1>3, <1>5, WalkEnds DEF s

-----------------------------------------------------------------------------
(* The loops of the functions that call others.  Each writes the elements  *)
(* of one array in their order.                                            *)

\* The elements of dest up to k were written.
FirstKeeps(v, y, z, S, T, k) == Touches(Uniform({Out(v, 1)}, k + 1), {}, S, T)
ThirdKeeps(v, y, z, S, T, k) == Touches(Uniform({Out(v, 3)}, k + 1), {}, S, T)
FastKeeps(x, y, z, S, T, k)  == Touches(Uniform({"fastBuffer"}, k + 1), {}, S, T)
DestKeeps(dest, y, z, S, T, k) == Touches(Uniform({dest}, k + 1), {}, S, T)

\* A write of the next element.
LEMMA StoreNext ==
  ASSUME NEW S, NEW dest, NEW n \in Nat, HasRoom(S, dest, n), NEW k \in 0 .. (n - 1), NEW T,
         Touches(Uniform({dest}, (k - 1) + 1), {}, S, T), NEW value
  PROVE  Touches(Uniform({dest}, k + 1), {}, S, Store(T, dest, k, value))
<1> DEFINE A == Uniform({dest}, k + 1)
<1>1. DOMAIN A = {dest} /\ A[dest] = k + 1 /\ k \in 0 .. ((k + 1) - 1) /\ k \in Int
  BY DEF Uniform
<1>2. Touches(A, {}, S, T)
  BY <1>1, TouchesLess DEF Covers, Uniform
<1>3. 0 .. ((k + 1) - 1) \subseteq 0 .. (n - 1)
  OBVIOUS
<1>4. HasRoom(S, dest, k + 1)
  BY <1>3 DEF HasRoom
<1>5. HasRoom(T, dest, k + 1)
  BY <1>2, <1>4, RoomKept
<1> HIDE DEF A
<1> QED
  BY <1>1, <1>2, <1>5, StoreTouches DEF A

\* A copy of n elements.
Move_Each(dest, array, from, S, k) ==
    Store(S, dest, k, IF from + k \in DOMAIN array THEN array[from + k] ELSE Garbage)
Moves == INSTANCE Loops WITH Step <- Move_Each, Keeps <- DestKeeps

\* It writes n elements of dest.
LEMMA MoveTouches ==
  ASSUME NEW dest, NEW src, NEW from, NEW S, NEW n \in Nat, HasRoom(S, dest, n)
  PROVE  Touches(Uniform({dest}, n), {}, S, Move(S, dest, src, from, n))
<1>1. Move(S, dest, src, from, n) = Moves!Loop(dest, S[src], from, S, 0, n - 1)
  BY Zenon DEF Move, Element, Repeated, Moves!Loop, Move_Each
<1>2. \A T : \A k \in 0 .. (n - 1) :
         DestKeeps(dest, S[src], from, S, T, k - 1)
         => DestKeeps(dest, S[src], from, S, Move_Each(dest, S[src], from, T, k), k)
  BY StoreNext DEF DestKeeps, Move_Each
<1>3. DestKeeps(dest, S[src], from, S, S, 0 - 1) /\ 0 \in Int /\ n - 1 \in Int
  BY TouchesNothing DEF DestKeeps
<1>4. DestKeeps(dest, S[src], from, S, Moves!Loop(dest, S[src], from, S, 0, n - 1),
                IF n - 1 < 0 THEN 0 - 1 ELSE n - 1)
  BY <1>2, <1>3, SetInduction, Moves!LoopInduction, Zenon
<1>5. (IF n - 1 < 0 THEN 0 - 1 ELSE n - 1) + 1 = n
  OBVIOUS
<1> QED
  BY <1>1, <1>4, <1>5 DEF DestKeeps

\* The deviations of the variances in the output.
Root_All(v, S, n) ==
    EachElement(S, Out(v, 1), n, LAMBDA mem, k :
                     Times(Deviation(Element(mem, Out(v, 1), k)), v.nbDevUp))
Root_Each(v, y, z, S, k) ==
    Store(S, Out(v, 1), k, Times(Deviation(Element(S, Out(v, 1), k)), v.nbDevUp))
Roots == INSTANCE Loops WITH Step <- Root_Each, Keeps <- FirstKeeps

\* It writes n elements of the output.
LEMMA RootTouches ==
  ASSUME NEW v, NEW S, NEW n \in Nat, HasRoom(S, Out(v, 1), n)
  PROVE  Touches(Uniform({Out(v, 1)}, n), {}, S, Root_All(v, S, n))
<1>1. Root_All(v, S, n) = Roots!Loop(v, 0, 0, S, 0, n - 1)
  BY Zenon DEF Root_All, EachElement, StoreEach, Repeated, Roots!Loop, Root_Each
<1>2. \A T : \A k \in 0 .. (n - 1) :
         FirstKeeps(v, 0, 0, S, T, k - 1) => FirstKeeps(v, 0, 0, S, Root_Each(v, 0, 0, T, k), k)
  BY StoreNext DEF FirstKeeps, Root_Each
<1>3. FirstKeeps(v, 0, 0, S, S, 0 - 1) /\ 0 \in Int /\ n - 1 \in Int
  BY TouchesNothing DEF FirstKeeps
<1>4. FirstKeeps(v, 0, 0, S, Roots!Loop(v, 0, 0, S, 0, n - 1), IF n - 1 < 0 THEN 0 - 1 ELSE n - 1)
  BY <1>2, <1>3, SetInduction, Roots!LoopInduction, Zenon
<1>5. (IF n - 1 < 0 THEN 0 - 1 ELSE n - 1) + 1 = n
  OBVIOUS
<1> QED
  BY <1>1, <1>4, <1>5 DEF FirstKeeps

\* The loop of DEMA.
Double_All(v, one, second, S, n) ==
    EachElement(S, Out(v, 1), n, LAMBDA mem, k :
                     2 * Element(mem, one, second.beg + k) - Element(mem, "secondEMA", k))
Double_Each(v, one, second, S, k) ==
    Store(S, Out(v, 1), k, 2 * Element(S, one, second.beg + k) - Element(S, "secondEMA", k))
Doubles == INSTANCE Loops WITH Step <- Double_Each, Keeps <- FirstKeeps

\* It writes n elements of the output.
LEMMA DoubleTouches ==
  ASSUME NEW v, NEW one, NEW second, NEW S, NEW n \in Nat, HasRoom(S, Out(v, 1), n)
  PROVE  Touches(Uniform({Out(v, 1)}, n), {}, S, Double_All(v, one, second, S, n))
<1>1. Double_All(v, one, second, S, n) = Doubles!Loop(v, one, second, S, 0, n - 1)
  BY Zenon DEF Double_All, EachElement, StoreEach, Repeated, Doubles!Loop, Double_Each
<1>2. \A T : \A k \in 0 .. (n - 1) :
         FirstKeeps(v, one, second, S, T, k - 1)
         => FirstKeeps(v, one, second, S, Double_Each(v, one, second, T, k), k)
  BY StoreNext DEF FirstKeeps, Double_Each
<1>3. FirstKeeps(v, one, second, S, S, 0 - 1) /\ 0 \in Int /\ n - 1 \in Int
  BY TouchesNothing DEF FirstKeeps
<1>4. FirstKeeps(v, one, second, S, Doubles!Loop(v, one, second, S, 0, n - 1),
                 IF n - 1 < 0 THEN 0 - 1 ELSE n - 1)
  BY <1>2, <1>3, SetInduction, Doubles!LoopInduction, Zenon
<1>5. (IF n - 1 < 0 THEN 0 - 1 ELSE n - 1) + 1 = n
  OBVIOUS
<1> QED
  BY <1>1, <1>4, <1>5 DEF FirstKeeps

\* The loop of TEMA.
Triple_All(v, second, third, S, n) ==
    EachElement(S, Out(v, 1), n, LAMBDA mem, k :
             Element(mem, Out(v, 1), k)
             + 3 * Element(mem, "firstEMA", third.beg + second.beg + k)
             - 3 * Element(mem, "secondEMA", third.beg + k))
Triple_Each(v, second, third, S, k) ==
    Store(S, Out(v, 1), k, Element(S, Out(v, 1), k)
             + 3 * Element(S, "firstEMA", third.beg + second.beg + k)
             - 3 * Element(S, "secondEMA", third.beg + k))
Triples == INSTANCE Loops WITH Step <- Triple_Each, Keeps <- FirstKeeps

\* It writes n elements of the output.
LEMMA TripleTouches ==
  ASSUME NEW v, NEW second, NEW third, NEW S, NEW n \in Nat, HasRoom(S, Out(v, 1), n)
  PROVE  Touches(Uniform({Out(v, 1)}, n), {}, S, Triple_All(v, second, third, S, n))
<1>1. Triple_All(v, second, third, S, n) = Triples!Loop(v, second, third, S, 0, n - 1)
  BY Zenon DEF Triple_All, EachElement, StoreEach, Repeated, Triples!Loop, Triple_Each
<1>2. \A T : \A k \in 0 .. (n - 1) :
         FirstKeeps(v, second, third, S, T, k - 1)
         => FirstKeeps(v, second, third, S, Triple_Each(v, second, third, T, k), k)
  BY StoreNext DEF FirstKeeps, Triple_Each
<1>3. FirstKeeps(v, second, third, S, S, 0 - 1) /\ 0 \in Int /\ n - 1 \in Int
  BY TouchesNothing DEF FirstKeeps
<1>4. FirstKeeps(v, second, third, S, Triples!Loop(v, second, third, S, 0, n - 1),
                 IF n - 1 < 0 THEN 0 - 1 ELSE n - 1)
  BY <1>2, <1>3, SetInduction, Triples!LoopInduction, Zenon
<1>5. (IF n - 1 < 0 THEN 0 - 1 ELSE n - 1) + 1 = n
  OBVIOUS
<1> QED
  BY <1>1, <1>4, <1>5 DEF FirstKeeps

\* The histogram of MACD.
Bar_All(v, S, n) ==
    EachElement(S, Out(v, 3), n, LAMBDA mem, k :
             Element(mem, Out(v, 1), k) - Element(mem, Out(v, 2), k))
Bar_Each(v, y, z, S, k) ==
    Store(S, Out(v, 3), k, Element(S, Out(v, 1), k) - Element(S, Out(v, 2), k))
Bars == INSTANCE Loops WITH Step <- Bar_Each, Keeps <- ThirdKeeps

\* It writes n elements of the third output.
LEMMA BarTouches ==
  ASSUME NEW v, NEW S, NEW n \in Nat, HasRoom(S, Out(v, 3), n)
  PROVE  Touches(Uniform({Out(v, 3)}, n), {}, S, Bar_All(v, S, n))
<1>1. Bar_All(v, S, n) = Bars!Loop(v, 0, 0, S, 0, n - 1)
  BY Zenon DEF Bar_All, EachElement, StoreEach, Repeated, Bars!Loop, Bar_Each
<1>2. \A T : \A k \in 0 .. (n - 1) :
         ThirdKeeps(v, 0, 0, S, T, k - 1) => ThirdKeeps(v, 0, 0, S, Bar_Each(v, 0, 0, T, k), k)
  BY StoreNext DEF ThirdKeeps, Bar_Each
<1>3. ThirdKeeps(v, 0, 0, S, S, 0 - 1) /\ 0 \in Int /\ n - 1 \in Int
  BY TouchesNothing DEF ThirdKeeps
<1>4. ThirdKeeps(v, 0, 0, S, Bars!Loop(v, 0, 0, S, 0, n - 1), IF n - 1 < 0 THEN 0 - 1 ELSE n - 1)
  BY <1>2, <1>3, SetInduction, Bars!LoopInduction, Zenon
<1>5. (IF n - 1 < 0 THEN 0 - 1 ELSE n - 1) + 1 = n
  OBVIOUS
<1> QED
  BY <1>1, <1>4, <1>5 DEF ThirdKeeps

\* The fast less the slow average.
Less_All(S, n) ==
    EachElement(S, "fastBuffer", n, LAMBDA m, k :
             Element(m, "fastBuffer", k) - Element(m, "slowBuffer", k))
Less_Each(x, y, z, S, k) ==
    Store(S, "fastBuffer", k, Element(S, "fastBuffer", k) - Element(S, "slowBuffer", k))
Lesss == INSTANCE Loops WITH Step <- Less_Each, Keeps <- FastKeeps

\* It writes n elements of the fast average.
LEMMA LessTouches ==
  ASSUME NEW S, NEW n \in Nat, HasRoom(S, "fastBuffer", n)
  PROVE  Touches(Uniform({"fastBuffer"}, n), {}, S, Less_All(S, n))
<1>1. Less_All(S, n) = Lesss!Loop(0, 0, 0, S, 0, n - 1)
  BY Zenon DEF Less_All, EachElement, StoreEach, Repeated, Lesss!Loop, Less_Each
<1>2. \A T : \A k \in 0 .. (n - 1) :
         FastKeeps(0, 0, 0, S, T, k - 1) => FastKeeps(0, 0, 0, S, Less_Each(0, 0, 0, T, k), k)
  BY StoreNext DEF FastKeeps, Less_Each
<1>3. FastKeeps(0, 0, 0, S, S, 0 - 1) /\ 0 \in Int /\ n - 1 \in Int
  BY TouchesNothing DEF FastKeeps
<1>4. FastKeeps(0, 0, 0, S, Lesss!Loop(0, 0, 0, S, 0, n - 1), IF n - 1 < 0 THEN 0 - 1 ELSE n - 1)
  BY <1>2, <1>3, SetInduction, Lesss!LoopInduction, Zenon
<1>5. (IF n - 1 < 0 THEN 0 - 1 ELSE n - 1) + 1 = n
  OBVIOUS
<1> QED
  BY <1>1, <1>4, <1>5 DEF FastKeeps

\* The loop of ADXR.
Rate_All(v, S, n) ==
    EachElement(S, Out(v, 1), n, LAMBDA mem, k :
             (Element(mem, "adx", k + PeriodLessOne(v)) + Element(mem, "adx", k)) \div 2)
Rate_Each(v, y, z, S, k) ==
    Store(S, Out(v, 1), k, (Element(S, "adx", k + PeriodLessOne(v)) + Element(S, "adx", k)) \div 2)
Rates == INSTANCE Loops WITH Step <- Rate_Each, Keeps <- FirstKeeps

\* It writes n elements of the output.
LEMMA RateTouches ==
  ASSUME NEW v, NEW S, NEW n \in Nat, HasRoom(S, Out(v, 1), n)
  PROVE  Touches(Uniform({Out(v, 1)}, n), {}, S, Rate_All(v, S, n))
<1>1. Rate_All(v, S, n) = Rates!Loop(v, 0, 0, S, 0, n - 1)
  BY Zenon DEF Rate_All, EachElement, StoreEach, Repeated, Rates!Loop, Rate_Each
<1>2. \A T : \A k \in 0 .. (n - 1) :
         FirstKeeps(v, 0, 0, S, T, k - 1) => FirstKeeps(v, 0, 0, S, Rate_Each(v, 0, 0, T, k), k)
  BY StoreNext DEF FirstKeeps, Rate_Each
<1>3. FirstKeeps(v, 0, 0, S, S, 0 - 1) /\ 0 \in Int /\ n - 1 \in Int
  BY TouchesNothing DEF FirstKeeps
<1>4. FirstKeeps(v, 0, 0, S, Rates!Loop(v, 0, 0, S, 0, n - 1), IF n - 1 < 0 THEN 0 - 1 ELSE n - 1)
  BY <1>2, <1>3, SetInduction, Rates!LoopInduction, Zenon
<1>5. (IF n - 1 < 0 THEN 0 - 1 ELSE n - 1) + 1 = n
  OBVIOUS
<1> QED
  BY <1>1, <1>4, <1>5 DEF FirstKeeps

\* The loop of APO and PPO.
Apart_All(v, percentage, shift, S, n) ==
    EachElement(S, Out(v, 1), n, LAMBDA mem, k :
             IF percentage
             THEN ShareOfSlow(Element(mem, "tempBuffer", shift + k) - Element(mem, Out(v, 1), k),
                              Element(mem, Out(v, 1), k))
             ELSE Element(mem, "tempBuffer", shift + k) - Element(mem, Out(v, 1), k))
Apart_Each(v, percentage, shift, S, k) ==
    Store(S, Out(v, 1), k, IF percentage
             THEN ShareOfSlow(Element(S, "tempBuffer", shift + k) - Element(S, Out(v, 1), k),
                              Element(S, Out(v, 1), k))
             ELSE Element(S, "tempBuffer", shift + k) - Element(S, Out(v, 1), k))
Aparts == INSTANCE Loops WITH Step <- Apart_Each, Keeps <- FirstKeeps

\* It writes n elements of the output.
LEMMA ApartTouches ==
  ASSUME NEW v, NEW percentage, NEW shift, NEW S, NEW n \in Nat, HasRoom(S, Out(v, 1), n)
  PROVE  Touches(Uniform({Out(v, 1)}, n), {}, S, Apart_All(v, percentage, shift, S, n))
<1>1. Apart_All(v, percentage, shift, S, n) = Aparts!Loop(v, percentage, shift, S, 0, n - 1)
  BY Zenon DEF Apart_All, EachElement, StoreEach, Repeated, Aparts!Loop, Apart_Each
<1>2. \A T : \A k \in 0 .. (n - 1) :
         FirstKeeps(v, percentage, shift, S, T, k - 1)
         => FirstKeeps(v, percentage, shift, S, Apart_Each(v, percentage, shift, T, k), k)
  BY StoreNext DEF FirstKeeps, Apart_Each
<1>3. FirstKeeps(v, percentage, shift, S, S, 0 - 1) /\ 0 \in Int /\ n - 1 \in Int
  BY TouchesNothing DEF FirstKeeps
<1>4. FirstKeeps(v, percentage, shift, S, Aparts!Loop(v, percentage, shift, S, 0, n - 1),
                 IF n - 1 < 0 THEN 0 - 1 ELSE n - 1)
  BY <1>2, <1>3, SetInduction, Aparts!LoopInduction, Zenon
<1>5. (IF n - 1 < 0 THEN 0 - 1 ELSE n - 1) + 1 = n
  OBVIOUS
<1> QED
  BY <1>1, <1>4, <1>5 DEF FirstKeeps

\* Both bands of a bar.
Band_All(v, buffers, S, n) ==
    Repeated(LAMBDA mem, k :
                 Band(v, mem, k, Element(mem, Out(v, 2), k), Element(mem, buffers[2], k)),
             S, 0, n - 1)
BandKeeps(v, buffers, z, S, T, k) == Touches(Uniform({Out(v, 1), Out(v, 3)}, k + 1), {}, S, T)
Band_Each(v, buffers, z, S, k) ==
    Band(v, S, k, Element(S, Out(v, 2), k), Element(S, buffers[2], k))
BandLoops == INSTANCE Loops WITH Step <- Band_Each, Keeps <- BandKeeps

\* They write n elements of the first and the third output.
LEMMA BandTouches ==
  ASSUME NEW v, NEW buffers, NEW S, NEW n \in Nat, HasRoom(S, Out(v, 1), n), HasRoom(S, Out(v, 3), n)
  PROVE  Touches(Uniform({Out(v, 1), Out(v, 3)}, n), {}, S, Band_All(v, buffers, S, n))
<1>1. Band_All(v, buffers, S, n) = BandLoops!Loop(v, buffers, 0, S, 0, n - 1)
  BY Zenon DEF Band_All, Repeated, BandLoops!Loop, Band_Each
<1>2. ASSUME NEW T, NEW k \in 0 .. (n - 1), BandKeeps(v, buffers, 0, S, T, k - 1)
      PROVE  BandKeeps(v, buffers, 0, S, Band_Each(v, buffers, 0, T, k), k)
  <2> DEFINE A == Uniform({Out(v, 1), Out(v, 3)}, k + 1)
             high == Element(T, Out(v, 2), k) + Times(Element(T, buffers[2], k), v.nbDevUp)
             low  == Element(T, Out(v, 2), k) - Times(Element(T, buffers[2], k), v.nbDevDn)
             X    == Store(T, Out(v, 1), k, high)
  <2>1. /\ DOMAIN A = {Out(v, 1), Out(v, 3)} /\ A[Out(v, 1)] = k + 1 /\ A[Out(v, 3)] = k + 1
        /\ k \in 0 .. ((k + 1) - 1) /\ k \in Int
    BY DEF Uniform
  <2>2. Touches(A, {}, S, T)
    BY <1>2, <2>1, TouchesLess DEF Covers, Uniform, BandKeeps
  <2>3. 0 .. ((k + 1) - 1) \subseteq 0 .. (n - 1)
    OBVIOUS
  <2>4. HasRoom(S, Out(v, 1), k + 1) /\ HasRoom(S, Out(v, 3), k + 1)
    BY <2>3 DEF HasRoom
  <2>5. Band_Each(v, buffers, 0, T, k) = Store(X, Out(v, 3), k, low)
    BY DEF Band_Each, Band
  <2> HIDE DEF A, high, low
  <2>6. Touches(A, {}, S, X)
    BY <2>1, <2>2, <2>4, RoomKept, StoreTouches
  <2> HIDE DEF X
  <2>7. Touches(A, {}, S, Store(X, Out(v, 3), k, low))
    BY <2>1, <2>4, <2>6, RoomKept, StoreTouches
  <2> QED
    BY <2>5, <2>7 DEF A, BandKeeps
<1>3. BandKeeps(v, buffers, 0, S, S, 0 - 1) /\ 0 \in Int /\ n - 1 \in Int
  BY TouchesNothing DEF BandKeeps
<1>4. BandKeeps(v, buffers, 0, S, BandLoops!Loop(v, buffers, 0, S, 0, n - 1),
                IF n - 1 < 0 THEN 0 - 1 ELSE n - 1)
  BY <1>2, <1>3, SetInduction, BandLoops!LoopInduction, Zenon
<1>5. (IF n - 1 < 0 THEN 0 - 1 ELSE n - 1) + 1 = n
  OBVIOUS
<1> QED
  BY <1>1, <1>4, <1>5 DEF BandKeeps

\* The deviations from an average that is there.
PrecalcKeeps(v, buffers, beg, S, T, k) == Touches(Uniform({buffers[2]}, k + 1), {}, S.mem, T.mem)
Precalc_Each(v, buffers, beg, S, k) == Precalc_Next(v, buffers, beg, S, k)
PrecalcLoops == INSTANCE Loops WITH Step <- Precalc_Each, Keeps <- PrecalcKeeps

\* They are as many as the average has elements.
LEMMA PrecalcTouches ==
  ASSUME NEW v, NEW buffers, NEW average, average.nb \in Nat,
         HasRoom(average.mem, buffers[2], average.nb)
  PROVE  Touches(Uniform({buffers[2]}, average.nb), {}, average.mem,
                 TA_INT_stddev_using_precalc_ma(v, buffers, average))
<1> DEFINE S == [mem |-> average.mem,
                 total |-> Total(LAMBDA k : Square(Element(average.mem, Input(v), k)),
                                 average.beg + 1 - v.period, average.beg - 1)]
           n == average.nb
           beg == average.beg
<1>1. TA_INT_stddev_using_precalc_ma(v, buffers, average)
      = PrecalcLoops!Loop(v, buffers, beg, S, 0, n - 1).mem
  BY Zenon DEF TA_INT_stddev_using_precalc_ma, Repeated, PrecalcLoops!Loop, Precalc_Each
<1>2. S.mem = average.mem
  OBVIOUS
<1> HIDE DEF S, beg
<1>3. ASSUME NEW T, NEW k \in 0 .. (n - 1), PrecalcKeeps(v, buffers, beg, S, T, k - 1)
      PROVE  PrecalcKeeps(v, buffers, beg, S, Precalc_Each(v, buffers, beg, T, k), k)
  <2>1. \E value : Precalc_Each(v, buffers, beg, T, k).mem = Store(T.mem, buffers[2], k, value)
    BY Zenon DEF Precalc_Each, Precalc_Next
  <2> QED
    BY <1>2, <1>3, <2>1, StoreNext DEF PrecalcKeeps
<1>4. PrecalcKeeps(v, buffers, beg, S, S, 0 - 1) /\ 0 \in Int /\ n - 1 \in Int
  BY TouchesNothing DEF PrecalcKeeps
<1>5. PrecalcKeeps(v, buffers, beg, S, PrecalcLoops!Loop(v, buffers, beg, S, 0, n - 1),
                   IF n - 1 < 0 THEN 0 - 1 ELSE n - 1)
  BY <1>3, <1>4, SetInduction, PrecalcLoops!LoopInduction, Zenon
<1>6. (IF n - 1 < 0 THEN 0 - 1 ELSE n - 1) + 1 = n
  OBVIOUS
<1> QED
  BY <1>1, <1>2, <1>5, <1>6 DEF PrecalcKeeps

\* MAVP's copy of the elements that have the same period.
Copy_All(v, same, S, k, n) ==
    Repeated(LAMBDA m, j :
                 IF j \in same THEN Store(m, Out(v, 1), j, m["localOutputArray"][j]) ELSE m,
             S, k, n - 1)
CopyKeeps(v, same, z, S, T, k) == Touches(Uniform({Out(v, 1)}, k + 1), {}, S, T)
Copy_Each(v, same, z, S, j) ==
    IF j \in same THEN Store(S, Out(v, 1), j, S["localOutputArray"][j]) ELSE S
CopyLoops == INSTANCE Loops WITH Step <- Copy_Each, Keeps <- CopyKeeps

\* It writes no element after the first n.
LEMMA CopyTouches ==
  ASSUME NEW v, NEW same, NEW S, NEW n \in Nat, NEW k \in 0 .. (n - 1), HasRoom(S, Out(v, 1), n)
  PROVE  Touches(Uniform({Out(v, 1)}, n), {}, S, Copy_All(v, same, S, k, n))
<1>1. Copy_All(v, same, S, k, n) = CopyLoops!Loop(v, same, 0, S, k, n - 1)
  BY Zenon DEF Copy_All, Repeated, CopyLoops!Loop, Copy_Each
<1>2. ASSUME NEW T, NEW j \in k .. (n - 1), CopyKeeps(v, same, 0, S, T, j - 1)
      PROVE  CopyKeeps(v, same, 0, S, Copy_Each(v, same, 0, T, j), j)
  <2>1. j \in 0 .. (n - 1)
    OBVIOUS
  <2>2. CASE j \in same
    BY <1>2, <2>1, <2>2, StoreNext DEF CopyKeeps, Copy_Each
  <2>3. CASE j \notin same
    <3>1. Touches(Uniform({Out(v, 1)}, (j - 1) + 1), {}, S, T)
      BY <1>2 DEF CopyKeeps
    <3>2. Touches(Uniform({Out(v, 1)}, j + 1), {}, S, T)
      BY <2>1, <3>1, TouchesLess DEF Covers, Uniform
    <3> QED
      BY <2>3, <3>2 DEF CopyKeeps, Copy_Each
  <2> QED
    BY <2>2, <2>3
<1>3. CopyKeeps(v, same, 0, S, S, k - 1) /\ k \in Int /\ n - 1 \in Int
  BY TouchesNothing DEF CopyKeeps
<1>4. CopyKeeps(v, same, 0, S, CopyLoops!Loop(v, same, 0, S, k, n - 1),
                IF n - 1 < k THEN k - 1 ELSE n - 1)
  BY <1>2, <1>3, SetInduction, CopyLoops!LoopInduction, Zenon
<1>5. (IF n - 1 < k THEN k - 1 ELSE n - 1) + 1 = n
  OBVIOUS
<1> QED
  BY <1>1, <1>4, <1>5 DEF CopyKeeps

-----------------------------------------------------------------------------
(* What a function may write: of an output that is the array of an input,  *)
(* the bars to the end of the range; of another, what its lookback says.   *)

\* The inputs of a call.
Ins(v) == {v.from[x] : x \in DOMAIN v.from}

\* The elements of each output that a call may write.
Budget(v, lookback) ==
    [o \in Outs(v) |-> IF o \in Ins(v) THEN v.end + 1 ELSE Count(v, lookback)]

\* The outputs have the elements of the budget, and are none of the temporary arrays.
CanCall(v, lookback, outs, temps) ==
    /\ IsCall(v)
    /\ v.start \in Nat
    /\ lookback \in Int
    /\ 1 .. outs \subseteq DOMAIN v.to
    /\ Outs(v) \cap temps = {}
    /\ \A o \in Outs(v) : HasRoom(v.mem, o, Budget(v, lookback)[o])

\* The answer r of v keeps to the budget.
Fits(r, v, lookback, temps) == Touches(Budget(v, lookback), temps, v.mem, r.mem)

\* Less room than there is.
LEMMA LessRoom ==
  ASSUME NEW m, NEW a, NEW n \in Int, HasRoom(m, a, n), NEW k \in Int, k =< n \/ k =< 0
  PROVE  HasRoom(m, a, k)
<1>1. 0 .. (k - 1) \subseteq 0 .. (n - 1)
  OBVIOUS
<1> QED
  BY <1>1 DEF HasRoom

\* A new array has its size, and is a temporary one.
LEMMA AllocateFits ==
  ASSUME NEW m, NEW name, NEW n \in Int, NEW T, NEW temps, name \in temps
  PROVE  /\ HasRoom(Allocate(m, name, n), name, n)
         /\ Touches(T, temps, m, Allocate(m, name, n))
         /\ Touches(<<>>, {name}, m, Allocate(m, name, n))
         /\ \A a : a # name => \A k : HasRoom(m, a, k) => HasRoom(Allocate(m, name, n), a, k)
BY DEF Allocate, Array, HasRoom, Touches, Within

\* A write to arrays of the budget, as many elements.
LEMMA CoversUniform ==
  ASSUME NEW T, NEW temps, NEW temps1, temps1 \subseteq temps, NEW arrays, NEW n \in Int,
         \A a \in arrays \ temps : a \in DOMAIN T /\ T[a] \in Int /\ n =< Larger(0, T[a])
  PROVE  Covers(T, temps, Uniform(arrays, n), temps1)
<1>1. ASSUME NEW a \in arrays \ temps PROVE 0 .. (n - 1) \subseteq 0 .. (T[a] - 1)
  BY DEF Larger
<1> QED
  BY <1>1 DEF Covers, Uniform

\* The budget of an output is at least what the lookback says.
LEMMA BudgetIs ==
  ASSUME NEW v, NEW lookback \in Int, NEW outs, NEW temps, CanCall(v, lookback, outs, temps)
  PROVE  /\ DOMAIN Budget(v, lookback) = Outs(v)
         /\ Count(v, lookback) \in Int /\ v.end \in Int /\ v.start \in Int
         /\ \A o \in Outs(v) :
               /\ Budget(v, lookback)[o] \in Int
               /\ Count(v, lookback) =< Budget(v, lookback)[o]
               /\ o \in Ins(v) => Budget(v, lookback)[o] = v.end + 1
               /\ o \notin Ins(v) => Budget(v, lookback)[o] = Count(v, lookback)
               /\ HasRoom(v.mem, o, Count(v, lookback))
               /\ HasRoom(v.mem, o, Budget(v, lookback)[o])
<1>1. v.end \in Int /\ v.start \in Nat
  BY DEF CanCall, IsCall
<1>2. Count(v, lookback) \in Int /\ Count(v, lookback) =< v.end + 1
  BY <1>1 DEF Count, Larger
<1>3. ASSUME NEW o \in Outs(v)
      PROVE  /\ Budget(v, lookback)[o] \in Int
             /\ Count(v, lookback) =< Budget(v, lookback)[o]
             /\ o \in Ins(v) => Budget(v, lookback)[o] = v.end + 1
             /\ o \notin Ins(v) => Budget(v, lookback)[o] = Count(v, lookback)
  BY <1>1, <1>2 DEF Budget
<1>4. \A o \in Outs(v) : HasRoom(v.mem, o, Count(v, lookback))
  BY <1>2, <1>3, LessRoom DEF CanCall
<1> QED
  BY <1>1, <1>2, <1>3, <1>4 DEF Budget, CanCall

\* A walk keeps to its budget.
LEMMA WalkFits ==
  ASSUME NEW v, NEW lookback \in Int, NEW outs, NEW temps, CanCall(v, lookback, outs, temps), NEW r,
         CanWalk(v, lookback, outs) => WroteWalk(r, v, lookback)
  PROVE  Fits(r, v, lookback, temps)
<1> DEFINE T == Budget(v, lookback)
           n == Count(v, lookback)
<1>1. /\ DOMAIN T = Outs(v) /\ n \in Int /\ v.end \in Int /\ v.start \in Int
      /\ \A o \in Outs(v) : T[o] \in Int /\ n =< T[o] /\ HasRoom(v.mem, o, n)
  BY BudgetIs
<1>2. CanWalk(v, lookback, outs)
  BY <1>1 DEF CanWalk, CanCall
<1>3. Touches(Uniform(Outs(v), n), {}, v.mem, r.mem)
  BY <1>2 DEF WroteWalk
<1> HIDE DEF T, n
<1>4. \A a \in Outs(v) \ temps : a \in DOMAIN T /\ T[a] \in Int /\ n =< Larger(0, T[a])
  BY <1>1 DEF Larger
<1>5. Covers(T, temps, Uniform(Outs(v), n), {})
  BY <1>1, <1>4, CoversUniform
<1>6. Touches(T, temps, v.mem, r.mem)
  BY <1>3, <1>5, TouchesLess
<1> QED
  BY <1>6 DEF Fits, T

\* A call that answers without elements.
LEMMA NothingFits ==
  ASSUME NEW v, NEW u, u.mem = v.mem, NEW lookback, NEW temps
  PROVE  Fits(Nothing(u), v, lookback, temps)
BY TouchesNothing DEF Fits, Nothing, Done

\* How many elements an answer has.
LEMMA SpansCount ==
  ASSUME NEW r, NEW start \in Int, NEW end \in Int, NEW lookback \in Int,
         Spans(r, start, end, lookback)
  PROVE  r.nb \in Nat /\ r.nb =< Larger(0, end - Larger(start, lookback) + 1)
BY DEF Spans, Larger

\* Of a range that starts after the lookback, an output has the elements of the range at least.
LEMMA FromFits ==
  ASSUME NEW u, NEW lookback \in Int, NEW outs, NEW temps, CanCall(u, lookback, outs, temps)
  PROVE  LET v == From(u, lookback)
         IN /\ IsCall(v) /\ SameParameters(v, u)
            /\ v.mem = u.mem /\ v.from = u.from /\ v.to = u.to /\ v.end = u.end
            /\ v.start \in Nat /\ v.start >= lookback /\ v.start >= u.start /\ v.end \in Int
            /\ v.start = Larger(u.start, lookback)
            /\ Outputs(v) \in Int /\ Outputs(v) = v.end - v.start + 1
            /\ Count(u, lookback) = Outputs(v)
<1>1. u.start \in Nat /\ IsCall(u) /\ u.end \in Int
  BY DEF CanCall, IsCall
<1> DEFINE v == From(u, lookback)
<1>2. /\ IsCall(v) /\ SameParameters(v, u)
      /\ v.mem = u.mem /\ v.from = u.from /\ v.to = u.to /\ v.end = u.end
      /\ v.start = Larger(u.start, lookback)
  BY <1>1, FromIsCall
<1> HIDE DEF v
<1>3. /\ v.start \in Nat /\ v.start >= lookback /\ v.start >= u.start /\ v.end \in Int
      /\ Outputs(v) \in Int /\ Outputs(v) = v.end - v.start + 1
      /\ Count(u, lookback) = Outputs(v)
  BY <1>1, <1>2 DEF Outputs, Larger, Count
<1> QED
  BY <1>2, <1>3 DEF v

-----------------------------------------------------------------------------
(* Averages of averages. *)

\* An exponential average writes its elements.
LEMMA IntEMAFits ==
  ASSUME NEW v, IsCall(v), NEW mem, NEW start \in Int, NEW end \in Int, NEW input, NEW output,
         EMA_Lookback(v) \in Int, NEW n \in Int,
         n >= end - Larger(start, EMA_Lookback(v)) + 1, HasRoom(mem, output, n)
  PROVE  Touches(Uniform({output}, n), {}, mem, IntEMA(v, mem, start, end, input, output).mem)
<1> DEFINE w == OnReal(v, mem, start, end, input, output)
           u == [w EXCEPT !.k = PerToK(v.period)]
           L == EMA_Lookback(v)
<1>1. /\ IsCall(w) /\ SameParameters(w, v) /\ w.start = start /\ w.end = end
      /\ w.mem = mem /\ w.to = <<output>>
  BY CallingIsCall DEF OnReal
<1>2. IntEMA(v, mem, start, end, input, output) = TA_INT_EMA(u)
  BY DEF IntEMA
<1> HIDE DEF w
<1>3. /\ u.start = start /\ u.end = end /\ u.mem = mem /\ u.to = <<output>>
      /\ u.period = v.period /\ u.unstable = v.unstable
  BY <1>1 DEF IsCall, Fields, SameParameters
<1> HIDE DEF u
<1>4. EMA_Lookback(u) = L
  BY <1>3 DEF EMA_Lookback
<1>5. Outs(u) = {output} /\ 1 .. 1 \subseteq DOMAIN u.to
  BY <1>3 DEF Outs
<1> HIDE DEF L
<1>6. Count(u, L) \in Int /\ Count(u, L) =< n
  BY <1>3 DEF Count, Larger, L
<1>7. CanWalk(u, L, 1)
  BY <1>3, <1>5, <1>6, LessRoom DEF CanWalk, L
<1>8. Touches(Uniform({output}, Count(u, L)), {}, mem, TA_INT_EMA(u).mem)
  BY <1>3, <1>4, <1>5, <1>7, EMATouches DEF TA_INT_EMA, WroteWalk
<1>9. Covers(Uniform({output}, n), {}, Uniform({output}, Count(u, L)), {})
  BY <1>6 DEF Covers, Uniform
<1> QED
  BY <1>2, <1>8, <1>9, TouchesLess

\* Elements of an output that a loop wrote after everything else.
LEMMA ThenOutput ==
  ASSUME NEW T, NEW temps, NEW m, NEW w, Touches(T, temps, m, w), NEW a \in DOMAIN T,
         T[a] \in Int, NEW n \in Int, n =< Larger(0, T[a]), NEW x,
         NEW temps1, temps1 \subseteq temps, Touches(Uniform({a}, n), temps1, w, x)
  PROVE  Touches(T, temps, m, x)
<1>1. Covers(T, temps, Uniform({a}, n), temps1)
  BY CoversUniform
<1> QED
  BY <1>1, TouchesThen

\* What a call wrote to an array that is new since.
LEMMA ThenNew ==
  ASSUME NEW T, NEW temps, NEW m, NEW w, Touches(T, temps, m, w), NEW a \in temps,
         NEW n, NEW x, NEW temps1, temps1 \subseteq temps, Touches(Uniform({a}, n), temps1, w, x)
  PROVE  Touches(T, temps, m, x)
<1>1. Covers(T, temps, Uniform({a}, n), temps1)
  BY DEF Covers, Uniform
<1> QED
  BY <1>1, TouchesThen

\* A new array.
LEMMA ThenAllocate ==
  ASSUME NEW T, NEW temps, NEW m, NEW w, Touches(T, temps, m, w), NEW name, name \in temps,
         NEW n \in Int
  PROVE  /\ Touches(T, temps, m, Allocate(w, name, n))
         /\ HasRoom(Allocate(w, name, n), name, n)
<1>1. Covers(T, temps, <<>>, {name})
  BY DEF Covers
<1> QED
  BY <1>1, AllocateFits, TouchesThen

\* The temporary arrays of the averages.
MATemps == {"firstEMA", "secondEMA", "dummyBuffer"}

\* DEMA's last loop writes as many elements as the second average has.
LEMMA DoubledFits ==
  ASSUME NEW v, NEW one, NEW first, NEW second, second.nb \in Nat,
         HasRoom(second.mem, Out(v, 1), second.nb)
  PROVE  Touches(Uniform({Out(v, 1)}, second.nb), {}, second.mem, Doubled(v, one, first, second).mem)
<1>1. Doubled(v, one, first, second)
      = Done(Double_All(v, one, second, second.mem, second.nb), first.beg + second.beg, second.nb)
  BY Zenon DEF Doubled, Double_All
<1> QED
  BY <1>1, DoubleTouches DEF Done

\* DEMA's first average goes to the output when that is the input: as many elements as the range
\* has bars before its end at most.
LEMMA DEMAFits ==
  ASSUME NEW u, u.period >= 1, CanCall(u, DEMA_Lookback(u), 1, MATemps), "inReal" \in DOMAIN u.from
  PROVE  Fits(TA_DEMA(u), u, DEMA_Lookback(u), MATemps)
<1> DEFINE L      == EMA_Lookback(u)
           v      == From(u, DEMA_Lookback(u))
           o      == Out(v, 1)
           one    == IF Input(v) = o THEN o ELSE "firstEMA"
           size   == DEMA_Lookback(v) + Outputs(v)
           room   == IF one = "firstEMA" THEN Allocate(v.mem, one, size) ELSE v.mem
           first  == IntEMA(v, room, v.start - EMA_Lookback(v), v.end, Input(v), one)
           between == Allocate(first.mem, "secondEMA", first.nb)
           second == Again(v, between, first.nb, one, "secondEMA")
           T      == Budget(u, DEMA_Lookback(u))
<1>0. IsCall(u)
  BY DEF CanCall
<1>1. L \in Nat /\ DEMA_Lookback(u) = 2 * L /\ DEMA_Lookback(u) \in Int
  BY <1>0, EMA_LookbackIsNat DEF DEMA_Lookback
<1>2. /\ IsCall(v) /\ SameParameters(v, u) /\ v.end = u.end /\ v.mem = u.mem
      /\ v.from = u.from /\ v.to = u.to
      /\ v.start \in Nat /\ v.start >= 2 * L /\ v.end \in Int
      /\ Outputs(v) = v.end - v.start + 1 /\ Count(u, DEMA_Lookback(u)) = Outputs(v)
  BY <1>1, FromFits
<1>3. EMA_Lookback(v) = L /\ DEMA_Lookback(v) = 2 * L
  BY <1>1, <1>2 DEF EMA_Lookback, DEMA_Lookback, SameParameters
<1>4. TA_DEMA(u) = IF v.start > v.end THEN Nothing(v) ELSE Doubled(v, one, first, second)
  BY DEF TA_DEMA, DEMAOf, Empty
<1>5. /\ o \in Outs(u) /\ o \notin MATemps
      /\ (one = o /\ o \in Ins(u)) \/ one = "firstEMA"
  BY <1>2 DEF CanCall, Outs, Out, Input, Ins
<1>6. /\ DOMAIN T = Outs(u) /\ T[o] \in Int /\ Outputs(v) =< T[o]
      /\ o \in Ins(u) => T[o] = v.end + 1
      /\ HasRoom(u.mem, o, T[o])
  BY <1>1, <1>2, <1>5, BudgetIs
<1> HIDE DEF v, o, one, T
<1>7. CASE v.start > v.end
  BY <1>2, <1>4, <1>7, NothingFits
<1>8. CASE ~(v.start > v.end)
  <2> DEFINE n == v.end - v.start + L + 1
  <2>1. n \in Nat /\ n = Outputs(v) + L /\ n =< size /\ n =< v.end + 1 /\ size \in Int
    BY <1>1, <1>2, <1>3, <1>8
  <2> HIDE DEF size
  <2>2. Touches(T, MATemps, u.mem, room) /\ HasRoom(room, one, n)
    <3>1. CASE one = "firstEMA"
      <4>1. room = Allocate(u.mem, one, size)
        BY <1>2, <3>1
      <4>2. Touches(T, MATemps, u.mem, room) /\ HasRoom(room, one, size)
        BY <2>1, <3>1, <4>1, TouchesNothing, ThenAllocate DEF MATemps
      <4> QED
        BY <2>1, <4>2, LessRoom
    <3>2. CASE one # "firstEMA"
      <4>1. room = u.mem /\ one = o /\ T[o] = v.end + 1
        BY <1>2, <1>5, <1>6, <3>2
      <4> QED
        BY <2>1, <4>1, <1>6, TouchesNothing, LessRoom
    <3> QED
      BY <3>1, <3>2
  <2> HIDE DEF room
  <2>3. /\ v.start - L \in Int /\ v.start - L >= L /\ v.start - L =< v.end
        /\ n >= v.end - Larger(v.start - L, L) + 1
    BY <1>1, <1>2, <1>8 DEF Larger
  <2>4. Touches(Uniform({one}, n), {}, room, first.mem)
    BY <1>1, <1>2, <1>3, <2>1, <2>2, <2>3, IntEMAFits
  <2>5. Spans(first, v.start - L, v.end, L)
    BY <1>1, <1>2, <1>3, <2>3, IntEMASpans
  <2>6. first.nb = n
    BY <1>1, <1>2, <2>3, <2>5, SpansWhole
  <2> HIDE DEF first
  <2>7. Touches(T, MATemps, u.mem, first.mem)
    <3>1. CASE one = "firstEMA"
      BY <2>2, <2>4, <3>1, ThenNew DEF MATemps
    <3>2. CASE one # "firstEMA"
      <4>1. one = o /\ T[o] = v.end + 1 /\ n =< Larger(0, T[o])
        BY <1>5, <1>6, <2>1, <3>2 DEF Larger
      <4> QED
        BY <1>5, <1>6, <2>1, <2>2, <2>4, <4>1, ThenOutput
    <3> QED
      BY <3>1, <3>2
  <2>8. Touches(T, MATemps, u.mem, between) /\ HasRoom(between, "secondEMA", n)
    BY <2>1, <2>6, <2>7, ThenAllocate DEF MATemps
  <2> HIDE DEF between
  <2>9. n - 1 \in Int /\ n >= (n - 1) - Larger(0, L) + 1 /\ n > L
    BY <1>1, <1>2, <1>8, <2>1 DEF Larger
  <2>10. second = IntEMA(v, between, 0, n - 1, one, "secondEMA")
    BY <2>6 DEF Again
  <2> HIDE DEF n, second
  <2>11. Touches(Uniform({"secondEMA"}, n), {}, between, second.mem)
    BY <1>1, <1>2, <1>3, <2>1, <2>8, <2>9, <2>10, IntEMAFits
  <2>12. Spans(second, 0, n - 1, L)
    BY <1>1, <1>2, <1>3, <2>9, <2>10, IntEMASpans
  <2>13. second.nb = Outputs(v) /\ Outputs(v) \in Nat
    BY <1>1, <1>2, <1>8, <2>1, <2>9, <2>12, SpansRest
  <2>14. Touches(T, MATemps, u.mem, second.mem)
    BY <2>8, <2>11, ThenNew DEF MATemps
  <2>15. HasRoom(second.mem, o, Outputs(v))
    BY <1>5, <1>6, <2>13, <2>14, RoomKept, LessRoom
  <2>16. Touches(Uniform({o}, Outputs(v)), {}, second.mem, Doubled(v, one, first, second).mem)
    BY <2>13, <2>15, DoubledFits DEF o
  <2>17. Outputs(v) =< Larger(0, T[o])
    BY <1>6, <2>13 DEF Larger
  <2>18. Touches(T, MATemps, u.mem, Doubled(v, one, first, second).mem)
    BY <1>5, <1>6, <2>13, <2>14, <2>16, <2>17, ThenOutput
  <2> QED
    BY <1>4, <1>8, <2>18 DEF Fits, T
<1> QED
  BY <1>7, <1>8

\* TEMA's third average is in the output already.
LEMMA TripledFits ==
  ASSUME NEW v, NEW first, NEW second, NEW third, third.nb \in Nat,
         HasRoom(third.mem, Out(v, 1), third.nb)
  PROVE  Touches(Uniform({Out(v, 1)}, third.nb), {}, third.mem,
                 Tripled(v, first, second, third).mem)
<1>1. Tripled(v, first, second, third)
      = Done(Triple_All(v, second, third, third.mem, third.nb),
             third.beg + second.beg + first.beg, third.nb)
  BY Zenon DEF Tripled, Triple_All
<1> QED
  BY <1>1, TripleTouches DEF Done

\* TEMA has buffers of its own for two averages; the third is as long as the output.
LEMMA TEMAFits ==
  ASSUME NEW u, u.period >= 1, CanCall(u, TEMA_Lookback(u), 1, MATemps)
  PROVE  Fits(TA_TEMA(u), u, TEMA_Lookback(u), MATemps)
<1> DEFINE L      == EMA_Lookback(u)
           v      == From(u, TEMA_Lookback(u))
           o      == Out(v, 1)
           size   == TEMA_Lookback(v) + Outputs(v)
           room   == Allocate(v.mem, "firstEMA", size)
           first  == IntEMA(v, room, v.start - 2 * EMA_Lookback(v), v.end, Input(v), "firstEMA")
           between == Allocate(first.mem, "secondEMA", first.nb)
           second == Again(v, between, first.nb, "firstEMA", "secondEMA")
           third  == Again(v, second.mem, second.nb, "secondEMA", o)
           T      == Budget(u, TEMA_Lookback(u))
<1>0. IsCall(u)
  BY DEF CanCall
<1>1. L \in Nat /\ TEMA_Lookback(u) = 3 * L /\ TEMA_Lookback(u) \in Int
  BY <1>0, EMA_LookbackIsNat DEF TEMA_Lookback
<1>2. /\ IsCall(v) /\ SameParameters(v, u) /\ v.end = u.end /\ v.mem = u.mem
      /\ v.to = u.to
      /\ v.start \in Nat /\ v.start >= 3 * L /\ v.end \in Int
      /\ Outputs(v) = v.end - v.start + 1 /\ Count(u, TEMA_Lookback(u)) = Outputs(v)
  BY <1>1, FromFits
<1>3. EMA_Lookback(v) = L /\ TEMA_Lookback(v) = 3 * L
  BY <1>1, <1>2 DEF EMA_Lookback, TEMA_Lookback, SameParameters
<1>4. TA_TEMA(u) = IF v.start > v.end THEN Nothing(v) ELSE Tripled(v, first, second, third)
  BY DEF TA_TEMA, TEMAOf, OfSecond, Empty
<1>5. o \in Outs(u) /\ o \notin MATemps
  BY <1>2 DEF CanCall, Outs, Out
<1>6. /\ DOMAIN T = Outs(u) /\ T[o] \in Int /\ Outputs(v) =< T[o]
      /\ HasRoom(u.mem, o, T[o])
  BY <1>1, <1>2, <1>5, BudgetIs
<1> HIDE DEF v, o, T
<1>7. CASE v.start > v.end
  BY <1>2, <1>4, <1>7, NothingFits
<1>8. CASE ~(v.start > v.end)
  <2> DEFINE n == v.end - v.start + 2 * L + 1
             k == v.end - v.start + L + 1
  <2>1. /\ n \in Nat /\ k \in Nat /\ n - L = k /\ k - L = Outputs(v) /\ n > L /\ k > L
        /\ Outputs(v) \in Nat /\ n =< size /\ size \in Int
    BY <1>1, <1>2, <1>3, <1>8
  <2> HIDE DEF size
  <2>2. Touches(T, MATemps, u.mem, room) /\ HasRoom(room, "firstEMA", n)
    <3>1. Touches(T, MATemps, u.mem, room) /\ HasRoom(room, "firstEMA", size)
      BY <1>2, <2>1, TouchesNothing, ThenAllocate DEF MATemps
    <3> QED
      BY <2>1, <3>1, LessRoom
  <2> HIDE DEF room
  <2>3. /\ v.start - 2 * L \in Int /\ v.start - 2 * L >= L /\ v.start - 2 * L =< v.end
        /\ n >= v.end - Larger(v.start - 2 * L, L) + 1
    BY <1>1, <1>2, <1>8 DEF Larger
  <2>4. Touches(Uniform({"firstEMA"}, n), {}, room, first.mem)
    BY <1>1, <1>2, <1>3, <2>1, <2>2, <2>3, IntEMAFits
  <2>5. Spans(first, v.start - 2 * L, v.end, L)
    BY <1>1, <1>2, <1>3, <2>3, IntEMASpans
  <2>6. first.nb = n
    BY <1>1, <1>2, <2>3, <2>5, SpansWhole
  <2> HIDE DEF first
  <2>7. Touches(T, MATemps, u.mem, first.mem)
    BY <2>2, <2>4, ThenNew DEF MATemps
  <2> HIDE DEF n, k
  <2>8. Touches(T, MATemps, u.mem, between) /\ HasRoom(between, "secondEMA", k)
    <3>0. between = Allocate(first.mem, "secondEMA", n) /\ n \in Int /\ "secondEMA" \in MATemps
      BY <2>1, <2>6 DEF MATemps
    <3> HIDE DEF between, second
    <3>1. Touches(T, MATemps, u.mem, between) /\ HasRoom(between, "secondEMA", n)
      BY <2>7, <3>0, ThenAllocate
    <3>2. k =< n
      BY <1>1, <2>1
    <3> QED
      BY <2>1, <3>1, <3>2, LessRoom
  <2> HIDE DEF between
  <2>9. n - 1 \in Int /\ k >= (n - 1) - Larger(0, L) + 1
    BY <1>1, <2>1 DEF Larger
  <2>10. second = IntEMA(v, between, 0, n - 1, "firstEMA", "secondEMA")
    BY <2>6 DEF Again
  <2> HIDE DEF second
  <2>11. Touches(Uniform({"secondEMA"}, k), {}, between, second.mem)
    BY <1>1, <1>2, <1>3, <2>1, <2>8, <2>9, <2>10, IntEMAFits
  <2>12. Spans(second, 0, n - 1, L)
    BY <1>1, <1>2, <1>3, <2>9, <2>10, IntEMASpans
  <2>13. second.nb = k
    BY <1>1, <2>1, <2>12, SpansRest
  <2>14. Touches(T, MATemps, u.mem, second.mem)
    BY <2>8, <2>11, ThenNew DEF MATemps
  <2>15. HasRoom(second.mem, o, Outputs(v))
    BY <1>5, <1>6, <2>1, <2>14, RoomKept, LessRoom
  <2>16. k - 1 \in Int /\ Outputs(v) >= (k - 1) - Larger(0, L) + 1
    BY <1>1, <2>1 DEF Larger
  <2>17. third = IntEMA(v, second.mem, 0, k - 1, "secondEMA", o)
    BY <2>13 DEF Again
  <2> HIDE DEF third
  <2>18. Touches(Uniform({o}, Outputs(v)), {}, second.mem, third.mem)
    BY <1>1, <1>2, <1>3, <2>1, <2>15, <2>16, <2>17, IntEMAFits
  <2>19. Spans(third, 0, k - 1, L)
    BY <1>1, <1>2, <1>3, <2>16, <2>17, IntEMASpans
  <2>20. third.nb = Outputs(v)
    BY <1>1, <2>1, <2>19, SpansRest
  <2>21. Outputs(v) =< Larger(0, T[o])
    BY <1>6, <2>1 DEF Larger
  <2>22. Touches(T, MATemps, u.mem, third.mem)
    BY <1>5, <1>6, <2>1, <2>14, <2>18, <2>21, ThenOutput
  <2>23. HasRoom(third.mem, o, Outputs(v))
    BY <1>5, <1>6, <2>1, <2>22, RoomKept, LessRoom
  <2>24. Touches(Uniform({o}, Outputs(v)), {}, third.mem, Tripled(v, first, second, third).mem)
    BY <2>1, <2>20, <2>23, TripledFits DEF o
  <2>25. Touches(T, MATemps, u.mem, Tripled(v, first, second, third).mem)
    BY <1>5, <1>6, <2>1, <2>21, <2>22, <2>24, ThenOutput
  <2> QED
    BY <1>4, <1>8, <2>25 DEF Fits, T
<1> QED
  BY <1>7, <1>8

(* MA. *)

\* A call that differs in other parameters keeps to the same budget.
LEMMA LikeFits ==
  ASSUME NEW v, NEW lookback \in Int, NEW outs, NEW temps, CanCall(v, lookback, outs, temps), NEW r,
         NEW w, w.start = v.start, w.end = v.end, w.mem = v.mem, w.to = v.to,
         CanWalk(w, lookback, outs) => WroteWalk(r, w, lookback)
  PROVE  Fits(r, v, lookback, temps)
<1>1. Outs(w) = Outs(v) /\ Count(w, lookback) = Count(v, lookback)
  BY DEF Outs, Count
<1>2. CanWalk(v, lookback, outs) => CanWalk(w, lookback, outs)
  BY <1>1 DEF CanWalk
<1>3. WroteWalk(r, w, lookback) => WroteWalk(r, v, lookback)
  BY <1>1 DEF WroteWalk
<1> QED
  BY <1>2, <1>3, WalkFits

\* A write to one output, as many elements as the lookback promises.
LEMMA OneFits ==
  ASSUME NEW v, NEW lookback \in Int, NEW outs, NEW temps, CanCall(v, lookback, outs, temps), NEW r,
         NEW o \in Outs(v), Touches(Uniform({o}, Count(v, lookback)), {}, v.mem, r.mem)
  PROVE  Fits(r, v, lookback, temps)
<1> DEFINE T == Budget(v, lookback)
           n == Count(v, lookback)
<1>1. DOMAIN T = Outs(v) /\ n \in Int /\ T[o] \in Int /\ n =< T[o]
  BY BudgetIs
<1> HIDE DEF T, n
<1>2. n =< Larger(0, T[o])
  BY <1>1 DEF Larger
<1>3. Touches(T, temps, v.mem, v.mem)
  BY TouchesNothing
<1>4. Touches(Uniform({o}, n), {}, v.mem, r.mem)
  BY DEF n
<1>5. Touches(T, temps, v.mem, r.mem)
  BY <1>1, <1>2, <1>3, <1>4, ThenOutput
<1> QED
  BY <1>5 DEF Fits, T

\* A copy of the input has the bars of the range.
LEMMA CopiedFits ==
  ASSUME NEW v, NEW temps, CanCall(v, 0, 1, temps), v.start =< v.end
  PROVE  Fits(Copied(v), v, 0, temps)
<1> DEFINE n == v.end - v.start + 1
           o == Out(v, 1)
<1>1. v.start \in Nat /\ v.end \in Int /\ n \in Nat /\ Count(v, 0) = n
  BY DEF CanCall, IsCall, Count, Larger
<1>2. o \in Outs(v)
  BY DEF CanCall, Outs, Out
<1>3. HasRoom(v.mem, o, n)
  BY <1>1, <1>2, BudgetIs
<1>4. Copied(v) = Done(Move(v.mem, o, v.from["inReal"], v.start, n), v.start, n)
  BY DEF Copied, Out
<1> HIDE DEF n, o
<1>5. Touches(Uniform({o}, n), {}, v.mem, Copied(v).mem)
  BY <1>1, <1>3, <1>4, MoveTouches DEF Done
<1> QED
  BY <1>1, <1>2, <1>5, OneFits

\* WMA.
LEMMA WMAFits ==
  ASSUME NEW v, NEW temps, CanCall(v, PeriodLessOne(v), 1, temps)
  PROVE  Fits(TA_WMA(v), v, PeriodLessOne(v), temps)
<1>1. PeriodLessOne(v) \in Int
  BY DEF CanCall
<1>2. CASE v.period = 1 /\ v.start =< v.end
  <2>1. TA_WMA(v) = Copied(v) /\ PeriodLessOne(v) = 0
    BY <1>2 DEF TA_WMA, PeriodLessOne
  <2> QED
    BY <2>1, <1>2, CopiedFits
<1>3. CASE ~(v.period = 1 /\ v.start =< v.end)
  <2>1. TA_WMA(v) = Run(v, PeriodLessOne(v), WMA_Begin, WMA)
    BY <1>3 DEF TA_WMA
  <2> QED
    BY <1>1, <2>1, WMATouches, WalkFits
<1> QED
  BY <1>2, <1>3

\* MAMA as a moving average: the second output is the buffer.
LEMMA MAOfMAMAFits ==
  ASSUME NEW v, CanCall(v, Lookback32(v), 1, MATemps), v.start =< v.end
  PROVE  Fits(MAOfMAMA(v), v, Lookback32(v), MATemps)
<1> DEFINE size == v.end - v.start + 1
           room == Allocate(v.mem, "dummyBuffer", size)
           o    == Out(v, 1)
           m    == [v EXCEPT !.fastLimit = Unit \div 2, !.slowLimit = Unit \div 20,
                             !.to = <<o, "dummyBuffer">>, !.mem = room]
           L    == Lookback32(v)
           n    == Count(v, L)
           T    == Budget(v, L)
<1>1. IsCall(v) /\ v.start \in Nat /\ v.end \in Int /\ v.unstable \in Nat /\ L = 32 + v.unstable
  BY DEF CanCall, IsCall, Lookback32
<1>2. /\ m.start = v.start /\ m.end = v.end /\ m.unstable = v.unstable
      /\ m.to = <<o, "dummyBuffer">> /\ m.mem = room
  BY <1>1 DEF IsCall, Fields
<1>3. MAOfMAMA(v) = TA_MAMA(m)
  BY DEF MAOfMAMA
<1> HIDE DEF m
<1>4. Lookback32(m) = L
  BY <1>2 DEF Lookback32
<1>5. L \in Int /\ size \in Int /\ n \in Int /\ n =< size /\ Count(m, L) = n
  BY <1>1, <1>2 DEF Count, Larger
<1>6. o \in Outs(v) /\ o \notin MATemps
  BY DEF CanCall, Outs, Out
<1>7. DOMAIN T = Outs(v) /\ T[o] \in Int /\ n =< T[o] /\ HasRoom(v.mem, o, n)
  BY <1>5, <1>6, BudgetIs
<1> HIDE DEF T, n, size, o, L
<1>8. Touches(T, MATemps, v.mem, room) /\ HasRoom(room, "dummyBuffer", size)
  BY <1>5, TouchesNothing, ThenAllocate DEF MATemps
<1> HIDE DEF room
<1>9. HasRoom(room, "dummyBuffer", n) /\ HasRoom(room, o, n)
  BY <1>5, <1>6, <1>7, <1>8, LessRoom, RoomKept
<1>10. Outs(m) = {o, "dummyBuffer"} /\ 1 .. 2 \subseteq DOMAIN m.to
  <2>1. DOMAIN m.to = {1, 2} /\ m.to[1] = o /\ m.to[2] = "dummyBuffer"
    BY <1>2
  <2> QED
    BY <2>1 DEF Outs
<1>11. CanWalk(m, L, 2)
  BY <1>1, <1>2, <1>5, <1>9, <1>10 DEF CanWalk
<1>12. Touches(Uniform({o, "dummyBuffer"}, n), {}, room, MAOfMAMA(v).mem)
  BY <1>2, <1>3, <1>4, <1>5, <1>10, <1>11, MAMATouches DEF WroteWalk
<1>13. \A a \in {o, "dummyBuffer"} \ MATemps : a \in DOMAIN T /\ T[a] \in Int /\ n =< Larger(0, T[a])
  BY <1>5, <1>6, <1>7 DEF Larger, MATemps
<1>14. Covers(T, MATemps, Uniform({o, "dummyBuffer"}, n), {})
  BY <1>5, <1>13, CoversUniform
<1>15. Touches(T, MATemps, v.mem, MAOfMAMA(v).mem)
  BY <1>8, <1>12, <1>14, TouchesThen
<1> QED
  BY <1>15 DEF Fits, T, L

\* The other averages that MA calls walk the bars.
LEMMA OfTypesFit ==
  ASSUME NEW v, NEW temps, IsCall(v)
  PROVE  /\ CanCall(v, PeriodLessOne(v), 1, temps) =>
              /\ Fits(TA_SMA(v), v, PeriodLessOne(v), temps)
              /\ Fits(TA_TRIMA(v), v, PeriodLessOne(v), temps)
         /\ CanCall(v, KAMA_Lookback(v), 1, temps) => Fits(TA_KAMA(v), v, KAMA_Lookback(v), temps)
         /\ CanCall(v, EMA_Lookback(v), 1, temps) => Fits(TA_EMA(v), v, EMA_Lookback(v), temps)
         /\ CanCall(v, T3_Lookback(v), 1, temps) =>
              Fits(TA_T3([v EXCEPT !.vFactor = (7 * Unit) \div 10]), v, T3_Lookback(v), temps)
<1> DEFINE t == [v EXCEPT !.vFactor = (7 * Unit) \div 10]
           e == [v EXCEPT !.k = PerToK(v.period)]
<1>1. ASSUME CanCall(v, PeriodLessOne(v), 1, temps)
      PROVE  /\ Fits(TA_SMA(v), v, PeriodLessOne(v), temps)
             /\ Fits(TA_TRIMA(v), v, PeriodLessOne(v), temps)
  <2>1. PeriodLessOne(v) \in Int
    BY <1>1 DEF CanCall
  <2> QED
    BY <1>1, <2>1, SMATouches, TRIMATouches, WalkFits DEF TA_SMA, TA_INT_SMA, TA_TRIMA
<1>2. ASSUME CanCall(v, KAMA_Lookback(v), 1, temps)
      PROVE  Fits(TA_KAMA(v), v, KAMA_Lookback(v), temps)
  <2>1. KAMA_Lookback(v) \in Int
    BY <1>2 DEF CanCall
  <2> QED
    BY <1>2, <2>1, KAMATouches, WalkFits DEF TA_KAMA
<1>3. ASSUME CanCall(v, EMA_Lookback(v), 1, temps)
      PROVE  Fits(TA_EMA(v), v, EMA_Lookback(v), temps)
  <2>1. EMA_Lookback(v) \in Int
    BY <1>3 DEF CanCall
  <2>2. /\ e.start = v.start /\ e.end = v.end /\ e.mem = v.mem /\ e.to = v.to
        /\ e.period = v.period /\ e.unstable = v.unstable
    BY DEF IsCall, Fields
  <2>3. TA_EMA(v) = TA_INT_EMA(e)
    BY DEF TA_EMA
  <2> HIDE DEF e
  <2>4. EMA_Lookback(e) = EMA_Lookback(v)
    BY <2>2 DEF EMA_Lookback
  <2>5. CanWalk(e, EMA_Lookback(v), 1) => WroteWalk(TA_INT_EMA(e), e, EMA_Lookback(v))
    BY <2>4, EMATouches DEF TA_INT_EMA
  <2> QED
    BY <1>3, <2>1, <2>2, <2>3, <2>5, LikeFits
<1>4. ASSUME CanCall(v, T3_Lookback(v), 1, temps)
      PROVE  Fits(TA_T3(t), v, T3_Lookback(v), temps)
  <2>1. T3_Lookback(v) \in Int
    BY <1>4 DEF CanCall
  <2>2. /\ t.start = v.start /\ t.end = v.end /\ t.mem = v.mem /\ t.to = v.to
        /\ t.period = v.period /\ t.unstable = v.unstable
    BY DEF IsCall, Fields
  <2> HIDE DEF t
  <2>3. T3_Lookback(t) = T3_Lookback(v)
    BY <2>2 DEF T3_Lookback
  <2>4. CanWalk(t, T3_Lookback(v), 1) => WroteWalk(TA_T3(t), t, T3_Lookback(v))
    BY <2>3, T3Touches DEF TA_T3
  <2> QED
    BY <1>4, <2>1, <2>2, <2>4, LikeFits
<1> QED
  BY <1>1, <1>2, <1>3, <1>4

\* MA of every type.
LEMMA MAFits ==
  ASSUME NEW v, CanCall(v, MA_Lookback(v), 1, MATemps), v.start =< v.end, v.period >= 1,
         v.maType \in MATypes, "inReal" \in DOMAIN v.from
  PROVE  Fits(TA_MA(v), v, MA_Lookback(v), MATemps)
<1>1. CASE v.period = 1
  BY <1>1, CopiedFits DEF TA_MA, MA_Lookback
<1>2. CASE v.period # 1
  <2>0. IsCall(v)
    BY DEF CanCall
  <2>1. ~(v.period =< 1) /\ v.period # 1
    BY <1>2, <2>0 DEF IsCall
  <2>2. CASE v.maType = "SMA"
    BY <2>0, <2>1, <2>2, OfTypesFit DEF TA_MA, MA_Lookback
  <2>3. CASE v.maType = "EMA"
    BY <2>0, <2>1, <2>3, OfTypesFit DEF TA_MA, MA_Lookback
  <2>4. CASE v.maType = "WMA"
    BY <2>1, <2>4, WMAFits DEF TA_MA, MA_Lookback
  <2>5. CASE v.maType = "DEMA"
    BY <2>1, <2>5, DEMAFits DEF TA_MA, MA_Lookback
  <2>6. CASE v.maType = "TEMA"
    BY <2>1, <2>6, TEMAFits DEF TA_MA, MA_Lookback
  <2>7. CASE v.maType = "TRIMA"
    BY <2>0, <2>1, <2>7, OfTypesFit DEF TA_MA, MA_Lookback
  <2>8. CASE v.maType = "KAMA"
    BY <2>0, <2>1, <2>8, OfTypesFit DEF TA_MA, MA_Lookback
  <2>9. CASE v.maType = "T3"
    BY <2>0, <2>1, <2>9, OfTypesFit DEF TA_MA, MA_Lookback
  <2>10. CASE v.maType = "MAMA"
    BY <2>1, <2>10, MAOfMAMAFits DEF TA_MA, MA_Lookback
  <2> QED
    BY <2>2, <2>3, <2>4, <2>5, <2>6, <2>7, <2>8, <2>9, <2>10 DEF MATypes
<1> QED
  BY <1>1, <1>2

\* MA of a period and a type, of one array in another.
LEMMA MAOfFits ==
  ASSUME NEW v, IsCall(v), NEW period \in Nat, period >= 1, NEW maType \in MATypes, NEW mem,
         NEW start \in Nat, NEW end \in Int, start =< end, NEW input, NEW output,
         output \notin MATemps, NEW n \in Int,
         n >= IF input = output THEN end + 1
              ELSE end - Larger(start, MA_LookbackOf(v, period, maType)) + 1,
         HasRoom(mem, output, n)
  PROVE  Touches(Uniform({output}, n), MATemps, mem,
                 MAOf(v, period, maType, mem, start, end, input, output).mem)
<1> DEFINE w == OnReal(v, mem, start, end, input, output)
           t == Typed(w, period, maType)
           L == MA_LookbackOf(v, period, maType)
<1>1. /\ IsCall(w) /\ SameParameters(w, v) /\ w.start = start /\ w.end = end /\ w.mem = mem
      /\ w.from = [inReal |-> input] /\ w.to = <<output>>
  BY CallingIsCall DEF OnReal
<1> HIDE DEF w
<1>2. /\ IsCall(t) /\ t.start = start /\ t.end = end /\ t.unstable = w.unstable
      /\ t.period = period /\ t.maType = maType
  BY <1>1, TypedIsCall
<1>3. t.mem = mem /\ t.from = [inReal |-> input] /\ t.to = <<output>>
  BY <1>1 DEF Typed, IsCall, Fields
<1>4. MA_Lookback(t) = L /\ L \in Nat
  <2>1. L \in Nat
    BY MA_LookbackOfIsNat
  <2> HIDE DEF t
  <2>2. MA_Lookback(t) = MA_LookbackOf(v, period, maType)
    BY <1>1, <1>2, TypedIsCall, MA_LookbackAgrees DEF MA_LookbackOf, SameParameters
  <2> QED
    BY <2>1, <2>2
<1>5. MAOf(v, period, maType, mem, start, end, input, output) = TA_MA(t)
  BY DEF MAOf, t, w
<1> HIDE DEF t, L
<1>6. /\ Outs(t) = {output} /\ Ins(t) = {input}
      /\ 1 .. 1 \subseteq DOMAIN t.to /\ "inReal" \in DOMAIN t.from
  BY <1>3 DEF Outs, Ins
<1>7. Budget(t, L)
      = [o \in {output} |-> IF o \in {input} THEN end + 1 ELSE end - Larger(start, L) + 1]
  BY <1>2, <1>6 DEF Budget, Count
<1> DEFINE most == IF input = output THEN end + 1 ELSE end - Larger(start, L) + 1
<1>8. most \in Int /\ most =< n /\ Budget(t, L)[output] = most
  BY <1>4, <1>7 DEF Larger, L
<1>9. HasRoom(mem, output, most)
  BY <1>8, LessRoom
<1>10. CanCall(t, L, 1, MATemps)
  BY <1>2, <1>3, <1>4, <1>6, <1>8, <1>9 DEF CanCall
<1>11. Touches(Budget(t, L), MATemps, mem, TA_MA(t).mem)
  BY <1>2, <1>3, <1>4, <1>6, <1>10, MAFits DEF Fits
<1> HIDE DEF most
<1>12. Covers(Uniform({output}, n), MATemps, Budget(t, L), MATemps)
  BY <1>7, <1>8 DEF Covers, Uniform
<1> QED
  BY <1>5, <1>11, <1>12, TouchesLess

-----------------------------------------------------------------------------
(* The functions that call averages. *)

\* The elements of an answer are room in the output.
LEMMA AnswerHasRoom ==
  ASSUME NEW v, NEW lookback \in Int, NEW outs, NEW temps, CanCall(v, lookback, outs, temps),
         NEW r, Spans(r, v.start, v.end, lookback),
         NEW w, Touches(Budget(v, lookback), temps, v.mem, w),
         NEW o \in Outs(v)
  PROVE  /\ r.nb \in Nat
         /\ HasRoom(w, o, r.nb)
         /\ o \in DOMAIN Budget(v, lookback) /\ Budget(v, lookback)[o] \in Int
         /\ r.nb =< Larger(0, Budget(v, lookback)[o])
<1> DEFINE T == Budget(v, lookback)
           n == Count(v, lookback)
<1>1. /\ DOMAIN T = Outs(v) /\ T[o] \in Int /\ n =< T[o] /\ HasRoom(v.mem, o, T[o])
      /\ v.start \in Int /\ v.end \in Int /\ n \in Int /\ o \notin temps
  BY BudgetIs DEF CanCall
<1>2. r.nb \in Nat /\ r.nb =< Larger(0, n)
  BY <1>1, SpansCount DEF Count
<1> HIDE DEF T, n
<1>3. r.nb =< Larger(0, T[o]) /\ (r.nb =< T[o] \/ r.nb =< 0)
  BY <1>1, <1>2 DEF Larger
<1>4. Touches(T, temps, v.mem, w)
  BY DEF T
<1>5. HasRoom(w, o, r.nb)
  BY <1>1, <1>2, <1>3, <1>4, RoomKept, LessRoom
<1> QED
  BY <1>1, <1>2, <1>3, <1>5 DEF T

\* STDDEV.
LEMMA STDDEVFits ==
  ASSUME NEW v, NEW temps, CanCall(v, PeriodLessOne(v), 1, temps)
  PROVE  Fits(TA_STDDEV(v), v, PeriodLessOne(v), temps)
<1> DEFINE P   == PeriodLessOne(v)
           var == TA_INT_VAR(v)
           T   == Budget(v, P)
           o   == Out(v, 1)
<1>1. P \in Int /\ o \in Outs(v)
  BY DEF CanCall, Outs, Out
<1>2. Spans(var, v.start, v.end, P)
  BY SumsWalk, WalkSpans
<1>3. Touches(T, temps, v.mem, var.mem)
  BY <1>1, VARTouches, WalkFits DEF TA_INT_VAR, Fits
<1>4. TA_STDDEV(v) = [var EXCEPT !.mem = Root_All(v, var.mem, var.nb)]
  BY Zenon DEF TA_STDDEV, DeviationsFrom, Root_All
<1> HIDE DEF var
<1>5. TA_STDDEV(v).mem = Root_All(v, var.mem, var.nb)
  BY <1>2, <1>4 DEF Spans
<1> HIDE DEF P, o
<1>6. /\ var.nb \in Nat /\ HasRoom(var.mem, o, var.nb)
      /\ o \in DOMAIN T /\ T[o] \in Int /\ var.nb =< Larger(0, T[o])
  BY <1>1, <1>2, <1>3, AnswerHasRoom DEF P
<1> HIDE DEF T
<1>7. Touches(Uniform({o}, var.nb), {}, var.mem, TA_STDDEV(v).mem)
  BY <1>5, <1>6, RootTouches DEF o
<1>8. Touches(T, temps, v.mem, TA_STDDEV(v).mem)
  BY <1>3, <1>6, <1>7, ThenOutput
<1> QED
  BY <1>8 DEF Fits, T, P

\* TRIX has one buffer for its three averages.
LEMMA TRIXFits ==
  ASSUME NEW u, u.period >= 1, CanCall(u, TRIX_Lookback(u), 1, Temporaries)
  PROVE  Fits(TA_TRIX(u), u, TRIX_Lookback(u), Temporaries)
<1> DEFINE L    == EMA_Lookback(u)
           v    == From(u, TRIX_Lookback(u))
           o    == Out(v, 1)
           size == Outputs(v) + TRIX_Lookback(v)
           left(n) == size - n * EMA_Lookback(v)
           room == Allocate(v.mem, "tempBuffer", size)
           one  == IntEMA(v, room, v.start - TRIX_Lookback(v), v.end, Input(v), "tempBuffer")
           two  == Again(v, one.mem, left(1), "tempBuffer", "tempBuffer")
           three == Again(v, two.mem, left(2), "tempBuffer", "tempBuffer")
           w    == OnReal(v, three.mem, 0, left(3) - 1, "tempBuffer", o)
           x    == [w EXCEPT !.period = 1]
           T    == Budget(u, TRIX_Lookback(u))
<1>0. IsCall(u)
  BY DEF CanCall
<1>1. L \in Nat /\ TRIX_Lookback(u) = 3 * L + 1 /\ TRIX_Lookback(u) \in Int
  BY <1>0, EMA_LookbackIsNat DEF TRIX_Lookback
<1>2. /\ IsCall(v) /\ SameParameters(v, u) /\ v.end = u.end /\ v.mem = u.mem /\ v.to = u.to
      /\ v.start \in Nat /\ v.start >= 3 * L + 1 /\ v.end \in Int
      /\ Outputs(v) \in Int /\ Outputs(v) = v.end - v.start + 1
      /\ Count(u, TRIX_Lookback(u)) = Outputs(v)
  BY <1>1, FromFits
<1>3. EMA_Lookback(v) = L /\ TRIX_Lookback(v) = 3 * L + 1
  BY <1>1, <1>2 DEF EMA_Lookback, TRIX_Lookback, SameParameters
<1>4. TA_TRIX(u) = IF v.start > v.end THEN Nothing(v) ELSE Reported(v, TA_ROC(x))
  BY DEF TA_TRIX, Empty
<1>5. o \in Outs(u) /\ o \notin Temporaries
  BY <1>2 DEF CanCall, Outs, Out
<1>6. /\ DOMAIN T = Outs(u) /\ T[o] \in Int /\ Outputs(v) =< T[o]
      /\ HasRoom(u.mem, o, T[o])
  BY <1>1, <1>2, <1>5, BudgetIs
<1> HIDE DEF v, o, T
<1>7. CASE v.start > v.end
  BY <1>2, <1>4, <1>7, NothingFits
<1>8. CASE ~(v.start > v.end)
  <2>1. /\ size \in Int /\ left(1) = size - L /\ left(2) = size - 2 * L
        /\ left(3) = Outputs(v) + 1 /\ v.start - TRIX_Lookback(v) \in Int
        /\ left(1) \in Int /\ left(2) \in Int
        /\ size >= v.end - Larger(v.start - TRIX_Lookback(v), L) + 1
        /\ size >= (left(1) - 1) - Larger(0, L) + 1
        /\ size >= (left(2) - 1) - Larger(0, L) + 1
    BY <1>1, <1>2, <1>3 DEF Larger
  <2> HIDE DEF size, left
  <2>2. Touches(T, Temporaries, u.mem, room) /\ HasRoom(room, "tempBuffer", size)
    BY <1>2, <2>1, TouchesNothing, ThenAllocate DEF Temporaries
  <2> HIDE DEF room
  <2>3. Touches(Uniform({"tempBuffer"}, size), {}, room, one.mem)
    BY <1>1, <1>2, <1>3, <2>1, <2>2, IntEMAFits
  <2> HIDE DEF one
  <2>4. Touches(T, Temporaries, u.mem, one.mem) /\ HasRoom(one.mem, "tempBuffer", size)
    BY <2>2, <2>3, ThenNew, RoomKept DEF Temporaries
  <2>5. Touches(Uniform({"tempBuffer"}, size), {}, one.mem, two.mem)
    <3>1. /\ left(1) - 1 \in Int
          /\ two = IntEMA(v, one.mem, 0, left(1) - 1, "tempBuffer", "tempBuffer")
      BY <2>1 DEF Again
    <3> HIDE DEF two
    <3> QED
      BY <1>1, <1>2, <1>3, <2>1, <2>4, <3>1, IntEMAFits
  <2> HIDE DEF two
  <2>6. Touches(T, Temporaries, u.mem, two.mem) /\ HasRoom(two.mem, "tempBuffer", size)
    BY <2>4, <2>5, ThenNew, RoomKept DEF Temporaries
  <2>7. Touches(Uniform({"tempBuffer"}, size), {}, two.mem, three.mem)
    <3>1. /\ left(2) - 1 \in Int
          /\ three = IntEMA(v, two.mem, 0, left(2) - 1, "tempBuffer", "tempBuffer")
      BY <2>1 DEF Again
    <3> HIDE DEF three
    <3> QED
      BY <1>1, <1>2, <1>3, <2>1, <2>6, <3>1, IntEMAFits
  <2> HIDE DEF three
  <2>8. Touches(T, Temporaries, u.mem, three.mem)
    BY <2>6, <2>7, ThenNew DEF Temporaries
  <2>9. HasRoom(three.mem, o, Outputs(v))
    BY <1>2, <1>5, <1>6, <2>8, RoomKept, LessRoom
  <2>10. left(3) - 1 = Outputs(v)
    BY <1>2, <2>1
  <2>11. IsCall(w) /\ w.start = 0 /\ w.end = Outputs(v) /\ w.mem = three.mem /\ w.to = <<o>>
    BY <1>2, <2>10, CallingIsCall DEF OnReal
  <2> HIDE DEF w
  <2>12. /\ x.start = 0 /\ x.end = Outputs(v) /\ x.period = 1 /\ x.mem = three.mem
         /\ x.to = <<o>>
    BY <2>11 DEF IsCall, Fields
  <2> HIDE DEF x
  <2>13. Outs(x) = {o} /\ Count(x, 1) = Outputs(v) /\ 1 .. 1 \subseteq DOMAIN x.to
    BY <1>2, <2>12 DEF Outs, Count, Larger
  <2>14. CanWalk(x, 1, 1)
    BY <1>2, <2>9, <2>12, <2>13 DEF CanWalk
  <2>15. TA_ROC(x) = Run(x, 1, NoLocals, ROC)
    BY <2>12 DEF TA_ROC
  <2>16. Touches(Uniform({o}, Outputs(v)), {}, three.mem, TA_ROC(x).mem)
    BY <2>12, <2>13, <2>14, <2>15, ROCTouches DEF WroteWalk
  <2>17. TA_TRIX(u).mem = TA_ROC(x).mem
    BY <1>4, <1>8 DEF Reported, Done
  <2>18. Outputs(v) =< Larger(0, T[o])
    BY <1>2, <1>6 DEF Larger
  <2>19. Touches(T, Temporaries, u.mem, TA_TRIX(u).mem)
    BY <1>2, <1>5, <1>6, <2>8, <2>16, <2>17, <2>18, ThenOutput
  <2> QED
    BY <2>19 DEF Fits, T
<1> QED
  BY <1>7, <1>8

(* MACD. *)

\* The exponential averages of MACD.
LEMMA EMAOfFits ==
  ASSUME NEW v, IsCall(v), NEW average, average.period \in Nat, NEW mem, NEW start \in Int,
         NEW end \in Int, NEW input, NEW output, NEW n \in Int,
         n >= end - Larger(start, average.period - 1 + v.unstable) + 1, HasRoom(mem, output, n)
  PROVE  Touches(Uniform({output}, n), {}, mem,
                 EMAOf(v, average, mem, start, end, input, output).mem)
<1> DEFINE w == OnReal(v, mem, start, end, input, output)
           u == [w EXCEPT !.period = average.period, !.k = average.k]
           L == average.period - 1 + v.unstable
<1>1. /\ IsCall(w) /\ SameParameters(w, v) /\ w.start = start /\ w.end = end /\ w.mem = mem
      /\ w.to = <<output>>
  BY CallingIsCall DEF OnReal
<1>2. EMAOf(v, average, mem, start, end, input, output) = TA_INT_EMA(u)
  BY DEF EMAOf
<1> HIDE DEF w
<1>3. /\ u.start = start /\ u.end = end /\ u.mem = mem /\ u.to = <<output>>
      /\ u.period = average.period /\ u.unstable = v.unstable
  BY <1>1 DEF IsCall, Fields, SameParameters
<1> HIDE DEF u
<1>4. EMA_Lookback(u) = L /\ L \in Int
  BY <1>3 DEF EMA_Lookback, IsCall
<1>5. Outs(u) = {output} /\ 1 .. 1 \subseteq DOMAIN u.to
  BY <1>3 DEF Outs
<1>6. n >= end - Larger(start, L) + 1
  OBVIOUS
<1> HIDE DEF L
<1>7. Count(u, L) \in Int /\ Count(u, L) =< n
  BY <1>3, <1>4, <1>6 DEF Count, Larger
<1>8. CanWalk(u, L, 1)
  BY <1>3, <1>4, <1>5, <1>7, LessRoom DEF CanWalk
<1>9. Touches(Uniform({output}, Count(u, L)), {}, mem, TA_INT_EMA(u).mem)
  BY <1>3, <1>4, <1>5, <1>8, EMATouches DEF TA_INT_EMA, WroteWalk
<1>10. Covers(Uniform({output}, n), {}, Uniform({output}, Count(u, L)), {})
  BY <1>7 DEF Covers, Uniform
<1> QED
  BY <1>2, <1>9, <1>10, TouchesLess

\* The difference of the averages, in place, and what of it is the first output.
LEMMA SubtractedFits ==
  ASSUME NEW v, NEW mem, NEW n \in Nat, NEW L, Outputs(v) \in Nat,
         HasRoom(mem, "fastBuffer", n), HasRoom(mem, Out(v, 1), Outputs(v)),
         NEW T, NEW m, Touches(T, Temporaries, m, mem), Out(v, 1) \in DOMAIN T,
         T[Out(v, 1)] \in Int, Outputs(v) =< T[Out(v, 1)], Out(v, 1) \notin Temporaries
  PROVE  Touches(T, Temporaries, m, Subtracted(v, mem, n, L))
<1> DEFINE o == Out(v, 1)
           k == Outputs(v)
           less == Less_All(mem, n)
<1>1. Subtracted(v, mem, n, L) = Move(less, o, "fastBuffer", L, k)
  BY Zenon DEF Subtracted, Less_All
<1>2. Touches(Uniform({"fastBuffer"}, n), {}, mem, less)
  BY LessTouches
<1> HIDE DEF o, k, less
<1>3. Touches(T, Temporaries, m, less)
  BY <1>2, ThenNew DEF Temporaries
<1>4. HasRoom(less, o, k)
  BY <1>2, RoomKept DEF o, k
<1>5. Touches(Uniform({o}, k), {}, less, Subtracted(v, mem, n, L))
  BY <1>1, <1>4, MoveTouches DEF k
<1>6. k =< Larger(0, T[o]) /\ k \in Int /\ T[o] \in Int /\ o \in DOMAIN T
  BY DEF Larger, k, o
<1> QED
  BY <1>3, <1>5, <1>6, ThenOutput

\* The histogram.
LEMMA HistogramFits ==
  ASSUME NEW v, NEW signal, signal.nb \in Nat, HasRoom(signal.mem, Out(v, 3), signal.nb)
  PROVE  Touches(Uniform({Out(v, 3)}, signal.nb), {}, signal.mem, Histogram(v, signal).mem)
<1>1. Histogram(v, signal) = Done(Bar_All(v, signal.mem, signal.nb), v.start, signal.nb)
  BY Zenon DEF Histogram, Bar_All
<1> QED
  BY <1>1, BarTouches DEF Done

\* The averages fit in arrays of n elements, and the signal in its output, where it ends.
Converges(w, L, n, slow, fast, signal) ==
    LET room == Allocate(Allocate(w.mem, "fastBuffer", n), "slowBuffer", n)
        less == Subtracted(w, fast.mem, n, L)
    IN /\ HasRoom(room, "slowBuffer", n)
            => Touches(Uniform({"slowBuffer"}, n), MATemps, room, slow.mem)
       /\ HasRoom(slow.mem, "fastBuffer", n)
            => Touches(Uniform({"fastBuffer"}, n), MATemps, slow.mem, fast.mem)
       /\ HasRoom(less, Out(w, 2), Outputs(w))
            => Touches(Uniform({Out(w, 2)}, Outputs(w)), MATemps, less, signal.mem)
       /\ signal.nb = Outputs(w)

\* Then all of it fits.
LEMMA ConvergenceFits ==
  ASSUME NEW u, NEW lookback \in Int, CanCall(u, lookback, 3, Temporaries),
         NEW w, w.start = Larger(u.start, lookback), w.start =< w.end, w.end = u.end,
         w.to = u.to, w.mem = u.mem, NEW L \in Nat, NEW n, n = Outputs(w) + L,
         NEW slow, NEW fast, NEW signal, Converges(w, L, n, slow, fast, signal),
         NEW r,
         r = IF Agree(slow, fast, w.start - L, n) THEN Histogram(w, signal)
             ELSE [Done(fast.mem, 0, 0) EXCEPT !.rc = "TA_INTERNAL_ERROR"]
  PROVE  Fits(r, u, lookback, Temporaries)
<1> DEFINE T    == Budget(u, lookback)
           k    == Outputs(w)
           more == Allocate(w.mem, "fastBuffer", n)
           room == Allocate(more, "slowBuffer", n)
           less == Subtracted(w, fast.mem, n, L)
<1>1. /\ u.start \in Nat /\ u.end \in Int /\ w.start \in Int /\ w.end \in Int
      /\ k \in Nat /\ k = w.end - w.start + 1 /\ k = Count(u, lookback)
      /\ n \in Nat
  BY DEF CanCall, IsCall, Outputs, Count, Larger
<1>2. \A x \in 1 .. 3 : Out(w, x) \in Outs(u) /\ Out(w, x) \notin Temporaries
  BY DEF CanCall, Outs, Out
<1>3. \A x \in 1 .. 3 : /\ Out(w, x) \in DOMAIN T /\ T[Out(w, x)] \in Int /\ k =< T[Out(w, x)]
                        /\ HasRoom(u.mem, Out(w, x), k)
  BY <1>1, <1>2, BudgetIs
<1>0. /\ HasRoom(room, "slowBuffer", n)
           => Touches(Uniform({"slowBuffer"}, n), MATemps, room, slow.mem)
      /\ HasRoom(slow.mem, "fastBuffer", n)
           => Touches(Uniform({"fastBuffer"}, n), MATemps, slow.mem, fast.mem)
      /\ HasRoom(less, Out(w, 2), k)
           => Touches(Uniform({Out(w, 2)}, k), MATemps, less, signal.mem)
      /\ signal.nb = k
  BY DEF Converges
<1> HIDE DEF T, k, room, less
<1>4. Touches(T, Temporaries, u.mem, more) /\ HasRoom(more, "fastBuffer", n)
  <2>1. n \in Int /\ "fastBuffer" \in Temporaries
    BY <1>1 DEF Temporaries
  <2> QED
    BY <2>1, TouchesNothing, ThenAllocate
<1> HIDE DEF more
<1>5. Touches(T, Temporaries, u.mem, room) /\ HasRoom(room, "slowBuffer", n)
  <2>1. n \in Int /\ "slowBuffer" \in Temporaries
    BY <1>1 DEF Temporaries
  <2> QED
    BY <1>4, <2>1, ThenAllocate DEF more, room
<1>6. HasRoom(room, "fastBuffer", n)
  <2>1. n \in Int /\ "fastBuffer" # "slowBuffer" /\ "slowBuffer" \in Temporaries
    BY <1>1 DEF Temporaries
  <2> QED
    BY <1>4, <2>1, AllocateFits DEF more, room
<1>7. Touches(Uniform({"slowBuffer"}, n), MATemps, room, slow.mem)
  BY <1>0, <1>5
<1>19. /\ "fastBuffer" \in Temporaries /\ "slowBuffer" \in Temporaries
       /\ MATemps \subseteq Temporaries
       /\ "fastBuffer" \notin MATemps /\ "slowBuffer" \notin MATemps
  BY DEF Temporaries, MATemps
<1>8. /\ Touches(T, Temporaries, u.mem, slow.mem)
      /\ HasRoom(slow.mem, "fastBuffer", n) /\ HasRoom(slow.mem, "slowBuffer", n)
  BY <1>5, <1>6, <1>7, <1>19, ThenNew, RoomKept
<1>9. Touches(Uniform({"fastBuffer"}, n), MATemps, slow.mem, fast.mem)
  BY <1>0, <1>8
<1>10. Touches(T, Temporaries, u.mem, fast.mem) /\ HasRoom(fast.mem, "fastBuffer", n)
  BY <1>8, <1>9, <1>19, ThenNew, RoomKept
<1>11. \A m : Touches(T, Temporaries, u.mem, m) => \A x \in 1 .. 3 : HasRoom(m, Out(w, x), k)
  BY <1>2, <1>3, RoomKept
<1>12. Touches(T, Temporaries, u.mem, less)
  <2>1. HasRoom(fast.mem, Out(w, 1), k)
    BY <1>10, <1>11
  <2> QED
    BY <1>1, <1>2, <1>3, <1>10, <2>1, SubtractedFits DEF k, less
<1>13. Touches(Uniform({Out(w, 2)}, k), MATemps, less, signal.mem)
  <2>1. HasRoom(less, Out(w, 2), k)
    BY <1>11, <1>12
  <2> QED
    BY <1>0, <2>1
<1>14. \A x \in 1 .. 3 : k =< Larger(0, T[Out(w, x)])
  BY <1>1, <1>3 DEF Larger
<1>15. Touches(T, Temporaries, u.mem, signal.mem)
  <2>1. MATemps \subseteq Temporaries /\ k \in Int /\ 2 \in 1 .. 3
    BY <1>1 DEF MATemps, Temporaries
  <2> QED
    BY <1>3, <1>12, <1>13, <1>14, <2>1, ThenOutput
<1>16. Touches(T, Temporaries, u.mem, Histogram(w, signal).mem)
  <2>1. HasRoom(signal.mem, Out(w, 3), k)
    BY <1>11, <1>15
  <2>2. Touches(Uniform({Out(w, 3)}, k), {}, signal.mem, Histogram(w, signal).mem)
    BY <1>0, <1>1, <2>1, HistogramFits
  <2>3. k \in Int /\ 3 \in 1 .. 3
    BY <1>1
  <2> QED
    BY <1>3, <1>14, <1>15, <2>2, <2>3, ThenOutput
<1>17. [Done(fast.mem, 0, 0) EXCEPT !.rc = "TA_INTERNAL_ERROR"].mem = fast.mem
  BY DEF Done
<1>18. Touches(T, Temporaries, u.mem, r.mem)
  <2>1. CASE Agree(slow, fast, w.start - L, n)
    BY <1>16, <2>1
  <2>2. CASE ~Agree(slow, fast, w.start - L, n)
    BY <1>10, <1>17, <2>2
  <2> QED
    BY <2>1, <2>2
<1> QED
  BY <1>18 DEF Fits, T

\* An allowance without temporary arrays, with some.
LEMMA TouchesMore ==
  ASSUME NEW T, NEW temps, NEW m, NEW w, Touches(T, {}, m, w)
  PROVE  Touches(T, temps, m, w)
BY DEF Touches

\* The arrays stay when the periods change places.
LEMMA SortedArrays ==
  ASSUME NEW u, IsCall(u)
  PROVE  /\ PeriodsSorted(u).mem = u.mem
         /\ PeriodsSorted(u).from = u.from
         /\ PeriodsSorted(u).to = u.to
BY DEF PeriodsSorted, IsCall, Fields

\* Both averages go to buffers of the same size, the difference to the first of them, and from
\* there its signal and the histogram to the outputs.
LEMMA INT_MACDFits ==
  ASSUME NEW u, u.period3 >= 1,
         (u.period >= 1 /\ u.period2 >= 1) \/ (u.period = 0 /\ u.period2 = 0),
         NEW lookback,
         lookback = SlowOf(PeriodsSorted(u)).period - 1 + u.unstable + (u.period3 - 1 + u.unstable),
         CanCall(u, lookback, 3, Temporaries)
  PROVE  Fits(TA_INT_MACD(u), u, lookback, Temporaries)
<1> DEFINE v == PeriodsSorted(u)
           L == EMA_LookbackOf(v, v.period3)
           w == From(v, L + EMA_LookbackOf(v, SlowOf(v).period))
           n == Outputs(w) + L
           room == Allocate(Allocate(w.mem, "fastBuffer", n), "slowBuffer", n)
           signalOf == [period |-> w.period3, k |-> PerToK(w.period3)]
           slow == EMAOf(w, SlowOf(w), room, w.start - L, w.end, Input(w), "slowBuffer")
           fast == EMAOf(w, FastOf(w), slow.mem, w.start - L, w.end, Input(w), "fastBuffer")
           less == Subtracted(w, fast.mem, n, L)
           signal == EMAOf(w, signalOf, less, 0, n - 1, "fastBuffer", Out(w, 2))
<1>0. IsCall(u) /\ u.start \in Nat /\ lookback \in Int
  BY DEF CanCall
<1>1. /\ IsCall(v) /\ v.start = u.start /\ v.end = u.end /\ v.unstable = u.unstable
      /\ v.period3 = u.period3 /\ v.period =< v.period2
      /\ (v.period >= 1 /\ v.period2 >= 1) \/ (v.period = 0 /\ v.period2 = 0)
      /\ v.mem = u.mem /\ v.from = u.from /\ v.to = u.to
  BY <1>0, PeriodsAreSorted, SortedArrays DEF IsCall, Larger, Smaller
<1>2. TA_INT_MACD(u) =
        IF Empty(w) THEN Nothing(w)
        ELSE IF Agree(slow, fast, w.start - L, n) THEN Histogram(w, signal)
        ELSE [Done(fast.mem, 0, 0) EXCEPT !.rc = "TA_INTERNAL_ERROR"]
  BY DEF TA_INT_MACD, Convergence, AfterSlow, AfterBoth
<1>3. lookback = SlowOf(v).period - 1 + u.unstable + (u.period3 - 1 + u.unstable)
  OBVIOUS
<1> HIDE DEF v
<1>4. /\ SlowOf(v).period \in Nat /\ FastOf(v).period \in Nat /\ SlowOf(v).period >= 1
  BY <1>1 DEF SlowOf, FastOf, IsCall
<1>5. /\ L = u.period3 - 1 + u.unstable /\ L \in Nat
      /\ L + EMA_LookbackOf(v, SlowOf(v).period) = lookback
      /\ u.unstable \in Nat
  BY <1>1, <1>3, <1>4, EMA_LookbackOfIs DEF IsCall
<1> HIDE DEF L
<1>6. /\ IsCall(w) /\ SameParameters(w, v) /\ w.end = u.end /\ w.start = Larger(u.start, lookback)
      /\ w.mem = u.mem /\ w.to = u.to /\ u.start \in Int /\ u.end \in Int
  BY <1>0, <1>1, <1>5, FromIsCall DEF IsCall
<1> HIDE DEF w
<1>7. SlowOf(w).period = SlowOf(v).period /\ FastOf(w).period = FastOf(v).period
  BY <1>6 DEF SlowOf, FastOf, SameParameters
<1>8. signalOf.period = u.period3 /\ w.unstable = u.unstable /\ u.period3 \in Nat
  BY <1>1, <1>6 DEF SameParameters, IsCall
<1> HIDE DEF signalOf
<1>9. CASE w.start > w.end
  <2>1. TA_INT_MACD(u) = Nothing(w)
    BY <1>9, <1>2 DEF Empty
  <2> QED
    BY <2>1, <1>6, NothingFits
<1>10. CASE ~(w.start > w.end)
  <2>1. /\ w.start \in Int /\ w.end \in Int /\ w.start =< w.end /\ ~Empty(w)
        /\ Outputs(w) \in Nat /\ Outputs(w) >= 1 /\ n \in Nat /\ n - 1 \in Int /\ w.start - L \in Int
        /\ n = w.end - (w.start - L) + 1 /\ n - 1 - L + 1 = Outputs(w)
    BY <1>0, <1>5, <1>6, <1>10 DEF Empty, Outputs, Larger
  <2>2. n = Outputs(w) + L
    OBVIOUS
  <2> HIDE DEF n
  <2>3. /\ n >= w.end - Larger(w.start - L, SlowOf(w).period - 1 + w.unstable) + 1
        /\ n >= w.end - Larger(w.start - L, FastOf(w).period - 1 + w.unstable) + 1
        /\ Outputs(w) >= (n - 1) - Larger(0, signalOf.period - 1 + w.unstable) + 1
    BY <2>1, <1>4, <1>5, <1>7, <1>8 DEF Larger
  <2>4. SlowOf(w).period \in Nat /\ FastOf(w).period \in Nat /\ signalOf.period \in Nat
    BY <1>4, <1>7, <1>8
  <2>5. TA_INT_MACD(u) =
          IF Agree(slow, fast, w.start - L, n) THEN Histogram(w, signal)
          ELSE [Done(fast.mem, 0, 0) EXCEPT !.rc = "TA_INTERNAL_ERROR"]
    BY <2>1, <1>2
  <2>6. HasRoom(room, "slowBuffer", n)
        => Touches(Uniform({"slowBuffer"}, n), MATemps, room, slow.mem)
    <3> HIDE DEF room
    <3> QED
      BY <2>1, <2>3, <2>4, <1>6, EMAOfFits, TouchesMore
  <2> HIDE DEF slow
  <2>7. HasRoom(slow.mem, "fastBuffer", n)
          => Touches(Uniform({"fastBuffer"}, n), MATemps, slow.mem, fast.mem)
    BY <2>1, <2>3, <2>4, <1>6, EMAOfFits, TouchesMore
  <2> HIDE DEF fast
  <2>8. HasRoom(less, Out(w, 2), Outputs(w))
          => Touches(Uniform({Out(w, 2)}, Outputs(w)), MATemps, less, signal.mem)
    <3> HIDE DEF less
    <3> QED
      BY <2>1, <2>3, <2>4, <1>6, EMAOfFits, TouchesMore
  <2>9. signal.nb = Outputs(w)
    <3> HIDE DEF less
    <3>1. Spans(signal, 0, n - 1, L)
      BY <2>1, <2>4, <1>5, <1>6, <1>8, EMAOfSpans
    <3> HIDE DEF signal
    <3>2. n > L /\ n - L = Outputs(w)
      BY <2>1, <2>2, <1>5
    <3> QED
      BY <3>1, <3>2, <2>1, <1>5, SpansRest
  <2> HIDE DEF signal
  <2>10. Converges(w, L, n, slow, fast, signal)
    BY <2>6, <2>7, <2>8, <2>9 DEF Converges
  <2> HIDE DEF room, less
  <2> QED
    BY <2>1, <2>2, <2>5, <2>10, <1>0, <1>5, <1>6, ConvergenceFits
<1> QED
  BY <1>9, <1>10

\* MACD.
LEMMA MACDFits ==
  ASSUME NEW u, u.period >= 1, u.period2 >= 1, u.period3 >= 1,
         CanCall(u, MACD_Lookback(u), 3, Temporaries)
  PROVE  Fits(TA_MACD(u), u, MACD_Lookback(u), Temporaries)
<1> DEFINE v == PeriodsSorted(u)
           m == Larger(u.period, u.period2)
<1>0. IsCall(u)
  BY DEF CanCall
<1>1. IsCall(v) /\ v.period2 = m /\ m \in Nat /\ m >= 1 /\ u.period3 \in Nat /\ u.unstable \in Nat
  BY <1>0, PeriodsAreSorted DEF IsCall, Larger
<1> HIDE DEF v, m
<1>2. SlowOf(v).period = m
  BY <1>1 DEF SlowOf
<1>3. MACD_Lookback(u) = (m - 1 + u.unstable) + (u.period3 - 1 + u.unstable)
  BY <1>0, <1>1, EMA_LookbackOfIs DEF MACD_Lookback, m
<1>4. MACD_Lookback(u) = SlowOf(v).period - 1 + u.unstable + (u.period3 - 1 + u.unstable)
  BY <1>1, <1>2, <1>3
<1> QED
  BY <1>4, INT_MACDFits DEF TA_MACD, v

\* MACDFIX.
LEMMA MACDFIXFits ==
  ASSUME NEW u, u.period3 >= 1, CanCall(u, MACDFIX_Lookback(u), 3, Temporaries)
  PROVE  Fits(TA_MACDFIX(u), u, MACDFIX_Lookback(u), Temporaries)
<1> DEFINE w == [u EXCEPT !.period = 0, !.period2 = 0]
           v == PeriodsSorted(w)
           L == MACDFIX_Lookback(u)
<1>0. IsCall(u)
  BY DEF CanCall
<1>1. /\ IsCall(w) /\ w.period = 0 /\ w.period2 = 0 /\ w.period3 = u.period3
      /\ w.start = u.start /\ w.end = u.end /\ w.unstable = u.unstable
      /\ w.mem = u.mem /\ w.to = u.to /\ w.from = u.from
      /\ u.period3 \in Nat /\ u.unstable \in Nat
  BY <1>0 DEF IsCall, Fields
<1>2. TA_MACDFIX(u) = TA_INT_MACD(w)
  BY DEF TA_MACDFIX
<1> HIDE DEF w
<1>3. v.period2 = 0
  BY <1>1, PeriodsAreSorted DEF Larger
<1>4. SlowOf(v).period = 26
  BY <1>3 DEF SlowOf
<1>5. L = (26 - 1 + u.unstable) + (u.period3 - 1 + u.unstable)
  BY <1>0, <1>1, EMA_LookbackOfIs DEF MACDFIX_Lookback
<1>6. L = SlowOf(v).period - 1 + w.unstable + (w.period3 - 1 + w.unstable)
  BY <1>1, <1>4, <1>5
<1> HIDE DEF L
<1>7. Outs(w) = Outs(u) /\ Budget(w, L) = Budget(u, L)
  BY <1>1 DEF Outs, Ins, Budget, Count
<1>8. CanCall(w, L, 3, Temporaries)
  BY <1>1, <1>7 DEF CanCall, L
<1>9. Fits(TA_INT_MACD(w), w, L, Temporaries)
  BY <1>1, <1>6, <1>8, INT_MACDFits DEF v
<1> QED
  BY <1>1, <1>2, <1>7, <1>9 DEF Fits, L

\* The input of a call of the caller's is not an array of the functions themselves.
OwnInputs(v) == "inReal" \in DOMAIN v.from /\ Ins(v) \cap Temporaries = {}

\* MACDEXT.
LEMMA MACDEXTFits ==
  ASSUME NEW u, u.period >= 1, u.period2 >= 1, u.period3 >= 1,
         u.maType \in MATypes, u.maType2 \in MATypes, u.maType3 \in MATypes, OwnInputs(u),
         CanCall(u, MACDEXT_Lookback(u), 3, Temporaries)
  PROVE  Fits(TA_MACDEXT(u), u, MACDEXT_Lookback(u), Temporaries)
<1> DEFINE v == PeriodsSorted(u)
           lookback == MACDEXT_Lookback(u)
           w == From(v, lookback)
           L == MA_LookbackOf(w, w.period3, w.maType3)
           n == Outputs(w) + L
           room == Allocate(Allocate(w.mem, "fastBuffer", n), "slowBuffer", n)
           slow == MAOf(w, w.period2, w.maType2, room, w.start - L, w.end, Input(w), "slowBuffer")
           fast == MAOf(w, w.period, w.maType, slow.mem, w.start - L, w.end, Input(w),
                        "fastBuffer")
           less == Subtracted(w, fast.mem, n, L)
           signal == MAOf(w, w.period3, w.maType3, less, 0, n - 1, "fastBuffer", Out(w, 2))
           slowL == MA_LookbackOf(w, w.period2, w.maType2)
           fastL == MA_LookbackOf(w, w.period, w.maType)
           most  == Larger(MA_LookbackOf(u, u.period, u.maType),
                           MA_LookbackOf(u, u.period2, u.maType2))
<1>0. IsCall(u) /\ u.start \in Nat /\ lookback \in Int
  BY DEF CanCall
<1>1. TA_MACDEXT(u) =
        IF Empty(w) THEN Nothing(w)
        ELSE IF Agree(slow, fast, w.start - L, n) THEN Histogram(w, signal)
        ELSE [Done(fast.mem, 0, 0) EXCEPT !.rc = "TA_INTERNAL_ERROR"]
  BY DEF TA_MACDEXT, Convergence, AfterSlow, AfterBoth
<1>2. /\ IsCall(v) /\ v.start = u.start /\ v.end = u.end /\ v.unstable = u.unstable
      /\ v.period3 = u.period3 /\ v.maType3 = u.maType3
      /\ v.period \in Nat /\ v.period2 \in Nat /\ u.period3 \in Nat
      /\ v.period >= 1 /\ v.period2 >= 1
      /\ v.mem = u.mem /\ v.from = u.from /\ v.to = u.to
  BY <1>0, PeriodsAreSorted, SortedArrays DEF IsCall, Larger, Smaller
<1>3. v.maType \in MATypes /\ v.maType2 \in MATypes /\ most \in Nat
  BY <1>0, SortedKeepsLookbacks
<1> HIDE DEF v, most
<1>4. MA_LookbackOf(u, u.period3, u.maType3) \in Nat
  BY <1>0, <1>2, MA_LookbackOfIsNat
<1>5. lookback = most + MA_LookbackOf(u, u.period3, u.maType3)
  BY <1>3, <1>4 DEF MACDEXT_Lookback, most
<1> HIDE DEF lookback
<1>6. /\ IsCall(w) /\ SameParameters(w, v) /\ w.end = u.end /\ w.start = Larger(u.start, lookback)
      /\ w.mem = u.mem /\ w.from = u.from /\ w.to = u.to /\ u.start \in Int /\ u.end \in Int
  BY <1>0, <1>2, FromIsCall DEF IsCall
<1> HIDE DEF w
<1>7. /\ w.period = v.period /\ w.period2 = v.period2 /\ w.period3 = u.period3
      /\ w.maType = v.maType /\ w.maType2 = v.maType2 /\ w.maType3 = u.maType3
      /\ w.unstable = v.unstable
  BY <1>2, <1>6 DEF SameParameters
<1>8. L = MA_LookbackOf(u, u.period3, u.maType3) /\ L \in Nat /\ L =< lookback
  BY <1>0, <1>2, <1>3, <1>4, <1>5, <1>6, <1>7, MA_LookbackOfAgrees
<1>9. slowL \in Nat /\ fastL \in Nat
  BY <1>2, <1>3, <1>6, <1>7, MA_LookbackOfIsNat
<1>10. Input(w) \notin Temporaries /\ Out(w, 2) \notin Temporaries
  <2>1. Input(w) \in Ins(u)
    BY <1>6 DEF Input, Ins, OwnInputs
  <2>2. Out(w, 2) \in Outs(u)
    BY <1>6 DEF Out, Outs, CanCall
  <2> QED
    BY <2>1, <2>2 DEF OwnInputs, CanCall
<1>11. /\ Input(w) # "slowBuffer" /\ Input(w) # "fastBuffer" /\ Out(w, 2) # "fastBuffer"
       /\ Out(w, 2) \notin MATemps /\ "slowBuffer" \notin MATemps /\ "fastBuffer" \notin MATemps
  BY <1>10 DEF Temporaries, MATemps
<1> HIDE DEF L, fastL, slowL
<1>12. CASE w.start > w.end
  <2>1. TA_MACDEXT(u) = Nothing(w)
    BY <1>12, <1>1 DEF Empty
  <2> QED
    BY <2>1, <1>6, NothingFits
<1>13. CASE ~(w.start > w.end)
  <2>1. /\ w.start \in Int /\ w.end \in Int /\ w.start =< w.end /\ ~Empty(w)
        /\ Outputs(w) \in Nat /\ Outputs(w) >= 1 /\ n \in Nat /\ n - 1 \in Int /\ 0 =< n - 1
        /\ w.start - L \in Nat /\ w.start - L =< w.end
        /\ n = w.end - (w.start - L) + 1 /\ n - 1 - L + 1 = Outputs(w)
    BY <1>0, <1>6, <1>8, <1>13 DEF Empty, Outputs, Larger
  <2>2. n = Outputs(w) + L
    OBVIOUS
  <2> HIDE DEF n
  <2>3. /\ n >= w.end - Larger(w.start - L, slowL) + 1
        /\ n >= w.end - Larger(w.start - L, fastL) + 1
        /\ Outputs(w) >= (n - 1) - Larger(0, L) + 1
    BY <2>1, <1>8, <1>9 DEF Larger
  <2>4. TA_MACDEXT(u) =
          IF Agree(slow, fast, w.start - L, n) THEN Histogram(w, signal)
          ELSE [Done(fast.mem, 0, 0) EXCEPT !.rc = "TA_INTERNAL_ERROR"]
    BY <2>1, <1>1
  <2>5. HasRoom(room, "slowBuffer", n)
        => Touches(Uniform({"slowBuffer"}, n), MATemps, room, slow.mem)
    <3> HIDE DEF room
    <3> QED
      BY <2>1, <2>3, <1>2, <1>3, <1>6, <1>7, <1>11, MAOfFits DEF slowL
  <2> HIDE DEF slow
  <2>6. HasRoom(slow.mem, "fastBuffer", n)
          => Touches(Uniform({"fastBuffer"}, n), MATemps, slow.mem, fast.mem)
    BY <2>1, <2>3, <1>2, <1>3, <1>6, <1>7, <1>11, MAOfFits DEF fastL
  <2> HIDE DEF fast
  <2>7. HasRoom(less, Out(w, 2), Outputs(w))
          => Touches(Uniform({Out(w, 2)}, Outputs(w)), MATemps, less, signal.mem)
    <3> HIDE DEF less
    <3> QED
      BY <2>1, <2>3, <1>2, <1>6, <1>7, <1>11, MAOfFits DEF L
  <2>8. signal.nb = Outputs(w)
    <3> HIDE DEF less
    <3>1. Spans(signal, 0, n - 1, L)
      BY <2>1, <1>2, <1>6, <1>7, MAOfSpans DEF L
    <3> HIDE DEF signal
    <3>2. n > L /\ n - L = Outputs(w)
      BY <2>1, <2>2, <1>8
    <3> QED
      BY <3>1, <3>2, <2>1, <1>8, SpansRest
  <2> HIDE DEF signal
  <2>9. Converges(w, L, n, slow, fast, signal)
    BY <2>5, <2>6, <2>7, <2>8 DEF Converges
  <2> HIDE DEF room, less
  <2>10. Fits(TA_MACDEXT(u), u, lookback, Temporaries)
    <3>1. CanCall(u, lookback, 3, Temporaries)
      BY DEF lookback
    <3> QED
      BY <2>1, <2>2, <2>4, <2>9, <3>1, <1>0, <1>6, <1>8, ConvergenceFits
  <2> QED
    BY <2>10 DEF lookback
<1> QED
  BY <1>12, <1>13 DEF lookback

\* The loop of APO and PPO.
LEMMA ApartFits ==
  ASSUME NEW v, NEW percentage, NEW shift, NEW slow, slow.nb \in Nat,
         HasRoom(slow.mem, Out(v, 1), slow.nb)
  PROVE  Touches(Uniform({Out(v, 1)}, slow.nb), {}, slow.mem,
                 Difference(v, percentage, shift, slow).mem)
<1>1. Difference(v, percentage, shift, slow)
      = Done(Apart_All(v, percentage, shift, slow.mem, slow.nb), slow.beg, slow.nb)
  BY Zenon DEF Difference, Apart_All
<1> QED
  BY <1>1, ApartTouches DEF Done

\* APO and PPO: the fast average in a buffer with the bars of the range, the slow one in the output.
LEMMA DifferenceFits ==
  ASSUME NEW u, u.start =< u.end, u.period >= 1, u.period2 >= 1, u.maType \in MATypes, OwnInputs(u),
         CanCall(u, PO_Lookback(u), 1, Temporaries), NEW percentage
  PROVE  Fits(TA_INT_PO(u, percentage), u, PO_Lookback(u), Temporaries)
<1> DEFINE s == PeriodsSorted(u)
           v == [s EXCEPT !.maType = u.maType]
           n == Outputs(v)
           room == Allocate(v.mem, "tempBuffer", n)
           fast == MAOf(v, v.period, v.maType, room, v.start, v.end, Input(v), "tempBuffer")
           slow == MAOf(v, v.period2, v.maType, fast.mem, v.start, v.end, Input(v), Out(v, 1))
           L == PO_Lookback(u)
           T == Budget(u, L)
           o == Out(v, 1)
           shift == slow.beg - fast.beg
<1>0. IsCall(u) /\ u.start \in Nat /\ L \in Int
  BY DEF CanCall
<1>1. TA_INT_PO(u, percentage) = Difference(v, percentage, shift, slow)
  BY DEF TA_INT_PO, AfterFast, FromSlowStart
<1>2. /\ IsCall(s) /\ s.start = u.start /\ s.end = u.end /\ s.unstable = u.unstable
      /\ s.period2 = Larger(u.period, u.period2) /\ s.period = Smaller(u.period, u.period2)
      /\ s.mem = u.mem /\ s.from = u.from /\ s.to = u.to
  BY <1>0, PeriodsAreSorted, SortedArrays
<1> HIDE DEF s
<1>3. /\ IsCall(v) /\ v.start = u.start /\ v.end = u.end /\ v.unstable = u.unstable
      /\ v.period2 = Larger(u.period, u.period2) /\ v.maType = u.maType
      /\ v.period \in Nat /\ v.period >= 1 /\ v.period2 \in Nat /\ v.period2 >= 1 /\ u.end \in Int
      /\ v.mem = u.mem /\ v.from = u.from /\ v.to = u.to
  BY <1>0, <1>2 DEF IsCall, Fields, Larger, Smaller
<1> HIDE DEF v
<1>4. MA_LookbackOf(v, v.period2, v.maType) = L
  BY <1>0, <1>3, MA_LookbackOfAgrees DEF PO_Lookback
<1>5. MA_LookbackOf(v, v.period, v.maType) \in Nat /\ L \in Nat
  BY <1>3, <1>4, MA_LookbackOfIsNat
<1>6. n \in Nat /\ n = v.end - v.start + 1 /\ v.start \in Nat /\ v.end \in Int /\ v.start =< v.end
  BY <1>0, <1>3 DEF Outputs
<1>7. n >= v.end - Larger(v.start, MA_LookbackOf(v, v.period, v.maType)) + 1
  BY <1>5, <1>6 DEF Larger
<1>8. /\ o \in Outs(u) /\ o \notin Temporaries
      /\ Input(v) \in Ins(u) /\ Input(v) \notin Temporaries
  BY <1>3 DEF CanCall, Outs, Out, OwnInputs, Ins, Input
<1>9. /\ "tempBuffer" \in Temporaries /\ "tempBuffer" \notin MATemps /\ MATemps \subseteq Temporaries
      /\ Input(v) # "tempBuffer" /\ o \notin MATemps
  BY <1>8 DEF Temporaries, MATemps
<1>10. /\ DOMAIN T = Outs(u) /\ T[o] \in Int /\ HasRoom(u.mem, o, T[o])
       /\ T[o] >= IF Input(v) = o THEN v.end + 1 ELSE v.end - Larger(v.start, L) + 1
  BY <1>0, <1>3, <1>8, BudgetIs DEF Count
<1> HIDE DEF n, o, T
<1>11. Touches(T, Temporaries, u.mem, room) /\ HasRoom(room, "tempBuffer", n)
  <2>1. room = Allocate(u.mem, "tempBuffer", n) /\ n \in Int
    BY <1>3, <1>6
  <2> HIDE DEF room, L
  <2> QED
    BY <2>1, <1>9, TouchesNothing, ThenAllocate
<1> HIDE DEF room
<1>12. Touches(Uniform({"tempBuffer"}, n), MATemps, room, fast.mem)
  BY <1>3, <1>6, <1>7, <1>9, <1>11, MAOfFits
<1> HIDE DEF fast
<1>13. Touches(T, Temporaries, u.mem, fast.mem)
  BY <1>9, <1>11, <1>12, ThenNew
<1>14. HasRoom(fast.mem, o, T[o])
  BY <1>8, <1>10, <1>13, RoomKept
<1>15. Spans(slow, v.start, v.end, L)
  BY <1>3, <1>4, <1>6, MAOfSpans
<1>16. Touches(Uniform({o}, T[o]), MATemps, fast.mem, slow.mem)
  <2>1. slow = MAOf(v, v.period2, v.maType, fast.mem, v.start, v.end, Input(v), o)
    BY DEF o
  <2> HIDE DEF slow
  <2> QED
    BY <2>1, <1>3, <1>4, <1>6, <1>9, <1>10, <1>14, MAOfFits
<1> HIDE DEF slow, shift, L
<1>17. T[o] =< Larger(0, T[o])
  BY <1>10 DEF Larger
<1>18. Touches(T, Temporaries, u.mem, slow.mem)
  BY <1>8, <1>9, <1>10, <1>13, <1>16, <1>17, ThenOutput
<1>19. slow.nb \in Nat /\ HasRoom(slow.mem, o, slow.nb) /\ slow.nb =< Larger(0, T[o])
  <2>1. CanCall(u, L, 1, Temporaries) /\ Spans(slow, u.start, u.end, L)
    BY <1>3, <1>15 DEF L
  <2> QED
    BY <2>1, <1>0, <1>8, <1>18, AnswerHasRoom DEF T
<1>20. Touches(Uniform({o}, slow.nb), {}, slow.mem, TA_INT_PO(u, percentage).mem)
  BY <1>1, <1>19, ApartFits DEF o
<1>21. Touches(T, Temporaries, u.mem, TA_INT_PO(u, percentage).mem)
  BY <1>8, <1>10, <1>18, <1>19, <1>20, ThenOutput
<1> QED
  BY <1>21 DEF Fits, T, L

(* BBANDS. *)

\* The deviations from the average of Width, as many as the average has elements at most.
LEMMA WidthFits ==
  ASSUME NEW v, IsCall(v), NEW buffers, NEW average, NEW n \in Int, NEW temps,
         average.nb \in Nat, average.nb =< Larger(0, n), average.nb > 0,
         DOMAIN average = {"mem", "beg", "nb", "rc"},
         average.beg \in Nat, average.beg =< v.end, n = v.end - average.beg + 1,
         buffers[2] \notin temps, Input(v) # buffers[2], HasRoom(average.mem, buffers[2], n)
  PROVE  LET width == Width(v, buffers, average)
         IN /\ width.nb \in Nat /\ width.nb =< Larger(0, n)
            /\ Touches(Uniform({buffers[2]}, n), temps, average.mem, width.mem)
<1> DEFINE width == Width(v, buffers, average)
           b == buffers[2]
           o == OnReal(v, average.mem, average.beg, v.end, Input(v), b)
           d == [o EXCEPT !.nbDevUp = Unit]
           P == PeriodLessOne(v)
           all == TA_INT_stddev_using_precalc_ma(v, buffers, average)
<1>1. v.maType = "SMA" => width = [average EXCEPT !.mem = all]
  BY DEF Width
<1>2. v.maType # "SMA" => width = TA_STDDEV(d)
  BY DEF Width
<1>3. v.end \in Int /\ v.period \in Nat /\ P \in Int /\ average.beg \in Int
  BY DEF IsCall, PeriodLessOne
<1>4. CASE v.maType = "SMA"
  <2>1. width.mem = all /\ width.nb = average.nb
    BY <1>1, <1>4
  <2>2. average.nb =< n
    BY DEF Larger
  <2>3. HasRoom(average.mem, b, average.nb)
    BY <2>2, LessRoom
  <2>4. Touches(Uniform({b}, average.nb), {}, average.mem, all)
    BY <2>3, PrecalcTouches
  <2> HIDE DEF all, width
  <2>5. Covers(Uniform({b}, n), temps, Uniform({b}, average.nb), {})
    BY <2>2 DEF Covers, Uniform
  <2>6. Touches(Uniform({b}, n), temps, average.mem, width.mem)
    BY <2>1, <2>4, <2>5, TouchesLess
  <2> QED
    BY <2>1, <2>6 DEF width
<1>5. CASE v.maType # "SMA"
  <2> HIDE DEF width, all
  <2>1. /\ IsCall(o) /\ o.start = average.beg /\ o.end = v.end /\ o.period = v.period
        /\ o.mem = average.mem /\ o.from = [inReal |-> Input(v)] /\ o.to = <<b>>
    BY <1>3, CallingIsCall DEF OnReal, SameParameters
  <2> HIDE DEF o
  <2>2. /\ IsCall(d) /\ d.start = average.beg /\ d.end = v.end /\ d.period = v.period
        /\ d.mem = average.mem /\ d.from = [inReal |-> Input(v)] /\ d.to = <<b>>
    BY <2>1 DEF IsCall, Fields
  <2> HIDE DEF d
  <2>3. PeriodLessOne(d) = P
    BY <2>2 DEF PeriodLessOne
  <2>4. Outs(d) = {b} /\ Ins(d) = {Input(v)} /\ 1 .. 1 \subseteq DOMAIN d.to
    BY <2>2 DEF Outs, Ins
  <2> HIDE DEF P
  <2>5. Budget(d, P) = [x \in {b} |-> Count(d, P)]
    BY <2>4 DEF Budget
  <2>6. Count(d, P) \in Int /\ Count(d, P) =< n
    BY <1>3, <2>2 DEF Count, Larger
  <2>7. HasRoom(average.mem, b, Count(d, P))
    BY <2>6, LessRoom
  <2>8. CanCall(d, P, 1, temps)
    BY <1>3, <2>2, <2>4, <2>5, <2>7 DEF CanCall
  <2>9. Touches(Budget(d, P), temps, average.mem, width.mem)
    BY <1>2, <1>5, <2>2, <2>3, <2>8, STDDEVFits DEF Fits
  <2>10. Covers(Uniform({b}, n), temps, Budget(d, P), temps)
    BY <2>5, <2>6 DEF Covers, Uniform
  <2>11. Touches(Uniform({b}, n), temps, average.mem, width.mem)
    BY <2>9, <2>10, TouchesLess
  <2>12. Spans(width, average.beg, v.end, P)
    BY <1>2, <1>5, <2>2, <2>3, STDDEVSpans
  <2>13. width.nb \in Nat /\ width.nb =< Larger(0, n)
    BY <1>3, <2>12 DEF Spans, Larger
  <2> QED
    BY <2>11, <2>13 DEF width
<1> QED
  BY <1>4, <1>5

\* The bands of an average and a deviation.
LEMMA BandsFit ==
  ASSUME NEW v, NEW buffers, NEW width, width.nb \in Nat, NEW T, NEW temps, NEW m,
         Touches(T, temps, m, width.mem),
         \A x \in 1 .. 3 : /\ Out(v, x) \notin temps /\ Out(v, x) \in DOMAIN T
                           /\ T[Out(v, x)] \in Int /\ width.nb =< Larger(0, T[Out(v, x)])
                           /\ HasRoom(m, Out(v, x), width.nb)
  PROVE  Touches(T, temps, m, Bands(v, buffers, width).mem)
<1> DEFINE n == width.nb
           middle == IF buffers[1] = Out(v, 2) THEN width.mem
                     ELSE Move(width.mem, Out(v, 2), buffers[1], 0, n)
           both == {Out(v, 1), Out(v, 3)}
<1>1. Bands(v, buffers, width) = Done(Band_All(v, buffers, middle, n), width.beg, n)
  BY Zenon DEF Bands, Band_All
<1>2. \A w : Touches(T, temps, m, w) => \A x \in 1 .. 3 : HasRoom(w, Out(v, x), n)
  BY RoomKept
<1>3. n \in Nat /\ n \in Int /\ 1 \in 1 .. 3 /\ 2 \in 1 .. 3 /\ 3 \in 1 .. 3
  OBVIOUS
<1>4. \A x \in 1 .. 3 : /\ Out(v, x) \notin temps /\ Out(v, x) \in DOMAIN T
                        /\ T[Out(v, x)] \in Int /\ n =< Larger(0, T[Out(v, x)])
  OBVIOUS
<1> HIDE DEF n
<1>5. Touches(T, temps, m, middle)
  <2>1. CASE buffers[1] = Out(v, 2)
    BY <2>1
  <2>2. CASE buffers[1] # Out(v, 2)
    <3>1. HasRoom(width.mem, Out(v, 2), n)
      BY <1>2, <1>3
    <3>2. middle = Move(width.mem, Out(v, 2), buffers[1], 0, n)
      BY <2>2
    <3> HIDE DEF middle
    <3>3. Touches(Uniform({Out(v, 2)}, n), {}, width.mem, middle)
      BY <1>3, <3>1, <3>2, MoveTouches
    <3> QED
      BY <1>3, <1>4, <3>3, ThenOutput
  <2> QED
    BY <2>1, <2>2
<1> HIDE DEF middle
<1>6. Touches(Uniform(both, n), {}, middle, Band_All(v, buffers, middle, n))
  BY <1>2, <1>3, <1>5, BandTouches
<1>7. Covers(T, temps, Uniform(both, n), {})
  BY <1>3, <1>4, CoversUniform
<1> HIDE DEF both
<1>8. Touches(T, temps, m, Band_All(v, buffers, middle, n))
  BY <1>5, <1>6, <1>7, TouchesThen
<1> QED
  BY <1>1, <1>8 DEF Done

\* BBANDS writes the average and the deviation to two of its outputs.
LEMMA BBANDSFits ==
  ASSUME NEW v, v.start =< v.end, v.period >= 1, v.maType \in MATypes,
         CanCall(v, MA_Lookback(v), 3, Temporaries)
  PROVE  Fits(TA_BBANDS(v), v, MA_Lookback(v), Temporaries)
<1> DEFINE buffers == BandBuffers(v)
           average == MAOf(v, v.period, v.maType, v.mem, v.start, v.end, Input(v), buffers[1])
           width   == Width(v, buffers, average)
           L       == MA_Lookback(v)
           n       == Count(v, L)
           T       == Budget(v, L)
<1>0. IsCall(v) /\ v.start \in Nat /\ L \in Int /\ v.end \in Int /\ v.period \in Nat
  BY DEF CanCall, IsCall
<1>1. TA_BBANDS(v) = IF Input(v) \in Range(buffers) THEN [Nothing(v) EXCEPT !.rc = "TA_BAD_PARAM"]
                     ELSE IF average.nb = 0 THEN average ELSE Bands(v, buffers, width)
  BY DEF TA_BBANDS, About
<1>2. buffers \in {<<Out(v, 2), Out(v, 3)>>, <<Out(v, 3), Out(v, 1)>>, <<Out(v, 2), Out(v, 1)>>}
  BY DEF BandBuffers
<1>3. \A x \in 1 .. 3 : Out(v, x) \in Outs(v) /\ Out(v, x) \notin Temporaries
  BY DEF CanCall, Outs, Out
<1>4. \A o \in Outs(v) : /\ o \in DOMAIN T /\ T[o] \in Int /\ n =< T[o] /\ o \notin Temporaries
                         /\ HasRoom(v.mem, o, T[o])
  BY <1>0, BudgetIs DEF CanCall
<1>5. n \in Int /\ n = v.end - Larger(v.start, L) + 1
  BY <1>0 DEF Count, Larger
<1>6. MA_LookbackOf(v, v.period, v.maType) = L /\ L \in Nat
  BY <1>0, TypedIsCall, MA_LookbackAgrees, MA_LookbackIsNat DEF MA_LookbackOf
<1>7. buffers[1] \in Outs(v) /\ buffers[2] \in Outs(v) /\ DOMAIN buffers = 1 .. 2
  BY <1>2, <1>3
<1> HIDE DEF buffers, L, n, T
<1>8. CASE Input(v) \in Range(buffers)
  <2>1. TA_BBANDS(v).mem = v.mem
    BY <1>1, <1>8 DEF Nothing, Done
  <2> QED
    BY <2>1, TouchesNothing DEF Fits
<1>9. CASE Input(v) \notin Range(buffers)
  <2>1. Input(v) # buffers[1] /\ Input(v) # buffers[2]
    BY <1>7, <1>9 DEF Range
  <2>2. Spans(average, v.start, v.end, L)
    BY <1>0, <1>6, MAOfSpans
  <2>3. Touches(Uniform({buffers[1]}, T[buffers[1]]), MATemps, v.mem, average.mem)
    <3>1. buffers[1] \notin MATemps
      BY <1>4, <1>7 DEF MATemps, Temporaries
    <3>2. T[buffers[1]] \in Int /\ HasRoom(v.mem, buffers[1], T[buffers[1]]) /\ T[buffers[1]] >= n
      BY <1>4, <1>5, <1>7
    <3> HIDE DEF average
    <3>3. average = MAOf(v, v.period, v.maType, v.mem, v.start, v.end, Input(v), buffers[1])
      BY DEF average
    <3> QED
      BY <1>0, <1>5, <1>6, <2>1, <3>1, <3>2, <3>3, MAOfFits
  <2> HIDE DEF average
  <2>4. Touches(T, Temporaries, v.mem, average.mem)
    <3>1. MATemps \subseteq Temporaries
      BY DEF MATemps, Temporaries
    <3>2. T[buffers[1]] =< Larger(0, T[buffers[1]])
      BY <1>4, <1>7 DEF Larger
    <3>3. Touches(T, Temporaries, v.mem, v.mem)
      BY TouchesNothing
    <3> QED
      BY <1>4, <1>7, <2>3, <3>1, <3>2, <3>3, ThenOutput
  <2>5. CASE average.nb = 0
    BY <1>1, <1>9, <2>4, <2>5 DEF Fits, T, L
  <2>6. CASE average.nb # 0
    <3>1. /\ average.nb \in Nat /\ average.nb > 0 /\ average.nb =< Larger(0, n)
          /\ average.beg \in Nat /\ average.beg =< v.end /\ n = v.end - average.beg + 1
          /\ n \in Nat /\ DOMAIN average = {"mem", "beg", "nb", "rc"}
      BY <1>0, <1>5, <1>6, <2>2, <2>6 DEF Spans, Larger
    <3>2. \A o \in Outs(v) : HasRoom(average.mem, o, n) /\ HasRoom(v.mem, o, n)
      BY <1>4, <2>4, <3>1, RoomKept, LessRoom
    <3>3. /\ width.nb \in Nat /\ width.nb =< Larger(0, n)
          /\ Touches(Uniform({buffers[2]}, n), Temporaries, average.mem, width.mem)
      BY <1>0, <1>4, <1>5, <1>7, <2>1, <3>1, <3>2, WidthFits
    <3> HIDE DEF width
    <3>4. \A o \in Outs(v) : n =< Larger(0, T[o]) /\ width.nb =< Larger(0, T[o]) /\ width.nb =< n
      BY <1>4, <3>1, <3>3 DEF Larger
    <3>5. Touches(T, Temporaries, v.mem, width.mem)
      BY <1>4, <1>7, <2>4, <3>1, <3>3, <3>4, ThenOutput
    <3>6. \A o \in Outs(v) : HasRoom(v.mem, o, width.nb)
      BY <3>1, <3>2, <3>3, <3>4, LessRoom
    <3>7. Touches(T, Temporaries, v.mem, Bands(v, buffers, width).mem)
      BY <1>3, <1>4, <3>3, <3>4, <3>5, <3>6, BandsFit
    <3> QED
      BY <1>1, <1>9, <2>6, <3>7 DEF Fits, T, L
  <2> QED
    BY <2>5, <2>6
<1> QED
  BY <1>8, <1>9

-----------------------------------------------------------------------------
(* STOCHF, STOCH, STOCHRSI: the raw values and their averages go to a      *)
(* buffer, or to an output that is the array of an input.                  *)

\* The inputs of the stochastics.
Prices(v) == {"inHigh", "inLow", "inClose"} \subseteq DOMAIN v.from

\* The buffer is a temporary array, or an output that has the bars to the end of the range.
LEMMA StochBufferIs ==
  ASSUME NEW v, NEW lookback \in Int, CanCall(v, lookback, 2, Temporaries), Prices(v)
  PROVE  /\ StochBuffer(v) \notin MATemps
         /\ \/ StochBuffer(v) = "tempBuffer"
            \/ /\ StochBuffer(v) # "tempBuffer" /\ StochBuffer(v) \in Outs(v)
               /\ Budget(v, lookback)[StochBuffer(v)] = v.end + 1
<1>1. \A x \in 1 .. 2 : Out(v, x) \in Outs(v) /\ Out(v, x) \notin Temporaries
  BY DEF CanCall, Outs, Out
<1>2. "tempBuffer" \notin MATemps /\ MATemps \subseteq Temporaries /\ "tempBuffer" \in Temporaries
  BY DEF MATemps, Temporaries
<1>3. {v.from["inHigh"], v.from["inLow"], v.from["inClose"]} \subseteq Ins(v)
  BY DEF Ins, Prices
<1>4. \A o \in Outs(v) : o \in Ins(v) => Budget(v, lookback)[o] = v.end + 1
  BY BudgetIs
<1> QED
  BY <1>1, <1>2, <1>3, <1>4 DEF StochBuffer

\* The buffer is a temporary array, or an output with a budget of n elements.
Buffered(T, b, n) == b = "tempBuffer" \/ (b \in DOMAIN T /\ T[b] \in Int /\ n =< T[b])

\* A write of n elements to it.
LEMMA ThenBuffer ==
  ASSUME NEW T, NEW m, NEW w, Touches(T, Temporaries, m, w), NEW b, NEW n \in Int,
         Buffered(T, b, n), NEW x, NEW temps, temps \subseteq Temporaries,
         Touches(Uniform({b}, n), temps, w, x)
  PROVE  Touches(T, Temporaries, m, x)
<1>1. CASE b = "tempBuffer"
  <2>1. b \in Temporaries
    BY <1>1 DEF Temporaries
  <2> QED
    BY <2>1, ThenNew
<1>2. CASE b \in DOMAIN T /\ T[b] \in Int /\ n =< T[b]
  <2>1. T[b] \in Int /\ n =< Larger(0, T[b])
    BY <1>2 DEF Larger
  <2> QED
    BY <1>2, <2>1, ThenOutput
<1> QED
  BY <1>1, <1>2 DEF Buffered

\* The raw values.
LEMMA RawKFits ==
  ASSUME NEW v, IsCall(v), NEW lookback \in Int, NEW n, n = Outputs(v) + lookback,
         NEW room, room = (IF StochBuffer(v) = "tempBuffer" THEN Allocate(v.mem, "tempBuffer", n)
                           ELSE v.mem),
         HasRoom(room, StochBuffer(v), n)
  PROVE  Touches(Uniform({StochBuffer(v)}, n), {}, room, RawK(v, lookback).mem)
<1> DEFINE b == StochBuffer(v)
           w == Calling(v, room, v.start - lookback, v.end, v.from, <<b>>)
           P == PeriodLessOne(v)
<1>1. v.start - lookback \in Int /\ v.end \in Int /\ P \in Int /\ n \in Int
      /\ n = v.end - (v.start - lookback) + 1
  BY DEF IsCall, PeriodLessOne, Outputs
<1>2. RawK(v, lookback) = Run(w, P, ChannelBegin, FastK)
  BY DEF RawK
<1>3. w.start = v.start - lookback /\ w.end = v.end /\ w.mem = room /\ w.to = <<b>>
  BY <1>1, CallingIsCall
<1> HIDE DEF w, b, P
<1>4. Outs(w) = {b} /\ 1 .. 1 \subseteq DOMAIN w.to
  BY <1>3 DEF Outs
<1>5. Count(w, P) \in Int /\ Count(w, P) =< n
  BY <1>1, <1>3 DEF Count, Larger
<1>6. HasRoom(room, b, Count(w, P))
  BY <1>1, <1>5, LessRoom DEF b
<1>7. CanWalk(w, P, 1)
  BY <1>1, <1>3, <1>4, <1>6 DEF CanWalk
<1>8. Touches(Uniform({b}, Count(w, P)), {}, room, RawK(v, lookback).mem)
  BY <1>2, <1>3, <1>4, <1>7, FastKTouches DEF WroteWalk
<1>9. Covers(Uniform({b}, n), {}, Uniform({b}, Count(w, P)), {})
  BY <1>1, <1>5 DEF Covers, Uniform
<1>10. Touches(Uniform({b}, n), {}, room, RawK(v, lookback).mem)
  BY <1>8, <1>9, TouchesLess
<1> QED
  BY <1>10 DEF b

\* An average of what the buffer holds, in an array other than those of MA.
LEMMA SmoothedKFits ==
  ASSUME NEW v, IsCall(v), NEW raw, raw.nb \in Nat, raw.nb >= 1, NEW period \in Nat, period >= 1,
         NEW maType \in MATypes, NEW output, output \notin MATemps, NEW n \in Int,
         n >= IF StochBuffer(v) = output THEN raw.nb
              ELSE raw.nb - MA_LookbackOf(v, period, maType),
         HasRoom(raw.mem, output, n)
  PROVE  Touches(Uniform({output}, n), MATemps, raw.mem,
                 SmoothedK(v, raw, period, maType, output).mem)
<1> DEFINE L == MA_LookbackOf(v, period, maType)
<1>1. raw.nb - 1 \in Int /\ 0 =< raw.nb - 1 /\ 0 \in Nat /\ L \in Nat
  BY MA_LookbackOfIsNat
<1> HIDE DEF L
<1>2. n >= IF StochBuffer(v) = output THEN (raw.nb - 1) + 1 ELSE (raw.nb - 1) - Larger(0, L) + 1
  BY <1>1 DEF Larger, L
<1>3. Touches(Uniform({output}, n), MATemps, raw.mem,
              MAOf(v, period, maType, raw.mem, 0, raw.nb - 1, StochBuffer(v), output).mem)
  BY <1>1, <1>2, MAOfFits DEF L
<1> QED
  BY <1>3 DEF SmoothedK

\* The last average goes to the second output, and what of the buffer is of its bars to the first.
LEMMA FromBufferFits ==
  ASSUME NEW u, NEW lookback \in Int, CanCall(u, lookback, 2, Temporaries),
         NEW v, v.to = u.to, NEW k, k = Count(u, lookback), k \in Nat, NEW L, NEW D, D.nb = k,
         Touches(Budget(u, lookback), Temporaries, u.mem, D.mem)
  PROVE  Fits(FromBuffer(v, L, D), u, lookback, Temporaries)
<1> DEFINE T == Budget(u, lookback)
           o == Out(v, 1)
<1>1. o \in Outs(u) /\ o \notin Temporaries
  BY DEF CanCall, Outs, Out
<1>2. o \in DOMAIN T /\ T[o] \in Int /\ k =< T[o] /\ HasRoom(u.mem, o, k)
  BY <1>1, BudgetIs
<1>3. FromBuffer(v, L, D).mem = Move(D.mem, o, StochBuffer(v), L, k)
  BY DEF FromBuffer, Done
<1> HIDE DEF T, o
<1>4. HasRoom(D.mem, o, k)
  BY <1>1, <1>2, RoomKept DEF T
<1>5. Touches(Uniform({o}, k), {}, D.mem, FromBuffer(v, L, D).mem)
  BY <1>3, <1>4, MoveTouches
<1>6. k =< Larger(0, T[o]) /\ k \in Int
  BY <1>2 DEF Larger
<1>7. Touches(T, Temporaries, u.mem, D.mem)
  BY DEF T
<1>8. Touches(T, Temporaries, u.mem, FromBuffer(v, L, D).mem)
  BY <1>2, <1>5, <1>6, <1>7, ThenOutput
<1> QED
  BY <1>8 DEF Fits, T

\* What STOCHF and STOCH have before the raw values: the buffer, with room for n of them.
LEMMA RawKRoom ==
  ASSUME NEW u, NEW lookback \in Nat, CanCall(u, lookback, 2, Temporaries), Prices(u),
         NEW v, v = From(u, lookback), NEW more \in Nat, more =< lookback,
         v.start =< v.end, Outputs(v) + more =< v.end + 1
  PROVE  LET T   == Budget(u, lookback)
             b   == StochBuffer(v)
             raw == RawK(v, more)
         IN /\ Touches(T, Temporaries, u.mem, raw.mem)
            /\ HasRoom(raw.mem, b, Outputs(v) + more)
            /\ b \notin MATemps
            /\ b = "tempBuffer" \/ (b \in DOMAIN T /\ T[b] = v.end + 1)
<1> DEFINE T == Budget(u, lookback)
           n == Outputs(v) + more
           b == StochBuffer(v)
           raw == RawK(v, more)
           room == IF b = "tempBuffer" THEN Allocate(v.mem, "tempBuffer", n) ELSE v.mem
<1>1. /\ IsCall(v) /\ v.mem = u.mem /\ v.from = u.from /\ v.to = u.to /\ v.end = u.end
      /\ v.end \in Int /\ Outputs(v) \in Int
  BY FromFits
<1>2. b = StochBuffer(u)
  BY <1>1 DEF StochBuffer, Out
<1>3. DOMAIN T = Outs(u) /\ \A o \in Outs(u) : T[o] \in Int /\ HasRoom(u.mem, o, T[o])
  BY BudgetIs
<1>4. /\ b \notin MATemps
      /\ b = "tempBuffer" \/ (b # "tempBuffer" /\ b \in DOMAIN T /\ T[b] = v.end + 1)
  BY <1>1, <1>2, <1>3, StochBufferIs
<1>5. n \in Int /\ n =< v.end + 1 /\ n = Outputs(v) + more
  BY <1>1
<1> HIDE DEF T, b, n
<1>6. Touches(T, Temporaries, u.mem, room) /\ HasRoom(room, b, n)
  <2>1. CASE b = "tempBuffer"
    <3>1. room = Allocate(u.mem, "tempBuffer", n) /\ "tempBuffer" \in Temporaries
      BY <1>1, <2>1 DEF Temporaries
    <3> HIDE DEF room
    <3> QED
      BY <1>5, <2>1, <3>1, TouchesNothing, ThenAllocate
  <2>2. CASE b # "tempBuffer"
    <3>1. room = u.mem /\ HasRoom(u.mem, b, T[b]) /\ T[b] = v.end + 1 /\ T[b] \in Int
      BY <1>1, <1>3, <1>4, <2>2
    <3> QED
      BY <1>5, <3>1, TouchesNothing, LessRoom
  <2> QED
    BY <2>1, <2>2
<1>7. room = IF StochBuffer(v) = "tempBuffer" THEN Allocate(v.mem, "tempBuffer", n) ELSE v.mem
  BY DEF b
<1> HIDE DEF room, raw
<1>8. Touches(Uniform({b}, n), {}, room, raw.mem)
  BY <1>1, <1>5, <1>6, <1>7, RawKFits DEF b, raw
<1>9. Touches(T, Temporaries, u.mem, raw.mem)
  <2> DEFINE w == raw.mem
  <2>1. Buffered(T, b, n)
    BY <1>1, <1>4, <1>5 DEF Buffered
  <2>2. n \in Int /\ {} \subseteq Temporaries
    BY <1>5
  <2>3. Touches(T, Temporaries, u.mem, room) /\ Touches(Uniform({b}, n), {}, room, w)
    BY <1>6, <1>8
  <2> HIDE DEF w
  <2>4. Touches(T, Temporaries, u.mem, w)
    BY <2>1, <2>2, <2>3, ThenBuffer
  <2> QED
    BY <2>4 DEF w
<1>10. HasRoom(raw.mem, b, n)
  BY <1>6, <1>8, RoomKept
<1> QED
  BY <1>4, <1>9, <1>10 DEF T, b, n, raw

\* An average of k or more raw values, in the second output: k of it are left.
LEMMA LastAverageFits ==
  ASSUME NEW u, NEW lookback \in Nat, CanCall(u, lookback, 2, Temporaries),
         NEW v, IsCall(v), v.to = u.to, v.end = u.end, NEW raw, raw.nb \in Nat, raw.nb >= 1,
         raw.nb =< v.end + 1,
         NEW period \in Nat, period >= 1, NEW maType \in MATypes,
         NEW k, k = Count(u, lookback), k \in Nat, raw.nb - MA_LookbackOf(v, period, maType) = k,
         LET T == Budget(u, lookback)
             b == StochBuffer(v)
         IN /\ Touches(T, Temporaries, u.mem, raw.mem)
            /\ b = "tempBuffer" \/ (b \in DOMAIN T /\ T[b] = v.end + 1)
  PROVE  Touches(Budget(u, lookback), Temporaries, u.mem,
                 SmoothedK(v, raw, period, maType, Out(v, 2)).mem)
<1> DEFINE T == Budget(u, lookback)
           b == StochBuffer(v)
           o == Out(v, 2)
           L == MA_LookbackOf(v, period, maType)
           D == SmoothedK(v, raw, period, maType, o)
           n == IF b = o THEN raw.nb ELSE k
<1>1. o \in Outs(u) /\ o \notin Temporaries
  BY DEF CanCall, Outs, Out
<1>2. o \in DOMAIN T /\ T[o] \in Int /\ k =< T[o] /\ HasRoom(u.mem, o, T[o])
  BY <1>1, BudgetIs
<1>3. /\ Touches(T, Temporaries, u.mem, raw.mem)
      /\ b = "tempBuffer" \/ (b \in DOMAIN T /\ T[b] = v.end + 1)
  OBVIOUS
<1>4. /\ "tempBuffer" \in Temporaries /\ MATemps \subseteq Temporaries
  BY DEF Temporaries, MATemps
<1>5. raw.nb - L = k
  OBVIOUS
<1> HIDE DEF T, b, o, L
<1>6. n \in Nat /\ n =< T[o]
  BY <1>1, <1>2, <1>3, <1>4
<1>7. n >= IF b = o THEN raw.nb ELSE raw.nb - L
  BY <1>5
<1>8. HasRoom(raw.mem, o, n)
  BY <1>1, <1>2, <1>3, <1>6, RoomKept, LessRoom
<1> HIDE DEF n, D
<1>9. Touches(Uniform({o}, n), MATemps, raw.mem, D.mem)
  <2>1. o \notin MATemps /\ n \in Int
    BY <1>1, <1>4, <1>6
  <2> QED
    BY <2>1, <1>7, <1>8, SmoothedKFits DEF D, b, L
<1>10. n =< Larger(0, T[o]) /\ n \in Int
  BY <1>2, <1>6 DEF Larger
<1>11. Touches(T, Temporaries, u.mem, D.mem)
  BY <1>2, <1>3, <1>4, <1>9, <1>10, ThenOutput
<1> QED
  BY <1>11 DEF T, o, D

\* STOCHF.
LEMMA STOCHFFits ==
  ASSUME NEW u, u.period >= 1, u.period2 >= 1, u.maType \in MATypes, Prices(u),
         CanCall(u, STOCHF_Lookback(u), 2, Temporaries)
  PROVE  Fits(TA_STOCHF(u), u, STOCHF_Lookback(u), Temporaries)
<1> DEFINE lookback == STOCHF_Lookback(u)
           v   == From(u, lookback)
           L   == MA_LookbackOf(v, v.period2, v.maType)
           P   == PeriodLessOne(u)
           raw == RawK(v, L)
           D   == SmoothedK(v, raw, v.period2, v.maType, Out(v, 2))
           n   == Outputs(v) + L
<1>0. IsCall(u)
  BY DEF CanCall
<1>1. TA_STOCHF(u) = IF Empty(v) THEN Nothing(v) ELSE FromBuffer(v, L, D)
  BY DEF TA_STOCHF
<1>2. /\ u.period \in Nat /\ u.period2 \in Nat /\ P \in Nat
      /\ MA_LookbackOf(u, u.period2, u.maType) \in Nat
  BY <1>0, MA_LookbackOfIsNat DEF IsCall, PeriodLessOne
<1>3. lookback = P + MA_LookbackOf(u, u.period2, u.maType) /\ lookback \in Nat /\ lookback \in Int
  BY <1>2 DEF STOCHF_Lookback
<1>4. CanCall(u, lookback, 2, Temporaries)
  OBVIOUS
<1> HIDE DEF lookback
<1>5. /\ IsCall(v) /\ SameParameters(v, u) /\ v.end = u.end /\ v.mem = u.mem /\ v.to = u.to
      /\ v.start \in Nat /\ v.end \in Int /\ v.start >= lookback
      /\ Outputs(v) \in Int /\ Outputs(v) = v.end - v.start + 1 /\ Count(u, lookback) = Outputs(v)
  BY <1>3, <1>4, FromFits
<1>6. v = From(u, lookback)
  OBVIOUS
<1> HIDE DEF v
<1>7. /\ v.period = u.period /\ v.period2 = u.period2 /\ v.maType = u.maType
      /\ v.unstable = u.unstable
  BY <1>5 DEF SameParameters
<1>8. L = MA_LookbackOf(u, u.period2, u.maType) /\ PeriodLessOne(v) = P
  BY <1>0, <1>2, <1>5, <1>7, MA_LookbackOfAgrees DEF PeriodLessOne
<1> HIDE DEF L, P
<1>9. CASE v.start > v.end
  <2>1. TA_STOCHF(u) = Nothing(v)
    BY <1>1, <1>9 DEF Empty
  <2> QED
    BY <2>1, <1>5, NothingFits
<1>10. CASE ~(v.start > v.end)
  <2>1. /\ v.start =< v.end /\ v.start - L >= P /\ v.start - L \in Int /\ v.start - L =< v.end
        /\ L \in Nat /\ L \in Int /\ L =< lookback /\ n =< v.end + 1 /\ n \in Nat /\ n >= 1 /\ n > L
        /\ Outputs(v) \in Nat /\ n = v.end - (v.start - L) + 1 /\ n - L = Outputs(v)
    BY <1>2, <1>3, <1>5, <1>8, <1>10
  <2>2. n = Outputs(v) + L
    OBVIOUS
  <2> HIDE DEF n
  <2>3. Spans(raw, v.start - L, v.end, P)
    BY <2>1, <1>5, <1>8, RawKSpans
  <2>4. raw.nb = n
    BY <2>1, <2>3, <1>2, <1>5, SpansWhole
  <2>5. LET T == Budget(u, lookback)
            b == StochBuffer(v)
        IN /\ Touches(T, Temporaries, u.mem, raw.mem)
           /\ b = "tempBuffer" \/ (b \in DOMAIN T /\ T[b] = v.end + 1)
    BY <2>1, <2>2, <1>3, <1>4, <1>6, RawKRoom
  <2> HIDE DEF raw
  <2>6. Spans(D, 0, n - 1, L)
    BY <2>1, <2>4, <1>2, <1>5, <1>7, SmoothedKSpans DEF L
  <2>7. Touches(Budget(u, lookback), Temporaries, u.mem, D.mem)
    <3>1. raw.nb - MA_LookbackOf(v, v.period2, v.maType) = Outputs(v)
      BY <2>1, <2>4 DEF L
    <3>2. v.period2 \in Nat /\ v.period2 >= 1 /\ v.maType \in MATypes
      BY <1>2, <1>7
    <3> QED
      BY <2>1, <2>4, <2>5, <3>1, <3>2, <1>3, <1>4, <1>5, LastAverageFits
  <2> HIDE DEF D
  <2>8. D.nb = Outputs(v)
    BY <2>1, <2>6, SpansRest
  <2>9. Fits(FromBuffer(v, L, D), u, lookback, Temporaries)
    BY <2>1, <2>7, <2>8, <1>3, <1>4, <1>5, FromBufferFits
  <2>10. TA_STOCHF(u) = FromBuffer(v, L, D)
    BY <1>1, <1>10 DEF Empty
  <2> QED
    BY <2>9, <2>10 DEF lookback
<1> QED
  BY <1>9, <1>10 DEF lookback

\* STOCH.
LEMMA STOCHFits ==
  ASSUME NEW u, u.period >= 1, u.period2 >= 1, u.period3 >= 1, u.maType \in MATypes,
         u.maType2 \in MATypes, Prices(u), CanCall(u, STOCH_Lookback(u), 2, Temporaries)
  PROVE  Fits(TA_STOCH(u), u, STOCH_Lookback(u), Temporaries)
<1> DEFINE lookback == STOCH_Lookback(u)
           v   == From(u, lookback)
           DL  == MA_LookbackOf(v, v.period3, v.maType2)
           KL  == MA_LookbackOf(v, v.period2, v.maType)
           P   == PeriodLessOne(u)
           b   == StochBuffer(v)
           T   == Budget(u, lookback)
           raw == RawK(v, DL + KL)
           K   == SmoothedK(v, raw, v.period2, v.maType, b)
           D   == SmoothedK(v, K, v.period3, v.maType2, Out(v, 2))
<1>0. IsCall(u)
  BY DEF CanCall
<1>1. TA_STOCH(u) = IF Empty(v) THEN Nothing(v) ELSE FromBuffer(v, DL, D)
  BY DEF TA_STOCH
<1>2. /\ u.period \in Nat /\ u.period2 \in Nat /\ u.period3 \in Nat
      /\ P \in Nat /\ MA_LookbackOf(u, u.period2, u.maType) \in Nat
      /\ MA_LookbackOf(u, u.period3, u.maType2) \in Nat
  BY <1>0, MA_LookbackOfIsNat DEF IsCall, PeriodLessOne
<1>3. /\ lookback = P + MA_LookbackOf(u, u.period2, u.maType)
                      + MA_LookbackOf(u, u.period3, u.maType2)
      /\ lookback \in Nat /\ lookback \in Int
  BY <1>2 DEF STOCH_Lookback
<1>4. CanCall(u, lookback, 2, Temporaries)
  OBVIOUS
<1> HIDE DEF lookback
<1>5. /\ IsCall(v) /\ SameParameters(v, u) /\ v.end = u.end /\ v.mem = u.mem /\ v.to = u.to
      /\ v.start \in Nat /\ v.end \in Int /\ v.start >= lookback
      /\ Outputs(v) \in Int /\ Outputs(v) = v.end - v.start + 1 /\ Count(u, lookback) = Outputs(v)
  BY <1>3, <1>4, FromFits
<1>6. v = From(u, lookback)
  OBVIOUS
<1> HIDE DEF v
<1>7. /\ v.period = u.period /\ v.period2 = u.period2 /\ v.period3 = u.period3
      /\ v.maType = u.maType /\ v.maType2 = u.maType2 /\ v.unstable = u.unstable
  BY <1>5 DEF SameParameters
<1>8. /\ DL = MA_LookbackOf(u, u.period3, u.maType2) /\ KL = MA_LookbackOf(u, u.period2, u.maType)
      /\ PeriodLessOne(v) = P
  BY <1>0, <1>2, <1>5, <1>7, MA_LookbackOfAgrees DEF PeriodLessOne
<1> HIDE DEF DL, KL, P
<1>9. CASE v.start > v.end
  <2>1. TA_STOCH(u) = Nothing(v)
    BY <1>1, <1>9 DEF Empty
  <2> QED
    BY <2>1, <1>5, NothingFits
<1>10. CASE ~(v.start > v.end)
  <2> DEFINE more == DL + KL
             n    == Outputs(v) + more
  <2>1. /\ v.start =< v.end /\ v.start - more >= P /\ v.start - more \in Int
        /\ v.start - more =< v.end
        /\ DL \in Nat /\ KL \in Nat /\ more \in Nat /\ more \in Int /\ more =< lookback
        /\ n =< v.end + 1 /\ n \in Nat /\ n \in Int /\ n >= 1 /\ n > KL
        /\ Outputs(v) \in Nat /\ Outputs(v) >= 1 /\ n = v.end - (v.start - more) + 1
        /\ n - KL = Outputs(v) + DL /\ Outputs(v) + DL =< v.end + 1
        /\ Outputs(v) + DL >= 1 /\ Outputs(v) + DL \in Nat
    BY <1>2, <1>3, <1>5, <1>8, <1>10
  <2>2. n = Outputs(v) + more /\ raw = RawK(v, more)
    OBVIOUS
  <2> HIDE DEF n, more
  <2>3. Spans(raw, v.start - more, v.end, P)
    BY <2>1, <2>2, <1>5, <1>8, RawKSpans
  <2>4. raw.nb = n
    BY <2>1, <2>3, <1>2, <1>5, SpansWhole
  <2>5. /\ Touches(T, Temporaries, u.mem, raw.mem) /\ HasRoom(raw.mem, b, n)
        /\ b \notin MATemps /\ (b = "tempBuffer" \/ (b \in DOMAIN T /\ T[b] = v.end + 1))
    BY <2>1, <2>2, <1>3, <1>4, <1>6, RawKRoom
  <2> HIDE DEF raw
  <2>6. Spans(K, 0, n - 1, KL)
    BY <2>1, <2>4, <1>2, <1>5, <1>7, SmoothedKSpans DEF KL
  <2>7. v.period2 \in Nat /\ v.period2 >= 1 /\ v.maType \in MATypes
    BY <1>2, <1>7
  <2>8. Touches(Uniform({b}, n), MATemps, raw.mem, K.mem)
    <3>1. /\ raw.nb \in Nat /\ raw.nb >= 1
          /\ n >= IF StochBuffer(v) = b THEN raw.nb
                  ELSE raw.nb - MA_LookbackOf(v, v.period2, v.maType)
      BY <2>1, <2>4
    <3> HIDE DEF b
    <3> QED
      BY <3>1, <2>1, <2>5, <2>7, <1>5, SmoothedKFits
  <2>9. Buffered(T, b, n)
    BY <2>1, <2>5, <1>5 DEF Buffered
  <2>10. MATemps \subseteq Temporaries
    BY DEF MATemps, Temporaries
  <2> DEFINE w == raw.mem
             x == K.mem
  <2>11. Touches(T, Temporaries, u.mem, w) /\ Touches(Uniform({b}, n), MATemps, w, x)
    BY <2>5, <2>8
  <2> HIDE DEF T, b, K, w, x
  <2>12. Touches(T, Temporaries, u.mem, x)
    BY <2>1, <2>9, <2>10, <2>11, ThenBuffer
  <2>13. K.nb = Outputs(v) + DL
    BY <2>1, <2>6, SpansRest
  <2>14. Spans(D, 0, K.nb - 1, DL)
    BY <2>1, <2>13, <1>2, <1>5, <1>7, SmoothedKSpans DEF DL
  <2>15. v.period3 \in Nat /\ v.period3 >= 1 /\ v.maType2 \in MATypes
    BY <1>2, <1>7
  <2>16. K.nb - MA_LookbackOf(v, v.period3, v.maType2) = Outputs(v)
    BY <2>1, <2>13 DEF DL
  <2>17. LET TT == Budget(u, lookback)
             bb == StochBuffer(v)
         IN /\ Touches(TT, Temporaries, u.mem, K.mem)
            /\ bb = "tempBuffer" \/ (bb \in DOMAIN TT /\ TT[bb] = v.end + 1)
    BY <2>5, <2>12 DEF T, b, x
  <2>18. Touches(Budget(u, lookback), Temporaries, u.mem, D.mem)
    BY <2>1, <2>13, <2>15, <2>16, <2>17, <1>3, <1>4, <1>5, LastAverageFits
  <2> HIDE DEF D
  <2>19. D.nb = Outputs(v)
    <3>1. K.nb \in Nat /\ K.nb >= 1 /\ K.nb > DL /\ K.nb - DL = Outputs(v)
      BY <2>1, <2>13
    <3> QED
      BY <3>1, <2>1, <2>14, SpansRest
  <2>20. Fits(FromBuffer(v, DL, D), u, lookback, Temporaries)
    BY <2>1, <2>18, <2>19, <1>3, <1>4, <1>5, FromBufferFits
  <2>21. TA_STOCH(u) = FromBuffer(v, DL, D)
    BY <1>1, <1>10 DEF Empty
  <2> QED
    BY <2>20, <2>21 DEF lookback
<1> QED
  BY <1>9, <1>10 DEF lookback

\* A walk over a range of bars, into an array with room for them.
LEMMA CalledWalkFits ==
  ASSUME NEW v, IsCall(v), NEW mem, NEW start \in Int, NEW end \in Int, NEW from, NEW b,
         NEW lookback \in Int, NEW n \in Int, n = end - start + 1, HasRoom(mem, b, n), NEW r,
         LET w == Calling(v, mem, start, end, from, <<b>>)
         IN CanWalk(w, lookback, 1) => WroteWalk(r, w, lookback)
  PROVE  Touches(Uniform({b}, n), {}, mem, r.mem)
<1> DEFINE w == Calling(v, mem, start, end, from, <<b>>)
<1>1. w.start = start /\ w.end = end /\ w.mem = mem /\ w.to = <<b>>
  BY CallingIsCall
<1>2. CanWalk(w, lookback, 1) => WroteWalk(r, w, lookback)
  OBVIOUS
<1> HIDE DEF w
<1>3. Outs(w) = {b} /\ 1 .. 1 \subseteq DOMAIN w.to
  BY <1>1 DEF Outs
<1>4. Count(w, lookback) \in Int /\ Count(w, lookback) =< n
  BY <1>1 DEF Count, Larger
<1>5. HasRoom(mem, b, Count(w, lookback))
  BY <1>4, LessRoom
<1>6. CanWalk(w, lookback, 1)
  BY <1>1, <1>3, <1>5 DEF CanWalk
<1>7. Touches(Uniform({b}, Count(w, lookback)), {}, mem, r.mem)
  BY <1>1, <1>2, <1>3, <1>6 DEF WroteWalk
<1>8. Covers(Uniform({b}, n), {}, Uniform({b}, Count(w, lookback)), {})
  BY <1>4 DEF Covers, Uniform
<1> QED
  BY <1>7, <1>8, TouchesLess

\* STOCHRSI.
LEMMA STOCHRSIFits ==
  ASSUME NEW u, u.period >= 1, u.period2 >= 1, u.period3 >= 1, u.maType \in MATypes,
         CanCall(u, STOCHRSI_Lookback(u), 2, Temporaries)
  PROVE  Fits(TA_STOCHRSI(u), u, STOCHRSI_Lookback(u), Temporaries)
<1> DEFINE other    == [u EXCEPT !.period = u.period2, !.period2 = u.period3]
           whole    == STOCHRSI_Lookback(u)
           v        == From(u, whole)
           inner    == [v EXCEPT !.period = v.period2, !.period2 = v.period3]
           lookback == STOCHF_Lookback(inner)
           n        == Outputs(v) + lookback
           room     == Allocate(v.mem, "tempRSIBuffer", n)
           begin    == v.start - lookback
           x        == OnReal(v, room, begin, v.end, Input(v), "tempRSIBuffer")
           rsi      == TA_RSI(x)
           buffer   == [inHigh |-> "tempRSIBuffer", inLow |-> "tempRSIBuffer",
                        inClose |-> "tempRSIBuffer"]
           w        == Calling(inner, rsi.mem, 0, n - 1, buffer, v.to)
           T        == Budget(u, whole)
<1>0. IsCall(u) /\ whole \in Int /\ Outs(u) \cap Temporaries = {} /\ 1 .. 2 \subseteq DOMAIN u.to
  BY DEF CanCall
<1>1. TA_STOCHRSI(u) = IF Empty(v) THEN Nothing(v) ELSE Reported(v, TA_STOCHF(w))
  BY DEF TA_STOCHRSI, StochOf
<1>2. /\ u.period \in Nat /\ u.period2 \in Nat /\ u.period3 \in Nat /\ u.unstable \in Nat
  BY <1>0 DEF IsCall
<1>3. /\ IsCall(other) /\ other.period = u.period2 /\ other.period2 = u.period3
      /\ other.maType = u.maType /\ other.unstable = u.unstable
  BY <1>0 DEF IsCall, Fields
<1>4. whole = RSI_Lookback(u) + STOCHF_Lookback(other)
  BY DEF STOCHRSI_Lookback
<1> HIDE DEF other
<1>5. STOCHF_Lookback(other) \in Nat
  BY <1>3, STOCHFSpans
<1>6. RSI_Lookback(u) \in Nat
  BY <1>2 DEF RSI_Lookback
<1>7. CanCall(u, whole, 2, Temporaries)
  OBVIOUS
<1> HIDE DEF whole
<1>8. /\ IsCall(v) /\ SameParameters(v, u) /\ v.end = u.end /\ v.mem = u.mem /\ v.to = u.to
      /\ v.start \in Nat /\ v.end \in Int /\ v.start >= whole
      /\ Outputs(v) \in Int /\ Outputs(v) = v.end - v.start + 1 /\ Count(u, whole) = Outputs(v)
  BY <1>0, <1>7, FromFits
<1> HIDE DEF v
<1>9. /\ IsCall(inner) /\ inner.period = u.period2 /\ inner.period2 = u.period3
      /\ inner.maType = u.maType /\ inner.unstable = u.unstable
  BY <1>8 DEF IsCall, Fields, SameParameters
<1> HIDE DEF inner
<1>10. MA_LookbackOf(inner, u.period3, u.maType) = MA_LookbackOf(other, u.period3, u.maType)
  BY <1>2, <1>3, <1>9, MA_LookbackOfAgrees
<1>11. lookback = STOCHF_Lookback(other)
  BY <1>3, <1>9, <1>10 DEF STOCHF_Lookback, PeriodLessOne
<1> HIDE DEF lookback
<1>12. n \in Int /\ n - 1 \in Int /\ lookback \in Nat /\ begin \in Int /\ n = v.end - begin + 1
  BY <1>5, <1>8, <1>11
<1> HIDE DEF rsi
<1>13. /\ IsCall(w) /\ SameParameters(w, inner) /\ w.start = 0 /\ w.end = n - 1
       /\ w.mem = rsi.mem /\ w.from = buffer /\ w.to = u.to
  <2> HIDE DEF n, buffer
  <2> QED
    BY <1>8, <1>9, <1>12, CallingIsCall
<1> HIDE DEF w
<1>14. /\ w.period = u.period2 /\ w.period2 = u.period3 /\ w.maType = u.maType
       /\ w.unstable = inner.unstable
  BY <1>9, <1>13 DEF SameParameters
<1>15. MA_LookbackOf(w, u.period3, u.maType) = MA_LookbackOf(inner, u.period3, u.maType)
  BY <1>2, <1>9, <1>13, <1>14, MA_LookbackOfAgrees
<1>16. STOCHF_Lookback(w) = lookback
  BY <1>9, <1>14, <1>15 DEF STOCHF_Lookback, PeriodLessOne, lookback
<1>17. CASE v.start > v.end
  <2>1. TA_STOCHRSI(u) = Nothing(v)
    BY <1>1, <1>17 DEF Empty
  <2> QED
    BY <2>1, <1>8, NothingFits
<1>18. CASE ~(v.start > v.end)
  <2>1. n - 1 - lookback + 1 = Outputs(v) /\ n >= lookback /\ Outputs(v) \in Nat
    BY <1>8, <1>12, <1>18
  <2>2. /\ room = Allocate(u.mem, "tempRSIBuffer", n) /\ "tempRSIBuffer" \in Temporaries
    BY <1>8 DEF Temporaries
  <2>3. Prices(w) /\ Ins(w) = {"tempRSIBuffer"}
    BY <1>13 DEF Prices, Ins
  <2>4. CanWalk(x, RSI_Lookback(x), 1) => WroteWalk(rsi, x, RSI_Lookback(x))
    BY RSITouches DEF TA_RSI, rsi
  <2>5. x = Calling(v, room, begin, v.end, [inReal |-> Input(v)], <<"tempRSIBuffer">>)
    BY DEF OnReal
  <2>6. RSI_Lookback(x) \in Int
    <3>1. SameParameters(x, v) /\ v.unstable = u.unstable /\ v.period = u.period
      BY <2>5, <1>8, <1>12, CallingIsCall DEF SameParameters
    <3> HIDE DEF x
    <3> QED
      BY <3>1, <1>2 DEF SameParameters, RSI_Lookback
  <2> HIDE DEF n, begin, x, room, T, buffer
  <2>7. Touches(T, Temporaries, u.mem, room) /\ HasRoom(room, "tempRSIBuffer", n)
    BY <2>2, <1>12, TouchesNothing, ThenAllocate
  <2>8. Touches(Uniform({"tempRSIBuffer"}, n), {}, room, w.mem)
    BY <2>4, <2>5, <2>6, <2>7, <1>8, <1>12, <1>13, CalledWalkFits
  <2>9. Touches(T, Temporaries, u.mem, w.mem)
    BY <2>2, <2>7, <2>8, ThenNew
  <2>10. Count(w, lookback) = Outputs(v)
    BY <2>1, <1>12, <1>13 DEF Count, Larger
  <2>11. Outs(w) = Outs(u)
    BY <1>13 DEF Outs
  <2>12. /\ DOMAIN T = Outs(u)
         /\ \A o \in Outs(u) : T[o] \in Int /\ Outputs(v) =< T[o] /\ HasRoom(u.mem, o, Outputs(v))
    BY <1>0, <1>7, <1>8, BudgetIs DEF T
  <2>13. \A o \in Outs(u) : o \notin Temporaries /\ o \notin Ins(w)
    BY <2>2, <2>3, <1>0
  <2>14. /\ DOMAIN Budget(w, lookback) = Outs(u)
         /\ \A o \in Outs(u) : Budget(w, lookback)[o] = Outputs(v)
    BY <2>10, <2>11, <2>13 DEF Budget
  <2>15. \A o \in Outs(u) : HasRoom(w.mem, o, Outputs(v))
    BY <2>9, <2>12, <2>13, RoomKept
  <2>16. CanCall(w, STOCHF_Lookback(w), 2, Temporaries)
    <3>1. lookback \in Int /\ w.start \in Nat
      BY <1>12, <1>13
    <3> QED
      BY <3>1, <2>11, <2>14, <2>15, <1>0, <1>13, <1>16 DEF CanCall
  <2>17. Touches(Budget(w, lookback), Temporaries, w.mem, TA_STOCHF(w).mem)
    BY <2>3, <2>16, <1>2, <1>14, <1>16, STOCHFFits DEF Fits
  <2>18. Covers(T, Temporaries, Budget(w, lookback), Temporaries)
    BY <2>1, <2>12, <2>14, <1>8 DEF Covers
  <2>19. Touches(T, Temporaries, u.mem, TA_STOCHF(w).mem)
    BY <2>9, <2>17, <2>18, TouchesThen
  <2>20. TA_STOCHRSI(u).mem = TA_STOCHF(w).mem
    BY <1>1, <1>18 DEF Empty, Reported, Done
  <2> QED
    BY <2>19, <2>20 DEF Fits, T, whole
<1> QED
  BY <1>17, <1>18 DEF whole

\* ADXR.
LEMMA ADXRFits ==
  ASSUME NEW u, CanCall(u, ADXR_Lookback(u), 1, Temporaries)
  PROVE  Fits(TA_ADXR(u), u, ADXR_Lookback(u), Temporaries)
<1> DEFINE L     == ADXR_Lookback(u)
           v     == From(u, L)
           n     == v.end - v.start + v.period
           room  == Allocate(v.mem, "adx", n)
           begin == v.start - PeriodLessOne(v)
           x     == Calling(v, room, begin, v.end, v.from, <<"adx">>)
           adx   == TA_ADX(x)
           T     == Budget(u, L)
           o     == Out(v, 1)
           k     == Outputs(v)
<1>1. IsCall(u) /\ L \in Int
  BY DEF CanCall
<1>2. TA_ADXR(u) = IF Empty(v) THEN Nothing(v) ELSE Rating(v, adx)
  BY DEF TA_ADXR
<1>3. Rating(v, adx) = Done(Rate_All(v, adx.mem, k), v.start, k)
  BY Zenon DEF Rating, Rate_All
<1>4. /\ IsCall(v) /\ v.end = u.end /\ v.mem = u.mem /\ v.to = u.to
      /\ v.start \in Nat /\ v.end \in Int /\ Outputs(v) \in Int /\ Outputs(v) = v.end - v.start + 1
      /\ Count(u, L) = Outputs(v)
  BY <1>1, FromFits
<1> HIDE DEF v
<1>5. o \in Outs(u) /\ o \notin Temporaries
  BY <1>4 DEF CanCall, Outs, Out
<1>6. /\ DOMAIN T = Outs(u) /\ T[o] \in Int /\ Count(u, L) =< T[o] /\ HasRoom(u.mem, o, Count(u, L))
  BY <1>1, <1>5, BudgetIs
<1>7. CASE v.start > v.end
  <2>1. TA_ADXR(u) = Nothing(v)
    BY <1>2, <1>7 DEF Empty
  <2> QED
    BY <2>1, <1>4, NothingFits
<1>8. CASE ~(v.start > v.end)
  <2>1. /\ k \in Nat /\ k =< Larger(0, T[o]) /\ v.period \in Nat
        /\ n \in Int /\ begin \in Int /\ n = v.end - begin + 1
    BY <1>4, <1>6, <1>8 DEF Larger, IsCall, PeriodLessOne
  <2>2. room = Allocate(u.mem, "adx", n) /\ "adx" \in Temporaries /\ {} \subseteq Temporaries
    BY <1>4 DEF Temporaries
  <2>3. CanWalk(x, ADX_Lookback(x), 1) => WroteWalk(adx, x, ADX_Lookback(x))
    BY ADXTouches DEF TA_ADX
  <2>4. ADX_Lookback(x) \in Int
    <3>1. IsCall(x)
      BY <2>1, <1>4, CallingIsCall
    <3> HIDE DEF x
    <3> QED
      BY <3>1 DEF IsCall, ADX_Lookback
  <2> HIDE DEF n, begin, room, adx, T, o, k
  <2>5. Touches(T, Temporaries, u.mem, room) /\ HasRoom(room, "adx", n)
    BY <2>1, <2>2, TouchesNothing, ThenAllocate
  <2>6. Touches(Uniform({"adx"}, n), {}, room, adx.mem)
    BY <2>1, <2>3, <2>4, <2>5, <1>4, CalledWalkFits
  <2> HIDE DEF x
  <2>7. Touches(T, Temporaries, u.mem, adx.mem)
    BY <2>2, <2>5, <2>6, ThenNew
  <2>8. HasRoom(adx.mem, o, k)
    BY <2>7, <1>4, <1>5, <1>6, RoomKept DEF k
  <2>9. Touches(Uniform({o}, k), {}, adx.mem, Rate_All(v, adx.mem, k))
    BY <2>1, <2>8, RateTouches DEF o
  <2>10. Touches(T, Temporaries, u.mem, Rate_All(v, adx.mem, k))
    BY <2>1, <2>2, <2>7, <2>9, <1>5, <1>6, ThenOutput
  <2>11. TA_ADXR(u).mem = Rate_All(v, adx.mem, k)
    BY <1>2, <1>3, <1>8 DEF Empty, Done
  <2> QED
    BY <2>10, <2>11 DEF Fits, T
<1> QED
  BY <1>7, <1>8

-----------------------------------------------------------------------------
(* MAVP. *)

\* The loop of MAVP: the array of its own keeps its size, and the periods are averages' periods.
Take_Each(v, n, z, S, k) == Take(v, S, n, k)
TakeKeeps(v, n, z, S, L, k) ==
    /\ Touches(Uniform({Out(v, 1)}, n), Temporaries, S.mem, L.mem)
    /\ HasRoom(L.mem, "localOutputArray", n)
    /\ \A j \in 0 .. (n - 1) : L.periods[j] \in Nat
Takes == INSTANCE Loops WITH Step <- Take_Each, Keeps <- TakeKeeps

\* One step of it.
LEMMA TakeKept ==
  ASSUME NEW v, IsCall(v), v.start \in Nat, v.start =< v.end, v.maType \in MATypes,
         NEW n, n = Outputs(v), Out(v, 1) \notin Temporaries, Input(v) \notin Temporaries,
         NEW S, HasRoom(S.mem, Out(v, 1), n), NEW L, NEW k \in 0 .. (n - 1),
         TakeKeeps(v, n, 0, S, L, k - 1)
  PROVE  TakeKeeps(v, n, 0, S, Take(v, L, n, k), k)
<1> DEFINE period  == L.periods[k]
           average == MAOf(v, period, v.maType, L.mem, v.start, v.end, Input(v), "localOutputArray")
           same    == {j \in k .. (n - 1) : L.periods[j] = L.periods[k]}
           C       == Copy(v, L, n, k, average)
           o       == Out(v, 1)
<1>1. /\ Touches(Uniform({o}, n), Temporaries, S.mem, L.mem)
      /\ HasRoom(L.mem, "localOutputArray", n)
      /\ \A j \in 0 .. (n - 1) : L.periods[j] \in Nat
  BY DEF TakeKeeps
<1>2. Take(v, L, n, k) = IF period = 0 THEN L ELSE C
  BY DEF Take
<1>3. CASE period = 0
  BY <1>1, <1>2, <1>3 DEF TakeKeeps
<1>4. CASE period # 0
  <2>1. C.mem = Copy_All(v, same, average.mem, k, n)
    <3>1. C = [periods |-> [j \in 0 .. (n-1) |-> IF j \in same \ {k} THEN 0 ELSE L.periods[j]],
               mem |-> Copy_All(v, same, average.mem, k, n)]
      BY Zenon DEF Copy, Copy_All
    <3> HIDE DEF C, same
    <3> QED
      BY <3>1
  <2>2. C.periods = [j \in 0 .. (n-1) |-> IF j \in same \ {k} THEN 0 ELSE L.periods[j]]
    BY Zenon DEF Copy
  <2>3. \A j \in 0 .. (n - 1) : C.periods[j] \in Nat
    <3> HIDE DEF C, same
    <3> QED
      BY <1>1, <2>2
  <2>4. v.end \in Int /\ n = v.end - v.start + 1 /\ n \in Nat /\ n \in Int
    BY DEF IsCall, Outputs
  <2>5. period \in Nat /\ period >= 1
    BY <1>1, <1>4
  <2>6. /\ "localOutputArray" \in Temporaries /\ "localOutputArray" \notin MATemps
        /\ MATemps \subseteq Temporaries /\ {} \subseteq Temporaries
        /\ Input(v) # "localOutputArray"
    BY DEF Temporaries, MATemps
  <2> HIDE DEF same, C, period
  <2>7. n >= v.end - Larger(v.start, MA_LookbackOf(v, period, v.maType)) + 1
    BY <2>4, <2>5, MA_LookbackOfIsNat DEF Larger
  <2>8. Touches(Uniform({"localOutputArray"}, n), MATemps, L.mem, average.mem)
    BY <1>1, <2>4, <2>5, <2>6, <2>7, MAOfFits
  <2> HIDE DEF average, o
  <2>9. HasRoom(average.mem, "localOutputArray", n)
    BY <1>1, <2>6, <2>8, RoomKept
  <2>10. Touches(Uniform({o}, n), Temporaries, S.mem, average.mem)
    BY <1>1, <2>6, <2>8, ThenNew
  <2>11. HasRoom(average.mem, o, n)
    BY <2>10, RoomKept DEF o
  <2>12. Touches(Uniform({o}, n), {}, average.mem, C.mem)
    BY <2>1, <2>4, <2>11, CopyTouches DEF o
  <2>13. o \in DOMAIN Uniform({o}, n) /\ Uniform({o}, n)[o] = n /\ n =< Larger(0, n)
    BY <2>4 DEF Uniform, Larger
  <2>14. Touches(Uniform({o}, n), Temporaries, S.mem, C.mem)
    <3> DEFINE U == Uniform({o}, n)
               c == C.mem
    <3>1. /\ U[o] = n /\ o \in DOMAIN U /\ Touches(U, Temporaries, S.mem, average.mem)
          /\ Touches(Uniform({o}, n), {}, average.mem, c)
      BY <2>10, <2>12, <2>13
    <3> HIDE DEF U, c
    <3>2. Touches(U, Temporaries, S.mem, c)
      BY <2>4, <2>6, <2>13, <3>1, ThenOutput
    <3> QED
      BY <3>2 DEF U, c
  <2>15. o # "localOutputArray"
    BY <2>6 DEF o
  <2>16. HasRoom(C.mem, "localOutputArray", n)
    BY <2>9, <2>12, RoomKept
  <2> QED
    BY <1>2, <1>4, <2>3, <2>14, <2>16 DEF TakeKeeps, o, period
<1> QED
  BY <1>3, <1>4

\* MAVP.
LEMMA MAVPFits ==
  ASSUME NEW u, u.period >= 1, u.period2 >= 1, u.maType \in MATypes, OwnInputs(u),
         "inPeriods" \in DOMAIN u.from,
         \A k \in 0 .. u.end : /\ k \in DOMAIN u.mem[u.from["inPeriods"]]
                               /\ u.mem[u.from["inPeriods"]][k] \in Int,
         CanCall(u, MA_LookbackOf(u, u.period2, u.maType), 1, Temporaries)
  PROVE  Fits(TA_MAVP(u), u, MA_LookbackOf(u, u.period2, u.maType), Temporaries)
<1> DEFINE L == MA_LookbackOf(u, u.period2, u.maType)
           v == From(u, L)
           n == Outputs(v)
           S == [mem |-> Allocate(v.mem, "localOutputArray", n),
                 periods |-> [k \in 0 .. (n-1) |-> Clamped(v, v.start + k)]]
           E == Takes!Loop(v, n, 0, S, 0, n - 1)
           T == Budget(u, L)
           o == Out(v, 1)
<1>0. /\ IsCall(u) /\ L \in Int /\ u.start \in Nat /\ Outs(u) \cap Temporaries = {}
      /\ 1 .. 1 \subseteq DOMAIN u.to
  BY DEF CanCall
<1>1. TA_MAVP(u) = IF Empty(v) THEN Nothing(v) ELSE Done(E.mem, v.start, n)
  BY Zenon DEF TA_MAVP, Repeated, Takes!Loop, Take_Each
<1>2. /\ IsCall(v) /\ SameParameters(v, u) /\ v.end = u.end /\ v.mem = u.mem /\ v.to = u.to
      /\ v.from = u.from /\ v.start \in Nat /\ v.end \in Int
      /\ Outputs(v) \in Int /\ Outputs(v) = v.end - v.start + 1 /\ Count(u, L) = Outputs(v)
  BY <1>0, FromFits
<1> HIDE DEF v, L
<1>3. /\ v.period = u.period /\ v.period2 = u.period2 /\ v.maType = u.maType
      /\ v.period \in Nat /\ v.period2 \in Nat
  BY <1>0, <1>2 DEF SameParameters, IsCall
<1>4. /\ o \in Outs(u) /\ o \notin Temporaries /\ Input(v) \notin Temporaries
  BY <1>0, <1>2 DEF Outs, Out, OwnInputs, Ins, Input
<1>5. /\ DOMAIN T = Outs(u) /\ T[o] \in Int /\ n =< T[o] /\ HasRoom(u.mem, o, n)
  BY <1>0, <1>2, <1>4, BudgetIs DEF L
<1>6. CASE v.start > v.end
  <2>1. TA_MAVP(u) = Nothing(v)
    BY <1>1, <1>6 DEF Empty
  <2> QED
    BY <2>1, <1>2, NothingFits
<1>7. CASE ~(v.start > v.end)
  <2>1. n \in Nat /\ n \in Int /\ n - 1 \in Int /\ v.start =< v.end /\ 0 \in Int
    BY <1>2, <1>7
  <2>2. ASSUME NEW k \in 0 .. (n - 1) PROVE S.periods[k] \in Nat
    <3>1. v.start + k \in 0 .. u.end
      BY <1>2
    <3>2. Element(v.mem, v.from["inPeriods"], v.start + k) \in Int
      BY <1>2, <3>1 DEF Element
    <3>3. Element(v.mem, v.from["inPeriods"], v.start + k) \div Unit \in Int
      BY <3>2, UnitAssumption
    <3>4. Clamped(v, v.start + k) \in Nat
      BY <1>3, <3>3 DEF Clamped, Smaller, Larger
    <3> QED
      BY <3>4
  <2>3. S.mem = Allocate(u.mem, "localOutputArray", n) /\ "localOutputArray" \in Temporaries
    BY <1>2 DEF Temporaries
  <2> HIDE DEF n, S, o, T, E
  <2>4. Touches(T, Temporaries, u.mem, S.mem) /\ HasRoom(S.mem, "localOutputArray", n)
    BY <2>1, <2>3, TouchesNothing, ThenAllocate
  <2>5. HasRoom(S.mem, o, n)
    BY <1>4, <1>5, <2>4, RoomKept
  <2>6. \A R : \A k \in 0 .. (n - 1) :
           TakeKeeps(v, n, 0, S, R, k - 1) => TakeKeeps(v, n, 0, S, Take_Each(v, n, 0, R, k), k)
    BY <1>2, <1>3, <1>4, <2>1, <2>5, TakeKept DEF Take_Each, n, o
  <2>7. TakeKeeps(v, n, 0, S, S, 0 - 1)
    BY <2>2, <2>4, TouchesNothing DEF TakeKeeps
  <2>8. TakeKeeps(v, n, 0, S, E, IF n - 1 < 0 THEN 0 - 1 ELSE n - 1)
    BY <2>1, <2>6, <2>7, SetInduction, Takes!LoopInduction, Zenon DEF E
  <2>9. Touches(Uniform({o}, n), Temporaries, S.mem, E.mem)
    BY <2>8 DEF TakeKeeps, o
  <2>10. n =< Larger(0, T[o])
    BY <1>5, <2>1 DEF Larger
  <2>11. Touches(T, Temporaries, u.mem, E.mem)
    BY <1>4, <1>5, <2>1, <2>4, <2>9, <2>10, ThenOutput
  <2>12. TA_MAVP(u).mem = E.mem
    BY <1>1, <1>7 DEF Empty, Done
  <2> QED
    BY <2>11, <2>12 DEF Fits, T, L
<1> QED
  BY <1>6, <1>7 DEF L

(* Changes and prices. *)

\* MOM, bar by bar.
MOM_Bar(v, s, z, S, i) == Written(v, i - s, S.mem, MOM([v EXCEPT !.mem = S.mem], S.L, i))
MOMs == INSTANCE Loops WITH Step <- MOM_Bar, Keeps <- WalkKeeps
LEMMA MOMTouches ==
  ASSUME NEW v, NEW lookback, CanWalk(v, lookback, 1)
  PROVE  WroteWalk(Run(v, lookback, NoLocals, MOM), v, lookback)
<1> DEFINE s == Larger(v.start, lookback)
           S == [L |-> NoLocals(v, s), mem |-> v.mem]
<1>1. \A u, L, i : Len(MOM(u, L, i).out) = 1
  BY DEF MOM, Wrote
<1>2. Run(v, lookback, NoLocals, MOM) = IF s > v.end THEN Nothing(v)
      ELSE Done(MOMs!Loop(v, s, 0, S, s, v.end).mem, s, v.end - s + 1)
  BY Zenon DEF Run, Repeated, MOMs!Loop, MOM_Bar
<1>3. S.mem = v.mem
  OBVIOUS
<1> HIDE DEF s, S
<1>4. \A T : \A i \in s .. v.end :
         WalkKeeps(v, s, 0, S, T, i - 1) => WalkKeeps(v, s, 0, S, MOM_Bar(v, s, 0, T, i), i)
  BY <1>1, <1>3, BarKeeps DEF MOM_Bar, s
<1>5. WalkKeeps(v, s, 0, S, MOMs!Loop(v, s, 0, S, s, v.end), IF v.end < s THEN s - 1 ELSE v.end)
  BY <1>4, WalkBegins, SetInduction, MOMs!LoopInduction, Zenon DEF s
<1> QED
  BY <1>2, <1>3, <1>5, WalkEnds DEF s

\* ROCP, bar by bar.
ROCP_Bar(v, s, z, S, i) == Written(v, i - s, S.mem, ROCP([v EXCEPT !.mem = S.mem], S.L, i))
ROCPs == INSTANCE Loops WITH Step <- ROCP_Bar, Keeps <- WalkKeeps
LEMMA ROCPTouches ==
  ASSUME NEW v, NEW lookback, CanWalk(v, lookback, 1)
  PROVE  WroteWalk(Run(v, lookback, NoLocals, ROCP), v, lookback)
<1> DEFINE s == Larger(v.start, lookback)
           S == [L |-> NoLocals(v, s), mem |-> v.mem]
<1>1. \A u, L, i : Len(ROCP(u, L, i).out) = 1
  BY DEF ROCP, Wrote
<1>2. Run(v, lookback, NoLocals, ROCP) = IF s > v.end THEN Nothing(v)
      ELSE Done(ROCPs!Loop(v, s, 0, S, s, v.end).mem, s, v.end - s + 1)
  BY Zenon DEF Run, Repeated, ROCPs!Loop, ROCP_Bar
<1>3. S.mem = v.mem
  OBVIOUS
<1> HIDE DEF s, S
<1>4. \A T : \A i \in s .. v.end :
         WalkKeeps(v, s, 0, S, T, i - 1) => WalkKeeps(v, s, 0, S, ROCP_Bar(v, s, 0, T, i), i)
  BY <1>1, <1>3, BarKeeps DEF ROCP_Bar, s
<1>5. WalkKeeps(v, s, 0, S, ROCPs!Loop(v, s, 0, S, s, v.end), IF v.end < s THEN s - 1 ELSE v.end)
  BY <1>4, WalkBegins, SetInduction, ROCPs!LoopInduction, Zenon DEF s
<1> QED
  BY <1>2, <1>3, <1>5, WalkEnds DEF s

\* ROCR, bar by bar.
ROCR_Bar(v, s, z, S, i) == Written(v, i - s, S.mem, ROCR([v EXCEPT !.mem = S.mem], S.L, i))
ROCRs == INSTANCE Loops WITH Step <- ROCR_Bar, Keeps <- WalkKeeps
LEMMA ROCRTouches ==
  ASSUME NEW v, NEW lookback, CanWalk(v, lookback, 1)
  PROVE  WroteWalk(Run(v, lookback, NoLocals, ROCR), v, lookback)
<1> DEFINE s == Larger(v.start, lookback)
           S == [L |-> NoLocals(v, s), mem |-> v.mem]
<1>1. \A u, L, i : Len(ROCR(u, L, i).out) = 1
  BY DEF ROCR, Wrote
<1>2. Run(v, lookback, NoLocals, ROCR) = IF s > v.end THEN Nothing(v)
      ELSE Done(ROCRs!Loop(v, s, 0, S, s, v.end).mem, s, v.end - s + 1)
  BY Zenon DEF Run, Repeated, ROCRs!Loop, ROCR_Bar
<1>3. S.mem = v.mem
  OBVIOUS
<1> HIDE DEF s, S
<1>4. \A T : \A i \in s .. v.end :
         WalkKeeps(v, s, 0, S, T, i - 1) => WalkKeeps(v, s, 0, S, ROCR_Bar(v, s, 0, T, i), i)
  BY <1>1, <1>3, BarKeeps DEF ROCR_Bar, s
<1>5. WalkKeeps(v, s, 0, S, ROCRs!Loop(v, s, 0, S, s, v.end), IF v.end < s THEN s - 1 ELSE v.end)
  BY <1>4, WalkBegins, SetInduction, ROCRs!LoopInduction, Zenon DEF s
<1> QED
  BY <1>2, <1>3, <1>5, WalkEnds DEF s

\* ROCR100, bar by bar.
ROCR100_Bar(v, s, z, S, i) == Written(v, i - s, S.mem, ROCR100([v EXCEPT !.mem = S.mem], S.L, i))
ROCR100s == INSTANCE Loops WITH Step <- ROCR100_Bar, Keeps <- WalkKeeps
LEMMA ROCR100Touches ==
  ASSUME NEW v, NEW lookback, CanWalk(v, lookback, 1)
  PROVE  WroteWalk(Run(v, lookback, NoLocals, ROCR100), v, lookback)
<1> DEFINE s == Larger(v.start, lookback)
           S == [L |-> NoLocals(v, s), mem |-> v.mem]
<1>1. \A u, L, i : Len(ROCR100(u, L, i).out) = 1
  BY DEF ROCR100, Wrote
<1>2. Run(v, lookback, NoLocals, ROCR100) = IF s > v.end THEN Nothing(v)
      ELSE Done(ROCR100s!Loop(v, s, 0, S, s, v.end).mem, s, v.end - s + 1)
  BY Zenon DEF Run, Repeated, ROCR100s!Loop, ROCR100_Bar
<1>3. S.mem = v.mem
  OBVIOUS
<1> HIDE DEF s, S
<1>4. \A T : \A i \in s .. v.end :
         WalkKeeps(v, s, 0, S, T, i - 1) => WalkKeeps(v, s, 0, S, ROCR100_Bar(v, s, 0, T, i), i)
  BY <1>1, <1>3, BarKeeps DEF ROCR100_Bar, s
<1>5. WalkKeeps(v, s, 0, S, ROCR100s!Loop(v, s, 0, S, s, v.end), IF v.end < s THEN s - 1 ELSE v.end)
  BY <1>4, WalkBegins, SetInduction, ROCR100s!LoopInduction, Zenon DEF s
<1> QED
  BY <1>2, <1>3, <1>5, WalkEnds DEF s

\* ADD, bar by bar.
ADD_Bar(v, s, z, S, i) == Written(v, i - s, S.mem, ADD([v EXCEPT !.mem = S.mem], S.L, i))
ADDs == INSTANCE Loops WITH Step <- ADD_Bar, Keeps <- WalkKeeps
LEMMA ADDTouches ==
  ASSUME NEW v, NEW lookback, CanWalk(v, lookback, 1)
  PROVE  WroteWalk(Run(v, lookback, NoLocals, ADD), v, lookback)
<1> DEFINE s == Larger(v.start, lookback)
           S == [L |-> NoLocals(v, s), mem |-> v.mem]
<1>1. \A u, L, i : Len(ADD(u, L, i).out) = 1
  BY DEF ADD, Wrote
<1>2. Run(v, lookback, NoLocals, ADD) = IF s > v.end THEN Nothing(v)
      ELSE Done(ADDs!Loop(v, s, 0, S, s, v.end).mem, s, v.end - s + 1)
  BY Zenon DEF Run, Repeated, ADDs!Loop, ADD_Bar
<1>3. S.mem = v.mem
  OBVIOUS
<1> HIDE DEF s, S
<1>4. \A T : \A i \in s .. v.end :
         WalkKeeps(v, s, 0, S, T, i - 1) => WalkKeeps(v, s, 0, S, ADD_Bar(v, s, 0, T, i), i)
  BY <1>1, <1>3, BarKeeps DEF ADD_Bar, s
<1>5. WalkKeeps(v, s, 0, S, ADDs!Loop(v, s, 0, S, s, v.end), IF v.end < s THEN s - 1 ELSE v.end)
  BY <1>4, WalkBegins, SetInduction, ADDs!LoopInduction, Zenon DEF s
<1> QED
  BY <1>2, <1>3, <1>5, WalkEnds DEF s

\* SUB, bar by bar.
SUB_Bar(v, s, z, S, i) == Written(v, i - s, S.mem, SUB([v EXCEPT !.mem = S.mem], S.L, i))
SUBs == INSTANCE Loops WITH Step <- SUB_Bar, Keeps <- WalkKeeps
LEMMA SUBTouches ==
  ASSUME NEW v, NEW lookback, CanWalk(v, lookback, 1)
  PROVE  WroteWalk(Run(v, lookback, NoLocals, SUB), v, lookback)
<1> DEFINE s == Larger(v.start, lookback)
           S == [L |-> NoLocals(v, s), mem |-> v.mem]
<1>1. \A u, L, i : Len(SUB(u, L, i).out) = 1
  BY DEF SUB, Wrote
<1>2. Run(v, lookback, NoLocals, SUB) = IF s > v.end THEN Nothing(v)
      ELSE Done(SUBs!Loop(v, s, 0, S, s, v.end).mem, s, v.end - s + 1)
  BY Zenon DEF Run, Repeated, SUBs!Loop, SUB_Bar
<1>3. S.mem = v.mem
  OBVIOUS
<1> HIDE DEF s, S
<1>4. \A T : \A i \in s .. v.end :
         WalkKeeps(v, s, 0, S, T, i - 1) => WalkKeeps(v, s, 0, S, SUB_Bar(v, s, 0, T, i), i)
  BY <1>1, <1>3, BarKeeps DEF SUB_Bar, s
<1>5. WalkKeeps(v, s, 0, S, SUBs!Loop(v, s, 0, S, s, v.end), IF v.end < s THEN s - 1 ELSE v.end)
  BY <1>4, WalkBegins, SetInduction, SUBs!LoopInduction, Zenon DEF s
<1> QED
  BY <1>2, <1>3, <1>5, WalkEnds DEF s

\* MULT, bar by bar.
MULT_Bar(v, s, z, S, i) == Written(v, i - s, S.mem, MULT([v EXCEPT !.mem = S.mem], S.L, i))
MULTs == INSTANCE Loops WITH Step <- MULT_Bar, Keeps <- WalkKeeps
LEMMA MULTTouches ==
  ASSUME NEW v, NEW lookback, CanWalk(v, lookback, 1)
  PROVE  WroteWalk(Run(v, lookback, NoLocals, MULT), v, lookback)
<1> DEFINE s == Larger(v.start, lookback)
           S == [L |-> NoLocals(v, s), mem |-> v.mem]
<1>1. \A u, L, i : Len(MULT(u, L, i).out) = 1
  BY DEF MULT, Wrote
<1>2. Run(v, lookback, NoLocals, MULT) = IF s > v.end THEN Nothing(v)
      ELSE Done(MULTs!Loop(v, s, 0, S, s, v.end).mem, s, v.end - s + 1)
  BY Zenon DEF Run, Repeated, MULTs!Loop, MULT_Bar
<1>3. S.mem = v.mem
  OBVIOUS
<1> HIDE DEF s, S
<1>4. \A T : \A i \in s .. v.end :
         WalkKeeps(v, s, 0, S, T, i - 1) => WalkKeeps(v, s, 0, S, MULT_Bar(v, s, 0, T, i), i)
  BY <1>1, <1>3, BarKeeps DEF MULT_Bar, s
<1>5. WalkKeeps(v, s, 0, S, MULTs!Loop(v, s, 0, S, s, v.end), IF v.end < s THEN s - 1 ELSE v.end)
  BY <1>4, WalkBegins, SetInduction, MULTs!LoopInduction, Zenon DEF s
<1> QED
  BY <1>2, <1>3, <1>5, WalkEnds DEF s

\* DIV, bar by bar.
DIV_Bar(v, s, z, S, i) == Written(v, i - s, S.mem, DIV([v EXCEPT !.mem = S.mem], S.L, i))
DIVs == INSTANCE Loops WITH Step <- DIV_Bar, Keeps <- WalkKeeps
LEMMA DIVTouches ==
  ASSUME NEW v, NEW lookback, CanWalk(v, lookback, 1)
  PROVE  WroteWalk(Run(v, lookback, NoLocals, DIV), v, lookback)
<1> DEFINE s == Larger(v.start, lookback)
           S == [L |-> NoLocals(v, s), mem |-> v.mem]
<1>1. \A u, L, i : Len(DIV(u, L, i).out) = 1
  BY DEF DIV, Wrote
<1>2. Run(v, lookback, NoLocals, DIV) = IF s > v.end THEN Nothing(v)
      ELSE Done(DIVs!Loop(v, s, 0, S, s, v.end).mem, s, v.end - s + 1)
  BY Zenon DEF Run, Repeated, DIVs!Loop, DIV_Bar
<1>3. S.mem = v.mem
  OBVIOUS
<1> HIDE DEF s, S
<1>4. \A T : \A i \in s .. v.end :
         WalkKeeps(v, s, 0, S, T, i - 1) => WalkKeeps(v, s, 0, S, DIV_Bar(v, s, 0, T, i), i)
  BY <1>1, <1>3, BarKeeps DEF DIV_Bar, s
<1>5. WalkKeeps(v, s, 0, S, DIVs!Loop(v, s, 0, S, s, v.end), IF v.end < s THEN s - 1 ELSE v.end)
  BY <1>4, WalkBegins, SetInduction, DIVs!LoopInduction, Zenon DEF s
<1> QED
  BY <1>2, <1>3, <1>5, WalkEnds DEF s

\* MEDPRICE, bar by bar.
MEDPRICE_Bar(v, s, z, S, i) == Written(v, i - s, S.mem, MEDPRICE([v EXCEPT !.mem = S.mem], S.L, i))
MEDPRICEs == INSTANCE Loops WITH Step <- MEDPRICE_Bar, Keeps <- WalkKeeps
LEMMA MEDPRICETouches ==
  ASSUME NEW v, NEW lookback, CanWalk(v, lookback, 1)
  PROVE  WroteWalk(Run(v, lookback, NoLocals, MEDPRICE), v, lookback)
<1> DEFINE s == Larger(v.start, lookback)
           S == [L |-> NoLocals(v, s), mem |-> v.mem]
<1>1. \A u, L, i : Len(MEDPRICE(u, L, i).out) = 1
  BY DEF MEDPRICE, Wrote
<1>2. Run(v, lookback, NoLocals, MEDPRICE) = IF s > v.end THEN Nothing(v)
      ELSE Done(MEDPRICEs!Loop(v, s, 0, S, s, v.end).mem, s, v.end - s + 1)
  BY Zenon DEF Run, Repeated, MEDPRICEs!Loop, MEDPRICE_Bar
<1>3. S.mem = v.mem
  OBVIOUS
<1> HIDE DEF s, S
<1>4. \A T : \A i \in s .. v.end :
         WalkKeeps(v, s, 0, S, T, i - 1) => WalkKeeps(v, s, 0, S, MEDPRICE_Bar(v, s, 0, T, i), i)
  BY <1>1, <1>3, BarKeeps DEF MEDPRICE_Bar, s
<1>5. WalkKeeps(v, s, 0, S, MEDPRICEs!Loop(v, s, 0, S, s, v.end),
                IF v.end < s THEN s - 1 ELSE v.end)
  BY <1>4, WalkBegins, SetInduction, MEDPRICEs!LoopInduction, Zenon DEF s
<1> QED
  BY <1>2, <1>3, <1>5, WalkEnds DEF s

\* TYPPRICE, bar by bar.
TYPPRICE_Bar(v, s, z, S, i) == Written(v, i - s, S.mem, TYPPRICE([v EXCEPT !.mem = S.mem], S.L, i))
TYPPRICEs == INSTANCE Loops WITH Step <- TYPPRICE_Bar, Keeps <- WalkKeeps
LEMMA TYPPRICETouches ==
  ASSUME NEW v, NEW lookback, CanWalk(v, lookback, 1)
  PROVE  WroteWalk(Run(v, lookback, NoLocals, TYPPRICE), v, lookback)
<1> DEFINE s == Larger(v.start, lookback)
           S == [L |-> NoLocals(v, s), mem |-> v.mem]
<1>1. \A u, L, i : Len(TYPPRICE(u, L, i).out) = 1
  BY DEF TYPPRICE, Wrote
<1>2. Run(v, lookback, NoLocals, TYPPRICE) = IF s > v.end THEN Nothing(v)
      ELSE Done(TYPPRICEs!Loop(v, s, 0, S, s, v.end).mem, s, v.end - s + 1)
  BY Zenon DEF Run, Repeated, TYPPRICEs!Loop, TYPPRICE_Bar
<1>3. S.mem = v.mem
  OBVIOUS
<1> HIDE DEF s, S
<1>4. \A T : \A i \in s .. v.end :
         WalkKeeps(v, s, 0, S, T, i - 1) => WalkKeeps(v, s, 0, S, TYPPRICE_Bar(v, s, 0, T, i), i)
  BY <1>1, <1>3, BarKeeps DEF TYPPRICE_Bar, s
<1>5. WalkKeeps(v, s, 0, S, TYPPRICEs!Loop(v, s, 0, S, s, v.end),
                IF v.end < s THEN s - 1 ELSE v.end)
  BY <1>4, WalkBegins, SetInduction, TYPPRICEs!LoopInduction, Zenon DEF s
<1> QED
  BY <1>2, <1>3, <1>5, WalkEnds DEF s

\* WCLPRICE, bar by bar.
WCLPRICE_Bar(v, s, z, S, i) == Written(v, i - s, S.mem, WCLPRICE([v EXCEPT !.mem = S.mem], S.L, i))
WCLPRICEs == INSTANCE Loops WITH Step <- WCLPRICE_Bar, Keeps <- WalkKeeps
LEMMA WCLPRICETouches ==
  ASSUME NEW v, NEW lookback, CanWalk(v, lookback, 1)
  PROVE  WroteWalk(Run(v, lookback, NoLocals, WCLPRICE), v, lookback)
<1> DEFINE s == Larger(v.start, lookback)
           S == [L |-> NoLocals(v, s), mem |-> v.mem]
<1>1. \A u, L, i : Len(WCLPRICE(u, L, i).out) = 1
  BY DEF WCLPRICE, Wrote
<1>2. Run(v, lookback, NoLocals, WCLPRICE) = IF s > v.end THEN Nothing(v)
      ELSE Done(WCLPRICEs!Loop(v, s, 0, S, s, v.end).mem, s, v.end - s + 1)
  BY Zenon DEF Run, Repeated, WCLPRICEs!Loop, WCLPRICE_Bar
<1>3. S.mem = v.mem
  OBVIOUS
<1> HIDE DEF s, S
<1>4. \A T : \A i \in s .. v.end :
         WalkKeeps(v, s, 0, S, T, i - 1) => WalkKeeps(v, s, 0, S, WCLPRICE_Bar(v, s, 0, T, i), i)
  BY <1>1, <1>3, BarKeeps DEF WCLPRICE_Bar, s
<1>5. WalkKeeps(v, s, 0, S, WCLPRICEs!Loop(v, s, 0, S, s, v.end),
                IF v.end < s THEN s - 1 ELSE v.end)
  BY <1>4, WalkBegins, SetInduction, WCLPRICEs!LoopInduction, Zenon DEF s
<1> QED
  BY <1>2, <1>3, <1>5, WalkEnds DEF s

\* AVGPRICE, bar by bar.
AVGPRICE_Bar(v, s, z, S, i) == Written(v, i - s, S.mem, AVGPRICE([v EXCEPT !.mem = S.mem], S.L, i))
AVGPRICEs == INSTANCE Loops WITH Step <- AVGPRICE_Bar, Keeps <- WalkKeeps
LEMMA AVGPRICETouches ==
  ASSUME NEW v, NEW lookback, CanWalk(v, lookback, 1)
  PROVE  WroteWalk(Run(v, lookback, NoLocals, AVGPRICE), v, lookback)
<1> DEFINE s == Larger(v.start, lookback)
           S == [L |-> NoLocals(v, s), mem |-> v.mem]
<1>1. \A u, L, i : Len(AVGPRICE(u, L, i).out) = 1
  BY DEF AVGPRICE, Wrote
<1>2. Run(v, lookback, NoLocals, AVGPRICE) = IF s > v.end THEN Nothing(v)
      ELSE Done(AVGPRICEs!Loop(v, s, 0, S, s, v.end).mem, s, v.end - s + 1)
  BY Zenon DEF Run, Repeated, AVGPRICEs!Loop, AVGPRICE_Bar
<1>3. S.mem = v.mem
  OBVIOUS
<1> HIDE DEF s, S
<1>4. \A T : \A i \in s .. v.end :
         WalkKeeps(v, s, 0, S, T, i - 1) => WalkKeeps(v, s, 0, S, AVGPRICE_Bar(v, s, 0, T, i), i)
  BY <1>1, <1>3, BarKeeps DEF AVGPRICE_Bar, s
<1>5. WalkKeeps(v, s, 0, S, AVGPRICEs!Loop(v, s, 0, S, s, v.end),
                IF v.end < s THEN s - 1 ELSE v.end)
  BY <1>4, WalkBegins, SetInduction, AVGPRICEs!LoopInduction, Zenon DEF s
<1> QED
  BY <1>2, <1>3, <1>5, WalkEnds DEF s

\* BOP, bar by bar.
BOP_Bar(v, s, z, S, i) == Written(v, i - s, S.mem, BOP([v EXCEPT !.mem = S.mem], S.L, i))
BOPs == INSTANCE Loops WITH Step <- BOP_Bar, Keeps <- WalkKeeps
LEMMA BOPTouches ==
  ASSUME NEW v, NEW lookback, CanWalk(v, lookback, 1)
  PROVE  WroteWalk(Run(v, lookback, NoLocals, BOP), v, lookback)
<1> DEFINE s == Larger(v.start, lookback)
           S == [L |-> NoLocals(v, s), mem |-> v.mem]
<1>1. \A u, L, i : Len(BOP(u, L, i).out) = 1
  BY DEF BOP, Wrote
<1>2. Run(v, lookback, NoLocals, BOP) = IF s > v.end THEN Nothing(v)
      ELSE Done(BOPs!Loop(v, s, 0, S, s, v.end).mem, s, v.end - s + 1)
  BY Zenon DEF Run, Repeated, BOPs!Loop, BOP_Bar
<1>3. S.mem = v.mem
  OBVIOUS
<1> HIDE DEF s, S
<1>4. \A T : \A i \in s .. v.end :
         WalkKeeps(v, s, 0, S, T, i - 1) => WalkKeeps(v, s, 0, S, BOP_Bar(v, s, 0, T, i), i)
  BY <1>1, <1>3, BarKeeps DEF BOP_Bar, s
<1>5. WalkKeeps(v, s, 0, S, BOPs!Loop(v, s, 0, S, s, v.end), IF v.end < s THEN s - 1 ELSE v.end)
  BY <1>4, WalkBegins, SetInduction, BOPs!LoopInduction, Zenon DEF s
<1> QED
  BY <1>2, <1>3, <1>5, WalkEnds DEF s

\* TRANGE, bar by bar.
TRANGE_Bar(v, s, z, S, i) == Written(v, i - s, S.mem, TRANGE([v EXCEPT !.mem = S.mem], S.L, i))
TRANGEs == INSTANCE Loops WITH Step <- TRANGE_Bar, Keeps <- WalkKeeps
LEMMA TRANGETouches ==
  ASSUME NEW v, NEW lookback, CanWalk(v, lookback, 1)
  PROVE  WroteWalk(Run(v, lookback, NoLocals, TRANGE), v, lookback)
<1> DEFINE s == Larger(v.start, lookback)
           S == [L |-> NoLocals(v, s), mem |-> v.mem]
<1>1. \A u, L, i : Len(TRANGE(u, L, i).out) = 1
  BY DEF TRANGE, Wrote
<1>2. Run(v, lookback, NoLocals, TRANGE) = IF s > v.end THEN Nothing(v)
      ELSE Done(TRANGEs!Loop(v, s, 0, S, s, v.end).mem, s, v.end - s + 1)
  BY Zenon DEF Run, Repeated, TRANGEs!Loop, TRANGE_Bar
<1>3. S.mem = v.mem
  OBVIOUS
<1> HIDE DEF s, S
<1>4. \A T : \A i \in s .. v.end :
         WalkKeeps(v, s, 0, S, T, i - 1) => WalkKeeps(v, s, 0, S, TRANGE_Bar(v, s, 0, T, i), i)
  BY <1>1, <1>3, BarKeeps DEF TRANGE_Bar, s
<1>5. WalkKeeps(v, s, 0, S, TRANGEs!Loop(v, s, 0, S, s, v.end), IF v.end < s THEN s - 1 ELSE v.end)
  BY <1>4, WalkBegins, SetInduction, TRANGEs!LoopInduction, Zenon DEF s
<1> QED
  BY <1>2, <1>3, <1>5, WalkEnds DEF s

\* OBV, bar by bar.
OBV_Bar(v, s, z, S, i) == Written(v, i - s, S.mem, OBV([v EXCEPT !.mem = S.mem], S.L, i))
OBVs == INSTANCE Loops WITH Step <- OBV_Bar, Keeps <- WalkKeeps
LEMMA OBVTouches ==
  ASSUME NEW v, NEW lookback, CanWalk(v, lookback, 1)
  PROVE  WroteWalk(Run(v, lookback, OBV_Begin, OBV), v, lookback)
<1> DEFINE s == Larger(v.start, lookback)
           S == [L |-> OBV_Begin(v, s), mem |-> v.mem]
<1>1. \A u, L, i : Len(OBV(u, L, i).out) = 1
  BY DEF OBV, Wrote
<1>2. Run(v, lookback, OBV_Begin, OBV) = IF s > v.end THEN Nothing(v)
      ELSE Done(OBVs!Loop(v, s, 0, S, s, v.end).mem, s, v.end - s + 1)
  BY Zenon DEF Run, Repeated, OBVs!Loop, OBV_Bar
<1>3. S.mem = v.mem
  OBVIOUS
<1> HIDE DEF s, S
<1>4. \A T : \A i \in s .. v.end :
         WalkKeeps(v, s, 0, S, T, i - 1) => WalkKeeps(v, s, 0, S, OBV_Bar(v, s, 0, T, i), i)
  BY <1>1, <1>3, BarKeeps DEF OBV_Bar, s
<1>5. WalkKeeps(v, s, 0, S, OBVs!Loop(v, s, 0, S, s, v.end), IF v.end < s THEN s - 1 ELSE v.end)
  BY <1>4, WalkBegins, SetInduction, OBVs!LoopInduction, Zenon DEF s
<1> QED
  BY <1>2, <1>3, <1>5, WalkEnds DEF s

\* AD, bar by bar.
AD_Bar(v, s, z, S, i) == Written(v, i - s, S.mem, AD([v EXCEPT !.mem = S.mem], S.L, i))
ADs == INSTANCE Loops WITH Step <- AD_Bar, Keeps <- WalkKeeps
LEMMA ADTouches ==
  ASSUME NEW v, NEW lookback, CanWalk(v, lookback, 1)
  PROVE  WroteWalk(Run(v, lookback, AD_Begin, AD), v, lookback)
<1> DEFINE s == Larger(v.start, lookback)
           S == [L |-> AD_Begin(v, s), mem |-> v.mem]
<1>1. \A u, L, i : Len(AD(u, L, i).out) = 1
  BY DEF AD, Wrote
<1>2. Run(v, lookback, AD_Begin, AD) = IF s > v.end THEN Nothing(v)
      ELSE Done(ADs!Loop(v, s, 0, S, s, v.end).mem, s, v.end - s + 1)
  BY Zenon DEF Run, Repeated, ADs!Loop, AD_Bar
<1>3. S.mem = v.mem
  OBVIOUS
<1> HIDE DEF s, S
<1>4. \A T : \A i \in s .. v.end :
         WalkKeeps(v, s, 0, S, T, i - 1) => WalkKeeps(v, s, 0, S, AD_Bar(v, s, 0, T, i), i)
  BY <1>1, <1>3, BarKeeps DEF AD_Bar, s
<1>5. WalkKeeps(v, s, 0, S, ADs!Loop(v, s, 0, S, s, v.end), IF v.end < s THEN s - 1 ELSE v.end)
  BY <1>4, WalkBegins, SetInduction, ADs!LoopInduction, Zenon DEF s
<1> QED
  BY <1>2, <1>3, <1>5, WalkEnds DEF s

(* Extremes. *)

\* MAX, bar by bar.
MAX_Bar(v, s, z, S, i) == Written(v, i - s, S.mem, MAX([v EXCEPT !.mem = S.mem], S.L, i))
MAXs == INSTANCE Loops WITH Step <- MAX_Bar, Keeps <- WalkKeeps
LEMMA MAXTouches ==
  ASSUME NEW v, NEW lookback, CanWalk(v, lookback, 1)
  PROVE  WroteWalk(Run(v, lookback, Extremes, MAX), v, lookback)
<1> DEFINE s == Larger(v.start, lookback)
           S == [L |-> Extremes(v, s), mem |-> v.mem]
<1>1. \A u, L, i : Len(MAX(u, L, i).out) = 1
  BY DEF MAX, Wrote
<1>2. Run(v, lookback, Extremes, MAX) = IF s > v.end THEN Nothing(v)
      ELSE Done(MAXs!Loop(v, s, 0, S, s, v.end).mem, s, v.end - s + 1)
  BY Zenon DEF Run, Repeated, MAXs!Loop, MAX_Bar
<1>3. S.mem = v.mem
  OBVIOUS
<1> HIDE DEF s, S
<1>4. \A T : \A i \in s .. v.end :
         WalkKeeps(v, s, 0, S, T, i - 1) => WalkKeeps(v, s, 0, S, MAX_Bar(v, s, 0, T, i), i)
  BY <1>1, <1>3, BarKeeps DEF MAX_Bar, s
<1>5. WalkKeeps(v, s, 0, S, MAXs!Loop(v, s, 0, S, s, v.end), IF v.end < s THEN s - 1 ELSE v.end)
  BY <1>4, WalkBegins, SetInduction, MAXs!LoopInduction, Zenon DEF s
<1> QED
  BY <1>2, <1>3, <1>5, WalkEnds DEF s

\* MAXINDEX, bar by bar.
MAXINDEX_Bar(v, s, z, S, i) == Written(v, i - s, S.mem, MAXINDEX([v EXCEPT !.mem = S.mem], S.L, i))
MAXINDEXs == INSTANCE Loops WITH Step <- MAXINDEX_Bar, Keeps <- WalkKeeps
LEMMA MAXINDEXTouches ==
  ASSUME NEW v, NEW lookback, CanWalk(v, lookback, 1)
  PROVE  WroteWalk(Run(v, lookback, Extremes, MAXINDEX), v, lookback)
<1> DEFINE s == Larger(v.start, lookback)
           S == [L |-> Extremes(v, s), mem |-> v.mem]
<1>1. \A u, L, i : Len(MAXINDEX(u, L, i).out) = 1
  BY DEF MAXINDEX, Wrote
<1>2. Run(v, lookback, Extremes, MAXINDEX) = IF s > v.end THEN Nothing(v)
      ELSE Done(MAXINDEXs!Loop(v, s, 0, S, s, v.end).mem, s, v.end - s + 1)
  BY Zenon DEF Run, Repeated, MAXINDEXs!Loop, MAXINDEX_Bar
<1>3. S.mem = v.mem
  OBVIOUS
<1> HIDE DEF s, S
<1>4. \A T : \A i \in s .. v.end :
         WalkKeeps(v, s, 0, S, T, i - 1) => WalkKeeps(v, s, 0, S, MAXINDEX_Bar(v, s, 0, T, i), i)
  BY <1>1, <1>3, BarKeeps DEF MAXINDEX_Bar, s
<1>5. WalkKeeps(v, s, 0, S, MAXINDEXs!Loop(v, s, 0, S, s, v.end),
                IF v.end < s THEN s - 1 ELSE v.end)
  BY <1>4, WalkBegins, SetInduction, MAXINDEXs!LoopInduction, Zenon DEF s
<1> QED
  BY <1>2, <1>3, <1>5, WalkEnds DEF s

\* MIN, bar by bar.
MIN_Bar(v, s, z, S, i) == Written(v, i - s, S.mem, MIN([v EXCEPT !.mem = S.mem], S.L, i))
MINs == INSTANCE Loops WITH Step <- MIN_Bar, Keeps <- WalkKeeps
LEMMA MINTouches ==
  ASSUME NEW v, NEW lookback, CanWalk(v, lookback, 1)
  PROVE  WroteWalk(Run(v, lookback, Extremes, MIN), v, lookback)
<1> DEFINE s == Larger(v.start, lookback)
           S == [L |-> Extremes(v, s), mem |-> v.mem]
<1>1. \A u, L, i : Len(MIN(u, L, i).out) = 1
  BY DEF MIN, Wrote
<1>2. Run(v, lookback, Extremes, MIN) = IF s > v.end THEN Nothing(v)
      ELSE Done(MINs!Loop(v, s, 0, S, s, v.end).mem, s, v.end - s + 1)
  BY Zenon DEF Run, Repeated, MINs!Loop, MIN_Bar
<1>3. S.mem = v.mem
  OBVIOUS
<1> HIDE DEF s, S
<1>4. \A T : \A i \in s .. v.end :
         WalkKeeps(v, s, 0, S, T, i - 1) => WalkKeeps(v, s, 0, S, MIN_Bar(v, s, 0, T, i), i)
  BY <1>1, <1>3, BarKeeps DEF MIN_Bar, s
<1>5. WalkKeeps(v, s, 0, S, MINs!Loop(v, s, 0, S, s, v.end), IF v.end < s THEN s - 1 ELSE v.end)
  BY <1>4, WalkBegins, SetInduction, MINs!LoopInduction, Zenon DEF s
<1> QED
  BY <1>2, <1>3, <1>5, WalkEnds DEF s

\* MININDEX, bar by bar.
MININDEX_Bar(v, s, z, S, i) == Written(v, i - s, S.mem, MININDEX([v EXCEPT !.mem = S.mem], S.L, i))
MININDEXs == INSTANCE Loops WITH Step <- MININDEX_Bar, Keeps <- WalkKeeps
LEMMA MININDEXTouches ==
  ASSUME NEW v, NEW lookback, CanWalk(v, lookback, 1)
  PROVE  WroteWalk(Run(v, lookback, Extremes, MININDEX), v, lookback)
<1> DEFINE s == Larger(v.start, lookback)
           S == [L |-> Extremes(v, s), mem |-> v.mem]
<1>1. \A u, L, i : Len(MININDEX(u, L, i).out) = 1
  BY DEF MININDEX, Wrote
<1>2. Run(v, lookback, Extremes, MININDEX) = IF s > v.end THEN Nothing(v)
      ELSE Done(MININDEXs!Loop(v, s, 0, S, s, v.end).mem, s, v.end - s + 1)
  BY Zenon DEF Run, Repeated, MININDEXs!Loop, MININDEX_Bar
<1>3. S.mem = v.mem
  OBVIOUS
<1> HIDE DEF s, S
<1>4. \A T : \A i \in s .. v.end :
         WalkKeeps(v, s, 0, S, T, i - 1) => WalkKeeps(v, s, 0, S, MININDEX_Bar(v, s, 0, T, i), i)
  BY <1>1, <1>3, BarKeeps DEF MININDEX_Bar, s
<1>5. WalkKeeps(v, s, 0, S, MININDEXs!Loop(v, s, 0, S, s, v.end),
                IF v.end < s THEN s - 1 ELSE v.end)
  BY <1>4, WalkBegins, SetInduction, MININDEXs!LoopInduction, Zenon DEF s
<1> QED
  BY <1>2, <1>3, <1>5, WalkEnds DEF s

\* MINMAX, bar by bar.
MINMAX_Bar(v, s, z, S, i) == Written(v, i - s, S.mem, MINMAX([v EXCEPT !.mem = S.mem], S.L, i))
MINMAXs == INSTANCE Loops WITH Step <- MINMAX_Bar, Keeps <- WalkKeeps
LEMMA MINMAXTouches ==
  ASSUME NEW v, NEW lookback, CanWalk(v, lookback, 2)
  PROVE  WroteWalk(Run(v, lookback, Extremes, MINMAX), v, lookback)
<1> DEFINE s == Larger(v.start, lookback)
           S == [L |-> Extremes(v, s), mem |-> v.mem]
<1>1. \A u, L, i : Len(MINMAX(u, L, i).out) = 2
  BY DEF MINMAX, WroteBoth
<1>2. Run(v, lookback, Extremes, MINMAX) = IF s > v.end THEN Nothing(v)
      ELSE Done(MINMAXs!Loop(v, s, 0, S, s, v.end).mem, s, v.end - s + 1)
  BY Zenon DEF Run, Repeated, MINMAXs!Loop, MINMAX_Bar
<1>3. S.mem = v.mem
  OBVIOUS
<1> HIDE DEF s, S
<1>4. \A T : \A i \in s .. v.end :
         WalkKeeps(v, s, 0, S, T, i - 1) => WalkKeeps(v, s, 0, S, MINMAX_Bar(v, s, 0, T, i), i)
  BY <1>1, <1>3, BarKeeps DEF MINMAX_Bar, s
<1>5. WalkKeeps(v, s, 0, S, MINMAXs!Loop(v, s, 0, S, s, v.end), IF v.end < s THEN s - 1 ELSE v.end)
  BY <1>4, WalkBegins, SetInduction, MINMAXs!LoopInduction, Zenon DEF s
<1> QED
  BY <1>2, <1>3, <1>5, WalkEnds DEF s

\* MINMAXINDEX, bar by bar.
MINMAXINDEX_Bar(v, s, z, S, i) ==
    Written(v, i - s, S.mem, MINMAXINDEX([v EXCEPT !.mem = S.mem], S.L, i))
MINMAXINDEXs == INSTANCE Loops WITH Step <- MINMAXINDEX_Bar, Keeps <- WalkKeeps
LEMMA MINMAXINDEXTouches ==
  ASSUME NEW v, NEW lookback, CanWalk(v, lookback, 2)
  PROVE  WroteWalk(Run(v, lookback, Extremes, MINMAXINDEX), v, lookback)
<1> DEFINE s == Larger(v.start, lookback)
           S == [L |-> Extremes(v, s), mem |-> v.mem]
<1>1. \A u, L, i : Len(MINMAXINDEX(u, L, i).out) = 2
  BY DEF MINMAXINDEX, WroteBoth
<1>2. Run(v, lookback, Extremes, MINMAXINDEX) = IF s > v.end THEN Nothing(v)
      ELSE Done(MINMAXINDEXs!Loop(v, s, 0, S, s, v.end).mem, s, v.end - s + 1)
  BY Zenon DEF Run, Repeated, MINMAXINDEXs!Loop, MINMAXINDEX_Bar
<1>3. S.mem = v.mem
  OBVIOUS
<1> HIDE DEF s, S
<1>4. \A T : \A i \in s .. v.end :
         WalkKeeps(v, s, 0, S, T, i - 1) => WalkKeeps(v, s, 0, S, MINMAXINDEX_Bar(v, s, 0, T, i), i)
  BY <1>1, <1>3, BarKeeps DEF MINMAXINDEX_Bar, s
<1>5. WalkKeeps(v, s, 0, S, MINMAXINDEXs!Loop(v, s, 0, S, s, v.end),
                IF v.end < s THEN s - 1 ELSE v.end)
  BY <1>4, WalkBegins, SetInduction, MINMAXINDEXs!LoopInduction, Zenon DEF s
<1> QED
  BY <1>2, <1>3, <1>5, WalkEnds DEF s

\* MIDPOINT, bar by bar.
MIDPOINT_Bar(v, s, z, S, i) == Written(v, i - s, S.mem, MIDPOINT([v EXCEPT !.mem = S.mem], S.L, i))
MIDPOINTs == INSTANCE Loops WITH Step <- MIDPOINT_Bar, Keeps <- WalkKeeps
LEMMA MIDPOINTTouches ==
  ASSUME NEW v, NEW lookback, CanWalk(v, lookback, 1)
  PROVE  WroteWalk(Run(v, lookback, NoLocals, MIDPOINT), v, lookback)
<1> DEFINE s == Larger(v.start, lookback)
           S == [L |-> NoLocals(v, s), mem |-> v.mem]
<1>1. \A u, L, i : Len(MIDPOINT(u, L, i).out) = 1
  BY DEF MIDPOINT, Wrote
<1>2. Run(v, lookback, NoLocals, MIDPOINT) = IF s > v.end THEN Nothing(v)
      ELSE Done(MIDPOINTs!Loop(v, s, 0, S, s, v.end).mem, s, v.end - s + 1)
  BY Zenon DEF Run, Repeated, MIDPOINTs!Loop, MIDPOINT_Bar
<1>3. S.mem = v.mem
  OBVIOUS
<1> HIDE DEF s, S
<1>4. \A T : \A i \in s .. v.end :
         WalkKeeps(v, s, 0, S, T, i - 1) => WalkKeeps(v, s, 0, S, MIDPOINT_Bar(v, s, 0, T, i), i)
  BY <1>1, <1>3, BarKeeps DEF MIDPOINT_Bar, s
<1>5. WalkKeeps(v, s, 0, S, MIDPOINTs!Loop(v, s, 0, S, s, v.end),
                IF v.end < s THEN s - 1 ELSE v.end)
  BY <1>4, WalkBegins, SetInduction, MIDPOINTs!LoopInduction, Zenon DEF s
<1> QED
  BY <1>2, <1>3, <1>5, WalkEnds DEF s

\* MIDPRICE, bar by bar.
MIDPRICE_Bar(v, s, z, S, i) == Written(v, i - s, S.mem, MIDPRICE([v EXCEPT !.mem = S.mem], S.L, i))
MIDPRICEs == INSTANCE Loops WITH Step <- MIDPRICE_Bar, Keeps <- WalkKeeps
LEMMA MIDPRICETouches ==
  ASSUME NEW v, NEW lookback, CanWalk(v, lookback, 1)
  PROVE  WroteWalk(Run(v, lookback, NoLocals, MIDPRICE), v, lookback)
<1> DEFINE s == Larger(v.start, lookback)
           S == [L |-> NoLocals(v, s), mem |-> v.mem]
<1>1. \A u, L, i : Len(MIDPRICE(u, L, i).out) = 1
  BY DEF MIDPRICE, Wrote
<1>2. Run(v, lookback, NoLocals, MIDPRICE) = IF s > v.end THEN Nothing(v)
      ELSE Done(MIDPRICEs!Loop(v, s, 0, S, s, v.end).mem, s, v.end - s + 1)
  BY Zenon DEF Run, Repeated, MIDPRICEs!Loop, MIDPRICE_Bar
<1>3. S.mem = v.mem
  OBVIOUS
<1> HIDE DEF s, S
<1>4. \A T : \A i \in s .. v.end :
         WalkKeeps(v, s, 0, S, T, i - 1) => WalkKeeps(v, s, 0, S, MIDPRICE_Bar(v, s, 0, T, i), i)
  BY <1>1, <1>3, BarKeeps DEF MIDPRICE_Bar, s
<1>5. WalkKeeps(v, s, 0, S, MIDPRICEs!Loop(v, s, 0, S, s, v.end),
                IF v.end < s THEN s - 1 ELSE v.end)
  BY <1>4, WalkBegins, SetInduction, MIDPRICEs!LoopInduction, Zenon DEF s
<1> QED
  BY <1>2, <1>3, <1>5, WalkEnds DEF s

\* WILLR, bar by bar.
WILLR_Bar(v, s, z, S, i) == Written(v, i - s, S.mem, WILLR([v EXCEPT !.mem = S.mem], S.L, i))
WILLRs == INSTANCE Loops WITH Step <- WILLR_Bar, Keeps <- WalkKeeps
LEMMA WILLRTouches ==
  ASSUME NEW v, NEW lookback, CanWalk(v, lookback, 1)
  PROVE  WroteWalk(Run(v, lookback, ChannelBegin, WILLR), v, lookback)
<1> DEFINE s == Larger(v.start, lookback)
           S == [L |-> ChannelBegin(v, s), mem |-> v.mem]
<1>1. \A u, L, i : Len(WILLR(u, L, i).out) = 1
  BY DEF WILLR, Keeping, Wrote
<1>2. Run(v, lookback, ChannelBegin, WILLR) = IF s > v.end THEN Nothing(v)
      ELSE Done(WILLRs!Loop(v, s, 0, S, s, v.end).mem, s, v.end - s + 1)
  BY Zenon DEF Run, Repeated, WILLRs!Loop, WILLR_Bar
<1>3. S.mem = v.mem
  OBVIOUS
<1> HIDE DEF s, S
<1>4. \A T : \A i \in s .. v.end :
         WalkKeeps(v, s, 0, S, T, i - 1) => WalkKeeps(v, s, 0, S, WILLR_Bar(v, s, 0, T, i), i)
  BY <1>1, <1>3, BarKeeps DEF WILLR_Bar, s
<1>5. WalkKeeps(v, s, 0, S, WILLRs!Loop(v, s, 0, S, s, v.end), IF v.end < s THEN s - 1 ELSE v.end)
  BY <1>4, WalkBegins, SetInduction, WILLRs!LoopInduction, Zenon DEF s
<1> QED
  BY <1>2, <1>3, <1>5, WalkEnds DEF s

\* AROON, bar by bar.
AROON_Bar(v, s, z, S, i) == Written(v, i - s, S.mem, AROON([v EXCEPT !.mem = S.mem], S.L, i))
AROONs == INSTANCE Loops WITH Step <- AROON_Bar, Keeps <- WalkKeeps
LEMMA AROONTouches ==
  ASSUME NEW v, NEW lookback, CanWalk(v, lookback, 2)
  PROVE  WroteWalk(Run(v, lookback, Extremes, AROON), v, lookback)
<1> DEFINE s == Larger(v.start, lookback)
           S == [L |-> Extremes(v, s), mem |-> v.mem]
<1>1. \A u, L, i : Len(AROON(u, L, i).out) = 2
  BY DEF AROON, WroteBoth
<1>2. Run(v, lookback, Extremes, AROON) = IF s > v.end THEN Nothing(v)
      ELSE Done(AROONs!Loop(v, s, 0, S, s, v.end).mem, s, v.end - s + 1)
  BY Zenon DEF Run, Repeated, AROONs!Loop, AROON_Bar
<1>3. S.mem = v.mem
  OBVIOUS
<1> HIDE DEF s, S
<1>4. \A T : \A i \in s .. v.end :
         WalkKeeps(v, s, 0, S, T, i - 1) => WalkKeeps(v, s, 0, S, AROON_Bar(v, s, 0, T, i), i)
  BY <1>1, <1>3, BarKeeps DEF AROON_Bar, s
<1>5. WalkKeeps(v, s, 0, S, AROONs!Loop(v, s, 0, S, s, v.end), IF v.end < s THEN s - 1 ELSE v.end)
  BY <1>4, WalkBegins, SetInduction, AROONs!LoopInduction, Zenon DEF s
<1> QED
  BY <1>2, <1>3, <1>5, WalkEnds DEF s

\* AROONOSC, bar by bar.
AROONOSC_Bar(v, s, z, S, i) == Written(v, i - s, S.mem, AROONOSC([v EXCEPT !.mem = S.mem], S.L, i))
AROONOSCs == INSTANCE Loops WITH Step <- AROONOSC_Bar, Keeps <- WalkKeeps
LEMMA AROONOSCTouches ==
  ASSUME NEW v, NEW lookback, CanWalk(v, lookback, 1)
  PROVE  WroteWalk(Run(v, lookback, Extremes, AROONOSC), v, lookback)
<1> DEFINE s == Larger(v.start, lookback)
           S == [L |-> Extremes(v, s), mem |-> v.mem]
<1>1. \A u, L, i : Len(AROONOSC(u, L, i).out) = 1
  BY DEF AROONOSC, Wrote
<1>2. Run(v, lookback, Extremes, AROONOSC) = IF s > v.end THEN Nothing(v)
      ELSE Done(AROONOSCs!Loop(v, s, 0, S, s, v.end).mem, s, v.end - s + 1)
  BY Zenon DEF Run, Repeated, AROONOSCs!Loop, AROONOSC_Bar
<1>3. S.mem = v.mem
  OBVIOUS
<1> HIDE DEF s, S
<1>4. \A T : \A i \in s .. v.end :
         WalkKeeps(v, s, 0, S, T, i - 1) => WalkKeeps(v, s, 0, S, AROONOSC_Bar(v, s, 0, T, i), i)
  BY <1>1, <1>3, BarKeeps DEF AROONOSC_Bar, s
<1>5. WalkKeeps(v, s, 0, S, AROONOSCs!Loop(v, s, 0, S, s, v.end),
                IF v.end < s THEN s - 1 ELSE v.end)
  BY <1>4, WalkBegins, SetInduction, AROONOSCs!LoopInduction, Zenon DEF s
<1> QED
  BY <1>2, <1>3, <1>5, WalkEnds DEF s

(* Sums. *)

\* SUM, bar by bar.
SUM_Bar(v, s, z, S, i) == Written(v, i - s, S.mem, SUM([v EXCEPT !.mem = S.mem], S.L, i))
SUMs == INSTANCE Loops WITH Step <- SUM_Bar, Keeps <- WalkKeeps
LEMMA SUMTouches ==
  ASSUME NEW v, NEW lookback, CanWalk(v, lookback, 1)
  PROVE  WroteWalk(Run(v, lookback, TotalBegin, SUM), v, lookback)
<1> DEFINE s == Larger(v.start, lookback)
           S == [L |-> TotalBegin(v, s), mem |-> v.mem]
<1>1. \A u, L, i : Len(SUM(u, L, i).out) = 1
  BY DEF SUM, Wrote
<1>2. Run(v, lookback, TotalBegin, SUM) = IF s > v.end THEN Nothing(v)
      ELSE Done(SUMs!Loop(v, s, 0, S, s, v.end).mem, s, v.end - s + 1)
  BY Zenon DEF Run, Repeated, SUMs!Loop, SUM_Bar
<1>3. S.mem = v.mem
  OBVIOUS
<1> HIDE DEF s, S
<1>4. \A T : \A i \in s .. v.end :
         WalkKeeps(v, s, 0, S, T, i - 1) => WalkKeeps(v, s, 0, S, SUM_Bar(v, s, 0, T, i), i)
  BY <1>1, <1>3, BarKeeps DEF SUM_Bar, s
<1>5. WalkKeeps(v, s, 0, S, SUMs!Loop(v, s, 0, S, s, v.end), IF v.end < s THEN s - 1 ELSE v.end)
  BY <1>4, WalkBegins, SetInduction, SUMs!LoopInduction, Zenon DEF s
<1> QED
  BY <1>2, <1>3, <1>5, WalkEnds DEF s

\* CORREL, bar by bar.
CORREL_Bar(v, s, z, S, i) == Written(v, i - s, S.mem, CORREL([v EXCEPT !.mem = S.mem], S.L, i))
CORRELs == INSTANCE Loops WITH Step <- CORREL_Bar, Keeps <- WalkKeeps
LEMMA CORRELTouches ==
  ASSUME NEW v, NEW lookback, CanWalk(v, lookback, 1)
  PROVE  WroteWalk(Run(v, lookback, CORREL_Begin, CORREL), v, lookback)
<1> DEFINE s == Larger(v.start, lookback)
           S == [L |-> CORREL_Begin(v, s), mem |-> v.mem]
<1>1. \A u, L, i : Len(CORREL(u, L, i).out) = 1
  BY DEF CORREL, Keeping, Wrote
<1>2. Run(v, lookback, CORREL_Begin, CORREL) = IF s > v.end THEN Nothing(v)
      ELSE Done(CORRELs!Loop(v, s, 0, S, s, v.end).mem, s, v.end - s + 1)
  BY Zenon DEF Run, Repeated, CORRELs!Loop, CORREL_Bar
<1>3. S.mem = v.mem
  OBVIOUS
<1> HIDE DEF s, S
<1>4. \A T : \A i \in s .. v.end :
         WalkKeeps(v, s, 0, S, T, i - 1) => WalkKeeps(v, s, 0, S, CORREL_Bar(v, s, 0, T, i), i)
  BY <1>1, <1>3, BarKeeps DEF CORREL_Bar, s
<1>5. WalkKeeps(v, s, 0, S, CORRELs!Loop(v, s, 0, S, s, v.end), IF v.end < s THEN s - 1 ELSE v.end)
  BY <1>4, WalkBegins, SetInduction, CORRELs!LoopInduction, Zenon DEF s
<1> QED
  BY <1>2, <1>3, <1>5, WalkEnds DEF s

\* BETA, bar by bar.
BETA_Bar(v, s, z, S, i) == Written(v, i - s, S.mem, BETA([v EXCEPT !.mem = S.mem], S.L, i))
BETAs == INSTANCE Loops WITH Step <- BETA_Bar, Keeps <- WalkKeeps
LEMMA BETATouches ==
  ASSUME NEW v, NEW lookback, CanWalk(v, lookback, 1)
  PROVE  WroteWalk(Run(v, lookback, BETA_Begin, BETA), v, lookback)
<1> DEFINE s == Larger(v.start, lookback)
           S == [L |-> BETA_Begin(v, s), mem |-> v.mem]
<1>1. \A u, L, i : Len(BETA(u, L, i).out) = 1
  BY DEF BETA, BETA_Wrote, Wrote
<1>2. Run(v, lookback, BETA_Begin, BETA) = IF s > v.end THEN Nothing(v)
      ELSE Done(BETAs!Loop(v, s, 0, S, s, v.end).mem, s, v.end - s + 1)
  BY Zenon DEF Run, Repeated, BETAs!Loop, BETA_Bar
<1>3. S.mem = v.mem
  OBVIOUS
<1> HIDE DEF s, S
<1>4. \A T : \A i \in s .. v.end :
         WalkKeeps(v, s, 0, S, T, i - 1) => WalkKeeps(v, s, 0, S, BETA_Bar(v, s, 0, T, i), i)
  BY <1>1, <1>3, BarKeeps DEF BETA_Bar, s
<1>5. WalkKeeps(v, s, 0, S, BETAs!Loop(v, s, 0, S, s, v.end), IF v.end < s THEN s - 1 ELSE v.end)
  BY <1>4, WalkBegins, SetInduction, BETAs!LoopInduction, Zenon DEF s
<1> QED
  BY <1>2, <1>3, <1>5, WalkEnds DEF s

\* LINEARREG, bar by bar.
LINEARREG_Bar(v, s, z, S, i) ==
    Written(v, i - s, S.mem, LINEARREG([v EXCEPT !.mem = S.mem], S.L, i))
LINEARREGs == INSTANCE Loops WITH Step <- LINEARREG_Bar, Keeps <- WalkKeeps
LEMMA LINEARREGTouches ==
  ASSUME NEW v, NEW lookback, CanWalk(v, lookback, 1)
  PROVE  WroteWalk(Run(v, lookback, NoLocals, LINEARREG), v, lookback)
<1> DEFINE s == Larger(v.start, lookback)
           S == [L |-> NoLocals(v, s), mem |-> v.mem]
<1>1. \A u, L, i : Len(LINEARREG(u, L, i).out) = 1
  BY DEF LINEARREG, Wrote
<1>2. Run(v, lookback, NoLocals, LINEARREG) = IF s > v.end THEN Nothing(v)
      ELSE Done(LINEARREGs!Loop(v, s, 0, S, s, v.end).mem, s, v.end - s + 1)
  BY Zenon DEF Run, Repeated, LINEARREGs!Loop, LINEARREG_Bar
<1>3. S.mem = v.mem
  OBVIOUS
<1> HIDE DEF s, S
<1>4. \A T : \A i \in s .. v.end :
         WalkKeeps(v, s, 0, S, T, i - 1) => WalkKeeps(v, s, 0, S, LINEARREG_Bar(v, s, 0, T, i), i)
  BY <1>1, <1>3, BarKeeps DEF LINEARREG_Bar, s
<1>5. WalkKeeps(v, s, 0, S, LINEARREGs!Loop(v, s, 0, S, s, v.end),
                IF v.end < s THEN s - 1 ELSE v.end)
  BY <1>4, WalkBegins, SetInduction, LINEARREGs!LoopInduction, Zenon DEF s
<1> QED
  BY <1>2, <1>3, <1>5, WalkEnds DEF s

\* LINEARREG_SLOPE, bar by bar.
LINEARREG_SLOPE_Bar(v, s, z, S, i) ==
    Written(v, i - s, S.mem, LINEARREG_SLOPE([v EXCEPT !.mem = S.mem], S.L, i))
LINEARREG_SLOPEs == INSTANCE Loops WITH Step <- LINEARREG_SLOPE_Bar, Keeps <- WalkKeeps
LEMMA LINEARREG_SLOPETouches ==
  ASSUME NEW v, NEW lookback, CanWalk(v, lookback, 1)
  PROVE  WroteWalk(Run(v, lookback, NoLocals, LINEARREG_SLOPE), v, lookback)
<1> DEFINE s == Larger(v.start, lookback)
           S == [L |-> NoLocals(v, s), mem |-> v.mem]
<1>1. \A u, L, i : Len(LINEARREG_SLOPE(u, L, i).out) = 1
  BY DEF LINEARREG_SLOPE, Wrote
<1>2. Run(v, lookback, NoLocals, LINEARREG_SLOPE) = IF s > v.end THEN Nothing(v)
      ELSE Done(LINEARREG_SLOPEs!Loop(v, s, 0, S, s, v.end).mem, s, v.end - s + 1)
  BY Zenon DEF Run, Repeated, LINEARREG_SLOPEs!Loop, LINEARREG_SLOPE_Bar
<1>3. S.mem = v.mem
  OBVIOUS
<1> HIDE DEF s, S
<1>4. \A T : \A i \in s .. v.end :
         WalkKeeps(v, s, 0, S, T, i - 1)
         => WalkKeeps(v, s, 0, S, LINEARREG_SLOPE_Bar(v, s, 0, T, i), i)
  BY <1>1, <1>3, BarKeeps DEF LINEARREG_SLOPE_Bar, s
<1>5. WalkKeeps(v, s, 0, S, LINEARREG_SLOPEs!Loop(v, s, 0, S, s, v.end),
                IF v.end < s THEN s - 1 ELSE v.end)
  BY <1>4, WalkBegins, SetInduction, LINEARREG_SLOPEs!LoopInduction, Zenon DEF s
<1> QED
  BY <1>2, <1>3, <1>5, WalkEnds DEF s

\* LINEARREG_ANGLE, bar by bar.
LINEARREG_ANGLE_Bar(v, s, z, S, i) ==
    Written(v, i - s, S.mem, LINEARREG_ANGLE([v EXCEPT !.mem = S.mem], S.L, i))
LINEARREG_ANGLEs == INSTANCE Loops WITH Step <- LINEARREG_ANGLE_Bar, Keeps <- WalkKeeps
LEMMA LINEARREG_ANGLETouches ==
  ASSUME NEW v, NEW lookback, CanWalk(v, lookback, 1)
  PROVE  WroteWalk(Run(v, lookback, NoLocals, LINEARREG_ANGLE), v, lookback)
<1> DEFINE s == Larger(v.start, lookback)
           S == [L |-> NoLocals(v, s), mem |-> v.mem]
<1>1. \A u, L, i : Len(LINEARREG_ANGLE(u, L, i).out) = 1
  BY DEF LINEARREG_ANGLE, Wrote
<1>2. Run(v, lookback, NoLocals, LINEARREG_ANGLE) = IF s > v.end THEN Nothing(v)
      ELSE Done(LINEARREG_ANGLEs!Loop(v, s, 0, S, s, v.end).mem, s, v.end - s + 1)
  BY Zenon DEF Run, Repeated, LINEARREG_ANGLEs!Loop, LINEARREG_ANGLE_Bar
<1>3. S.mem = v.mem
  OBVIOUS
<1> HIDE DEF s, S
<1>4. \A T : \A i \in s .. v.end :
         WalkKeeps(v, s, 0, S, T, i - 1)
         => WalkKeeps(v, s, 0, S, LINEARREG_ANGLE_Bar(v, s, 0, T, i), i)
  BY <1>1, <1>3, BarKeeps DEF LINEARREG_ANGLE_Bar, s
<1>5. WalkKeeps(v, s, 0, S, LINEARREG_ANGLEs!Loop(v, s, 0, S, s, v.end),
                IF v.end < s THEN s - 1 ELSE v.end)
  BY <1>4, WalkBegins, SetInduction, LINEARREG_ANGLEs!LoopInduction, Zenon DEF s
<1> QED
  BY <1>2, <1>3, <1>5, WalkEnds DEF s

\* LINEARREG_INTERCEPT, bar by bar.
LINEARREG_INTERCEPT_Bar(v, s, z, S, i) ==
    Written(v, i - s, S.mem, LINEARREG_INTERCEPT([v EXCEPT !.mem = S.mem], S.L, i))
LINEARREG_INTERCEPTs == INSTANCE Loops WITH Step <- LINEARREG_INTERCEPT_Bar, Keeps <- WalkKeeps
LEMMA LINEARREG_INTERCEPTTouches ==
  ASSUME NEW v, NEW lookback, CanWalk(v, lookback, 1)
  PROVE  WroteWalk(Run(v, lookback, NoLocals, LINEARREG_INTERCEPT), v, lookback)
<1> DEFINE s == Larger(v.start, lookback)
           S == [L |-> NoLocals(v, s), mem |-> v.mem]
<1>1. \A u, L, i : Len(LINEARREG_INTERCEPT(u, L, i).out) = 1
  BY DEF LINEARREG_INTERCEPT, Wrote
<1>2. Run(v, lookback, NoLocals, LINEARREG_INTERCEPT) = IF s > v.end THEN Nothing(v)
      ELSE Done(LINEARREG_INTERCEPTs!Loop(v, s, 0, S, s, v.end).mem, s, v.end - s + 1)
  BY Zenon DEF Run, Repeated, LINEARREG_INTERCEPTs!Loop, LINEARREG_INTERCEPT_Bar
<1>3. S.mem = v.mem
  OBVIOUS
<1> HIDE DEF s, S
<1>4. \A T : \A i \in s .. v.end :
         WalkKeeps(v, s, 0, S, T, i - 1)
         => WalkKeeps(v, s, 0, S, LINEARREG_INTERCEPT_Bar(v, s, 0, T, i), i)
  BY <1>1, <1>3, BarKeeps DEF LINEARREG_INTERCEPT_Bar, s
<1>5. WalkKeeps(v, s, 0, S, LINEARREG_INTERCEPTs!Loop(v, s, 0, S, s, v.end),
                IF v.end < s THEN s - 1 ELSE v.end)
  BY <1>4, WalkBegins, SetInduction, LINEARREG_INTERCEPTs!LoopInduction, Zenon DEF s
<1> QED
  BY <1>2, <1>3, <1>5, WalkEnds DEF s

\* TSF, bar by bar.
TSF_Bar(v, s, z, S, i) == Written(v, i - s, S.mem, TSF([v EXCEPT !.mem = S.mem], S.L, i))
TSFs == INSTANCE Loops WITH Step <- TSF_Bar, Keeps <- WalkKeeps
LEMMA TSFTouches ==
  ASSUME NEW v, NEW lookback, CanWalk(v, lookback, 1)
  PROVE  WroteWalk(Run(v, lookback, NoLocals, TSF), v, lookback)
<1> DEFINE s == Larger(v.start, lookback)
           S == [L |-> NoLocals(v, s), mem |-> v.mem]
<1>1. \A u, L, i : Len(TSF(u, L, i).out) = 1
  BY DEF TSF, Wrote
<1>2. Run(v, lookback, NoLocals, TSF) = IF s > v.end THEN Nothing(v)
      ELSE Done(TSFs!Loop(v, s, 0, S, s, v.end).mem, s, v.end - s + 1)
  BY Zenon DEF Run, Repeated, TSFs!Loop, TSF_Bar
<1>3. S.mem = v.mem
  OBVIOUS
<1> HIDE DEF s, S
<1>4. \A T : \A i \in s .. v.end :
         WalkKeeps(v, s, 0, S, T, i - 1) => WalkKeeps(v, s, 0, S, TSF_Bar(v, s, 0, T, i), i)
  BY <1>1, <1>3, BarKeeps DEF TSF_Bar, s
<1>5. WalkKeeps(v, s, 0, S, TSFs!Loop(v, s, 0, S, s, v.end), IF v.end < s THEN s - 1 ELSE v.end)
  BY <1>4, WalkBegins, SetInduction, TSFs!LoopInduction, Zenon DEF s
<1> QED
  BY <1>2, <1>3, <1>5, WalkEnds DEF s

\* MFI, bar by bar.
MFI_Bar(v, s, z, S, i) == Written(v, i - s, S.mem, MFI([v EXCEPT !.mem = S.mem], S.L, i))
MFIs == INSTANCE Loops WITH Step <- MFI_Bar, Keeps <- WalkKeeps
LEMMA MFITouches ==
  ASSUME NEW v, NEW lookback, CanWalk(v, lookback, 1)
  PROVE  WroteWalk(Run(v, lookback, MFI_Begin, MFI), v, lookback)
<1> DEFINE s == Larger(v.start, lookback)
           S == [L |-> MFI_Begin(v, s), mem |-> v.mem]
<1>1. \A u, L, i : Len(MFI(u, L, i).out) = 1
  BY DEF MFI, Keeping, Wrote
<1>2. Run(v, lookback, MFI_Begin, MFI) = IF s > v.end THEN Nothing(v)
      ELSE Done(MFIs!Loop(v, s, 0, S, s, v.end).mem, s, v.end - s + 1)
  BY Zenon DEF Run, Repeated, MFIs!Loop, MFI_Bar
<1>3. S.mem = v.mem
  OBVIOUS
<1> HIDE DEF s, S
<1>4. \A T : \A i \in s .. v.end :
         WalkKeeps(v, s, 0, S, T, i - 1) => WalkKeeps(v, s, 0, S, MFI_Bar(v, s, 0, T, i), i)
  BY <1>1, <1>3, BarKeeps DEF MFI_Bar, s
<1>5. WalkKeeps(v, s, 0, S, MFIs!Loop(v, s, 0, S, s, v.end), IF v.end < s THEN s - 1 ELSE v.end)
  BY <1>4, WalkBegins, SetInduction, MFIs!LoopInduction, Zenon DEF s
<1> QED
  BY <1>2, <1>3, <1>5, WalkEnds DEF s

\* ULTOSC, bar by bar.
ULTOSC_Bar(v, s, z, S, i) == Written(v, i - s, S.mem, ULTOSC([v EXCEPT !.mem = S.mem], S.L, i))
ULTOSCs == INSTANCE Loops WITH Step <- ULTOSC_Bar, Keeps <- WalkKeeps
LEMMA ULTOSCTouches ==
  ASSUME NEW v, NEW lookback, CanWalk(v, lookback, 1)
  PROVE  WroteWalk(Run(v, lookback, ULTOSC_Begin, ULTOSC), v, lookback)
<1> DEFINE s == Larger(v.start, lookback)
           S == [L |-> ULTOSC_Begin(v, s), mem |-> v.mem]
<1>1. \A u, L, i : Len(ULTOSC(u, L, i).out) = 1
  BY DEF ULTOSC, ULTOSC_Wrote, Wrote
<1>2. Run(v, lookback, ULTOSC_Begin, ULTOSC) = IF s > v.end THEN Nothing(v)
      ELSE Done(ULTOSCs!Loop(v, s, 0, S, s, v.end).mem, s, v.end - s + 1)
  BY Zenon DEF Run, Repeated, ULTOSCs!Loop, ULTOSC_Bar
<1>3. S.mem = v.mem
  OBVIOUS
<1> HIDE DEF s, S
<1>4. \A T : \A i \in s .. v.end :
         WalkKeeps(v, s, 0, S, T, i - 1) => WalkKeeps(v, s, 0, S, ULTOSC_Bar(v, s, 0, T, i), i)
  BY <1>1, <1>3, BarKeeps DEF ULTOSC_Bar, s
<1>5. WalkKeeps(v, s, 0, S, ULTOSCs!Loop(v, s, 0, S, s, v.end), IF v.end < s THEN s - 1 ELSE v.end)
  BY <1>4, WalkBegins, SetInduction, ULTOSCs!LoopInduction, Zenon DEF s
<1> QED
  BY <1>2, <1>3, <1>5, WalkEnds DEF s

\* CCI, bar by bar.
CCI_Bar(v, s, z, S, i) == Written(v, i - s, S.mem, CCI([v EXCEPT !.mem = S.mem], S.L, i))
CCIs == INSTANCE Loops WITH Step <- CCI_Bar, Keeps <- WalkKeeps
LEMMA CCITouches ==
  ASSUME NEW v, NEW lookback, CanWalk(v, lookback, 1)
  PROVE  WroteWalk(Run(v, lookback, CCI_Begin, CCI), v, lookback)
<1> DEFINE s == Larger(v.start, lookback)
           S == [L |-> CCI_Begin(v, s), mem |-> v.mem]
<1>1. \A u, L, i : Len(CCI(u, L, i).out) = 1
  BY DEF CCI, CCI_Wrote, CCI_About, Wrote
<1>2. Run(v, lookback, CCI_Begin, CCI) = IF s > v.end THEN Nothing(v)
      ELSE Done(CCIs!Loop(v, s, 0, S, s, v.end).mem, s, v.end - s + 1)
  BY Zenon DEF Run, Repeated, CCIs!Loop, CCI_Bar
<1>3. S.mem = v.mem
  OBVIOUS
<1> HIDE DEF s, S
<1>4. \A T : \A i \in s .. v.end :
         WalkKeeps(v, s, 0, S, T, i - 1) => WalkKeeps(v, s, 0, S, CCI_Bar(v, s, 0, T, i), i)
  BY <1>1, <1>3, BarKeeps DEF CCI_Bar, s
<1>5. WalkKeeps(v, s, 0, S, CCIs!Loop(v, s, 0, S, s, v.end), IF v.end < s THEN s - 1 ELSE v.end)
  BY <1>4, WalkBegins, SetInduction, CCIs!LoopInduction, Zenon DEF s
<1> QED
  BY <1>2, <1>3, <1>5, WalkEnds DEF s

(* Averages. *)

\* CMO, bar by bar.
CMO_Bar(v, s, z, S, i) == Written(v, i - s, S.mem, CMO([v EXCEPT !.mem = S.mem], S.L, i))
CMOs == INSTANCE Loops WITH Step <- CMO_Bar, Keeps <- WalkKeeps
LEMMA CMOTouches ==
  ASSUME NEW v, NEW lookback, CanWalk(v, lookback, 1)
  PROVE  WroteWalk(Run(v, lookback, RSI_Begin, CMO), v, lookback)
<1> DEFINE s == Larger(v.start, lookback)
           S == [L |-> RSI_Begin(v, s), mem |-> v.mem]
<1>1. \A u, L, i : Len(CMO(u, L, i).out) = 1
  BY DEF CMO, RSI_Wrote, Wrote
<1>2. Run(v, lookback, RSI_Begin, CMO) = IF s > v.end THEN Nothing(v)
      ELSE Done(CMOs!Loop(v, s, 0, S, s, v.end).mem, s, v.end - s + 1)
  BY Zenon DEF Run, Repeated, CMOs!Loop, CMO_Bar
<1>3. S.mem = v.mem
  OBVIOUS
<1> HIDE DEF s, S
<1>4. \A T : \A i \in s .. v.end :
         WalkKeeps(v, s, 0, S, T, i - 1) => WalkKeeps(v, s, 0, S, CMO_Bar(v, s, 0, T, i), i)
  BY <1>1, <1>3, BarKeeps DEF CMO_Bar, s
<1>5. WalkKeeps(v, s, 0, S, CMOs!Loop(v, s, 0, S, s, v.end), IF v.end < s THEN s - 1 ELSE v.end)
  BY <1>4, WalkBegins, SetInduction, CMOs!LoopInduction, Zenon DEF s
<1> QED
  BY <1>2, <1>3, <1>5, WalkEnds DEF s

\* ATR, bar by bar.
ATR_Bar(v, s, z, S, i) == Written(v, i - s, S.mem, ATR([v EXCEPT !.mem = S.mem], S.L, i))
ATRs == INSTANCE Loops WITH Step <- ATR_Bar, Keeps <- WalkKeeps
LEMMA ATRTouches ==
  ASSUME NEW v, NEW lookback, CanWalk(v, lookback, 1)
  PROVE  WroteWalk(Run(v, lookback, ATR_Begin, ATR), v, lookback)
<1> DEFINE s == Larger(v.start, lookback)
           S == [L |-> ATR_Begin(v, s), mem |-> v.mem]
<1>1. \A u, L, i : Len(ATR(u, L, i).out) = 1
  BY DEF ATR, Keeping, Wrote
<1>2. Run(v, lookback, ATR_Begin, ATR) = IF s > v.end THEN Nothing(v)
      ELSE Done(ATRs!Loop(v, s, 0, S, s, v.end).mem, s, v.end - s + 1)
  BY Zenon DEF Run, Repeated, ATRs!Loop, ATR_Bar
<1>3. S.mem = v.mem
  OBVIOUS
<1> HIDE DEF s, S
<1>4. \A T : \A i \in s .. v.end :
         WalkKeeps(v, s, 0, S, T, i - 1) => WalkKeeps(v, s, 0, S, ATR_Bar(v, s, 0, T, i), i)
  BY <1>1, <1>3, BarKeeps DEF ATR_Bar, s
<1>5. WalkKeeps(v, s, 0, S, ATRs!Loop(v, s, 0, S, s, v.end), IF v.end < s THEN s - 1 ELSE v.end)
  BY <1>4, WalkBegins, SetInduction, ATRs!LoopInduction, Zenon DEF s
<1> QED
  BY <1>2, <1>3, <1>5, WalkEnds DEF s

\* NATR, bar by bar.
NATR_Bar(v, s, z, S, i) == Written(v, i - s, S.mem, NATR([v EXCEPT !.mem = S.mem], S.L, i))
NATRs == INSTANCE Loops WITH Step <- NATR_Bar, Keeps <- WalkKeeps
LEMMA NATRTouches ==
  ASSUME NEW v, NEW lookback, CanWalk(v, lookback, 1)
  PROVE  WroteWalk(Run(v, lookback, ATR_Begin, NATR), v, lookback)
<1> DEFINE s == Larger(v.start, lookback)
           S == [L |-> ATR_Begin(v, s), mem |-> v.mem]
<1>1. \A u, L, i : Len(NATR(u, L, i).out) = 1
  BY DEF NATR, NATR_Of, NATR_Wrote, Wrote
<1>2. Run(v, lookback, ATR_Begin, NATR) = IF s > v.end THEN Nothing(v)
      ELSE Done(NATRs!Loop(v, s, 0, S, s, v.end).mem, s, v.end - s + 1)
  BY Zenon DEF Run, Repeated, NATRs!Loop, NATR_Bar
<1>3. S.mem = v.mem
  OBVIOUS
<1> HIDE DEF s, S
<1>4. \A T : \A i \in s .. v.end :
         WalkKeeps(v, s, 0, S, T, i - 1) => WalkKeeps(v, s, 0, S, NATR_Bar(v, s, 0, T, i), i)
  BY <1>1, <1>3, BarKeeps DEF NATR_Bar, s
<1>5. WalkKeeps(v, s, 0, S, NATRs!Loop(v, s, 0, S, s, v.end), IF v.end < s THEN s - 1 ELSE v.end)
  BY <1>4, WalkBegins, SetInduction, NATRs!LoopInduction, Zenon DEF s
<1> QED
  BY <1>2, <1>3, <1>5, WalkEnds DEF s

\* PLUS_DM, bar by bar.
PLUS_DM_Bar(v, s, z, S, i) == Written(v, i - s, S.mem, PLUS_DM([v EXCEPT !.mem = S.mem], S.L, i))
PLUS_DMs == INSTANCE Loops WITH Step <- PLUS_DM_Bar, Keeps <- WalkKeeps
LEMMA PLUS_DMTouches ==
  ASSUME NEW v, NEW lookback, CanWalk(v, lookback, 1)
  PROVE  WroteWalk(Run(v, lookback, PLUS_DM_Begin, PLUS_DM), v, lookback)
<1> DEFINE s == Larger(v.start, lookback)
           S == [L |-> PLUS_DM_Begin(v, s), mem |-> v.mem]
<1>1. \A u, L, i : Len(PLUS_DM(u, L, i).out) = 1
  BY DEF PLUS_DM, Keeping, Wrote
<1>2. Run(v, lookback, PLUS_DM_Begin, PLUS_DM) = IF s > v.end THEN Nothing(v)
      ELSE Done(PLUS_DMs!Loop(v, s, 0, S, s, v.end).mem, s, v.end - s + 1)
  BY Zenon DEF Run, Repeated, PLUS_DMs!Loop, PLUS_DM_Bar
<1>3. S.mem = v.mem
  OBVIOUS
<1> HIDE DEF s, S
<1>4. \A T : \A i \in s .. v.end :
         WalkKeeps(v, s, 0, S, T, i - 1) => WalkKeeps(v, s, 0, S, PLUS_DM_Bar(v, s, 0, T, i), i)
  BY <1>1, <1>3, BarKeeps DEF PLUS_DM_Bar, s
<1>5. WalkKeeps(v, s, 0, S, PLUS_DMs!Loop(v, s, 0, S, s, v.end), IF v.end < s THEN s - 1 ELSE v.end)
  BY <1>4, WalkBegins, SetInduction, PLUS_DMs!LoopInduction, Zenon DEF s
<1> QED
  BY <1>2, <1>3, <1>5, WalkEnds DEF s

\* PLUS_DM1, bar by bar.
PLUS_DM1_Bar(v, s, z, S, i) == Written(v, i - s, S.mem, PLUS_DM1([v EXCEPT !.mem = S.mem], S.L, i))
PLUS_DM1s == INSTANCE Loops WITH Step <- PLUS_DM1_Bar, Keeps <- WalkKeeps
LEMMA PLUS_DM1Touches ==
  ASSUME NEW v, NEW lookback, CanWalk(v, lookback, 1)
  PROVE  WroteWalk(Run(v, lookback, NoLocals, PLUS_DM1), v, lookback)
<1> DEFINE s == Larger(v.start, lookback)
           S == [L |-> NoLocals(v, s), mem |-> v.mem]
<1>1. \A u, L, i : Len(PLUS_DM1(u, L, i).out) = 1
  BY DEF PLUS_DM1, Wrote
<1>2. Run(v, lookback, NoLocals, PLUS_DM1) = IF s > v.end THEN Nothing(v)
      ELSE Done(PLUS_DM1s!Loop(v, s, 0, S, s, v.end).mem, s, v.end - s + 1)
  BY Zenon DEF Run, Repeated, PLUS_DM1s!Loop, PLUS_DM1_Bar
<1>3. S.mem = v.mem
  OBVIOUS
<1> HIDE DEF s, S
<1>4. \A T : \A i \in s .. v.end :
         WalkKeeps(v, s, 0, S, T, i - 1) => WalkKeeps(v, s, 0, S, PLUS_DM1_Bar(v, s, 0, T, i), i)
  BY <1>1, <1>3, BarKeeps DEF PLUS_DM1_Bar, s
<1>5. WalkKeeps(v, s, 0, S, PLUS_DM1s!Loop(v, s, 0, S, s, v.end),
                IF v.end < s THEN s - 1 ELSE v.end)
  BY <1>4, WalkBegins, SetInduction, PLUS_DM1s!LoopInduction, Zenon DEF s
<1> QED
  BY <1>2, <1>3, <1>5, WalkEnds DEF s

\* MINUS_DM, bar by bar.
MINUS_DM_Bar(v, s, z, S, i) == Written(v, i - s, S.mem, MINUS_DM([v EXCEPT !.mem = S.mem], S.L, i))
MINUS_DMs == INSTANCE Loops WITH Step <- MINUS_DM_Bar, Keeps <- WalkKeeps
LEMMA MINUS_DMTouches ==
  ASSUME NEW v, NEW lookback, CanWalk(v, lookback, 1)
  PROVE  WroteWalk(Run(v, lookback, MINUS_DM_Begin, MINUS_DM), v, lookback)
<1> DEFINE s == Larger(v.start, lookback)
           S == [L |-> MINUS_DM_Begin(v, s), mem |-> v.mem]
<1>1. \A u, L, i : Len(MINUS_DM(u, L, i).out) = 1
  BY DEF MINUS_DM, Keeping, Wrote
<1>2. Run(v, lookback, MINUS_DM_Begin, MINUS_DM) = IF s > v.end THEN Nothing(v)
      ELSE Done(MINUS_DMs!Loop(v, s, 0, S, s, v.end).mem, s, v.end - s + 1)
  BY Zenon DEF Run, Repeated, MINUS_DMs!Loop, MINUS_DM_Bar
<1>3. S.mem = v.mem
  OBVIOUS
<1> HIDE DEF s, S
<1>4. \A T : \A i \in s .. v.end :
         WalkKeeps(v, s, 0, S, T, i - 1) => WalkKeeps(v, s, 0, S, MINUS_DM_Bar(v, s, 0, T, i), i)
  BY <1>1, <1>3, BarKeeps DEF MINUS_DM_Bar, s
<1>5. WalkKeeps(v, s, 0, S, MINUS_DMs!Loop(v, s, 0, S, s, v.end),
                IF v.end < s THEN s - 1 ELSE v.end)
  BY <1>4, WalkBegins, SetInduction, MINUS_DMs!LoopInduction, Zenon DEF s
<1> QED
  BY <1>2, <1>3, <1>5, WalkEnds DEF s

\* MINUS_DM1, bar by bar.
MINUS_DM1_Bar(v, s, z, S, i) ==
    Written(v, i - s, S.mem, MINUS_DM1([v EXCEPT !.mem = S.mem], S.L, i))
MINUS_DM1s == INSTANCE Loops WITH Step <- MINUS_DM1_Bar, Keeps <- WalkKeeps
LEMMA MINUS_DM1Touches ==
  ASSUME NEW v, NEW lookback, CanWalk(v, lookback, 1)
  PROVE  WroteWalk(Run(v, lookback, NoLocals, MINUS_DM1), v, lookback)
<1> DEFINE s == Larger(v.start, lookback)
           S == [L |-> NoLocals(v, s), mem |-> v.mem]
<1>1. \A u, L, i : Len(MINUS_DM1(u, L, i).out) = 1
  BY DEF MINUS_DM1, Wrote
<1>2. Run(v, lookback, NoLocals, MINUS_DM1) = IF s > v.end THEN Nothing(v)
      ELSE Done(MINUS_DM1s!Loop(v, s, 0, S, s, v.end).mem, s, v.end - s + 1)
  BY Zenon DEF Run, Repeated, MINUS_DM1s!Loop, MINUS_DM1_Bar
<1>3. S.mem = v.mem
  OBVIOUS
<1> HIDE DEF s, S
<1>4. \A T : \A i \in s .. v.end :
         WalkKeeps(v, s, 0, S, T, i - 1) => WalkKeeps(v, s, 0, S, MINUS_DM1_Bar(v, s, 0, T, i), i)
  BY <1>1, <1>3, BarKeeps DEF MINUS_DM1_Bar, s
<1>5. WalkKeeps(v, s, 0, S, MINUS_DM1s!Loop(v, s, 0, S, s, v.end),
                IF v.end < s THEN s - 1 ELSE v.end)
  BY <1>4, WalkBegins, SetInduction, MINUS_DM1s!LoopInduction, Zenon DEF s
<1> QED
  BY <1>2, <1>3, <1>5, WalkEnds DEF s

\* PLUS_DI, bar by bar.
PLUS_DI_Bar(v, s, z, S, i) == Written(v, i - s, S.mem, PLUS_DI([v EXCEPT !.mem = S.mem], S.L, i))
PLUS_DIs == INSTANCE Loops WITH Step <- PLUS_DI_Bar, Keeps <- WalkKeeps
LEMMA PLUS_DITouches ==
  ASSUME NEW v, NEW lookback, CanWalk(v, lookback, 1)
  PROVE  WroteWalk(Run(v, lookback, PLUS_DI_Begin, PLUS_DI), v, lookback)
<1> DEFINE s == Larger(v.start, lookback)
           S == [L |-> PLUS_DI_Begin(v, s), mem |-> v.mem]
<1>1. \A u, L, i : Len(PLUS_DI(u, L, i).out) = 1
  BY DEF PLUS_DI, Keeping, Wrote
<1>2. Run(v, lookback, PLUS_DI_Begin, PLUS_DI) = IF s > v.end THEN Nothing(v)
      ELSE Done(PLUS_DIs!Loop(v, s, 0, S, s, v.end).mem, s, v.end - s + 1)
  BY Zenon DEF Run, Repeated, PLUS_DIs!Loop, PLUS_DI_Bar
<1>3. S.mem = v.mem
  OBVIOUS
<1> HIDE DEF s, S
<1>4. \A T : \A i \in s .. v.end :
         WalkKeeps(v, s, 0, S, T, i - 1) => WalkKeeps(v, s, 0, S, PLUS_DI_Bar(v, s, 0, T, i), i)
  BY <1>1, <1>3, BarKeeps DEF PLUS_DI_Bar, s
<1>5. WalkKeeps(v, s, 0, S, PLUS_DIs!Loop(v, s, 0, S, s, v.end), IF v.end < s THEN s - 1 ELSE v.end)
  BY <1>4, WalkBegins, SetInduction, PLUS_DIs!LoopInduction, Zenon DEF s
<1> QED
  BY <1>2, <1>3, <1>5, WalkEnds DEF s

\* PLUS_DI1, bar by bar.
PLUS_DI1_Bar(v, s, z, S, i) == Written(v, i - s, S.mem, PLUS_DI1([v EXCEPT !.mem = S.mem], S.L, i))
PLUS_DI1s == INSTANCE Loops WITH Step <- PLUS_DI1_Bar, Keeps <- WalkKeeps
LEMMA PLUS_DI1Touches ==
  ASSUME NEW v, NEW lookback, CanWalk(v, lookback, 1)
  PROVE  WroteWalk(Run(v, lookback, NoLocals, PLUS_DI1), v, lookback)
<1> DEFINE s == Larger(v.start, lookback)
           S == [L |-> NoLocals(v, s), mem |-> v.mem]
<1>1. \A u, L, i : Len(PLUS_DI1(u, L, i).out) = 1
  BY DEF PLUS_DI1, Wrote
<1>2. Run(v, lookback, NoLocals, PLUS_DI1) = IF s > v.end THEN Nothing(v)
      ELSE Done(PLUS_DI1s!Loop(v, s, 0, S, s, v.end).mem, s, v.end - s + 1)
  BY Zenon DEF Run, Repeated, PLUS_DI1s!Loop, PLUS_DI1_Bar
<1>3. S.mem = v.mem
  OBVIOUS
<1> HIDE DEF s, S
<1>4. \A T : \A i \in s .. v.end :
         WalkKeeps(v, s, 0, S, T, i - 1) => WalkKeeps(v, s, 0, S, PLUS_DI1_Bar(v, s, 0, T, i), i)
  BY <1>1, <1>3, BarKeeps DEF PLUS_DI1_Bar, s
<1>5. WalkKeeps(v, s, 0, S, PLUS_DI1s!Loop(v, s, 0, S, s, v.end),
                IF v.end < s THEN s - 1 ELSE v.end)
  BY <1>4, WalkBegins, SetInduction, PLUS_DI1s!LoopInduction, Zenon DEF s
<1> QED
  BY <1>2, <1>3, <1>5, WalkEnds DEF s

\* MINUS_DI, bar by bar.
MINUS_DI_Bar(v, s, z, S, i) == Written(v, i - s, S.mem, MINUS_DI([v EXCEPT !.mem = S.mem], S.L, i))
MINUS_DIs == INSTANCE Loops WITH Step <- MINUS_DI_Bar, Keeps <- WalkKeeps
LEMMA MINUS_DITouches ==
  ASSUME NEW v, NEW lookback, CanWalk(v, lookback, 1)
  PROVE  WroteWalk(Run(v, lookback, MINUS_DI_Begin, MINUS_DI), v, lookback)
<1> DEFINE s == Larger(v.start, lookback)
           S == [L |-> MINUS_DI_Begin(v, s), mem |-> v.mem]
<1>1. \A u, L, i : Len(MINUS_DI(u, L, i).out) = 1
  BY DEF MINUS_DI, Keeping, Wrote
<1>2. Run(v, lookback, MINUS_DI_Begin, MINUS_DI) = IF s > v.end THEN Nothing(v)
      ELSE Done(MINUS_DIs!Loop(v, s, 0, S, s, v.end).mem, s, v.end - s + 1)
  BY Zenon DEF Run, Repeated, MINUS_DIs!Loop, MINUS_DI_Bar
<1>3. S.mem = v.mem
  OBVIOUS
<1> HIDE DEF s, S
<1>4. \A T : \A i \in s .. v.end :
         WalkKeeps(v, s, 0, S, T, i - 1) => WalkKeeps(v, s, 0, S, MINUS_DI_Bar(v, s, 0, T, i), i)
  BY <1>1, <1>3, BarKeeps DEF MINUS_DI_Bar, s
<1>5. WalkKeeps(v, s, 0, S, MINUS_DIs!Loop(v, s, 0, S, s, v.end),
                IF v.end < s THEN s - 1 ELSE v.end)
  BY <1>4, WalkBegins, SetInduction, MINUS_DIs!LoopInduction, Zenon DEF s
<1> QED
  BY <1>2, <1>3, <1>5, WalkEnds DEF s

\* MINUS_DI1, bar by bar.
MINUS_DI1_Bar(v, s, z, S, i) ==
    Written(v, i - s, S.mem, MINUS_DI1([v EXCEPT !.mem = S.mem], S.L, i))
MINUS_DI1s == INSTANCE Loops WITH Step <- MINUS_DI1_Bar, Keeps <- WalkKeeps
LEMMA MINUS_DI1Touches ==
  ASSUME NEW v, NEW lookback, CanWalk(v, lookback, 1)
  PROVE  WroteWalk(Run(v, lookback, NoLocals, MINUS_DI1), v, lookback)
<1> DEFINE s == Larger(v.start, lookback)
           S == [L |-> NoLocals(v, s), mem |-> v.mem]
<1>1. \A u, L, i : Len(MINUS_DI1(u, L, i).out) = 1
  BY DEF MINUS_DI1, Wrote
<1>2. Run(v, lookback, NoLocals, MINUS_DI1) = IF s > v.end THEN Nothing(v)
      ELSE Done(MINUS_DI1s!Loop(v, s, 0, S, s, v.end).mem, s, v.end - s + 1)
  BY Zenon DEF Run, Repeated, MINUS_DI1s!Loop, MINUS_DI1_Bar
<1>3. S.mem = v.mem
  OBVIOUS
<1> HIDE DEF s, S
<1>4. \A T : \A i \in s .. v.end :
         WalkKeeps(v, s, 0, S, T, i - 1) => WalkKeeps(v, s, 0, S, MINUS_DI1_Bar(v, s, 0, T, i), i)
  BY <1>1, <1>3, BarKeeps DEF MINUS_DI1_Bar, s
<1>5. WalkKeeps(v, s, 0, S, MINUS_DI1s!Loop(v, s, 0, S, s, v.end),
                IF v.end < s THEN s - 1 ELSE v.end)
  BY <1>4, WalkBegins, SetInduction, MINUS_DI1s!LoopInduction, Zenon DEF s
<1> QED
  BY <1>2, <1>3, <1>5, WalkEnds DEF s

\* DX, bar by bar.
DX_Bar(v, s, z, S, i) == Written(v, i - s, S.mem, DX([v EXCEPT !.mem = S.mem], S.L, i))
DXs == INSTANCE Loops WITH Step <- DX_Bar, Keeps <- WalkKeeps
LEMMA DXTouches ==
  ASSUME NEW v, NEW lookback, CanWalk(v, lookback, 1)
  PROVE  WroteWalk(Run(v, lookback, DX_Begin, DX), v, lookback)
<1> DEFINE s == Larger(v.start, lookback)
           S == [L |-> DX_Begin(v, s), mem |-> v.mem]
<1>1. \A u, L, i : Len(DX(u, L, i).out) = 1
  BY DEF DX, Keeping, Wrote
<1>2. Run(v, lookback, DX_Begin, DX) = IF s > v.end THEN Nothing(v)
      ELSE Done(DXs!Loop(v, s, 0, S, s, v.end).mem, s, v.end - s + 1)
  BY Zenon DEF Run, Repeated, DXs!Loop, DX_Bar
<1>3. S.mem = v.mem
  OBVIOUS
<1> HIDE DEF s, S
<1>4. \A T : \A i \in s .. v.end :
         WalkKeeps(v, s, 0, S, T, i - 1) => WalkKeeps(v, s, 0, S, DX_Bar(v, s, 0, T, i), i)
  BY <1>1, <1>3, BarKeeps DEF DX_Bar, s
<1>5. WalkKeeps(v, s, 0, S, DXs!Loop(v, s, 0, S, s, v.end), IF v.end < s THEN s - 1 ELSE v.end)
  BY <1>4, WalkBegins, SetInduction, DXs!LoopInduction, Zenon DEF s
<1> QED
  BY <1>2, <1>3, <1>5, WalkEnds DEF s

\* ADOSC, bar by bar.
ADOSC_Bar(v, s, z, S, i) == Written(v, i - s, S.mem, ADOSC([v EXCEPT !.mem = S.mem], S.L, i))
ADOSCs == INSTANCE Loops WITH Step <- ADOSC_Bar, Keeps <- WalkKeeps
LEMMA ADOSCTouches ==
  ASSUME NEW v, NEW lookback, CanWalk(v, lookback, 1)
  PROVE  WroteWalk(Run(v, lookback, ADOSC_Begin, ADOSC), v, lookback)
<1> DEFINE s == Larger(v.start, lookback)
           S == [L |-> ADOSC_Begin(v, s), mem |-> v.mem]
<1>1. \A u, L, i : Len(ADOSC(u, L, i).out) = 1
  BY DEF ADOSC, Keeping, Wrote
<1>2. Run(v, lookback, ADOSC_Begin, ADOSC) = IF s > v.end THEN Nothing(v)
      ELSE Done(ADOSCs!Loop(v, s, 0, S, s, v.end).mem, s, v.end - s + 1)
  BY Zenon DEF Run, Repeated, ADOSCs!Loop, ADOSC_Bar
<1>3. S.mem = v.mem
  OBVIOUS
<1> HIDE DEF s, S
<1>4. \A T : \A i \in s .. v.end :
         WalkKeeps(v, s, 0, S, T, i - 1) => WalkKeeps(v, s, 0, S, ADOSC_Bar(v, s, 0, T, i), i)
  BY <1>1, <1>3, BarKeeps DEF ADOSC_Bar, s
<1>5. WalkKeeps(v, s, 0, S, ADOSCs!Loop(v, s, 0, S, s, v.end), IF v.end < s THEN s - 1 ELSE v.end)
  BY <1>4, WalkBegins, SetInduction, ADOSCs!LoopInduction, Zenon DEF s
<1> QED
  BY <1>2, <1>3, <1>5, WalkEnds DEF s

\* SAR, bar by bar.
SAR_Bar(v, s, z, S, i) == Written(v, i - s, S.mem, SAR([v EXCEPT !.mem = S.mem], S.L, i))
SARs == INSTANCE Loops WITH Step <- SAR_Bar, Keeps <- WalkKeeps
LEMMA SARTouches ==
  ASSUME NEW v, NEW lookback, CanWalk(v, lookback, 1)
  PROVE  WroteWalk(Run(v, lookback, SAR_Begin, SAR), v, lookback)
<1> DEFINE s == Larger(v.start, lookback)
           S == [L |-> SAR_Begin(v, s), mem |-> v.mem]
<1>1. \A u, L, i : Len(SAR(u, L, i).out) = 1
  BY DEF SAR, StopThenNext, WroteStop, Wrote
<1>2. Run(v, lookback, SAR_Begin, SAR) = IF s > v.end THEN Nothing(v)
      ELSE Done(SARs!Loop(v, s, 0, S, s, v.end).mem, s, v.end - s + 1)
  BY Zenon DEF Run, Repeated, SARs!Loop, SAR_Bar
<1>3. S.mem = v.mem
  OBVIOUS
<1> HIDE DEF s, S
<1>4. \A T : \A i \in s .. v.end :
         WalkKeeps(v, s, 0, S, T, i - 1) => WalkKeeps(v, s, 0, S, SAR_Bar(v, s, 0, T, i), i)
  BY <1>1, <1>3, BarKeeps DEF SAR_Bar, s
<1>5. WalkKeeps(v, s, 0, S, SARs!Loop(v, s, 0, S, s, v.end), IF v.end < s THEN s - 1 ELSE v.end)
  BY <1>4, WalkBegins, SetInduction, SARs!LoopInduction, Zenon DEF s
<1> QED
  BY <1>2, <1>3, <1>5, WalkEnds DEF s

\* SAREXT, bar by bar.
SAREXT_Bar(v, s, z, S, i) == Written(v, i - s, S.mem, SAREXT([v EXCEPT !.mem = S.mem], S.L, i))
SAREXTs == INSTANCE Loops WITH Step <- SAREXT_Bar, Keeps <- WalkKeeps
LEMMA SAREXTTouches ==
  ASSUME NEW v, NEW lookback, CanWalk(v, lookback, 1)
  PROVE  WroteWalk(Run(v, lookback, SAREXT_Begin, SAREXT), v, lookback)
<1> DEFINE s == Larger(v.start, lookback)
           S == [L |-> SAREXT_Begin(v, s), mem |-> v.mem]
<1>1. \A u, L, i : Len(SAREXT(u, L, i).out) = 1
  BY DEF SAREXT, StopThenNext, WroteStop, Wrote
<1>2. Run(v, lookback, SAREXT_Begin, SAREXT) = IF s > v.end THEN Nothing(v)
      ELSE Done(SAREXTs!Loop(v, s, 0, S, s, v.end).mem, s, v.end - s + 1)
  BY Zenon DEF Run, Repeated, SAREXTs!Loop, SAREXT_Bar
<1>3. S.mem = v.mem
  OBVIOUS
<1> HIDE DEF s, S
<1>4. \A T : \A i \in s .. v.end :
         WalkKeeps(v, s, 0, S, T, i - 1) => WalkKeeps(v, s, 0, S, SAREXT_Bar(v, s, 0, T, i), i)
  BY <1>1, <1>3, BarKeeps DEF SAREXT_Bar, s
<1>5. WalkKeeps(v, s, 0, S, SAREXTs!Loop(v, s, 0, S, s, v.end), IF v.end < s THEN s - 1 ELSE v.end)
  BY <1>4, WalkBegins, SetInduction, SAREXTs!LoopInduction, Zenon DEF s
<1> QED
  BY <1>2, <1>3, <1>5, WalkEnds DEF s

(* Cycles. *)

\* HT_PHASOR, bar by bar.
HT_PHASOR_Step(u, L, i) == Shown(Cycles_Next(u, L, i), LAMBDA M : <<M.cycle.I1, M.cycle.Q1>>)
HT_PHASOR_Bar(v, s, z, S, i) ==
    Written(v, i - s, S.mem, HT_PHASOR_Step([v EXCEPT !.mem = S.mem], S.L, i))
HT_PHASORs == INSTANCE Loops WITH Step <- HT_PHASOR_Bar, Keeps <- WalkKeeps
LEMMA HT_PHASORTouches ==
  ASSUME NEW v, CanWalk(v, Lookback32(v), 2)
  PROVE  WroteWalk(TA_HT_PHASOR(v), v, Lookback32(v))
<1> DEFINE s == Larger(v.start, Lookback32(v))
           S == [L |-> CyclesBegin(v, s, Lookback32(v), 9, Cycles_Next, <<>>),
                 mem |-> v.mem]
<1>1. \A u, L, i : Len(HT_PHASOR_Step(u, L, i).out) = 2
  BY DEF HT_PHASOR_Step, Shown
<1>2. TA_HT_PHASOR(v) = IF s > v.end THEN Nothing(v)
      ELSE Done(HT_PHASORs!Loop(v, s, 0, S, s, v.end).mem, s, v.end - s + 1)
  BY Zenon DEF Run, Repeated, HT_PHASORs!Loop, HT_PHASOR_Bar, TA_HT_PHASOR,
               RunCycles, HT_PHASOR_Step
<1>3. S.mem = v.mem
  OBVIOUS
<1> HIDE DEF s, S
<1>4. \A T : \A i \in s .. v.end :
         WalkKeeps(v, s, 0, S, T, i - 1) => WalkKeeps(v, s, 0, S, HT_PHASOR_Bar(v, s, 0, T, i), i)
  BY <1>1, <1>3, BarKeeps DEF HT_PHASOR_Bar, s
<1>5. WalkKeeps(v, s, 0, S, HT_PHASORs!Loop(v, s, 0, S, s, v.end),
                IF v.end < s THEN s - 1 ELSE v.end)
  BY <1>4, WalkBegins, SetInduction, HT_PHASORs!LoopInduction, Zenon DEF s
<1> QED
  BY <1>2, <1>3, <1>5, WalkEnds DEF s

\* HT_DCPERIOD, bar by bar.
HT_DCPERIOD_Step(u, L, i) == Shown(HT_DCPERIOD(u, L, i), LAMBDA M : <<M.smoothPeriod>>)
HT_DCPERIOD_Bar(v, s, z, S, i) ==
    Written(v, i - s, S.mem, HT_DCPERIOD_Step([v EXCEPT !.mem = S.mem], S.L, i))
HT_DCPERIODs == INSTANCE Loops WITH Step <- HT_DCPERIOD_Bar, Keeps <- WalkKeeps
LEMMA HT_DCPERIODTouches ==
  ASSUME NEW v, CanWalk(v, Lookback32(v), 1)
  PROVE  WroteWalk(TA_HT_DCPERIOD(v), v, Lookback32(v))
<1> DEFINE s == Larger(v.start, Lookback32(v))
           S == [L |-> CyclesBegin(v, s, Lookback32(v), 9, HT_DCPERIOD, [smoothPeriod |-> 0]),
                 mem |-> v.mem]
<1>1. \A u, L, i : Len(HT_DCPERIOD_Step(u, L, i).out) = 1
  BY DEF HT_DCPERIOD_Step, Shown
<1>2. TA_HT_DCPERIOD(v) = IF s > v.end THEN Nothing(v)
      ELSE Done(HT_DCPERIODs!Loop(v, s, 0, S, s, v.end).mem, s, v.end - s + 1)
  BY Zenon DEF Run, Repeated, HT_DCPERIODs!Loop, HT_DCPERIOD_Bar, TA_HT_DCPERIOD,
               RunCycles, HT_DCPERIOD_Step
<1>3. S.mem = v.mem
  OBVIOUS
<1> HIDE DEF s, S
<1>4. \A T : \A i \in s .. v.end :
         WalkKeeps(v, s, 0, S, T, i - 1) => WalkKeeps(v, s, 0, S, HT_DCPERIOD_Bar(v, s, 0, T, i), i)
  BY <1>1, <1>3, BarKeeps DEF HT_DCPERIOD_Bar, s
<1>5. WalkKeeps(v, s, 0, S, HT_DCPERIODs!Loop(v, s, 0, S, s, v.end),
                IF v.end < s THEN s - 1 ELSE v.end)
  BY <1>4, WalkBegins, SetInduction, HT_DCPERIODs!LoopInduction, Zenon DEF s
<1> QED
  BY <1>2, <1>3, <1>5, WalkEnds DEF s

\* HT_DCPHASE, bar by bar.
HT_DCPHASE_Step(u, L, i) == Shown(HT_DCPHASE(u, L, i), LAMBDA M : <<M.DCPhase>>)
HT_DCPHASE_Bar(v, s, z, S, i) ==
    Written(v, i - s, S.mem, HT_DCPHASE_Step([v EXCEPT !.mem = S.mem], S.L, i))
HT_DCPHASEs == INSTANCE Loops WITH Step <- HT_DCPHASE_Bar, Keeps <- WalkKeeps
LEMMA HT_DCPHASETouches ==
  ASSUME NEW v, CanWalk(v, Lookback63(v), 1)
  PROVE  WroteWalk(TA_HT_DCPHASE(v), v, Lookback63(v))
<1> DEFINE s == Larger(v.start, Lookback63(v))
           S == [L |-> CyclesBegin(v, s, Lookback63(v), 34, HT_DCPHASE, PhaseAtRest),
                 mem |-> v.mem]
<1>1. \A u, L, i : Len(HT_DCPHASE_Step(u, L, i).out) = 1
  BY DEF HT_DCPHASE_Step, Shown
<1>2. TA_HT_DCPHASE(v) = IF s > v.end THEN Nothing(v)
      ELSE Done(HT_DCPHASEs!Loop(v, s, 0, S, s, v.end).mem, s, v.end - s + 1)
  BY Zenon DEF Run, Repeated, HT_DCPHASEs!Loop, HT_DCPHASE_Bar, TA_HT_DCPHASE,
               RunCycles, HT_DCPHASE_Step
<1>3. S.mem = v.mem
  OBVIOUS
<1> HIDE DEF s, S
<1>4. \A T : \A i \in s .. v.end :
         WalkKeeps(v, s, 0, S, T, i - 1) => WalkKeeps(v, s, 0, S, HT_DCPHASE_Bar(v, s, 0, T, i), i)
  BY <1>1, <1>3, BarKeeps DEF HT_DCPHASE_Bar, s
<1>5. WalkKeeps(v, s, 0, S, HT_DCPHASEs!Loop(v, s, 0, S, s, v.end),
                IF v.end < s THEN s - 1 ELSE v.end)
  BY <1>4, WalkBegins, SetInduction, HT_DCPHASEs!LoopInduction, Zenon DEF s
<1> QED
  BY <1>2, <1>3, <1>5, WalkEnds DEF s

\* HT_SINE, bar by bar.
HT_SINE_Step(u, L, i) == Shown(HT_DCPHASE(u, L, i), LAMBDA M : <<Sine(M), LeadSine(M)>>)
HT_SINE_Bar(v, s, z, S, i) ==
    Written(v, i - s, S.mem, HT_SINE_Step([v EXCEPT !.mem = S.mem], S.L, i))
HT_SINEs == INSTANCE Loops WITH Step <- HT_SINE_Bar, Keeps <- WalkKeeps
LEMMA HT_SINETouches ==
  ASSUME NEW v, CanWalk(v, Lookback63(v), 2)
  PROVE  WroteWalk(TA_HT_SINE(v), v, Lookback63(v))
<1> DEFINE s == Larger(v.start, Lookback63(v))
           S == [L |-> CyclesBegin(v, s, Lookback63(v), 34, HT_DCPHASE, PhaseAtRest),
                 mem |-> v.mem]
<1>1. \A u, L, i : Len(HT_SINE_Step(u, L, i).out) = 2
  BY DEF HT_SINE_Step, Shown
<1>2. TA_HT_SINE(v) = IF s > v.end THEN Nothing(v)
      ELSE Done(HT_SINEs!Loop(v, s, 0, S, s, v.end).mem, s, v.end - s + 1)
  BY Zenon DEF Run, Repeated, HT_SINEs!Loop, HT_SINE_Bar, TA_HT_SINE, RunCycles, HT_SINE_Step
<1>3. S.mem = v.mem
  OBVIOUS
<1> HIDE DEF s, S
<1>4. \A T : \A i \in s .. v.end :
         WalkKeeps(v, s, 0, S, T, i - 1) => WalkKeeps(v, s, 0, S, HT_SINE_Bar(v, s, 0, T, i), i)
  BY <1>1, <1>3, BarKeeps DEF HT_SINE_Bar, s
<1>5. WalkKeeps(v, s, 0, S, HT_SINEs!Loop(v, s, 0, S, s, v.end), IF v.end < s THEN s - 1 ELSE v.end)
  BY <1>4, WalkBegins, SetInduction, HT_SINEs!LoopInduction, Zenon DEF s
<1> QED
  BY <1>2, <1>3, <1>5, WalkEnds DEF s

\* HT_TRENDLINE, bar by bar.
HT_TRENDLINE_Step(u, L, i) == Shown(HT_TRENDLINE(u, L, i), LAMBDA M : <<M.trendline>>)
HT_TRENDLINE_Bar(v, s, z, S, i) ==
    Written(v, i - s, S.mem, HT_TRENDLINE_Step([v EXCEPT !.mem = S.mem], S.L, i))
HT_TRENDLINEs == INSTANCE Loops WITH Step <- HT_TRENDLINE_Bar, Keeps <- WalkKeeps
LEMMA HT_TRENDLINETouches ==
  ASSUME NEW v, CanWalk(v, Lookback63(v), 1)
  PROVE  WroteWalk(TA_HT_TRENDLINE(v), v, Lookback63(v))
<1> DEFINE s == Larger(v.start, Lookback63(v))
           S == [L |-> CyclesBegin(v, s, Lookback63(v), 34, HT_TRENDLINE, TrendAtRest),
                 mem |-> v.mem]
<1>1. \A u, L, i : Len(HT_TRENDLINE_Step(u, L, i).out) = 1
  BY DEF HT_TRENDLINE_Step, Shown
<1>2. TA_HT_TRENDLINE(v) = IF s > v.end THEN Nothing(v)
      ELSE Done(HT_TRENDLINEs!Loop(v, s, 0, S, s, v.end).mem, s, v.end - s + 1)
  BY Zenon DEF Run, Repeated, HT_TRENDLINEs!Loop, HT_TRENDLINE_Bar, TA_HT_TRENDLINE,
               RunCycles, HT_TRENDLINE_Step
<1>3. S.mem = v.mem
  OBVIOUS
<1> HIDE DEF s, S
<1>4. \A T : \A i \in s .. v.end :
         WalkKeeps(v, s, 0, S, T, i - 1)
         => WalkKeeps(v, s, 0, S, HT_TRENDLINE_Bar(v, s, 0, T, i), i)
  BY <1>1, <1>3, BarKeeps DEF HT_TRENDLINE_Bar, s
<1>5. WalkKeeps(v, s, 0, S, HT_TRENDLINEs!Loop(v, s, 0, S, s, v.end),
                IF v.end < s THEN s - 1 ELSE v.end)
  BY <1>4, WalkBegins, SetInduction, HT_TRENDLINEs!LoopInduction, Zenon DEF s
<1> QED
  BY <1>2, <1>3, <1>5, WalkEnds DEF s

\* HT_TRENDMODE, bar by bar.
HT_TRENDMODE_Step(u, L, i) == Shown(HT_TRENDMODE(u, L, i), LAMBDA M : <<M.trend>>)
HT_TRENDMODE_Bar(v, s, z, S, i) ==
    Written(v, i - s, S.mem, HT_TRENDMODE_Step([v EXCEPT !.mem = S.mem], S.L, i))
HT_TRENDMODEs == INSTANCE Loops WITH Step <- HT_TRENDMODE_Bar, Keeps <- WalkKeeps
LEMMA HT_TRENDMODETouches ==
  ASSUME NEW v, CanWalk(v, Lookback63(v), 1)
  PROVE  WroteWalk(TA_HT_TRENDMODE(v), v, Lookback63(v))
<1> DEFINE s == Larger(v.start, Lookback63(v))
           S == [L |-> CyclesBegin(v, s, Lookback63(v), 34, HT_TRENDMODE, ModeAtRest),
                 mem |-> v.mem]
<1>1. \A u, L, i : Len(HT_TRENDMODE_Step(u, L, i).out) = 1
  BY DEF HT_TRENDMODE_Step, Shown
<1>2. TA_HT_TRENDMODE(v) = IF s > v.end THEN Nothing(v)
      ELSE Done(HT_TRENDMODEs!Loop(v, s, 0, S, s, v.end).mem, s, v.end - s + 1)
  BY Zenon DEF Run, Repeated, HT_TRENDMODEs!Loop, HT_TRENDMODE_Bar, TA_HT_TRENDMODE,
               RunCycles, HT_TRENDMODE_Step
<1>3. S.mem = v.mem
  OBVIOUS
<1> HIDE DEF s, S
<1>4. \A T : \A i \in s .. v.end :
         WalkKeeps(v, s, 0, S, T, i - 1)
         => WalkKeeps(v, s, 0, S, HT_TRENDMODE_Bar(v, s, 0, T, i), i)
  BY <1>1, <1>3, BarKeeps DEF HT_TRENDMODE_Bar, s
<1>5. WalkKeeps(v, s, 0, S, HT_TRENDMODEs!Loop(v, s, 0, S, s, v.end),
                IF v.end < s THEN s - 1 ELSE v.end)
  BY <1>4, WalkBegins, SetInduction, HT_TRENDMODEs!LoopInduction, Zenon DEF s
<1> QED
  BY <1>2, <1>3, <1>5, WalkEnds DEF s

(* One of the C library's functions, by its name. *)

\* The function, bar by bar.
Elementwise_Bar(v, s, name, S, i) ==
    Written(v, i - s, S.mem, Wrote(S.L, MathFunction(name, Real([v EXCEPT !.mem = S.mem], i))))
Elementwises == INSTANCE Loops WITH Step <- Elementwise_Bar, Keeps <- WalkKeeps
LEMMA ElementwiseTouches ==
  ASSUME NEW v, NEW name, CanWalk(v, 0, 1)
  PROVE  WroteWalk(Elementwise(name, v), v, 0)
<1> DEFINE s == Larger(v.start, 0)
           S == [L |-> NoLocals(v, s), mem |-> v.mem]
<1>1. \A L, value : Len(Wrote(L, value).out) = 1
  BY DEF Wrote
<1>2. Elementwise(name, v) = IF s > v.end THEN Nothing(v)
      ELSE Done(Elementwises!Loop(v, s, name, S, s, v.end).mem, s, v.end - s + 1)
  BY Zenon DEF Elementwise, Run, Repeated, Elementwises!Loop, Elementwise_Bar
<1>3. S.mem = v.mem
  OBVIOUS
<1> HIDE DEF s, S
<1>4. \A T : \A i \in s .. v.end :
         WalkKeeps(v, s, name, S, T, i - 1)
           => WalkKeeps(v, s, name, S, Elementwise_Bar(v, s, name, T, i), i)
  BY <1>1, <1>3, BarKeeps DEF Elementwise_Bar, WalkKeeps, s
<1>5. WalkKeeps(v, s, name, S, Elementwises!Loop(v, s, name, S, s, v.end),
                IF v.end < s THEN s - 1 ELSE v.end)
  <2>1. s \in Int /\ v.end \in Int /\ WalkKeeps(v, s, name, S, S, s - 1)
    BY WalkBegins DEF WalkKeeps, s
  <2> QED
    BY <1>4, <2>1, SetInduction, Elementwises!LoopInduction, Zenon
<1> QED
  BY <1>2, <1>3, <1>5, WalkEnds DEF WalkKeeps, s

-----------------------------------------------------------------------------
(* Every function. *)

\* A function whose calls are walks, with so many outputs.
Walker(r, v, lookback, outs) == CanWalk(v, lookback, outs) => WroteWalk(r, v, lookback)

\* The changes and prices.
LEMMA ChangesTouch ==
  ASSUME NEW v
  PROVE  /\ Walker(TA_MOM(v), v, v.period, 1)
         /\ Walker(TA_ROC(v), v, v.period, 1)
         /\ Walker(TA_ROCP(v), v, v.period, 1)
         /\ Walker(TA_ROCR(v), v, v.period, 1)
         /\ Walker(TA_ROCR100(v), v, v.period, 1)
         /\ Walker(TA_ADD(v), v, 0, 1)
         /\ Walker(TA_SUB(v), v, 0, 1)
         /\ Walker(TA_MULT(v), v, 0, 1)
         /\ Walker(TA_DIV(v), v, 0, 1)
         /\ Walker(TA_MEDPRICE(v), v, 0, 1)
         /\ Walker(TA_TYPPRICE(v), v, 0, 1)
         /\ Walker(TA_WCLPRICE(v), v, 0, 1)
         /\ Walker(TA_AVGPRICE(v), v, 0, 1)
         /\ Walker(TA_BOP(v), v, 0, 1)
         /\ Walker(TA_OBV(v), v, 0, 1)
         /\ Walker(TA_AD(v), v, 0, 1)
         /\ Walker(TA_TRANGE(v), v, 1, 1)
<1>1. /\ Walker(TA_MOM(v), v, v.period, 1)
      /\ Walker(TA_ROC(v), v, v.period, 1)
      /\ Walker(TA_ROCP(v), v, v.period, 1)
      /\ Walker(TA_ROCR(v), v, v.period, 1)
      /\ Walker(TA_ROCR100(v), v, v.period, 1)
      /\ Walker(TA_ADD(v), v, 0, 1)
  BY MOMTouches, ROCTouches, ROCPTouches, ROCRTouches, ROCR100Touches, ADDTouches
     DEF Walker, TA_MOM, TA_ROC, TA_ROCP, TA_ROCR, TA_ROCR100, TA_ADD
<1>2. /\ Walker(TA_SUB(v), v, 0, 1)
      /\ Walker(TA_MULT(v), v, 0, 1)
      /\ Walker(TA_DIV(v), v, 0, 1)
      /\ Walker(TA_MEDPRICE(v), v, 0, 1)
      /\ Walker(TA_TYPPRICE(v), v, 0, 1)
      /\ Walker(TA_WCLPRICE(v), v, 0, 1)
  BY SUBTouches, MULTTouches, DIVTouches, MEDPRICETouches, TYPPRICETouches, WCLPRICETouches
     DEF Walker, TA_SUB, TA_MULT, TA_DIV, TA_MEDPRICE, TA_TYPPRICE, TA_WCLPRICE
<1>3. /\ Walker(TA_AVGPRICE(v), v, 0, 1)
      /\ Walker(TA_BOP(v), v, 0, 1)
      /\ Walker(TA_OBV(v), v, 0, 1)
      /\ Walker(TA_AD(v), v, 0, 1)
      /\ Walker(TA_TRANGE(v), v, 1, 1)
  BY AVGPRICETouches, BOPTouches, OBVTouches, ADTouches, TRANGETouches
     DEF Walker, TA_AVGPRICE, TA_BOP, TA_OBV, TA_AD, TA_TRANGE
<1> QED
  BY <1>1, <1>2, <1>3

\* The extremes.
LEMMA ExtremesTouch ==
  ASSUME NEW v
  PROVE  /\ Walker(TA_MAX(v), v, PeriodLessOne(v), 1)
         /\ Walker(TA_MAXINDEX(v), v, PeriodLessOne(v), 1)
         /\ Walker(TA_MIN(v), v, PeriodLessOne(v), 1)
         /\ Walker(TA_MININDEX(v), v, PeriodLessOne(v), 1)
         /\ Walker(TA_MIDPOINT(v), v, PeriodLessOne(v), 1)
         /\ Walker(TA_MIDPRICE(v), v, PeriodLessOne(v), 1)
         /\ Walker(TA_WILLR(v), v, PeriodLessOne(v), 1)
         /\ Walker(TA_AROONOSC(v), v, v.period, 1)
<1>1. /\ Walker(TA_MAX(v), v, PeriodLessOne(v), 1)
      /\ Walker(TA_MAXINDEX(v), v, PeriodLessOne(v), 1)
      /\ Walker(TA_MIN(v), v, PeriodLessOne(v), 1)
      /\ Walker(TA_MININDEX(v), v, PeriodLessOne(v), 1)
      /\ Walker(TA_MIDPOINT(v), v, PeriodLessOne(v), 1)
      /\ Walker(TA_MIDPRICE(v), v, PeriodLessOne(v), 1)
  BY MAXTouches, MAXINDEXTouches, MINTouches, MININDEXTouches, MIDPOINTTouches, MIDPRICETouches
     DEF Walker, TA_MAX, TA_MAXINDEX, TA_MIN, TA_MININDEX, TA_MIDPOINT, TA_MIDPRICE
<1>2. /\ Walker(TA_WILLR(v), v, PeriodLessOne(v), 1)
      /\ Walker(TA_AROONOSC(v), v, v.period, 1)
  BY WILLRTouches, AROONOSCTouches
     DEF Walker, TA_WILLR, TA_AROONOSC
<1> QED
  BY <1>1, <1>2

\* The sums.
LEMMA SumsTouch ==
  ASSUME NEW v
  PROVE  /\ Walker(TA_SUM(v), v, PeriodLessOne(v), 1)
         /\ Walker(TA_CORREL(v), v, PeriodLessOne(v), 1)
         /\ Walker(TA_LINEARREG(v), v, PeriodLessOne(v), 1)
         /\ Walker(TA_LINEARREG_SLOPE(v), v, PeriodLessOne(v), 1)
         /\ Walker(TA_LINEARREG_ANGLE(v), v, PeriodLessOne(v), 1)
         /\ Walker(TA_LINEARREG_INTERCEPT(v), v, PeriodLessOne(v), 1)
         /\ Walker(TA_TSF(v), v, PeriodLessOne(v), 1)
         /\ Walker(TA_CCI(v), v, PeriodLessOne(v), 1)
         /\ Walker(TA_BETA(v), v, v.period, 1)
         /\ Walker(TA_MFI(v), v, v.period + v.unstable, 1)
         /\ Walker(TA_ULTOSC(v), v, LongestOf3(v), 1)
<1>1. /\ Walker(TA_SUM(v), v, PeriodLessOne(v), 1)
      /\ Walker(TA_CORREL(v), v, PeriodLessOne(v), 1)
      /\ Walker(TA_LINEARREG(v), v, PeriodLessOne(v), 1)
      /\ Walker(TA_LINEARREG_SLOPE(v), v, PeriodLessOne(v), 1)
      /\ Walker(TA_LINEARREG_ANGLE(v), v, PeriodLessOne(v), 1)
      /\ Walker(TA_LINEARREG_INTERCEPT(v), v, PeriodLessOne(v), 1)
  BY SUMTouches, CORRELTouches, LINEARREGTouches, LINEARREG_SLOPETouches, LINEARREG_ANGLETouches,
     LINEARREG_INTERCEPTTouches
     DEF Walker, TA_SUM, TA_CORREL, TA_LINEARREG, TA_LINEARREG_SLOPE, TA_LINEARREG_ANGLE,
         TA_LINEARREG_INTERCEPT
<1>2. /\ Walker(TA_TSF(v), v, PeriodLessOne(v), 1)
      /\ Walker(TA_CCI(v), v, PeriodLessOne(v), 1)
      /\ Walker(TA_BETA(v), v, v.period, 1)
      /\ Walker(TA_MFI(v), v, v.period + v.unstable, 1)
      /\ Walker(TA_ULTOSC(v), v, LongestOf3(v), 1)
  BY TSFTouches, CCITouches, BETATouches, MFITouches, ULTOSCTouches
     DEF Walker, TA_TSF, TA_CCI, TA_BETA, TA_MFI, TA_ULTOSC
<1> QED
  BY <1>1, <1>2

\* The averages and trends.
LEMMA AveragesTouch ==
  ASSUME NEW v
  PROVE  /\ Walker(TA_RSI(v), v, RSI_Lookback(v), 1)
         /\ Walker(TA_CMO(v), v, RSI_Lookback(v), 1)
         /\ Walker(TA_DX(v), v, DI_Lookback(v), 1)
         /\ Walker(TA_ADX(v), v, ADX_Lookback(v), 1)
         /\ Walker(TA_ADOSC(v), v, ADOSC_Lookback(v), 1)
         /\ Walker(TA_SAR(v), v, 1, 1)
         /\ Walker(TA_SAREXT(v), v, 1, 1)
<1>1. /\ Walker(TA_RSI(v), v, RSI_Lookback(v), 1)
      /\ Walker(TA_CMO(v), v, RSI_Lookback(v), 1)
      /\ Walker(TA_DX(v), v, DI_Lookback(v), 1)
      /\ Walker(TA_ADX(v), v, ADX_Lookback(v), 1)
      /\ Walker(TA_ADOSC(v), v, ADOSC_Lookback(v), 1)
      /\ Walker(TA_SAR(v), v, 1, 1)
  BY RSITouches, CMOTouches, DXTouches, ADXTouches, ADOSCTouches, SARTouches
     DEF Walker, TA_RSI, TA_CMO, TA_DX, TA_ADX, TA_ADOSC, TA_SAR
<1>2. /\ Walker(TA_SAREXT(v), v, 1, 1)
  BY SAREXTTouches
     DEF Walker, TA_SAREXT
<1> QED
  BY <1>1, <1>2

\* The cycles.
LEMMA CyclesTouch ==
  ASSUME NEW v
  PROVE  /\ Walker(TA_HT_DCPERIOD(v), v, Lookback32(v), 1)
         /\ Walker(TA_HT_DCPHASE(v), v, Lookback63(v), 1)
         /\ Walker(TA_HT_TRENDLINE(v), v, Lookback63(v), 1)
         /\ Walker(TA_HT_TRENDMODE(v), v, Lookback63(v), 1)
<1>1. /\ Walker(TA_HT_DCPERIOD(v), v, Lookback32(v), 1)
      /\ Walker(TA_HT_DCPHASE(v), v, Lookback63(v), 1)
      /\ Walker(TA_HT_TRENDLINE(v), v, Lookback63(v), 1)
      /\ Walker(TA_HT_TRENDMODE(v), v, Lookback63(v), 1)
  BY HT_DCPERIODTouches, HT_DCPHASETouches, HT_TRENDLINETouches, HT_TRENDMODETouches
     DEF Walker
<1> QED
  BY <1>1

\* The functions of two outputs.
LEMMA TwoOutputsTouch ==
  ASSUME NEW v
  PROVE  /\ Walker(TA_MINMAX(v), v, PeriodLessOne(v), 2)
         /\ Walker(TA_MINMAXINDEX(v), v, PeriodLessOne(v), 2)
         /\ Walker(TA_AROON(v), v, v.period, 2)
         /\ Walker(TA_HT_PHASOR(v), v, Lookback32(v), 2)
         /\ Walker(TA_MAMA(v), v, Lookback32(v), 2)
         /\ Walker(TA_HT_SINE(v), v, Lookback63(v), 2)
<1>1. /\ Walker(TA_MINMAX(v), v, PeriodLessOne(v), 2)
      /\ Walker(TA_MINMAXINDEX(v), v, PeriodLessOne(v), 2)
      /\ Walker(TA_AROON(v), v, v.period, 2)
      /\ Walker(TA_HT_PHASOR(v), v, Lookback32(v), 2)
      /\ Walker(TA_MAMA(v), v, Lookback32(v), 2)
      /\ Walker(TA_HT_SINE(v), v, Lookback63(v), 2)
  BY MINMAXTouches, MINMAXINDEXTouches, AROONTouches, HT_PHASORTouches, MAMATouches, HT_SINETouches
     DEF Walker, TA_MINMAX, TA_MINMAXINDEX, TA_AROON
<1> QED
  BY <1>1

\* The directional movements, with a loop of their own for a period of 1.
LEMMA DirectionsTouch ==
  ASSUME NEW v
  PROVE  /\ Walker(TA_PLUS_DM(v), v, DM_Lookback(v), 1)
         /\ Walker(TA_MINUS_DM(v), v, DM_Lookback(v), 1)
         /\ Walker(TA_PLUS_DI(v), v, DI_Lookback(v), 1)
         /\ Walker(TA_MINUS_DI(v), v, DI_Lookback(v), 1)
<1>1. Walker(TA_PLUS_DM(v), v, DM_Lookback(v), 1)
  BY PLUS_DMTouches, PLUS_DM1Touches DEF Walker, TA_PLUS_DM
<1>2. Walker(TA_MINUS_DM(v), v, DM_Lookback(v), 1)
  BY MINUS_DMTouches, MINUS_DM1Touches DEF Walker, TA_MINUS_DM
<1>3. Walker(TA_PLUS_DI(v), v, DI_Lookback(v), 1)
  BY PLUS_DITouches, PLUS_DI1Touches DEF Walker, TA_PLUS_DI
<1>4. Walker(TA_MINUS_DI(v), v, DI_Lookback(v), 1)
  BY MINUS_DITouches, MINUS_DI1Touches DEF Walker, TA_MINUS_DI
<1> QED
  BY <1>1, <1>2, <1>3, <1>4

\* The functions of the C library.
LEMMA MathTouch ==
  ASSUME NEW v
  PROVE  /\ Walker(TA_ACOS(v), v, 0, 1) /\ Walker(TA_ASIN(v), v, 0, 1)
         /\ Walker(TA_ATAN(v), v, 0, 1) /\ Walker(TA_CEIL(v), v, 0, 1)
         /\ Walker(TA_COS(v), v, 0, 1) /\ Walker(TA_COSH(v), v, 0, 1)
         /\ Walker(TA_EXP(v), v, 0, 1) /\ Walker(TA_FLOOR(v), v, 0, 1)
         /\ Walker(TA_LN(v), v, 0, 1) /\ Walker(TA_LOG10(v), v, 0, 1)
         /\ Walker(TA_SIN(v), v, 0, 1) /\ Walker(TA_SINH(v), v, 0, 1)
         /\ Walker(TA_SQRT(v), v, 0, 1) /\ Walker(TA_TAN(v), v, 0, 1)
         /\ Walker(TA_TANH(v), v, 0, 1)
<1>1. \A name : Walker(Elementwise(name, v), v, 0, 1)
  BY ElementwiseTouches DEF Walker
<1> QED
  BY <1>1 DEF TA_ACOS, TA_ASIN, TA_ATAN, TA_CEIL, TA_COS, TA_COSH, TA_EXP, TA_FLOOR, TA_LN, TA_LOG10,
              TA_SIN, TA_SINH, TA_SQRT, TA_TAN, TA_TANH

\* ATR and NATR, whose first bar is moved up to the lookback where nothing is smoothed.
LEMMA RangesSmoothedTouch ==
  ASSUME NEW v, IsCall(v), v.period >= 1
  PROVE  /\ Walker(TA_ATR(v), v, ATR_Lookback(v), 1)
         /\ Walker(TA_NATR(v), v, ATR_Lookback(v), 1)
<1> DEFINE u == [v EXCEPT !.start = Larger(@, ATR_Lookback(v))]
<1>1. /\ u.start = Larger(v.start, ATR_Lookback(v)) /\ u.end = v.end /\ u.mem = v.mem /\ u.to = v.to
      /\ ATR_Lookback(v) \in Int /\ ATR_Lookback(v) >= 1 /\ v.start \in Int /\ v.end \in Int
      /\ v.period \in Nat
  BY DEF IsCall, Fields, ATR_Lookback
<1>2. NotSmoothed(v) = TA_TRANGE(u)
  BY DEF NotSmoothed
<1> HIDE DEF u
<1>3. Outs(u) = Outs(v) /\ Count(u, 1) = Count(v, ATR_Lookback(v))
  BY <1>1 DEF Outs, Count, Larger
<1>4. ASSUME CanWalk(v, ATR_Lookback(v), 1) PROVE WroteWalk(NotSmoothed(v), v, ATR_Lookback(v))
  <2>1. CanWalk(u, 1, 1)
    BY <1>1, <1>3, <1>4 DEF CanWalk, Larger
  <2>2. WroteWalk(TA_TRANGE(u), u, 1)
    BY <2>1, TRANGETouches DEF TA_TRANGE
  <2> QED
    BY <2>2, <1>1, <1>2, <1>3 DEF WroteWalk
<1> QED
  BY <1>4, ATRTouches, NATRTouches DEF Walker, TA_ATR, TA_NATR

\* How many outputs a function has.
LEMMA OutputsAre ==
  /\ \A fn \in {"BBANDS", "MACD", "MACDEXT", "MACDFIX"} : OutputsOf(fn) = 3
  /\ \A fn \in {"MINMAX", "MINMAXINDEX", "AROON", "STOCHF", "STOCH", "STOCHRSI", "HT_PHASOR",
                "HT_SINE", "MAMA"} : OutputsOf(fn) = 2
  /\ \A fn \in Functions \ {"BBANDS", "MACD", "MACDEXT", "MACDFIX", "MINMAX", "MINMAXINDEX", "AROON",
                            "STOCHF", "STOCH", "STOCHRSI", "HT_PHASOR", "HT_SINE", "MAMA"} :
        OutputsOf(fn) = 1
BY DEF OutputsOf

\* The lookback of every function is a number of bars.
LEMMA LookbackIsInt ==
  ASSUME NEW v, IsCall(v), v.period >= 1, v.period2 >= 1, v.period3 >= 1,
         v.maType \in MATypes, v.maType2 \in MATypes, v.maType3 \in MATypes, NEW fn \in Functions
  PROVE  Lookback(fn, v) \in Int
<1>1. v.period \in Nat /\ v.period2 \in Nat /\ v.period3 \in Nat /\ v.unstable \in Nat
  BY DEF IsCall
<1>2. PeriodLessOne(v) \in Int
  BY <1>1 DEF PeriodLessOne
<1>3. /\ RSI_Lookback(v) \in Int /\ ATR_Lookback(v) \in Int /\ ADX_Lookback(v) \in Int
      /\ DM_Lookback(v) \in Int /\ DI_Lookback(v) \in Int /\ KAMA_Lookback(v) \in Int
      /\ T3_Lookback(v) \in Int /\ Lookback32(v) \in Int /\ Lookback63(v) \in Int
      /\ v.period + v.unstable \in Int
  BY <1>1 DEF RSI_Lookback, ATR_Lookback, ADX_Lookback, DM_Lookback, DI_Lookback, KAMA_Lookback,
              T3_Lookback, Lookback32, Lookback63
<1>4. ADXR_Lookback(v) \in Int
  BY <1>2, <1>3 DEF ADXR_Lookback
<1>5. LongestOf3(v) \in Int
  <2> DEFINE S == {v.period, v.period2, v.period3}
  <2>1. \E x \in S : \A y \in S : x >= y
    BY <1>1
  <2>2. Max(S) \in S
    BY <2>1 DEF Max
  <2> QED
    BY <1>1, <2>2 DEF LongestOf3
<1>6. EMA_Lookback(v) \in Nat
  BY EMA_LookbackIsNat
<1>7. DEMA_Lookback(v) \in Int /\ TEMA_Lookback(v) \in Int /\ TRIX_Lookback(v) \in Int
  BY <1>6 DEF DEMA_Lookback, TEMA_Lookback, TRIX_Lookback
<1>8. \A period \in Nat : EMA_LookbackOf(v, period) \in Int
  BY <1>1, EMA_LookbackOfIs
<1>9. ADOSC_Lookback(v) \in Int
  <2>1. Larger(v.period, v.period2) \in Nat
    BY <1>1 DEF Larger
  <2> QED
    BY <1>8, <2>1 DEF ADOSC_Lookback, EMA_LookbackOf
<1>10. MACD_Lookback(v) \in Int /\ MACDFIX_Lookback(v) \in Int
  <2>1. Larger(v.period, v.period2) \in Nat /\ 26 \in Nat
    BY <1>1 DEF Larger
  <2>2. /\ EMA_LookbackOf(v, Larger(v.period, v.period2)) \in Int
        /\ EMA_LookbackOf(v, 26) \in Int /\ EMA_LookbackOf(v, v.period3) \in Int
    BY <1>1, <1>8, <2>1
  <2> QED
    BY <2>2 DEF MACD_Lookback, MACDFIX_Lookback
<1>11. /\ MA_Lookback(v) \in Nat
       /\ \A period \in Nat, maType \in MATypes :
             period >= 1 => MA_LookbackOf(v, period, maType) \in Nat
  BY MA_LookbackIsNat, MA_LookbackOfIsNat
<1>12. /\ MA_LookbackOf(v, v.period, v.maType) \in Nat
       /\ MA_LookbackOf(v, v.period2, v.maType) \in Nat
       /\ MA_LookbackOf(v, v.period2, v.maType2) \in Nat
       /\ MA_LookbackOf(v, v.period3, v.maType3) \in Nat
       /\ MA_LookbackOf(v, v.period3, v.maType2) \in Nat
       /\ MA_LookbackOf(v, Larger(v.period, v.period2), v.maType) \in Nat
  <2>1. Larger(v.period, v.period2) \in Nat /\ Larger(v.period, v.period2) >= 1
    BY <1>1 DEF Larger
  <2> QED
    BY <1>1, <1>11, <2>1
<1>13. MACDEXT_Lookback(v) \in Int /\ PO_Lookback(v) \in Int
  BY <1>12 DEF MACDEXT_Lookback, PO_Lookback, Larger
<1>14. STOCHF_Lookback(v) \in Int /\ STOCH_Lookback(v) \in Int
  BY <1>2, <1>12 DEF STOCHF_Lookback, STOCH_Lookback
<1>15. STOCHRSI_Lookback(v) \in Int
  <2> DEFINE other == [v EXCEPT !.period = v.period2, !.period2 = v.period3]
  <2>1. IsCall(other) /\ other.period >= 1 /\ other.period2 >= 1 /\ other.maType \in MATypes
    BY <1>1 DEF IsCall, Fields
  <2> HIDE DEF other
  <2>2. STOCHF_Lookback(other) \in Nat
    BY <2>1, STOCHFSpans
  <2>3. STOCHRSI_Lookback(v) = RSI_Lookback(v) + STOCHF_Lookback(other)
    BY DEF STOCHRSI_Lookback, other
  <2> QED
    BY <1>3, <2>2, <2>3
<1> DEFINE Goal == Lookback(fn, v) \in Int
<1>16. fn \in {"ACOS", "ASIN", "ATAN", "CEIL", "COS", "COSH", "EXP", "FLOOR", "LN", "LOG10", "SIN",
               "SINH", "SQRT", "TAN", "TANH", "ADD", "SUB", "MULT", "DIV", "MEDPRICE", "TYPPRICE",
               "WCLPRICE", "AVGPRICE", "BOP", "OBV", "AD", "TRANGE", "SAR", "SAREXT"} => Goal
  BY LookbackIs
<1>17. fn \in {"MAX", "MAXINDEX", "MIN", "MININDEX", "MINMAX", "MINMAXINDEX", "MIDPOINT",
               "MIDPRICE", "WILLR", "SUM", "SMA", "WMA", "TRIMA", "VAR", "STDDEV", "CORREL",
               "LINEARREG", "LINEARREG_SLOPE", "LINEARREG_ANGLE", "LINEARREG_INTERCEPT", "TSF",
               "CCI"} => Goal
  BY <1>2, LookbackIs
<1>18. fn \in {"AROON", "AROONOSC", "BETA", "MOM", "ROC", "ROCP", "ROCR", "ROCR100", "MFI",
               "ULTOSC"} => Goal
  BY <1>1, <1>3, <1>5, LookbackIs
<1>19. fn \in {"EMA", "RSI", "CMO", "ATR", "NATR", "PLUS_DM", "MINUS_DM", "PLUS_DI", "MINUS_DI",
               "DX", "ADX", "ADXR", "KAMA", "T3", "ADOSC", "DEMA", "TEMA", "TRIX"} => Goal
  BY <1>3, <1>4, <1>6, <1>7, <1>9, LookbackIs
<1>20. fn \in {"HT_DCPERIOD", "HT_DCPHASE", "HT_PHASOR", "HT_SINE", "HT_TRENDLINE",
               "HT_TRENDMODE", "MAMA"} => Goal
  BY <1>3, LookbackIs
<1>21. fn \in {"MA", "BBANDS", "MAVP", "MACD", "MACDFIX", "MACDEXT", "APO", "PPO", "STOCHF",
               "STOCH", "STOCHRSI"} => Goal
  BY <1>10, <1>11, <1>12, <1>13, <1>14, <1>15, LookbackIs
<1> QED
  BY <1>16, <1>17, <1>18, <1>19, <1>20, <1>21
     DEF Functions, MathNames, OfCyclesOnly, ShortCycles, LongCycles

\* A function that uses fewer arrays of its own.
LEMMA FewerTemporaries ==
  ASSUME NEW v, NEW lookback \in Int, NEW outs, CanCall(v, lookback, outs, Temporaries), NEW r,
         CanCall(v, lookback, outs, MATemps) => Fits(r, v, lookback, MATemps)
  PROVE  Fits(r, v, lookback, Temporaries)
<1>1. MATemps \subseteq Temporaries
  BY DEF MATemps, Temporaries
<1>2. CanCall(v, lookback, outs, MATemps)
  BY <1>1 DEF CanCall
<1> DEFINE T == Budget(v, lookback)
<1>3. Touches(T, MATemps, v.mem, r.mem)
  BY <1>2 DEF Fits
<1>4. Covers(T, Temporaries, T, MATemps)
  BY <1>1 DEF Covers
<1> HIDE DEF T
<1> QED
  BY <1>3, <1>4, TouchesLess DEF Fits, T

\* What each function is called with, besides its arrays.
CallsFunction(fn, v) ==
    /\ v.start =< v.end
    /\ v.period >= 1 /\ v.period2 >= 1 /\ v.period3 >= 1
    /\ v.maType \in MATypes /\ v.maType2 \in MATypes /\ v.maType3 \in MATypes
    /\ InputsOf(fn) \subseteq DOMAIN v.from
    /\ Ins(v) \cap Temporaries = {}
    /\ fn = "MAVP" => \A k \in 0 .. v.end : /\ k \in DOMAIN v.mem[v.from["inPeriods"]]
                                            /\ v.mem[v.from["inPeriods"]][k] \in Int

\* Each function keeps to its budget.
LEMMA TAFits ==
  ASSUME NEW v, NEW fn \in Functions, CallsFunction(fn, v),
         CanCall(v, Lookback(fn, v), OutputsOf(fn), Temporaries)
  PROVE  Fits(TA(fn, v), v, Lookback(fn, v), Temporaries)
<1> DEFINE Goal == Fits(TA(fn, v), v, Lookback(fn, v), Temporaries)
           Can(lookback, outs) == CanCall(v, lookback, outs, Temporaries) /\ lookback \in Int
<1>1. /\ IsCall(v) /\ v.start =< v.end /\ v.period >= 1 /\ v.period2 >= 1 /\ v.period3 >= 1
      /\ v.maType \in MATypes /\ v.maType2 \in MATypes /\ v.maType3 \in MATypes
  BY DEF CallsFunction, CanCall
<1>2. CanCall(v, Lookback(fn, v), OutputsOf(fn), Temporaries) /\ Lookback(fn, v) \in Int
  BY DEF CanCall
<1>3. ASSUME NEW lookback, NEW outs, Can(lookback, outs), NEW r, Walker(r, v, lookback, outs)
      PROVE  Fits(r, v, lookback, Temporaries)
  BY <1>3, WalkFits DEF Walker
<1>4. fn \in {"MOM", "ROC", "ROCP", "ROCR", "ROCR100", "ADD", "SUB", "MULT", "DIV", "MEDPRICE",
              "TYPPRICE", "WCLPRICE", "AVGPRICE", "BOP", "OBV", "AD", "TRANGE"} => Goal
  BY <1>2, <1>3, TAIs, LookbackIs, OutputsAre, ChangesTouch
<1>5. fn \in {"ACOS", "ASIN", "ATAN", "CEIL", "COS", "COSH", "EXP", "FLOOR", "LN", "LOG10", "SIN",
              "SINH", "SQRT", "TAN", "TANH"} => Goal
  BY <1>2, <1>3, TAIs, LookbackIs, OutputsAre, MathTouch
<1>6. fn \in {"MAX", "MAXINDEX", "MIN", "MININDEX", "MIDPOINT", "MIDPRICE", "WILLR",
              "AROONOSC"} => Goal
  BY <1>2, <1>3, TAIs, LookbackIs, OutputsAre, ExtremesTouch
<1>7. fn \in {"SUM", "CORREL", "LINEARREG", "LINEARREG_SLOPE", "LINEARREG_ANGLE",
              "LINEARREG_INTERCEPT", "TSF", "CCI", "BETA", "MFI", "ULTOSC"} => Goal
  BY <1>2, <1>3, TAIs, LookbackIs, OutputsAre, SumsTouch
<1>8. fn \in {"RSI", "CMO", "DX", "ADX", "ADOSC", "SAR", "SAREXT"} => Goal
  BY <1>2, <1>3, TAIs, LookbackIs, OutputsAre, AveragesTouch
<1>9. fn \in {"HT_DCPERIOD", "HT_DCPHASE", "HT_TRENDLINE", "HT_TRENDMODE"} => Goal
  BY <1>2, <1>3, TAIs, LookbackIs, OutputsAre, CyclesTouch
<1>10. fn \in {"MINMAX", "MINMAXINDEX", "AROON", "HT_PHASOR", "HT_SINE", "MAMA"} => Goal
  BY <1>2, <1>3, TAIs, LookbackIs, OutputsAre, TwoOutputsTouch
<1>11. fn \in {"PLUS_DM", "MINUS_DM", "PLUS_DI", "MINUS_DI", "ATR", "NATR"} => Goal
  BY <1>1, <1>2, <1>3, TAIs, LookbackIs, OutputsAre, DirectionsTouch, RangesSmoothedTouch
<1>12. fn \in {"SMA", "EMA", "WMA", "TRIMA", "VAR", "KAMA", "T3", "STDDEV"} => Goal
  <2>1. /\ Can(PeriodLessOne(v), 1) => Fits(TA_SMA(v), v, PeriodLessOne(v), Temporaries)
        /\ Can(PeriodLessOne(v), 1) => Fits(TA_TRIMA(v), v, PeriodLessOne(v), Temporaries)
        /\ Can(KAMA_Lookback(v), 1) => Fits(TA_KAMA(v), v, KAMA_Lookback(v), Temporaries)
        /\ Can(EMA_Lookback(v), 1) => Fits(TA_EMA(v), v, EMA_Lookback(v), Temporaries)
    BY <1>1, OfTypesFit
  <2>2. /\ Walker(TA_VAR(v), v, PeriodLessOne(v), 1)
        /\ Walker(TA_T3(v), v, T3_Lookback(v), 1)
    BY VARTouches, T3Touches DEF Walker, TA_VAR, TA_INT_VAR, TA_T3
  <2>3. fn \in {"SMA", "EMA", "TRIMA", "KAMA"} => Goal
    BY <1>2, <2>1, TAIs, LookbackIs, OutputsAre
  <2>4. fn \in {"VAR", "T3"} => Goal
    BY <1>2, <1>3, <2>2, TAIs, LookbackIs, OutputsAre
  <2>5. fn \in {"WMA", "STDDEV"} => Goal
    BY <1>2, WMAFits, STDDEVFits, TAIs, LookbackIs, OutputsAre
  <2> QED
    BY <2>3, <2>4, <2>5
<1>13. fn \in {"DEMA", "TEMA", "MA", "MAVP", "APO", "PPO", "MACDEXT"} =>
         /\ "inReal" \in DOMAIN v.from
         /\ OwnInputs(v)
  BY DEF CallsFunction, InputsOf, OwnInputs, OfHighLow, OfHighLowClose
<1>14. fn \in {"DEMA", "TEMA", "MA"} => Goal
  <2>1. fn \in {"DEMA", "TEMA", "MA"} => "inReal" \in DOMAIN v.from
    BY <1>13
  <2>2. fn = "DEMA" => Goal
    BY <1>1, <1>2, <2>1, FewerTemporaries, DEMAFits, TAIs, LookbackIs, OutputsAre
  <2>3. fn = "TEMA" => Goal
    BY <1>1, <1>2, <2>1, FewerTemporaries, TEMAFits, TAIs, LookbackIs, OutputsAre
  <2>4. fn = "MA" => Goal
    BY <1>1, <1>2, <2>1, FewerTemporaries, MAFits, TAIs, LookbackIs, OutputsAre
  <2> QED
    BY <2>2, <2>3, <2>4
<1>15. fn \in {"MAVP", "APO", "PPO", "MACDEXT"} => OwnInputs(v)
  BY <1>13
<1>16. fn = "MAVP" => Goal
  <2>1. fn = "MAVP" => /\ "inPeriods" \in DOMAIN v.from
                       /\ \A k \in 0 .. v.end : /\ k \in DOMAIN v.mem[v.from["inPeriods"]]
                                                /\ v.mem[v.from["inPeriods"]][k] \in Int
    BY DEF CallsFunction, InputsOf, OfHighLow, OfHighLowClose
  <2> QED
    BY <1>1, <1>2, <1>15, <2>1, MAVPFits, TAIs, LookbackIs, OutputsAre
<1>17. fn \in {"APO", "PPO"} => Goal
  <2>1. Can(PO_Lookback(v), 1) /\ OwnInputs(v) =>
          /\ Fits(TA_APO(v), v, PO_Lookback(v), Temporaries)
          /\ Fits(TA_PPO(v), v, PO_Lookback(v), Temporaries)
    BY <1>1, DifferenceFits DEF TA_APO, TA_PPO
  <2> QED
    BY <1>2, <1>15, <2>1, TAIs, LookbackIs, OutputsAre
<1>18. fn \in {"TRIX", "ADXR"} => Goal
  BY <1>1, <1>2, TRIXFits, ADXRFits, TAIs, LookbackIs, OutputsAre
<1>19. fn \in {"MACD", "MACDFIX", "MACDEXT", "BBANDS"} => Goal
  BY <1>1, <1>2, <1>15, MACDFits, MACDFIXFits, MACDEXTFits, BBANDSFits, TAIs, LookbackIs, OutputsAre
<1>20. fn \in {"STOCHF", "STOCH"} => Prices(v)
  BY DEF CallsFunction, InputsOf, OfHighLow, OfHighLowClose, Prices
<1>21. fn \in {"STOCHF", "STOCH", "STOCHRSI"} => Goal
  BY <1>1, <1>2, <1>20, STOCHFFits, STOCHFits, STOCHRSIFits, TAIs, LookbackIs, OutputsAre
<1> QED
  BY <1>4, <1>5, <1>6, <1>7, <1>8, <1>9, <1>10, <1>11, <1>12, <1>14, <1>16, <1>17, <1>18, <1>19,
     <1>21
     DEF Functions, MathNames, OfCyclesOnly, ShortCycles, LongCycles

-----------------------------------------------------------------------------
(* The caller. *)

\* The arrays of a call, and what is in them.
LEMMA MemoryIs ==
  ASSUME NEW market \in Markets, NEW r \in Requests, NEW start \in Int, NEW end \in Ends(r),
         NEW to \in Destinations(r)
  PROVE  LET m == Memory(market, r, start, end, to)
             inputs == {r.from[x] : x \in DOMAIN r.from}
         IN /\ inputs \cap (Temporaries \cup {"stray"}) = {}
            /\ \A n \in 1 .. r.outs : to[n] \in DOMAIN m /\ to[n] \notin Temporaries \cup {"stray"}
            /\ DOMAIN to = 1 .. r.outs
            /\ DOMAIN m \cap Temporaries = {} /\ "stray" \in DOMAIN m /\ m["stray"] = <<>>
            /\ \A a \in inputs : DOMAIN m[a] = 0 .. (r.bars - 1)
            /\ \A x \in DOMAIN r.from, k \in 0 .. (r.bars - 1) : m[r.from[x]][k] \in Int
            /\ \A n \in 1 .. r.outs :
                  /\ to[n] \notin inputs =>
                        m[to[n]] = Array(IF start \in 0 .. end THEN end - start + 1 ELSE 1)
                  /\ to[n] = Fresh[n] => to[n] \notin inputs
<1> DEFINE inputs  == {r.from[x] : x \in DOMAIN r.from}
           outputs == {to[n] : n \in DOMAIN to} \ inputs
           room    == IF start \in 0 .. end THEN end - start + 1 ELSE 1
           m       == Memory(market, r, start, end, to)
<1>1. /\ PassesArrays(r) /\ r.bars \in Nat /\ end \in Int
  BY RequestsAssumption
<1>2. /\ \A x \in DOMAIN r.from : r.from[x] \notin Temporaries \cup {"stray"}
      /\ \A x \in DOMAIN r.from, k \in 0 .. (r.bars - 1) : market[r.from[x]][k] \in Int
      /\ r.outs = OutputsOf(r.fn)
  BY <1>1 DEF PassesArrays
<1>3. r.outs \in 1 .. 3
  BY <1>2 DEF OutputsOf
<1>4. /\ to \in [1 .. r.outs -> inputs \cup {Fresh[n] : n \in 1 .. r.outs}]
  BY DEF Destinations
<1>5. \A n \in 1 .. r.outs : Fresh[n] \notin Temporaries \cup {"stray"} /\ Fresh[n] \notin inputs
  BY <1>3, FreshAssumption
<1>6. m = [a \in inputs \cup outputs \cup {"stray"} |->
             IF a = "stray" THEN <<>>
             ELSE IF a \in inputs THEN Restrict(market[a], 0 .. (r.bars - 1)) ELSE Array(room)]
  BY DEF Memory
<1> HIDE DEF m, room
<1>7. \A n \in 1 .. r.outs : /\ to[n] \in inputs \cup outputs
                             /\ to[n] \notin Temporaries \cup {"stray"}
                             /\ to[n] = Fresh[n] => to[n] \notin inputs
  BY <1>2, <1>4, <1>5
<1>8. \A a \in inputs : m[a] = Restrict(market[a], 0 .. (r.bars - 1))
  BY <1>2, <1>6
<1>9. \A n \in 1 .. r.outs : to[n] \notin inputs => m[to[n]] = Array(room)
  BY <1>6, <1>7
<1>10. (inputs \cup outputs) \cap (Temporaries \cup {"stray"}) = {}
  BY <1>2, <1>4, <1>7
<1>11. "stray" \notin Temporaries
  BY DEF Temporaries
<1>12. DOMAIN m = inputs \cup outputs \cup {"stray"} /\ m["stray"] = <<>>
  BY <1>6
<1> HIDE DEF outputs
<1>13. DOMAIN m \cap Temporaries = {}
  BY <1>10, <1>11, <1>12
<1>14. \A a \in inputs : DOMAIN m[a] = 0 .. (r.bars - 1)
  BY <1>8 DEF Restrict
<1>15. ASSUME NEW x \in DOMAIN r.from, NEW k \in 0 .. (r.bars - 1)
       PROVE  m[r.from[x]][k] \in Int
  <2>1. m[r.from[x]] = Restrict(market[r.from[x]], 0 .. (r.bars - 1))
    BY <1>8
  <2>2. m[r.from[x]][k] = market[r.from[x]][k]
    BY <2>1 DEF Restrict
  <2> QED
    BY <1>2, <2>2
<1> QED
  BY <1>2, <1>4, <1>7, <1>9, <1>12, <1>13, <1>14, <1>15 DEF m, room

\* Outputs that a call of a range may not touch: those of no budget, past the budget.
LEMMA CallFits ==
  ASSUME NEW market \in Markets, NEW r \in Requests, NEW start \in Starts(r), NEW end \in Ends(r),
         NEW to \in Destinations(r), unstable \in Nat, start >= 0, end >= start
  PROVE  LET v == Asked(r, Memory(market, r, start, end, to), start, end, to)
         IN Fits(Called(v), v, Lookback(v.fn, v), Temporaries)
<1> DEFINE m == Memory(market, r, start, end, to)
           v == Asked(r, m, start, end, to)
           L == Lookback(v.fn, v)
           inputs == {r.from[x] : x \in DOMAIN r.from}
<1>1. /\ IsRequest(r) /\ PassesArrays(r) /\ start \in Int /\ end \in Int /\ r.bars \in Nat
      /\ end < r.bars
  BY RequestsAssumption
<1>2. /\ IsCall(v) /\ v.mem = m /\ v.start = start /\ v.end = end /\ v.to = to
      /\ v.fn = r.fn /\ v.from = r.from
      /\ v.period = r.period /\ v.period2 = r.period2 /\ v.period3 = r.period3
      /\ v.maType = r.maType /\ v.maType2 = r.maType2 /\ v.maType3 = r.maType3
  BY <1>1, AskedIsCall
<1>3. /\ inputs \cap Temporaries = {}
      /\ \A n \in 1 .. r.outs : to[n] \in DOMAIN m /\ to[n] \notin Temporaries
      /\ DOMAIN to = 1 .. r.outs
      /\ \A a \in inputs : DOMAIN m[a] = 0 .. (r.bars - 1)
      /\ \A x \in DOMAIN r.from, k \in 0 .. (r.bars - 1) : m[r.from[x]][k] \in Int
      /\ \A n \in 1 .. r.outs :
            to[n] \notin inputs =>
              m[to[n]] = Array(IF start \in 0 .. end THEN end - start + 1 ELSE 1)
  BY <1>1, MemoryIs
<1> HIDE DEF v, m
<1>4. /\ v.fn \in Functions /\ v.start =< v.end /\ v.start \in Nat
      /\ v.period >= 1 /\ v.period2 >= 1 /\ v.period3 >= 1
      /\ v.maType \in MATypes /\ v.maType2 \in MATypes /\ v.maType3 \in MATypes
  BY <1>1, <1>2 DEF IsRequest
<1>5. L \in Int
  BY <1>2, <1>4, LookbackIsInt
<1> HIDE DEF L
<1>6. r.outs = OutputsOf(v.fn) /\ InputsOf(v.fn) \subseteq DOMAIN v.from /\ Ins(v) = inputs
  BY <1>1, <1>2 DEF PassesArrays, Ins
<1>7. CallsFunction(v.fn, v)
  <2>1. ASSUME v.fn = "MAVP", NEW k \in 0 .. v.end
        PROVE  /\ k \in DOMAIN v.mem[v.from["inPeriods"]]
               /\ v.mem[v.from["inPeriods"]][k] \in Int
    <3>1. "inPeriods" \in DOMAIN r.from
      BY <1>2, <1>6, <2>1 DEF InputsOf, OfHighLow, OfHighLowClose
    <3>2. k \in 0 .. (r.bars - 1) /\ r.from["inPeriods"] \in inputs
      BY <1>1, <1>2, <2>1, <3>1
    <3> QED
      BY <1>2, <1>3, <3>1, <3>2
  <2> QED
    BY <1>3, <1>4, <1>6, <2>1 DEF CallsFunction
<1>8. CanCall(v, L, OutputsOf(v.fn), Temporaries)
  <2>1. Outs(v) = {to[n] : n \in 1 .. r.outs}
    BY <1>2, <1>3 DEF Outs
  <2>2. Outs(v) \cap Temporaries = {}
    BY <1>3, <2>1
  <2>3. ASSUME NEW o \in Outs(v) PROVE HasRoom(v.mem, o, Budget(v, L)[o])
    <3>1. PICK n \in 1 .. r.outs : o = to[n]
      BY <2>1
    <3>2. CASE o \in inputs
      <4>1. Budget(v, L)[o] = end + 1
        BY <1>2, <1>6, <3>2 DEF Budget
      <4>2. 0 .. ((end + 1) - 1) \subseteq 0 .. (r.bars - 1)
        BY <1>1
      <4> QED
        BY <1>2, <1>3, <3>1, <3>2, <4>1, <4>2 DEF HasRoom
    <3>3. CASE o \notin inputs
      <4>1. Budget(v, L)[o] = Count(v, L)
        BY <1>6, <3>3 DEF Budget
      <4>2. Count(v, L) \in Int /\ Count(v, L) =< end - start + 1
        BY <1>1, <1>2, <1>5 DEF Count, Larger
      <4>3. m[o] = Array(end - start + 1)
        BY <1>1, <1>3, <3>1, <3>3
      <4>4. DOMAIN m[o] = 0 .. ((end - start + 1) - 1)
        <5> DEFINE size == end - start + 1
        <5>1. m[o] = Array(size)
          BY <4>3
        <5> HIDE DEF size
        <5>2. DOMAIN m[o] = 0 .. (size - 1)
          BY <5>1 DEF Array
        <5> QED
          BY <5>2 DEF size
      <4>5. 0 .. (Count(v, L) - 1) \subseteq DOMAIN m[o]
        BY <1>1, <4>2, <4>4
      <4> QED
        BY <1>2, <1>3, <3>1, <4>1, <4>5 DEF HasRoom
    <3> QED
      BY <3>2, <3>3
  <2> QED
    BY <1>2, <1>3, <1>4, <1>5, <1>6, <2>2, <2>3 DEF CanCall
<1>9. Fits(TA(v.fn, v), v, L, Temporaries)
  BY <1>4, <1>7, <1>8, TAFits DEF L
<1>10. Called(v) = TA(v.fn, v)
  BY <1>1, <1>2 DEF Called
<1> QED
  BY <1>9, <1>10 DEF v, m, L

-----------------------------------------------------------------------------
(* The start values of ATR, NATR, SAR and SAREXT come from calls into      *)
(* arrays of their own, whose memory the walk leaves behind: OutputsFit    *)
(* does not see what those calls write.  They fit as well.                 *)

\* A walk into a new array of its own that has as many elements as it writes.
LEMMA AsideFits ==
  ASSUME NEW mem, NEW name, NEW size \in Int, NEW lookback \in Int, NEW u,
         u.mem = Allocate(mem, name, size), u.to = <<name>>, u.start \in Int, u.end \in Int,
         u.end - Larger(u.start, lookback) + 1 =< size,
         NEW r, CanWalk(u, lookback, 1) => WroteWalk(r, u, lookback)
  PROVE  Touches(<<>>, {name}, mem, r.mem)
<1>1. Outs(u) = {name} /\ 1 .. 1 \subseteq DOMAIN u.to
  BY DEF Outs
<1>2. Count(u, lookback) \in Int /\ Count(u, lookback) =< size
  BY DEF Count, Larger
<1>3. /\ HasRoom(u.mem, name, size)
      /\ Touches(<<>>, {name}, mem, u.mem)
  BY AllocateFits
<1>4. CanWalk(u, lookback, 1)
  BY <1>1, <1>2, <1>3, LessRoom DEF CanWalk
<1>5. Touches(Uniform({name}, Count(u, lookback)), {}, u.mem, r.mem)
  BY <1>1, <1>4 DEF WroteWalk
<1>6. Covers(<<>>, {name}, Uniform({name}, Count(u, lookback)), {})
  BY DEF Covers, Uniform
<1> QED
  BY <1>3, <1>5, <1>6, TouchesThen

\* The true ranges of ATR and NATR: as many as the buffer has elements.
LEMMA ATRRangesFit ==
  ASSUME NEW v, IsCall(v), NEW s \in Nat, s >= ATR_Lookback(v), s =< v.end, v.period >= 1
  PROVE  LET size == ATR_Lookback(v) + v.end - s + 1
             u == Calling(v, Allocate(v.mem, "tempBuffer", size), s - ATR_Lookback(v) + 1, v.end,
                          v.from, <<"tempBuffer">>)
         IN Touches(<<>>, {"tempBuffer"}, v.mem, TA_TRANGE(u).mem)
<1> DEFINE L     == ATR_Lookback(v)
           size  == L + v.end - s + 1
           start == s - L + 1
           u     == Calling(v, Allocate(v.mem, "tempBuffer", size), start, v.end, v.from,
                            <<"tempBuffer">>)
<1>1. L \in Nat /\ v.end \in Int
  BY DEF IsCall, ATR_Lookback
<1> HIDE DEF L
<1>3. start \in Int /\ size \in Int /\ v.end - Larger(start, 1) + 1 =< size
  BY <1>1 DEF Larger
<1> HIDE DEF start, size
<1>2. /\ u.mem = Allocate(v.mem, "tempBuffer", size) /\ u.start = start /\ u.end = v.end
      /\ u.to = <<"tempBuffer">>
  BY <1>1, <1>3, CallingIsCall
<1> HIDE DEF u
<1>4. CanWalk(u, 1, 1) => WroteWalk(TA_TRANGE(u), u, 1)
  BY TRANGETouches DEF TA_TRANGE
<1>5. u.start \in Int /\ u.end \in Int /\ u.end - Larger(u.start, 1) + 1 =< size /\ 1 \in Int
  BY <1>1, <1>2, <1>3
<1>6. Touches(<<>>, {"tempBuffer"}, v.mem, TA_TRANGE(u).mem)
  BY <1>2, <1>3, <1>4, <1>5, AsideFits, Zenon
<1> QED
  BY <1>6 DEF u, start, size, L

\* The first average of ATR and NATR: one element.
LEMMA ATRSeedFits ==
  ASSUME NEW v, IsCall(v), NEW mem, v.period >= 1
  PROVE  LET u == OnReal(v, Allocate(mem, "prevATRTemp", 1), v.period - 1, v.period - 1,
                         "tempBuffer", "prevATRTemp")
         IN Touches(<<>>, {"prevATRTemp"}, mem, TA_INT_SMA(u).mem)
<1> DEFINE n == v.period - 1
           u == OnReal(v, Allocate(mem, "prevATRTemp", 1), n, n, "tempBuffer", "prevATRTemp")
<1>1. n \in Int
  BY DEF IsCall
<1>2. /\ u.mem = Allocate(mem, "prevATRTemp", 1) /\ u.start = n /\ u.end = n
      /\ u.to = <<"prevATRTemp">> /\ SameParameters(u, v)
  BY <1>1, CallingIsCall DEF OnReal
<1>3. PeriodLessOne(u) = n
  BY <1>2 DEF PeriodLessOne, SameParameters
<1> HIDE DEF u, n
<1>4. CanWalk(u, n, 1) => WroteWalk(TA_INT_SMA(u), u, n)
  BY <1>3, SMATouches DEF TA_INT_SMA
<1>5. u.start \in Int /\ u.end \in Int /\ u.end - Larger(u.start, n) + 1 =< 1 /\ 1 \in Int
  BY <1>1, <1>2 DEF Larger
<1> QED
  <2>1. Touches(<<>>, {"prevATRTemp"}, mem, TA_INT_SMA(u).mem)
    BY <1>1, <1>2, <1>4, <1>5, AsideFits, Zenon
  <2> QED
    BY <2>1 DEF u, n

\* The direction of the bar before the first of SAR and SAREXT: one element.
LEMMA SARDirectionFits ==
  ASSUME NEW v, IsCall(v), NEW s \in Nat, s >= 1
  PROVE  LET u == [Calling(v, Allocate(v.mem, "ep_temp", 1), s, s, v.from, <<"ep_temp">>)
                   EXCEPT !.period = 1]
         IN Touches(<<>>, {"ep_temp"}, v.mem, TA_MINUS_DM(u).mem)
<1> DEFINE w == Calling(v, Allocate(v.mem, "ep_temp", 1), s, s, v.from, <<"ep_temp">>)
           u == [w EXCEPT !.period = 1]
<1>1. /\ w.mem = Allocate(v.mem, "ep_temp", 1) /\ w.start = s /\ w.end = s
      /\ w.to = <<"ep_temp">> /\ IsCall(w)
  BY CallingIsCall
<1> HIDE DEF w
<1>2. /\ u.mem = Allocate(v.mem, "ep_temp", 1) /\ u.start = s /\ u.end = s
      /\ u.to = <<"ep_temp">> /\ u.period = 1
  BY <1>1 DEF IsCall, Fields
<1> HIDE DEF u
<1>3. CanWalk(u, 1, 1) => WroteWalk(TA_MINUS_DM(u), u, 1)
  <2>1. DM_Lookback(u) = 1 /\ u.period =< 1
    BY <1>2 DEF DM_Lookback
  <2> QED
    BY <2>1, MINUS_DM1Touches DEF TA_MINUS_DM
<1>4. u.start \in Int /\ u.end \in Int /\ u.end - Larger(u.start, 1) + 1 =< 1 /\ 1 \in Int
  BY <1>2 DEF Larger
<1> QED
  <2>1. Touches(<<>>, {"ep_temp"}, v.mem, TA_MINUS_DM(u).mem)
    BY <1>2, <1>3, <1>4, AsideFits, Zenon
  <2> QED
    BY <2>1 DEF u, w

\* What the invariant needs: the unstable period a caller may set is a number of bars.
FitInv == unstable \in Nat /\ OutputsFit

\* A step of the caller that calls a function.
LEMMA CallKeepsFit ==
  ASSUME unstable \in Nat, NEW market \in Markets, NEW r \in Requests, NEW start \in Starts(r),
         NEW end \in Ends(r), NEW to \in Destinations(r), Call(market, r, start, end, to)
  PROVE  OutputsFit'
<1> DEFINE m == Memory(market, r, start, end, to)
           v == Asked(r, m, start, end, to)
           w == Called(v).mem
           L == Lookback(v.fn, v)
           inputs == {r.from[x] : x \in DOMAIN r.from}
<1>1. call' = v /\ result' = [Called(v) EXCEPT !.mem = Restrict(@, DOMAIN v.mem)]
  BY DEF Call
<1>2. IsRequest(r) /\ start \in Int /\ end \in Int
  BY RequestsAssumption
<1>3. /\ v.mem = m /\ v.start = start /\ v.end = end /\ v.to = to /\ v.from = r.from
      /\ v.outs = r.outs
      /\ IsCall(v) /\ v.fn = r.fn
      /\ v.period = r.period /\ v.period2 = r.period2 /\ v.period3 = r.period3
      /\ v.maType = r.maType /\ v.maType2 = r.maType2 /\ v.maType3 = r.maType3
  BY <1>2, AskedIsCall
<1>4. /\ \A n \in 1 .. r.outs : to[n] \in DOMAIN m /\ to[n] \notin Temporaries \cup {"stray"}
      /\ DOMAIN to = 1 .. r.outs
      /\ DOMAIN m \cap Temporaries = {} /\ "stray" \in DOMAIN m /\ m["stray"] = <<>>
      /\ \A n \in 1 .. r.outs : to[n] = Fresh[n] => to[n] \notin inputs
  BY <1>2, MemoryIs
<1>5. \A n \in 1 .. r.outs : to[n] # Fresh[n] => to[n] \in inputs
  BY DEF Destinations
<1>6. \/ w = m
      \/ Touches(Budget(v, L), Temporaries, m, w)
  <2>1. CASE start >= 0 /\ end >= start
    <3>1. Fits(Called(v), v, L, Temporaries)
      BY <2>1, CallFits
    <3> QED
      BY <1>3, <3>1 DEF Fits
  <2>2. CASE ~(start >= 0 /\ end >= start)
    <3> HIDE DEF v, m
    <3>1. Called(v) = Refused(v, "TA_OUT_OF_RANGE_START_INDEX")
          \/ Called(v) = Refused(v, "TA_OUT_OF_RANGE_END_INDEX")
      BY <1>2, <1>3, <2>2 DEF Called
    <3> QED
      BY <1>3, <3>1 DEF Refused
  <2> QED
    BY <2>1, <2>2
<1> HIDE DEF m
<1>7. Outs(v) = {to[n] : n \in 1 .. r.outs} /\ Ins(v) = inputs
  BY <1>3, <1>4 DEF Outs, Ins
<1>8. Promised(v) = Count(v, L) /\ Promised(v) \in Int
  <2>1. L \in Int
    <3> HIDE DEF v
    <3> QED
      BY <1>2, <1>3, LookbackIsInt DEF IsRequest
  <2> QED
    BY <1>2, <1>3, <2>1 DEF Promised, Count, Larger
<1> HIDE DEF v, L, inputs
<1>9. Touches(Budget(v, L), Temporaries, m, w)
  BY <1>6, TouchesNothing
<1>10. DOMAIN Budget(v, L) = Outs(v)
  BY DEF Budget
<1>11. /\ DOMAIN m \subseteq DOMAIN w
       /\ \A a \in DOMAIN m \ Outs(v) : w[a] = m[a]
       /\ \A o \in Outs(v) : Within(m, w, o, Budget(v, L)[o])
  BY <1>4, <1>7, <1>9, <1>10 DEF Touches
<1>12. \A a \in DOMAIN m : result'.mem[a] = w[a]
  BY <1>1, <1>3 DEF Restrict
<1> HIDE DEF w
<1>13. result'.mem["stray"] = <<>>
  BY <1>4, <1>7, <1>11, <1>12
<1>14. ASSUME NEW n \in 1 .. r.outs, NEW k \in DOMAIN result'.mem[to[n]],
              k >= (IF to[n] = Fresh[n] THEN Promised(v) ELSE end + 1)
       PROVE  result'.mem[to[n]][k] = m[to[n]][k]
  <2>1. to[n] \in Outs(v) /\ to[n] \in DOMAIN m
    BY <1>4, <1>7
  <2>2. Budget(v, L)[to[n]] = IF to[n] = Fresh[n] THEN Promised(v) ELSE end + 1
    <3>1. Budget(v, L)[to[n]] = IF to[n] \in inputs THEN end + 1 ELSE Count(v, L)
      BY <1>3, <1>7, <2>1 DEF Budget
    <3> QED
      BY <1>4, <1>5, <1>8, <3>1
  <2> DEFINE b == Budget(v, L)[to[n]]
  <2>3. Within(m, w, to[n], b)
    BY <1>11, <2>1
  <2>4. k >= b /\ b \in Int
    BY <1>2, <1>8, <1>14, <2>2
  <2> HIDE DEF b
  <2>5. k \in DOMAIN m[to[n]]
    BY <1>12, <2>1, <2>3 DEF Within
  <2>6. k \notin 0 .. (b - 1)
    BY <2>4
  <2> QED
    BY <1>12, <2>1, <2>3, <2>5, <2>6 DEF Within
<1>15. \A a \in DOMAIN m \ {to[n] : n \in 1 .. r.outs} : result'.mem[a] = m[a]
  BY <1>7, <1>11, <1>12
<1> QED
  BY <1>1, <1>3, <1>13, <1>14, <1>15 DEF OutputsFit, Given

\* OutputsFit: no call writes where its caller does not expect it, whichever functions it calls on
\* the way, and none writes outside the arrays it made for them.
THEOREM OutputsAlwaysFit == Spec => []OutputsFit
<1>1. Init => FitInv
  BY DEF Init, FitInv, OutputsFit
<1>2. FitInv /\ [Next]_vars => FitInv'
  <2> SUFFICES ASSUME FitInv, [Next]_vars
               PROVE  FitInv'
    OBVIOUS
  <2>1. ASSUME NEW n \in UnstablePeriods, SetUnstablePeriod(n)
        PROVE  FitInv'
    BY <2>1, UnstablePeriodsAssumption DEF SetUnstablePeriod, FitInv, OutputsFit
  <2>2. ASSUME NEW c \in {"default", "metastock"}, SetCompatibility(c)
        PROVE  FitInv'
    BY <2>2 DEF SetCompatibility, FitInv, OutputsFit, Given
  <2>3. ASSUME NEW market \in Markets, NEW r \in Requests, NEW start \in Starts(r),
               NEW end \in Ends(r), NEW to \in Destinations(r), Call(market, r, start, end, to)
        PROVE  FitInv'
    <3>1. OutputsFit'
      BY <2>3, CallKeepsFit DEF FitInv
    <3> QED
      BY <3>1, <2>3 DEF FitInv, Call
  <2>4. CASE Finish
    BY <2>4 DEF Finish, FitInv, OutputsFit
  <2>5. CASE UNCHANGED vars
    <3>1. UNCHANGED <<unstable, call, result>>
      BY <2>5 DEF vars
    <3>2. OutputsFit' <=> OutputsFit
      BY <3>1 DEF OutputsFit, Given, Promised
    <3> QED
      BY <3>1, <3>2 DEF FitInv
  <2> QED
    BY <2>1, <2>2, <2>3, <2>4, <2>5 DEF Next
<1>3. FitInv => OutputsFit
  BY DEF FitInv
<1> QED
  BY <1>1, <1>2, <1>3, PTL DEF Spec

================================================================================
