-------------------------------- MODULE Loops --------------------------------
(***************************************************************************)
(* Induction over a loop, to be instantiated.  Step is the body of a       *)
(* Repeated (Indicators), with up to three things it depends on besides    *)
(* the locals and the index; Keeps(x, y, z, S, T, k) is what relates the   *)
(* locals T after step k to those before the loop, S.  The theorems of the *)
(* library about induction take an operator as a parameter, which no       *)
(* backend can instantiate; an INSTANCE of this module supplies it.  It    *)
(* holds no more than is wanted of each instance.                          *)
(***************************************************************************)
EXTENDS Integers

CONSTANTS Step(_, _, _, _, _), Keeps(_, _, _, _, _, _)

\* Repeated, with Step for its operator.
Loop(x, y, z, S, a, b) ==
    LET after[k \in (a-1) .. b] ==
            IF k < a THEN S
            ELSE CHOOSE M \in {Step(x, y, z, last, k) : last \in {after[k-1]}} : TRUE
    IN IF b < a THEN S ELSE after[b]

\* What holds before a loop and is kept by each of its steps holds after it.  That a set with 0
\* and with every number the next one holds every natural number is left to the module that
\* instantiates this one.
THEOREM LoopInduction ==
  ASSUME \A N : 0 \in N /\ (\A n \in Nat : n \in N => n + 1 \in N) => Nat \subseteq N,
         NEW x, NEW y, NEW z, NEW S, NEW a \in Int, NEW b \in Int,
         Keeps(x, y, z, S, S, a - 1),
         \A T : \A k \in a .. b :
            Keeps(x, y, z, S, T, k - 1) => Keeps(x, y, z, S, Step(x, y, z, T, k), k)
  PROVE  Keeps(x, y, z, S, Loop(x, y, z, S, a, b), IF b < a THEN a - 1 ELSE b)
<1> DEFINE \* The locals after each step up to c, in a function.
           Plain(f, c) == [k \in (a-1) .. c |-> IF k < a THEN S ELSE Step(x, y, z, f[k-1], k)]
           IsRecord(f, c) == f = Plain(f, c)
\* Such a function exists, by induction over the steps.
<1>1. \A n \in Nat : \E f : IsRecord(f, (a - 1) + n)
  <2> DEFINE Recorded == {n \in Nat : \E f : IsRecord(f, (a - 1) + n)}
  <2>1. 0 \in Recorded
    <3>1. IsRecord([k \in (a-1) .. ((a - 1) + 0) |-> S], (a - 1) + 0)
      OBVIOUS
    <3> QED
      BY <3>1
  <2>2. ASSUME NEW n \in Nat, n \in Recorded PROVE n + 1 \in Recorded
    <3>1. PICK f : IsRecord(f, (a - 1) + n)
      BY <2>2
    <3> DEFINE c == (a - 1) + n
               g == [k \in (a-1) .. (c + 1) |->
                        IF k = c + 1 THEN Step(x, y, z, f[c], c + 1) ELSE f[k]]
               h == Plain(g, c + 1)
    <3>2. c \in Int /\ c >= a - 1 /\ (a - 1) + (n + 1) = c + 1
      OBVIOUS
    <3>3. \A k \in (a-1) .. c :
             g[k] = f[k] /\ f[k] = IF k < a THEN S ELSE Step(x, y, z, f[k-1], k)
      <4>1. \A k \in (a-1) .. c : k \in (a-1) .. (c + 1) /\ k # c + 1
        BY <3>2
      <4>2. f = [k \in (a-1) .. c |-> IF k < a THEN S ELSE Step(x, y, z, f[k-1], k)]
        BY <3>1
      <4> QED
        BY <4>1, <4>2
    <3>4. ASSUME NEW k \in (a-1) .. (c + 1) PROVE g[k] = h[k]
      <4>1. CASE k = c + 1
        <5>1. k \in Int /\ ~(k < a) /\ k - 1 = c /\ c \in (a-1) .. c
          BY <3>2, <4>1
        <5>2. g[k] = Step(x, y, z, f[c], k) /\ h[k] = Step(x, y, z, g[k-1], k)
          BY <4>1, <5>1
        <5>3. g[c] = f[c]
          BY <3>3, <5>1
        <5> QED
          BY <5>1, <5>2, <5>3
      <4>2. CASE k # c + 1
        <5>1. k \in (a-1) .. c
          BY <3>2, <4>2
        <5>2. CASE k < a
          BY <3>3, <5>1, <5>2
        <5>3. CASE ~(k < a)
          <6>1. k - 1 \in (a-1) .. c
            BY <3>2, <5>1, <5>3
          <6>2. g[k-1] = f[k-1]
            BY <3>3, <6>1
          <6> QED
            BY <3>3, <5>1, <5>3, <6>2
        <5> QED
          BY <5>2, <5>3
      <4> QED
        BY <4>1, <4>2
    <3>5. g = h
      BY <3>4
    <3>6. IsRecord(g, c + 1)
      BY <3>5
    <3> HIDE DEF g, c, IsRecord
    <3> QED
      BY <3>2, <3>6
  <2>3. Nat \subseteq Recorded
    <3> HIDE DEF Recorded
    <3> QED
      BY <2>1, <2>2
  <2> QED
    BY <2>3
<1>2. CASE b < a
  BY <1>2 DEF Loop
<1>3. CASE b >= a
  \* The loop ends with the last element of such a function.
  <2>1. PICK f : IsRecord(f, b) /\ Loop(x, y, z, S, a, b) = f[b]
    <3> DEFINE Body(f) == [k \in (a-1) .. b |->
                 IF k < a THEN S
                 ELSE CHOOSE M \in {Step(x, y, z, last, k) : last \in {f[k-1]}} : TRUE]
               after == CHOOSE f : f = Body(f)
    <3>1. ASSUME NEW T, NEW k
          PROVE  (CHOOSE M \in {Step(x, y, z, last, k) : last \in {T}} : TRUE)
                 = Step(x, y, z, T, k)
      <4>1. {Step(x, y, z, last, k) : last \in {T}} = {Step(x, y, z, T, k)}
        OBVIOUS
      <4> QED
        BY <4>1
    <3>2. ASSUME NEW f PROVE Body(f) = Plain(f, b)
      BY <3>1
    <3>3. \E f : f = Plain(f, b)
      <4>1. b - (a - 1) \in Nat /\ (a - 1) + (b - (a - 1)) = b
        BY <1>3
      <4>2. \E f : IsRecord(f, (a - 1) + (b - (a - 1)))
        <5> HIDE DEF IsRecord
        <5> QED
          BY <1>1, <4>1
      <4>3. \E f : IsRecord(f, b)
        <5> HIDE DEF IsRecord
        <5> QED
          BY <4>1, <4>2
      <4> QED
        BY <4>3
    <3>4. Loop(x, y, z, S, a, b) = after[b]
      <4>1. ~(b < a)
        BY <1>3
      <4> QED
        BY <4>1 DEF Loop
    <3>5. \E f : f = Body(f)
      BY <3>2, <3>3
    <3>6. after = Body(after)
      <4> HIDE DEF Body
      <4> QED
        BY <3>5
    <3>7. after = Plain(after, b)
      BY <3>2, <3>6
    <3> HIDE DEF after
    <3> QED
      BY <3>4, <3>7
  <2> DEFINE Kept == {n \in Nat : n =< b - (a - 1) =>
                                     Keeps(x, y, z, S, f[(a - 1) + n], (a - 1) + n)}
  <2>2. \A k \in (a-1) .. b : f[k] = IF k < a THEN S ELSE Step(x, y, z, f[k-1], k)
    BY <2>1
  <2>3. 0 \in Kept
    <3>1. a - 1 \in (a-1) .. b /\ a - 1 < a /\ (a - 1) + 0 = a - 1
      BY <1>3
    <3>2. f[a - 1] = S
      BY <2>2, <3>1
    <3> QED
      BY <3>1, <3>2
  <2>4. ASSUME NEW n \in Nat, n \in Kept PROVE n + 1 \in Kept
    <3> DEFINE k == (a - 1) + (n + 1)
    <3> SUFFICES ASSUME n + 1 =< b - (a - 1) PROVE Keeps(x, y, z, S, f[k], k)
      OBVIOUS
    <3>1. k \in a .. b /\ k \in (a-1) .. b /\ ~(k < a) /\ k - 1 = (a - 1) + n /\ n =< b - (a - 1)
      OBVIOUS
    <3>2. Keeps(x, y, z, S, f[k - 1], k - 1)
      BY <2>4, <3>1
    <3> HIDE DEF k
    <3>3. f[k] = Step(x, y, z, f[k-1], k)
      BY <2>2, <3>1
    <3> QED
      BY <3>1, <3>2, <3>3
  <2>5. Nat \subseteq Kept
    <3> HIDE DEF Kept
    <3> QED
      BY <2>3, <2>4
  <2>6. b - (a - 1) \in Nat /\ (a - 1) + (b - (a - 1)) = b /\ ~(b < a)
    BY <1>3
  <2>7. Keeps(x, y, z, S, f[b], b)
    <3>1. b - (a - 1) \in Kept
      BY <2>5, <2>6
    <3>2. b - (a - 1) =< b - (a - 1)
      OBVIOUS
    <3>3. Keeps(x, y, z, S, f[(a - 1) + (b - (a - 1))], (a - 1) + (b - (a - 1)))
      BY <3>1, <3>2
    <3> QED
      BY <2>6, <3>3
  <2> QED
    BY <2>1, <2>6, <2>7
<1> QED
  BY <1>2, <1>3
=============================================================================
