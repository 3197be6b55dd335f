------------------------- MODULE TrailingStop_proofs -------------------------
(***************************************************************************)
(* Theorems about the trailing stop, for every entry price, every sequence *)
(* of traded prices and every outcome of the floating-point ties.          *)
(***************************************************************************)
EXTENDS TrailingStop, TLAPS

\* Factors are natural numbers.
LEMMA FactorNumbers == Factors \subseteq Nat
  BY DEF Factors

\* The table of the ladder rises, and every stop lies between the entry price
\* and the price of its rung, strictly below it except at the first rung.
LEMMA Table ==
  /\ \A i \in Rungs : /\ At[i] \in Factors /\ Sl[i] \in Factors /\ Sl[i] >= 1000
                      /\ Sl[i] <= At[i] /\ (i # 1 => Sl[i] < At[i])
  /\ \A i, j \in Rungs : i < j => At[i] < At[j] /\ Sl[i] <= Sl[j]
<1>1. \A i \in Rungs : i \in {1, 2, 3, 4, 5, 6, 7, 8, 9, 10, 11, 12}
  BY DEF Rungs
<1>2. /\ At[1] = 1000 /\ At[2] = 1010 /\ At[3] = 1020 /\ At[4] = 1030
      /\ At[5] = 1040 /\ At[6] = 1050 /\ At[7] = 1070 /\ At[8] = 1100
      /\ At[9] = 1150 /\ At[10] = 1500 /\ At[11] = 1700 /\ At[12] = 1900
  BY DEF At
<1>3. /\ Sl[1] = 1000 /\ Sl[2] = 1005 /\ Sl[3] = 1010 /\ Sl[4] = 1020
      /\ Sl[5] = 1030 /\ Sl[6] = 1030 /\ Sl[7] = 1040 /\ Sl[8] = 1050
      /\ Sl[9] = 1050 /\ Sl[10] = 1200 /\ Sl[11] = 1400 /\ Sl[12] = 1600
  BY DEF Sl
<1>4. ASSUME NEW i \in Rungs
      PROVE  /\ At[i] \in Factors /\ Sl[i] \in Factors /\ Sl[i] >= 1000
             /\ Sl[i] <= At[i] /\ (i # 1 => Sl[i] < At[i])
  BY <1>1, <1>2, <1>3 DEF Factors
<1>5. ASSUME NEW i \in Rungs, NEW j \in Rungs, i < j
      PROVE  At[i] < At[j] /\ Sl[i] <= Sl[j]
  BY <1>1, <1>2, <1>3, <1>5
<1>6. QED
  BY <1>4, <1>5

\* The entries of the table are natural numbers, and a threshold is positive.
LEMMA TableNumbers ==
  ASSUME NEW i \in Rungs
  PROVE  At[i] \in Nat /\ At[i] > 0 /\ Sl[i] \in Nat /\ Sl[i] \in Factors
<1>1. At[i] \in Factors /\ Sl[i] \in Factors /\ Sl[i] >= 1000 /\ Sl[i] <= At[i]
  BY Table
<1>2. At[i] \in Nat /\ Sl[i] \in Nat
  BY <1>1, FactorNumbers
<1>3. QED
  BY <1>1, <1>2

\* Of two rungs the lower does not have the higher stop.
LEMMA StopsGrow ==
  ASSUME NEW i \in Rungs, NEW j \in Rungs, j <= i
  PROVE  Sl[j] <= Sl[i]
<1>1. CASE j = i
  BY <1>1, TableNumbers
<1>2. CASE j < i
  BY <1>2, Table
<1>3. QED
  BY <1>1, <1>2 DEF Rungs

\* Rounding moves a product by at most half a tenth.
LEMMA RoundNear ==
  ASSUME NEW e \in Entries, NEW k \in Factors
  PROVE  /\ Round(e, k) \in Nat
         /\ e * k - 500 <= 1000 * Round(e, k) /\ 1000 * Round(e, k) <= e * k + 500
<1>1. e * k \in Nat
  BY LadderAssumption, FactorNumbers
<1>2. PICK m \in Nat : m = e * k
  BY <1>1
<1>3. m = (m % 1000) + 1000 * (m \div 1000) /\ m \div 1000 \in Nat /\ m % 1000 \in 0 .. 999
  OBVIOUS
<1>4. QED
  BY <1>2, <1>3 DEF Round

\* Rounding keeps the order of the factors.
LEMMA RoundGrows ==
  ASSUME NEW e \in Entries, NEW k \in Factors, NEW m \in Factors, k <= m
  PROVE  Round(e, k) <= Round(e, m)
<1>1. Round(e, k) \in Nat /\ Round(e, m) \in Nat
  BY RoundNear
<1>2. CASE k = m
  BY <1>1, <1>2
<1>3. CASE k < m
  <2>1. e * k \in Nat /\ e * m \in Nat /\ e * k < e * m
    BY <1>3, LadderAssumption, FactorNumbers
  <2>2. 1000 * Round(e, k) <= e * k + 500 /\ e * m - 500 <= 1000 * Round(e, m)
    BY RoundNear
  <2>3. QED
    BY <1>1, <2>1, <2>2
<1>4. QED
  BY <1>2, <1>3 DEF Factors

\* A price that reaches a rung reaches those below, and so does a higher price.
LEMMA ReachesMore ==
  ASSUME NEW e \in Entries, NEW p \in Nat, NEW q \in Nat, p <= q,
         NEW i \in Rungs, Reaches(e, p, i)
  PROVE  Reaches(e, q, i)
<1>1. e \in Nat /\ At[i] \in Nat
  BY TableNumbers, LadderAssumption
<1>2. 2 * e * At[i] \in Nat
  BY <1>1
<1>3. QED
  BY <1>2 DEF Reaches

\* The stop of a rung is not above a price that reaches it.
LEMMA RungBelowPrice ==
  ASSUME NEW e \in Entries, NEW p \in Nat, NEW i \in Rungs, Reaches(e, p, i)
  PROVE  2 * Round(e, Sl[i]) <= p
<1>1. e \in Nat /\ e > 0 /\ At[i] \in Nat /\ Sl[i] \in Nat /\ Sl[i] \in Factors
  BY TableNumbers, LadderAssumption
<1>2. PICK a \in Nat, s \in Nat : a = e * At[i] /\ s = e * Sl[i]
  BY <1>1
<1>3. s <= a /\ (i # 1 => s < a)
  BY <1>1, <1>2, Table
<1>4. 2 * e * At[i] = 2 * a
  BY <1>1, <1>2
<1>5. 1000 * p > 2 * s
  BY <1>2, <1>3, <1>4 DEF Reaches
<1>6. Round(e, Sl[i]) \in Nat /\ 1000 * Round(e, Sl[i]) <= s + 500
  BY <1>1, <1>2, RoundNear
<1>7. QED
  BY <1>5, <1>6

\* Every rung of the ladder keeps the entry price.
LEMMA RungAboveEntry ==
  ASSUME NEW e \in Entries, NEW i \in Rungs
  PROVE  Round(e, Sl[i]) \in Nat /\ Round(e, Sl[i]) >= e
<1>1. e \in Nat /\ Sl[i] \in Factors /\ Sl[i] \in Nat /\ Sl[i] >= 1000
  <2>1. e \in Nat
    BY LadderAssumption
  <2>2. Sl[i] \in Factors /\ Sl[i] \in Nat
    BY TableNumbers
  <2>3. Sl[i] >= 1000
    BY Table
  <2>4. QED
    BY <2>1, <2>2, <2>3
<1>2. PICK s \in Nat : s = e * Sl[i]
  BY <1>1
<1>3. s >= 1000 * e
  BY <1>1, <1>2
<1>4. Round(e, Sl[i]) \in Nat /\ s - 500 <= 1000 * Round(e, Sl[i])
  BY <1>1, <1>2, RoundNear
<1>5. QED
  BY <1>1, <1>3, <1>4

-----------------------------------------------------------------------------
\* StopOfPeak speaks of the highest rung only.  Inductive is that the stop is
\* at least that of every rung the peak has reached, and is the first one or
\* that of one of them.
Reached(i) == Reaches(entry, peak, i)
StopOfRungs ==
  /\ \A i \in Rungs : Reached(i) => stop >= Round(entry, Sl[i])
  /\ stop = first \/ \E i \in Rungs : Reached(i) /\ stop = Round(entry, Sl[i])

\* Before the first pass no rung is reached.
LEMMA InitStop == Init => TypeOK /\ StopOfRungs
<1> SUFFICES ASSUME Init PROVE TypeOK /\ StopOfRungs
  OBVIOUS
<1>1. TypeOK
  BY LadderAssumption DEF Init, FirstStops, TypeOK
<1>2. ASSUME NEW i \in Rungs PROVE ~Reached(i)
  <2>1. entry \in Nat /\ entry > 0 /\ At[i] \in Nat /\ At[i] > 0
    BY TableNumbers, LadderAssumption DEF Init
  <2>2. 2 * entry * At[i] > 0 /\ 2 * entry * At[i] \in Nat
    BY <2>1
  <2>3. QED
    BY <2>2 DEF Init, Reached, Reaches
<1>3. QED
  BY <1>1, <1>2 DEF Init, StopOfRungs

\* A pass keeps the types and StopOfRungs, whatever price it reads.
LEMMA NextStop == TypeOK /\ StopOfRungs /\ [Next]_vars => (TypeOK /\ StopOfRungs)'
<1>1. ASSUME TypeOK, StopOfRungs, NEW p \in 0 .. MaxPrice, Pass(p)
      PROVE  (TypeOK /\ StopOfRungs)'
  <2>0. /\ entry' = entry /\ first' = first /\ entry \in Entries /\ p \in Nat /\ peak \in Nat /\ peak' \in Nat
        /\ peak' \in {p, peak} /\ p <= peak' /\ peak <= peak' /\ peak' \in 0 .. MaxPrice
        /\ stop \in Nat
    BY <1>1, LadderAssumption DEF Pass, TypeOK
  <2>1. ASSUME NEW i \in Rungs
        PROVE  /\ Reached(i) => Reached(i)'
               /\ Reaches(entry, p, i) => Reached(i)'
               /\ Reached(i)' => Reached(i) \/ Reaches(entry, p, i)
    BY <2>0, ReachesMore DEF Reached
  <2>2. CASE (\A i \in Rungs : ~Reaches(entry, p, i)) /\ stop' = stop
    BY <1>1, <2>0, <2>1, <2>2 DEF TypeOK, StopOfRungs
  <2>3. ASSUME NEW i \in Rungs, Highest(entry, p, i), stop' = Raised(Round(entry, Sl[i]))
        PROVE  (TypeOK /\ StopOfRungs)'
    <3>1. Round(entry, Sl[i]) \in Nat /\ Reaches(entry, p, i)
      BY <2>0, <2>3, RungAboveEntry DEF Highest
    <3>2. /\ stop' \in Nat /\ stop' >= stop /\ stop' >= Round(entry, Sl[i])
          /\ stop' \in {stop, Round(entry, Sl[i])}
      BY <2>0, <2>3, <3>1 DEF Raised
    <3>3. ASSUME NEW j \in Rungs, Reached(j)' PROVE stop' >= Round(entry, Sl[j])
      <4>1. Round(entry, Sl[j]) \in Nat
        BY <2>0, RungAboveEntry
      <4>2. CASE Reached(j)
        BY <1>1, <2>0, <3>2, <4>1, <4>2 DEF StopOfRungs
      <4>3. CASE Reaches(entry, p, j)
        <5>1. j <= i
          BY <2>3, <4>3 DEF Highest, Rungs
        <5>2. Sl[j] <= Sl[i] /\ Sl[i] \in Factors /\ Sl[j] \in Factors
          BY <5>1, StopsGrow, TableNumbers
        <5>3. Round(entry, Sl[j]) <= Round(entry, Sl[i])
          BY <2>0, <5>2, RoundGrows
        <5>4. QED
          BY <3>1, <3>2, <4>1, <5>3
      <4>4. QED
        BY <2>1, <3>3, <4>2, <4>3
    <3>4. \/ stop' = first
          \/ \E j \in Rungs : Reached(j)' /\ stop' = Round(entry, Sl[j])
      BY <1>1, <2>1, <3>1, <3>2 DEF StopOfRungs
    <3>5. QED
      <4>1. TypeOK'
        BY <1>1, <2>0, <3>2 DEF TypeOK
      <4>2. QED
        BY <2>0, <3>2, <3>3, <3>4, <4>1 DEF StopOfRungs
  <2>4. QED
    BY <1>1, <2>2, <2>3 DEF Pass
<1>2. TypeOK /\ StopOfRungs /\ UNCHANGED vars => (TypeOK /\ StopOfRungs)'
  BY DEF TypeOK, StopOfRungs, Reached, vars
<1>3. QED
  BY <1>1, <1>2 DEF Next

\* The types and StopOfRungs hold in every reachable state.
LEMMA StopInvariant == Spec => [](TypeOK /\ StopOfRungs)
  BY InitStop, NextStop, PTL DEF Spec

\* The types: the first stop is between nothing and the entry price, and no step makes a stop that
\* is not a price.
THEOREM TypeCorrect == Spec => []TypeOK
  BY StopInvariant, PTL

\* The stop of a row is the one of the highest price a pass has read, however
\* the prices came.
THEOREM StopIsOfPeak == Spec => []StopOfPeak
<1>1. TypeOK /\ StopOfRungs => StopOfPeak
  <2> SUFFICES ASSUME TypeOK, StopOfRungs PROVE StopOfPeak
    OBVIOUS
  <2>1. (\A i \in Rungs : ~Reaches(entry, peak, i)) => stop = first
    BY DEF StopOfRungs, Reached
  <2>2. ASSUME NEW i \in Rungs, Highest(entry, peak, i)
        PROVE  stop = Round(entry, Sl[i])
    <3>0. /\ entry \in Entries /\ entry \in Nat /\ stop \in Nat /\ Reached(i)
          /\ Round(entry, Sl[i]) \in Nat /\ Round(entry, Sl[i]) >= entry
          /\ first \in Nat /\ first <= entry
      BY <2>2, RungAboveEntry, LadderAssumption DEF TypeOK, Highest, Reached
    <3>1. stop >= Round(entry, Sl[i])
      BY <3>0 DEF StopOfRungs
    <3>2. stop <= Round(entry, Sl[i])
      <4>1. CASE stop = first
        BY <3>0, <4>1
      <4>2. ASSUME NEW j \in Rungs, Reached(j), stop = Round(entry, Sl[j])
            PROVE  stop <= Round(entry, Sl[i])
        <5>1. j <= i
          BY <2>2, <4>2 DEF Highest, Reached, Rungs
        <5>2. Sl[j] <= Sl[i] /\ Sl[i] \in Factors /\ Sl[j] \in Factors
          BY <5>1, StopsGrow, TableNumbers
        <5>3. QED
          BY <3>0, <4>2, <5>2, RoundGrows
      <4>3. QED
        BY <4>1, <4>2 DEF StopOfRungs
    <3>3. QED
      BY <3>0, <3>1, <3>2
  <2>3. QED
    BY <2>1, <2>2 DEF StopOfPeak
<1>2. QED
  BY <1>1, StopInvariant, PTL

\* A raised stop is not above the price that raised it: the exchange accepts
\* the modified order.
THEOREM StopStaysBelowPeak == Spec => []StopBelowPeak
<1>1. TypeOK /\ StopOfRungs => StopBelowPeak
  BY RungBelowPrice, LadderAssumption DEF TypeOK, StopOfRungs, Reached, StopBelowPeak
<1>2. QED
  BY <1>1, StopInvariant, PTL

\* The two kinds of stop DhanScalper knows are all there are.
THEOREM OnlyTwoLevels == Spec => []TwoLevels
<1>1. TypeOK /\ StopOfRungs => TwoLevels
  BY RungAboveEntry DEF TypeOK, StopOfRungs, TwoLevels
<1>2. QED
  BY <1>1, StopInvariant, PTL
=============================================================================
