------------------------- MODULE DhanScalper_proofs -------------------------
(***************************************************************************)
(* Theorems about DhanScalper, for every value of its constants.           *)
(***************************************************************************)
EXTENDS DhanScalper, TLAPS

-----------------------------------------------------------------------------
(* Type correctness.                                                       *)

\* A thread at the head of its loop has locals of the right type.
LEMMA IdleTypes == TradeIdle \in TradeType /\ ExitIdle \in ExitType
  BY DEF TradeIdle, ExitIdle, TradeType, ExitType, TradePC, ExitPC, Legs,
         Securities

\* Spending a bound keeps the counters of the bounds natural numbers.
LEMMA SpendType ==
  ASSUME used \in [Bounds -> Nat], NEW b \in Bounds, NEW m, Spend(b, m)
  PROVE  used' \in [Bounds -> Nat]
  BY DEF Spend

\* The bounds of the environment.
LEMMA BoundNames ==
  /\ "faults" \in Bounds /\ "rejects" \in Bounds /\ "restarts" \in Bounds
  /\ "orders" \in Bounds /\ "alarms" \in Bounds
  BY DEF Bounds

\* A failed call counts as a fault and as nothing else.
LEMMA FaultCounted ==
  ASSUME used \in [Bounds -> Nat], Spend("faults", MaxFaults)
  PROVE  /\ used' \in [Bounds -> Nat]
         /\ used'.faults = used.faults + 1 /\ used'.restarts = used.restarts
  BY BoundNames DEF Spend

\* A refused order is one of a disabled account, or a failed call.
LEMMA RefusedCounted ==
  ASSUME used \in [Bounds -> Nat], Refused
  PROVE  /\ used' \in [Bounds -> Nat]
         /\ used'.faults >= used.faults /\ used'.restarts = used.restarts
  <1>1. CASE used' = used
    BY <1>1, BoundNames
  <1>2. CASE Spend("faults", MaxFaults)
    BY <1>2, FaultCounted, BoundNames
  <1>3. QED
    BY <1>1, <1>2 DEF Refused

\* The legs are securities, and so is the owner's.
LEMMA SecurityNames == Legs \subseteq Securities /\ Manual \in Securities
  BY DEF Securities

\* The initial states are of the right type.
LEMMA InitType == Init => TypeOK
<1> SUFFICES ASSUME Init PROVE TypeOK
  OBVIOUS
<1> USE ConstantsAssumption DEF Init
<1>1. row \in [Legs -> RowType]
  <2>1. NoRow \in RowType
    BY DEF NoRow, RowType, Status, Ids
  <2>2. QED
    BY <2>1
<1>2. t \in TradeType /\ x \in ExitType
  BY IdleTypes
<1>3. pos \in [Securities -> Int] /\ buying \in [Securities -> Nat] /\ selling \in [Securities -> Nat]
  OBVIOUS
<1>4. stop \in [Legs -> Stops] /\ trigger \in [Legs -> 0 .. MaxLevel]
  BY DEF Stops
<1>5. used \in [Bounds -> Nat] /\ buys \in [Legs -> Nat] /\ lost \in Nat /\ suspect \in SUBSET Legs
  OBVIOUS
<1>6. QED
  BY <1>1, <1>2, <1>3, <1>4, <1>5 DEF TypeOK

\* The type of the trade thread's locals when it goes on to another step.
LEMMA TradePCType ==
  ASSUME t \in TradeType, NEW pc \in TradePC
  PROVE  [t EXCEPT !.pc = pc] \in TradeType
  BY DEF TradeType

\* The steps of an entry, of the put or of the call, keep the types.
LEMMA EntryType == TypeOK /\ (Entry \/ Reverse) => TypeOK'
<1> SUFFICES ASSUME TypeOK, Entry \/ Reverse PROVE TypeOK'
  OBVIOUS
<1> USE ConstantsAssumption DEF TypeOK, brokerVars, exitVars, histVars
<1>1. CASE SkipDay
  BY <1>1 DEF SkipDay, RowType, Status, Legs
<1>2. CASE EnterPut
  BY <1>2 DEF EnterPut, TradeType, TradePC, Legs
<1>3. ASSUME NEW l \in Legs, NEW from, Buy(l, from)
      PROVE  TypeOK'
  <2>1. [TradeIdle EXCEPT !.pc = "bought", !.leg = l] \in TradeType
    BY DEF TradeIdle, TradeType, TradePC
  <2>2. t' \in TradeType
    BY <1>3, <2>1, IdleTypes DEF Buy
  <2>3. buying' \in [Securities -> Nat] /\ buys' \in [Legs -> Nat]
    BY <1>3, SecurityNames DEF Buy
  <2>4. used' \in [Bounds -> Nat] /\ suspect' \in SUBSET Legs
    BY <1>3, RefusedCounted DEF Buy
  <2>5. QED
    BY <1>3, <2>2, <2>3, <2>4 DEF Buy
<1>4. ASSUME NEW l \in Legs, NEW same \in BOOLEAN, SaveRow(l, same)
      PROVE  TypeOK'
  <2>1. t' \in TradeType
    BY <1>4, TradePCType DEF SaveRow, TradePC
  <2>2. row' \in [Legs -> RowType]
    BY <1>4 DEF SaveRow, RowType, Status, Ids
  <2>3. QED
    BY <1>4, <2>1, <2>2 DEF SaveRow
<1>5. ASSUME NEW l \in Legs, Arm(l)
      PROVE  TypeOK'
  <2>1. t' \in TradeType
    BY <1>5, IdleTypes, TradePCType DEF Arm, TradePC
  <2>2. stop' \in [Legs -> Stops] /\ trigger' \in [Legs -> 0 .. MaxLevel]
    BY <1>5 DEF Arm, RowType, Stops
  <2>3. used' \in [Bounds -> Nat]
    BY <1>5, RefusedCounted, FaultCounted DEF Arm
  <2>4. QED
    BY <1>5, <2>1, <2>2, <2>3 DEF Arm
<1>6. ASSUME NEW l \in Legs, SaveIds(l)
      PROVE  TypeOK'
  <2>1. row' \in [Legs -> RowType]
    <3>1. \A ids \in Ids : [row[l] EXCEPT !.ids = ids] \in RowType
      BY DEF RowType
    <3>2. PICK ids \in Ids : row' = [row EXCEPT ![l].ids = ids]
      BY <1>6 DEF SaveIds, Ids
    <3>3. QED
      BY <3>1, <3>2
  <2>2. QED
    BY <1>6, <2>1, IdleTypes DEF SaveIds
<1>7. "PE" \in Legs /\ "CE" \in Legs
  BY DEF Legs
<1>8. QED
  BY <1>1, <1>2, <1>3, <1>4, <1>5, <1>6, <1>7
  DEF Entry, Reverse, BuyPut, BuyCall, SavePut, SaveCall, ArmPut, ArmCall,
      SavePutIds, SaveCallIds

\* The steps of a monitoring pass keep the types.
LEMMA MonitorType == TypeOK /\ Monitor => TypeOK'
<1> SUFFICES ASSUME TypeOK, Monitor PROVE TypeOK'
  OBVIOUS
<1> USE ConstantsAssumption DEF TypeOK, brokerVars, exitVars, histVars
<1>0. t.leg \in Legs /\ \A l \in Legs : Closed(row[l]) \in RowType
  <2>1. t.leg \in Legs
    BY DEF TradeType
  <2>2. ASSUME NEW l \in Legs PROVE Closed(row[l]) \in RowType
    BY DEF RowType, Closed, Status
  <2>3. QED
    BY <2>1, <2>2
<1>1. ASSUME NEW l \in Legs, Look(l) PROVE TypeOK'
  <2>1. row' = [row EXCEPT ![l] = Closed(@)] \/ row' = row
    BY <1>1 DEF Look
  <2>2. row' \in [Legs -> RowType]
    BY <1>0, <2>1
  <2>3. t' \in TradeType
    BY <1>1, IdleTypes DEF Look, NothingPending, TradeType, TradePC
  <2>4. used' \in [Bounds -> Nat]
    BY <1>1, FaultCounted DEF Look
  <2>5. QED
    BY <2>2, <2>3, <2>4, <1>1 DEF Look
<1>2. CASE Trail
  <2>1. t' \in TradeType
    BY <1>2, TradePCType DEF Trail, TradePC
  <2>2. PICK level \in Ladder(t.leg) : row' = [row EXCEPT ![t.leg].sl = level]
    BY <1>2 DEF Trail
  <2>3. level \in 0 .. MaxLevel
    BY <1>0 DEF Ladder, RowType
  <2>4. row' \in [Legs -> RowType]
    BY <1>0, <2>2, <2>3 DEF RowType
  <2>5. QED
    BY <1>2, <2>1, <2>4 DEF Trail
<1>3. CASE Modify
  <2>1. t' \in TradeType
    BY <1>3, TradePCType DEF Modify, TradePC
  <2>2. used' \in [Bounds -> Nat]
    BY <1>3, SpendType, BoundNames DEF Modify
  <2>3. trigger' \in [Legs -> 0 .. MaxLevel]
    BY <1>0, <1>3 DEF Modify, RowType
  <2>4. QED
    BY <1>3, <2>1, <2>2, <2>3 DEF Modify
<1>4. CASE Decide
  BY <1>0, <1>4, IdleTypes DEF Decide, TradeType, TradePC
<1>5. CASE CancelStop
  <2>1. t' \in TradeType
    BY <1>5, TradePCType DEF CancelStop, TradePC
  <2>2. stop' \in [Legs -> Stops] /\ trigger' \in [Legs -> 0 .. MaxLevel]
    BY <1>5 DEF CancelStop, Stops
  <2>3. suspect' \in SUBSET Legs
    BY <1>0, <1>5 DEF CancelStop
  <2>4. used' \in [Bounds -> Nat]
    BY <1>5, FaultCounted DEF CancelStop
  <2>5. QED
    BY <1>5, <2>1, <2>2, <2>3, <2>4 DEF CancelStop
<1>6. CASE SellRest
  <2>1. t' \in TradeType
    BY <1>6, TradePCType DEF SellRest, TradePC
  <2>2. selling' \in [Securities -> Nat]
    BY <1>0, <1>6, SecurityNames DEF SellRest, Rest, TradeType
  <2>3. used' \in [Bounds -> Nat]
    BY <1>6, FaultCounted DEF SellRest
  <2>4. QED
    BY <1>6, <2>1, <2>2, <2>3 DEF SellRest
<1>7. CASE CloseRow
  <2>1. [TradeIdle EXCEPT !.pc = "reverse"] \in TradeType
    BY IdleTypes DEF TradeType, TradePC
  <2>2. t' \in TradeType
    BY <1>7, <2>1, IdleTypes DEF CloseRow
  <2>3. row' \in [Legs -> RowType]
    BY <1>0, <1>7 DEF CloseRow
  <2>4. QED
    BY <1>7, <2>2, <2>3 DEF CloseRow
<1>8. QED
  BY <1>1, <1>2, <1>3, <1>4, <1>5, <1>6, <1>7 DEF Monitor

\* The steps of the exit thread keep the types.
LEMMA ExitThreadType == TypeOK /\ ExitThread => TypeOK'
<1> SUFFICES ASSUME TypeOK, ExitThread PROVE TypeOK'
  OBVIOUS
<1> USE ConstantsAssumption DEF TypeOK, brokerVars, exitVars, histVars
<1>1. CASE ReadPositions
  BY <1>1, IdleTypes DEF ReadPositions, ExitType, ExitPC
<1>2. CASE Judge
  <2>1. x' \in ExitType
    BY <1>2, IdleTypes DEF Judge, ExitType, ExitPC
  <2>2. used' \in [Bounds -> Nat]
    BY <1>2, SpendType, BoundNames DEF Judge
  <2>3. QED
    BY <1>2, <2>1, <2>2 DEF Judge
<1>3. CASE CancelPending
  <2>1. x' \in ExitType
    BY <1>3 DEF CancelPending, ExitType, ExitPC
  <2>2. stop' \in [Legs -> Stops] /\ trigger' \in [Legs -> 0 .. MaxLevel]
    BY <1>3 DEF CancelPending, Stops
  <2>3. buying' \in [Securities -> Nat] /\ selling' \in [Securities -> Nat]
    BY <1>3 DEF CancelPending
  <2>4. suspect' \in SUBSET Legs
    BY <1>3 DEF CancelPending
  <2>5. used' \in [Bounds -> Nat]
    BY <1>3, FaultCounted DEF CancelPending
  <2>6. QED
    BY <1>3, <2>1, <2>2, <2>3, <2>4, <2>5 DEF CancelPending
<1>4. CASE Squared
  BY <1>4, IdleTypes DEF Squared, ExitIdle, ExitType, ExitPC
<1>5. CASE ActivateKillSwitch
  BY <1>5, IdleTypes DEF ActivateKillSwitch
<1>6. ASSUME NEW s \in Securities, LookUp(s) PROVE TypeOK'
  <2>1. used' \in [Bounds -> Nat]
    BY <1>6, SpendType, BoundNames DEF LookUp
  <2>2. x' \in ExitType
    <3>1. CASE x' = [x EXCEPT !.todo = @ \ {s}]
      BY <3>1 DEF ExitType
    <3>2. ASSUME NEW known \in BOOLEAN,
                 x' = [x EXCEPT !.todo = @ \ {s}, !.manual = @ \/ ~known]
          PROVE  x' \in ExitType
      BY <3>2 DEF ExitType
    <3>3. Recorded(s, x.snapshot[s]) \in BOOLEAN
      BY DEF Recorded
    <3>4. QED
      BY <1>6, <3>1, <3>2, <3>3 DEF LookUp
  <2>3. QED
    BY <1>6, <2>1, <2>2 DEF LookUp
<1>7. ASSUME NEW s \in Securities, Square(s) PROVE TypeOK'
  <2>1. used' \in [Bounds -> Nat]
    BY <1>7, RefusedCounted DEF Square
  <2>2. QED
    BY <1>7, <2>1 DEF Square, ExitType
<1>8. QED
  BY <1>1, <1>2, <1>3, <1>4, <1>5, <1>6, <1>7 DEF ExitThread

\* The steps of the exchange keep the types.
LEMMA BrokerType == TypeOK /\ Broker => TypeOK'
<1> SUFFICES ASSUME TypeOK, Broker PROVE TypeOK'
  OBVIOUS
<1> USE ConstantsAssumption DEF TypeOK, brokerVars, exitVars, histVars
<1>1. ASSUME NEW s \in Securities, FillBuy(s) \/ FillSell(s) PROVE TypeOK'
  BY <1>1 DEF FillBuy, FillSell
<1>2. ASSUME NEW l \in Legs, TriggerStop(l) \/ FillStop(l) PROVE TypeOK'
  <2>1. CASE TriggerStop(l)
    BY <2>1 DEF TriggerStop, Stops
  <2>2. CASE FillStop(l)
    BY <2>2, SecurityNames DEF FillStop, Stops
  <2>3. QED
    BY <1>2, <2>1, <2>2
<1>3. CASE Reject
  <2>1. used' \in [Bounds -> Nat]
    BY <1>3, SpendType DEF Reject, Bounds
  <2>2. ASSUME NEW s \in Securities, RejectBuy(s) \/ RejectSell(s)
        PROVE TypeOK'
    BY <1>3, <2>1, <2>2 DEF Reject, RejectBuy, RejectSell
  <2>3. ASSUME NEW l \in Legs, RejectStop(l) PROVE TypeOK'
    BY <1>3, <2>1, <2>3 DEF Reject, RejectStop, Stops
  <2>4. QED
    BY <1>3, <2>2, <2>3 DEF Reject
<1>4. QED
  BY <1>1, <1>2, <1>3 DEF Broker

\* The clock, the owner, exceptions and restarts keep the types.
LEMMA EnvironmentType == TypeOK /\ Environment => TypeOK'
<1> SUFFICES ASSUME TypeOK, Environment PROVE TypeOK'
  OBVIOUS
<1> USE ConstantsAssumption DEF TypeOK, brokerVars, exitVars, histVars
<1>1. ASSUME NEW l \in Legs, Expire(l) PROVE TypeOK'
  BY <1>1 DEF Expire, RowType
<1>2. CASE OwnerOrders
  <2>1. used' \in [Bounds -> Nat]
    BY <1>2, SpendType, BoundNames DEF OwnerOrders
  <2>2. buying' \in [Securities -> Nat]
    BY <1>2, SecurityNames DEF OwnerOrders
  <2>3. QED
    BY <1>2, <2>1, <2>2 DEF OwnerOrders
<1>3. CASE Restart
  <2>1. used' \in [Bounds -> Nat]
    BY <1>3, SpendType, BoundNames DEF Restart
  <2>2. lost' \in Nat
    BY <1>3 DEF Restart
  <2>3. QED
    BY <1>3, <2>1, <2>2, IdleTypes DEF Restart
<1>4. CASE TradeFault
  <2>1. used' \in [Bounds -> Nat]
    BY <1>4, SpendType, BoundNames DEF TradeFault
  <2>2. QED
    BY <1>4, <2>1, IdleTypes DEF TradeFault
<1>5. CASE ExitFault
  <2>1. used' \in [Bounds -> Nat]
    BY <1>5, SpendType, BoundNames DEF ExitFault
  <2>2. QED
    BY <1>5, <2>1, IdleTypes DEF ExitFault
<1>6. QED
  BY <1>1, <1>2, <1>3, <1>4, <1>5 DEF Environment

\* Every step keeps the types.
LEMMA NextType == TypeOK /\ [Next]_vars => TypeOK'
<1>1. TypeOK /\ UNCHANGED vars => TypeOK'
  BY DEF TypeOK, vars, brokerVars, exitVars, histVars
<1>2. QED
  BY <1>1, EntryType, MonitorType, ExitThreadType, BrokerType,
     EnvironmentType DEF Next, TradeThread

\* In every reachable state, the records, the broker's books and the
\* threads' locals are of their types; in particular the stop of a row never
\* leaves the ladder of execute_trades_util.
THEOREM TypeCorrect == Spec => []TypeOK
  BY InitType, NextType, PTL DEF Spec
-----------------------------------------------------------------------------
(* No naked short without a cause.                                         *)

\* ShortHasCause is not inductive: the stop and the market sell of the trade
\* thread each take one unit away, so between the BUY and the stop, and
\* between the cancelled stop and the sell, there must be one to take.
OwesOne(l) ==
  /\ t.leg = l
  /\ t.pc \in {"bought", "arm"} \/ (t.pc = "sell" /\ t.remaining = 1)

Covered ==
  \A l \in Legs \ suspect :
    /\ Exposure(l) >= 0
    /\ OwesOne(l) => Exposure(l) >= 1

\* Covered is the stronger.
LEMMA CoveredImpliesCause == TypeOK /\ Covered => ShortHasCause
<1> SUFFICES ASSUME TypeOK, Covered, NEW l \in Legs, l \notin suspect
             PROVE  ~(Exposure(l) < 0)
  BY DEF ShortHasCause
<1>1. Exposure(l) \in Int /\ Exposure(l) >= 0
  BY SecurityNames DEF Covered, TypeOK, Exposure, StopOpen
<1>2. QED
  BY <1>1

\* Nothing is held and nothing is owed when the day begins.
LEMMA InitCovered == Init => Covered
  BY SecurityNames DEF Init, Covered, Exposure, StopOpen, OwesOne, TradeIdle

\* An action that leaves the orders and the positions alone, and whose next
\* step is not one that owes a unit (or already owed it), keeps Covered.
LEMMA QuietCovered ==
  ASSUME Covered, UNCHANGED <<pos, buying, selling, stop>>,
         suspect \subseteq suspect',
         \A l \in Legs : OwesOne(l)' => OwesOne(l)
  PROVE  Covered'
  BY DEF Covered, Exposure, StopOpen

\* An action that leaves the trade thread where it is keeps Covered if no
\* leg that is above suspicion after it loses exposure.
LEMMA GrowingCovered ==
  ASSUME TypeOK, TypeOK', Covered, t' = t, suspect \subseteq suspect',
         \A l \in Legs \ suspect' : Exposure(l)' >= Exposure(l)
  PROVE  Covered'
<1>1. ASSUME NEW l \in Legs \ suspect'
      PROVE  Exposure(l) \in Int /\ Exposure(l)' \in Int
  BY SecurityNames DEF TypeOK, Exposure, StopOpen
<1>2. QED
  BY <1>1 DEF Covered, OwesOne

\* The trade thread sells, or arms a stop, only where a unit is owed to it.
LEMMA TradeThreadCovered == TypeOK /\ TypeOK' /\ Covered /\ TradeThread => Covered'
<1> SUFFICES ASSUME TypeOK, TypeOK', Covered, TradeThread PROVE Covered'
  OBVIOUS
<1> USE SecurityNames DEF brokerVars, exitVars, histVars
<1>1. ASSUME NEW l \in Legs, NEW from, Buy(l, from) PROVE Covered'
  <2>1. CASE t' = TradeIdle /\ UNCHANGED <<buying, suspect>>
    BY <1>1, <2>1, QuietCovered DEF Buy, OwesOne, TradeIdle
  <2>2. CASE /\ t' = [TradeIdle EXCEPT !.pc = "bought", !.leg = l]
             /\ buying' = [buying EXCEPT ![l] = @ + 1]
             /\ suspect' = suspect
    <3>1. \A k \in Legs : Exposure(k) \in Int
      BY DEF TypeOK, Exposure, StopOpen
    <3>2. Exposure(l)' = Exposure(l) + 1
      BY <1>1, <2>2 DEF Buy, Exposure, StopOpen, TypeOK
    <3>3. \A k \in Legs \ {l} : Exposure(k)' = Exposure(k)
      BY <1>1, <2>2 DEF Buy, Exposure, StopOpen, TypeOK
    <3>4. \A k \in Legs \ {l} : ~OwesOne(k)'
      BY <2>2 DEF OwesOne, TradeIdle
    <3>5. QED
      BY <2>2, <3>1, <3>2, <3>3, <3>4 DEF Covered
  <2>3. CASE /\ t' = [TradeIdle EXCEPT !.pc = "bought", !.leg = l]
             /\ buying' = buying /\ suspect' = suspect \cup {l}
    <3>1. \A k \in Legs : Exposure(k)' = Exposure(k)
      BY <1>1, <2>3 DEF Buy, Exposure, StopOpen
    <3>2. \A k \in Legs \ {l} : ~OwesOne(k)'
      BY <2>3 DEF OwesOne, TradeIdle
    <3>3. QED
      BY <2>3, <3>1, <3>2 DEF Covered
  <2>4. QED
    BY <1>1, <2>1, <2>2, <2>3 DEF Buy
<1>2. ASSUME NEW l \in Legs, NEW same, SaveRow(l, same) PROVE Covered'
  BY <1>2, QuietCovered DEF SaveRow, OwesOne, TypeOK, TradeType
<1>3. ASSUME NEW l \in Legs, Arm(l) PROVE Covered'
  <2>1. CASE UNCHANGED stop
    BY <1>3, <2>1, QuietCovered DEF Arm, OwesOne, TradeIdle, TypeOK, TradeType
  <2>2. CASE stop' = [stop EXCEPT ![l] = "pending"] /\ t'.pc \in {"armed", "unlisted"}
    <3>1. \A k \in Legs : Exposure(k) \in Int
      BY DEF TypeOK, Exposure, StopOpen
    <3>2. Exposure(l)' >= Exposure(l) - 1
      BY <1>3, <2>2 DEF Arm, Exposure, StopOpen, TypeOK
    <3>3. \A k \in Legs \ {l} : Exposure(k)' = Exposure(k)
      BY <1>3, <2>2 DEF Arm, Exposure, StopOpen, TypeOK
    <3>4. OwesOne(l) /\ \A k \in Legs : ~OwesOne(k)'
      BY <1>3, <2>2 DEF Arm, OwesOne, TypeOK, TradeType
    <3>5. suspect' = suspect
      BY <1>3 DEF Arm
    <3>6. Exposure(l)' \in Int
      BY DEF TypeOK, Exposure, StopOpen
    <3>7. QED
      BY <3>1, <3>2, <3>3, <3>4, <3>5, <3>6 DEF Covered
  <2>3. QED
    BY <1>3, <2>1, <2>2 DEF Arm, TypeOK, TradeType
<1>4. ASSUME NEW l \in Legs, SaveIds(l) PROVE Covered'
  BY <1>4, QuietCovered DEF SaveIds, OwesOne, TradeIdle
<1>5. CASE SkipDay \/ EnterPut
  BY <1>5, QuietCovered DEF SkipDay, EnterPut, OwesOne, TypeOK, TradeType
<1>6. ASSUME NEW l \in Legs, Look(l) PROVE Covered'
  BY <1>6, QuietCovered DEF Look, OwesOne, TradeIdle
<1>7. CASE Trail \/ Modify \/ Decide
  BY <1>7, QuietCovered
  DEF Trail, Modify, Decide, OwesOne, TradeIdle, TypeOK, TradeType
<1>8. CASE CancelStop
  <2>0. PICK l \in Legs : l = t.leg
    BY DEF TypeOK, TradeType
  <2>1. \A k \in Legs : Exposure(k) \in Int /\ Exposure(k)' \in Int
    BY DEF TypeOK, Exposure, StopOpen
  <2>2. \A k \in Legs \ {l} : Exposure(k)' = Exposure(k) /\ ~OwesOne(k)'
    BY <1>8, <2>0 DEF CancelStop, Exposure, StopOpen, OwesOne, TypeOK, TradeType
  <2>3. suspect \subseteq suspect'
    BY <1>8 DEF CancelStop
  <2>4. CASE l \in Pending \cup Triggered /\ stop' = [stop EXCEPT ![l] = "gone"]
    <3>1. Exposure(l)' = Exposure(l) + 1
      BY <1>8, <2>0, <2>4 DEF CancelStop, Exposure, StopOpen, TypeOK, Pending, Triggered
    <3>2. QED
      BY <2>1, <2>2, <2>3, <3>1 DEF Covered
  <2>5. CASE UNCHANGED stop /\ suspect' = IF t.remaining > 0 THEN suspect \cup {l} ELSE suspect
    <3>1. Exposure(l)' = Exposure(l)
      BY <1>8, <2>5 DEF CancelStop, Exposure, StopOpen
    <3>2. l \in suspect' \/ ~OwesOne(l)'
      BY <1>8, <2>0, <2>5 DEF CancelStop, OwesOne, TypeOK, TradeType
    <3>3. QED
      BY <2>1, <2>2, <2>3, <3>1, <3>2 DEF Covered
  <2>6. QED
    BY <1>8, <2>0, <2>4, <2>5 DEF CancelStop
<1>9. CASE SellRest
  <2>0. PICK l \in Legs : l = t.leg
    BY DEF TypeOK, TradeType
  <2>1. CASE selling' = selling
    BY <1>9, <2>1, QuietCovered DEF SellRest, OwesOne, TypeOK, TradeType
  <2>2. CASE t.remaining = 1 /\ selling' = [selling EXCEPT ![l] = @ + 1]
    <3>1. \A k \in Legs : Exposure(k) \in Int
      BY DEF TypeOK, Exposure, StopOpen
    <3>2. /\ selling' = [selling EXCEPT ![l] = @ + 1]
          /\ UNCHANGED <<pos, buying, stop, suspect>>
      BY <1>9, <2>2 DEF SellRest
    <3>3. Exposure(l)' = Exposure(l) - 1
      BY <3>2 DEF Exposure, StopOpen, TypeOK
    <3>4. \A k \in Legs \ {l} : Exposure(k)' = Exposure(k)
      BY <3>2 DEF Exposure, StopOpen, TypeOK
    <3>5. OwesOne(l) /\ \A k \in Legs : ~OwesOne(k)'
      BY <1>9, <2>0, <2>2 DEF SellRest, OwesOne, TypeOK, TradeType
    <3>6. QED
      BY <3>1, <3>2, <3>3, <3>4, <3>5 DEF Covered
  <2>3. t.remaining \in {0, 1}
    BY DEF TypeOK, TradeType
  <2>4. QED
    BY <1>9, <2>0, <2>1, <2>2, <2>3 DEF SellRest, Rest
<1>10. CASE CloseRow
  BY <1>10, QuietCovered DEF CloseRow, OwesOne, TradeIdle
<1>11. "PE" \in Legs /\ "CE" \in Legs
  BY DEF Legs
<1>12. QED
  BY <1>1, <1>2, <1>3, <1>4, <1>5, <1>6, <1>7, <1>8, <1>9, <1>10, <1>11
  DEF TradeThread, Entry, Reverse, Monitor, BuyPut, BuyCall, SavePut, SaveCall,
      ArmPut, ArmCall, SavePutIds, SaveCallIds

\* The exit thread cancels what would sell, and marks what it sells or cancels
\* of the buys.
LEMMA ExitThreadCovered == TypeOK /\ TypeOK' /\ Covered /\ ExitThread => Covered'
<1> SUFFICES ASSUME TypeOK, TypeOK', Covered, ExitThread PROVE Covered'
  OBVIOUS
<1> USE SecurityNames DEF brokerVars, exitVars, histVars
<1>1. CASE ReadPositions \/ Judge \/ Squared \/ ActivateKillSwitch
  BY <1>1, QuietCovered
  DEF ReadPositions, Judge, Squared, ActivateKillSwitch, OwesOne
<1>2. ASSUME NEW s \in Securities, LookUp(s) PROVE Covered'
  BY <1>2, QuietCovered DEF LookUp, OwesOne
<1>3. CASE CancelPending
  <2>1. PICK gone \in SUBSET Legs, hit \in SUBSET Securities :
          /\ stop' = [l \in Legs |-> IF l \in gone THEN "gone" ELSE stop[l]]
          /\ buying' = [s \in Securities |-> IF s \in hit THEN 0 ELSE buying[s]]
          /\ selling' = [s \in Securities |-> IF s \in hit THEN 0 ELSE selling[s]]
          /\ suspect' = suspect \cup {l \in Legs \cap hit : buying[l] > 0}
    BY <1>3 DEF CancelPending, Pending, Triggered
  <2>2. pos' = pos /\ t' = t
    BY <1>3 DEF CancelPending
  <2>3. ASSUME NEW l \in Legs \ suspect'
        PROVE  Exposure(l)' >= Exposure(l)
    <3>1. buying[l]' = buying[l]
      BY <2>1, <2>3 DEF TypeOK
    <3>2. selling[l]' <= selling[l]
      BY <2>1 DEF TypeOK
    <3>3. StopOpen(l)' <= StopOpen(l)
      BY <2>1 DEF StopOpen, TypeOK
    <3>4. pos[l]' = pos[l] /\ pos[l] \in Int /\ buying[l] \in Int
          /\ selling[l] \in Int /\ selling[l]' \in Int
          /\ StopOpen(l) \in Int /\ StopOpen(l)' \in Int
      BY <2>2 DEF TypeOK, StopOpen
    <3>5. QED
      BY <3>1, <3>2, <3>3, <3>4 DEF Exposure
  <2>4. QED
    BY <2>1, <2>2, <2>3, GrowingCovered
<1>4. ASSUME NEW s \in Securities, Square(s) PROVE Covered'
  <2>1. pos' = pos /\ stop' = stop /\ t' = t /\ suspect \subseteq suspect'
    BY <1>4 DEF Square
  <2>2. ASSUME NEW l \in Legs \ suspect'
        PROVE  buying[l]' >= buying[l] /\ selling[l]' = selling[l]
    BY <1>4, <2>2 DEF Square, TypeOK, ExitType
  <2>3. ASSUME NEW l \in Legs \ suspect' PROVE Exposure(l)' >= Exposure(l)
    BY <2>1, <2>2 DEF Exposure, StopOpen, TypeOK
  <2>4. QED
    BY <2>1, <2>3, GrowingCovered
<1>5. QED
  BY <1>1, <1>2, <1>3, <1>4 DEF ExitThread

\* Fills move quantity from an order to the position; rejections only take
\* sells away, or mark the leg whose buy they take.
LEMMA OutsideCovered ==
  TypeOK /\ TypeOK' /\ Covered /\ (Broker \/ Environment) => Covered'
<1> SUFFICES ASSUME TypeOK, TypeOK', Covered, Broker \/ Environment
             PROVE  Covered'
  OBVIOUS
<1> USE SecurityNames DEF brokerVars, exitVars, histVars
<1>1. ASSUME NEW s \in Securities, FillBuy(s) \/ FillSell(s) PROVE Covered'
  <2>1. \A l \in Legs : Exposure(l)' = Exposure(l)
    BY <1>1 DEF FillBuy, FillSell, Exposure, StopOpen, TypeOK
  <2>2. QED
    BY <1>1, <2>1 DEF FillBuy, FillSell, Covered, OwesOne
<1>2. ASSUME NEW k \in Legs, TriggerStop(k) \/ FillStop(k) PROVE Covered'
  <2>1. \A l \in Legs : Exposure(l)' = Exposure(l)
    BY <1>2 DEF TriggerStop, FillStop, Pending, Triggered, Exposure, StopOpen, TypeOK
  <2>2. QED
    BY <1>2, <2>1 DEF TriggerStop, FillStop, Covered, OwesOne
<1>3. CASE Reject
  <2>1. pos' = pos /\ t' = t
    BY <1>3 DEF Reject
  <2>2. ASSUME NEW s \in Securities, RejectBuy(s) \/ RejectSell(s) PROVE Covered'
    <3>1. ASSUME NEW l \in Legs \ suspect' PROVE Exposure(l)' >= Exposure(l)
      BY <2>1, <2>2, <3>1 DEF RejectBuy, RejectSell, Exposure, StopOpen, TypeOK
    <3>2. QED
      BY <2>1, <2>2, <3>1, GrowingCovered DEF RejectBuy, RejectSell
  <2>3. ASSUME NEW k \in Legs, RejectStop(k) PROVE Covered'
    <3>1. ASSUME NEW l \in Legs \ suspect' PROVE Exposure(l)' >= Exposure(l)
      BY <2>1, <2>3 DEF RejectStop, Exposure, StopOpen, TypeOK
    <3>2. QED
      BY <2>1, <2>3, <3>1, GrowingCovered DEF RejectStop
  <2>4. QED
    BY <1>3, <2>2, <2>3 DEF Reject
<1>4. ASSUME NEW l \in Legs, Expire(l) PROVE Covered'
  BY <1>4, QuietCovered DEF Expire, OwesOne
<1>5. CASE OwnerOrders
  <2>1. Manual \notin Legs
    BY DEF Manual, Legs
  <2>2. \A l \in Legs : Exposure(l)' = Exposure(l)
    BY <1>5, <2>1 DEF OwnerOrders, Exposure, StopOpen, TypeOK
  <2>3. QED
    BY <1>5, <2>2 DEF OwnerOrders, Covered, OwesOne
<1>6. CASE Restart \/ TradeFault
  BY <1>6, QuietCovered DEF Restart, TradeFault, OwesOne, TradeIdle
<1>7. CASE ExitFault
  BY <1>7, QuietCovered DEF ExitFault, OwesOne
<1>8. QED
  BY <1>1, <1>2, <1>3, <1>4, <1>5, <1>6, <1>7 DEF Broker, Environment

\* Every step keeps Covered.
LEMMA NextCovered == TypeOK /\ TypeOK' /\ Covered /\ [Next]_vars => Covered'
<1>1. Covered /\ UNCHANGED vars => Covered'
  BY DEF Covered, Exposure, StopOpen, OwesOne, vars, brokerVars, exitVars, histVars
<1>2. QED
  BY <1>1, TradeThreadCovered, ExitThreadCovered, OutsideCovered DEF Next

\* Whatever the bounds on exceptions, rejections, restarts and alarms, the
\* orders of a leg never sell more than was bought without one of the three
\* causes named at ShortHasCause.
THEOREM NoShortWithoutCause == Spec => []ShortHasCause
<1>1. Init => Covered
  BY InitCovered
<1>2. TypeOK /\ TypeOK' /\ Covered /\ [Next]_vars => Covered'
  BY NextCovered
<1>3. TypeOK /\ Covered => ShortHasCause
  BY CoveredImpliesCause
<1>4. QED
  BY <1>1, <1>2, <1>3, TypeCorrect, PTL DEF Spec
-----------------------------------------------------------------------------
(* The records of a day: entries, the reverse call, and the broker's stop. *)

\* What a monitoring pass runs through.
Passing == {"trail", "modify", "decide", "cancel", "sell", "close", "abandon"}
OnPut   == t.pc \in Passing /\ t.leg = "PE"

\* EntriesAreBounded is not inductive: that a put is bought only without a
\* row, and which of the accepted entries have one, has to be carried along.
PutOnce ==
  /\ t.pc = "buy" \/ LosesEntry => row["PE"].status = "none"
  /\ buys["PE"] <= lost + 1
  /\ row["PE"].status = "none" /\ ~LosesEntry => buys["PE"] <= lost

\* Until the put's row is closed and its last pass is over there is no call.
BuysCall == t.pc = "bought" /\ t.leg = "CE"
CallOnce ==
  /\ buys["CE"] <= 1
  /\ row["PE"].status # "exit" \/ OnPut \/ t.pc = "reverse" =>
       buys["CE"] = 0 /\ row["CE"].status = "none"
  /\ t.pc = "reverse" \/ BuysCall =>
       row["PE"].status = "exit" /\ row["CE"].status = "none"

\* A pass, and the arming of a stop, work on a row that exists; a pass, on
\* one that has been given its ids.
RowExists ==
  /\ t.pc \in Passing \cup {"arm"} => row[t.leg].status # "none"
  /\ t.pc \in Passing => row[t.leg].ids # "none"
  /\ t.pc = "arm" => row[t.leg].ids = "none"

\* There is no stop before there is a row, nor before it is armed.
Arming(l)   == t.pc = "arm" /\ t.leg = l
NoEarlyStop ==
  \A l \in Legs : row[l].status = "none" \/ Arming(l) => stop[l] = "none"

\* Only a call that failed leaves a pending stop that its row does not name.
Unlisted(l) == t.pc = "unlisted" /\ t.leg = l
StopNamed   ==
  \A l \in Legs :
    stop[l] = "pending" /\ (row[l].ids = "empty" \/ Unlisted(l)) => used.faults > 0

DayInv == PutOnce /\ CallOnce /\ RowExists /\ NoEarlyStop /\ StopNamed /\ StopFollowsRow
\* The day begins without rows, orders or stops.
LEMMA InitDay == Init => DayInv
<1> SUFFICES ASSUME Init PROVE DayInv
  OBVIOUS
<1>1. "PE" \in Legs /\ "CE" \in Legs
  BY DEF Legs
<1>2. t.pc = "idle" /\ t.leg = "PE" /\ \A l \in Legs : row[l].status = "none"
  BY DEF Init, TradeIdle, NoRow
<1>3. buys["PE"] = 0 /\ buys["CE"] = 0 /\ lost = 0 /\ \A l \in Legs : stop[l] = "none"
  BY <1>1 DEF Init
<1>4. QED
  BY <1>1, <1>2, <1>3 DEF DayInv, PutOnce, LosesEntry, CallOnce, OnPut, BuysCall,
     Passing, RowExists, NoEarlyStop, Arming, StopNamed, StopFollowsRow

\* What a step has spent of the bounds on faults and restarts only grows.
Counted == used'.faults >= used.faults /\ used'.restarts >= used.restarts

\* A step that spends nothing, or no more than a failed call.
LEMMA CallCounted ==
  ASSUME TypeOK, used' = used \/ Spend("faults", MaxFaults) \/ Refused
  PROVE  Counted
<1>1. used \in [Bounds -> Nat] /\ used.faults \in Nat /\ used.restarts \in Nat
  BY BoundNames DEF TypeOK
<1>2. CASE used' = used
  BY <1>1, <1>2 DEF Counted
<1>3. CASE Spend("faults", MaxFaults)
  BY <1>1, <1>3, FaultCounted DEF Counted
<1>4. CASE Refused
  BY <1>1, <1>4, RefusedCounted DEF Counted
<1>5. QED
  BY <1>2, <1>3, <1>4

\* The rows' stops and ids stay as they are, and the broker's stops too unless
\* they go.
StopsStay ==
  /\ \A l \in Legs : row'[l].sl = row[l].sl /\ row'[l].ids = row[l].ids
  /\ \A l \in Legs : \/ stop'[l] = stop[l] /\ trigger'[l] = trigger[l]
                     \/ stop'[l] # "pending" /\ stop[l] # "none"

\* A step at which the stops stay, and which is not part of arming, listing or
\* modifying one, keeps what is known about them.
LEMMA StopsKept ==
  ASSUME TypeOK, TypeOK', DayInv, Counted, StopsStay,
         \A l \in Legs : Modifying(l) => Modifying(l)',
         \A l \in Legs : Unlisted(l)' => Unlisted(l),
         \A l \in Legs : row'[l].status = "none" \/ Arming(l)' =>
                        row[l].status = "none" \/ Arming(l)
  PROVE  NoEarlyStop' /\ StopNamed' /\ StopFollowsRow'
<1>0. /\ used.faults \in Nat /\ used.restarts \in Nat
      /\ used'.faults \in Nat /\ used'.restarts \in Nat
  BY BoundNames DEF TypeOK
<1>1. NoEarlyStop'
  BY DEF StopsStay, DayInv, NoEarlyStop
<1>2. StopNamed'
  BY <1>0 DEF StopsStay, Counted, DayInv, StopNamed
<1>3. StopFollowsRow'
  <2>1. used'.faults + used'.restarts = 0 => used.faults + used.restarts = 0
    BY <1>0 DEF Counted
  <2>2. QED
    BY <2>1 DEF StopsStay, DayInv, StopFollowsRow
<1>4. QED
  BY <1>1, <1>2, <1>3

\* The steps of the other actors change neither the rows' states, stops and
\* ids nor the trade thread; those of the broker only take stops away.
Apart ==
  /\ t' = t /\ buys' = buys /\ lost' = lost
  /\ \A l \in Legs : row'[l].status = row[l].status
  /\ StopsStay
  /\ Counted

\* A step apart keeps DayInv.
LEMMA ApartDay == TypeOK /\ TypeOK' /\ DayInv /\ Apart => DayInv'
<1> SUFFICES ASSUME TypeOK, TypeOK', DayInv, Apart PROVE DayInv'
  OBVIOUS
<1>0. "PE" \in Legs /\ "CE" \in Legs /\ t.leg \in Legs
  BY DEF Legs, TypeOK, TradeType
<1>1. PutOnce'
  BY <1>0 DEF Apart, DayInv, PutOnce, LosesEntry
<1>2. CallOnce'
  BY <1>0 DEF Apart, DayInv, CallOnce, OnPut, BuysCall
<1>3. RowExists'
  BY <1>0 DEF Apart, StopsStay, DayInv, RowExists
<1>4. NoEarlyStop' /\ StopNamed' /\ StopFollowsRow'
  BY StopsKept DEF Apart, Modifying, Unlisted, Arming
<1>5. QED
  BY <1>1, <1>2, <1>3, <1>4 DEF DayInv

\* Everything but the trade thread, its exceptions and its restarts is apart.
LEMMA OthersApart ==
  TypeOK /\ TypeOK' /\ (ExitThread \/ Broker \/ OwnerOrders \/ ExitFault \/ \E l \in Legs : Expire(l))
    => Apart
<1> SUFFICES ASSUME TypeOK, TypeOK',
                    ExitThread \/ Broker \/ OwnerOrders \/ ExitFault \/ \E l \in Legs : Expire(l)
             PROVE  Apart
  OBVIOUS
<1> USE SecurityNames, BoundNames DEF brokerVars, exitVars, histVars
<1>0. used.faults \in Nat /\ used.restarts \in Nat
  BY DEF TypeOK
<1>1. CASE ReadPositions \/ Judge \/ Squared \/ ActivateKillSwitch
  <2>1. Counted
    <3>1. CASE Judge
      BY <1>0, <3>1 DEF Judge, Spend, Counted, TypeOK
    <3>2. CASE ReadPositions \/ Squared \/ ActivateKillSwitch
      <4>1. used' = used
        BY <3>2 DEF ReadPositions, Squared, ActivateKillSwitch
      <4>2. QED
        BY <1>0, <4>1 DEF Counted
    <3>3. QED
      BY <1>1, <3>1, <3>2
  <2>2. UNCHANGED <<t, row, buys, lost, stop, trigger>>
    BY <1>1 DEF ReadPositions, Judge, Squared, ActivateKillSwitch
  <2>3. QED
    BY <2>1, <2>2 DEF Apart, StopsStay
<1>2. ASSUME NEW s \in Securities, LookUp(s) \/ Square(s) PROVE Apart
  <2>1. UNCHANGED <<t, row, buys, lost, stop, trigger>>
    BY <1>2 DEF LookUp, Square
  <2>2. used' = used \/ Spend("faults", MaxFaults) \/ Refused
    BY <1>2 DEF LookUp, Square
  <2>3. Counted
    BY <2>2, CallCounted
  <2>4. QED
    BY <2>1, <2>3 DEF Apart, StopsStay
<1>3. CASE CancelPending
  <2>1. UNCHANGED <<t, row, buys, lost>>
    BY <1>3 DEF CancelPending
  <2>2. Counted
    BY <1>3, CallCounted DEF CancelPending
  <2>3. PICK gone \in SUBSET (Pending \cup Triggered) :
          /\ stop' = [l \in Legs |-> IF l \in gone THEN "gone" ELSE stop[l]]
          /\ trigger' = [l \in Legs |-> IF l \in gone THEN 0 ELSE trigger[l]]
    BY <1>3 DEF CancelPending
  <2>4. QED
    BY <2>1, <2>2, <2>3 DEF Apart, StopsStay, Pending, Triggered
<1>4. ASSUME NEW s \in Securities, FillBuy(s) \/ FillSell(s) PROVE Apart
  BY <1>0, <1>4 DEF FillBuy, FillSell, Apart, StopsStay, Counted, TypeOK
<1>5. ASSUME NEW l \in Legs, TriggerStop(l) \/ FillStop(l) PROVE Apart
  BY <1>0, <1>5 DEF TriggerStop, FillStop, Pending, Triggered, Apart, StopsStay, Counted, TypeOK
<1>6. CASE Reject
  BY <1>0, <1>6 DEF Reject, Spend, RejectBuy, RejectSell, RejectStop, Pending,
     Triggered, Apart, StopsStay, Counted, TypeOK
<1>7. CASE OwnerOrders \/ ExitFault
  <2>1. Counted
    <3>1. CASE OwnerOrders
      BY <1>0, <3>1 DEF OwnerOrders, Spend, Counted, TypeOK
    <3>2. CASE ExitFault
      BY <1>0, <3>2 DEF ExitFault, Spend, Counted, TypeOK
    <3>3. QED
      BY <1>7, <3>1, <3>2
  <2>2. UNCHANGED <<t, row, buys, lost, stop, trigger>>
    BY <1>7 DEF OwnerOrders, ExitFault
  <2>3. QED
    BY <2>1, <2>2 DEF Apart, StopsStay
<1>8. ASSUME NEW l \in Legs, Expire(l) PROVE Apart
  BY <1>0, <1>8 DEF Expire, Apart, StopsStay, Counted, TypeOK, RowType
<1>9. QED
  BY <1>1, <1>2, <1>3, <1>4, <1>5, <1>6, <1>7, <1>8 DEF ExitThread, Broker

\* An exception or a restart takes the trade thread to the head of its loop
\* and counts the entry it cuts off.
LEMMA CutDay == TypeOK /\ TypeOK' /\ DayInv /\ (TradeFault \/ Restart) => DayInv'
<1> SUFFICES ASSUME TypeOK, TypeOK', DayInv, TradeFault \/ Restart PROVE DayInv'
  OBVIOUS
<1> USE BoundNames DEF brokerVars, exitVars, histVars
<1>1. /\ t'.pc = "idle" /\ t'.leg = "PE"
      /\ lost' = IF LosesEntry THEN lost + 1 ELSE lost
      /\ UNCHANGED <<row, stop, trigger, buys>>
  BY DEF TradeFault, Restart, TradeIdle
<1>2. used.faults \in Nat /\ used.restarts \in Nat
  BY DEF TypeOK
<1>3. used'.faults + used'.restarts > 0 /\ Counted
  BY <1>2 DEF TradeFault, Restart, Spend, Counted, TypeOK
<1>4. "PE" \in Legs /\ buys["PE"] \in Nat /\ lost \in Nat
  BY DEF Legs, TypeOK
<1>5. PutOnce'
  BY <1>1, <1>4 DEF DayInv, PutOnce, LosesEntry
<1>6. CallOnce' /\ RowExists' /\ NoEarlyStop'
  BY <1>1 DEF DayInv, CallOnce, OnPut, BuysCall, RowExists, NoEarlyStop, Arming, Passing
<1>7. StopNamed'
  <2>1. used.faults \in Nat /\ used'.faults \in Nat
    BY DEF TypeOK
  <2>2. QED
    BY <1>1, <1>3, <2>1 DEF DayInv, StopNamed, Unlisted, Counted
<1>8. StopFollowsRow'
  BY <1>1, <1>3 DEF DayInv, StopFollowsRow
<1>9. QED
  BY <1>5, <1>6, <1>7, <1>8 DEF DayInv

\* An entry, of the put or of the call, keeps DayInv.
LEMMA EntryDay == TypeOK /\ TypeOK' /\ DayInv /\ (Entry \/ Reverse) => DayInv'
<1> SUFFICES ASSUME TypeOK, TypeOK', DayInv, Entry \/ Reverse PROVE DayInv'
  OBVIOUS
<1> USE DEF brokerVars, exitVars, histVars
<1>0. /\ "PE" \in Legs /\ "CE" \in Legs /\ t.leg \in Legs
      /\ buys["PE"] \in Nat /\ buys["CE"] \in Nat /\ lost \in Nat
  BY DEF Legs, TypeOK, TradeType
<1>1. CASE SkipDay
  <2>1. /\ t.pc = "idle" /\ row["PE"].status = "none"
        /\ row'["PE"].status = "exit" /\ row'["CE"] = row["CE"]
        /\ row'["PE"].sl = row["PE"].sl /\ row'["PE"].ids = row["PE"].ids
        /\ UNCHANGED <<t, buys, lost, stop, trigger, used>>
    BY <1>0, <1>1 DEF SkipDay, TypeOK, RowType
  <2>2. PutOnce' /\ CallOnce' /\ RowExists'
    BY <1>0, <2>1 DEF DayInv, PutOnce, LosesEntry, CallOnce, OnPut, BuysCall,
       Passing, RowExists, Legs
  <2>3. NoEarlyStop' /\ StopNamed' /\ StopFollowsRow'
    BY <2>1, CallCounted, StopsKept DEF StopsStay, Modifying, Unlisted, Arming, Legs
  <2>4. QED
    BY <2>2, <2>3 DEF DayInv
<1>2. CASE EnterPut
  <2>1. /\ t.pc = "idle" /\ row["PE"].status = "none"
        /\ t'.pc = "buy" /\ t'.leg = "PE"
        /\ UNCHANGED <<row, buys, lost, stop, trigger, used>>
    BY <1>2 DEF EnterPut, TypeOK, TradeType
  <2>2. PutOnce' /\ CallOnce' /\ RowExists'
    BY <1>0, <2>1 DEF DayInv, PutOnce, LosesEntry, CallOnce, OnPut, BuysCall,
       Passing, RowExists
  <2>3. NoEarlyStop' /\ StopNamed' /\ StopFollowsRow'
    BY <2>1, CallCounted, StopsKept DEF StopsStay, Modifying, Unlisted, Arming
  <2>4. QED
    BY <2>2, <2>3 DEF DayInv
<1>3. ASSUME NEW l \in Legs, NEW from, Buy(l, from),
             (l = "PE" /\ from = "buy") \/ (l = "CE" /\ from = "reverse")
      PROVE  DayInv'
  <2>1. /\ (l = "PE" /\ t.pc = "buy") \/ (l = "CE" /\ t.pc = "reverse")
        /\ UNCHANGED <<row, lost, stop, trigger>>
        /\ used' = used \/ Refused
    BY <1>3 DEF Buy
  <2>2. \/ t'.pc = "idle" /\ t'.leg = "PE" /\ buys' = buys
        \/ /\ t'.pc = "bought" /\ t'.leg = l
           /\ buys' = buys \/ buys' = [buys EXCEPT ![l] = @ + 1]
    <3>1. CASE t' = TradeIdle
      BY <1>3, <3>1 DEF Buy, TradeIdle
    <3>2. CASE t' = [TradeIdle EXCEPT !.pc = "bought", !.leg = l]
      <4>1. t'.pc = "bought" /\ t'.leg = l
        BY <3>2 DEF TradeIdle
      <4>2. buys' = buys \/ buys' = [buys EXCEPT ![l] = @ + 1]
        BY <1>3 DEF Buy
      <4>3. QED
        BY <4>1, <4>2
    <3>3. QED
      BY <1>3, <3>1, <3>2 DEF Buy
  <2>3. /\ buys'[l] \in {buys[l], buys[l] + 1} /\ \A k \in Legs \ {l} : buys'[k] = buys[k]
        /\ t'.pc = "idle" => buys' = buys
    BY <2>2 DEF TypeOK
  <2>4. PutOnce'
    BY <1>0, <2>1, <2>2, <2>3 DEF DayInv, PutOnce, LosesEntry, Legs
  <2>5. CallOnce'
    BY <1>0, <2>1, <2>2, <2>3 DEF DayInv, PutOnce, CallOnce, OnPut, BuysCall, Passing, Legs
  <2>6. RowExists'
    BY <2>2 DEF RowExists, Passing
  <2>7. NoEarlyStop' /\ StopNamed' /\ StopFollowsRow'
    BY <2>1, <2>2, CallCounted, StopsKept DEF StopsStay, Modifying, Unlisted, Arming
  <2>8. QED
    BY <2>4, <2>5, <2>6, <2>7 DEF DayInv
<1>4. CASE SavePut \/ SaveCall
  <2>1. PICK l \in Legs, same \in BOOLEAN : SaveRow(l, same)
    BY <1>0, <1>4 DEF SavePut, SaveCall
  <2>2. /\ t.pc = "bought" /\ t.leg = l /\ t'.pc = "arm" /\ t'.leg = l
        /\ row'[l].status = "placed" /\ row'[l].sl = 0 /\ row'[l].ids = "none"
        /\ \A k \in Legs \ {l} : row'[k] = row[k]
        /\ UNCHANGED <<buys, lost, stop, trigger, used>>
    BY <2>1 DEF SaveRow, TypeOK, TradeType
  <2>3. row[l].status = "none" /\ stop[l] = "none"
    BY <1>0, <2>2 DEF DayInv, PutOnce, LosesEntry, CallOnce, BuysCall, NoEarlyStop, Legs
  <2>4. PutOnce'
    BY <1>0, <2>2, <2>3 DEF DayInv, PutOnce, LosesEntry, Legs
  <2>5. CallOnce'
    BY <1>0, <2>2, <2>3 DEF DayInv, CallOnce, OnPut, BuysCall, Passing, Legs
  <2>6. RowExists'
    BY <1>0, <2>2, <2>3 DEF DayInv, RowExists, Passing
  <2>7. NoEarlyStop' /\ StopNamed'
    BY <2>2, <2>3 DEF DayInv, NoEarlyStop, Arming, StopNamed, Unlisted
  <2>8. StopFollowsRow'
    BY <2>2, <2>3 DEF DayInv, StopFollowsRow, Modifying
  <2>9. QED
    BY <2>4, <2>5, <2>6, <2>7, <2>8 DEF DayInv
<1>5. CASE ArmPut \/ ArmCall
  <2>1. PICK l \in Legs : Arm(l)
    BY <1>0, <1>5 DEF ArmPut, ArmCall
  <2>2. /\ t.pc = "arm" /\ t.leg = l
        /\ UNCHANGED <<row, buys, lost>>
        /\ used' = used \/ Spend("faults", MaxFaults) \/ Refused
        /\ \/ /\ t'.pc = "idle" \/ (t'.pc = "unlisted" /\ t'.leg = l)
              /\ UNCHANGED <<stop, trigger>>
           \/ /\ \/ t'.pc = "armed"
                 \/ t'.pc = "unlisted" /\ t'.leg = l /\ Spend("faults", MaxFaults)
              /\ stop' = [stop EXCEPT ![l] = "pending"]
              /\ trigger' = [trigger EXCEPT ![l] = row[l].sl]
    BY <2>1 DEF Arm, TradeIdle, TypeOK, TradeType
  <2>3. /\ row[l].status # "none" /\ stop[l] = "none"
        /\ t'.pc \in {"idle", "unlisted", "armed"}
    BY <2>2 DEF DayInv, RowExists, NoEarlyStop, Arming
  <2>4. PutOnce' /\ CallOnce' /\ RowExists'
    BY <1>0, <2>2, <2>3 DEF DayInv, PutOnce, LosesEntry, CallOnce, OnPut, BuysCall, Passing, RowExists
  <2>5. CASE UNCHANGED <<stop, trigger>>
    <3>1. Counted
      BY <2>2, CallCounted
    <3>2. NoEarlyStop' /\ StopFollowsRow' /\ StopNamed'
      <4>1. used.faults \in Nat /\ used.restarts \in Nat
            /\ used'.faults \in Nat /\ used'.restarts \in Nat
        BY BoundNames DEF TypeOK
      <4>2. used'.faults + used'.restarts = 0 => used.faults + used.restarts = 0
        BY <3>1, <4>1 DEF Counted
      <4>3. NoEarlyStop'
        BY <2>2, <2>3, <2>5 DEF DayInv, NoEarlyStop, Arming
      <4>4. StopFollowsRow'
        BY <2>2, <2>5, <4>2 DEF DayInv, StopFollowsRow, Modifying
      <4>5. StopNamed'
        BY <2>2, <2>3, <2>5, <3>1, <4>1 DEF DayInv, StopNamed, Unlisted, Counted
      <4>6. QED
        BY <4>3, <4>4, <4>5
    <3>3. QED
      BY <2>4, <3>2 DEF DayInv
  <2>6. CASE /\ t'.pc \in {"armed", "unlisted"}
             /\ t'.pc = "unlisted" => Spend("faults", MaxFaults)
             /\ stop' = [stop EXCEPT ![l] = "pending"]
             /\ trigger' = [trigger EXCEPT ![l] = row[l].sl]
    <3>1. /\ stop'[l] = "pending" /\ trigger'[l] = row[l].sl
          /\ \A k \in Legs \ {l} : stop'[k] = stop[k] /\ trigger'[k] = trigger[k]
      BY <2>6 DEF TypeOK
    <3>2. /\ used.faults \in Nat /\ used.restarts \in Nat
          /\ used'.faults \in Nat /\ used'.restarts \in Nat
      BY BoundNames DEF TypeOK
    <3>3. Counted /\ (t'.pc = "unlisted" => used'.faults > 0)
      BY <2>2, <2>6, <3>2, CallCounted, FaultCounted DEF TypeOK
    <3>4. row[l].sl \in Nat /\ row[l].ids = "none"
      BY <2>2, ConstantsAssumption DEF DayInv, RowExists, TypeOK, RowType
    <3>5. NoEarlyStop'
      BY <2>2, <2>3, <2>6, <3>1 DEF DayInv, NoEarlyStop, Arming
    <3>6. StopNamed'
      <4>1. ASSUME NEW k \in Legs, stop'[k] = "pending",
                   row'[k].ids = "empty" \/ Unlisted(k)'
            PROVE  used'.faults > 0
        BY <2>2, <2>6, <3>1, <3>2, <3>3, <3>4, <4>1 DEF DayInv, StopNamed, Unlisted, Counted
      <4>2. QED
        BY <4>1 DEF StopNamed
    <3>7. StopFollowsRow'
      <4>1. used'.faults + used'.restarts = 0 => used.faults + used.restarts = 0
        BY <3>2, <3>3 DEF Counted
      <4>2. QED
        BY <2>2, <2>6, <3>1, <3>4, <4>1 DEF DayInv, StopFollowsRow, Modifying
    <3>8. QED
      BY <2>4, <3>5, <3>6, <3>7 DEF DayInv
  <2>7. QED
    BY <2>2, <2>5, <2>6
<1>6. CASE SavePutIds \/ SaveCallIds
  <2>1. PICK l \in Legs : SaveIds(l)
    BY <1>0, <1>6 DEF SavePutIds, SaveCallIds
  <2>2. /\ t.pc \in {"armed", "unlisted"} /\ t.leg = l /\ t'.pc = "idle" /\ t'.leg = "PE"
        /\ UNCHANGED <<buys, lost, stop, trigger, used>>
    BY <2>1 DEF SaveIds, TradeIdle
  <2>3. PICK ids \in Ids :
          /\ row' = [row EXCEPT ![l].ids = ids]
          /\ ids = "empty" => t.pc = "unlisted"
    BY <2>1, <2>2 DEF SaveIds, Ids
  <2>4. /\ \A k \in Legs : row'[k].status = row[k].status /\ row'[k].sl = row[k].sl
        /\ row'[l].ids = ids /\ \A k \in Legs \ {l} : row'[k].ids = row[k].ids
    BY <2>3 DEF TypeOK, RowType
  <2>5. PutOnce' /\ CallOnce' /\ RowExists'
    BY <1>0, <2>2, <2>4 DEF DayInv, PutOnce, LosesEntry, CallOnce, OnPut, BuysCall,
       Passing, RowExists
  <2>6. NoEarlyStop' /\ StopNamed'
    BY <2>2, <2>3, <2>4 DEF DayInv, NoEarlyStop, Arming, StopNamed, Unlisted
  <2>7. StopFollowsRow'
    BY <2>2, <2>4 DEF DayInv, StopFollowsRow, Modifying
  <2>8. QED
    BY <2>5, <2>6, <2>7 DEF DayInv
<1>7. CASE BuyPut \/ BuyCall
  <2>1. Buy("PE", "buy") => DayInv'
    BY <1>0, <1>3
  <2>2. Buy("CE", "reverse") => DayInv'
    BY <1>0, <1>3
  <2>3. QED
    BY <1>7, <2>1, <2>2 DEF BuyPut, BuyCall
<1>8. QED
  BY <1>1, <1>2, <1>4, <1>5, <1>6, <1>7 DEF Entry, Reverse

\* A monitoring pass keeps DayInv: it closes the row it looks at, raises its
\* stop, and goes on to a reverse call only from the put.
LEMMA MonitorDay == TypeOK /\ TypeOK' /\ DayInv /\ Monitor => DayInv'
<1> SUFFICES ASSUME TypeOK, TypeOK', DayInv, Monitor PROVE DayInv'
  OBVIOUS
<1> USE DEF brokerVars, exitVars, histVars
<1>0. /\ "PE" \in Legs /\ "CE" \in Legs /\ t.leg \in Legs
      /\ buys["PE"] \in Nat /\ buys["CE"] \in Nat /\ lost \in Nat
  BY DEF Legs, TypeOK, TradeType
<1>1. ASSUME NEW l \in Legs, Look(l) PROVE DayInv'
  <2>1. /\ t.pc = "idle" /\ row[l].status = "placed"
        /\ \/ t'.pc = "idle" /\ t'.leg = "PE"
           \/ t'.pc = "trail" /\ t'.leg = l /\ row[l].ids # "none"
        /\ row' = row \/ row' = [row EXCEPT ![l] = Closed(@)]
        /\ UNCHANGED <<buys, lost, stop, trigger>>
        /\ used' = used \/ Spend("faults", MaxFaults)
    <3>1. \/ t'.pc = "idle" /\ t'.leg = "PE"
          \/ t'.pc = "trail" /\ t'.leg = l /\ row[l].ids # "none"
      <4>1. CASE row[l].ids # "none"
        <5>1. t'.pc = "trail" /\ t'.leg = l
          BY <1>1, <4>1 DEF Look
        <5>2. QED
          BY <4>1, <5>1
      <4>2. CASE row[l].ids = "none"
        <5>1. t' = TradeIdle
          BY <1>1, <4>2 DEF Look
        <5>2. QED
          BY <5>1 DEF TradeIdle
      <4>3. QED
        BY <4>1, <4>2
    <3>2. row' = row \/ row' = [row EXCEPT ![l] = Closed(@)]
      BY <1>1 DEF Look
    <3>3. used' = used \/ Spend("faults", MaxFaults)
      BY <1>1 DEF Look
    <3>4. QED
      BY <1>1, <3>1, <3>2, <3>3 DEF Look
  <2>2. /\ row'[l].status \in {"placed", "exit"}
        /\ \A k \in Legs \ {l} : row'[k].status = row[k].status
        /\ \A k \in Legs : row'[k].sl = row[k].sl /\ row'[k].ids = row[k].ids
    <3>1. CASE row' = row
      BY <2>1, <3>1
    <3>2. CASE row' = [row EXCEPT ![l] = Closed(@)]
      BY <3>2 DEF Closed, TypeOK, RowType
    <3>3. QED
      BY <2>1, <3>1, <3>2
  <2>3. PutOnce'
    BY <1>0, <2>1, <2>2 DEF DayInv, PutOnce, LosesEntry, Legs
  <2>4. CallOnce'
    BY <1>0, <2>1, <2>2 DEF DayInv, CallOnce, OnPut, BuysCall, Passing, Legs
  <2>5. RowExists'
    BY <1>0, <2>1, <2>2 DEF DayInv, RowExists, Passing
  <2>6. NoEarlyStop' /\ StopNamed' /\ StopFollowsRow'
    BY <2>1, <2>2, CallCounted, StopsKept DEF StopsStay, Modifying, Unlisted, Arming
  <2>7. QED
    BY <2>3, <2>4, <2>5, <2>6 DEF DayInv
<1>2. CASE Trail
  <2>0. PICK l \in Legs : l = t.leg
    BY <1>0
  <2>1. PICK level \in Ladder(l) :
          /\ row' = [row EXCEPT ![l].sl = level]
          /\ t' = [t EXCEPT !.pc = IF level = row[l].sl THEN "decide" ELSE "modify"]
    BY <1>2, <2>0 DEF Trail
  <2>2. /\ t.pc = "trail" /\ t'.leg = l
        /\ t'.pc = IF level = row[l].sl THEN "decide" ELSE "modify"
        /\ UNCHANGED <<buys, lost, stop, trigger, used>>
    BY <1>2, <2>0, <2>1 DEF Trail, TypeOK, TradeType
  <2>3. /\ level \in Nat /\ level >= row[l].sl /\ row[l].sl \in Nat
        /\ \A k \in Legs : row'[k].status = row[k].status /\ row'[k].ids = row[k].ids
        /\ row'[l].sl = level /\ \A k \in Legs \ {l} : row'[k].sl = row[k].sl
    BY <2>1, ConstantsAssumption DEF Ladder, TypeOK, RowType
  <2>4. PutOnce' /\ CallOnce' /\ RowExists'
    BY <1>0, <2>0, <2>2, <2>3 DEF DayInv, PutOnce, LosesEntry, CallOnce, OnPut, BuysCall,
       Passing, RowExists
  <2>5. NoEarlyStop' /\ StopNamed'
    BY <2>2, <2>3 DEF DayInv, NoEarlyStop, Arming, StopNamed, Unlisted
  <2>6. StopFollowsRow'
    <3>1. ASSUME NEW k \in Legs, stop[k] = "pending", k # l
          PROVE  /\ trigger[k] <= row'[k].sl
                 /\ used.faults + used.restarts = 0 => trigger[k] = row'[k].sl
      BY <2>0, <2>2, <2>3, <3>1 DEF DayInv, StopFollowsRow, Modifying
    <3>2. ASSUME stop[l] = "pending"
          PROVE  /\ trigger[l] <= row'[l].sl
                 /\ used.faults + used.restarts = 0 /\ ~Modifying(l)' => trigger[l] = row'[l].sl
      <4>1. trigger[l] \in Nat /\ trigger[l] <= row[l].sl
        BY <3>2, ConstantsAssumption DEF DayInv, StopFollowsRow, TypeOK
      <4>2. used.faults + used.restarts = 0 => trigger[l] = row[l].sl
        BY <3>2, <2>2 DEF DayInv, StopFollowsRow, Modifying
      <4>3. ~Modifying(l)' => level = row[l].sl
        BY <2>2 DEF Modifying
      <4>4. QED
        BY <4>1, <4>2, <4>3, <2>3
    <3>3. QED
      BY <2>2, <3>1, <3>2 DEF StopFollowsRow
  <2>7. QED
    BY <2>4, <2>5, <2>6 DEF DayInv
<1>3. CASE Modify
  <2>0. PICK l \in Legs : l = t.leg
    BY <1>0
  <2>1. /\ t.pc = "modify" /\ t'.pc = "decide" /\ t'.leg = l
        /\ UNCHANGED <<row, buys, lost, stop>>
    BY <1>3, <2>0 DEF Modify, TypeOK, TradeType
  <2>2. PutOnce' /\ CallOnce' /\ RowExists'
    BY <1>0, <2>0, <2>1 DEF DayInv, PutOnce, LosesEntry, CallOnce, OnPut, BuysCall,
       Passing, RowExists
  <2>3. used.faults \in Nat /\ used.restarts \in Nat
    BY BoundNames DEF TypeOK
  <2>4. CASE used' = used /\ trigger' = IF stop[l] = "pending" /\ row[l].ids = "full"
                                        THEN [trigger EXCEPT ![l] = row[l].sl]
                                        ELSE trigger
    <3>1. NoEarlyStop' /\ StopNamed'
      BY <2>1, <2>4 DEF DayInv, NoEarlyStop, Arming, StopNamed, Unlisted
    <3>2. ASSUME NEW k \in Legs, stop[k] = "pending", k # l
          PROVE  /\ trigger'[k] <= row[k].sl
                 /\ used.faults + used.restarts = 0 => trigger'[k] = row[k].sl
      BY <2>0, <2>1, <2>4, <3>2 DEF DayInv, StopFollowsRow, Modifying, TypeOK
    <3>3. ASSUME stop[l] = "pending"
          PROVE  /\ trigger'[l] <= row[l].sl
                 /\ used.faults + used.restarts = 0 => trigger'[l] = row[l].sl
      <4>1. CASE row[l].ids = "full"
        BY <2>4, <3>3, <4>1, ConstantsAssumption DEF TypeOK, RowType
      <4>2. CASE row[l].ids # "full"
        <5>1. row[l].ids = "empty"
          BY <2>0, <2>1, <4>2 DEF DayInv, RowExists, Passing, TypeOK, RowType, Ids
        <5>2. used.faults > 0
          BY <3>3, <5>1 DEF DayInv, StopNamed
        <5>3. QED
          BY <2>3, <2>4, <3>3, <4>2, <5>2 DEF DayInv, StopFollowsRow
      <4>3. QED
        BY <4>1, <4>2
    <3>4. StopFollowsRow'
      BY <2>1, <2>4, <3>2, <3>3 DEF StopFollowsRow
    <3>5. QED
      BY <2>2, <3>1, <3>4 DEF DayInv
  <2>5. CASE UNCHANGED trigger /\ Spend("faults", MaxFaults)
    <3>1. used'.faults > 0 /\ used'.faults + used'.restarts > 0
      BY <2>3, <2>5, FaultCounted DEF TypeOK
    <3>2. NoEarlyStop' /\ StopNamed' /\ StopFollowsRow'
      BY <2>1, <2>5, <3>1 DEF DayInv, NoEarlyStop, Arming, StopNamed, StopFollowsRow
    <3>3. QED
      BY <2>2, <3>2 DEF DayInv
  <2>6. QED
    BY <1>3, <2>0, <2>4, <2>5 DEF Modify
<1>4. CASE Decide \/ SellRest \/ CancelStop
  <2>1. /\ t.pc \in Passing /\ t.pc # "modify"
        /\ \/ t'.pc = "idle"
           \/ t'.pc \in Passing /\ t'.pc # "modify" /\ t'.leg = t.leg
        /\ UNCHANGED <<row, buys, lost>>
    BY <1>4 DEF Decide, SellRest, CancelStop, TradeIdle, Passing, TypeOK, TradeType
  <2>2. \A k \in Legs : \/ stop'[k] = stop[k] /\ trigger'[k] = trigger[k]
                        \/ stop'[k] = "gone" /\ stop[k] # "none"
    BY <1>4 DEF Decide, SellRest, CancelStop, Pending, Triggered, TypeOK
  <2>3. used' = used \/ Spend("faults", MaxFaults)
    BY <1>4 DEF Decide, SellRest, CancelStop
  <2>4. PutOnce' /\ CallOnce' /\ RowExists'
    BY <1>0, <2>1 DEF DayInv, PutOnce, LosesEntry, CallOnce, OnPut, BuysCall,
       Passing, RowExists
  <2>5. NoEarlyStop' /\ StopNamed' /\ StopFollowsRow'
    BY <2>1, <2>2, <2>3, CallCounted, StopsKept
    DEF StopsStay, Modifying, Unlisted, Arming, Passing
  <2>6. QED
    BY <2>4, <2>5 DEF DayInv
<1>5. CASE CloseRow
  <2>0. PICK l \in Legs : l = t.leg
    BY <1>0
  <2>1. /\ t.pc \in Passing /\ t.pc # "modify" /\ t'.pc \in {"idle", "reverse"} /\ t'.leg = "PE"
        /\ t'.pc = "reverse" => t.leg = "PE"
        /\ row' = [row EXCEPT ![l] = Closed(@)]
        /\ UNCHANGED <<buys, lost, stop, trigger, used>>
    BY <1>5, <2>0 DEF CloseRow, MayReverse, TradeIdle, Passing
  <2>2. /\ row'[l].status = "exit"
        /\ \A k \in Legs \ {l} : row'[k].status = row[k].status
        /\ \A k \in Legs : row'[k].sl = row[k].sl /\ row'[k].ids = row[k].ids
    BY <2>1 DEF Closed, TypeOK, RowType
  <2>3. row[l].status # "none"
    BY <2>0, <2>1 DEF DayInv, RowExists
  <2>4. PutOnce'
    BY <1>0, <2>0, <2>1, <2>2, <2>3 DEF DayInv, PutOnce, LosesEntry, Passing, Legs
  <2>5. CallOnce'
    BY <1>0, <2>0, <2>1, <2>2, <2>3 DEF DayInv, CallOnce, OnPut, BuysCall, Passing, Legs
  <2>6. RowExists'
    BY <2>1 DEF RowExists, Passing
  <2>7. NoEarlyStop' /\ StopNamed' /\ StopFollowsRow'
    BY <2>1, <2>2, CallCounted, StopsKept
    DEF StopsStay, Modifying, Unlisted, Arming, Passing
  <2>8. QED
    BY <2>4, <2>5, <2>6, <2>7 DEF DayInv
<1>6. QED
  BY <1>1, <1>2, <1>3, <1>4, <1>5 DEF Monitor

\* Every step keeps DayInv.
LEMMA NextDay == TypeOK /\ TypeOK' /\ DayInv /\ [Next]_vars => DayInv'
<1>1. TypeOK /\ DayInv /\ UNCHANGED vars => DayInv'
  BY DEF DayInv, PutOnce, LosesEntry, CallOnce, OnPut, BuysCall, RowExists,
     NoEarlyStop, Arming, StopNamed, Unlisted, StopFollowsRow, Modifying, vars,
     brokerVars, exitVars, histVars
<1>2. QED
  BY <1>1, EntryDay, MonitorDay, OthersApart, ApartDay, CutDay
  DEF Next, TradeThread, Environment

\* DayInv holds in every reachable state.
LEMMA DayInvariant == Spec => []DayInv
  BY InitDay, NextDay, TypeCorrect, PTL DEF Spec

\* A day has one put entry, plus one for each entry cut off between the
\* accepted order and the save of its row, and one reverse call, whatever is
\* raised, restarted, rejected or squared off.
THEOREM EntriesBounded == Spec => []EntriesAreBounded
<1>1. TypeOK /\ DayInv => EntriesAreBounded
  BY DEF TypeOK, DayInv, PutOnce, CallOnce, EntriesAreBounded, Legs
<1>2. QED
  BY <1>1, TypeCorrect, DayInvariant, PTL

\* The stop held by the broker is never above the row's, and is the row's
\* unless a modification is under way or was never made.
THEOREM StopsFollowRows == Spec => []StopFollowsRow
<1>1. DayInv => StopFollowsRow
  BY DEF DayInv
<1>2. QED
  BY <1>1, DayInvariant, PTL

\* The put scalper implements ScalperDay: its rows are opened and closed at
\* most once a day, the call's only after the put's is closed.
THEOREM Refinement == Spec => FollowsDay
<1> DEFINE P == row["PE"].status
           C == row["CE"].status
<1> "PE" \in Legs /\ "CE" \in Legs
  BY DEF Legs
<1>1. Init => Day!Init
  BY DEF Init, NoRow, Day!Init
<1>2. TypeOK /\ DayInv /\ [Next]_vars => [Day!Next]_<<P, C>>
  <2> SUFFICES ASSUME TypeOK, DayInv, [Next]_vars
               PROVE  Day!Next \/ (P' = P /\ C' = C)
    OBVIOUS
  <2> USE DEF brokerVars, exitVars, histVars
  <2>1. CASE SkipDay
    <3>1. P = "none" /\ P' = "exit" /\ C' = C
      BY <2>1 DEF SkipDay, TypeOK, RowType
    <3>2. QED
      BY <3>1 DEF Day!Next, Day!SkipPut
  <2>2. ASSUME NEW l \in Legs, NEW same \in BOOLEAN, SaveRow(l, same)
        PROVE  Day!Next
    <3>1. row[l].status = "none" /\ (l = "CE" => P = "exit")
      BY <2>2 DEF SaveRow, DayInv, PutOnce, LosesEntry, CallOnce, BuysCall, Legs
    <3>2. row'[l].status = "placed" /\ \A k \in Legs \ {l} : row'[k] = row[k]
      BY <2>2 DEF SaveRow, TypeOK
    <3>3. QED
      BY <3>1, <3>2 DEF Day!Next, Day!OpenPut, Day!OpenCall, Legs
  <2>3. ASSUME NEW l \in Legs, row[l].status # "none",
               row' = [row EXCEPT ![l] = Closed(@)]
        PROVE  Day!Next \/ (P' = P /\ C' = C)
    <3>1. /\ row[l].status \in {"placed", "exit"} /\ row'[l].status = "exit"
          /\ \A k \in Legs \ {l} : row'[k] = row[k]
      BY <2>3 DEF Closed, TypeOK, RowType, Status
    <3>2. QED
      BY <3>1 DEF Day!Next, Day!ClosePut, Day!CloseCall, Legs
  <2>4. ASSUME \A l \in Legs : row'[l].status = row[l].status
        PROVE  P' = P /\ C' = C
    BY <2>4
  <2>5. ASSUME NEW l \in Legs, Look(l)
        PROVE  Day!Next \/ (P' = P /\ C' = C)
    <3>1. row[l].status = "placed" /\ (row' = row \/ row' = [row EXCEPT ![l] = Closed(@)])
      BY <2>5 DEF Look
    <3>2. QED
      BY <2>3, <3>1
  <2>6. CASE CloseRow
    <3>1. PICK l \in Legs : l = t.leg
      BY DEF TypeOK, TradeType
    <3>2. row[l].status # "none" /\ row' = [row EXCEPT ![l] = Closed(@)]
      BY <2>6, <3>1 DEF CloseRow, DayInv, RowExists, Passing
    <3>3. QED
      BY <2>3, <3>2
  <2>7. ASSUME NEW l \in Legs, SaveIds(l) \/ Expire(l)
        PROVE  P' = P /\ C' = C
    <3>1. row[l] \in RowType /\ row \in [Legs -> RowType]
      BY DEF TypeOK
    <3>2. CASE SaveIds(l)
      <4>1. \E ids \in Ids : row' = [row EXCEPT ![l].ids = ids]
        BY <3>2 DEF SaveIds, Ids
      <4>2. QED
        BY <2>4, <3>1, <4>1 DEF RowType
    <3>3. CASE Expire(l)
      <4>1. row' = [row EXCEPT ![l].old = TRUE]
        BY <3>3 DEF Expire
      <4>2. QED
        BY <2>4, <3>1, <4>1 DEF RowType
    <3>4. QED
      BY <2>7, <3>2, <3>3
  <2>8. CASE Trail
    <3>1. PICK level \in Ladder(t.leg) : row' = [row EXCEPT ![t.leg].sl = level]
      BY <2>8 DEF Trail
    <3>2. QED
      BY <2>4, <3>1 DEF TypeOK, RowType
  <2>9. ASSUME UNCHANGED row PROVE P' = P /\ C' = C
    BY <2>9
  <2>10. ASSUME NEW l \in Legs, NEW from, Buy(l, from) \/ Arm(l)
         PROVE  P' = P /\ C' = C
    BY <2>9, <2>10 DEF Buy, Arm
  <2>11. CASE EnterPut \/ Modify \/ Decide \/ CancelStop \/ SellRest
    BY <2>9, <2>11 DEF EnterPut, Modify, Decide, CancelStop, SellRest
  <2>12. CASE ExitThread
    BY <2>9, <2>12 DEF ExitThread, ReadPositions, Judge, CancelPending, Squared,
       ActivateKillSwitch, LookUp, Square
  <2>13. CASE Broker
    BY <2>9, <2>13 DEF Broker, FillBuy, FillSell, TriggerStop, FillStop, Reject
  <2>14. CASE OwnerOrders \/ Restart \/ TradeFault \/ ExitFault
    BY <2>9, <2>14 DEF OwnerOrders, Restart, TradeFault, ExitFault
  <2>15. CASE UNCHANGED vars
    BY <2>9, <2>15 DEF vars
  <2>16. CASE Entry \/ Reverse
    <3>1. CASE BuyPut \/ BuyCall \/ ArmPut \/ ArmCall
      BY <2>10, <3>1 DEF BuyPut, BuyCall, ArmPut, ArmCall
    <3>2. CASE SavePut \/ SaveCall
      BY <2>2, <3>2 DEF SavePut, SaveCall
    <3>3. CASE SavePutIds \/ SaveCallIds
      BY <2>7, <3>3 DEF SavePutIds, SaveCallIds
    <3>4. QED
      BY <2>1, <2>11, <2>16, <3>1, <3>2, <3>3 DEF Entry, Reverse
  <2>17. CASE Monitor
    BY <2>5, <2>6, <2>8, <2>11, <2>17 DEF Monitor
  <2>18. QED
    BY <2>7, <2>12, <2>13, <2>14, <2>15, <2>16, <2>17 DEF Next, TradeThread, Environment
<1>3. QED
  BY <1>1, <1>2, TypeCorrect, DayInvariant, PTL DEF Spec, FollowsDay, Day!Spec
=============================================================================
