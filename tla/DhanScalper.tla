----------------------------- MODULE DhanScalper -----------------------------
(***************************************************************************)
(* One trading day of the put scalper that DhanManager.execute_trades      *)
(* starts as two threads sharing a database, a broker account and nothing  *)
(* that locks:                                                             *)
(*                                                                         *)
(*   - the TRADE thread (execute_trades_util) buys a put on a red 9:xx     *)
(*     candle, records it, arms a stop order at the broker, trails the     *)
(*     stop, closes the record when the stop is gone, and then may buy a   *)
(*     call in the opposite direction;                                     *)
(*   - the EXIT thread (check_exit_criteria) reads the broker's positions, *)
(*     looks each long one up in the database, and when one has no record  *)
(*     ("manual trade") or the day's loss is too large, cancels every      *)
(*     pending order, sells what it read, and pulls the kill switch.       *)
(*                                                                         *)
(* An action is one broker call or one database save of a thread, with     *)
(* the local computation around it.  Quantities are in units of the        *)
(* trade's quantity (every buy is 1), so pos = -1 is a naked short.        *)
(*                                                                         *)
(* A broker call fails in one of two ways: it raises, which ends the pass  *)
(* (TradeFault, ExitFault), or it answers without the data asked for, from *)
(* which the code reads an empty list and goes on.                         *)
(***************************************************************************)
EXTENDS Integers, FiniteSets

CONSTANTS
  Candles,      \* the candles of the day: "red" and "bullish" (a bullish red one)
  MaxLevel,     \* stop levels 0..MaxLevel: 0 is 10% below entry, 1 is entry
  MaxFaults,    \* calls that fail
  MaxRejects,   \* orders the exchange rejects after accepting them
  MaxRestarts,  \* restarts of the worker process
  MaxOrders,    \* orders the account's owner places by hand
  MaxAlarms,    \* passes in which the exit thread squares the account off
  Checked,      \* does check_exit_criteria run? (FALSE: the trade thread alone)
  LossAlarms    \* may the day's loss reach the limit of check_exit_criteria?

ASSUME ConstantsAssumption ==
  /\ Candles \subseteq {"red", "bullish"}
  /\ MaxLevel \in Nat \ {0}
  /\ MaxFaults \in Nat
  /\ MaxRejects \in Nat
  /\ MaxRestarts \in Nat
  /\ MaxOrders \in Nat
  /\ MaxAlarms \in Nat
  /\ Checked \in BOOLEAN
  /\ LossAlarms \in BOOLEAN

Legs       == {"PE", "CE"}          \* the put and the reverse call
Manual     == "X"                   \* any security only the owner trades
Securities == Legs \cup {Manual}

VARIABLES
  (* the TelegramTrade rows of entry_type DHAN_PUT_SCALPER of today *)
  row,        \* row[l]: status, stop price, ids (the stop orders it names),
              \* match (its strike is the one bought), old (300 minutes)
  (* the broker *)
  pos,        \* net quantity of each security
  buying,     \* quantity of market/limit BUY orders in flight
  selling,    \* quantity of market SELL orders in flight
  stop,       \* state of the leg's stop-loss SELL order
  trigger,    \* its trigger level, while it is pending
  killed,     \* trading disabled by the kill switch
  (* the threads *)
  t,          \* the trade thread: what it does next, and the pass's locals
  x,          \* the exit thread: the same
  killSwitch, \* the exit thread's local kill_switch
  (* the bounds on the environment *)
  used,       \* used[b]: how much of bound b has been spent
  (* history *)
  buys,       \* buys[l]: BUY orders of the trade thread the broker accepted
  lost,       \* put entries cut off between the BUY and the save
  suspect     \* see ShortHasCause

brokerVars == <<pos, buying, selling, stop, trigger, killed>>
exitVars   == <<x, killSwitch>>
histVars   == <<buys, lost, suspect>>
vars == <<row, brokerVars, t, exitVars, used, histVars>>

Status  == {"none", "placed", "exit"}
Stops   == {"none", "pending", "triggered", "gone"}
Ids     == {"none", "empty", "full"}   \* "none": nor the security_id
TradePC == {"idle", "buy", "bought", "arm", "armed", "unlisted", "trail",
            "modify", "decide", "cancel", "sell", "close", "abandon", "reverse"}
ExitPC  == {"idle", "check", "cancel", "square", "kill"}

Bounds  == {"faults", "rejects", "restarts", "orders", "alarms"}

Closed(r) == [r EXCEPT !.status = "exit", !.old = FALSE]
NoRow == [status |-> "none", sl |-> 0, ids |-> "none", match |-> FALSE,
           old |-> FALSE]

\* A thread at the head of its loop: the locals of the last pass are dead.
\* remaining and none are remaining_quantity and no_pending of the pass.
TradeIdle == [pc |-> "idle", leg |-> "PE", remaining |-> 0, none |-> FALSE]
ExitIdle  == [pc |-> "idle", snapshot |-> [s \in Securities |-> 0],
              todo |-> {}, manual |-> FALSE]

Init ==
  /\ row = [l \in Legs |-> NoRow]
  /\ pos = [s \in Securities |-> 0]
  /\ buying = [s \in Securities |-> 0]
  /\ selling = [s \in Securities |-> 0]
  /\ stop = [l \in Legs |-> "none"]
  /\ trigger = [l \in Legs |-> 0]
  /\ killed = FALSE
  /\ t = TradeIdle
  /\ x = ExitIdle
  /\ killSwitch = FALSE
  /\ used = [b \in Bounds |-> 0]
  /\ buys = [l \in Legs |-> 0]
  /\ lost = 0
  /\ suspect = {}

Spend(b, most) ==
  /\ used[b] < most
  /\ used' = [used EXCEPT ![b] = @ + 1]

\* An order that the broker does not accept.
Refused == IF killed THEN used' = used ELSE Spend("faults", MaxFaults)

-----------------------------------------------------------------------------
(* The trade thread: entry.                                                *)

\* A 9:xx candle has closed and today has no put-scalper row.  A bullish
\* red candle only leaves a row in its last state, to avoid re-entry.
SkipDay ==
  /\ t.pc = "idle"
  /\ "bullish" \in Candles
  /\ row["PE"].status = "none"
  /\ row' = [row EXCEPT !["PE"].status = "exit"]
  /\ UNCHANGED <<brokerVars, t, exitVars, used, histVars>>

\* Mutant of EnterPut: only a live row prevents the next entry.
EnterPutUnlessLive ==
  /\ t.pc = "idle"
  /\ "red" \in Candles
  /\ row["PE"].status # "placed"
  /\ t' = [t EXCEPT !.pc = "buy", !.leg = "PE"]
  /\ UNCHANGED <<row, brokerVars, exitVars, used, histVars>>

\* A red or doji candle: choose the strike and the quantity.
EnterPut ==
  /\ t.pc = "idle"
  /\ "red" \in Candles
  /\ row["PE"].status = "none"
  /\ t' = [t EXCEPT !.pc = "buy", !.leg = "PE"]
  /\ UNCHANGED <<row, brokerVars, exitVars, used, histVars>>

\* place_slice_order(BUY, MARKET).  From the answer to a refused order the
\* ids are missing: reading them raises, or finds none and the thread goes on.
Buy(l, from) ==
  /\ t.pc = from
  /\ \/ /\ ~killed
        /\ t' = [TradeIdle EXCEPT !.pc = "bought", !.leg = l]
        /\ buying' = [buying EXCEPT ![l] = @ + 1]
        /\ buys' = [buys EXCEPT ![l] = @ + 1]
        /\ UNCHANGED <<used, suspect>>
     \/ /\ killed
        /\ t' = TradeIdle
        /\ UNCHANGED <<buying, buys, used, suspect>>
     \/ /\ Refused
        /\ t' = [TradeIdle EXCEPT !.pc = "bought", !.leg = l]
        /\ suspect' = suspect \cup {l}
        /\ UNCHANGED <<buying, buys>>
  /\ UNCHANGED <<row, pos, selling, stop, trigger, killed, exitVars, lost>>

BuyPut  == Buy("PE", "buy")
BuyCall == Buy("CE", "reverse")

\* The first save of the row: its status and price, no stop order ids yet.
SaveRow(l, sameStrike) ==
  /\ t.pc = "bought" /\ t.leg = l
  /\ t' = [t EXCEPT !.pc = "arm"]
  /\ row' = [row EXCEPT ![l] = [status |-> "placed", sl |-> 0,
                                ids |-> "none", match |-> sameStrike,
                                old |-> FALSE]]
  /\ UNCHANGED <<brokerVars, exitVars, used, histVars>>

SavePut == SaveRow("PE", TRUE)

\* The call is bought at updated_strike_price, but strike_price is saved.
SaveCall == \E sameStrike \in BOOLEAN : SaveRow("CE", sameStrike)

\* place_slice_order(SELL, SL) at the row's stop price.  An order accepted
\* by an answer without ids is a stop that the row will not name.
Arm(l) ==
  /\ t.pc = "arm" /\ t.leg = l
  /\ \/ killed /\ t' = TradeIdle /\ UNCHANGED <<stop, trigger, used>>
     \/ Refused /\ t' = [t EXCEPT !.pc = "unlisted"] /\ UNCHANGED <<stop, trigger>>
     \/ /\ ~killed
        /\ \/ t' = [t EXCEPT !.pc = "armed"] /\ used' = used
           \/ t' = [t EXCEPT !.pc = "unlisted"] /\ Spend("faults", MaxFaults)
        /\ stop' = [stop EXCEPT ![l] = "pending"]
        /\ trigger' = [trigger EXCEPT ![l] = row[l].sl]
  /\ UNCHANGED <<row, pos, buying, selling, killed, exitVars, histVars>>

ArmPut  == Arm("PE")
ArmCall == Arm("CE")

\* The second save: sl_order_id_list and security_id are in the metadata.
SaveIds(l) ==
  /\ t.pc \in {"armed", "unlisted"} /\ t.leg = l
  /\ t' = TradeIdle
  /\ row' = [row EXCEPT ![l].ids = IF t.pc = "armed" THEN "full" ELSE "empty"]
  /\ UNCHANGED <<brokerVars, exitVars, used, histVars>>

SavePutIds  == SaveIds("PE")
SaveCallIds == SaveIds("CE")

-----------------------------------------------------------------------------
(* The trade thread: one monitoring pass over a placed row.                *)

InFlight(s) == buying[s] + selling[s] > 0
Triggered   == {l \in Legs : stop[l] = "triggered"}
Pending     == {l \in Legs : stop[l] = "pending"}

\* Mutant of NothingPending: no_pending is not set to True before the loop.
NothingPendingUnset(listed, other) == FALSE

NothingPending(listed, other) == listed = {} /\ ~other

\* get_order_list.  An armed stop is listed PENDING, and so is the owner's
\* order; an order on its way to the exchange may or may not be; an answer
\* without data lists nothing.  With nothing PENDING in the whole account the
\* row is closed at once; without security_id in its metadata the pass then
\* ends in a KeyError.
Look(l) ==
  /\ t.pc = "idle"
  /\ row[l].status = "placed"
  /\ \E listed \in SUBSET Legs, other \in BOOLEAN :
       LET none == NothingPending(listed, other)
       IN /\ \/ /\ Pending \subseteq listed /\ listed \subseteq Pending \cup Triggered
                /\ other => \E s \in Securities : InFlight(s)
                /\ buying[Manual] > 0 => other
                /\ used' = used
             \/ /\ listed = {} /\ ~other
                /\ Spend("faults", MaxFaults)
          /\ row' = IF none THEN [row EXCEPT ![l] = Closed(@)] ELSE row
          /\ t' = IF row[l].ids # "none"
                  THEN [pc |-> "trail", leg |-> l, none |-> none,
                        remaining |-> IF l \in listed /\ row[l].ids = "full" THEN 1 ELSE 0]
                  ELSE TradeIdle
  /\ UNCHANGED <<brokerVars, exitVars, histVars>>

\* Mutants of Ladder: one level too many; without `if updated_sl >= ...`.
LadderTooHigh(l) == row[l].sl .. MaxLevel + 1
LadderFalls(l) == 0 .. MaxLevel

\* The stops the last traded price may put in the place of the row's: the
\* row's stop rises or stays.
Ladder(l) == row[l].sl .. MaxLevel

Trail ==
  /\ t.pc = "trail"
  /\ \E level \in Ladder(t.leg) :
       /\ t.none => level = row[t.leg].sl
       /\ row' = [row EXCEPT ![t.leg].sl = level]
       /\ t' = [t EXCEPT !.pc = IF level = row[t.leg].sl THEN "decide"
                                ELSE "modify"]
  /\ UNCHANGED <<brokerVars, exitVars, used, histVars>>

\* modify_order on the stop, if the row names it; an exception is mailed and
\* swallowed, and the answer is not read.
Modify ==
  /\ t.pc = "modify"
  /\ t' = [t EXCEPT !.pc = "decide"]
  /\ \/ /\ trigger' = IF stop[t.leg] = "pending" /\ row[t.leg].ids = "full"
                      THEN [trigger EXCEPT ![t.leg] = row[t.leg].sl]
                      ELSE trigger
        /\ used' = used
     \/ /\ Spend("faults", MaxFaults)
        /\ trigger' = trigger
  /\ UNCHANGED <<row, pos, buying, selling, stop, killed, exitVars, histVars>>

\* Leave the position if nothing is pending, if it is older than 300
\* minutes, or if the stop was triggered (nothing of it remains) and the
\* price is already below it.
Decide ==
  /\ t.pc = "decide"
  /\ \/ t.none /\ t' = [t EXCEPT !.pc = "close"]
     \/ ~t.none /\ (row[t.leg].old \/ t.remaining = 0)
        /\ t' = [t EXCEPT !.pc = "cancel"]
     \/ ~t.none /\ ~row[t.leg].old /\ t' = TradeIdle
  /\ UNCHANGED <<row, brokerVars, exitVars, used, histVars>>

\* cancel_order on the stop, if the row names it: has an effect only while it
\* is pending (or triggered and still unfilled).  The answer is not read.
CancelStop ==
  /\ t.pc = "cancel"
  /\ t' = [t EXCEPT !.pc = "sell"]
  /\ \/ /\ t.leg \in Pending \cup Triggered
        /\ row[t.leg].ids = "full"
        /\ stop' = [stop EXCEPT ![t.leg] = "gone"]
        /\ trigger' = [trigger EXCEPT ![t.leg] = 0]
        /\ UNCHANGED <<suspect, used>>
     \/ /\ \/ (t.leg \notin Pending \/ row[t.leg].ids # "full") /\ used' = used
           \/ Spend("faults", MaxFaults)
        /\ suspect' = IF t.remaining > 0 THEN suspect \cup {t.leg} ELSE suspect
        /\ UNCHANGED <<stop, trigger>>
  /\ UNCHANGED <<row, pos, buying, selling, killed, exitVars, buys, lost>>

\* Mutant of Rest: the whole quantity of the trade.
RestIsAll == 1

Rest == t.remaining

\* place_slice_order(SELL, MARKET, remaining_quantity).  Reading the ids of a
\* refused order (an order of 0 is one) raises only after the save below, or
\* finds none.
SellRest ==
  /\ t.pc = "sell"
  /\ \/ /\ ~killed /\ Rest > 0
        /\ t' = [t EXCEPT !.pc = "close"]
        /\ selling' = [selling EXCEPT ![t.leg] = @ + Rest]
        /\ used' = used
     \/ /\ killed \/ Rest = 0
        /\ \E pc \in {"close", "abandon"} : t' = [t EXCEPT !.pc = pc]
        /\ UNCHANGED <<selling, used>>
     \/ /\ Spend("faults", MaxFaults)
        /\ t' = [t EXCEPT !.pc = "close"]
        /\ selling' = selling
  /\ UNCHANGED <<row, pos, buying, stop, trigger, killed, exitVars, histVars>>

\* Mutant of MayReverse: a call that is closed is followed by another.
ReversesAgain(loss) == t.pc = "close" /\ loss

MayReverse(loss) == t.pc = "close" /\ t.leg = "PE" /\ loss

\* The row is saved in its last state.  A put that lost less than 15% is
\* followed by a call: at the stop price when the stop was filled (level 0
\* is the only losing one), at whatever the market sell fetched otherwise.
CloseRow ==
  /\ t.pc \in {"close", "abandon"}
  /\ row' = [row EXCEPT ![t.leg] = Closed(@)]
  /\ \E loss \in BOOLEAN :
       /\ t.none => loss = (row[t.leg].sl = 0)
       /\ t' = IF MayReverse(loss) THEN [TradeIdle EXCEPT !.pc = "reverse"] ELSE TradeIdle
  /\ UNCHANGED <<brokerVars, exitVars, used, histVars>>

-----------------------------------------------------------------------------
(* The trade thread: exceptions, caught at the end of a pass.              *)

LosesEntry == t.pc = "bought" /\ t.leg = "PE"

TradeFault ==
  /\ t.pc \notin {"idle", "modify", "decide"}
  /\ Spend("faults", MaxFaults)
  /\ t' = TradeIdle
  /\ lost' = IF LosesEntry THEN lost + 1 ELSE lost
  /\ UNCHANGED <<row, brokerVars, exitVars, buys, suspect>>

-----------------------------------------------------------------------------
(* The exit thread.                                                        *)

\* get_positions.  Without a position the pass has nothing to do.
ReadPositions ==
  /\ Checked
  /\ x.pc = "idle"
  /\ x' = IF \A s \in Securities : pos[s] = 0
          THEN ExitIdle
          ELSE [pc |-> "check", snapshot |-> pos, manual |-> FALSE,
                todo |-> {s \in Securities : pos[s] > 0}]
  /\ UNCHANGED <<row, brokerVars, t, killSwitch, used, histVars>>

\* Mutant of Recorded: a closed row still explains a position.
RecordedEver(s, quantity) ==
  s \in Legs /\ row[s].status # "none" /\ row[s].match /\ quantity = 1

\* A live row with the position's strike, option type and quantity.
Recorded(s, quantity) ==
  /\ s \in Legs
  /\ row[s].status = "placed"
  /\ row[s].match
  /\ quantity = 1

\* An exception of the look-up is mailed and the position passed over.
LookUp(s) ==
  /\ x.pc = "check"
  /\ s \in x.todo
  /\ \/ /\ x' = [x EXCEPT !.todo = @ \ {s},
                         !.manual = @ \/ ~Recorded(s, x.snapshot[s])]
        /\ used' = used
     \/ /\ Spend("faults", MaxFaults)
        /\ x' = [x EXCEPT !.todo = @ \ {s}]
  /\ UNCHANGED <<row, brokerVars, t, killSwitch, histVars>>

\* Mutant of Alarm: the loss alone.
AlarmOnLoss(loss) == loss

Alarm(loss) == loss \/ x.manual

\* Every position has been looked up: is the account in the worst case?
\* (With the bound spent, get_order_list of every further alarm raises.)
Judge ==
  /\ x.pc = "check"
  /\ x.todo = {}
  /\ \E loss \in BOOLEAN :
       /\ loss => LossAlarms
       /\ IF Alarm(loss) /\ used["alarms"] < MaxAlarms
          THEN /\ Spend("alarms", MaxAlarms)
               /\ x' = [x EXCEPT !.pc = "cancel"]
          ELSE /\ x' = ExitIdle
               /\ used' = used
  /\ UNCHANGED <<row, brokerVars, t, killSwitch, histVars>>

\* get_order_list, then cancel_order on every order listed PENDING; a call
\* that fails leaves some of them, or all, where they are.
CancelPending ==
  /\ x.pc = "cancel"
  /\ x' = [x EXCEPT !.pc = "square",
                    !.todo = {s \in Securities : x.snapshot[s] # 0}]
  /\ \E gone \in SUBSET (Pending \cup Triggered),
        hit \in SUBSET {s \in Securities : InFlight(s)} :
          /\ \/ /\ Pending \subseteq gone
                /\ buying[Manual] > 0 => Manual \in hit
                /\ used' = used
             \/ Spend("faults", MaxFaults)
          /\ stop' = [l \in Legs |-> IF l \in gone THEN "gone" ELSE stop[l]]
          /\ trigger' = [l \in Legs |-> IF l \in gone THEN 0 ELSE trigger[l]]
          /\ buying' = [s \in Securities |-> IF s \in hit THEN 0 ELSE buying[s]]
          /\ selling' = [s \in Securities |-> IF s \in hit THEN 0 ELSE selling[s]]
          /\ suspect' = suspect \cup {l \in Legs \cap hit : buying[l] > 0}
  /\ UNCHANGED <<row, pos, killed, t, killSwitch, buys, lost>>

\* One market order per position of the snapshot, the short ones first.  The
\* answers are not read.
Square(s) ==
  /\ x.pc = "square"
  /\ s \in x.todo
  /\ x.snapshot[s] > 0 => \A r \in x.todo : x.snapshot[r] > 0
  /\ x' = [x EXCEPT !.todo = @ \ {s}]
  /\ \/ Refused /\ UNCHANGED <<buying, selling, suspect>>
     \/ /\ ~killed /\ x.snapshot[s] < 0
        /\ buying' = [buying EXCEPT ![s] = @ - x.snapshot[s]]
        /\ UNCHANGED <<selling, suspect, used>>
     \/ /\ ~killed /\ x.snapshot[s] > 0
        /\ selling' = [selling EXCEPT ![s] = @ + x.snapshot[s]]
        /\ suspect' = suspect \cup (Legs \cap {s})
        /\ UNCHANGED <<buying, used>>
  /\ UNCHANGED <<row, pos, stop, trigger, killed, t, killSwitch, buys, lost>>

Squared ==
  /\ x.pc = "square"
  /\ x.todo = {}
  /\ x' = IF x.manual /\ ~killSwitch
          THEN [ExitIdle EXCEPT !.pc = "kill"] ELSE ExitIdle
  /\ UNCHANGED <<row, brokerVars, t, killSwitch, used, histVars>>

\* kill_switch('ACTIVATE'), whose answer is not read, and the same by way of
\* the web site; only then is the local flag set.
ActivateKillSwitch ==
  /\ x.pc = "kill"
  /\ x' = ExitIdle
  /\ killed' \in {killed, TRUE}
  /\ killSwitch' = TRUE
  /\ UNCHANGED <<row, pos, buying, selling, stop, trigger, t, used,
                 histVars>>

ExitFault ==
  /\ x.pc # "idle"
  /\ Spend("faults", MaxFaults)
  /\ x' = ExitIdle
  /\ killed' \in IF x.pc = "kill" THEN {killed, TRUE} ELSE {killed}
  /\ UNCHANGED <<row, pos, buying, selling, stop, trigger, t, killSwitch, histVars>>

-----------------------------------------------------------------------------
(* The broker, the clock, the owner, and the worker process.               *)

FillBuy(s) ==
  /\ buying[s] > 0
  /\ buying' = [buying EXCEPT ![s] = @ - 1]
  /\ pos' = [pos EXCEPT ![s] = @ + 1]
  /\ UNCHANGED <<row, selling, stop, trigger, killed, t, exitVars, used, histVars>>

FillSell(s) ==
  /\ selling[s] > 0
  /\ selling' = [selling EXCEPT ![s] = @ - 1]
  /\ pos' = [pos EXCEPT ![s] = @ - 1]
  /\ UNCHANGED <<row, buying, stop, trigger, killed, t, exitVars, used, histVars>>

TriggerStop(l) ==
  /\ l \in Pending
  /\ stop' = [stop EXCEPT ![l] = "triggered"]
  /\ trigger' = [trigger EXCEPT ![l] = 0]
  /\ UNCHANGED <<row, pos, buying, selling, killed, t, exitVars, used, histVars>>

FillStop(l) ==
  /\ l \in Triggered
  /\ stop' = [stop EXCEPT ![l] = "gone"]
  /\ pos' = [pos EXCEPT ![l] = @ - 1]
  /\ UNCHANGED <<row, buying, selling, trigger, killed, t, exitVars, used, histVars>>

RejectBuy(s) ==
  /\ buying[s] > 0
  /\ buying' = [buying EXCEPT ![s] = @ - 1]
  /\ suspect' = suspect \cup (Legs \cap {s})
  /\ UNCHANGED <<selling, stop, trigger>>

RejectSell(s) ==
  /\ selling[s] > 0
  /\ selling' = [selling EXCEPT ![s] = @ - 1]
  /\ UNCHANGED <<buying, stop, trigger, suspect>>

RejectStop(l) ==
  /\ l \in Pending \cup Triggered
  /\ stop' = [stop EXCEPT ![l] = "gone"]
  /\ trigger' = [trigger EXCEPT ![l] = 0]
  /\ UNCHANGED <<buying, selling, suspect>>

Reject ==
  /\ Spend("rejects", MaxRejects)
  /\ \/ \E s \in Securities : RejectBuy(s) \/ RejectSell(s)
     \/ \E l \in Legs : RejectStop(l)
  /\ UNCHANGED <<row, pos, killed, t, exitVars, buys, lost>>

\* 300 minutes have passed since the row was created.
Expire(l) ==
  /\ row[l].status = "placed"
  /\ ~row[l].old
  /\ row' = [row EXCEPT ![l].old = TRUE]
  /\ UNCHANGED <<brokerVars, t, exitVars, used, histVars>>

OwnerOrders ==
  /\ Spend("orders", MaxOrders)
  /\ ~killed
  /\ buying' = [buying EXCEPT ![Manual] = @ + 1]
  /\ UNCHANGED <<row, pos, selling, stop, trigger, killed, t, exitVars, histVars>>

\* The worker is killed and execute_trades is scheduled again: both threads
\* start over, the database and the broker keep what they have.
Restart ==
  /\ Spend("restarts", MaxRestarts)
  /\ t' = TradeIdle /\ x' = ExitIdle /\ killSwitch' = FALSE
  /\ lost' = IF LosesEntry THEN lost + 1 ELSE lost
  /\ UNCHANGED <<row, brokerVars, buys, suspect>>

-----------------------------------------------------------------------------
Entry   == \/ SkipDay \/ EnterPut \/ BuyPut \/ SavePut \/ ArmPut \/ SavePutIds
Reverse == \/ BuyCall \/ SaveCall \/ ArmCall \/ SaveCallIds
Monitor == \/ \E l \in Legs : Look(l)
           \/ Trail \/ Modify \/ Decide \/ CancelStop \/ SellRest \/ CloseRow

TradeThread == Entry \/ Reverse \/ Monitor

ExitThread ==
  \/ ReadPositions \/ Judge \/ CancelPending \/ Squared \/ ActivateKillSwitch
  \/ \E s \in Securities : LookUp(s) \/ Square(s)

Broker ==
  \/ \E s \in Securities : FillBuy(s) \/ FillSell(s)
  \/ \E l \in Legs : TriggerStop(l) \/ FillStop(l)
  \/ Reject

Environment ==
  \/ \E l \in Legs : Expire(l)
  \/ OwnerOrders \/ Restart \/ TradeFault \/ ExitFault

Next == TradeThread \/ ExitThread \/ Broker \/ Environment

Spec == Init /\ [][Next]_vars

\* Both threads loop for as long as the market is open (whether a candle
\* makes the trade thread enter is not up to it), and an exchange fills (or
\* rejects) a market order of the bot and a triggered stop.
Loop == BuyPut \/ SavePut \/ ArmPut \/ SavePutIds \/ Reverse \/ Monitor

Fairness ==
  /\ WF_vars(Loop)
  /\ WF_vars(ExitThread)
  /\ \A s \in Legs : WF_vars(FillBuy(s))
  /\ \A s \in Securities : WF_vars(FillSell(s))
  /\ \A l \in Legs : WF_vars(FillStop(l))

FairSpec == Spec /\ Fairness
-----------------------------------------------------------------------------
RowType   == [status : Status, sl : 0 .. MaxLevel,
              ids : Ids, match : BOOLEAN, old : BOOLEAN]
TradeType == [pc : TradePC, leg : Legs, remaining : {0, 1}, none : BOOLEAN]
ExitType  == [pc : ExitPC, snapshot : [Securities -> Int],
              todo : SUBSET Securities, manual : BOOLEAN]

TypeOK ==
  /\ row \in [Legs -> RowType]
  /\ pos \in [Securities -> Int]
  /\ buying \in [Securities -> Nat]
  /\ selling \in [Securities -> Nat]
  /\ stop \in [Legs -> Stops]
  /\ trigger \in [Legs -> 0 .. MaxLevel]
  /\ killed \in BOOLEAN
  /\ t \in TradeType
  /\ x \in ExitType
  /\ killSwitch \in BOOLEAN
  /\ used \in [Bounds -> Nat]
  /\ buys \in [Legs -> Nat]
  /\ lost \in Nat
  /\ suspect \in SUBSET Legs

\* The quantity the account still has of l once every order in flight and
\* the stop have been filled.
StopOpen(l) == IF stop[l] \in {"pending", "triggered"} THEN 1 ELSE 0
Exposure(l) == pos[l] + buying[l] - selling[l] - StopOpen(l)

\* Whatever the threads' interleaving, exceptions and restarts, a leg's
\* orders together never sell more than was bought, unless one of three
\* things happened to the leg (suspect): a BUY of it was refused, cancelled
\* or rejected and the thread went on as if bought, the exit thread sold its
\* snapshot of it, or a market exit did not cancel the stop it counted (the
\* stop was already filled, or the cancellation failed).
ShortHasCause == \A l \in Legs : Exposure(l) < 0 => l \in suspect

\* A day has one put entry, plus one for each entry that was cut off between
\* the accepted order and the save of its row (only the row prevents the
\* next); it has one reverse call whatever is raised or restarted.
EntriesAreBounded == buys["PE"] <= 1 + lost /\ buys["CE"] <= 1

\* The trigger the broker holds is the stop of the row, except between the
\* save of a raised stop and its modification, and after a modification
\* that was never made; it is then the lower of the two.
Modifying(l) == t.pc = "modify" /\ t.leg = l
StopFollowsRow ==
  \A l \in Legs : stop[l] = "pending" =>
    /\ trigger[l] <= row[l].sl
    /\ used.faults + used.restarts = 0 /\ ~Modifying(l) => trigger[l] = row[l].sl

\* The rows live as ScalperDay promises: at most one put and one call a day,
\* the call only after the put's row is closed, and a closed row stays so.
Day == INSTANCE ScalperDay WITH put <- row["PE"].status, call <- row["CE"].status
FollowsDay == Day!Spec

\* A long position of a leg without a live row of its own (an entry that lost
\* its row, a row closed while its position was open) is taken for a manual
\* trade by the exit thread, unless it ceases to be without one first.
Explained(s) == s \in Legs /\ row[s].status = "placed" /\ row[s].match /\ pos[s] = 1
Orphan(s)    == pos[s] > 0 /\ ~Explained(s)
OrphanIsNoticed == \A s \in Legs : Orphan(s) ~> (x.manual \/ ~Orphan(s))

\* An orphan of any security, the owner's included, is sold, unless MaxAlarms
\* passes were spent on the account or the kill switch was on before the
\* position was closed: trading is then disabled for the exit thread too.
OrphanIsSquared ==
  \A s \in Securities :
    Orphan(s) ~> (~Orphan(s) \/ killed \/ used["alarms"] = MaxAlarms)

\* What check_exit_criteria logs before it pulls the kill switch: "Found
\* manual trade. Activating kill switch."  It is pulled on the account's own
\* position as well: between the accepted BUY and the save of its row, and
\* for a call whose strike is not the one in its row.
KillSwitchIsForManualTrades == killSwitch => used.orders > 0

\* Once the stop of a placed row is gone the row is closed, unless an order
\* of the owner stays pending: any PENDING order of the account hides it.
StopEndsTrade ==
  \A l \in Legs : (row[l].status = "placed" /\ stop[l] = "gone")
                   ~> (row[l].status = "exit" \/ buying[Manual] > 0)
=============================================================================
