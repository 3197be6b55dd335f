# Verification of algo-trade

TLA+ models, model-checking configurations and TLAPS proofs for the trading
service under `src/trading_django/trading` and for the library of technical
indicators it computes with, `src/ta-lib`.  The references `file:line` are to
the first directory, or, for `ta_*.c`, to the second, unless they say otherwise.

## 1. The system

The service trades index options for one account.  A Celery worker runs two
long tasks (`tasks.py`): `execute_trades`, which starts the trading threads of
`DhanManager`, and `update_kite_ticks`, which keeps the latest prices in Redis.
Everything else is reached from these, from the HTTP views, or is older code
(the Kite path) that the tasks no longer start but the repository keeps.

| component | state it keeps | operations | interacts with |
|---|---|---|---|
| Put scalper, trade thread (`dhan_manager.py:97-885`) | `TelegramTrade` rows of type DHAN_PUT_SCALPER; locals of a pass | enter on a 9:xx candle, save, arm the stop, watch orders, trail, exit at market, reverse into a call | broker (orders), database, Redis (ticks), mail queue |
| Worst-case exit thread (`dhan_manager.py:2450-2651`) | `kill_switch`; a snapshot of the positions | look positions up, cancel, square off, kill switch, send queued mail, keep the web session clean | broker (positions, orders), database, web site, mail queue |
| Hedge trades (`dhan_manager.py:239-258, 1326-1358`) | `updated_order_status` in the metadata of DHAN_HEDGE rows | put on hold before an entry, re-arm after the scalper's day | the put scalper's rows |
| Pair scalper (`dhan_manager.py:888-1007`) | DHAN_PAIR_SCALPER rows | monitoring only: the entry is commented out | broker |
| Kite manager (`kite_manager.py`, `strategies/*`) | `order_status` and metadata of a trade | cancel, entry, exit and placement passes once a second | Kite broker (GTT orders), Redis, `strategies/*` |
| User trading (`kite_user_manager.py`, `user_trading_manager.py`) | `CombinedUserTrade` and its children | place several users' orders as one | Kite broker, HTTP views |
| Tick updaters (`dhan_tick_updater.py`, `kite_tick_updater.py`) | `dhan_tick_data` in Redis | subscribe, write ticks, resubscribe | broker feed, Redis |
| Mail queue (`dhan_manager.py:61, 483, 628, 850, 2399, 2610-2619`) | a Python list of mails | append, send the last, pop it | both threads, `../tips/gmail.py` |
| Redis map and rolling queue (`strategies/rolling_redis_queue.py`) | keys of one Redis database | merge into a key, get; the rolling queue is used by no live code | both managers and the updaters |
| Telegram ingestion (`telegram_manager.py`, `../tips`) | `TelegramMessage`, `TelegramTrade` rows | read a channel, parse, deduplicate, persist | database |
| Scheduler (`scheduler_manager.py`, `tasks.py`) | periodic tasks of Celery beat | schedule, kill and restart worker and beat | views, worker |
| Dhan web manager (`dhan_web_manager.py`) | browser session | log in, reset tokens, kill switch on the site, with retries | exit thread |
| HTTP API, authentication, brokers' wrappers, scripts | none of their own | | |
| TA-Lib candlesticks (`ta_func/ta_CDL*.c`, 61 functions) | the candle settings in `TA_Globals`; inside a call the running totals and the remembered hikkake | recognise a pattern bar by bar; set and restore the settings | called through the Python wrapper (`../strategies/3pm_strategy.py:110`, `../strategies/momentum_trading.py:62`, `kite_user_manager.py:17`, `strategies/entry_with_pull_back_strategy.py:5`) |
| TA-Lib indicators (`ta_func/ta_*.c`, 97 functions) | the unstable periods and the compatibility in `TA_Globals`; the caller's arrays | one value per bar of a range, in place where the caller shares an array | one another (STOCH calls MA calls EMA ...), the wrapper |
| TA-Lib abstract interface (`ta_abstract/*`) | parameter holders, string tables, the generated tables, frames and group index | list, look up, describe, set parameters one by one, lookback, call | every TA function; generated by `tools/gen_code` |
| TA-Lib code generator, XML description, test drivers (`tools/*`, `ta_func_api.c`) | none at run time | | |

What is hard: two threads and an exchange share rows, positions and orders and
nothing locks; every broker call may raise, and one `except` at the end of a
pass swallows whatever the pass had done half; the worker may be killed
between any two calls; what was read before a sleep is used after it.  In the
library nothing runs concurrently; there the hazards are of another kind:
totals, rings and seeds carried from bar to bar, which must give what a fresh
computation would, for every range a caller may ask for; an output in the
array of an input; settings changed between calls; and generated copies (158
prototypes, frames, table entries) that must agree.  The full list, line by line, is `hazards` in PROJECT.json.

What makes each part correct:

- trade thread: one entry a day; the row, the stop order and the position
  agree; never more sold than was bought; a filled stop closes the row;
- exit thread: whatever nobody's row explains is noticed and sold; the kill
  switch is for manual trades;
- mail queue: no mail leaves it without its turn, or has two;
- candlesticks: what is said of a bar depends on the bars, not on where the
  call started; the copies agree with what their names promise;
- indicators: each value is the one its formula gives at its bar, wherever it
  is written; the range is the one the lookback promises;
- abstract interface: the function gets what the caller asked for, each
  argument at the parameter of its name, or is not reached.

## 2. Plan

1. `ScalperDay` (abstract) and `DhanScalper` (both threads, the exchange, the
   worker's restarts) with `DhanScalper_proofs`: what runs every day.
2. `TrailingStop`, the ladder of `dhan_manager.py:565-623` over integer prices,
   and `MailQueue`, the list the two threads share, each with its proofs.
3. The candlestick functions: `Candles` (settings and macros), `CandleSingles`,
   `CandlePairs`, `CandleTriples`, `CandleSequences` (the patterns),
   `CandleCalls` (a call as a state machine), `CandleProperties`.
4. The indicators: `Indicators` (memory, calls, fixed point), one module per
   family, `IndicatorComposites` (those that call others), `IndicatorCalls`
   (a caller), and as the abstract specification `IndicatorDefinitions` with
   `IndicatorCycleDefinitions`.
5. The abstract call interface: `ParamHolder` over the generated data
   (`AbstractPrototypes`, `AbstractFrames`, `AbstractParameters`,
   `AbstractTables`, `AbstractGroups`, `FunctionChecks`).

All five are built and have proofs (section 10); of the indicators, that every
output lies in the range the lookback promises and fits its array.

## 3. DhanScalper

One day of the scalper.  An action is one broker call or one database save,
with the local computation around it: threads interleave exactly there.

- `row[l]` is the row of the put (`PE`) or the call (`CE`): `status` is
  `order_status` (`placed` = ORDER_PLACED_DHAN, `exit` =
  ORDER_EXIT_EXECUTED_DHAN, `none` = no row); `sl` is `exit_stop_loss_price` as
  a level of the ladder (0 is the first stop, below the entry price; 1 is the
  entry price or above it); `ids` is what the second save has put into the
  metadata: not even `security_id` (`none`), an empty list of stop orders
  (`empty`) or the stop's order (`full`); `match` that the strike in the row
  is the strike that was bought; `old` that 300 minutes have passed.
- `pos`, `buying`, `selling`, `stop`, `trigger`, `killed` are the broker's:
  net quantities, quantities in flight, the stop order and its trigger.
- `t` and `x` are the threads: what each does next and the locals of its pass
  (`remaining` = `remaining_quantity`, `none` = `no_pending`; `snapshot` =
  `positions`, `manual` = `manual_trade`, `todo` = the rest of the loop).
- `used` counts what the environment has spent of its bounds; `buys`, `lost`
  and `suspect` are history, read by no action's guard.

| code | actions |
|---|---|
| entry, 245-477 | `SkipDay`, `EnterPut`, `BuyPut`, `SavePut`, `ArmPut`, `SavePutIds` |
| monitoring pass, 492-737 | `Look`, `Trail`, `Modify`, `Decide`, `CancelStop`, `SellRest`, `CloseRow` |
| reverse call, 739-878 | `BuyCall`, `SaveCall`, `ArmCall`, `SaveCallIds` |
| exceptions, 485-490, 880-885 | `TradeFault` |
| exit thread, 2472-2602 | `ReadPositions`, `LookUp`, `Judge`, `CancelPending`, `Square`, `Squared`, `ActivateKillSwitch` |
| its exceptions, 2516-2521, 2603-2608 | `LookUp`'s second disjunct, `ExitFault` |
| the exchange, the clock, the owner, the worker | `Fill*`, `TriggerStop`, `Reject*`, `Expire`, `OwnerOrders`, `Restart` |

Abstractions: a quantity is one unit, and one order per `place_slice_order`
(the scalper's quantities are far below the freeze quantity that slices); one
security per leg, so a second put of another strike after a lost entry counts
on the same leg; which prices move the stop is left open (any level not below
the row's); a reverse call happens after any market exit the prices could have
produced; the day has no live DHAN_HEDGE row (one blocks the entry, 267);
`CLOSE_COUNT_THRESHOLD = 1` makes lines 666-673 dead, `target_order_id_list`
is always empty, and the pair strategy is off (199); the cancellations of one
square-off are one step; the owner only trades a security of their own
(`Manual`).  External assumptions, drawn from how the code reads the answers
(698-713 test the shape of one before using it): a call may raise, or answer
without the data asked for, or answer so although it took effect; an order
refused because of the kill switch carries no order ids; the kill switch may
or may not take effect.  `MaxFaults` bounds the calls that fail in any of these
ways.

`ScalperDay` is the abstract day: the put's row is opened or skipped once, the
call's only after it is closed, and what is closed stays closed.

### Properties

- `TypeOK`: the types, and the stop within the ladder.
- `ShortHasCause`: a leg's orders together never sell more than was bought
  unless one of three causes is on record (`suspect`): a buy was refused,
  cancelled or rejected and the thread went on as if it had bought; the exit
  thread sold a snapshot; a market exit did not cancel the stop it counted.
  Each cause is a real path of the code to a naked short; the property says
  there is no fourth.
- `EntriesAreBounded`: one put entry plus one per entry cut off between the
  BUY and the save of its row; one reverse call, whatever happens.  It is a
  count: a call bought while the exit thread closes the account (664), or a
  stop that a row without its ids no longer trails (445), is within it.
- `StopFollowsRow`: the stop at the broker is never above the row's, and equal
  unless a modification is due or was lost to a failed call or a restart.
- `FollowsDay`: refinement of `ScalperDay`.
- `OrphanIsNoticed`, `OrphanIsSquared`, `StopEndsTrade`: liveness, below.
- `KillSwitchIsForManualTrades`: what the log line 2598 says; it is violated.

### Runs

| run | bounds | shows |
|---|---|---|
| `dhan_interleavings` | no faults, one square-off, both kinds of candle, the loss limit | the five safety properties under every interleaving (3.6 million states) |
| `dhan_faults` | the trade thread alone, one failed call, one rejection, one restart | the same four safety properties under failures (2.5 million states) |
| `dhan_live` | fair, red candles, one rejection | `OrphanIsNoticed` (of a leg; the owner's security is in `dhan_owner`) and `StopEndsTrade` |
| `dhan_owner` | fair, bullish candles, two orders of the owner, one failed call, three alarms | `OrphanIsSquared` |
| `dhan_kill` | no fault, no owner | the kill switch without a manual trade |

Bounds: `MaxLevel = 1` distinguishes the losing stop from the others, and the
code only compares; one failure at every possible call is what a single
`except` at the end of a pass handles, the second meets the same state; one
square-off already contains a stale snapshot, and one more adds nothing the
proofs below do not cover for every number.  `MaxAlarms` cuts further alarms
off at `get_order_list` raising, which the code allows.  `dhan_faults` does not
check for deadlock: with the exit thread off the trade thread really is idle
once its rows are closed.

Fairness: both threads loop without a blocking wait while the market is open
(weak fairness on each thread); the exchange fills market orders and triggered
stops of the bot.  Nothing is assumed of the candles (entry may never happen),
of the owner, or of stops being triggered.

## 4. TrailingStop

What one pass does to the row's stop, given the price it reads.  `entry` is
`entry_start_price`, `first` the stop the row is created with, `stop` its
`exit_stop_loss_price` now; `peak` is history, the highest price read.

- Units: entry prices and stops in tenths of a rupee (`round(..., 1)`, and
  `TelegramTrade.save` in `models.py:42-53` rounds again), traded prices in
  ticks of 0.05, factors in thousandths.  `At` and `Sl` are the table of the
  twelve tests; the put's ladder (595-623) and the call's (565-593) are the
  same.
- Floating point: a product half-way between two tenths may be rounded to
  either, and a price equal to a threshold may or may not reach it.  The
  constants `HalfUp` and `Meets` say which, once for every entry price and
  factor, as one IEEE product does.
- `Pass(p)` is one pass with `no_pending` false; `Highest` is what the order
  of the tests makes of them (the last one that holds decides), `Raised` the
  comparison that keeps the stop from falling.
- `FirstStops`: a tenth below the premium for the put (435), `|sl_percent| + 1`
  percent for the call (821), and a slip of a tenth either way because the row
  rounds entry and stop separately.

Properties: `StopOfPeak` (the stop is the one of the highest price read,
although no pass looks at an earlier price), `StopBelowPeak` (a raised stop
is not above the price that raised it, rounding included), `TwoLevels` (the
levels 0 and 1 that `DhanScalper` reduces the ladder to are all there are).
The run `trailing_stop` takes four entry prices from 0.70 to 7.00, every price
in ticks up to 14.00 and ties that alternate; every rung and every kind of
tie occurs.

## 5. MailQueue

`gmail_queue`, a list nothing locks.  `Enqueue` is the trade thread's
`append`; `ReadLength`, `Send` and `Pop` are the exit thread's three steps
(2612-2616), `last` its local `queue_len`, and an append may come between any
two.  `Restart` is the worker being killed, which loses the list (`dropped`).
`send_email` prints its exceptions and returns (`../tips/gmail.py:197, 235`),
so a failed mail is popped like a sent one (`missed`).

`NothingIsLost`: a mail leaves the queue only after its turn; `SentOnce`: it
has one turn; `EveryMailGoesOut`: it has it in the end, although the newest
is always served first.  `mail_failures` refutes what the handler at
2617-2619 is written for, that a mail whose sending fails stays queued.

Bounds: four mails, so that several wait behind a newer one; one failure and
one restart, at any point.  The queue is allowed to stop when all is sent
(deadlock is not checked).  `EveryMailGoesOut` rests on there being finitely
many mails and on weak fairness of the exit thread's three steps, which come
round every five seconds while the market is open; under appends that never
pause, the oldest mails would wait for ever.

| run | bounds | shows |
|---|---|---|
| `trailing_stop` | four entry prices, two discounts, prices up to 280 ticks | the three properties of the ladder |
| `mail_queue` | four mails, one failure, one restart | the three properties of the queue |
| `mail_failures` | the same | a mail that fails is popped |

## 6. Candlesticks

A candlestick function checks its range, moves the start up to its lookback,
sums the ranges of the bars its averages need, and walks: an iteration writes
one output from the totals, adds the current bar to each of them and takes its
oldest off.  `CandleCalls` is that walk, `Call`, `Iterate`, `Return`, with
`SetCandleSettings` and `RestoreCandleDefaultSettings` between calls.  What
differs from function to function is data of two kinds: `CDLx_Plan` (the
lookback, the averages with the bar each lags behind, what the function sets up
before its loop) and `CDLx(i, T)` (the condition and the sign).  `hk` is what
the two hikkake functions remember.

Prices are multiples of `Unit`, so that the divisions of the macros in
`ta_utility.h` are exact and comparisons mean what they mean on reals; the
rounding of doubles is not modelled.  `optInPenetration` is one half in the run.
The index outputs are left out.  `TA_S_CDLx`, the copy of `TA_CDLx` for
single-precision inputs in the same file, has the same statements line for line
over `float` arrays; with exact prices the two are one definition, which stands
for both.

- `SameFromAnyStart`: each output is what the bars alone say; the totals
  carried along, and the hikkake remembered before the first output, add
  nothing and lose nothing.
- `ReadsInsideInput`: no read before the first element.
- `ConfirmationFollowsHikkake`: once, within three bars, in its direction, also
  of a pattern found before the first output.
- `Complete`: one output per bar, from no earlier than the lookback.
- `Kinships`, `ToldApart`: a special case is found only with the general one,
  a third candle confirms what the second reported, and rivals exclude one
  another.  Each pair is two source files.
- `MirrorImage`: on the chart upside down a function with two sides reports
  the other.  `INSTANCE CandleCalls WITH bars <- ...` is that chart.

The run `candles` has all 61 functions (211 578 states): series of 8 bars
chosen so that each function reports each of its results, two of them joined
for the default settings' averages of ten bars, all starts, ranges that are
refused, one change of a setting and its restoration.

In `ta_CDLDOJISTAR.c` the comment at 227-228 calls the pattern bullish, hence
positive, when the long candle is white and the star gaps up; line 241 outputs
`-TA_CANDLECOLOR(i-1) * 100`, the opposite sign.  The model follows 241.

## 7. Indicators

A call `v` is a record: the memory it finds, which array each input and output
is, the range, the parameters and the settings.  `TA_X(v)` is what the call
leaves: memory, `*outBegIdx`, `*outNBElement`, return code.  `Run` is the loop
most functions share; a function that calls others composes their memories,
temporary arrays included, and chooses its buffers as the code does, by
comparing the caller's pointers.  A write outside an array is kept in
`stray`; an element never written holds `Garbage`.

`IndicatorDefinitions` says what each indicator is: an expression over series,
without memory, running sums or outputs.  `SameAsDefinition` is the refinement:

- `SameAsDefinition`: each value returned is the defined one, wherever the
  range starts and ends and whichever array it is written to;
- `OutputsFit`: nothing is written outside an array, the functions' own buffers
  included, beyond the elements the lookback promises, or into an input that is
  not an output; where an output shares the array of an input, its intermediate
  results may reach further, but never past the bars of the range;
- `RangeAsPromised`: every call on a range succeeds, and its output is exactly
  the bars from the later of the start and `TA_X_Lookback` to the end;
- `Bounded`: oscillators stay on their scale, bands in order, a parabolic stop
  outside its bar.  SAR and SAREXT, whose every value is a state of the walk,
  are only asked for this.

Numbers are in fixed point (`Unit` = 576): a quotient is rounded down, in the
model of the code and in the definition at the same place, so that a
difference between them is one of structure.  Angles come from Bhaskara's
formula.  `MathFunction` stands for the C library: the 15 functions that apply
it element by element are checked with an arbitrary map.

The run `indicators`: two markets of 12 bars (restless; flat, climbing, flat
and falling: ties, zero volumes and bars without range), 30 bars for MACDFIX
and 70 for the seven cycle functions, starts -1 to 9 before, at and after the
lookback, each output fresh or in the array of an input, unstable periods 0, 1
and 2 for all functions at once, both compatibilities; 97 functions, 41 052
states.  Parameters are valid ones (`FunctionChecks` has the others).

`SameAsDefinition` is not asked for:

- NATR with a range that starts after the lookback: it divides by the close of
  another bar (`ta_NATR.c:317, 331`), which `indicator_natr` shows;
- TRIX likewise: with an unstable period its first average starts elsewhere
  than the array it is copied to supposes (`ta_TRIX.c:236`);
- STOCHF and STOCH with only %D in the array of an input: the buffer they pick
  (`ta_STOCHF.c:375, 452, 476`, `ta_STOCH.c:382`) is overwritten before %K is
  copied from it;
- MAVP with its output in the array of an input: later periods then average
  what was already written;
- BBANDS with MAMA as its average and a period longer than MAMA's lookback (no
  such request is made): the deviation's call overwrites `*outBegIdx`
  (`ta_BBANDS.c:345`) after the average was written from an earlier bar, so the
  bands begin after the bar of `TA_BBANDS_Lookback` and each average is added to
  the deviation of a later bar.  `FirstBar` says where they begin;
- the position of equal extremes: MAXINDEX, MININDEX and MINMAXINDEX name some
  bar of the window with the extreme value, which one depends on the start.

A `TA_X` whose map entry names `TA_S_X` too stands for both: the copy for
single-precision inputs has the same statements line for line.

NVI and PVI have no body.  Null arrays and failed allocations are left out.

## 8. Abstract call interface

`ParamHolder` is a caller of `ta_abstract/ta_abstract.c`: it lists groups and
functions (`TA_GroupTableAlloc`, `TA_FuncTableAlloc` and their `Free`s, each of
which refuses the other's table), takes a handle by name (`TA_GetFuncHandle`,
the table of the first letter), allocates a holder, calls the setters in any
order, with NULL, with indexes that do not exist, with the wrong type, with a
missing price component, again and again, asks for the lookback and calls.
Any allocation may fail half-way (`ParamHolderAllocFails(f, k)`).

`in`, `optIn`, `out`, `inBitmap`, `outBitmap` are the holder's; a member of
a union is tagged with the member stored last.  `heap` is the set of allocated
blocks.  `asked` and `halfSet` are history: what the last successful setter of
each parameter was given, and the inputs a refused price setter wrote to.

The data are modules of their own, each definition one entry of a generated
file: `AbstractPrototypes` (`include/ta_func.h`: each function's parameters in
order), `AbstractFrames` (`frames/ta_frame.c`: what the frame reads, and
passes, in order), `AbstractParameters` (`ta_def_ui.c`), `AbstractTables`
(`tables/table_*.c`), `AbstractGroups` (`ta_group_idx.c`), `FunctionChecks`
(the ranges and defaults at the top of each `ta_X.c` and of its lookback).

- `CallIsAsAsked`: a function that is reached gets at each parameter of its
  prototype what the caller last set with success under the name the table
  declares for it.  This relates four generated files, the union, and the
  setters' refusals.  A refused price setter that had already overwritten some
  components (911-924) is the one exception.
- `CalledWhenComplete`: it is reached exactly when every input and output was
  set, and then sees no NULL and no member of a union read as another.
- `DefaultsAgree`, `RangesAgree`: the table declares the defaults and ranges
  the function and its lookback enforce (reals in hundredths).
- `NothingLeaks`: nothing stays allocated after a free or a failed allocation.
  `TA_ParamHolderAlloc` returns without freeing its holder when a function has
  no inputs (`ta_abstract.c:654`, `RefusedWithoutInputs`: the block is `"lost"`);
  no function of the tables is like that, which `TablesAgree` says.
- `TablesAgree`: the generated files agree.  `FramesAgree`, about each of the
  158 functions: the frame passes every parameter the table declares, once, at
  the prototype's parameter of that name, the optional inputs in order, and
  the function checks the declared range and has the declared default.
  `EveryFunctionHasInputs`: none takes the return of line 654.
  `GroupListsItsFunctions`: a group's list is that of the functions that
  declare it, and each name in it is found.

The run `abstract` takes all 158 functions, two sources and two outputs (a
stale or exchanged pointer shows with two), and one optional input at a time
away from its default, at both sides of both ends of its range (134 676
states, depth 10: every function to a complete call and beyond).  Magic
numbers and handles nobody gave the caller are left out; the queries that
only copy a table entry out change no state.

Divergences noticed without a run: `include/ta_abstract.h:121` says a NULL
group lists all functions, while `ta_abstract.c:273` refuses it;
`ta_abstract.h:455-456` says a call with an input or output left out returns
`TA_BAD_PARAM`, while `TA_CallFunc` returns `TA_INPUT_NOT_ALL_INITIALIZE` or
`TA_OUTPUT_NOT_ALL_INITIALIZE`.

## 9. All runs

| run | expects | bounds | shows |
|---|---|---|---|
| `dhan_interleavings`, `dhan_faults`, `dhan_live`, `dhan_owner` | pass | section 3 | the scalper's safety under interleavings and failures, and its liveness |
| `dhan_kill` | violation | section 3 | the kill switch without a manual trade |
| `trailing_stop` | pass | section 4 | the ladder |
| `mail_queue` | pass | section 5 | the shared queue |
| `mail_failures` | violation | section 5 | a mail that fails is popped |
| `candles` | pass | section 6 | 61 candlestick functions |
| `indicators` | pass | section 7 | 97 indicator functions |
| `indicator_natr` | violation | starts 0, 5, 6, 8 | NATR divides by another bar's close |
| `abstract` | pass | section 8 | 158 functions through the call interface |

## 10. Proofs

`DhanScalper_proofs` proves, for every value of the constants
(`ConstantsAssumption`):

- `TypeCorrect`, one lemma per group of actions;
- `NoShortWithoutCause`.  `ShortHasCause` is not inductive: `Arm` and
  `SellRest` each take one unit.  `Covered` adds that a leg above suspicion has
  one unit to give while the thread is between the BUY and the stop, and
  between a stop it really cancelled and the market sell;
- `EntriesBounded`, `StopsFollowRows` and `Refinement` from `DayInv`: a put is
  only bought without a row, which of the accepted entries have one
  (`PutOnce`), no call before the put's last pass is over (`CallOnce`), passes
  and stops only for rows that exist (`RowExists`, `NoEarlyStop`), and a
  pending stop its row does not name only after a failed call (`StopNamed`:
  such a stop is never modified).  The exit thread and the exchange enter
  only through `Apart`: they touch none of what `DayInv` speaks about except
  to take stops away.

`TrailingStop_proofs` proves `StopIsOfPeak`, `StopStaysBelowPeak` and
`OnlyTwoLevels` for every set of entry prices and discounts, every sequence of
prices and every `HalfUp` and `Meets` (`LadderAssumption`).  They rest on
`Table` (the ladder rises, each stop between the entry price and its
threshold), `RoundNear` and `RoundGrows`.  `StopOfPeak` is not inductive, for
it speaks of the highest rung only; `StopOfRungs` adds that the stop is at
least that of every rung ever reached, and that of one of them.

`MailQueue_proofs` proves `NoMailIsLost` and `NoMailIsSentTwice` for every
number of mails, failures and restarts.  The first needs `PopsTheTried` (the
mail about to be popped has had its turn), the second `Ordered` and `Fresh`
(the mails differ, and only the one about to be popped may have gone out).

`TypeCorrect` of either module is the type part of the same invariants; in
`MailQueue` it says that the index the exit thread pops at is inside the queue.

### Candlesticks

`CandleProperties_proofs` proves all eight properties of the run `candles`, for every series
of bars, every range, every setting and penetration a caller may choose
(`CandleAssumption`: bars with high and low outside the body, periods that are
naturals, factors and penetrations with a positive denominator).

- The functions: what a sum of ranges is and how it moves by one bar
  (`RangeSumMoves`), by induction over its length.  The induction theorem of
  the library takes an operator and cannot be cited; `SetInduction` gets there
  by the least element of the set of counterexamples (`WFMin`), for which a set
  is enough.  Then, for each of the 61 functions, that its plan is well formed
  (no average reaches before the lookback), that its results are among its own,
  and that it reads its totals and the settings only where the invariant speaks
  of them.
- The loop: the inductive invariant `IInv`.
  `SameFromAnyStart` speaks of outputs only, so `IInv` adds what the loop
  carries: `TotalsExact` (each running total is the sum the next average needs
  and its trailing index the bar to take off), `Remembers` (the remembered
  hikkake is the one that still waits for its confirmation) and `LoopInRange`.
  From it follow `TypeCorrect`, `OutputsDependOnBarsAlone`, `ReadsAreInside`,
  `ConfirmationsFollow` and the action property `OutputsAreComplete`.
- The patterns: `PatternsAreKindred`, `RivalsAreToldApart` and
  `FormsAreMirrorImages` hold of what the bars say, so they need no more of the
  invariant than types.  Of the last, a lemma per function relates its
  condition on the bars to that on the bars negated, with high and low
  exchanged.

### Indicators

`IndicatorCalls_proofs` proves `RangesArePromised` (`RangeAsPromised`) for every
data, range, set of requests and unstable period: whatever the arrays hold,
each of the 97 functions answers for exactly the bars its lookback tells.  It
assumes that a request has parameters the checks at the top of a function let
through (`RequestsAssumption`: periods of at least 1, types of average that
exist) and that unstable periods are naturals.

The property follows from the settings alone, so its inductive invariant,
`RangeInv`, adds only that the unstable period is a natural.  The work is in the
calls, from the inside out.  `Spans(w, v, lookback)` says what an answer `w` is
for a call `v`: success, with the bars from the later of the start and
`lookback` on, or with none.  `Walks` is that of a loop over the bars, and each
function that is one has a lemma; then a function that calls others is computed
from what they span: `MA` and `MAVP` by the type of average, `DEMA`, `TEMA`, `T3`
and `TRIX` by the sums of their averages' lookbacks, `STOCH`, `STOCHF` and
`STOCHRSI` stage by stage.  In `MACD`, `MACDEXT` and `MACDFIX` the two averages
are compared before they are subtracted (`ta_MACD.c:476-486`,
`ta_MACDEXT.c:438-448`, "Parano tests. Will be removed eventually."):
`INT_MACDSpans` and `MACDEXTSpans` show that the two spans are always equal and
that `TA_INTERNAL_ERROR(119)` is never returned.  `BuffersAreNotTheInput` shows
the same of the buffers of BBANDS: with three different output arrays it never
refuses its input.

`IndicatorOutputs_proofs` proves `OutputsAlwaysFit` (`OutputsFit`) for the same
97 functions.  Besides the assumptions above it needs that the caller passes the
inputs and outputs of the function's prototype, with numbers for every bar of
the range (`PassesArrays`), and that the fresh arrays are apart from the inputs
and from the functions' own (`FreshAssumption`).  Its inductive
invariant `FitInv` adds only that the unstable period is a natural, so the work
is again in the calls.

- `Touches(T, temps, m, w)`: from memory `m` to memory `w` only the first
  `T[a]` elements of each array `a` changed, and the arrays `temps` in any way;
  nothing went astray.  Allowances compose (`ThenNew`, `ThenOutput`,
  `TouchesLess`), so that a function may be taken call by call.
- A walk over the bars has a lemma saying that it writes one element for each
  bar.  That is an induction over the bars, the same for every walk.  `Loops`
  states it once, with the body of the loop and what it keeps as operator
  CONSTANTS: the library's induction theorems take an operator as a parameter,
  which no backend can instantiate, but an INSTANCE supplies it.  The theorem
  shows that the recursive function in `Repeated` exists, and asks of its user
  only that a set with 0 and every successor holds the naturals (`SetInduction`,
  by the least counterexample).
- `Fits` says that the answer of a function keeps to its `Budget`: the elements
  from the lookback on of a fresh output, the bars of the range of a shared one.
  From the inside out: the averages, then what calls them.  `RangesArePromised`'s
  lemmas give how much a call writes; the buffers are as large as their
  allocation, and which of them is an output is what the code compares pointers
  for (DEMA, BBANDS, STOCHF).
- The start values of ATR, NATR, SAR and SAREXT are computed by a call whose
  memory the model does not carry on.  `ATRRangesFit`, `ATRSeedFits` and
  `SARDirectionFits` show that those calls write their buffer and nothing else
  (`AsideFits`).

### Abstract call interface

`ParamHolder_proofs` is about any tables with the shape
`ParamHolderAssumption` states: a list per group, a table per letter, inputs
that are a price bar or one series, no more inputs or outputs than a bitmap of
`1 << paramIndex` has bits, frames that read only declared places.
TLC evaluates it for the library's.  `IInv` says exactly what each piece of
state is: `HeapExact` (the heap is what the caller holds, and a
holder is lost only to a function without inputs), `BitmapsExact` (a
bit is set while nothing was asked for), `InputsExact` (no NULL in an input
that was asked for, and what was asked for unless a refused setter wrote to
it since), `OthersExact`, and `AnswersFresh` (the last answer is the one the
holder would still give: a setter that succeeds forgets it, nothing else
changes it).  TLC checks `IInv` over the bounds of the run `abstract`.

`TypeCorrect` and `CallsAreComplete` need nothing else.  `NothingIsLost` has
the hypothesis `EveryFunctionHasInputs`: in a table with a function without
inputs the code does leak (line 654), and TLC reads the library's 158 for it
(`TablesAgree`).
`CallsAreAsAsked`, `RangesAreAsDeclared` and `DefaultsAreAsDeclared` say what
follows where the generated files agree: their hypothesis is `FramesAgree`, a
statement about constants that the run `abstract` checks of all 158 functions
as part of `TablesAgree`.  So TLC reads the data and the proof covers the
order, the repetition and the refusal of setters, for any number of sources,
outputs and optional inputs away from their defaults.

### Only model-checked

- Liveness (`StopEndsTrade`, `EveryMailGoesOut` and the others of sections 3
  and 5): no rule for ENABLED and fairness here.
- The properties the code violates, of course.
- `TablesAgree`: finite data, which TLC reads whole.
- The other properties of the indicators.  `SameAsDefinition` and `Bounded`
  compare what a loop carries with a formula: the induction of `Loops` reaches
  them, but each step is about products and quotients of variables, which the
  SMT solver does not decide.  `TypeOK` says that every element is an integer,
  and the fixed-point quotient is one only where the data do not make a divisor
  zero: that is a fact about values, not about types.

## 11. Not modelled

`components` in PROJECT.json has the reason for each part.

- The Kite path: `tasks.py:66` has `KiteManager().execute_trades()` commented
  out, so none of its passes runs; the user-trading rows that its loop would
  act on are inserted and read back, nothing more.
- Hedge and pair trades of `dhan_manager.py`: only the hedge's re-arming is live
  code; the pair strategy's entry is commented out.
- `RedisMap` and the tick updaters: a relay with one writer per key;
  `DhanScalper` allows any price at any time, so it covers every tick the relay
  delivers, delays or loses.  That nothing reconnects the feed is listed as a
  hazard.
- Telegram ingestion, mail and browser automation, HTTP views, chart analysis,
  back-tests: I/O, one row per request, or numeric heuristics without a stated
  promise.
- TA-Lib's code generator, its XML description (`ta_func_api.c` is the text of a
  file) and the test drivers.  The copies for single-precision inputs whose text
  differs from the original by a conditional: `TA_S_` of `BBANDS`, `CMO`, `DEMA`,
  `RSI`, `STOCH`, `STOCHF`, `WMA`.
