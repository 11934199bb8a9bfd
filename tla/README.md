# BitcoinTrader: a TLA+ development

BitcoinTrader (C++) keeps a websocket to the OKCoin futures exchange, builds bars from
its market data, lets strategies set signals on them, and places limit orders until the
position that is held is the one the blended signals ask for.  The modules here model
that core, TLC checks them on small instances, and TLAPS proves the central invariants
for every value of the constants.

Paths below are relative to `src/`, `src/src/` being where the .cpp files are.

## 1. The system

| Part (source) | State | Operations | Talks to |
|---|---|---|---|
| Connection thread (`handlers/bitcointrader.cpp` `manage_connections`) | `warm_up`, `warm_up_time` | ping, test, reconnect, warm up | websocket, handler's `tick` and `depth` |
| Websocket (`websocket/websocket.cpp`) | `status`, `endpoint`, `hdl`, `reconnect_lock` | `connect`, `reconnect`, `send`, `teardown`, `on_open`, `on_close`, `on_fail`, `on_message` | endpoint thread calls the `on_*`; callbacks are pushed to the pool |
| Thread pool (`libs/ctpl/ctpl_stl.h`) | `q`, `isDone`, 4 threads, a mutex with a condition variable | `push`, `stop(true)` | pushed to by the endpoint thread, stopped by `~websocket` |
| Exchange (`exchanges/okcoin.cpp`, `okcoin_futs.cpp`) | `channels`, `channel_timeouts`, one callback per kind of answer, `ts_since_last` | `on_message`; `order`, `cancel_order`, `orderinfo`, `userinfo`; REST `positions`, `backfill_OHLC` | pool threads and the position thread share all of it |
| Handler (`handlers/okcoin_futs_handler.cpp`) | `tick`, `depth`, `mktdata` | the open, OHLC, ticker and depth callbacks; `reconnect_exchange` | called by the exchange |
| Algorithms (`handlers/okcoin_futs_algorithms.cpp`) | `trading_done`, `cancel_time`, `done_limit_check`, `final_info` on the stacks of two threads | `limit`, its trade and orderinfo callbacks | exchange |
| Account (`get_userinfo`, `OKCoinFuts::userinfo_handler`) | a local of the position thread, `userinfo_callback`, the deadline of the channel | ask, wait ten seconds | the answer is written by a pool thread |
| Position thread (`bitcointrader.cpp` `position_management`, `handlers/okcoin_futs_manage_positions.cpp`) | locals of a pass | wait for the conditions, then a pass every 10s | `limit`, `tick`, `depth`, signals |
| Market data (`trading/mktdata.cpp`) | `bars` (circular), `lock` | `add(OHLC)`, `add(Ticker)` | strategies |
| Strategies (`trading/signalstrategy.cpp`, `user/strategies/*`) | `signal`, `stop`, `crossed_*` | `apply`, `process_stop` | called under the market data's lock, read by the position thread |
| Blending (`user/user.cpp`) | none | sum and clamp | position thread |
| Main thread (`main.cpp`, the destructors) | `done`, the members in the order of their destruction | read the console, join, destroy | all threads |
| Spot exchange, log, CSV, curl, configuration | | | see "Not modelled" |

What is hard in it:

* **Shared slots.**  There is one trade callback, one orderinfo callback and one stored
  deadline for each channel, whichever order they are for; two threads write them.
* **Frames that are gone.**  The callbacks capture locals of functions that have
  returned by the time a late answer runs them.
* **Deadlines against answers.**  `limit()` gives up at `cancel_time`, while the answer
  with the order's id, the polling loop, and the cancel are still under way.
* **Stale plans.**  A pass plans two orders from one snapshot of the position.
* **Order of arrival.**  Four pool threads handle bars, ticks and answers in any order,
  and a backfill adds bars between them.
* **Reconnection.**  Status, subscriptions, tick and depth belong to connections that
  are replaced while callbacks of the old one still run.
* **Sleeping threads.**  The pool's queue and its condition variable have different mutexes,
  and a callback may keep one of four threads for a minute.
* **The end.**  `~BitcoinTrader` joins two threads that may be anywhere; then members are
  destroyed that callbacks on the pool still use, the endpoint is joined, and the pool last.

What makes each part correct: an order never outlives its deadline unnoticed and is
never cancelled early, and polling ends early only for a reason that is about this order
(limit orders); the net position stays within the maximum, or exceeds it by a known
amount (positions); a deadline drops exactly the late answers (channels); bars have no
gaps, stops and positions go together, no cross is missed (market data); a lost
connection comes back, a healthy one is kept, and trading goes on only with what it
needs (connection); what is pushed runs, and no thread sleeps on it (pool); after "quit" the
program ends (shutdown); an answer about the account is used by one pass, its own or, after a
timeout, one that asked later (account).

## 2. The modules

```
PositionPlan <------- PositionPromise <- PositionPromiseProofs
     ^                       :                    :
LimitOrder <-------- ManagePositions              :
     ^                       ^                    :
LimitOrderProofs <-- ManagePositionsProofs ........
                             |
                             v
MarketDataProofs ---> SumTheorems
     |
     v
MarketData       UserInfo <- UserInfoProofs       Connection <- ConnectionProofs

                 ThreadPool <- Shutdown <- ShutdownProofs
```

An arrow leads from a module to the one it extends.  Dotted: `ManagePositions` instantiates
`PositionPromise`, and `ManagePositionsProofs` instantiates `PositionPromiseProofs` with the
same refinement mapping, to cite what is proved of the promise.  Each `MC*.cfg` names the values of the constants of one run.

**LimitOrder** is `limit()` with all it sets in motion.  A call of `limit()` is a number;
the number also names the order it sends, its stack frame, its closure and its deadline.
The clock (`expired`) is the number of deadlines that have passed, which is enough, since
one call starts only after the other has returned.  `Limit` and `LimitReturns` are the
position thread; `OnTradeAnswer`, `OnInfoAnswer` and `DropMessage` are `on_message()` on a
pool thread; `Poll`, `LeaveLoop` and `EraseTrade` are the rest of the trade callback on
the same thread; `Accept`, `Reject`, `AnswerInfo`, `Cancel` and `Fill` are the exchange.
Undefined behaviour is a choice: `SetDone` lets a write through a dead `trading_done`
vanish or hit the flag of the call now on that stack; `Closure` lets an activation that
runs in a freed closure read the captures of the closure allocated since.

**PositionPlan** is the arithmetic of `manage_positions()`; **ManagePositions** its loop
over `LimitOrder`: `FetchPosition`, `GiveUp`, `Trade`, `CloseReturned`, `OpenReturned`.
A pass starts from what `blend_signals()` makes of the strategies' signals (`Blended`), and
scales with it the option "contracts", or the exposure in dollars that the option "equity"
comes to (`Desired`; leverage, equity and price are one number, `Exposure`).
`slack` is a history variable: the most that was unsettled when a pass fetched the position.

**PositionPromise** is the abstract specification: one working order at a time, sized by
the position that is held; no threads, callbacks, messages or clocks.

**UserInfo** is `get_userinfo()` with its callback, its channel and the exchange.  As in
LimitOrder a call is a number that names its frame, its request and its deadline, and the
clock is the number of deadlines that have passed.  `Install`, `Ask` and `Return` are the
position thread, `Admit`, `Drop`, `Start`, `Write` and `Erase` one `on_message()`, at the
points where another thread can come in between: `Start` takes the callback that is installed
then, and `Write` writes through its reference, which is dead when the call has returned
meanwhile: the write is lost, or hits the local of the call that is on the stack then.
`older` (the answers that were still to come when a call began) and `wrote` (what became of
each write) are history variables.

**MarketData** is one `MktData` with a strategy on it, of either kind: the crossover of
two averages, or the Bollinger bands.  `MktData::lock` makes an
`add()` one step.  A stop is kept in hundredths of the price unit, because it is 1% off a
close; `Sum` truncates every close to a dollar as `MovingAverage::calculate` does by
accumulating into an `int`.  The bands are compared without a square root: `Outside` is
`close` beyond `mean +- sd * std`, squared and multiplied out.  `TickerOf` keeps the order in which `ticker_handler()` passes
the three prices.

**Connection** is the connection thread at the points where another thread can come in
between (`ClearTick`, `ClearDepth`, `LockAndReset` and `Reconnect` are one `reconnect_exchange()`), the
endpoint's thread (`OnOpen`, `OnFail`, `OnClose`), the open callbacks with their steps
(`tasks` counts how many are at which), the handlers of messages, and of the position
thread what it tests: its conditions for the first pass (`StartTrading`), `connected()`
before a pass (`BeginPass`), the age of the tick before it plans (`TestTick`), and that it then
calls `limit()` without another test (`CallLimit`).  A
subscription may be refused, which the code only logs (`Refusal`), and a message that an
earlier connection brought may be handled when there is another one (`LateMessage`).

**ThreadPool** is `ctpl::thread_pool` down to its mutex: `Push` is the part of `push()`
before the mutex, `Notify` the part under it; a thread is about to pop, runs, is about to
lock, has found the queue empty (and holds the mutex), sleeps, or has ended.
**Shutdown** puts the program around it, from `start()` to the return of `main()`: the main
thread with its console and the destructors in their order, the connection and the position
thread at the points where they look at `done`, the endpoint's thread with its handlers,
each of which ends with its `push()`, and what a callback does to the connection.  A
callback that runs on destroyed market data may subscribe or not.

Every definition that models code is listed with its lines in `PROJECT.json`.

Each module also has a few definitions that are marked `Mutant:`.  They are no part of
the specification: each is a variation of the definition that follows, as a bug would
make it, and replaces it to see that a property notices.

## 3. The environment, and what is assumed of it

`Pace` in LimitOrder says what is done before anybody's sleep ends:

* `"prompt"`: the program's own steps and the exchange's answers.  This is the exchange the
  code is written for; messages still interleave, orders still trade in parts or are rejected.
* `"swift"`: only the program's own steps; the network may be slow.
* `"any"`: nothing; every thread and message may be delayed beyond every deadline.

`Lossy` lets answers be lost.  The properties that need promptness are violated without it,
and the runs `stale_info` and `orphan` show how.

`Connection` lets the network, the exchange or a backfill fail `MaxFailures` times, at
any time, and then not again: only so can one ask what must come back.  `Slept` is the
meaning of a warm-up: it may be too short for the exchange as long as it has doubled less
than `Enough` times.  A quiet connection is one of the failures (`GoesMute`), and so is a subscription that
is refused: `Recovers` asks for the others, and `TradingStarts` excepts the connection.

**Fairness.**  Threads of the program are scheduled and its sleeps end, so the actions of
the position thread, the connection thread, the pool and the deadlines are weakly fair.
The exchange is not, except where the name says so (`PromptSpec` answers requests;
`Connection` opens what it neither fails nor drops, and sends what was subscribed to).
Fills, rejections and failures never get fairness.  In Shutdown the threads that need the
pool's mutex (`push()`, the pool's own, the destructor) are strongly fair: a mutex is free
again and again, and only wakeups of other threads without reason, without end, could keep
one from it.  Nobody need ever type "quit", and the exchange need not close a connection,
but an attempt to connect succeeds or fails, and a close that the program asked for is
confirmed or times out.

## 4. The runs

| Run | Question | Bounds | Answer |
|---|---|---|---|
| `prompt` | Do threads, callbacks and deadlines together keep the promise? | 3 calls, 2 pool threads, 2 polls, 2 contracts, two strategies with weights 1/2 and 1 | yes: `NetWithinMax`, `NoOrphanOrder`, `OwnAnswer`, `EarlyStopMeansFilled`, `CancelOnlyAfterDeadline`, the refinement `KeepsPromise`, `PoolThreadReleased` |
| `async` | What is left with delays, reordering and loss? | 2 calls, 2 threads, 1 poll, option "equity" for at most 1 contract | `OwnUntilTimeout`, `ExposureAccounted`, `TimelyTradeAnswerKept`, `PassEnds` |
| `market` | Do bars and strategy stay consistent? | either strategy, capacity 3, averages over 1 and 2, bands over 3, 3 prices, 4 periods, messages 2 periods late | `Contiguous`, `PositionHasStop`, `CrossNotMissed`, `BackfillRestores` |
| `connection` | Does it recover, start, and leave a healthy connection alone? | 2 threads, 2 open callbacks, 2 failures, 1 doubling | `Recovers`, `TradingStarts`, `HealthyKept` |
| `shutdown` | Does the program end, with everything served? | 2 threads, 3 functions, 1 reconnection | `WorkConserving`, `QueueServed`, `PushedRuns`, `QuitEnds` |
| `user_info` | Whose answer does a pass plan with? | 4 calls, 2 threads, any loss and order | `OwnInfo`, `FrameAlive`, `TimelyInfoKept` |
| `failed_close` | "if we've failed to close, discontinue" | 2 calls | **no** |
| `stale_info` | polling ends early only for this order's sake | 2 calls | **no** |
| `orphan` | "open a limit that closes after some time" | 1 call | **no** |
| `late_callback` | no callback after the time stored for the channel | 1 call | **no** |
| `stop_on_bid` | stops compare the bid of a long, the ask of a short | as `market` | **no** |
| `ready` | trading needs the depth | 1 failure | **no** |

Why the bounds are enough.  Three calls are a pass that closes and opens after a pass that
did something, so every slot is reused while its former user may still be active; two pool
threads are enough to run two callbacks at once and to have none left; two polls give an
answer to an earlier poll that arrives at a later one; two contracts with half signals
give partial fills, growing, shrinking and reversing.  Capacity 3 with 4 periods
overwrites bars, and is larger than the slow average; prices 2, 4 and 7 in half
dollars make truncation matter.  Two failures give one during the recovery from
another, and a backfill that fails on the second connection only.  Two threads and three
functions in `shutdown` have one thread asleep while the other runs, both busy with one
function waiting, and both asleep; one reconnection gives an open callback of a connection
that is gone.  Four calls in `user_info` let two answers be handled at once after a call
that ended in time and one that did not, and a call that holds the answer to an earlier one
be followed by one that must not hold it again.

The behaviours of `user_info` end when its calls are used up, so deadlock is not checked
there; everywhere else it is, which is how a program that hangs would be found, and only the
exited program of `shutdown` may stutter.  The promise that `prompt` refers to is not
model-checked on its own: it is proved for all constants (section 5).

Every invariant and every action property of the passing runs, and the refinement, is also a
theorem, those of `prompt` for a prompt exchange; what the runs add to the proofs is liveness, the counterexamples, and the mutants.

What the failing runs show, with the lines in `PROJECT.json` "findings":

1. `failed_close`: the trade callback sets `trading_done` for the id `"failed"` as well,
   `limit()` returns true, and the opening order follows a close that was refused.
2. `stale_info`: the orderinfo callback does not compare order ids; the late answer for
   an order that was filled ends the polling for its successor, which is left in the book.
3. `orphan`: if the answer with the order's id comes after the deadline it is dropped, and
   nothing ever cancels the order.
4. `late_callback`: an answer erases the stored deadline of its channel; the next one finds
   none, and runs its callback however late it is.
5. `stop_on_bid`: `Ticker(last, bid, ask)` is constructed where the parameters are bid, ask
   and last, so that stops are compared with the wrong prices.
6. `ready`: the conditions for trading are tested once.  `reconnect_exchange()` clears tick
   and depth, after which a fresh tick suffices for `limit()`; the depth may also go between
   the test of the tick and the call.  The tick itself does no harm: a pass has its own copy.

## 5. The proofs

All proofs are checked by TLAPS to the last leaf, for all values of the constants under the
named assumptions of the modules (positive sizes; `Pace`, `Lossy` in their ranges).

* **PositionPromiseProofs.**  `PlanReachesDesired`: for all integers, closing and opening
  lead from the current position to the desired one.
  `DesiredWithinMax`: rounding towards zero keeps a signal in [-1, 1] within the maximum, for
  either option.  The properties of the promise are only proved; no run repeats them.
  `PromiseNetWithinMax`: that the net position is within the maximum is not inductive.  The
  invariant `WithinMax` says it of four numbers: the net position now, with the working order
  traded, with the planned opening traded, and with both; wherever an order stops
  half way, or whatever is dropped, is between these.
* **LimitOrderProofs, ManagePositionsProofs: types and deadlines.**  `TypeCorrect`,
  `OwnAnswersUntilTimeout` and `TimelyTradeAnswers`, for every pace and loss.  Types are not inductive on their own:
  `AnswerInfo` may only copy the
  state of an order the exchange has accepted, which needs `OrdersKnown` (what the messages,
  requests and activations in flight can be about).  That the answer to an order is never
  dropped before its own deadline needs `LastDeadline`: the deadline stored for the trade
  channel is that of the last call, or none, although any answer may erase it; as
  deadlines pass in the order of the calls, a deadline that has passed implies the
  earlier ones.  `SurroundingsInvariant` carries it over the pool and the exchange,
  with one lemma per action, and `StepInvariant` over the position thread.
  Whose closure an answer runs in is decided by `AnswerInv`: an order is answered once
  (`AnsweredOnce`), the closure installed is that of the last call, so that answers run in
  their own call's or a later one (`ClosureForward`), and before the first deadline only the
  call that waits may lack its answer (`NoneLate`).
* **... a prompt exchange.**  The theorems under `PromptExchange`: `OwnAnswers`,
  `StopsWhenFilled`, `CancelsInTime`, `NoOrphans`, `NoLateCallbacks`, `PromiseKept` and
  `StaysWithinMax`.  `PromptExchange` is `Pace = "prompt"`, nothing lost, and not a pool of one
  thread: the only one would be held by the polling trade callback, which waits for an answer
  that this thread would have to handle, and `NoOrphanOrder` is then false.  The code has four.
  None of these properties is inductive.  The invariant `PromptInv` says that the last order
  is in one of seven phases (`Placing`, `Answered`, `Begun`, `Asked`, `Told`, `Waits`, `Over`),
  each of which fixes what is in flight, where the callback is, what `final_info` says and
  whether `limit()` still waits; and that all earlier orders are settled (`OneAtATime`).  One
  lemma per action says which phase it leads to.  `AtRest` is what follows when nobody is at
  work (`RestAfterPause`) or `limit()` returned true (`RestAfterSuccess`); no other calls are made, and from
  a pass's fetch to its first order nothing can trade, so that the plan is made from what
  is still held (`PassInTime`).
  `PromiseKept` is the refinement: each action maps to a step of `PositionPromise` or to
  a stutter; the frames, closures, deadlines and messages map to nothing at all.
  `StaysWithinMax` then follows from `PromiseNetWithinMax`, which is cited, not
  proved again.  `NoLateCallbacks` is the counterpart of the run `late_callback`: what that run
  refutes for a slow exchange holds with a prompt one.
* **... any exchange.**  `ExposureBounded`, for every pace and loss: the net position exceeds the
  maximum by at most `slack`.  The invariant looks at the two directions apart, because orders
  that are unsettled in opposite directions need not cancel out.  `DirectionsBounded`: the net position,
  with all that may still trade in one direction (`ToCome`) and what the pass will open
  in it (`Meant`), is within maximum and slack.  It is kept because a pass opens only in the
  direction it has closed in (`PlanGoesOneWay`), and because since its fetch the position has moved, and can move,
  by no more than what was unsettled then (`SnapshotBounds`).
* **SumTheorems.**  Facts about sums over finite sets, in the order that the fold of the
  community modules chooses: `SumTakesOut` (any term may be taken out first), types,
  bounds, and how a sum changes with one of its terms.  An induction theorem would need an
  operator as its parameter; instead each fact is proved of a smallest set that would refute
  it (`MinimalSubset`).
* **MarketDataProofs.**  `BarsContiguous` (with `Numbered`: bars counted from the first),
  `PositionAlwaysHasStop`, `MarketTypeCorrect`, and `BackfillAlwaysRestores`, whose
  invariant `FillCovers` says how far an uninterrupted backfill has come.
  `NoCrossMissed`: the last cross acted on is the one the bars held show.  It needs that
  the two crosses exclude each other (`AtMostOneCross`), which is where the averages and
  bands have to be integers, sums over as many bars as there are.
* **ConnectionProofs.**  `ConnectionTypeCorrect` (the open callbacks never take more threads
  than there are: they move and are not doubled, `MovesKeeps`) and `HealthyConnectionKept`, from
  `StatusKnown`: the status of an open connection is Open, except while `reconnect()` is
  about to stop it.
* **ShutdownProofs**, the pool in its first half.  `NoLostWakeup` is not inductive on its own: a thread
  that has found the queue empty may go to sleep on what was pushed since.  It holds the
  mutex, so that whoever pushed has not notified yet, which is `Tested`; `Goes` says once how
  a step of one thread changes the number of those that look and of those that run.
  `AllServed` needs that what was pushed is queued, running or done (`Conserved`), that a
  thread of the pool ends with an empty queue only (`EndedEmpty`), and that nothing is
  pushed after the endpoint was joined (`JoinedEndpoint`, `EndpointQuiet`, `DoneIsLate`):
  with a push still possible then, it would be false.  `ShutdownType` says
  that two endpoints never push at once.
* **UserInfoProofs.**  An answer is in one place only (`OnePlace`), what a call holds was written
  by a callback (`HeldWritten`), and no two calls return the same (`UsedOnce`); an answer that
  is still to come is that to the live call or one of the older ones (`OlderPending`).
  `AnswerUsedOnce` is `OwnInfo` for any number of timeouts; while there was none (`OwnSoFar`) it
  says that each call holds its own answer (`OwnInfoUntilTimeout`).  `LostWritesBounded`
  counts: an answer whose write was lost was returned by no call, every call that did return
  an answer returned another one, so that the calls without one are at least as many.
  `TimelyInfo` follows from `LastDeadline`.

Only model-checked: all liveness (`PassEnds`, `PoolThreadReleased`, `Recovers`,
`TradingStarts`, `PushedRuns`, `QuitEnds`), under fairness and thus beyond this prover.  Not proved
because they are false, as the violation runs show: `NoOrphanOrder`, `EarlyStopMeansFilled` and
`NoCallbackAfterTimeout` for an exchange that is not prompt, `DiscontinueAfterFailedClose`,
`StopsOnBidOrAsk`, `OpensOnlyWhenReady`.

## 6. What is abstracted or left out

* Prices of orders, leverage, the depth's contents, average prices, identifiers, signatures,
  JSON and logging.  A message has the fields the callbacks look at.
* `OrderStatus` has the four classes the callbacks tell apart.
* Messages wait in one queue and are taken by any free thread; network reordering is the
  exchange's freedom to serve requests in any order.
* Floating-point numbers: signals are multiples of 1/`SignalSteps`, exposures whole dollars.
* In LimitOrder the exchange knows every order it is asked about, so that the answer without
  orders, which `on_message()` only logs, does not occur; `OnInfoAnswer` is the orderinfo
  callback together with the erasure of its channel's deadline.  In the code a poll may come
  between the two; here it comes before or after both, which differs only in whether a later
  orderinfo answer is still judged by a deadline.
* In ManagePositions, `userinfo` only succeeds or fails; UserInfo is about how.
* In Connection: nobody looks at the age of a tick before the passes begin, so that it ages
  only then; of the calls of `limit()` in a pass the last is the one that is followed, the
  earlier ones changing nothing here but the time that passes; one period; a signal is set only by a backfill; a message waits only when
  every thread is busy, and else is taken at once.  Of `channels` only what the program
  asks of it is kept, and of the messages that wait in the pool's queue, one, which may wait
  for ever.  `connect()` with an invalid address and `close()` are left out.
* In ThreadPool: the four threads are there from the start; `resize()`, `pop()` and
  `stop(false)` are called by nobody.  In Shutdown: a function is an open callback or a
  message, of which the bars of the OHLC channel stand for all; websocketpp delivers no messages once it
  closes; a pass takes some time and ends; the console knows "quit" only.
* `websocket::close()` and `unsubscribe_to_channel()`: nobody calls them.
* Spot exchange and handler: nothing constructs them.  Log, CSV, curl, configuration: input
  and output.  The console's "status" and "csv" only read (`PROJECT.json` lists what may go
  wrong there).
* `libs/json` and `libs/websocketpp` are vendored, nine tenths of the lines in the
  repository; what the program relies on in them is in the environment of the modules.
  Of the program's own lines the models cover over a third; most of the others
  compose requests, parse answers, write logs, or belong to the spot exchange.

## 7. Plan

Done, in this order: LimitOrder, PositionPlan, ManagePositions with its promise, MarketData,
Connection, ThreadPool, Shutdown, UserInfo, and the theorems above.

To be modelled:

1. Composition of Connection and MarketData: signals that are replayed by the backfill
   while the position thread reads them; several periods and their open callback in turn.
2. LimitOrder and Shutdown in one model: the cancel that a program which quits still owes.

To be proved:

1. That recovery cannot be lost in Connection: the safety part of `Recovers`, which is that a
   connection that is not heard of always has the thread, the timer or the callback
   pending that will replace it.
2. Likewise for `PassEnds` and `QuitEnds`: in no reachable state does a thread wait for
   something that nothing left in the state can bring about.
