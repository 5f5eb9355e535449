# Verification of virs

TLA+ models, TLC runs and TLAPS proofs about virs, a Rust platform that lets an
LLM trade perpetual futures. The models are translated from the code; each
definition's lines are in `PROJECT.json` under `map`.

## The system

| component | state | operations | talks to |
|---|---|---|---|
| **Position engine** `virs-position` | concurrent maps `positions`, `position_ids`, `pending_orders`, `orders`, `order_position`; an event broadcast | open, close, place, cancel all, close all, price tick; order update; replay at start; stop | exchange (REST calls, update stream), database, event subscribers |
| **Simulated exchange** `virs-exchange` | orders by id, balances, positions, last price | place, price tick (fill), cancel all, restore | position engine |
| **Binance adapter** `virs-ccxt` | listen key, stream connections | signed REST calls, user data stream, kline and order book streams | position engine, market engine |
| **WebSocket manager** `virs-ws` | connection state, attempt counter, circuit breaker | connect, read, reconnect, stop | adapter |
| **Market engine** `virs-market` | subscriptions, candle and book cache, gap records | subscribe, candle, gap backfill, aggregate | adapter, chat bots, web sockets |
| **Chat bot worker** `virs-trading-bot/chat/worker` | per side: cached position and id, pending open and close, stop-loss, take-profit, log id, trade id; statistics, last close | price tick (timeouts, risk exits), LLM decision, order event, position event, strategy update | LLM, order executor, bot store |
| **Chat bot engine** `virs-trading-bot/chat/engine` | worker handles, symbols | start, stop, delete, restore, shut down | workers, order executor |
| **Order executor** `apps/server/adapters/order_executor` | a relay task | command in, event mapped and re-broadcast | position engine, workers |
| **Tactical bot** `virs-tactical-bot` | strategy population, evaluations, current prompts | evaluate, generate, select, publish | LLM, workers |
| **Engine manager** `apps/server/engine_manager` | once-set engine state, `started` flag | ensure started, restore, shut down | all of the above |
| **Repositories** `virs-database` | orders, bots, trades, logs | SQL | position engine, bots, API |
| **HTTP and web-socket API** `virs-api`, server start-up | session and subscription tables | handlers | engine manager, market engine |
| **Tasks** `virs-task` | stop token and join handle per task | spawn, cancel, join | everything that runs |
| indicators, prompts, LLM client, configuration, errors, utilities, web client | none that a trade depends on | pure functions, one request per call, user interface | |

How a trade flows: a worker asks the LLM on a price event, sends
`OpenPosition` to the position engine through the order executor and marks its
side pending. The engine inserts an `Opening` position without quantity (a
*ghost*), places the order, and joins the REST reply with the first order
update before it calls the order confirmed. Fills update the position; every
step is broadcast. The worker gets *position events* directly and *order
events* through the relay, so the two kinds overtake each other. A confirmed
fill sets stop-loss and take-profit and records a trade; a close, by decision or
by risk exit, goes the same way back.

What is hard here:

* the command task and the feed task of the position engine share lock-free maps
  and interleave at every await and between two map accesses;
* the exchange answers in any order: the update before the reply, a fill before
  the confirmation, a cancellation after a timeout;
* rollback is per *position* while failure is per *order*, and two orders can
  share a position;
* the worker's view is a cache fed by two streams, with timeouts that forget
  orders which are still alive, and with an LLM call of many seconds inside a handler;
* restarts replay database rows that may have been written late or not at all.

What makes each component correct:

* position engine: a position's quantity is what its orders executed; nothing is
  executed that no position shows; no position waits for an order nobody
  watches; every order command is answered; events tell what happened;
* simulated exchange: balance, margin and positions agree with the fills it sent;
* worker: an open position always has its stop-loss, take-profit and timeout
  armed; a side has one order pending; the cache converges to the engine; a close
  is counted once and closes the trade record of its own side;
* bot engine: at most one worker per bot, which its handle can stop; a confirmed
  deletion is final; the database says who runs;
* streams: no order update is missed without a sign; candles have no silent gap and
  end final; reconnection goes on until the circuit breaker;
* prompts: what is served is what a restart loads, whatever write failed;
* engine manager, tasks: one set of engines per process, restored after a restart;
  a command that waits for a task is answered.

## What is modelled

### PositionEngine

`PositionEngine.tla` models `crates/services/virs-position/src/engine.rs`: the
two tasks `command_loop` and `ws_feed_loop`, with the exchange as environment
(Binance or, with `Paper`, the simulated one). One exchange and one symbol, so a
position is named by its side, as its id is a hash of exchange, symbol and side.

| variable | code |
|---|---|
| `positions` | `EngineInner::positions` and `position_ids` |
| `info` | the parameters an order was created with |
| `pending` | `pending_orders`: `rest_result` and `ws_order` of a `PendingOrder` |
| `orders`, `orderPos` | `orders` (last stored update of a confirmed order) and `order_position` |
| `cmd`, `ws`, `fin` | where each task is between two awaits, with its locals; `fin` is `finalize_pending_order`, which either task runs |
| `log` | events emitted for an order |
| `rest`, `exch`, `feed` | the REST call, the order at the exchange, the update stream |
| `seen`, `forgotten` | history: orders of which an update was matched; pending orders dropped by cancel_all |

| action | code |
|---|---|
| `OpenExisting`, `OpenNoLeverage`, `OpenNew`, `LeverageFails`, `LeverageSet` | `handle_open_position`, cut at the await of `set_leverage` |
| `CloseRefused`, `ClosePosition` | `handle_close_position` |
| `PlaceWithoutId` | `handle_place_order` for a command without a position id |
| `PlaceOrder` (shared), `RestOk`, `ReadWsOrder`, `RestErr` | `handle_place_order`, cut at the await of the REST call and between storing `rest_result` and reading `ws_order` |
| `CancelAll`, `ExchCancelAll`, `CancelOne`, `CancelDone` | `handle_cancel_all_orders` and `handle_close_all_positions` |
| `TakePending`, `StorePending`, `FillPending` | `handle_ws_order_update` for a pending order, cut at the persist |
| `TakeConfirmed`, `ApplyConfirmed`, `IgnoreUpdate` | the same for a confirmed order, and for one that is neither |
| `FinalizeRemove`, `FinalizeInsert`, `FinalizeEnd` | `finalize_pending_order`, cut between the two maps and at the persist |
| `ExchAccept` ... `FeedLoss` | the exchange: acceptance, reply, refusal, timeout, trade (`ExchTrade` on Binance, `ExchTrigger` for the price tick of the simulated exchange), expiry, cancellation, lost or unparsable update |

Granularity. A handler is one action between two awaits, except where two
accesses to the entries *of one order* leave a gap that the other task can enter;
there it is two. Two accesses to a position and its index without an await
between them are one. `ws_feed_loop` holds the map entry of a pending order
locked while it persists the update: `Guarded(c)` disables the command task's
accesses to that entry (as in the code, where it blocks).

Abstracted: prices, fees and PnL (quantities are integers); `CANCELED`,
`EXPIRED` and `EXPIRED_IN_MATCH` are one status, as the code treats them alike;
persisting is a delay. A command that is refused before it has any effect and
a price tick for an exchange that is not the simulated one change nothing and
have no action. The simulated exchange takes what `paper.rs` takes: it looks at no amount,
wants a position side of a market order and of no limit order, and a limit order
without side, or without a leverage of its symbol, vanishes when a tick triggers it.
The leverage itself is not modelled: any order may be refused, and any
triggered limit order may vanish.

### Runs of PositionEngine

| run | instance | question |
|---|---|---|
| `adverse` | Binance, one side, two orders of up to 2 (so partial fills), limit orders, REST timeouts of accepted orders, lost and garbled updates | do the join of reply and feed, the life cycle, the ownership of waiting positions, the quantities and the events survive every interleaving, without a reliable network? |
| `paper` | simulated exchange, one side, four orders, market and limit | are waiting positions owned where market orders fill before the reply, cancels send no update, limit orders may vanish and repeated closes make a quantity negative? |
| `answers` | Binance, two sides, two orders, fair | does every order command get an event? |

All hold.

The bounds. An order id is used once, so the number of orders bounds the run;
no state constraint is used. Two orders on one side are what the handlers' interactions
need: a rollback concerns two orders of one position, and the two tasks hold one
order each. An amount of 2 gives one partial fill before the last, and the second trade
distinguishes `last_fill_qty` from the cumulative difference. Three orders with these
faults exceed what TLC does in minutes; the properties that a third order could
concern are proved for any number of orders and sides, and `paper` has four: a position becomes negative by an
opening order, two closes of it and a new opening order (`PE_owned` has a fifth, which closes the negative one). Order ids are symmetric; sides
are not, since nothing relates them. The command channel is not modelled: a command is taken when it is sent, which
only removes a delay. Deadlock is checked in every run: an idle engine can still
cancel.

Fairness (`FairSpec`): each task runs to the end of its handler, since nothing in
one waits for ever but the persist, which gives up after its retries; the exchange takes
or refuses every REST call and answers it, since the HTTP client has a timeout.
No fairness is assumed of trades, expiry or new commands.

### BotWorker

`BotWorker.tla` models one worker of a chat bot
(`crates/services/virs-trading-bot/src/chat/worker/`) with the position engine as an
environment: what `PositionEngine` shows in detail (the join of reply and feed) is
here one step from command to live or failed order, and one from trade to position.

| variable | code |
|---|---|
| `pc` | where `run` is: waiting for the first price, for a position event, in recovery (`begin`, `ask`), in the LLM call, in the main `select!`, stopped |
| `side` | `SideState` of each side: cached position, pending open and close, stop-loss and take-profit (`armed`), `position_opened_at`, fee, opening order, last close |
| `known` | `position_id_long` and `_short`, which are persisted |
| `trades`, `record`, `closes` | `total_trades`, the opening trade records by opening order, the closing rows |
| `sent`, `order`, `cmds` | order ids given out, what became of each order, commands in the executor's channel |
| `pe`, `applying` | the engine's positions, and a trade it has announced (`OrderFilled`) and not applied yet |
| `posq`, `ordq` | position events from the engine; order events through the relay task of the executor |

| action | code |
|---|---|
| `Boot`, `WaitOver`, `Begin` | `run` up to the main loop: last close, refresh, orphaning or restoring the newest record, waiting for a position, exits that are due |
| `StopWorker`, `StartWorker` | the cancellation branch of the selects, or the abort of a worker that has not come to it in 5 s (it waits for the LLM); `start_bot` with new subscriptions. The `CancelAll` that `stop_bot` sends before is an end of an order, `PeEnd` |
| `OnPositionUpdated`, `OnPositionOpened`, `OnPositionClosed` | `on_pe_event` |
| `OnOpenFilled`, `OnCloseFilled`, `OnOrderEnded`, `OnOrderUnmatched` | `on_order_event`, `apply_pending_open`, `apply_pending_close` |
| `PriceTick` | `check_pending_timeout`, `check_position_timeout` and the stop-loss and take-profit checks of `on_price_tick` |
| `LlmAsk`, `DecideHold`, `DecideOpen`, `DecideClose` | `on_llm_decision`, cut at the await of the LLM |
| `CooldownOver` | the end of `cooldown_remaining_secs` |
| `PeOpen` ... `PeEnd`, `Tell` | the engine's commands, trades (announced, then applied), ends of orders, and its events |
| `Lag` | a receiver that falls behind a broadcast channel and misses its oldest event |

A handler runs to its end before the next, as the worker is one task; it is cut
only at the LLM call, the one await during which the engine changes state that the
handler reads. `order[c].alone` is history: whether the engine held no position of
the order's side and had nothing of it under way when the order was sent.

Prices are abstracted, so any tick may hit a stop or a deadline. Not modelled:
decision log ids, consecutive losses and PnL, failing database writes and engine queries.

### Runs of BotWorker

| run | instance | question |
|---|---|---|
| `bot_live` | two sides, three orders of two units that fill in one or two parts, no restart | no second opening order? no two closes of a side on one trade record? |
| `bot_restart` | two sides, three orders, each filled in one go; one stop and start at any point (what is told in between is not heard; no event is lost otherwise) | one order in flight? does the cache converge? and while the bot was not stopped: held positions protected and reached by the exits, every fill in the books? |
| `bot_adverse` | one side, three orders, lost events, orders that outlive their timeout, fair | does a pending order always resolve? |

All hold.

The bounds. `MaxOrders` ends a run: three orders are an opening of each side and a
close, or an opening, its close and a third order that meets the events of both, which
is as many as two sides and one pending slot each relate. `Amount` is 2 in `bot_live`: a close that is sized between
the parts of a fill leaves a rest, whose close must not find the record of the first. In `bot_restart` it is 1: what
partial fills do to the cache does not hold (below).
That is also why the proofs about the cache suppose it: with `Amount = 2` TLC finds
`CacheConverges` violated on one side with three orders. A close that is sized when the last
fill of its opening is told, and not yet applied, leaves a rest, and its own fill clears the cache.
Deadlock is checked in every run: a worker can always ask the LLM again or time out.

Fairness (`FairSpec`, used by `bot_adverse`): the worker's loop goes on (recovery,
events, and the LLM call, which has a timeout), and price ticks keep coming, at one of
which an order that stays pending is older than `pending_order_timeout_secs`. None is
assumed of the engine and the exchange: the timeout is what the property is about.

Two conditions in the properties are limits of what the code ensures, and are named:

* `AtRest`: nothing is under way. In between, the cache is behind by design.
* `OnePerPosition`: no opening order was sent while the engine still had business
  on that side. The code does not ensure it: `refresh_position_from_pe`
  takes a position that is `Opening`, `Closing`, or whose fill is announced but not
  applied (engine.rs:818 and 833) for none, so a decision in that window opens again.

### PaperExchange, PaperTrading, DurablePosition

`PaperExchange.tla` models `crates/core/virs-exchange/src/paper.rs`: positions, balance,
configured leverage, last price, resting limit orders and the bounded channel of
updates. A call that fills orders stops at the channel when it is full (`todo`,
`outbox`), and its caller, the command loop, with it. `PaperTrading.tla` puts the
position engine around it as far as fills go: an update of a known order is stored
in `pe_trades` (`Persist`) and applied then (`Apply`); `Restart` may come anywhere and
runs `recover_state`: the rows after the last time nothing was held are replayed
(`Running`, `LastZero`, `Replayed`: `order_repo.rs`, `get_positions_from_orders`, as recursive
functions of the rows), and the exchange gets what they say (`Restore`).

`DurablePosition.tla` is what the engine promises: a position is its trades, a closing trade
takes away no more than is held and leaves the entry price, and a restart is not visible.
`PaperTrading` implements it: `PositionsDurable` is `DurablePosition`'s `Spec` with `held` replaced by
the engine's positions, together with the trade that is stored and not yet applied (`Recorded`), and its prices
by all up to the highest, since an entry price lies between those of its trades.

| variable | code |
|---|---|
| `xpos`, `cash`, `lev`, `price` | `positions`, `balances`, `configured_leverage`, `last_prices` of `PaperExchange` |
| `resting`, `todo`, `outbox`, `chan` | active limit orders, those the tick has triggered, the update being sent, the channel |
| `pos`, `known`, `cmd`, `feed` | the engine's positions, the orders it waits for, the command loop and the feed loop between two awaits |
| `rows` | `pe_trades` |
| `realized`, `flow` | history: what updates have reported, what trades have paid and received |

A position keeps its cost in place of its entry price, so that integers serve and a
share is rounded once. Rows are in the order of their fills (two trades of one position in
one millisecond are told apart by their ids in the model; the code may confuse them, see below).

**Run `paper_trading`**: four orders of one unit on both sides, prices 2 and 4, leverage 2,
limit and market orders, a channel of one place, one restart. `Balanced`: margin and
free balance agree with the reported PnL; `Equity`: no fill or restart makes money;
`Agreement`: engine and exchange hold the same whenever nothing is under way;
`PositionsDurable`; `MarketOrdersEnd`: a full channel never stops the two loops for good. The channel
of one is the worst case of one of 256; four orders are two openings (averaging), a close and
a reopening, around a restart. `OneInFlight` restricts the commands to those of a
worker that sends no order while the engine still knows one of its side. It is stronger than `OneInFlight` of `BotWorker`,
which is about the orders the worker itself is waiting for: an order the worker has forgotten (a timeout, a
restart of the worker) may still be at the engine when it sends the next, and what happens then is not covered here.
Fairness: each loop goes on when it
can, and the database answers. `CHECK_DEADLOCK FALSE`: the orders run out.

### Lifecycle

`Lifecycle.tla` composes the engine manager (`apps/server/src/engine_manager.rs`), the bot
engine (`chat/engine.rs`), the requests of `bot_trade.rs`, the rows of `bot_repo.rs` and
the supervision of tasks (`virs-task`): what starts, stops and survives.

| variable | code |
|---|---|
| `row`, `mode`, `creds` | `qd_bots`, the stored credentials |
| `phase`, `registered` | `main`; the exchange registry |
| `create`, `delete` | where the requests are; a deletion waits for its answer |
| `lock`, `engine`, `pes`, `leaked`, `fed` | `init_lock`, the manager's state, position engines that run, those nobody can stop, subscribed markets |
| `loop`, `restore`, `op`, `queue` | `BotEngine::run`, the bots to restore, the command in hand, the channel |
| `handles`, `alive` | the map of workers; the workers that run |

| action | code |
|---|---|
| `Restored`, `RestoreFails` | `restore_if_needed`; the failing one may leave a position engine running that nobody can stop |
| `SaveCredential`, `DeleteCredential` | the handlers, and the registry with them |
| `CreateCounts` ... `InsertFails` | `create_bot`: count, `ensure_started` (fast path, lock, second look, start, failing start), insert and start command |
| `Request` | start, stop and delete requests |
| `LoadRunning`, `RestoreNext`, `TakeCommand`, `Unmark`, `Spawn`, `Mark`, `Cancel`, `Join`, `Unrun`, `RemoveRow` | the bot engine's loop, cut at every database call and at the join of a worker |
| `WorkerStops`, `WorkerPanics`, `PositionEngineFails` | ends of tasks |
| `Signal`, `ShutDown`, `Exit`, `Kill`, `Restart` | `graceful_shutdown`, a kill at any point, the next process |

**Run `bots`**: two bots, both modes, two commands, a channel of two, one failing call
or panic anywhere, one restart. `TypeOK` (no bot has two workers), `WorkersOwned`,
`StatusTruthful`, `DeletedStays`, `SingleEngine`, `DeleteAnswered`, `RestoredAgain`. Two bots give every
race of two creations and of one bot's command with the other's; two commands are a
command and one queued behind it; a second restart meets only states that the first has met.
Fairness: start-up, the bot engine's loop and the end of `main` go on, since a join has a
timeout and a database call ends; none of users, workers or failures.

**Run `paper_mode`** (a disagreement): `ensure_started` answers `Ok` as soon as engines exist, in
whatever mode, so a bot of paper mode may get a worker on live engines, although
engine_manager.rs:240 says that simulated fills touch no real funds.

### WsConnection, MarketStream, KlineEngine

`WsConnection.tla` is `ws_main` of `virs-ws`: connect, read, back off, connect again, the
circuit breaker. `MarketStream.tla` adds the kline handler of the Binance adapter: what is
subscribed (`wanted`), commands (`asked`), what the exchange streams (`streaming`).
`KlineEngine.tla` adds the candle cache: `subscribe_market`, the loop that takes candles and
reconnects off the stream, and `kline_gap_detection`. Each may run `detect_and_backfill`, which is
cut where it gives up the cache's lock: `Detect`, `Fetch` or `Load`, `Insert`, `Replace` or `Loaded`.
`RequestFails` ends one, with an error or, where the exchange answers a gap with nothing, without. `Lag` is the
lagging receiver of the broadcast channel, which loses any number of the oldest updates at once. A rejected
`SUBSCRIBE`, which the handler only logs, is taken not to happen.

| variable | code |
|---|---|
| `ws`, `retries`, `reconnect` | `ws_main`, `retry_count`, `is_first_connect` |
| `wanted`, `asked`, `streaming` | `subscriptions`, the command channel, the subscription at the exchange |
| `m1`, `high` | the cache's buffers of one-minute candles and of one higher timeframe |
| `wire` | the broadcast channel to `kline_ws_loop` |
| `call`, `job`, `check` | the caller, each task's backfill, the timer |
| `half` | history: minutes a first load took before they were over |
| `seen` | history: minutes up to the first candle or the end of a first load, minutes an update was taken of, minutes of a gap that was backfilled |

Time. Minutes count time and `Prompt` is the timing assumption: what a task has begun
is over before the minute is (requests have timeouts of seconds), except for an
outage, which may last. Within a minute everything interleaves.

**Run `klines`**: from the first call in minute 4 to minute 7, a buffer of seven candles (so that it holds the
first load and evicts at the end, and the hypothesis of the theorems is met), a higher candle of two minutes, one lost connection, and one failed attempt, failed or empty request, or lag of the receiver. `TypeOK` (the limit of the buffer), `Continuous`: the check looks at the last closed
candle alone, and yet no minute is missing when it reports no gap (after a failure a full buffer may be
out of order, and evicts by place, see `OldestEvicted` below: what is missing then has been `seen` to before); `FinalCandles`, `OrderedWhenWell`: no
backfill leaves a half candle in a closed minute or disorder, as long as nothing fails (with one
failure they do not hold, see below); `CatchesUp`, `Streams`. One fault at each point is the bound for which
`Continuous` holds: with two (a lost update and, before it is noticed, a failed
request of the gap detection) a hole may stay behind the last closed candle, of a minute nothing has seen to. Fairness: time passes, `ws_main` and a call that has
begun go on.

### UserDataStream

`UserDataStream.tla` is the way of an order update to the position engine: the exchange, the
listen key and its expiry, `ws_main` with `UserDataWsHandler`, the forwarding task, the
keepalive of `start_listenkey_order_ws`, and `ws_feed_loop` at the end.

| variable | code |
|---|---|
| `key`, `age`, `keys` | the key at the exchange, ticks since it was renewed, keys made |
| `current`, `used` | `current_key`; the key in the URL of the present connection |
| `wire`, `chan` | messages on the connection; the channel of `WsFeedEvent`s |
| `due`, `put` | the keepalive: its interval, the key it is renewing |
| `feed`, `heard`, `told` | `ws_feed_loop`; history: the last update read, a change of the connection read since |

**Run `user_data`**: three updates, six ticks of 30 minutes, one lost connection, two failed attempts, two failing
key calls (taken by the exchange or not), a channel of three. `NoSilentGap`: updates are read in order, and
a missing one is preceded by a `ConnectionChanged`; `LapseNeedsFault`: a key lapses only after a call for it has
failed; `HearsAgain`: no dead connection is listened to for ever. Two failed attempts trip the breaker of
two (`WS_MAX_RETRIES` is larger; more only adds rounds); six ticks are three lives of a key. The keepalive is
punctual (`Tick` waits for it), which its interval and a call of seconds justify. Fairness: `ws_main` and
`ws_feed_loop` go on; a connection may stay up for ever.

### StrategyStore

`StrategyStore.tla` models the prompt folders (`virs-prompt`: writer, loader, validator), the handlers that save and
delete strategies, and the optimization cycle of the tactical bot's `StrategyEngine`: `StartCycle`,
`Evaluate`, `LlmAnswers`, then the writes. Every file operation is an action and may fail; `Crash` may come
between any two, after which `from_dir` loads what can be loaded.

| variable | code |
|---|---|
| `folder` | a strategy's folder: files of each version, `meta.json` (absent, truncated, a version) |
| `loader` | `PromptLoader`'s map |
| `job`, `todo` | the call of each client and of the optimizer, the strategies left in its cycle |

**Run `prompts`**: one strategy, one client, two texts, three versions, three requests, one failing file operation
and one kill. `MetaIsLast`: a `meta.json` that can be read names a complete version; `ServedIsStored`:
between calls the prompt served is the one a restart would load. With `Overlap = FALSE` calls do not write at the
same moment; the code does not serialize them, and with `Overlap = TRUE` TLC breaks both.
`CHECK_DEADLOCK FALSE`: requests and versions run out.

## Where code and claims disagree

`paper_mode` is a run. The others are stated beside the models and TLC violates each under the
named configuration (`tlc -config PE_quantity.cfg MCPositionEngine.tla`, and so on).

| claim | configuration | what the code does |
|---|---|---|
| `QuantityConsistent` (`.skills/架构约束.md:385`) | `PE_quantity` | `finalize_pending_order` (engine.rs:692) removes the order from one map before it is in the other; a fill handled in between is dropped as unknown, and the position stays a ghost |
| `NoRepeatedClose` (engine.rs:1041) | `PE_repeated_close` | the mark `Closing` is set and never read: a second close sends the whole quantity again |
| `OwnedWhateverQuantity` (engine.rs:1041) | `PE_owned` | after repeated closes a position may be negative; in paper mode its close order is filled with a negative amount (paper.rs:429 checks none), `trade_fill > 0.0` (engine.rs:598) skips it, the order is dropped and the position stays `Closing`. `TransientOwned` is about positions with a quantity to close |
| `CloseAllCloses` (`bot_trade.rs:432`) | `PE_close_all` | `CloseAllPositions` closes without a client order id, which `handle_place_order` refuses; the deletion of a bot relies on it |
| `RecordOfSide` (events.rs:578) | `BW_record` | when `PositionClosed` is read before `OrderFilled`, the close takes the newest open record, that of the other side (bot_repo.rs:225) |
| `HeldIsTimed` (risk.rs:112) | `BW_held` | an opening order that fills in part and is canceled is rolled back as if nothing were executed (events.rs:717): the position has no stop and no timer |
| `ClosedOnce` (bot_repo.rs:200) | `BW_closed` | two sides are open, the first close takes the other side's record (as in `RecordOfSide`), and that side's own close takes it again: the record has two closing rows, and that of the first side stays open. What does hold, for both sides, is `ClosedOncePerSide` |
| `NextVersion` (writer.rs:71) | `SS_version` | the version is that of the prompt read before the LLM was asked, plus one, and not that of the stored one |
| `RestoredCloses` (`recover_state`) | `PT_restored` | restored positions carry no leverage, which is set for new positions only: a close after the restart is refused |
| `OldestEvicted` (cache.rs:37) | `KL_oldest` | a backfill that comes late leaves the buffer out of order, as an older candle is appended (cache.rs:38); once the buffer is full it evicts its first candle, and a newer one than one that stays may go: a hole no check reports |
| `HigherAgree` (gap.rs:69) | `KL_higher` | higher candles are computed under one lock and put in place under another (gap.rs:108): what the stream wrote in between is lost |
| `NotStuck` (`restore_inner`) | `LC_stuck` | after a restart without a running bot no engines start; a bot that exists forbids a new one, and start, stop and delete answer that there are none |

Seen while modelling, without a property:

* position engine: `handle_cancel_all_orders` (engine.rs:1243) forgets a pending order without rolling back or
  emitting anything; every resting limit order of the simulated exchange is in that state, so its ghost stays
  (chat bots place market orders only). A `CANCELED` update that carries a fill (engine.rs:642) and `persist!`
  giving up in the middle of a handler (engine.rs:36) are not modelled. `ConnectionChanged` is ignored
  (engine.rs:511): what was missed is not asked for.
* worker: its own close is read as an external one when `PositionClosed` comes first, and the opening fee is lost for
  the PnL (events.rs:104, 596); a position that is `Closing` while the worker restarts twice has its record
  orphaned (mod.rs:411, 515); a restored timer of a side without position blocks the other side's exits, as the
  tick ends with the timeout (mod.rs:467, risk.rs:25); only one side's cooldown survives a restart (mod.rs:378);
  the failure of one side's order takes the log ids of both (events.rs:311).
* recovery: trades of one position in one millisecond are ordered by a random id (order_repo.rs:72); the query
  does not tell paper from live rows (order_repo.rs:45); a triggered limit order without leverage is removed
  without an update (paper.rs:130).
* life cycle: `CancelAll` of the symbol comes before the worker is stopped, which may send one more order (chat/engine.rs:209);
  stop is answered when it is queued (bot_trade.rs:408); `shutdown` gives the bot engine as long as that gives its workers
  (engine_manager.rs:520), and the order "position engine first" of engine_manager.rs:494 does not close positions; the one-bot
  limit is counted long before the insert (bot_trade.rs:162); `update_bot` looks at `is_running` and writes
  afterwards (bot_trade.rs:306).
* market: after one lost update or failed request the cache may be out of order and hold a minute twice, since a candle
  that is older than the newest is pushed to the end (cache.rs:37); a first load's current minute stays half if
  the stream breaks in it (source.rs:77); a closing candle that comes before the first load makes the load be
  skipped; a failed `subscribe_market` answers `Ok` when called again, without data (engine.rs:384).
* streams: the circuit breaker ends both loops of the position engine (manager.rs:473) while the bots go on.

## What is proved

`PositionEngineProofs.tla`, for any sides, order ids, amounts and any exchange
behaviour the model has, with no assumption beyond those named in
`PositionEngine` (the sentinel order id is not an order id, the largest amount
is a positive natural number, the switches are Boolean):

* `TypeCorrect`: `Spec => []TypeOK`. `TypeInv` adds what the locals of the two
  tasks hold in each of their phases, without which the handlers'
  accesses are not well typed.
* `LifeCycleKept`, `NoQuantityDropped`: every step of the system moves each position
  in one of six ways (stays, becomes a ghost, becomes `Closing`, is rolled back, is
  filled, is placed upon: `PositionMoves`), and each way respects the life cycle of
  `PositionStatus` and drops a quantity only by a closing fill whose traded quantity, the
  last fill of an update or the difference of the cumulative ones, is that of the position
  (`MoveSound`). The inductive invariant `StatusInv` supplies that a ghost has no quantity and no
  absent position has one, and that an open command waiting for `set_leverage`
  still finds its side without a position.
* `DoubleConfirmationKept`: `JoinInv` says which task holds an order between
  the maps and that each such order has its REST reply and a matched
  update; it is inductive together with `TypeInv` and `StatusInv`.
* `EventsAreTruthful` (`EventsTruthful`): `GenuineInv` says that every update in the feed and in
  the engine is one the exchange has sent for that order and that its last fill is sent once; `EventInv`
  adds that an order that was refused has no call under way, so that it stays refused.
* `WaitingIsOwned` (`TransientOwned`): the property names an order that is watched, and is not
  inductive, as an order whose last fill is applied is still watched for a while and owns nothing.
  `OwnerInv` names for each ghost and each position `Closing` with a quantity an order of a positive
  amount of which something is still to come (`Awaited`), or which cancel_all forgot; an order of
  no positive amount (`Barren`) may be filled in paper mode without the engine applying it; `Handover` says which task may hold what
  of an order while the other is inside a handler, and `FillsTold` that a `Filled` update the engine
  holds was told when it was taken, so that dropping its order loses nothing.

`BotWorkerProofs.tla`, for one or two sides, any number of orders and restarts, any
amount and any behaviour of the engine and the queues:

* `TypeCorrect`: `Spec => []TypeOK`. `TypeInv` adds that a trade under way belongs to
  an order; that the newest open record exists when there is an open one is a fact
  about finite sets of natural numbers (`LatestOpenTyped`).
* `OneOrderInFlight`: `Spec => []OneInFlight`. The property is not inductive:
  recovery and the handler that follows the LLM call send orders without
  looking at what is pending. `Quiet` says that nothing is pending whenever the worker is
  there, and `FlightInv` with it is inductive.
* `NoSecondOpen`: `Spec => []NoDuplicateOpen` for a worker that is not restarted
  and whose orders do not exceed the timeout (both are hypotheses; with either
  the worker forgets an order that may still fill). `Bookkeeping` says that ids
  are used once, that each queued command is of a queued order and that an order whose
  end is told has ended; `OpenKnown` that each opening order that may still fill is pending
  at the worker. `DuplicateInv` combines them with `FlightInv`. Events may be lost:
  nothing in the argument needs an event to arrive.

`BotRestProofs.tla` goes on with what holds when everything has been read, for any
number of orders of which no event is lost (`~Lossy`) and which fill in one trade (`Amount = 1`):

* `CacheAgrees` (`CacheConverges`), whatever times out and restarts. Convergence at rest follows from
  what holds in between: the last event of a side in the queue says what the engine will be (`QueueInv`), and the cache
  of a side of which nothing is left in the queue is the engine's, but for a close that has filled and is not
  applied (`Heard`). `EngineInv` is what the engine keeps: no opening order is under way
  beside a position (`OpensAlone`), and the trade it applies opens a position or closes all of it (`TradeFits`).
* `HeldIsProtected` (`Protected`), `ExitsAreReached` (`ExitsReached`), when no order exceeds the timeout and the worker
  is not restarted: `Pendings` says that the end of each pending order is on its way in the order
  queue, `Watched` what each side has armed and timed depending on which queue has been read how far.
* `BooksAreBalanced` (`BooksBalance`), under the same hypotheses: `OpensBooked` and `ClosesBooked` say what is recorded
  or about to be, and `RecordsOwed` that there is an open record for every side that will still close one, which
  is what makes the choice by recency find one, if not always its own.
* `RecordsClosedOnce` (`ClosedOncePerSide`), for one side or two and without any hypothesis: any amounts, lost
  events, timeouts and restarts. `close_trade` adds its row to whatever record it is given (bot_repo.rs:200), so what counts is
  that no side gives it a record twice. `EndsOnce` and `RecordsHeard`: the engine tells the end of an order once, and a record is
  opened when its fill has been read, so that no record is opened again after it was closed. `OwnRecord`: the record a
  side remembers has no closing row of that side; the other side may have closed it, which is how a record gets
  two rows after all (`ClosedOnce`). `RowsClosed`: what has a closing row is closed, also after a restart, so
  that the lookup by recency, which finds open records only, finds one without a row.

`LifecycleProofs.tla`, for any bots, modes, queue, and any number of commands, faults and restarts:
`TypeCorrect` (no bot has two workers), `WorkersAlwaysOwned`, `DeletionFinal`, `OneEngineSet`. They are one
induction: a worker is started when the map has none, so that none runs only because every worker is
owned; a bot's row is removed with its worker gone only because that command has waited for the
worker it took out of the map; and both need the bot engine to be one loop, spawned once per process under the
manager's lock. `LoopShape`, `Outside`, `Starting` and `RowShape` say so. `StatusIsTruthful`
(`StatusTruthful`) adds `StatusInv`: the row of a bot nobody works on says what the map says, that of the
bot in hand as much as its command has done, and one that waits for its restoring has neither worker nor command.

`StrategyStoreProofs.tla`, for any names, clients, texts and versions and any number of failures and kills: `TypeCorrect`, and,
as long as calls do not write at the same moment (`Overlap = FALSE`, which the code does not ensure), `MetaWrittenLast`
(`MetaIsLast`) and `ServedFromDisk` (`ServedIsStored`). `WritesInOrder` says what the call in hand has written
so far; with it, only from its files on is a strategy on disk ahead of the one in memory.

`UserDataStreamProofs.tla`, for any length of streams, queues and key lives of two ticks or more:
`KeysKept` (`LapseNeedsFault`): `Owed` says which failing call each aged or unknown key is the consequence
of, so that a lapse uses one up. `NoUpdateMissedInSilence` (`NoSilentGap`): the events in the channel and on the
connection are looked at as one queue (`Pipe`), in which each update follows the one before it or a
change; every step appends to it, cuts it off and tells so, or reads its head.

`PaperTradingProofs.tla`, for any orders, prices, leverages, quantities, channel and restarts:

* `BalanceAddsUp` (`Balanced`), whatever is ordered when: each fill moves `free`, `used` and `realized` by amounts that
  cancel. `Typed` supplies that a position recovered from the rows is one.
* `TypeCorrect` (`TypeOK`), `EngineAgrees` (`Agreement`), `EquityHolds` (`Equity`) under `OneInFlight`, which is what
  a worker does that has not forgotten an order (`OneOrderInFlight`, above, is the worker's view only). With more than one order in flight a close may be for
  more or less than is held when it fills: TLC finds `Agreement` violated with two orders and `Equity` with three.
  `Known` says that at most one order of a side is known and a closing one is for all that is held; `Flights` that each fill
  under way is that of a known order, one per side, and that the exchange holds what the engine will
  when it has applied it; `Stored` that replaying the rows gives the positions on record; `Money` that balance and flow agree.
* `PositionsSurvive` (`PositionsDurable`), the refinement of `DurablePosition`, under `OneInFlight` and when there is
  a highest price: `Persist` is `Add` or `Reduce`, and every other step, `Restart` among them, is a stutter.
  `Bounded` says that no entry price exceeds the prices of its trades.

What `get_positions_from_orders` computes is recursive over the rows. The library's induction theorems take an operator,
which no prover here can instantiate; the first section of the module derives induction for sets of numbers
from the well-foundedness of finite sets (`LeastNat`, `SetInduction`) and from that the
equations of a recursive function (`Recursion`, `SameRecursion`). The last zero and the replay of the rows with
one more row follow (`LastZeroAppended`, `ReplayedAppended`): `Sensible`, what the rows make of a position, is kept by
every row that can be stored, and with it the recovery is a step of the induction like any other.

`KlineEngineProofs.tla`, for any minutes, group of minutes, number of lost connections and faults:

* `TypeCorrect` (`TypeOK`), without further hypotheses: the cache keeps its limit in every state, also out of order.
* `CacheInOrder` (`OrderedWhenWell`), `CandlesAreFinal` (`FinalCandles`) and `CacheIsContinuous` (`Well => Continuous`), for a
  limit of seven candles or more (`MaxRows >= 7`; the code has 1000). They follow from one invariant (`CacheIsWhole`):
  without failures the cache is a line of minutes (`Lined`). Three facts keep it one. `Heads`: the next update on the wire is of a minute
  the cache holds or of the next, or the loop is about to fill what is missing, and it does not read on before it has. `Holes`:
  an open candle behind a closed one is about to be closed by an update on the wire, or was followed by a first load that took the next
  minute early (`half`). `Late`: the last closed candle is at most five minutes behind, as the gap detection looks every minute; so a gap
  fits in one request, and nothing is evicted that is being filled or still to come, for which it takes the seven candles. The last
  closed candle may go back when an open one replaces it; `Halved` and `Holes` say by how much.
* That push_or_update, in a line, replaces or appends (`PushLine`), and that a backfill does row by row (`FilledLine`), is proved
  with the induction of `PaperTradingProofs` for functions defined by recursion, of which the module has its own copy.
* `NoHoleStays` (`Continuous`), with one failure at most (an empty answer counts as one), of any kind and at any point, and a limit of seven candles or more; and
  `TimerFindsHoles`, the same for any number of failures as long as no request of the gap detection itself fails. After a
  failure the cache is no line any more, so the invariant is about the minutes that are over and not `seen` to (`Missing`).
  `Watched`: the gap detection is about to fill such a minute, or has still to look this minute and every closed candle is of an
  earlier one, so that it will ask for it. Every minute begins so, and no step but a failed request of the gap detection ends it.
  `Ahead`: if that request is the failure, the cache was a line before, so the minute is behind its end; everything
  that follows succeeds, and the loop either fills it or finds its own candle or the announcement of a reconnect on the wire before any later one.
  `Covered` joins the two. `SeenTo` leads back to the cache: what is in it has been seen to, and below the limit what
  has been seen to is in it. `Basic` holds the types and times all this rests on, whatever fails. The bound of one failure is
  needed: TLC violates `Continuous` with two (the case above). A gap longer than one request counts as seen to as a whole.

Model-checked only: all
liveness (`EveryOrderAnswered`, `PendingResolves`, `MarketOrdersEnd`, `DeleteAnswered`, `RestoredAgain`, `CatchesUp`, `Streams`,
`HearsAgain`), as liveness under fairness is out of the prover's reach. The type invariants of `PositionEngine`, `StrategyStore` and `UserDataStream` (keys) are
proved and checked by no run.

## Plan

All components that keep trading state are modelled, and every safety property of the passing runs is proved. Left is what
this prover cannot state: the liveness properties, and the parts listed next.

## What is not modelled

Indicator arithmetic, prompt rendering, request signing and parsing, SQL text, the web client and configuration:
pure functions on floating-point or text, or I/O without state of their own. The LLM client is a step of its
callers that may take long and fail. The order book stream and engine relay snapshots to displays with the same connection code;
no trade reads them. The relay of the API's web sockets, users and market queries keep no trading state. `cancel_order` of
one paper order has no caller. `update_bot`, the choice of a strategy, consecutive losses and the decision log ids of the worker are left out
of their modules. One exchange, one symbol (per model) and one user are modelled; what several share is named in each module.
`PROJECT.json` names each component with the reason.

## Running

    tlc -workers 2 -config PE_adverse.cfg MCPositionEngine.tla   # and PE_*, BW_*, PT_*, LC_*, KL_*, SS_*
    tlc -workers 2 -config UD_orders.cfg UserDataStream.tla
    tlapm PositionEngineProofs.tla    # and the other *Proofs.tla
