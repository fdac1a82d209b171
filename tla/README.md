# Coin-Strategy-Orchestrator in TLA+

Models of the trading bot in this repository, checked with TLC and proved about
with TLAPS. Paths are relative to the root of the repository, and the code's own
`src/` directory is written in full (`src/main.py`, `account/dbupbit.py`, ...).

## 1. The system

The bot watches Upbit order books and tickers, runs trading strategies on them,
and buys and sells through an account that is either a simulation on SQLite or
the exchange. A filled buy becomes a *pocket*, a position that has its own
strategies and is sold as a unit. People and language models drive it over MQTT
commands and MCP tools.

### Threads

| thread | entry | what it does |
|---|---|---|
| main loop | `Manager.run`, `src/main.py` | takes a task off `task_queue`, an in-memory `queue.Queue`, and runs its handler to the end |
| websocket | `Manager.on_ws_message` | puts ticks and order books on `task_queue` |
| MQTT | `Manager.on_mqtt_message` | puts commands on `task_queue` |
| scheduler | `Manager._run_scheduler_loop` | calls `StrategyManager.on_schedule` every minute |
| MCP server | `project_mcp/`, started by `app.py` | its tools call the managers directly |
| control | `app.py` | starts and stops the service on request, in executor threads |
| dashboard | `Dashboard._run_loop`, `src/dashboard.py` | applies queued events to the store and tells the viewers' event loop |
| viewers | `src/ws_server.py` | an asyncio loop that sends snapshots and broadcasts |

Only `DBTradeManager` has a lock, and it covers sections of its operations, not
the operations. Every repository `save` is a transaction of its own.

### Components

| component | state | operations | its correctness |
|---|---|---|---|
| Virtual account (`account/dbupbit.py`, `repositories.py`) | tables `assets`, `orders`; the lock | `create_order`, `cancel_order`, `lock_asset`, `unlock_asset`, `check_and_execute_orders`, `process_order_complete`, `synchronize_locked_balances` | locked amounts are those of the open orders; the coins are what the filled orders say; a filled order is final; events tell what the rows hold |
| Pockets (`src/pocket_manager.py`, `models/pocket.py`) | table `pockets` and its archive, the dict of loaded pockets | `create_pocket`, `close_pocket`, `closed_pocket`, `set_reason`, `close_pockets_by_ticker`, `archive_pocket` | a pocket is sold once, is closed by its own sale, and goes through ACTIVE, CLOSING, CLOSED only; volume is neither lost nor invented |
| Manager (`src/main.py`) | `task_queue` | `on_order_completed`, `on_signal_processing`, `on_pocket_created`, `on_pocket_updated`, `on_pocket_deleted` | an open pocket has its strategy, and a strategy an open pocket |
| Strategy manager (`strategy/manager.py`, `repository.py`) | table `strategies` and its archive, the dict of strategies | `load_strategies`, `add_strategy`, `on_tick`, `on_schedule`, `process_signal`, `stop_strategy`, `archive_strategy`, `delete_strategies_by_pocket_id` | an archived strategy does not return; memory and rows agree; one bad row does not stop the others |
| Strategies (`strategy/default_strategy.py`, `buy_strategy.py`, `volume_strategy.py`, `anomaly_strategy.py`, `dl_anomaly_strategy.py`, `analysis_helper.py`) | their parameters and state dict | `on_tick`, `on_schedule`, `emit_signal` | a saved stop never falls; a take profit that counts as taken was signalled; a position is bought once and sold once; no round is skipped; the two copies of the analysis agree; a model judges by its own training |
| Commands and tools (`project_mcp/tools/`) | none of their own | buy, sell, sell all, cancel, close pocket, create strategy | they keep the invariants of what they call |
| Live account (`account/manager.py`, `tools/retry.py`) | the ids of open orders; the rest is the exchange's | `buy_market_order` with retries, the other orders, `get_orders`, `cancel_order` | an open order stays known, unless its answer was lost; every call ends |
| Websocket feed (`upbit/upbit_websocket.py`) | the list of codes, the request, the connection | `start`, `_on_open`, `_run_forever`, `add_subscription`, `stop` | a connection that is up has every code; after losses it comes back |
| Messaging (`messaging/`) | callbacks, connection; the unfinished line | `connect`, `subscribe`, `_on_connect`, `_topic_matches`, `_listen_loop` | commands are listened for whenever the connection is up; a stream's lines come whole, once and in order |
| Dashboard (`src/dashboard.py`, `dashboard_state.py`, `ws_server.py`) | the event queue, the nested and flat state, the throttle, the viewers | `apply_event`, `_update`, `_maybe_notify`, `ws_view`, `_broadcast` | the copies of one thing agree; viewers miss nothing that can be sent, and see the last state |
| Pipeline (`tools/pipeline.py`) | nodes, their queues, routes and buffers; the signals | `handle`, `emit`, `pause`, `connect`, `unregister_node`, `start`, `stop`, the signal loop | values are delivered once and in order, or their loss has a cause; nobody waits in a circle; stop ends every task |
| Service (`app.py`) | the running manager | start, kill | a restart recovers |

Terminal and web clients, prompts, analysis scripts and `verify/` hold none of
the program's state and are left out. `PocketManager.delete_pocket` has no caller.
`Manager.process_command` repeats the tools' handlers in an older form.

### What is hard

- *Interleaving.* The MCP thread and the main loop run the same handlers over the
  same objects. `on_pocket_updated` checks `close_order_id`, sells, and only then
  records the order; the account reads open orders outside its lock.
- *Atomicity.* A fill is three commits, a cancellation two, a partial close
  two; a crash may fall between any of them.
- *Crash and restart.* The queue of events is in memory. What a restart repairs
  is in `synchronize_locked_balances` and `load_strategies`, and is less than what
  a crash can break.
- *Repetition.* A strategy's stop is met on every tick until its pocket is gone.
- *Stale copies.* `_persist_strategy` and `stop_strategy` read a row, change it and
  write it back; memory and row differ until the display changes.
- *Two clocks.* The strategy manager and the scalping strategy each keep the time of
  the last round and compare it with one interval.
- *Lost answers.* An order whose answer is lost may have been taken, and is sent again.
- *Reconnects.* The websocket, MQTT and socket clients lose connections while other
  threads subscribe.
- *Back pressure.* A pipeline node that emits waits for the queue of the next, which
  may be paused, stopped or removed meanwhile.
- *Snapshots.* A viewer gets a copy of the state and, from another thread, the changes.
- *Callbacks.* `closed_pocket` notifies `Manager`, which calls back the managers,
  inside the loop over a ticker's pockets.

`PROJECT.json` lists each of these, and smaller ones, at its line.

## 2. Modules

| module | of | content |
|---|---|---|
| `Account` | virtual account | one action per commit, or per read that is used after the lock is given up |
| `MCAccount` | | request sets and currencies for TLC |
| `AccountProofs` | | types, final states, events, restarts, locks and books |
| `PocketLifecycle` | abstract | what the documents promise of a pocket |
| `Pockets` | pockets, manager, default strategies, tools | pockets from buy to sale, on any number of threads |
| `MCPockets` | | symmetry |
| `PocketProofs` | | types, volume, a pocket is sold once, coins and strategies cover the pockets |
| `PocketLifecycleProofs` | | `Pockets` implements `PocketLifecycle` |
| `StrategyLifecycle` | abstract | a strategy is created, may be stopped, and is archived once and for all |
| `Strategies` | strategy manager, its table, `DefaultStrategy` | strategies of one ticker, over ticks, commands and restarts |
| `MCStrategies` | | symmetry |
| `StrategyProofs` | | types, lifecycle, saved stops and take profits, what a restart goes on with |
| `Scheduled` | scheduler, strategy manager, `ScalpingStrategy` | one scalping strategy between two threads, with its row and its signals |
| `LiveAccount` | live account, `with_retry` | orders, retries and the set of open orders, on any number of threads |
| `Trading` | main loop | `Scheduled` and `LiveAccount` composed: a BUY becomes an order |
| `Candles` | candles, pandas | candles that come one by one, and sums over windows of them |
| `Analysis` | the analyses of the strategies | indicators, scores and what follows from them |
| `AnalysisHelper` | the analysis of the tool | the same, translated from the tool's own code, with its own constants |
| `Analyses` | | the two side by side |
| `DeepAnomaly` | `DeepAnomalyStrategy` | scaler, model and threshold over trainings that may fail |
| `MCTrading` | | the four of them for TLC, and the table of logarithms |
| `TradingProofs` | | the strategy, the account, the two composed, the analyses and the autoencoder |
| `Feed` | websocket feed | the feed's thread and the threads that add markets |
| `Messaging` | MQTT adapter, `Manager.init` | connection, subscription, and the matching of topics |
| `Socket` | socket adapter | lines out of chunks |
| `Dashboard` | dashboard, its store, its server | from the queue of events to what viewers show |
| `MCEdges` | | the four of them for TLC, the stream and the strategies' pockets |
| `EdgesProofs` | | types, the feed's codes, what clients hear, what viewers see |
| `Pipeline` | pipeline | nodes, queues, manager and signals, one action per stretch between two suspensions |
| `MCPipeline` | | a pipeline with one node of every kind; its way, its ranks and what its wiring is, as assumptions TLC evaluates |
| `PipelineProofs` | | types and bounds, a stop is complete, order and single delivery, no value lost, nobody waits in a circle |
| `SumProofs` | | lemmas about sums over finite sets |

### Account

`assets` and `orders` are the two tables, `mutex` is `DBTradeManager.lock`, and
`pc`, `dto`, `uuid` are each thread's place in the code and its local order.
`published` is what the last `myAsset` event said. `phase`, `unread` and `expected`
are the restart: the sums of `synchronize_locked_balances` as it reads them.

An order is created in two sections: `CreateBid` or `CreateAsk`, then `LockAsset`,
then `SaveOrder`; a crash or another thread may fall between. `CancelOrder` and
`UnlockAsset` are the two commits of one section. `CheckOrders` reads an order
without the lock; `CompleteOrder`, `SettleBase`, `SettleUnit` are the commits of
`process_order_complete`. Amounts are integers, money in units that make the fee
exact; floating-point error is not modelled, except for the tolerance by which
a sale may exceed its balance. Average prices and timestamps are left out.

### Pockets

`pockets` is an object and its row in one record, `table` the rows not archived,
`loaded` the manager's dict; `strategies` and `stratRows` the same for strategies,
each named by its pocket. `queue` is `task_queue` and `at` a thread's frame: the
next step, what the handler does after the notification it is in, and the locals.
An action is a save, or a look at shared state whose outcome is used later, so
`set_reason`, `close_pocket`, `on_pocket_updated` and the sale they lead to
are the chain `SetReason`, `OnPocketUpdated`, `CleanUp`, `ClosePocket`,
`MarkClosing`, `OnPocketUpdated`, `SellPocket`, `LinkOrder`, `CleanUp`.

The account is reduced to free coins and the orders' states: a sale locks its
coins or raises. When a strategy signals is left open, so every sequence of ticks
is covered. `Pockets` is one ticker's: tickers share nothing but the queue.

### Strategies

`rows` is the table, `archive` the ids in the archive, `live` the manager's
dictionary and `memory` the fields of the instances: the state that `get_state`
saves, the display and `is_updated`. `signals` are the strategies with a task on
the queue and `closing` the pockets that were asked to close, which is all that
the main loop does with a signal here; `Pockets` has the rest.

`OnTick` begins a loop over `live`. `NextStrategy` runs one `DefaultStrategy.on_tick`
with the signal it leads to, `GetRow` and `SaveRow` are the two halves of
`_persist_strategy`, and the loop ends early when another thread has changed the
size of the dictionary. `CreateRow` and `Start` are the two halves of
`create_strategy` and `add_strategy`, and a row may be `good` or not: the class
accepts its configuration. A deletion is `StopStrategy`, `MarkStopped` and
`ArchiveStrategy` for each of its strategies. After a `Crash`, what is loaded is
what `load_strategies` accepts, whatever its status.

Percentages and prices are integers, so a stop is exact in hundredths of a price
unit. `Scale` price units are one KRW, and the display shows whole KRW: that rounding
decides whether a state is saved, so it is in the model (`Shown`).

### Scheduled, LiveAccount and Trading

`sched` and `main` are the frames of the scheduler's thread and of the main loop.
A round is `RoundBegins` (the manager's look at its own time), `CheckOwn` (the
strategy's look at its own), `Analyse`, `Stamp` (the manager's time), and the two halves
of each save, `SchedGet` and `SchedSave`, before and after `SchedPut` queues the signal.
A tick is `OnTick`, `MainPut`, `MainGet`, `MainSave`. Times are kept as ages up to
`Interval`, so that `Elapse` is one minute, or whatever `Period` counts. Of the three
places that set the position only the analysis takes one and only a tick
ends it. `balance` counts the BUY signals handled less the SELL signals; with those that wait in
`tasks` or in a thread's hand, and the position, it comes to nothing (`Paired`). A crash may fall
anywhere and any number of times: it empties `tasks` and both hands, restores the position of the row
and begins a new balance, which may differ from the old one by what it lost or will repeat, two
signals at most. `State` is copied at once: the code reads it and `last_execution_time` one
after the other, but only the scheduler's thread changes times.

`exchange` is the exchange's view of the orders, `tracked` is `_open_uuids`, and
`unknown` are orders the account was never told of or has let go of. An attempt is `AskPrice`, then
`Taken` or `Refused`, then `Track`; `Taken` may lose its answer, and `Failed` begins the
next attempt. `Query` and `Prune` are the two halves of `get_orders`.

`Trading` puts them together: `HandleBuy` is `on_signal_processing`, after which the
main loop does nothing until the call of the account has ended; a crash loses the
set of open orders with the task queue.

### Analysis, AnalysisHelper and DeepAnomaly

`Analysis` translates the indicators of the strategies over a growing sequence of candles
(`Candles`): moving averages, relative strength, Bollinger bands, volume, order book, in
integers and without division (`x / a > y / b` as a product; deviations are compared squared).
`AnalysisHelper` translates `strategy/analysis_helper.py`, which computes the same with code and
constants of its own. It takes nothing from `Analysis`, so that a window, a threshold or a
comparison that differs between the files differs between the modules. What they share is
`Candles`: the data and pandas. `Analyses` compares them; `SameNumbers` says that the constants of
the one file are the defaults of the other, as they are. Numbers are scaled down in the
configuration, in both alike. Logarithms, which the z-score needs, are a table. `DeepAnomaly` leaves out what is learned: a training has a
number, and scaler, model and threshold say of which training they are.

### Feed, Messaging, Socket and Dashboard

In `Feed`, `loop` is where `_run_forever` is, `server` what the exchange has for
the connection, and `adder` a thread's place in `add_subscription`: it extends the
list, rebuilds the request, looks whether there is a connection, makes a text of the
request and sends it, and the feed's own `Opened` and `OpenSent` may fall between.
`overlap` remembers that two requests of a connection were made one after the other before the
first was sent; they may then arrive in either order.

In `Messaging`, `boot` is where `Manager.init` is, which waits five seconds and
subscribes if it is connected, and `link` is paho's thread, whose callback subscribes again to
what is registered. `broker` is what the broker delivers. `TopicMatches` is the adapters' matching,
`BrokerMatches` a broker's.

`Socket` reads a stream of bytes in chunks of any length: line ends, a character of
two bytes, and JSON that is no object.

`Dashboard` follows an event from `events` (`Put...`, one for each kind of call in
the manager) over the store (`Apply`) and the throttle (`Notify`) to `told`, the broadcasts
the event loop has still to run. `view` is what each viewer has made of its snapshot and
the events since; `had` are the messages that came with the snapshot. An order is
listed under its ticker by the same calls that store it, so the list is not kept apart. Payloads with decimals are stored but raise when they are broadcast.

### Pipeline

Everything runs on one event loop, so an action is what runs between two
suspensions. `step` and `hand` are a node's task and the item it holds, with the
targets still to be served when it waits for a full queue. `ctl` says what the
caller and the signal task are in the middle of: a removal, a stop. Losses have their
place: `counted` for items dropped by a paused node, `forfeit` for those in the hand of
a node that was cancelled or paused. The function of a node may raise on the values of `Bad`: at a
processor, router or filter the item goes on as it came, marked, by its old route; at a sink,
which has nowhere to send it, it is in `error_count` and so in `counted`. The caller starts again only after the last
stop and its signals have ended, though `start` itself checks no more than `running`.

## 3. Runs

Bounds are small sets of threads, orders, pockets and volumes. Two threads are
enough for a race on one object; two bids of one currency for locks to be
confused; three pockets, in the runs with sales by hand, for a sale matched over two
and split in a third; two where pockets are sold one by one, with an ask left for each
to try again after a cancellation.
For strategies: two of one pocket; the entry is 20, the stop loss 20 %, the take
profit 20 %, the trail 23 % and the activation 10 %. The six prices are one at
the stop loss, one above it, one below the activation, one at it, one above, and
one at the take profit, and with `Scale` 2 two of the stops show alike.

`MCTrading` and `MCEdges` hold components that share no state in these runs, each
behaviour being of one of them (`part`). In `MCTrading` one part is the composition
`Trading`, for one order; the account's own part has both threads and two.
The longest windows are three candles, and the volume strategy and the relative strength
look at the one before them, so four candles define everything; volumes of 1 and 7 lie
on both sides of both multipliers. Two events in the dashboard's queue are enough for one to
overtake the other. A pipeline of queues of one is the one in
which every emission may have to wait; three control operations are enough to
start, remove and stop while a value waits. The filter raises on one value; the processor, the router and the
sink on another, so both turns of each are taken. Patterns and topics of three levels have every
wildcard before, after and in place of a level. The feed starts without a code, which is the case
in which its request has no list yet.

| run | bounds | shows |
|---|---|---|
| `account_threads` | two threads, three orders, kills | Two threads place, cancel and fill orders in every interleaving of their commits, and the process may be killed between any two; the restart repairs the locks. |
| `account_serial` | main loop, three orders, fair | With the main loop as the only caller, coin locks and coin books are exact, a cancelled order is never filled, and every market order is filled or cancelled in the end. |
| `account_wipe` | two bids | *violated*: A bid that spends the last free KRW clears the locks of the other open bids. |
| `pockets_main` | main loop, cancellations, two pockets, fair | The main loop alone, with repeated signals and cancelled orders: no double sale, every open pocket can be sold and has its strategy, what is closed was sold, and a pocket that is closing is closed in the end, unless its order was cancelled. |
| `pockets_crash` | kills, sales by hand | Kills and restarts between any two saves, sales by hand included: no volume appears from nothing, and no pocket leaves its lifecycle. |
| `pockets_race` | two threads, sales by hand | The MCP thread closes pockets, buys and sells beside the main loop: pockets are matched, split and archived, and no volume is lost or invented. |
| `pockets_double_sale` | two threads | *violated*: Two threads pass the check of close_order_id before either saves its order: the pocket is sold twice. |
| `strategies_main` | main loop, two strategies, six prices, kills | The main loop ticks, creates, stops and archives two strategies and is killed between any two commits: the table and the running strategies agree, a crash loses no more of a stop than its display rounds away, a saved stop never falls, and no archived strategy comes back. |
| `pipeline_main` | one node of each kind, queues of one, three values, three control operations, fair | Three values go through every kind of node while a caller and the signals pause, rewire, remove, stop and start nodes: no value is lost without a trace or delivered twice, values of a route keep their order, nobody waits in a circle, a stop that returns has ended every task, and a running pipeline drains. |
| `edges_main` | two markets, two adders, two losses; patterns of three levels; a stream of 13 bytes; five events, one viewer; fair | The four edges, one at a time: every code of the feed is asked for in the end, commands are listened for, the stream's lines come whole in every cut, and a viewer that comes and goes gets the messages in order and misses nothing that can be sent. |
| `trading_main` | interval and wait of 2, two prices, crashes; two threads, two orders, two attempts; four candles; three trainings; fair | The scalping strategy between its threads, buying through the live account: signals and positions balance, a crash unbalances two at most, no round is skipped, rows catch up. The account under two threads: no open order is forgotten, every call ends. The two copies of the analysis agree on every candle. An autoencoder judges by its own training. |
| `trading_holding` | the same strategy and account | *violated*: The SELL of the scalping strategy carries no amount and is never executed, but its position is gone: it looks for the next purchase while it holds the coins of the first. |

Where several facts answer one question, the run checks their conjunction: `CoinsAddUp` the
locks and the books of coins, `PocketsAccountedFor` what is unsold and what was closed,
`PocketsHaveStrategies` both directions, `RestartGoesOn` rows and saved states, `Paired` the
balance between crashes and over one,
`ClientsHear` and `ComesThrough` the MQTT and the socket client, `ViewersSee` the store
and the viewers, `JudgedAlike` the analyses, `EdgesTypeOK` and `TradingTypeOK` the types of
the composed modules. Each conjunct is defined and explained in its own module.

Each violated run has its entry under `findings`, with the line that says
otherwise. Bounds in the guards: `UuidLeft` in `Account` and
`Pockets` (an order is begun only
while a uuid is left for it, and in `Pockets` for the sale of every pocket),
`QueueMax` in `Pockets` (no signal behind that many tasks; fills are not bounded),
`MaxTasks` in `Scheduled` (no BUY behind that many; a SELL always), `MaxOps` in `Pipeline`,
`MaxLosses` in `Feed`, `MaxDrops` in `Messaging`, `MaxPrices`, `MaxMessages`, `MaxEvents`,
`MaxQueue` in `Dashboard`, `MaxCandles` in `Candles`, `MaxTrainings` in `DeepAnomaly`. Crashes are not bounded.

Deadlock checking is off where the system may stop: when the uuids of an instance
are used up and every order is settled, every strategy is archived, the losses, events,
candles or control operations of an instance have all happened, nothing is left
to do.

### Fairness

- A thread goes on with the operation it has begun: weak fairness of `Continue`.
- `task_queue` is first in, first out and every handler ends, so commands cannot
  keep the main loop from an order book or from a queued task for ever: strong
  fairness of `OrderBook`, `TakeTask` and `Execute`. `Execute` is fair for each
  order because a market order is filled by any book and the open orders are
  taken one a book, until none is left.
- The scheduler's thread and the main loop of `Trading` run, time passes, and the
  network answers or fails (`with_retry` gives up after its last attempt). Strong
  fairness of `Analyse` says that a market does not have less than three candles for
  ever; without it each round raises before it saves.
- In `Pipeline` the event loop runs every task that is ready and the nodes' functions
  return. In `Feed` the wait before a reconnect ends and a server answers except for
  `MaxLosses` times; in `Messaging` the same of paho and the broker; in `Socket` the
  listening thread runs.
- Nobody has to buy, sell or cancel, no strategy has to signal, nobody has to push,
  rewire or stop, and there is no fairness of crashes.

### What the runs do not count as errors

Some properties name exceptions, because the code does these things and no
document says it does not:

- A pocket whose closing order is cancelled keeps the order's id and stays closing
  for ever (`SaleCancelled`). The closed part of a split pocket is announced as created, and
  gets a strategy that nobody ends. With two threads an order that was read as open is
  filled after the other cancelled it.
- On a connection on which requests overlapped, the older one may stand, and a market
  stays without data until the next reconnect.
- A manager that is not connected within five seconds never subscribes. A socket client
  whose listener has ended does not connect again. `#` after a level is matched
  with at least one more level, where a broker delivers the level itself too.
- The last price of a burst is not sent to viewers (`dropped`), pockets, strategies and
  orders only with a snapshot, and none while an order from before the start is open, whose
  date no snapshot can carry. A strategy that is updated after its removal stays.
- An emitter that waits for the queue of a node that is then removed waits for ever. A
  list of subscribers that is edited while an emission waits makes it skip or repeat
  one. Disconnecting from a node that is not registered takes away every subscriber of the route.
- A live order whose answer is lost may be placed again. A cancelled order is forgotten
  even if the exchange refuses; all are at a restart.
- A crash between the save of a position and its signal leaves a position nobody bought; one
  that finds a row that is behind, since the two threads overwrite each other's, may buy or sell
  again; one before the task of a take profit is handled loses it, since the row says that it
  was taken. `Paired` says how far the
  signals may be out of balance then.
- The tool takes points off in a falling market, the strategy does not: it may buy
  where the tool says SELL.

## 4. Proofs

TLAPS proves the following for every value of the constants that satisfies their
assumptions: every number of threads, orders, currencies, pockets, strategies and
viewers, every price and percentage. Where a theorem needs more, that is said, and why.
An inductive invariant is a conjunction of named parts, each with a comment in its module.

The assumptions are those of the modules, which TLC evaluates for the instances. Two are
there for the proofs: the sets summed over are finite (`FiniteAssumption`: a process has
finitely many threads, and a table finitely many rows), and an id is of one kind
(`DashboardAssumption`: the code makes them as `uuid4`, and orders' ids come from the
exchange).

*Sums.* `SumFunctionOnSet` of the community modules is a fold; `SumProofs` proves, by
induction over the subsets of a finite set, what it is of an empty set, when a summand is
taken out (`SumRemove`) or changed (`SumChange`), over a part (`SumSubset`, `SumFilter`), over the
image of a map (`SumElsewhere`), and that a sum squared is at most the sum of squares times
the number of summands (`SumSquares`). The library's induction theorems take an operator,
which the provers cannot instantiate; a *set* of good subsets they can (`SubsetInduction`).

### Account

- `AccountTypeOK`: no balance or lock is ever negative. It is inductive; the guard
  of `lock_asset` and the two clamps are what it needs.
- `AccountDoneIsFinal`: a filled order's row never changes. Strengthened by what a
  thread about to complete an order knows of its row.
- `AccountEvents`: whenever the lock is free, the last events agree with the
  rows. The invariant `EventInv` adds that a thread inside `unlock`, `base` or
  `unit` holds the lock, and which currencies may then differ.
- `AccountRestart`: wherever a crash falls, the restart leaves exactly the locks of the open
  orders. `SyncInv` says that what `synchronize_locked_balances` has summed up so far, with
  the orders it has not read yet, makes up the whole.
- `AccountNoPhantomLock`: no more is locked of a currency than open orders and operations
  in progress account for (`LocksFollow`), under every interleaving and crash. `MemoryInv` says
  what a thread remembers of its order: an order that was read without the lock may have
  been cancelled since, but still locks what its row says. Assumes that every market is
  paid in KRW: locks are taken in the market's unit, fills settled in KRW (`dbupbit.py:458`),
  and elsewhere it is false.
- `SoleThreadCancelIsFinal`: with one thread a cancelled order is never filled;
  with two, one may fill an order it read before the other cancelled it.
- `SoleThreadLocksAreExact`: with one thread, crashes included, coins are locked exactly as
  orders and the operation in progress say. With two the same coins may be unlocked
  twice, by the fill and by the cancellation of one order. (Of KRW it is false with one thread
  too: `account_wipe`.)
- `SoleThreadCoinsAddUp`: with one thread and no crash the coins held are also those bought less
  those sold (`BooksInv`). A crash between the commits of a fill loses one side of the trade.

### Pockets

- `PocketsTypeOK`: no sale spends coins that are not there and no split takes more
  than its pocket has. `TypeOK` alone is not inductive: `WellFormed` says which
  pocket, order and volume a frame holds at each step.
- `BuysAreNotCountedTwice`, of any threads, with sales by hand and crashes: the pockets and what is
  on its way to them hold no more than the filled buys. `NoBuyIsLost`: without crashes, exactly
  as much. `Balance` is the difference of the sums, which every step but a crash leaves at
  zero; `FlowInv` adds that a fill is queued once, and after its order is done.
- `OneThreadSellsOnce`: one thread that is not killed and is given no sales by hand
  never sells a pocket twice. `SaleInv` says that a step at which a sale will
  be made has a pocket in `closing` without an order, and that an order belongs to
  its pocket or is being recorded. The hypotheses are needed: `pockets_double_sale`
  breaks the first, a kill between the sale and the save of its id (`SellPocket`,
  `LinkOrder`) the second, and a sale by hand is by design of no pocket.
- `OneThreadAccountsForPockets`, under the same hypotheses: the free coins cover every unsold
  pocket, and a closed pocket was sold. `SoleInv` adds to the pockets what is queued and
  what is being created (`Reserve`). A sale by hand spends coins before it is matched with pockets,
  and coins bought before a crash may never become a pocket.
- `OneThreadKeepsStrategies`, under the same hypotheses: between two tasks an open pocket has its
  strategy, in memory and in the table, and a strategy an open pocket. A kill between the two
  saves leaves one without the other.
- `OneThreadKeepsLifecycle`: one thread, killed and restarted at will and with
  sales by hand, implements `PocketLifecycle`. `LifeInv` relates a frame that
  is about to change a status to the status it will find (`Relies`). With two
  threads it does not hold: one closes the pocket between the other's check of the
  status (`ClosePocket`) and its assignment (`MarkClosing`).

### Strategies

- `StrategiesTypeOK`: types, and no negative stop. `TypeInv` adds that a frame in
  the middle of an operation names a strategy.
- `OneThreadKeepsStrategyLifecycle`: one thread, killed and restarted at will,
  implements `StrategyLifecycle`. `LifeInv` says that the row a frame has in its
  hands is the row in the table (`Found`), and that the archive and the table are
  disjoint. With a second thread that fails: `SaveRow` and `MarkStopped` write back
  a row that the other thread has archived.
- `OneThreadStopNeverFalls`: the saved stop of an active strategy never falls.
  `StopInv` bounds a stop by what the highest price gives (`Bounded`) and a
  saved stop by the one in memory; `TickedStop` is the arithmetic.
- `OneThreadTakenWasSignalled`: no take profit is saved as taken before its signal was
  queued. No run checks it as well; that the signal is handled is lost in a crash. `TakenInv` says where an instance has its flag from: this process's
  signal, or the row it was restored from; and that a strategy without a row is
  neither running nor, if it is not archived, anything but fresh.
- `OneThreadRestartGoesOn`: between operations the running strategies are those a restart would
  run, in states that differ only in what the display rounds away. `RunInv` follows
  the strategies that are between row and dictionary; `SyncInv` says that a display shows its state,
  so that a tick that saves nothing has changed nothing that shows.

### Trading

- `ScheduledTypeCorrect` and `SignalsArePaired`: of every price, percentage and period,
  and any number of crashes. What was handled and what is to come balance exactly (`Agree`, for
  every position in the queue: a SELL may be handled before its BUY); a crash changes the balance by
  two signals at most (`CrashUnpairs`), since of what it loses and restores only a BUY, a SELL and
  the position can be out of step. `SchedInv` says where the scheduler's thread relies on there being
  no position (`fetch`), and where it has a signal in hand; that no one else takes a
  position is what makes it inductive.
- `NoRoundIsSkipped`: assumes `Interval <= Period`, the configured 60 s against the
  scheduler's 60 s; with a longer interval the strategy's own look comes some steps
  after the manager's and a round is lost. `SleptEnough` says that while the thread
  sleeps, the age of the strategy's check and the rest of the wait make up an interval.
- `LiveTypeCorrect` and `LiveOpenIsTracked`: of any number of threads and attempts.
  `FramesGood` says that an order a frame is about to track has been taken, and that what it
  is about to prune has ended; `Advances`, that the exchange never takes that back.
- `TradingKeepsItsParts`: every behaviour of the composition is one of the strategy's
  specification and one of the account's. So what is proved of the parts holds of
  `Trading`: `TradingTypeCorrect`, `TradingIsPairedAndTracked`.
- `AnalysesAgree`: of every history of candles and every window, given `SameNumbers`. The two copies
  are compared indicator by indicator (`ToolMustAgree`, `CopiesMustAgree`): the tool's fractions are
  the strategy's products, what pandas leaves undefined is so for both, and the branches give the
  same points but for the fall the tool alone looks for. Two facts of arithmetic are needed: a
  variance is not negative (`SpreadIsNotNegative`, from `SumSquares`), so that the strategy's
  `std > 0` and the tool's `std == 0` leave no third case; and an outlier lies to one side of its
  history. `PriceSpeaks` assumes a threshold above the 4 points
  that volume and order book can give (the code's is 5). `SpikeIsSurge` assumes that the
  surge's window reaches no further back than the spike's, and
  `SpikeTimes * SurgePeriod > SurgeTimes * (SpikeTimes + SpikePeriod)`: in the code 5 * 20 > 2 * (5 + 20).
  The candle itself is in the one window and not in the other; with multipliers that are
  closer, a spike hides the surge it is.
- `DeepJudgesByItsOwn`: of any number of trainings and failures. `DeepInv` says that only a training
  younger than six hours is used, and that it was finished (`Finished`). `AllJudgeAlike` is
  `AnalysesAgree` of the specification that the run checks.

### Edges

- `FeedTypeCorrect`, `FeedSubscribed` and, of the composition, `EdgesSubscribed`: of any markets and
  threads. `Covered` follows each code of the list to the thread that is yet to ask for it, the
  one request that is still unsent (`Alone`), or the server.
- `ClientsHearRight`: `MessagingInv` says that the callback is registered before anything is
  subscribed, and that a connection that is up has been subscribed from then on. `TopicMatches` and
  a broker's matching agree on all patterns and topics of any depth. For the socket,
  `SocketInv` says that the lines handed on and the unfinished rest are those of what was read:
  cutting a stream at any byte cuts its lines in two places only (`CutLines`, `CutUnfinished`).
- `ViewersSeeAll`: `DashInv` follows a message from the queue over the store to the viewers, in order
  and without a gap (`Numbered`, `Sequenced`, `Viewed`): what a viewer has, what is told and what is
  queued continue each other (`Following`), the snapshot and the first broadcast after it overlapping
  or joining, never leaving one out; the last price to where it was dropped or shown
  (`Priced`), and a strategy to the one place it is filed in (`Filing`).
- `EdgesTypeCorrect`: the bounds of all four, `_MAX_LOGS` and the wait of the feed among them.

### Pipeline

- `PipelineTypeOK`: of every wiring, with the capacity of queues and the window of the
  buffer. `Fits` relates a node's phase, its hand and whether it runs.
- `PipelineStopIsComplete`: `EndInv` says that while a stop is under way a task that still runs is of a
  node the stop has yet to come to or waits for, and that nothing starts one.
- `PipelineDeliversInOrder`: of every wiring in which single values have one way to the
  sink for each route (`OneWay`, where what a router raises on counts as default), and a source that puts each value once (`EachOnce`). `WayInv` says of each
  value that it lies in one place (`Once`) that is on its route's way (`OnRoute`), and that of two
  values the one ahead was pushed first (`InOrder`). A step moves one item to the end of the next
  queue (`Moves`), which keeps this. The exceptions of `DeliveredInOrder` are those of `Sound`: an emission whose
  list was edited may miss a subscriber or serve one twice (`disconnect` removes from the list `emit`
  iterates over). In a wiring with two branches that meet, a value comes twice and nothing is
  wrong, so the hypothesis is needed.
- `PipelineAccounts`: of every wiring in which no node subscribes to itself. A set of visits,
  of a node by a value under a route, is `Followed` if each leads to a node that still has the value or
  to visits of all subscribers that were served. `LossInv` says that every value has such a set unless it was
  counted, or lost with a hand. It names where a value ends; for a wiring with a circle it says less,
  since visits that lead to each other name no place.
- `PipelineLosesNothing`: `NothingLostSilently`, which names the nodes of `MCPipeline`, from the same
  invariant, for queues of any size and any number of values and operations. Its premise, what is
  wired to what, is `TopologyAssumption`.
- `PipelineNoDeadlock`: of every wiring without circles (`Ranked`). Of the nodes that emit, one of the highest
  rank waits for a node that does not emit itself: that one goes on, or it has ended (`Stuck`).
  `HaltInv` says that a controller waits only for a node that runs no longer, which emits or
  has ended, and that no two remove at once. `CanGo` lists the guards, by name, that the
  actions themselves begin with (`MayTake`, `MayPut`, `MayJoin`, `MaySignalsEnd`), in place of `ENABLED Ready`.

The proofs share `WireInv` (each list has the subscribers of its wiring, none twice; who waits is
where his list says) and `WorkInv` (what each kind of node does with an item). `OneWay`,
`WellWired` and `Ranked` are conditions on a wiring; TLC evaluates them on `TheWay` and `TheRank` of
`MCPipeline`, so the wiring that is checked satisfies them. `PipelineAssumption` allows no node twice in a
list, since `connect` refuses that, and at most one aggregator, since the model has one buffer. A sink has no subscribers.

### Only model-checked

- Liveness under fairness: `MarketOrdersExecute`, `ClosingEnds`, `Drains`, `InForce`, `ComesThrough`,
  `RowCatchesUp`, `CallEnds`. The prover has no rule for fairness here, as it cannot expand `ENABLED`.
- Recursion over data is avoided in the modules that are proved about: sums are folds over
  sets, windows and lines are functions.

Every invariant that a passing run checks is stated by a theorem.

## 5. Plan

The modules, the runs and the theorems above: done. What would come next are pipelines with
several aggregators, each with a buffer of its own.

## 6. Not modelled

- *Manager.process_command* (`src/main.py`): an older form of the handlers in
  `project_mcp/tools`, which are modelled.
- *Service*: `app.py` calls `Manager.run` again after an exception, but `run` catches
  those of every task, so only a failure to start gets there. A kill and a restart are in
  the modules of what is saved.
- *Publishing*, the Redis adapter, `remove_subscription`, the private feed, and
  `trailingstop.py`: single calls of a library, a stub, and code without a caller.
- *Live fills*: nothing delivers them (`account/manager.py:312`), so there is nothing
  of the manager's to model.
- *Terminal and web clients, prompts, `analyze.py`, `verify/`*: presentation, text for
  language models, requests to other services, and test scripts by hand. They keep none of
  the program's state.
- *Prices and formatting* (`tools/`): conversions without behaviour of their own. Floating
  point, average prices, fees that are not constant, notifications, HTTP, files,
  credentials and third-party libraries.
