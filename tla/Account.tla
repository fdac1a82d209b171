------------------------------ MODULE Account ------------------------------
(***************************************************************************)
(* The paper-trading account: DBTradeManager (account/dbupbit.py) over its *)
(* two SQLite repositories, with the funding of AccountDBManager.init.     *)
(*                                                                         *)
(* Several threads call one DBTradeManager: the manager's main loop        *)
(* (signals, MQTT commands, and check_and_execute_orders on every order    *)
(* book) and the MCP server's thread (buy, sell, cancel tools).  Every     *)
(* repository save is a transaction of its own, and the RLock covers       *)
(* sections, not whole operations; so one action below is one commit, or   *)
(* one read whose result is used after the lock is given up, and a crash   *)
(* may fall between any two of them.                                       *)
(*                                                                         *)
(* Amounts are integers: coins in a smallest unit, money in 1/FeeDen of    *)
(* the price unit, so that a fee of FeeNum/FeeDen is exact.  The average   *)
(* purchase price, timestamps and the display fields of an order are left  *)
(* out.                                                                    *)
(***************************************************************************)
EXTENDS Integers, FiniteSets, FiniteSetsExt

CONSTANTS Threads,         \* the threads that call the account
          MainLoop,        \* the one that also receives order books
          Orders,          \* the uuids orders may get
          Markets,         \* the markets traded, e.g. KRW-BTC
          Currencies,
          Base, Unit,      \* market -> currency: BTC and KRW for KRW-BTC
          KRW,
          Prices,          \* prices an order book may quote
          Requests,        \* the arguments create_order is called with
          FeeNum, FeeDen,  \* the fee rate (get_fee_rate)
          ClampTolerance,  \* the 1e-7 of a sell's precision fix, in coin units
          InitialBalance,  \* config["initial_balance"]
          MayCrash,        \* whether the process may be killed and restarted
          NoThread, NoOrder

Request == [market : Markets, side : {"bid", "ask"}, type : {"limit", "market"},
            price : Nat, volume : Nat]

ASSUME AccountAssumption ==
  /\ MainLoop \in Threads /\ NoThread \notin Threads
  /\ NoOrder \notin Orders
  /\ KRW \in Currencies
  /\ Base \in [Markets -> Currencies] /\ Unit \in [Markets -> Currencies]
  /\ Markets # {}
  /\ \A m \in Markets : Base[m] # KRW
  /\ Prices \subseteq Nat /\ Requests \subseteq Request
  /\ FeeDen \in Nat /\ FeeNum \in 0..FeeDen
  /\ ClampTolerance \in Nat /\ InitialBalance \in Nat
  /\ MayCrash \in BOOLEAN

\* Of threads and of uuids there are finitely many, so what is locked adds up.
ASSUME FiniteAssumption == IsFiniteSet(Threads) /\ IsFiniteSet(Orders)

VARIABLES assets,     \* table assets: currency -> balance and locked
          orders,     \* table orders: uuid -> row ("none": no such row)
          mutex,      \* the thread inside DBTradeManager.lock, or NoThread
          pc,         \* where each thread is in the account's code
          dto,        \* the order each thread works on, in its memory
          uuid,       \* the row that order was read from
          published,  \* what the last myAsset event said of each currency
          phase,      \* "run", or the two loops of synchronize_locked_balances
          unread,     \* open orders the first of these loops has yet to add up
          expected    \* calculated_locks: currency -> sum so far

dbVars == <<assets, orders>>
threadVars == <<mutex, pc, dto, uuid, published>>
bootVars == <<phase, unread, expected>>
vars == <<dbVars, threadVars, bootVars>>

Asset == [balance : Nat, locked : Nat]
OrderRow == [market : Markets, side : {"bid", "ask"}, type : {"limit", "market"},
             price : Nat, volume : Nat, locked : Nat,
             state : {"none", "wait", "done", "cancel"}]
Blank == [market |-> CHOOSE m \in Markets : TRUE, side |-> "bid", type |-> "limit",
          price |-> 0, volume |-> 0, locked |-> 0, state |-> "none"]
ZeroLocks == [c \in Currencies |-> 0]

Steps == {"idle", "lock", "save", "unlock", "complete", "base", "unit"}

----------------------------------------------------------------------------
(* Amounts *)

Cost(price, volume) == price * volume * (FeeDen + FeeNum)
Proceeds(price, volume) == price * volume * (FeeDen - FeeNum)
AtLeastZero(n) == IF n < 0 THEN 0 ELSE n

LockCurrency(o) == IF o.side = "bid" THEN Unit[o.market] ELSE Base[o.market]

\* MUTANT of Unlocked: the clamp at zero is forgotten.
UnlockedUnclamped(a, amount) == [balance |-> a.balance + amount, locked |-> a.locked - amount]

\* The asset after lock_asset, unlock_asset and add_balance of an amount.
Locked(a, amount) == [balance |-> a.balance - amount, locked |-> a.locked + amount]
Unlocked(a, amount) == [balance |-> a.balance + amount,
                        locked  |-> AtLeastZero(a.locked - amount)]
Credited(a, amount) == [a EXCEPT !.balance = @ + amount]

\* MUTANT of Publish: the event is built before the rows are saved.
PublishEarly(cs) == published' = [c \in Currencies |-> IF c \in cs THEN assets[c] ELSE published[c]]

\* The myAsset event for the currencies in cs, after their rows are saved.
Publish(cs) == published' = [c \in Currencies |-> IF c \in cs THEN assets'[c] ELSE published[c]]

\* MUTANT of BidSettled: a fill below the limit consumes its cost, not its lock.
BidSettledByCost(a, o) ==
  LET balance == a.balance + o.locked - Cost(o.price, o.volume)
  IN  [balance |-> balance, locked |-> AtLeastZero(a.locked - Cost(o.price, o.volume))]

\* The KRW asset after a bid is filled: the lock is consumed, what the lock
\* held beyond the cost is refunded, and a balance that comes out at or below
\* zero resets the whole asset.
BidSettled(a, o) ==
  LET balance == a.balance + o.locked - Cost(o.price, o.volume)
  IN  IF balance <= 0
      THEN [balance |-> 0, locked |-> 0]
      ELSE [balance |-> balance, locked |-> AtLeastZero(a.locked - o.locked)]

AskReturned(a, o) == Unlocked(a, o.locked)

\* The coin asset after an ask is filled: only the lock is consumed.
AskConsumed(a, o) == [a EXCEPT !.locked = AtLeastZero(@ - o.locked)]

----------------------------------------------------------------------------
Init ==
  /\ assets = [c \in Currencies |->
                 [balance |-> IF c = KRW THEN InitialBalance ELSE 0, locked |-> 0]]
  /\ orders = [o \in Orders |-> Blank]
  /\ mutex = NoThread
  /\ pc = [t \in Threads |-> "idle"]
  /\ dto = [t \in Threads |-> Blank]
  /\ uuid = [t \in Threads |-> NoOrder]
  /\ published = assets
  /\ phase = "run" /\ unread = {} /\ expected = ZeroLocks

Idle(t) == phase = "run" /\ pc[t] = "idle"
MutexFree == mutex = NoThread
Goto(t, step) == pc' = [pc EXCEPT ![t] = step]
Return(t) == /\ Goto(t, "idle")
             /\ dto' = [dto EXCEPT ![t] = Blank]
             /\ uuid' = [uuid EXCEPT ![t] = NoOrder]

----------------------------------------------------------------------------
(* get_open_orders, and create_order *)

\* MUTANT of IsOpen: the query leaves out only the done rows.
IsNotDone(o) == orders[o].state \in {"wait", "cancel"}

IsOpen(o) == orders[o].state = "wait"

NewOrder(r, price, volume, locked) ==
  [market |-> r.market, side |-> r.side, type |-> r.type, price |-> price,
   volume |-> volume, locked |-> locked, state |-> "wait"]

\* A bid locks its cost at the limit price, or at the top ask fetched now.
CreateBid(t, r, ask) ==
  LET price == IF r.type = "limit" THEN r.price ELSE ask
  IN  /\ Idle(t) /\ r.side = "bid"
      /\ dto' = [dto EXCEPT ![t] = NewOrder(r, price, r.volume, Cost(price, r.volume))]
      /\ Goto(t, "lock")
      /\ UNCHANGED <<dbVars, mutex, uuid, published, bootVars>>

\* An ask reads the balance under the lock and trims a volume that exceeds it
\* by less than the tolerance; the lock is then given up.
CreateAsk(t, r) ==
  LET balance == assets[Base[r.market]].balance
      volume  == IF r.volume > balance /\ r.volume - balance < ClampTolerance
                 THEN balance ELSE r.volume
  IN  /\ Idle(t) /\ MutexFree /\ r.side = "ask"
      /\ dto' = [dto EXCEPT ![t] = NewOrder(r, r.price, volume, volume)]
      /\ Goto(t, "lock")
      /\ UNCHANGED <<dbVars, mutex, uuid, published, bootVars>>

\* lock_asset: a section of its own, one commit and one myAsset event.  With
\* nothing to lock it is not called; with too little to lock it raises.
LockAsset(t) ==
  LET c == LockCurrency(dto[t])
      amount == dto[t].locked
  IN  /\ pc[t] = "lock"
      /\ \/ /\ amount = 0
            /\ Goto(t, "save")
            /\ UNCHANGED <<assets, published, dto, uuid>>
         \/ /\ amount > 0 /\ MutexFree
            /\ assets[c].balance >= amount
            /\ assets' = [assets EXCEPT ![c] = Locked(@, amount)]
            /\ Publish({c})
            /\ Goto(t, "save")
            /\ UNCHANGED <<dto, uuid>>
         \/ /\ amount > 0 /\ MutexFree
            /\ assets[c].balance < amount
            /\ Return(t)
            /\ UNCHANGED <<assets, published>>
      /\ UNCHANGED <<orders, mutex, bootVars>>

\* The row is inserted under a fresh uuid, in another section.
SaveOrder(t) ==
  /\ pc[t] = "save" /\ MutexFree
  /\ \E o \in Orders :
       /\ orders[o].state = "none"
       /\ orders' = [orders EXCEPT ![o] = dto[t]]
  /\ Return(t)
  /\ UNCHANGED <<assets, mutex, published, bootVars>>

----------------------------------------------------------------------------
(* cancel_order: one section, two commits *)

\* MUTANT of Cancellable: the state is not looked at.
CancellableAlways(o) == orders[o].state # "none"

Cancellable(o) == orders[o].state = "wait"

CancelOrder(t, o) ==
  /\ Idle(t) /\ MutexFree /\ Cancellable(o)
  /\ orders' = [orders EXCEPT ![o].state = "cancel"]
  /\ dto' = [dto EXCEPT ![t] = orders[o]]
  /\ uuid' = [uuid EXCEPT ![t] = o]
  /\ mutex' = t
  /\ Goto(t, "unlock")
  /\ UNCHANGED <<assets, published, bootVars>>

UnlockAsset(t) ==
  LET c == LockCurrency(dto[t])
  IN  /\ pc[t] = "unlock"
      /\ assets' = [assets EXCEPT ![c] = Unlocked(@, dto[t].locked)]
      /\ Publish({c})
      /\ mutex' = NoThread
      /\ Return(t)
      /\ UNCHANGED <<orders, bootVars>>

----------------------------------------------------------------------------
(* check_and_execute_orders and process_order_complete *)

\* An order executes at the quote it meets: a market order always, a limit bid
\* at an ask no higher than its price, a limit ask at a bid no lower.
ExecutionPrice(o, ask, bid) == IF o.side = "bid" THEN ask ELSE bid

\* MUTANT of Executable: only limit orders are compared with the quotes.
ExecutableLimit(o, ask, bid) ==
  o.type = "limit" /\ IF o.side = "bid" THEN o.price >= ask ELSE o.price <= bid

Executable(o, ask, bid) ==
  \/ o.type = "market"
  \/ o.side = "bid" /\ o.price >= ask
  \/ o.side = "ask" /\ o.price <= bid

\* The open orders are read without the lock, and the first executable one is
\* taken; the query names no order, so it may be any of them.
CheckOrders(o, ask, bid) ==
  /\ Idle(MainLoop)
  /\ IsOpen(o)
  /\ Executable(orders[o], ask, bid)
  /\ dto' = [dto EXCEPT ![MainLoop] =
               [orders[o] EXCEPT !.price = ExecutionPrice(orders[o], ask, bid)]]
  /\ uuid' = [uuid EXCEPT ![MainLoop] = o]
  /\ Goto(MainLoop, "complete")
  /\ UNCHANGED <<dbVars, mutex, published, bootVars>>

\* First commit of process_order_complete: the row as it was read, now "done".
CompleteOrder(t) ==
  /\ pc[t] = "complete" /\ MutexFree
  /\ orders' = [orders EXCEPT ![uuid[t]] = [dto[t] EXCEPT !.state = "done"]]
  /\ mutex' = t
  /\ Goto(t, "base")
  /\ UNCHANGED <<assets, dto, uuid, published, bootVars>>

\* Second commit: the coin bought arrives, or the coin sold leaves the lock.
SettleBase(t) ==
  LET c == Base[dto[t].market]
  IN  /\ pc[t] = "base"
      /\ assets' = [assets EXCEPT ![c] = IF dto[t].side = "bid"
                                         THEN Credited(@, dto[t].volume)
                                         ELSE AskConsumed(@, dto[t])]
      /\ Goto(t, "unit")
      /\ UNCHANGED <<orders, mutex, dto, uuid, published, bootVars>>

\* Third commit, always on KRW, and one event for the two assets.
SettleUnit(t) ==
  /\ pc[t] = "unit"
  /\ assets' = [assets EXCEPT ![KRW] =
                  IF dto[t].side = "bid"
                  THEN BidSettled(@, dto[t])
                  ELSE Credited(@, Proceeds(dto[t].price, dto[t].volume))]
  /\ Publish({Base[dto[t].market], KRW})
  /\ mutex' = NoThread
  /\ Return(t)
  /\ UNCHANGED <<orders, bootVars>>

----------------------------------------------------------------------------
(* Crash, and the restart's synchronize_locked_balances *)

\* MUTANTS of OpenOrders: only bids are summed, or filled orders too.
OpenBids == {o \in Orders : IsOpen(o) /\ orders[o].side = "bid"}
LiveOrders == {o \in Orders : orders[o].state \in {"wait", "done"}}

OpenOrders == {o \in Orders : IsOpen(o)}

\* Everything but the two tables is lost.
Crash ==
  /\ MayCrash
  /\ mutex' = NoThread
  /\ pc' = [t \in Threads |-> "idle"]
  /\ dto' = [t \in Threads |-> Blank]
  /\ uuid' = [t \in Threads |-> NoOrder]
  /\ phase' = "sync" /\ unread' = OpenOrders /\ expected' = ZeroLocks
  /\ UNCHANGED <<dbVars, published>>

AddLock(o) ==
  /\ phase = "sync" /\ o \in unread
  /\ unread' = unread \ {o}
  /\ expected' = [expected EXCEPT ![LockCurrency(orders[o])] = @ + orders[o].locked]
  /\ UNCHANGED <<dbVars, threadVars, phase>>

\* Total funds are kept and the locked part becomes what the orders say; a
\* balance that would be negative becomes zero.
SyncAsset(c) ==
  /\ phase = "sync" /\ unread = {}
  /\ assets[c].locked # expected[c]
  /\ assets' = [assets EXCEPT ![c] =
                  [balance |-> AtLeastZero(@.balance + @.locked - expected[c]),
                   locked  |-> expected[c]]]
  /\ UNCHANGED <<orders, threadVars, bootVars>>

\* AccountDBManager.init: an account with nothing in it is funded (again); the
\* manager then reads every asset for its display.
Start ==
  /\ phase = "sync" /\ unread = {}
  /\ \A c \in Currencies : assets[c].locked = expected[c]
  /\ LET empty == \A c \in Currencies : assets[c].balance + assets[c].locked = 0
     IN  assets' = IF empty THEN [assets EXCEPT ![KRW] = Credited(@, InitialBalance)]
                   ELSE assets
  /\ published' = assets'
  /\ phase' = "run" /\ expected' = ZeroLocks
  /\ UNCHANGED <<orders, mutex, pc, dto, uuid, unread>>

----------------------------------------------------------------------------
\* The bound of the model: an order is begun only when a uuid is left for it.
UuidLeft == Cardinality({u \in Threads : pc[u] \in {"lock", "save"}})
              < Cardinality({o \in Orders : orders[o].state = "none"})

CreateOrder(t) ==
  UuidLeft /\ \E r \in Requests : CreateAsk(t, r) \/ \E ask \in Prices : CreateBid(t, r, ask)

\* One order book: the top ask is never below the top bid.
OrderBook == \E o \in Orders, ask, bid \in Prices : bid <= ask /\ CheckOrders(o, ask, bid)

\* What a thread that has begun an operation does next.
Continue(t) ==
  \/ LockAsset(t) \/ SaveOrder(t)
  \/ UnlockAsset(t)
  \/ CompleteOrder(t) \/ SettleBase(t) \/ SettleUnit(t)

Recover == Start \/ (\E o \in Orders : AddLock(o)) \/ (\E c \in Currencies : SyncAsset(c))

Next ==
  \/ \E t \in Threads : CreateOrder(t) \/ Continue(t) \/ \E o \in Orders : CancelOrder(t, o)
  \/ OrderBook
  \/ Crash
  \/ Recover

Spec == Init /\ [][Next]_vars

\* Threads go on with what they have begun.  Order books keep coming, and the
\* main loop's queue is first in, first out, so other tasks cannot keep it from
\* an order book for ever (SF).  Nobody has to place or cancel an order.
Fairness == /\ \A t \in Threads : WF_vars(Continue(t))
            /\ SF_vars(OrderBook)

FairSpec == Spec /\ Fairness

----------------------------------------------------------------------------
(* Properties *)

\* Every table and every thread's memory keeps its shape; no balance and no
\* locked amount is ever negative.  (AssetDTO, OrderDTO, and the guards and
\* clamps of lock_asset, unlock_asset and process_order_complete.)
TypeOK ==
  /\ assets \in [Currencies -> Asset]
  /\ orders \in [Orders -> OrderRow]
  /\ mutex \in Threads \cup {NoThread}
  /\ pc \in [Threads -> Steps]
  /\ dto \in [Threads -> OrderRow]
  /\ uuid \in [Threads -> Orders \cup {NoOrder}]
  /\ published \in [Currencies -> Asset]
  /\ phase \in {"run", "sync"}
  /\ unread \subseteq Orders
  /\ expected \in [Currencies -> Nat]

\* What the open orders say is locked of a currency.
OpenLocks(c) ==
  SumFunctionOnSet([o \in Orders |-> orders[o].locked],
                   {o \in Orders : orders[o].state = "wait" /\ LockCurrency(orders[o]) = c})

\* What operations in progress still hold: locked and not yet in a row, or in a
\* row that is no longer open and not yet given back or consumed.
Holding(t) ==
  \/ pc[t] \in {"save", "unlock", "base"}
  \/ pc[t] = "unit" /\ dto[t].side = "bid"
InFlight(c) ==
  SumFunctionOnSet([t \in Threads |-> dto[t].locked],
                   {t \in Threads : Holding(t) /\ LockCurrency(dto[t]) = c})

\* No phantom locks: whatever the threads interleave, and after any restart, no
\* more of a currency is locked than orders and operations in progress account
\* for.  (lock_asset, unlock_asset, process_order_complete, the sync at start.)
NoPhantomLock ==
  phase = "run" => \A c \in Currencies : assets[c].locked <= OpenLocks(c) + InFlight(c)

\* Coins locked are exactly those of open asks: a sale's lock is neither lost
\* nor left behind.  (create_order, cancel_order and the ask branch of
\* process_order_complete.)
CoinLocksExact ==
  phase = "run" => \A c \in Currencies \ {KRW} : assets[c].locked = OpenLocks(c) + InFlight(c)

\* The same of KRW: what is locked is what the open bids have locked.  This is
\* what line 142 of dbupbit.py asks for.
KrwLocksExact ==
  phase = "run" => assets[KRW].locked = OpenLocks(KRW) + InFlight(KRW)

\* Volume of the done orders of one side, over the markets of a coin.
Traded(side, c) ==
  SumFunctionOnSet([o \in Orders |-> orders[o].volume],
                   {o \in Orders : /\ orders[o].state = "done" /\ orders[o].side = side
                                  /\ Base[orders[o].market] = c})

\* Coins balance against the order history: between operations, the coins held,
\* free or locked, are those bought less those sold by orders that are done.
\* (process_order_complete against the rows of the orders table.)
CoinBooksBalance ==
  phase = "run" /\ MutexFree =>
    \A c \in Currencies \ {KRW} :
      assets[c].balance + assets[c].locked = Traded("bid", c) - Traded("ask", c)

\* The coins of the account are those of its orders, locked and in all.
CoinsAddUp == CoinLocksExact /\ CoinBooksBalance

\* Whoever reads the events knows the account: when no thread is inside the
\* lock, the last myAsset event of a currency carries what its row holds.
\* (the events lock_asset, unlock_asset and process_order_complete emit.)
EventsTellTheAssets == phase = "run" /\ MutexFree => published = assets

\* A restart leaves the locked amounts equal to those of the open orders,
\* wherever the crash fell.  (synchronize_locked_balances.)
RestartMatchesOrders ==
  [][phase = "sync" /\ phase' = "run" =>
       \A c \in Currencies : assets'[c].locked = OpenLocks(c)']_vars

\* A filled order is settled: its row never changes again, so it is filled at
\* most once and never cancelled.  (process_order_complete takes an order that
\* was read before the lock; cancel_order reads the state under it.)
DoneIsFinal ==
  [][\A o \in Orders : orders[o].state = "done" => orders'[o] = orders[o]]_vars

\* A cancelled order stays cancelled, and is never filled afterwards.
CancelIsFinal ==
  [][\A o \in Orders : orders[o].state = "cancel" => orders'[o] = orders[o]]_vars

\* A market order does not stay open: with order books coming in it is filled,
\* unless it is cancelled.  (check_and_execute_orders fills one order a time.)
MarketOrdersExecute ==
  \A o \in Orders :
    (orders[o].state = "wait" /\ orders[o].type = "market")
      ~> orders[o].state \in {"done", "cancel"}
=============================================================================
