--------------------------- MODULE AccountProofs ---------------------------
(***************************************************************************)
(* What TLAPS proves of the account for any threads, markets, orders,      *)
(* prices and requests: amounts never go negative, events tell what the    *)
(* tables hold, a filled order is final, a restart's locks are those of    *)
(* the open orders, no more is locked than is accounted for; and of one    *)
(* thread, that its coins are locked and booked exactly.                   *)
(***************************************************************************)
EXTENDS Account, SumProofs, TLAPS

LEMMA CostNat == ASSUME NEW p \in Nat, NEW v \in Nat
                 PROVE  Cost(p, v) \in Nat /\ Proceeds(p, v) \in Nat
<1>1. p * v \in Nat
  OBVIOUS
<1>2. FeeDen + FeeNum \in Nat /\ FeeDen - FeeNum \in Nat
  BY AccountAssumption
<1>3. \A a, b \in Nat : a * b \in Nat
  OBVIOUS
<1>. QED  BY <1>1, <1>2, <1>3 DEF Cost, Proceeds

LEMMA BlankRow == Blank \in OrderRow /\ Blank.state = "none"
<1>1. (CHOOSE m \in Markets : TRUE) \in Markets
  BY AccountAssumption
<1>. QED  BY <1>1 DEF Blank, OrderRow

\* The arithmetic of the account keeps an asset an asset.
LEMMA AssetArithmetic ==
  ASSUME NEW a \in Asset, NEW n \in Nat, NEW o \in OrderRow
  PROVE  /\ Unlocked(a, n) \in Asset
         /\ Credited(a, n) \in Asset
         /\ n <= a.balance => Locked(a, n) \in Asset
         /\ BidSettled(a, o) \in Asset
         /\ AskConsumed(a, o) \in Asset
<1>1. Cost(o.price, o.volume) \in Nat
  BY CostNat DEF OrderRow
<1>2. o.locked \in Nat /\ a.balance \in Nat /\ a.locked \in Nat
  BY DEF OrderRow, Asset
<1>3. Unlocked(a, n) \in Asset
  BY <1>2 DEF Unlocked, AtLeastZero, Asset
<1>4. Credited(a, n) \in Asset
  BY <1>2 DEF Credited, Asset
<1>5. n <= a.balance => Locked(a, n) \in Asset
  BY <1>2 DEF Locked, Asset
<1>6. BidSettled(a, o) \in Asset
  BY <1>1, <1>2 DEF BidSettled, AtLeastZero, Asset
<1>7. AskConsumed(a, o) \in Asset
  BY <1>2 DEF AskConsumed, AtLeastZero, Asset
<1>. QED  BY <1>3, <1>4, <1>5, <1>6, <1>7

----------------------------------------------------------------------------
\* The orders create_order builds are rows.
LEMMA NewOrderRow ==
  ASSUME NEW r \in Requests, NEW p \in Nat, NEW v \in Nat, NEW n \in Nat
  PROVE  NewOrder(r, p, v, n) \in OrderRow
BY AccountAssumption DEF NewOrder, OrderRow, Request

\* A row moved to another state, or given another price, is a row.
LEMMA RowUpdate ==
  ASSUME NEW r \in OrderRow, NEW p \in Nat
  PROVE  /\ [r EXCEPT !.state = "done"] \in OrderRow
         /\ [r EXCEPT !.state = "cancel"] \in OrderRow
         /\ [r EXCEPT !.price = p] \in OrderRow
BY DEF OrderRow

LEMMA TypeInit == Init => TypeOK
BY BlankRow, AccountAssumption DEF Init, TypeOK, Asset, Steps, ZeroLocks

LEMMA TypeNext == TypeOK /\ [Next]_vars => TypeOK'
<1> SUFFICES ASSUME TypeOK, [Next]_vars PROVE TypeOK'
  OBVIOUS
<1> USE AccountAssumption DEF TypeOK
<1>1. ASSUME NEW t \in Threads, NEW r \in Requests, NEW ask \in Prices, CreateBid(t, r, ask)
      PROVE  TypeOK'
  <2>1. r.price \in Nat /\ r.volume \in Nat /\ ask \in Nat
    BY DEF Request
  <2> DEFINE price == IF r.type = "limit" THEN r.price ELSE ask
  <2>2. price \in Nat /\ Cost(price, r.volume) \in Nat
    BY <2>1, CostNat
  <2>3. NewOrder(r, price, r.volume, Cost(price, r.volume)) \in OrderRow
    BY <2>1, <2>2, NewOrderRow
  <2>. QED  BY <1>1, <2>3 DEF CreateBid, Goto, dbVars, bootVars, Steps
<1>2. ASSUME NEW t \in Threads, NEW r \in Requests, CreateAsk(t, r)
      PROVE  TypeOK'
  <2> DEFINE balance == assets[Base[r.market]].balance
             volume  == IF r.volume > balance /\ r.volume - balance < ClampTolerance
                        THEN balance ELSE r.volume
  <2>1. r.price \in Nat /\ r.volume \in Nat /\ balance \in Nat
    BY DEF Request, Asset
  <2>2. volume \in Nat
    BY <2>1
  <2>3. NewOrder(r, r.price, volume, volume) \in OrderRow
    BY <2>1, <2>2, NewOrderRow
  <2>. QED  BY <1>2, <2>3 DEF CreateAsk, Goto, dbVars, bootVars, Steps
<1>3. ASSUME NEW t \in Threads, LockAsset(t)
      PROVE  TypeOK'
  <2> DEFINE c == LockCurrency(dto[t])
             amount == dto[t].locked
  <2>1. dto[t] \in OrderRow /\ c \in Currencies /\ amount \in Nat
    BY DEF LockCurrency, OrderRow
  <2>2. CASE amount = 0 /\ UNCHANGED <<assets, published, dto, uuid>> /\ Goto(t, "save")
    BY <1>3, <2>2 DEF LockAsset, Goto, bootVars, Steps
  <2>3. CASE /\ assets[c].balance >= amount
             /\ assets' = [assets EXCEPT ![c] = Locked(@, amount)]
             /\ Publish({c}) /\ Goto(t, "save") /\ UNCHANGED <<dto, uuid>>
    <3>1. Locked(assets[c], amount) \in Asset
      BY <2>1, <2>3, AssetArithmetic DEF Asset
    <3>. QED  BY <1>3, <2>1, <2>3, <3>1 DEF LockAsset, Publish, Goto, bootVars, Steps
  <2>4. CASE Return(t) /\ UNCHANGED <<assets, published>>
    BY <1>3, <2>4, BlankRow DEF LockAsset, Return, Goto, bootVars, Steps
  <2>. QED  BY <1>3, <2>2, <2>3, <2>4 DEF LockAsset
<1>4. ASSUME NEW t \in Threads, SaveOrder(t)
      PROVE  TypeOK'
  BY <1>4, BlankRow DEF SaveOrder, Return, Goto, bootVars, Steps
<1>5. ASSUME NEW t \in Threads, NEW o \in Orders, CancelOrder(t, o)
      PROVE  TypeOK'
  <2>1. [orders[o] EXCEPT !.state = "cancel"] \in OrderRow
    BY RowUpdate
  <2>. QED  BY <1>5, <2>1 DEF CancelOrder, Goto, bootVars, Steps
<1>6. ASSUME NEW t \in Threads, UnlockAsset(t)
      PROVE  TypeOK'
  <2> DEFINE c == LockCurrency(dto[t])
  <2>1. dto[t] \in OrderRow /\ c \in Currencies /\ dto[t].locked \in Nat
    BY DEF LockCurrency, OrderRow
  <2>2. Unlocked(assets[c], dto[t].locked) \in Asset
    BY <2>1, AssetArithmetic
  <2>. QED  BY <1>6, <2>1, <2>2, BlankRow DEF UnlockAsset, Publish, Return, Goto, bootVars, Steps
<1>7. ASSUME NEW o \in Orders, NEW ask \in Prices, NEW bid \in Prices, CheckOrders(o, ask, bid)
      PROVE  TypeOK'
  <2>1. ExecutionPrice(orders[o], ask, bid) \in Nat
    BY DEF ExecutionPrice
  <2>2. [orders[o] EXCEPT !.price = ExecutionPrice(orders[o], ask, bid)] \in OrderRow
    BY <2>1, RowUpdate
  <2>. QED  BY <1>7, <2>2 DEF CheckOrders, Goto, dbVars, bootVars, Steps
<1>8. ASSUME NEW t \in Threads, CompleteOrder(t)
      PROVE  TypeOK'
  <2>1. [dto[t] EXCEPT !.state = "done"] \in OrderRow
    BY RowUpdate
  <2>. QED  BY <1>8, <2>1 DEF CompleteOrder, Goto, bootVars, Steps
<1>9. ASSUME NEW t \in Threads, SettleBase(t)
      PROVE  TypeOK'
  <2> DEFINE c == Base[dto[t].market]
  <2>1. dto[t] \in OrderRow /\ c \in Currencies /\ dto[t].volume \in Nat
    BY DEF OrderRow
  <2>2. Credited(assets[c], dto[t].volume) \in Asset /\ AskConsumed(assets[c], dto[t]) \in Asset
    BY <2>1, AssetArithmetic
  <2>. QED  BY <1>9, <2>1, <2>2 DEF SettleBase, Goto, bootVars, Steps
<1>10. ASSUME NEW t \in Threads, SettleUnit(t)
       PROVE  TypeOK'
  <2>1. dto[t] \in OrderRow /\ Proceeds(dto[t].price, dto[t].volume) \in Nat
    BY CostNat DEF OrderRow
  <2>2. /\ Credited(assets[KRW], Proceeds(dto[t].price, dto[t].volume)) \in Asset
        /\ BidSettled(assets[KRW], dto[t]) \in Asset
    BY <2>1, AssetArithmetic
  <2>. QED  BY <1>10, <2>2, BlankRow DEF SettleUnit, Publish, Return, Goto, bootVars, Steps
<1>11. CASE Crash
  BY <1>11, BlankRow DEF Crash, OpenOrders, ZeroLocks, dbVars, Steps
<1>12. ASSUME NEW o \in Orders, AddLock(o)
       PROVE  TypeOK'
  <2>1. LockCurrency(orders[o]) \in Currencies /\ orders[o].locked \in Nat
    BY DEF LockCurrency, OrderRow
  <2>. QED  BY <1>12, <2>1 DEF AddLock, dbVars, threadVars
<1>13. ASSUME NEW c \in Currencies, SyncAsset(c)
       PROVE  TypeOK'
  <2>1. [balance |-> AtLeastZero(assets[c].balance + assets[c].locked - expected[c]),
         locked |-> expected[c]] \in Asset
    BY DEF AtLeastZero, Asset
  <2>. QED  BY <1>13, <2>1 DEF SyncAsset, threadVars, bootVars
<1>14. CASE Start
  <2>1. Credited(assets[KRW], InitialBalance) \in Asset
    BY AssetArithmetic
  <2>. QED  BY <1>14, <2>1 DEF Start, ZeroLocks
<1>15. CASE UNCHANGED vars
  BY <1>15 DEF vars, dbVars, threadVars, bootVars
<1>. QED
  BY <1>1, <1>2, <1>3, <1>4, <1>5, <1>6, <1>7, <1>8, <1>9, <1>10, <1>11, <1>12, <1>13, <1>14, <1>15
  DEF Next, CreateOrder, Continue, OrderBook, Recover

\* No balance and no locked amount is ever negative, whatever the threads do
\* and wherever a crash falls.
THEOREM AccountTypeOK == Spec => []TypeOK
<1>. QED  BY TypeInit, TypeNext, PTL DEF Spec

----------------------------------------------------------------------------
(* A filled order is final *)

\* The order the main loop is about to fill has not been filled: between the
\* unlocked read and the locked write it may have been cancelled, but only the
\* main loop itself could have filled it.
FillInv ==
  \A t \in Threads : pc[t] = "complete" =>
    /\ t = MainLoop /\ uuid[t] \in Orders
    /\ orders[uuid[t]].state \in {"wait", "cancel"}

LEMMA FillInit == Init => FillInv
BY DEF Init, FillInv

LEMMA FillNext == TypeOK /\ FillInv /\ [Next]_vars => FillInv'
<1> SUFFICES ASSUME TypeOK, FillInv, [Next]_vars PROVE FillInv'
  OBVIOUS
<1> USE AccountAssumption DEF TypeOK, FillInv, Goto, Return
<1>1. ASSUME NEW t \in Threads, CreateOrder(t)
      PROVE  FillInv'
  BY <1>1 DEF CreateOrder, CreateBid, CreateAsk, dbVars
<1>2. ASSUME NEW t \in Threads, LockAsset(t) \/ UnlockAsset(t) \/ SettleBase(t) \/ SettleUnit(t)
      PROVE  FillInv'
  BY <1>2 DEF LockAsset, UnlockAsset, SettleBase, SettleUnit
<1>3. ASSUME NEW t \in Threads, SaveOrder(t)
      PROVE  FillInv'
  BY <1>3 DEF SaveOrder
<1>4. ASSUME NEW t \in Threads, NEW o \in Orders, CancelOrder(t, o)
      PROVE  FillInv'
  <2>1. orders'[o].state = "cancel"
    BY <1>4 DEF CancelOrder, OrderRow
  <2>. QED  BY <1>4, <2>1 DEF CancelOrder
<1>5. ASSUME NEW o \in Orders, NEW ask \in Prices, NEW bid \in Prices, CheckOrders(o, ask, bid)
      PROVE  FillInv'
  BY <1>5 DEF CheckOrders, IsOpen, dbVars
<1>6. ASSUME NEW t \in Threads, CompleteOrder(t)
      PROVE  FillInv'
  <2> SUFFICES ASSUME NEW u \in Threads, pc'[u] = "complete"
               PROVE  FALSE
    BY <1>6 DEF CompleteOrder
  <2>1. t = MainLoop /\ pc'[t] = "base"
    BY <1>6 DEF CompleteOrder
  <2>. QED  BY <1>6, <2>1 DEF CompleteOrder
<1>7. CASE Crash
  BY <1>7 DEF Crash
<1>8. CASE Recover
  BY <1>8 DEF Recover, AddLock, SyncAsset, Start, dbVars, threadVars
<1>9. CASE UNCHANGED vars
  BY <1>9 DEF vars, dbVars, threadVars
<1> HIDE DEF TypeOK, FillInv, Goto, Return
<1>. QED
  BY <1>1, <1>2, <1>3, <1>4, <1>5, <1>6, <1>7, <1>8, <1>9
  DEF Next, Continue, OrderBook

\* A step of the account leaves every filled row as it is.
LEMMA DoneStep ==
  TypeOK /\ FillInv /\ [Next]_vars =>
    \A o \in Orders : orders[o].state = "done" => orders'[o] = orders[o]
<1> SUFFICES ASSUME TypeOK, FillInv, [Next]_vars, NEW o \in Orders, orders[o].state = "done"
             PROVE  orders'[o] = orders[o]
  OBVIOUS
<1> USE AccountAssumption DEF TypeOK
<1>1. ASSUME NEW t \in Threads, SaveOrder(t)
      PROVE  orders'[o] = orders[o]
  BY <1>1 DEF SaveOrder
<1>2. ASSUME NEW t \in Threads, NEW p \in Orders, CancelOrder(t, p)
      PROVE  orders'[o] = orders[o]
  BY <1>2 DEF CancelOrder, Cancellable
<1>3. ASSUME NEW t \in Threads, CompleteOrder(t)
      PROVE  orders'[o] = orders[o]
  BY <1>3 DEF CompleteOrder, FillInv
<1>4. ASSUME ~ \E t \in Threads : SaveOrder(t) \/ CompleteOrder(t) \/ \E p \in Orders : CancelOrder(t, p)
      PROVE  UNCHANGED orders
  BY <1>4 DEF Next, CreateOrder, CreateBid, CreateAsk, Continue, LockAsset, UnlockAsset, SettleBase,
              SettleUnit, OrderBook, CheckOrders, Crash, Recover, AddLock, SyncAsset, Start,
              vars, dbVars
<1>. QED  BY <1>1, <1>2, <1>3, <1>4

\* An order is filled at most once and never cancelled after it was filled.
THEOREM AccountDoneIsFinal == Spec => DoneIsFinal
<1>1. Spec => []FillInv
  BY FillInit, FillNext, AccountTypeOK, PTL DEF Spec
<1>. QED  BY <1>1, DoneStep, AccountTypeOK, PTL DEF Spec, DoneIsFinal

----------------------------------------------------------------------------
(* With one thread, a cancelled order is final too *)

\* The order being filled is still open: nobody else could have cancelled it.
SoleFillInv == pc[MainLoop] = "complete" => orders[uuid[MainLoop]].state = "wait"

LEMMA SoleFillNext ==
  ASSUME Threads = {MainLoop}
  PROVE  TypeOK /\ FillInv /\ SoleFillInv /\ [Next]_vars => SoleFillInv'
<1> SUFFICES ASSUME TypeOK, FillInv, SoleFillInv, [Next]_vars PROVE SoleFillInv'
  OBVIOUS
<1> USE AccountAssumption DEF TypeOK, SoleFillInv, FillInv, Goto, Return
<1>1. ASSUME NEW o \in Orders, NEW ask \in Prices, NEW bid \in Prices, CheckOrders(o, ask, bid)
      PROVE  SoleFillInv'
  BY <1>1 DEF CheckOrders, IsOpen, dbVars
<1>2. CASE UNCHANGED <<pc, orders, uuid>>
  BY <1>2
<1>3. ASSUME pc'[MainLoop] # "complete"
      PROVE  SoleFillInv'
  BY <1>3
<1>4. ASSUME NEW t \in Threads, Continue(t) \/ CreateOrder(t) \/ \E o \in Orders : CancelOrder(t, o)
      PROVE  pc'[MainLoop] # "complete"
  <2>1. t = MainLoop
    OBVIOUS
  <2>. QED  BY <1>4, <2>1
            DEF Continue, CreateOrder, CreateBid, CreateAsk, LockAsset, SaveOrder, UnlockAsset,
                CompleteOrder, SettleBase, SettleUnit, CancelOrder
<1>5. CASE Recover
  BY <1>5 DEF Recover, AddLock, SyncAsset, Start, dbVars, threadVars
<1>6. CASE Crash
  BY <1>6 DEF Crash
<1>7. CASE UNCHANGED vars
  BY <1>7 DEF vars, dbVars, threadVars
<1>. QED
  BY <1>1, <1>2, <1>3, <1>4, <1>5, <1>6, <1>7 DEF Next, OrderBook

LEMMA SoleFill == ASSUME Threads = {MainLoop} PROVE Spec => []SoleFillInv
<1>1. Spec => []FillInv
  BY FillInit, FillNext, AccountTypeOK, PTL DEF Spec
<1>2. Init => SoleFillInv
  BY AccountAssumption DEF Init, SoleFillInv
<1>. QED  BY <1>1, <1>2, SoleFillNext, AccountTypeOK, PTL DEF Spec

LEMMA CancelStep ==
  ASSUME Threads = {MainLoop}
  PROVE  TypeOK /\ FillInv /\ SoleFillInv /\ [Next]_vars =>
           \A o \in Orders : orders[o].state = "cancel" => orders'[o] = orders[o]
<1> SUFFICES ASSUME TypeOK, FillInv, SoleFillInv, [Next]_vars,
                    NEW o \in Orders, orders[o].state = "cancel"
             PROVE  orders'[o] = orders[o]
  OBVIOUS
<1> USE AccountAssumption DEF TypeOK
<1>1. ASSUME NEW t \in Threads, SaveOrder(t)
      PROVE  orders'[o] = orders[o]
  BY <1>1 DEF SaveOrder
<1>2. ASSUME NEW t \in Threads, NEW p \in Orders, CancelOrder(t, p)
      PROVE  orders'[o] = orders[o]
  BY <1>2 DEF CancelOrder, Cancellable
<1>3. ASSUME NEW t \in Threads, CompleteOrder(t)
      PROVE  orders'[o] = orders[o]
  BY <1>3 DEF CompleteOrder, SoleFillInv
<1>4. ASSUME ~ \E t \in Threads : SaveOrder(t) \/ CompleteOrder(t) \/ \E p \in Orders : CancelOrder(t, p)
      PROVE  UNCHANGED orders
  BY <1>4 DEF Next, CreateOrder, CreateBid, CreateAsk, Continue, LockAsset, UnlockAsset, SettleBase,
              SettleUnit, OrderBook, CheckOrders, Crash, Recover, AddLock, SyncAsset, Start,
              vars, dbVars
<1>. QED  BY <1>1, <1>2, <1>3, <1>4

\* If only the main loop calls the account, crashes included, a cancelled order
\* is never filled: the second thread is what breaks it.
THEOREM SoleThreadCancelIsFinal ==
  ASSUME Threads = {MainLoop}
  PROVE  Spec => CancelIsFinal
<1>1. Spec => []FillInv
  BY FillInit, FillNext, AccountTypeOK, PTL DEF Spec
<1>. QED  BY <1>1, SoleFill, CancelStep, AccountTypeOK, PTL DEF Spec, CancelIsFinal

----------------------------------------------------------------------------
(* Events tell what the tables hold *)

\* The thread inside the lock is the one whose program counter says so, and
\* until a fill has saved its second asset only the first one is unannounced.
EventInv ==
  /\ \A t \in Threads : pc[t] \in {"unlock", "base", "unit"} <=> mutex = t
  /\ phase = "run" =>
       \A c \in Currencies :
         \/ published[c] = assets[c]
         \/ \E t \in Threads : pc[t] = "unit" /\ c = Base[dto[t].market]

LEMMA EventInit == Init => EventInv
BY AccountAssumption DEF Init, EventInv

LEMMA EventNext == TypeOK /\ EventInv /\ [Next]_vars => EventInv'
<1> SUFFICES ASSUME TypeOK, EventInv, [Next]_vars PROVE EventInv'
  OBVIOUS
<1> USE AccountAssumption DEF TypeOK, EventInv, Goto, Return, MutexFree
<1>1. ASSUME NEW t \in Threads, CreateOrder(t)
      PROVE  EventInv'
  BY <1>1 DEF CreateOrder, CreateBid, CreateAsk, Idle, dbVars, bootVars
<1>2. ASSUME NEW t \in Threads, LockAsset(t)
      PROVE  EventInv'
  BY <1>2 DEF LockAsset, Publish, bootVars
<1>3. ASSUME NEW t \in Threads, SaveOrder(t)
      PROVE  EventInv'
  BY <1>3 DEF SaveOrder, bootVars
<1>4. ASSUME NEW t \in Threads, NEW o \in Orders, CancelOrder(t, o)
      PROVE  EventInv'
  BY <1>4 DEF CancelOrder, Idle, bootVars
<1>5. ASSUME NEW t \in Threads, UnlockAsset(t)
      PROVE  EventInv'
  BY <1>5 DEF UnlockAsset, Publish, bootVars
<1>6. ASSUME NEW o \in Orders, NEW ask \in Prices, NEW bid \in Prices, CheckOrders(o, ask, bid)
      PROVE  EventInv'
  BY <1>6 DEF CheckOrders, Idle, dbVars, bootVars
<1>7. ASSUME NEW t \in Threads, CompleteOrder(t)
      PROVE  EventInv'
  BY <1>7 DEF CompleteOrder, bootVars
<1>8. ASSUME NEW t \in Threads, SettleBase(t)
      PROVE  EventInv'
  BY <1>8 DEF SettleBase, bootVars
<1>9. ASSUME NEW t \in Threads, SettleUnit(t)
      PROVE  EventInv'
  BY <1>9 DEF SettleUnit, Publish, bootVars
<1>10. CASE Crash
  BY <1>10 DEF Crash
<1>11. CASE Recover
  BY <1>11 DEF Recover, AddLock, SyncAsset, Start, dbVars, threadVars, bootVars
<1>12. CASE UNCHANGED vars
  BY <1>12 DEF vars, dbVars, threadVars, bootVars
<1> HIDE DEF TypeOK, EventInv, Goto, Return, MutexFree
<1>. QED
  BY <1>1, <1>2, <1>3, <1>4, <1>5, <1>6, <1>7, <1>8, <1>9, <1>10, <1>11, <1>12
  DEF Next, Continue, OrderBook

\* When nobody is inside the lock, the events sent so far add up to the table.
THEOREM AccountEvents == Spec => []EventsTellTheAssets
<1>1. TypeOK /\ EventInv => EventsTellTheAssets
  <2> SUFFICES ASSUME TypeOK, EventInv, phase = "run", MutexFree
               PROVE  published = assets
    BY DEF EventsTellTheAssets
  <2>1. \A t \in Threads : pc[t] # "unit"
    BY AccountAssumption DEF EventInv, MutexFree
  <2>2. \A c \in Currencies : published[c] = assets[c]
    BY <2>1 DEF EventInv
  <2>. QED  BY <2>2 DEF TypeOK
<1>. QED  BY <1>1, EventInit, EventNext, AccountTypeOK, PTL DEF Spec

----------------------------------------------------------------------------
(* No phantom locks.  What is locked of a currency is compared with what    *)
(* the rows and the threads owe of it; a step changes one row or one thread, *)
(* and so each of the two sums by one summand.                              *)

\* What a row has locked of a currency, and what a thread holds of it.
OpenOf(r, c) == IF r.state = "wait" /\ LockCurrency(r) = c THEN r.locked ELSE 0
HeldOf(step, r, c) ==
  IF /\ step \in {"save", "unlock", "base"} \/ (step = "unit" /\ r.side = "bid")
     /\ LockCurrency(r) = c
  THEN r.locked ELSE 0

OpenSum(rows, c) == SumFunctionOnSet([o \in Orders |-> OpenOf(rows[o], c)], Orders)
HeldSum(steps, rows, c) == SumFunctionOnSet([t \in Threads |-> HeldOf(steps[t], rows[t], c)], Threads)
Owed(c) == OpenSum(orders, c) + HeldSum(pc, dto, c)

LEMMA SummandsNat ==
  ASSUME NEW r \in OrderRow, NEW c, NEW step
  PROVE  OpenOf(r, c) \in Nat /\ HeldOf(step, r, c) \in Nat
BY DEF OpenOf, HeldOf, OrderRow

LEMMA OpenSums ==
  ASSUME NEW rows \in [Orders -> OrderRow], NEW c
  PROVE  /\ OpenSum(rows, c) \in Nat
         /\ \A o \in Orders : OpenOf(rows[o], c) <= OpenSum(rows, c)
         /\ SumFunctionOnSet([o \in Orders |-> rows[o].locked],
              {o \in Orders : rows[o].state = "wait" /\ LockCurrency(rows[o]) = c}) = OpenSum(rows, c)
<1> DEFINE f == [o \in Orders |-> rows[o].locked]
           g == [o \in Orders |-> OpenOf(rows[o], c)]
           T == {o \in Orders : rows[o].state = "wait" /\ LockCurrency(rows[o]) = c}
<1>1. \A o \in Orders : f[o] \in Int /\ g[o] \in Nat
  BY SummandsNat DEF OrderRow
<1>2. \A o \in T : f[o] \in Int /\ g[o] = f[o]
  BY DEF OrderRow, OpenOf
<1>3. \A o \in Orders \ T : g[o] = 0
  BY DEF OpenOf
<1>4. T \in SUBSET Orders
  OBVIOUS
<1>5. SumFunctionOnSet(f, T) = SumFunctionOnSet(g, Orders)
  <2> HIDE DEF f, g, T
  <2>. QED  BY <1>2, <1>3, <1>4, FiniteAssumption, SumFilter
<1>6. /\ SumFunctionOnSet(g, Orders) \in Nat
      /\ \A o \in Orders : g[o] <= SumFunctionOnSet(g, Orders)
  <2> HIDE DEF g
  <2>. QED  BY <1>1, FiniteAssumption, SumNat
<1>7. \A o \in Orders : g[o] = OpenOf(rows[o], c)
  OBVIOUS
<1>8. SumFunctionOnSet(g, Orders) = OpenSum(rows, c)
  BY DEF OpenSum
<1> HIDE DEF g
<1>. QED  BY <1>5, <1>6, <1>7, <1>8

LEMMA HeldSums ==
  ASSUME NEW steps \in [Threads -> Steps], NEW rows \in [Threads -> OrderRow], NEW c
  PROVE  /\ HeldSum(steps, rows, c) \in Nat
         /\ \A t \in Threads : HeldOf(steps[t], rows[t], c) <= HeldSum(steps, rows, c)
         /\ SumFunctionOnSet([t \in Threads |-> rows[t].locked],
              {t \in Threads : /\ \/ steps[t] \in {"save", "unlock", "base"}
                                  \/ steps[t] = "unit" /\ rows[t].side = "bid"
                               /\ LockCurrency(rows[t]) = c}) = HeldSum(steps, rows, c)
<1> DEFINE f == [t \in Threads |-> rows[t].locked]
           g == [t \in Threads |-> HeldOf(steps[t], rows[t], c)]
           T == {t \in Threads : /\ \/ steps[t] \in {"save", "unlock", "base"}
                                    \/ steps[t] = "unit" /\ rows[t].side = "bid"
                                 /\ LockCurrency(rows[t]) = c}
<1>1. \A t \in Threads : f[t] \in Int /\ g[t] \in Nat
  BY SummandsNat DEF OrderRow
<1>2. \A t \in T : f[t] \in Int /\ g[t] = f[t]
  <2> SUFFICES ASSUME NEW t \in T PROVE f[t] \in Int /\ g[t] = f[t]
    OBVIOUS
  <2>1. /\ t \in Threads /\ LockCurrency(rows[t]) = c
        /\ steps[t] \in {"save", "unlock", "base"} \/ (steps[t] = "unit" /\ rows[t].side = "bid")
    OBVIOUS
  <2>2. HeldOf(steps[t], rows[t], c) = rows[t].locked
    <3> HIDE DEF f, g, T
    <3>. QED  BY <2>1 DEF HeldOf
  <2>3. f[t] = rows[t].locked /\ g[t] = HeldOf(steps[t], rows[t], c)
    BY <2>1
  <2>. QED  BY <1>1, <2>1, <2>2, <2>3
<1>3. \A t \in Threads \ T : g[t] = 0
  BY DEF HeldOf
<1>4. T \in SUBSET Threads
  OBVIOUS
<1>5. SumFunctionOnSet(f, T) = SumFunctionOnSet(g, Threads)
  <2> HIDE DEF f, g, T
  <2>. QED  BY <1>2, <1>3, <1>4, FiniteAssumption, SumFilter
<1>6. /\ SumFunctionOnSet(g, Threads) \in Nat
      /\ \A t \in Threads : g[t] <= SumFunctionOnSet(g, Threads)
  <2> HIDE DEF g
  <2>. QED  BY <1>1, FiniteAssumption, SumNat
<1>7. \A t \in Threads : g[t] = HeldOf(steps[t], rows[t], c)
  OBVIOUS
<1>8. SumFunctionOnSet(g, Threads) = HeldSum(steps, rows, c)
  BY DEF HeldSum
<1> HIDE DEF g
<1>. QED  BY <1>5, <1>6, <1>7, <1>8

LEMMA OpenChange ==
  ASSUME NEW rows \in [Orders -> OrderRow], NEW rows2 \in [Orders -> OrderRow],
         NEW o \in Orders, \A p \in Orders \ {o} : rows2[p] = rows[p], NEW c
  PROVE  OpenSum(rows2, c) = OpenSum(rows, c) - OpenOf(rows[o], c) + OpenOf(rows2[o], c)
<1> DEFINE f == [p \in Orders |-> OpenOf(rows[p], c)]
           g == [p \in Orders |-> OpenOf(rows2[p], c)]
<1>1. \A p \in Orders : f[p] \in Int /\ g[p] \in Int
  BY SummandsNat
<1>2. \A p \in Orders \ {o} : f[p] = g[p]
  OBVIOUS
<1>3. f[o] = OpenOf(rows[o], c) /\ g[o] = OpenOf(rows2[o], c)
  OBVIOUS
<1>4. SumFunctionOnSet(g, Orders) = SumFunctionOnSet(f, Orders) - f[o] + g[o]
  <2> HIDE DEF f, g
  <2>. QED  BY <1>1, <1>2, FiniteAssumption, SumChange
<1>. QED  BY <1>3, <1>4 DEF OpenSum

LEMMA HeldChange ==
  ASSUME NEW steps \in [Threads -> Steps], NEW rows \in [Threads -> OrderRow],
         NEW steps2 \in [Threads -> Steps], NEW rows2 \in [Threads -> OrderRow], NEW t \in Threads,
         \A u \in Threads \ {t} : steps2[u] = steps[u] /\ rows2[u] = rows[u], NEW c
  PROVE  HeldSum(steps2, rows2, c)
           = HeldSum(steps, rows, c) - HeldOf(steps[t], rows[t], c) + HeldOf(steps2[t], rows2[t], c)
<1> DEFINE f == [u \in Threads |-> HeldOf(steps[u], rows[u], c)]
           g == [u \in Threads |-> HeldOf(steps2[u], rows2[u], c)]
<1>1. \A u \in Threads : f[u] \in Int /\ g[u] \in Int
  BY SummandsNat
<1>2. \A u \in Threads \ {t} : f[u] = g[u]
  OBVIOUS
<1>3. f[t] = HeldOf(steps[t], rows[t], c) /\ g[t] = HeldOf(steps2[t], rows2[t], c)
  OBVIOUS
<1>4. SumFunctionOnSet(g, Threads) = SumFunctionOnSet(f, Threads) - f[t] + g[t]
  <2> HIDE DEF f, g
  <2>. QED  BY <1>1, <1>2, FiniteAssumption, SumChange
<1>. QED  BY <1>3, <1>4 DEF HeldSum

\* A step of one thread changes what is held by that thread's summand, and a step on
\* one row what is open by that row's.
LEMMA HeldStep ==
  ASSUME TypeOK, TypeOK', NEW t \in Threads,
         \A u \in Threads \ {t} : pc'[u] = pc[u] /\ dto'[u] = dto[u], NEW c
  PROVE  /\ HeldSum(pc', dto', c)
              = HeldSum(pc, dto, c) - HeldOf(pc[t], dto[t], c) + HeldOf(pc'[t], dto'[t], c)
         /\ HeldSum(pc, dto, c) \in Nat /\ HeldOf(pc[t], dto[t], c) <= HeldSum(pc, dto, c)
         /\ HeldOf(pc[t], dto[t], c) \in Nat /\ HeldOf(pc'[t], dto'[t], c) \in Nat
<1>1. /\ pc \in [Threads -> Steps] /\ pc' \in [Threads -> Steps]
      /\ dto \in [Threads -> OrderRow] /\ dto' \in [Threads -> OrderRow]
  BY DEF TypeOK
<1>2. HeldOf(pc[t], dto[t], c) \in Nat /\ HeldOf(pc'[t], dto'[t], c) \in Nat
  BY <1>1, SummandsNat
<1>3. HeldSum(pc, dto, c) \in Nat /\ HeldOf(pc[t], dto[t], c) <= HeldSum(pc, dto, c)
  BY <1>1, HeldSums
<1>4. HeldSum(pc', dto', c)
        = HeldSum(pc, dto, c) - HeldOf(pc[t], dto[t], c) + HeldOf(pc'[t], dto'[t], c)
  BY <1>1, HeldChange
<1>. QED  BY <1>2, <1>3, <1>4

LEMMA OpenStep ==
  ASSUME TypeOK, TypeOK', NEW o \in Orders,
         \A p \in Orders \ {o} : orders'[p] = orders[p], NEW c
  PROVE  /\ OpenSum(orders', c)
              = OpenSum(orders, c) - OpenOf(orders[o], c) + OpenOf(orders'[o], c)
         /\ OpenSum(orders, c) \in Nat /\ OpenOf(orders[o], c) <= OpenSum(orders, c)
         /\ OpenOf(orders[o], c) \in Nat /\ OpenOf(orders'[o], c) \in Nat
<1>1. orders \in [Orders -> OrderRow] /\ orders' \in [Orders -> OrderRow]
  BY DEF TypeOK
<1>2. OpenOf(orders[o], c) \in Nat /\ OpenOf(orders'[o], c) \in Nat
  BY <1>1, SummandsNat
<1>3. OpenSum(orders, c) \in Nat /\ OpenOf(orders[o], c) <= OpenSum(orders, c)
  BY <1>1, OpenSums
<1>4. OpenSum(orders', c) = OpenSum(orders, c) - OpenOf(orders[o], c) + OpenOf(orders'[o], c)
  BY <1>1, OpenChange
<1>. QED  BY <1>2, <1>3, <1>4

LEMMA OwedSums ==
  ASSUME TypeOK, NEW c
  PROVE  /\ OpenSum(orders, c) \in Nat /\ HeldSum(pc, dto, c) \in Nat
         /\ OpenLocks(c) = OpenSum(orders, c) /\ InFlight(c) = HeldSum(pc, dto, c)
<1>1. orders \in [Orders -> OrderRow] /\ pc \in [Threads -> Steps] /\ dto \in [Threads -> OrderRow]
  BY DEF TypeOK
<1>2. OpenSum(orders, c) \in Nat /\ OpenLocks(c) = OpenSum(orders, c)
  BY <1>1, OpenSums DEF OpenLocks
<1>3. HeldSum(pc, dto, c) \in Nat /\ InFlight(c) = HeldSum(pc, dto, c)
  BY <1>1, HeldSums DEF InFlight, Holding
<1>. QED  BY <1>2, <1>3

\* What a thread remembers of the order it works on: a new one is open, one that is
\* being filled still agrees with its row on what it locks; and an ask locks its volume.
SameLock(r, s) == r.market = s.market /\ r.side = s.side /\ r.locked = s.locked
LocksVolume(r) == r.side = "ask" => r.locked = r.volume

MemoryInv ==
  /\ \A t \in Threads :
       /\ pc[t] \in {"lock", "save"} => dto[t].state = "wait"
       /\ pc[t] = "complete" => SameLock(orders[uuid[t]], dto[t])
       /\ pc[t] # "idle" => LocksVolume(dto[t])
  /\ \A o \in Orders : orders[o].state # "none" => LocksVolume(orders[o])

LEMMA MemoryNext == TypeOK /\ FillInv /\ MemoryInv /\ [Next]_vars => MemoryInv'
<1> SUFFICES ASSUME TypeOK, FillInv, MemoryInv, [Next]_vars PROVE MemoryInv'
  OBVIOUS
<1> USE AccountAssumption DEF TypeOK, FillInv, MemoryInv, Goto, Return, SameLock, LocksVolume
<1>1. ASSUME NEW t \in Threads, NEW r \in Requests, NEW ask \in Prices, CreateBid(t, r, ask)
      PROVE  MemoryInv'
  BY <1>1 DEF CreateBid, NewOrder, dbVars
<1>2. ASSUME NEW t \in Threads, NEW r \in Requests, CreateAsk(t, r)
      PROVE  MemoryInv'
  BY <1>2 DEF CreateAsk, NewOrder, dbVars
<1>3. ASSUME NEW t \in Threads, LockAsset(t)
      PROVE  MemoryInv'
  BY <1>3 DEF LockAsset
<1>4. ASSUME NEW t \in Threads, SaveOrder(t)
      PROVE  MemoryInv'
  BY <1>4 DEF SaveOrder
<1>5. ASSUME NEW t \in Threads, NEW o \in Orders, CancelOrder(t, o)
      PROVE  MemoryInv'
  <2>1. orders'[o] = [orders[o] EXCEPT !.state = "cancel"] /\ orders[o].state = "wait"
    BY <1>5 DEF CancelOrder, Cancellable
  <2>2. orders[o] \in OrderRow
    OBVIOUS
  <2>3. /\ orders'[o].market = orders[o].market /\ orders'[o].side = orders[o].side
        /\ orders'[o].locked = orders[o].locked /\ orders'[o].volume = orders[o].volume
    BY <2>1, <2>2 DEF OrderRow
  <2>. QED  BY <1>5, <2>1, <2>3 DEF CancelOrder
<1>6. ASSUME NEW o \in Orders, NEW ask \in Prices, NEW bid \in Prices, CheckOrders(o, ask, bid)
      PROVE  MemoryInv'
  <2> DEFINE r == [orders[o] EXCEPT !.price = ExecutionPrice(orders[o], ask, bid)]
  <2>1. orders[o] \in OrderRow /\ orders[o].state = "wait"
    BY <1>6 DEF CheckOrders, IsOpen
  <2>2. /\ r.market = orders[o].market /\ r.side = orders[o].side
        /\ r.locked = orders[o].locked /\ r.volume = orders[o].volume
    BY <2>1 DEF OrderRow
  <2>3. dto' = [dto EXCEPT ![MainLoop] = r]
    BY <1>6 DEF CheckOrders
  <2> HIDE DEF r
  <2>. QED  BY <1>6, <2>1, <2>2, <2>3 DEF CheckOrders, dbVars
<1>7. ASSUME NEW t \in Threads, CompleteOrder(t)
      PROVE  MemoryInv'
  <2> DEFINE r == [dto[t] EXCEPT !.state = "done"]
  <2>1. dto[t] \in OrderRow /\ uuid[t] \in Orders
    BY <1>7 DEF CompleteOrder
  <2>2. /\ r.market = dto[t].market /\ r.side = dto[t].side
        /\ r.locked = dto[t].locked /\ r.volume = dto[t].volume
    BY <2>1 DEF OrderRow
  <2>3. orders' = [orders EXCEPT ![uuid[t]] = r]
    BY <1>7 DEF CompleteOrder
  <2> HIDE DEF r
  <2>. QED  BY <1>7, <2>1, <2>2, <2>3 DEF CompleteOrder
<1>8. ASSUME NEW t \in Threads, UnlockAsset(t) \/ SettleBase(t) \/ SettleUnit(t)
      PROVE  MemoryInv'
  BY <1>8 DEF UnlockAsset, SettleBase, SettleUnit
<1>9. CASE Crash
  BY <1>9 DEF Crash, dbVars
<1>10. CASE Recover
  BY <1>10 DEF Recover, AddLock, SyncAsset, Start, dbVars, threadVars
<1>11. CASE UNCHANGED vars
  BY <1>11 DEF vars, dbVars, threadVars
<1> HIDE DEF TypeOK, FillInv, MemoryInv, Goto, Return
<1>. QED
  BY <1>1, <1>2, <1>3, <1>4, <1>5, <1>6, <1>7, <1>8, <1>9, <1>10, <1>11
  DEF Next, CreateOrder, Continue, OrderBook

LEMMA AccountMemory == Spec => [](TypeOK /\ FillInv /\ MemoryInv)
<1>1. Init => MemoryInv
  BY BlankRow DEF Init, MemoryInv, LocksVolume
<1>. QED  BY <1>1, FillInit, FillNext, MemoryNext, AccountTypeOK, PTL DEF Spec

\* How a step moves what is locked of a currency beside what is owed of it: never above
\* it, and for a coin, if the order being filled is still open, with it.
Tracks(c) ==
  /\ assets[c].locked <= Owed(c) => assets'[c].locked <= Owed(c)'
  /\ c # KRW /\ SoleFillInv /\ assets[c].locked = Owed(c) => assets'[c].locked = Owed(c)'

\* A step that leaves both alone, or moves both by as much, or releases what it owed.
LEMMA Moves ==
  ASSUME TypeOK, NEW c \in Currencies, NEW n \in Int,
         Owed(c)' = Owed(c) + n, assets'[c].locked = assets[c].locked + n
  PROVE  Tracks(c)
<1>1. assets[c].locked \in Nat /\ Owed(c) \in Nat
  BY OwedSums DEF TypeOK, Asset, Owed
<1> HIDE DEF Owed
<1>. QED  BY <1>1 DEF Tracks

LEMMA Releases ==
  ASSUME TypeOK, NEW c \in Currencies, NEW n \in Nat, n <= Owed(c),
         Owed(c)' = Owed(c) - n,
         \/ assets'[c].locked = AtLeastZero(assets[c].locked - n)
         \/ c = KRW /\ assets'[c].locked = 0
  PROVE  Tracks(c)
<1>1. assets[c].locked \in Nat /\ Owed(c) \in Nat
  BY OwedSums DEF TypeOK, Asset, Owed
<1> HIDE DEF Owed
<1>. QED  BY <1>1 DEF Tracks, AtLeastZero

LEMMA CreateTracks ==
  ASSUME TypeOK, TypeOK', NEW t \in Threads, CreateOrder(t), NEW c \in Currencies
  PROVE  Tracks(c)
<1>1. /\ pc[t] = "idle" /\ pc'[t] = "lock" /\ UNCHANGED <<assets, orders>>
      /\ \A u \in Threads \ {t} : pc'[u] = pc[u] /\ dto'[u] = dto[u]
  BY DEF CreateOrder, CreateBid, CreateAsk, Idle, Goto, dbVars, TypeOK
<1>2. HeldOf(pc[t], dto[t], c) = 0 /\ HeldOf(pc'[t], dto'[t], c) = 0
  BY <1>1 DEF HeldOf
<1>3. HeldSum(pc', dto', c) = HeldSum(pc, dto, c)
  BY <1>1, <1>2, HeldStep
<1>4. OpenSum(orders', c) = OpenSum(orders, c)
  BY <1>1
<1>5. Owed(c)' = Owed(c)
  BY <1>3, <1>4 DEF Owed
<1>. QED  BY <1>1, <1>5 DEF Tracks

LEMMA LockTracks ==
  ASSUME TypeOK, TypeOK', NEW t \in Threads, LockAsset(t), NEW c \in Currencies
  PROVE  Tracks(c)
<1> DEFINE d == LockCurrency(dto[t])
           amount == dto[t].locked
<1>1. /\ pc[t] = "lock" /\ orders' = orders /\ amount \in Nat /\ d \in Currencies
      /\ \A u \in Threads \ {t} : pc'[u] = pc[u] /\ dto'[u] = dto[u]
  BY AccountAssumption DEF LockAsset, Goto, Return, TypeOK, OrderRow, LockCurrency
<1>2. HeldSum(pc', dto', c) = HeldSum(pc, dto, c) + HeldOf(pc'[t], dto'[t], c)
  <2>1. HeldOf(pc[t], dto[t], c) = 0
    BY <1>1 DEF HeldOf
  <2>. QED  BY <1>1, <2>1, HeldStep
<1>3. HeldOf(pc'[t], dto'[t], c) \in Nat /\ OpenSum(orders', c) = OpenSum(orders, c)
  BY <1>1, HeldStep
<1>4. Owed(c)' = Owed(c) + HeldOf(pc'[t], dto'[t], c)
  BY <1>2, <1>3, OwedSums DEF Owed
<1>5. CASE amount = 0 /\ Goto(t, "save") /\ UNCHANGED <<assets, dto>>
  <2>1. HeldOf(pc'[t], dto'[t], c) = 0
    BY <1>5 DEF HeldOf, Goto, TypeOK
  <2>. QED  BY <1>4, <1>5, <2>1, Moves, OwedSums DEF TypeOK, Asset
<1>6. CASE /\ assets' = [assets EXCEPT ![d] = Locked(@, amount)]
           /\ Goto(t, "save") /\ UNCHANGED dto
  <2>1. HeldOf(pc'[t], dto'[t], c) = IF c = d THEN amount ELSE 0
    BY <1>1, <1>6 DEF HeldOf, Goto, TypeOK
  <2>2. assets'[c].locked = assets[c].locked + IF c = d THEN amount ELSE 0
    BY <1>1, <1>6 DEF Locked, TypeOK, Asset
  <2> HIDE DEF amount, d
  <2>. QED  BY <1>1, <1>4, <2>1, <2>2, Moves
<1>7. CASE Return(t) /\ UNCHANGED assets
  <2>1. HeldOf(pc'[t], dto'[t], c) = 0
    BY <1>7 DEF HeldOf, Return, Goto, TypeOK
  <2>. QED  BY <1>4, <1>7, <2>1, Moves, OwedSums DEF TypeOK, Asset
<1>. QED  BY <1>5, <1>6, <1>7 DEF LockAsset

LEMMA SaveTracks ==
  ASSUME TypeOK, TypeOK', MemoryInv, NEW t \in Threads, SaveOrder(t), NEW c \in Currencies
  PROVE  Tracks(c)
<1>1. PICK o \in Orders : orders[o].state = "none" /\ orders' = [orders EXCEPT ![o] = dto[t]]
  BY DEF SaveOrder
<1>2. /\ pc[t] = "save" /\ pc'[t] = "idle" /\ dto[t].state = "wait" /\ assets' = assets
      /\ \A u \in Threads \ {t} : pc'[u] = pc[u] /\ dto'[u] = dto[u]
  BY DEF SaveOrder, Return, Goto, TypeOK, MemoryInv
<1>3. HeldOf(pc'[t], dto'[t], c) = 0
  BY <1>2 DEF HeldOf
<1>4. OpenOf(orders[o], c) = 0 /\ OpenOf(orders'[o], c) = HeldOf(pc[t], dto[t], c)
  BY <1>1, <1>2 DEF OpenOf, HeldOf, TypeOK
<1>5. \A p \in Orders \ {o} : orders'[p] = orders[p]
  BY <1>1 DEF TypeOK
<1>6. Owed(c)' = Owed(c)
  BY <1>2, <1>3, <1>4, <1>5, HeldStep, OpenStep DEF Owed
<1>. QED  BY <1>2, <1>6 DEF Tracks

LEMMA CancelTracks ==
  ASSUME TypeOK, TypeOK', NEW t \in Threads, NEW o \in Orders, CancelOrder(t, o),
         NEW c \in Currencies
  PROVE  Tracks(c)
<1>1. /\ pc[t] = "idle" /\ pc'[t] = "unlock" /\ dto'[t] = orders[o] /\ assets' = assets
      /\ \A u \in Threads \ {t} : pc'[u] = pc[u] /\ dto'[u] = dto[u]
      /\ orders[o].state = "wait" /\ orders'[o].state = "cancel"
      /\ \A p \in Orders \ {o} : orders'[p] = orders[p]
  BY DEF CancelOrder, Idle, Goto, Cancellable, TypeOK, OrderRow
<1>2. HeldOf(pc[t], dto[t], c) = 0 /\ OpenOf(orders'[o], c) = 0
  BY <1>1 DEF HeldOf, OpenOf
<1>3. HeldOf(pc'[t], dto'[t], c) = OpenOf(orders[o], c)
  BY <1>1 DEF HeldOf, OpenOf
<1>4. Owed(c)' = Owed(c)
  BY <1>1, <1>2, <1>3, HeldStep, OpenStep DEF Owed
<1>. QED  BY <1>1, <1>4 DEF Tracks

LEMMA UnlockTracks ==
  ASSUME TypeOK, TypeOK', NEW t \in Threads, UnlockAsset(t), NEW c \in Currencies
  PROVE  Tracks(c)
<1> DEFINE d == LockCurrency(dto[t])
           n == IF c = d THEN dto[t].locked ELSE 0
<1>1. /\ pc[t] = "unlock" /\ pc'[t] = "idle" /\ orders' = orders /\ d \in Currencies
      /\ dto[t].locked \in Nat
      /\ \A u \in Threads \ {t} : pc'[u] = pc[u] /\ dto'[u] = dto[u]
  BY AccountAssumption DEF UnlockAsset, Goto, Return, TypeOK, OrderRow, LockCurrency
<1>2. HeldOf(pc'[t], dto'[t], c) = 0 /\ HeldOf(pc[t], dto[t], c) = n
  BY <1>1 DEF HeldOf
<1>3. assets'[c].locked = AtLeastZero(assets[c].locked - n)
  BY <1>1 DEF UnlockAsset, Unlocked, AtLeastZero, TypeOK, Asset
<1> HIDE DEF n
<1>4. n \in Nat /\ n <= Owed(c) /\ Owed(c)' = Owed(c) - n
  <2>1. /\ HeldSum(pc', dto', c) = HeldSum(pc, dto, c) - n + 0
        /\ HeldSum(pc, dto, c) \in Nat /\ n <= HeldSum(pc, dto, c) /\ n \in Nat
    BY <1>1, <1>2, HeldStep
  <2>2. OpenSum(orders, c) \in Nat /\ OpenSum(orders', c) = OpenSum(orders, c)
    BY <1>1, OwedSums
  <2>. QED  BY <2>1, <2>2 DEF Owed
<1>. QED  BY <1>3, <1>4, Releases

LEMMA CheckTracks ==
  ASSUME TypeOK, TypeOK', NEW o \in Orders, NEW ask \in Prices, NEW bid \in Prices,
         CheckOrders(o, ask, bid), NEW c \in Currencies
  PROVE  Tracks(c)
<1>1. /\ pc[MainLoop] = "idle" /\ pc'[MainLoop] = "complete" /\ UNCHANGED <<assets, orders>>
      /\ \A u \in Threads \ {MainLoop} : pc'[u] = pc[u] /\ dto'[u] = dto[u]
      /\ MainLoop \in Threads
  BY AccountAssumption DEF CheckOrders, Idle, Goto, dbVars, TypeOK
<1>2. HeldOf(pc[MainLoop], dto[MainLoop], c) = 0 /\ HeldOf(pc'[MainLoop], dto'[MainLoop], c) = 0
  BY <1>1 DEF HeldOf
<1>3. HeldSum(pc', dto', c) = HeldSum(pc, dto, c)
  BY <1>1, <1>2, HeldStep
<1>4. OpenSum(orders', c) = OpenSum(orders, c)
  BY <1>1
<1>5. Owed(c)' = Owed(c)
  BY <1>3, <1>4 DEF Owed
<1>. QED  BY <1>1, <1>5 DEF Tracks

\* An order that was cancelled meanwhile is paid for twice: its lock is owed again, by
\* the thread that fills it, and nothing is locked for it.
LEMMA CompleteTracks ==
  ASSUME TypeOK, TypeOK', FillInv, MemoryInv, NEW t \in Threads, CompleteOrder(t),
         NEW c \in Currencies
  PROVE  Tracks(c)
<1> DEFINE o == uuid[t]
<1>1. /\ pc[t] = "complete" /\ pc'[t] = "base" /\ dto' = dto /\ assets' = assets
      /\ t = MainLoop /\ o \in Orders /\ orders'[o].state = "done"
      /\ \A u \in Threads \ {t} : pc'[u] = pc[u]
      /\ \A p \in Orders \ {o} : orders'[p] = orders[p]
      /\ SameLock(orders[o], dto[t])
  BY DEF CompleteOrder, Goto, FillInv, MemoryInv, TypeOK, OrderRow
<1>2. HeldOf(pc[t], dto[t], c) = 0 /\ OpenOf(orders'[o], c) = 0
  BY <1>1 DEF HeldOf, OpenOf
<1>3. \/ HeldOf(pc'[t], dto'[t], c) = OpenOf(orders[o], c)
      \/ orders[o].state # "wait" /\ OpenOf(orders[o], c) = 0
  BY <1>1 DEF HeldOf, OpenOf, SameLock, LockCurrency
<1>4. SoleFillInv => HeldOf(pc'[t], dto'[t], c) = OpenOf(orders[o], c)
  BY <1>1, <1>3 DEF SoleFillInv
<1> HIDE DEF o
<1>5. /\ HeldSum(pc', dto', c) = HeldSum(pc, dto, c) - 0 + HeldOf(pc'[t], dto'[t], c)
      /\ HeldSum(pc, dto, c) \in Nat /\ HeldOf(pc'[t], dto'[t], c) \in Nat
  BY <1>1, <1>2, HeldStep
<1>6. /\ OpenSum(orders', c) = OpenSum(orders, c) - OpenOf(orders[o], c) + 0
      /\ OpenSum(orders, c) \in Nat /\ OpenOf(orders[o], c) \in Nat
  BY <1>1, <1>2, OpenStep
<1>7. Owed(c)' >= Owed(c) /\ (SoleFillInv => Owed(c)' = Owed(c)) /\ Owed(c) \in Nat /\ Owed(c)' \in Nat
  BY <1>3, <1>4, <1>5, <1>6 DEF Owed
<1>8. assets[c].locked \in Nat
  BY DEF TypeOK, Asset
<1> HIDE DEF Owed
<1>. QED  BY <1>1, <1>7, <1>8 DEF Tracks

LEMMA BaseTracks ==
  ASSUME TypeOK, TypeOK', NEW t \in Threads, SettleBase(t), NEW c \in Currencies
  PROVE  Tracks(c)
<1> DEFINE d == Base[dto[t].market]
           n == IF dto[t].side = "ask" /\ c = d THEN dto[t].locked ELSE 0
<1>1. /\ pc[t] = "base" /\ pc'[t] = "unit" /\ orders' = orders /\ dto' = dto
      /\ d \in Currencies /\ dto[t].locked \in Nat /\ dto[t].side \in {"bid", "ask"}
      /\ \A u \in Threads \ {t} : pc'[u] = pc[u]
  BY AccountAssumption DEF SettleBase, Goto, TypeOK, OrderRow
<1>2. HeldOf(pc'[t], dto'[t], c) = HeldOf(pc[t], dto[t], c) - n
  BY <1>1 DEF HeldOf, LockCurrency
<1>3. assets'[c].locked = AtLeastZero(assets[c].locked - n)
  <2>1. assets[c].locked \in Nat /\ assets \in [Currencies -> Asset]
    BY DEF TypeOK, Asset
  <2>. QED  BY <1>1, <2>1 DEF SettleBase, Credited, AskConsumed, AtLeastZero, Asset
<1>4. n \in Nat /\ n <= HeldOf(pc[t], dto[t], c)
  BY <1>1 DEF HeldOf, LockCurrency
<1> HIDE DEF n
<1>5. n <= Owed(c) /\ Owed(c)' = Owed(c) - n
  <2>1. /\ HeldSum(pc', dto', c) = HeldSum(pc, dto, c) - HeldOf(pc[t], dto[t], c) + HeldOf(pc'[t], dto'[t], c)
        /\ HeldSum(pc, dto, c) \in Nat /\ HeldOf(pc[t], dto[t], c) <= HeldSum(pc, dto, c)
        /\ HeldOf(pc[t], dto[t], c) \in Nat
    BY <1>1, HeldStep
  <2>2. OpenSum(orders, c) \in Nat /\ OpenSum(orders', c) = OpenSum(orders, c)
    BY <1>1, OwedSums
  <2>. QED  BY <1>2, <1>4, <2>1, <2>2 DEF Owed
<1>. QED  BY <1>3, <1>4, <1>5, Releases

\* A bid's lock is consumed in KRW: it was taken there if the market's unit is KRW.
LEMMA UnitTracks ==
  ASSUME TypeOK, TypeOK', \A m \in Markets : Unit[m] = KRW,
         NEW t \in Threads, SettleUnit(t), NEW c \in Currencies
  PROVE  Tracks(c)
<1> DEFINE n == IF dto[t].side = "bid" /\ c = KRW THEN dto[t].locked ELSE 0
<1>1. /\ pc[t] = "unit" /\ pc'[t] = "idle" /\ orders' = orders /\ KRW \in Currencies
      /\ dto[t].locked \in Nat /\ dto[t].side \in {"bid", "ask"} /\ dto[t].market \in Markets
      /\ \A u \in Threads \ {t} : pc'[u] = pc[u] /\ dto'[u] = dto[u]
  BY AccountAssumption DEF SettleUnit, Goto, Return, TypeOK, OrderRow
<1>2. HeldOf(pc'[t], dto'[t], c) = 0 /\ HeldOf(pc[t], dto[t], c) = n
  BY <1>1 DEF HeldOf, LockCurrency
<1>3. \/ assets'[c].locked = AtLeastZero(assets[c].locked - n)
      \/ c = KRW /\ assets'[c].locked = 0
  <2>1. assets[c].locked \in Nat /\ assets \in [Currencies -> Asset]
    BY DEF TypeOK, Asset
  <2>2. CASE dto[t].side = "bid" /\ c = KRW
    <3>1. assets'[c] = BidSettled(assets[c], dto[t])
      BY <1>1, <2>1, <2>2 DEF SettleUnit
    <3>. QED  BY <2>2, <3>1 DEF BidSettled
  <2>3. CASE dto[t].side # "bid" /\ c = KRW
    <3>1. assets'[c] = Credited(assets[c], Proceeds(dto[t].price, dto[t].volume))
      BY <1>1, <2>1, <2>3 DEF SettleUnit
    <3>2. assets'[c].locked = assets[c].locked
      BY <2>1, <3>1 DEF Credited, Asset
    <3>. QED  BY <2>1, <2>3, <3>2 DEF AtLeastZero
  <2>4. CASE c # KRW
    <3>1. assets'[c] = assets[c]
      BY <2>1, <2>4 DEF SettleUnit
    <3>. QED  BY <2>1, <2>4, <3>1 DEF AtLeastZero
  <2>. QED  BY <2>2, <2>3, <2>4
<1>4. n \in Nat
  BY <1>1
<1> HIDE DEF n
<1>5. n <= Owed(c) /\ Owed(c)' = Owed(c) - n
  <2>1. /\ HeldSum(pc', dto', c) = HeldSum(pc, dto, c) - n + 0
        /\ HeldSum(pc, dto, c) \in Nat /\ n <= HeldSum(pc, dto, c)
    BY <1>1, <1>2, HeldStep
  <2>2. OpenSum(orders, c) \in Nat /\ OpenSum(orders', c) = OpenSum(orders, c)
    BY <1>1, OwedSums
  <2>. QED  BY <1>4, <2>1, <2>2 DEF Owed
<1>. QED  BY <1>3, <1>4, <1>5, Releases

\* A restart in progress: nothing runs, and what is summed up so far is the open locks
\* but for those of the orders not read yet.
UnreadSum(ids, rows, c) ==
  SumFunctionOnSet([o \in Orders |-> IF o \in ids THEN OpenOf(rows[o], c) ELSE 0], Orders)

SyncInv ==
  phase = "sync" =>
    /\ \A t \in Threads : pc[t] = "idle"
    /\ unread \subseteq OpenOrders
    /\ \A c \in Currencies : expected[c] + UnreadSum(unread, orders, c) = OpenSum(orders, c)

LEMMA NothingUnread == ASSUME NEW rows, NEW c PROVE UnreadSum({}, rows, c) = 0
<1> DEFINE f == [o \in Orders |-> IF o \in {} THEN OpenOf(rows[o], c) ELSE 0]
<1>1. \A o \in Orders : f[o] = 0
  OBVIOUS
<1>2. SumFunctionOnSet(f, Orders) = 0
  <2> HIDE DEF f
  <2>. QED  BY <1>1, FiniteAssumption, ZeroSum
<1>. QED  BY <1>2 DEF UnreadSum

LEMMA NothingHeld ==
  ASSUME NEW steps, NEW rows, \A t \in Threads : steps[t] = "idle", NEW c
  PROVE  HeldSum(steps, rows, c) = 0
<1> DEFINE f == [t \in Threads |-> HeldOf(steps[t], rows[t], c)]
<1>1. \A t \in Threads : f[t] = 0
  BY DEF HeldOf
<1>2. SumFunctionOnSet(f, Threads) = 0
  <2> HIDE DEF f
  <2>. QED  BY <1>1, FiniteAssumption, ZeroSum
<1>. QED  BY <1>2 DEF HeldSum

LEMMA OneLessUnread ==
  ASSUME NEW rows \in [Orders -> OrderRow], NEW ids \in SUBSET Orders, NEW o \in ids, NEW c
  PROVE  UnreadSum(ids \ {o}, rows, c) = UnreadSum(ids, rows, c) - OpenOf(rows[o], c)
<1> DEFINE f == [p \in Orders |-> IF p \in ids THEN OpenOf(rows[p], c) ELSE 0]
           g == [p \in Orders |-> IF p \in ids \ {o} THEN OpenOf(rows[p], c) ELSE 0]
<1>1. \A p \in Orders : f[p] \in Nat /\ g[p] \in Nat
  BY SummandsNat
<1>2. \A p \in Orders \ {o} : f[p] = g[p]
  OBVIOUS
<1>3. f[o] = OpenOf(rows[o], c) /\ g[o] = 0 /\ o \in Orders
  OBVIOUS
<1>4. /\ SumFunctionOnSet(g, Orders) = SumFunctionOnSet(f, Orders) - f[o] + g[o]
      /\ SumFunctionOnSet(f, Orders) \in Nat
  <2> HIDE DEF f, g
  <2>. QED  BY <1>1, <1>2, <1>3, FiniteAssumption, SumChange, SumNat
<1>5. UnreadSum(ids, rows, c) = SumFunctionOnSet(f, Orders)
  BY DEF UnreadSum
<1>6. UnreadSum(ids \ {o}, rows, c) = SumFunctionOnSet(g, Orders)
  BY DEF UnreadSum
<1> HIDE DEF f, g
<1>7. f[o] \in Nat
  BY <1>1, <1>3
<1>. QED  BY <1>3, <1>4, <1>5, <1>6, <1>7

\* A step that is not a crash or part of a restart is a step of the running program.
LEMMA Phases ==
  TypeOK /\ SyncInv /\ [Next]_vars =>
    \/ Crash \/ Recover \/ UNCHANGED vars
    \/ phase = "run" /\ UNCHANGED bootVars
<1> SUFFICES ASSUME TypeOK, SyncInv, Next, ~Crash, ~Recover
             PROVE  phase = "run" /\ UNCHANGED bootVars
  OBVIOUS
<1> USE DEF TypeOK, SyncInv
<1>1. ASSUME NEW t \in Threads, CreateOrder(t) \/ \E o \in Orders : CancelOrder(t, o)
      PROVE  phase = "run" /\ UNCHANGED bootVars
  BY <1>1 DEF CreateOrder, CreateBid, CreateAsk, CancelOrder, Idle
<1>2. ASSUME NEW t \in Threads, Continue(t)
      PROVE  phase = "run" /\ UNCHANGED bootVars
  <2>1. pc[t] # "idle" /\ UNCHANGED bootVars
    BY <1>2 DEF Continue, LockAsset, SaveOrder, UnlockAsset, CompleteOrder, SettleBase, SettleUnit
  <2>. QED  BY <2>1
<1>3. ASSUME OrderBook PROVE phase = "run" /\ UNCHANGED bootVars
  BY <1>3 DEF OrderBook, CheckOrders, Idle
<1>. QED  BY <1>1, <1>2, <1>3 DEF Next

LEMMA SyncNext == TypeOK /\ SyncInv /\ [Next]_vars => SyncInv'
<1> SUFFICES ASSUME TypeOK, SyncInv, [Next]_vars, phase' = "sync"
             PROVE  /\ \A t \in Threads : pc'[t] = "idle"
                    /\ unread' \subseteq {o \in Orders : orders'[o].state = "wait"}
                    /\ \A c \in Currencies :
                         expected'[c] + UnreadSum(unread', orders', c) = OpenSum(orders', c)
  BY DEF SyncInv, OpenOrders, IsOpen
<1>1. CASE Crash
  <2>1. /\ pc' = [t \in Threads |-> "idle"] /\ unread' = OpenOrders
        /\ expected' = ZeroLocks /\ orders' = orders
    BY <1>1 DEF Crash, dbVars
  <2>2. ASSUME NEW c \in Currencies
        PROVE  expected'[c] + UnreadSum(unread', orders', c) = OpenSum(orders', c)
    <3> DEFINE f == [o \in Orders |-> IF o \in OpenOrders THEN OpenOf(orders[o], c) ELSE 0]
               g == [o \in Orders |-> OpenOf(orders[o], c)]
    <3>1. f = g
      BY DEF OpenOrders, IsOpen, OpenOf
    <3>2. UnreadSum(unread', orders', c) = SumFunctionOnSet(f, Orders)
      BY <2>1 DEF UnreadSum
    <3>3. OpenSum(orders', c) = SumFunctionOnSet(g, Orders)
      BY <2>1 DEF OpenSum
    <3> HIDE DEF f, g
    <3>4. OpenSum(orders', c) \in Nat
      BY <2>1, OwedSums
    <3>. QED  BY <2>1, <3>1, <3>2, <3>3, <3>4 DEF ZeroLocks
  <2>. QED  BY <2>1, <2>2 DEF OpenOrders, IsOpen
<1>2. ASSUME NEW o \in Orders, AddLock(o)
      PROVE  /\ \A t \in Threads : pc'[t] = "idle"
             /\ unread' \subseteq {p \in Orders : orders'[p].state = "wait"}
             /\ \A c \in Currencies :
                  expected'[c] + UnreadSum(unread', orders', c) = OpenSum(orders', c)
  <2>1. /\ phase = "sync" /\ o \in unread /\ unread' = unread \ {o} /\ orders' = orders
        /\ pc' = pc /\ orders[o].state = "wait" /\ orders \in [Orders -> OrderRow]
        /\ unread \subseteq Orders /\ expected \in [Currencies -> Nat]
        /\ expected' = [expected EXCEPT ![LockCurrency(orders[o])] = @ + orders[o].locked]
    BY <1>2 DEF AddLock, SyncInv, OpenOrders, IsOpen, dbVars, threadVars, TypeOK
  <2>2. ASSUME NEW c \in Currencies
        PROVE  expected'[c] + UnreadSum(unread', orders', c) = OpenSum(orders', c)
    <3>1. UnreadSum(unread \ {o}, orders, c) = UnreadSum(unread, orders, c) - OpenOf(orders[o], c)
      BY <2>1, OneLessUnread
    <3>2. expected'[c] = expected[c] + OpenOf(orders[o], c)
      BY <2>1 DEF OpenOf, OrderRow
    <3>3. /\ expected[c] + UnreadSum(unread, orders, c) = OpenSum(orders, c)
          /\ OpenSum(orders, c) \in Nat /\ expected[c] \in Nat /\ OpenOf(orders[o], c) \in Nat
      BY <2>1, OwedSums, SummandsNat DEF SyncInv
    <3>4. UnreadSum(unread, orders, c) \in Int
      <4> DEFINE f == [p \in Orders |-> IF p \in unread THEN OpenOf(orders[p], c) ELSE 0]
      <4>1. \A p \in Orders : f[p] \in Int
        BY <2>1, SummandsNat
      <4>2. SumFunctionOnSet(f, Orders) \in Int
        <5> HIDE DEF f
        <5>. QED  BY <4>1, FiniteAssumption, SumInt
      <4>. QED  BY <4>2 DEF UnreadSum
    <3>. QED  BY <2>1, <3>1, <3>2, <3>3, <3>4
  <2>. QED  BY <2>1, <2>2 DEF SyncInv, OpenOrders, IsOpen
<1>3. CASE \E c \in Currencies : SyncAsset(c)
  BY <1>3 DEF SyncAsset, SyncInv, threadVars, bootVars, OpenOrders, IsOpen
<1>4. CASE UNCHANGED vars
  BY <1>4 DEF vars, dbVars, threadVars, bootVars, SyncInv, OpenOrders, IsOpen
<1>5. CASE phase = "run" /\ UNCHANGED bootVars
  BY <1>5 DEF bootVars
<1>6. CASE Start
  BY <1>6 DEF Start
<1>. QED  BY <1>1, <1>2, <1>3, <1>4, <1>5, <1>6, Phases DEF Recover

LEMMA AccountSync == Spec => [](TypeOK /\ SyncInv)
<1>1. Init => SyncInv
  BY DEF Init, SyncInv
<1>. QED  BY <1>1, SyncNext, AccountTypeOK, PTL DEF Spec

\* When a restart is through, every currency has locked what the open orders say.
LEMMA Started ==
  ASSUME TypeOK, SyncInv, Start, NEW c \in Currencies
  PROVE  /\ assets'[c].locked = OpenSum(orders, c) /\ assets[c].locked = OpenSum(orders, c)
         /\ orders' = orders /\ \A t \in Threads : pc'[t] = "idle"
<1>1. /\ phase = "sync" /\ unread = {} /\ assets[c].locked = expected[c] /\ orders' = orders
      /\ pc' = pc /\ expected[c] \in Nat
  BY DEF Start, TypeOK
<1>2. assets'[c].locked = assets[c].locked
  BY DEF Start, Credited, TypeOK, Asset
<1>3. expected[c] + UnreadSum({}, orders, c) = OpenSum(orders, c)
  BY <1>1 DEF SyncInv
<1>. QED  BY <1>1, <1>2, <1>3, NothingUnread, OwedSums DEF SyncInv

\* Wherever the crash fell, and whatever the threads were at, the restart's locks are
\* those of the open orders.
THEOREM AccountRestart == Spec => RestartMatchesOrders
<1>1. TypeOK /\ TypeOK' /\ SyncInv /\ [Next]_vars =>
        (phase = "sync" /\ phase' = "run" =>
           \A c \in Currencies : assets'[c].locked = OpenLocks(c)')
  <2> SUFFICES ASSUME TypeOK, TypeOK', SyncInv, [Next]_vars, phase = "sync", phase' = "run",
                      NEW c \in Currencies
               PROVE  assets'[c].locked = OpenLocks(c)'
    OBVIOUS
  <2>1. Start
    BY Phases DEF Crash, Recover, AddLock, SyncAsset, vars, bootVars
  <2>2. assets'[c].locked = OpenSum(orders, c) /\ orders' = orders
    BY <2>1, Started
  <2>3. orders' \in [Orders -> OrderRow]
    BY DEF TypeOK
  <2>4. OpenLocks(c)' = OpenSum(orders', c)
    BY <2>3, OpenSums DEF OpenLocks
  <2>. QED  BY <2>2, <2>4
<1>. QED  BY <1>1, AccountSync, AccountTypeOK, PTL DEF Spec, RestartMatchesOrders

AllKrw == \A m \in Markets : Unit[m] = KRW

\* A step of the running account other than the end of a restart tracks every currency.
LEMMA StepTracks ==
  ASSUME TypeOK, TypeOK', FillInv, MemoryInv, SyncInv, AllKrw, [Next]_vars,
         phase' = "run", ~ Start, NEW c \in Currencies
  PROVE  phase = "run" /\ Tracks(c)
<1>1. ~ Crash /\ ~ Recover
  BY DEF Crash, Recover, AddLock, SyncAsset, bootVars
<1>2. phase = "run"
  BY <1>1, Phases DEF vars, bootVars
<1>3. CASE UNCHANGED vars
  <2>1. orders' = orders /\ pc' = pc /\ dto' = dto /\ assets' = assets
    BY <1>3 DEF vars, dbVars, threadVars
  <2>2. OpenSum(orders', c) = OpenSum(orders, c) /\ HeldSum(pc', dto', c) = HeldSum(pc, dto, c)
    BY <2>1
  <2>3. Owed(c)' = Owed(c)
    BY <2>2 DEF Owed
  <2>. QED  BY <1>2, <2>1, <2>3 DEF Tracks
<1>4. ASSUME NEW t \in Threads, CreateOrder(t) PROVE Tracks(c)
  BY <1>4, CreateTracks
<1>5. ASSUME NEW t \in Threads, LockAsset(t) PROVE Tracks(c)
  BY <1>5, LockTracks
<1>6. ASSUME NEW t \in Threads, SaveOrder(t) PROVE Tracks(c)
  BY <1>6, SaveTracks
<1>7. ASSUME NEW t \in Threads, NEW o \in Orders, CancelOrder(t, o) PROVE Tracks(c)
  BY <1>7, CancelTracks
<1>8. ASSUME NEW t \in Threads, UnlockAsset(t) PROVE Tracks(c)
  BY <1>8, UnlockTracks
<1>9. ASSUME OrderBook PROVE Tracks(c)
  BY <1>9, CheckTracks DEF OrderBook
<1>10. ASSUME NEW t \in Threads, CompleteOrder(t) PROVE Tracks(c)
  BY <1>10, CompleteTracks
<1>11. ASSUME NEW t \in Threads, SettleBase(t) PROVE Tracks(c)
  BY <1>11, BaseTracks
<1>12. ASSUME NEW t \in Threads, SettleUnit(t) PROVE Tracks(c)
  BY <1>12, UnitTracks DEF AllKrw
<1> HIDE DEF Tracks
<1>. QED
  BY <1>1, <1>2, <1>3, <1>4, <1>5, <1>6, <1>7, <1>8, <1>9, <1>10, <1>11, <1>12 DEF Next, Continue

LocksFollow == phase = "run" => \A c \in Currencies : assets[c].locked <= Owed(c)
CoinsFollow == phase = "run" => \A c \in Currencies \ {KRW} : assets[c].locked = Owed(c)

LEMMA LocksInit == Init => LocksFollow /\ CoinsFollow
<1> SUFFICES ASSUME Init, NEW c \in Currencies
             PROVE  assets[c].locked = Owed(c) /\ assets[c].locked = 0
  BY DEF LocksFollow, CoinsFollow
<1>1. \A o \in Orders : OpenOf(orders[o], c) = 0
  BY BlankRow DEF Init, OpenOf
<1>2. OpenSum(orders, c) = 0
  <2> DEFINE f == [o \in Orders |-> OpenOf(orders[o], c)]
  <2>1. \A o \in Orders : f[o] = 0
    BY <1>1
  <2>2. SumFunctionOnSet(f, Orders) = 0
    <3> HIDE DEF f
    <3>. QED  BY <2>1, FiniteAssumption, ZeroSum
  <2>. QED  BY <2>2 DEF OpenSum
<1>3. HeldSum(pc, dto, c) = 0
  BY NothingHeld DEF Init
<1>. QED  BY <1>2, <1>3 DEF Init, Owed

LEMMA LocksNext ==
  ASSUME AllKrw
  PROVE  TypeOK /\ TypeOK' /\ FillInv /\ MemoryInv /\ SyncInv /\ LocksFollow /\ [Next]_vars
           => LocksFollow'
<1> SUFFICES ASSUME TypeOK, TypeOK', FillInv, MemoryInv, SyncInv, LocksFollow, [Next]_vars,
                    phase' = "run", NEW c \in Currencies
             PROVE  assets'[c].locked <= Owed(c)'
  BY DEF LocksFollow
<1>1. CASE Start
  <2>1. assets'[c].locked = OpenSum(orders, c) /\ orders' = orders
    BY <1>1, Started
  <2>2. HeldSum(pc', dto', c) = 0
    BY <1>1, Started, NothingHeld
  <2>. QED  BY <2>1, <2>2, OwedSums DEF Owed
<1>2. CASE ~ Start
  BY <1>2, StepTracks DEF LocksFollow, Tracks
<1>. QED  BY <1>1, <1>2

\* Of any threads that interleave and with crashes anywhere, no more is locked of a
\* currency than orders and operations in progress account for, on KRW markets.  (Fills
\* are settled in KRW and locks taken in the market's unit: elsewhere it does not hold.)
THEOREM AccountNoPhantomLock ==
  ASSUME \A m \in Markets : Unit[m] = KRW
  PROVE  Spec => []NoPhantomLock
<1>1. AllKrw
  BY DEF AllKrw
<1>2. TypeOK /\ LocksFollow => NoPhantomLock
  BY OwedSums DEF LocksFollow, NoPhantomLock, Owed
<1>3. Spec => []LocksFollow
  BY <1>1, LocksInit, LocksNext, AccountMemory, AccountSync, PTL DEF Spec
<1>. QED  BY <1>2, <1>3, AccountTypeOK, PTL

LEMMA CoinsNext ==
  ASSUME AllKrw
  PROVE  TypeOK /\ TypeOK' /\ FillInv /\ MemoryInv /\ SyncInv /\ SoleFillInv /\ CoinsFollow
           /\ [Next]_vars => CoinsFollow'
<1> SUFFICES ASSUME TypeOK, TypeOK', FillInv, MemoryInv, SyncInv, SoleFillInv, CoinsFollow,
                    [Next]_vars, phase' = "run", NEW c \in Currencies, c # KRW
             PROVE  assets'[c].locked = Owed(c)'
  BY DEF CoinsFollow
<1>1. CASE Start
  <2>1. assets'[c].locked = OpenSum(orders, c) /\ orders' = orders
    BY <1>1, Started
  <2>2. HeldSum(pc', dto', c) = 0
    BY <1>1, Started, NothingHeld
  <2>. QED  BY <2>1, <2>2, OwedSums DEF Owed
<1>2. CASE ~ Start
  BY <1>2, StepTracks DEF CoinsFollow, Tracks
<1>. QED  BY <1>1, <1>2

LEMMA SoleCoins == ASSUME Threads = {MainLoop}, AllKrw PROVE Spec => []CoinsFollow
BY SoleFill, LocksInit, CoinsNext, AccountMemory, AccountSync, PTL DEF Spec

\* If only the main loop calls the account, crashes included, the coins that are locked
\* are exactly those of the open asks and of what the main loop is at.
THEOREM SoleThreadLocksAreExact ==
  ASSUME Threads = {MainLoop}, \A m \in Markets : Unit[m] = KRW
  PROVE  Spec => []CoinLocksExact
<1>1. AllKrw
  BY DEF AllKrw
<1>2. TypeOK /\ CoinsFollow => CoinLocksExact
  BY OwedSums DEF CoinsFollow, CoinLocksExact, Owed
<1>. QED  BY <1>1, <1>2, SoleCoins, AccountTypeOK, PTL

----------------------------------------------------------------------------
(* Coins balance against the order history, for one thread and no crash     *)

\* The volume of a row that is done, and of a fill whose coins are not settled yet.
DoneOf(r, side, c) ==
  IF r.state = "done" /\ r.side = side /\ Base[r.market] = c THEN r.volume ELSE 0
DoneSum(rows, side, c) == SumFunctionOnSet([o \in Orders |-> DoneOf(rows[o], side, c)], Orders)
PendingOf(step, r, c) ==
  IF step = "base" /\ Base[r.market] = c THEN IF r.side = "bid" THEN r.volume ELSE - r.volume
  ELSE 0

LEMMA DoneNat ==
  ASSUME NEW r \in OrderRow, NEW side, NEW c PROVE DoneOf(r, side, c) \in Nat
BY DEF DoneOf, OrderRow

LEMMA DoneSums ==
  ASSUME NEW rows \in [Orders -> OrderRow], NEW side, NEW c
  PROVE  /\ DoneSum(rows, side, c) \in Nat
         /\ SumFunctionOnSet([o \in Orders |-> rows[o].volume],
              {o \in Orders : /\ rows[o].state = "done" /\ rows[o].side = side
                             /\ Base[rows[o].market] = c}) = DoneSum(rows, side, c)
<1> DEFINE f == [o \in Orders |-> rows[o].volume]
           g == [o \in Orders |-> DoneOf(rows[o], side, c)]
           T == {o \in Orders : /\ rows[o].state = "done" /\ rows[o].side = side
                                /\ Base[rows[o].market] = c}
<1>1. \A o \in Orders : f[o] \in Int /\ g[o] \in Nat
  BY DoneNat DEF OrderRow
<1>2. \A o \in T : f[o] \in Int /\ g[o] = f[o]
  BY DEF OrderRow, DoneOf
<1>3. \A o \in Orders \ T : g[o] = 0
  BY DEF DoneOf
<1>4. T \in SUBSET Orders
  OBVIOUS
<1>5. /\ SumFunctionOnSet(f, T) = SumFunctionOnSet(g, Orders)
      /\ SumFunctionOnSet(g, Orders) \in Nat
  <2> HIDE DEF f, g, T
  <2>. QED  BY <1>1, <1>2, <1>3, <1>4, FiniteAssumption, SumFilter, SumNat
<1>6. SumFunctionOnSet(g, Orders) = DoneSum(rows, side, c)
  BY DEF DoneSum
<1> HIDE DEF g
<1>. QED  BY <1>5, <1>6

LEMMA DoneChange ==
  ASSUME NEW rows \in [Orders -> OrderRow], NEW rows2 \in [Orders -> OrderRow],
         NEW o \in Orders, \A p \in Orders \ {o} : rows2[p] = rows[p], NEW side, NEW c
  PROVE  DoneSum(rows2, side, c)
           = DoneSum(rows, side, c) - DoneOf(rows[o], side, c) + DoneOf(rows2[o], side, c)
<1> DEFINE f == [p \in Orders |-> DoneOf(rows[p], side, c)]
           g == [p \in Orders |-> DoneOf(rows2[p], side, c)]
<1>1. \A p \in Orders : f[p] \in Int /\ g[p] \in Int
  BY DoneNat
<1>2. \A p \in Orders \ {o} : f[p] = g[p]
  OBVIOUS
<1>3. f[o] = DoneOf(rows[o], side, c) /\ g[o] = DoneOf(rows2[o], side, c)
  OBVIOUS
<1>4. SumFunctionOnSet(g, Orders) = SumFunctionOnSet(f, Orders) - f[o] + g[o]
  <2> HIDE DEF f, g
  <2>. QED  BY <1>1, <1>2, FiniteAssumption, SumChange
<1>. QED  BY <1>3, <1>4 DEF DoneSum

\* A coin in the books: what is held and what is on its way, against the history.
Held(c) == assets[c].balance + assets[c].locked
Balanced(c) ==
  Held(c) + PendingOf(pc[MainLoop], dto[MainLoop], c)
    = DoneSum(orders, "bid", c) - DoneSum(orders, "ask", c)
BooksInv == phase = "run" /\ \A c \in Currencies \ {KRW} : Balanced(c)

\* Where no row becomes done and no coin is gained or lost, the books stay balanced.
LEMMA QuietBooks ==
  ASSUME NEW c, Balanced(c), Held(c)' = Held(c),
         PendingOf(pc[MainLoop], dto[MainLoop], c) = 0,
         PendingOf(pc'[MainLoop], dto'[MainLoop], c) = 0,
         \A side \in {"bid", "ask"} : DoneSum(orders', side, c) = DoneSum(orders, side, c)
  PROVE  Balanced(c)'
BY DEF Balanced

LEMMA BooksNext ==
  ASSUME Threads = {MainLoop}, ~ MayCrash
  PROVE  TypeOK /\ TypeOK' /\ FillInv /\ SoleFillInv /\ MemoryInv /\ CoinsFollow /\ BooksInv
           /\ [Next]_vars => BooksInv'
<1> SUFFICES ASSUME TypeOK, TypeOK', FillInv, SoleFillInv, MemoryInv, CoinsFollow, BooksInv,
                    [Next]_vars
             PROVE  BooksInv'
  OBVIOUS
<1>a. phase' = "run" /\ ~ Recover /\ ~ Crash
  <2>1. ~ Recover /\ ~ Crash
    BY DEF BooksInv, Recover, Start, AddLock, SyncAsset, Crash
  <2>2. UNCHANGED phase
    BY <2>1 DEF Next, CreateOrder, CreateBid, CreateAsk, Continue, LockAsset, SaveOrder, UnlockAsset,
             CompleteOrder, SettleBase, SettleUnit, CancelOrder, OrderBook, CheckOrders, vars, bootVars
  <2>. QED  BY <2>1, <2>2 DEF BooksInv
<1> SUFFICES ASSUME NEW c \in Currencies, c # KRW PROVE Balanced(c)'
  BY <1>a DEF BooksInv
<1>b. Balanced(c)
  BY DEF BooksInv
<1>c. MainLoop \in Threads /\ assets \in [Currencies -> Asset] /\ assets[c] \in Asset
      /\ orders \in [Orders -> OrderRow] /\ orders' \in [Orders -> OrderRow]
      /\ pc \in [Threads -> Steps] /\ dto \in [Threads -> OrderRow] /\ dto[MainLoop] \in OrderRow
  BY AccountAssumption DEF TypeOK
<1>d. ASSUME orders' = orders
      PROVE  \A side \in {"bid", "ask"} : DoneSum(orders', side, c) = DoneSum(orders, side, c)
  BY <1>d
<1>e. ASSUME assets'[c] = assets[c] PROVE Held(c)' = Held(c)
  BY <1>e DEF Held
<1>f. ASSUME pc[MainLoop] # "base" PROVE PendingOf(pc[MainLoop], dto[MainLoop], c) = 0
  BY <1>f DEF PendingOf
<1>g. ASSUME pc'[MainLoop] # "base" PROVE PendingOf(pc'[MainLoop], dto'[MainLoop], c) = 0
  BY <1>g DEF PendingOf
\* A lock that is given back or consumed is there.
<1>h. ASSUME pc[MainLoop] \in {"unlock", "base"}, LockCurrency(dto[MainLoop]) = c
      PROVE  dto[MainLoop].locked <= assets[c].locked
  <2>1. assets[c].locked = Owed(c)
    BY DEF CoinsFollow, BooksInv
  <2>2. HeldOf(pc[MainLoop], dto[MainLoop], c) = dto[MainLoop].locked
    BY <1>h DEF HeldOf
  <2>3. HeldOf(pc[MainLoop], dto[MainLoop], c) <= HeldSum(pc, dto, c)
    BY <1>c, HeldSums
  <2>4. OpenSum(orders, c) \in Nat /\ HeldSum(pc, dto, c) \in Nat /\ dto[MainLoop].locked \in Nat
    BY <1>c, OwedSums DEF OrderRow
  <2>. QED  BY <2>1, <2>2, <2>3, <2>4 DEF Owed
<1>1. CASE UNCHANGED vars
  <2>1. UNCHANGED <<assets, orders, pc, dto>>
    BY <1>1 DEF vars, dbVars, threadVars
  <2>. QED  BY <1>b, <1>d, <2>1 DEF Balanced, Held
<1>2. CASE CreateOrder(MainLoop) \/ OrderBook
  <2>1. /\ UNCHANGED <<assets, orders>> /\ pc[MainLoop] = "idle"
        /\ pc'[MainLoop] \in {"lock", "complete"}
    BY <1>2, <1>c
    DEF CreateOrder, CreateBid, CreateAsk, OrderBook, CheckOrders, Idle, Goto, dbVars
  <2>. QED  BY <1>b, <1>d, <1>e, <1>f, <1>g, <2>1, QuietBooks
<1>3. CASE LockAsset(MainLoop)
  <2>1. /\ orders' = orders /\ pc[MainLoop] = "lock" /\ pc'[MainLoop] \in {"save", "idle"}
    BY <1>3, <1>c DEF LockAsset, Return, Goto
  <2>2. Held(c)' = Held(c)
    <3>1. \/ assets'[c] = assets[c]
          \/ assets'[c] = Locked(assets[c], dto[MainLoop].locked)
      BY <1>3, <1>c DEF LockAsset
    <3>. QED  BY <3>1, <1>c DEF Held, Locked, Asset, OrderRow
  <2>. QED  BY <1>b, <1>d, <1>f, <1>g, <2>1, <2>2, QuietBooks
<1>4. CASE SaveOrder(MainLoop)
  <2>1. /\ assets' = assets /\ pc[MainLoop] = "save" /\ pc'[MainLoop] = "idle"
        /\ dto[MainLoop].state = "wait"
    BY <1>4, <1>c DEF SaveOrder, Return, Goto, MemoryInv
  <2>2. PICK o \in Orders : orders[o].state = "none" /\ orders' = [orders EXCEPT ![o] = dto[MainLoop]]
    BY <1>4 DEF SaveOrder
  <2>3. ASSUME NEW side PROVE DoneSum(orders', side, c) = DoneSum(orders, side, c)
    <3>1. DoneOf(orders[o], side, c) = 0 /\ DoneOf(orders'[o], side, c) = 0
      BY <1>c, <2>1, <2>2 DEF DoneOf
    <3>2. \A p \in Orders \ {o} : orders'[p] = orders[p]
      BY <1>c, <2>2
    <3>. QED  BY <1>c, <3>1, <3>2, DoneChange, DoneSums
  <2>. QED  BY <1>b, <1>e, <1>f, <1>g, <2>1, <2>3, QuietBooks
<1>5. ASSUME NEW o \in Orders, CancelOrder(MainLoop, o) PROVE Balanced(c)'
  <2>1. /\ assets' = assets /\ pc[MainLoop] = "idle" /\ pc'[MainLoop] = "unlock"
        /\ orders[o].state = "wait" /\ orders'[o].state = "cancel"
        /\ \A p \in Orders \ {o} : orders'[p] = orders[p]
    BY <1>5, <1>c DEF CancelOrder, Idle, Goto, Cancellable, OrderRow
  <2>2. ASSUME NEW side PROVE DoneSum(orders', side, c) = DoneSum(orders, side, c)
    <3>1. DoneOf(orders[o], side, c) = 0 /\ DoneOf(orders'[o], side, c) = 0
      BY <2>1 DEF DoneOf
    <3>. QED  BY <1>c, <2>1, <3>1, DoneChange, DoneSums
  <2>. QED  BY <1>b, <1>e, <1>f, <1>g, <2>1, <2>2, QuietBooks
<1>6. CASE UnlockAsset(MainLoop)
  <2>1. /\ orders' = orders /\ pc[MainLoop] = "unlock" /\ pc'[MainLoop] = "idle"
        /\ assets'[c] = IF LockCurrency(dto[MainLoop]) = c
                        THEN Unlocked(assets[c], dto[MainLoop].locked) ELSE assets[c]
    BY <1>6, <1>c DEF UnlockAsset, Return, Goto
  <2>2. Held(c)' = Held(c)
    <3>1. CASE LockCurrency(dto[MainLoop]) = c
      <4>1. dto[MainLoop].locked <= assets[c].locked
        BY <1>h, <2>1, <3>1
      <4>. QED  BY <1>c, <2>1, <3>1, <4>1 DEF Held, Unlocked, AtLeastZero, Asset, OrderRow
    <3>2. CASE LockCurrency(dto[MainLoop]) # c
      BY <2>1, <3>2 DEF Held
    <3>. QED  BY <3>1, <3>2
  <2>. QED  BY <1>b, <1>d, <1>f, <1>g, <2>1, <2>2, QuietBooks
<1>7. CASE CompleteOrder(MainLoop)
  <2> DEFINE o == uuid[MainLoop]
             r == dto[MainLoop]
  <2>1. /\ assets' = assets /\ pc[MainLoop] = "complete" /\ pc'[MainLoop] = "base" /\ dto' = dto
        /\ o \in Orders /\ orders[o].state = "wait"
        /\ orders'[o] = [r EXCEPT !.state = "done"]
        /\ \A p \in Orders \ {o} : orders'[p] = orders[p]
    BY <1>7, <1>c DEF CompleteOrder, Goto, FillInv, SoleFillInv
  <2>2. /\ r.side \in {"bid", "ask"} /\ r.volume \in Nat /\ orders'[o].state = "done"
        /\ orders'[o].side = r.side /\ orders'[o].volume = r.volume /\ orders'[o].market = r.market
    BY <1>c, <2>1 DEF OrderRow
  <2> HIDE DEF o, r
  <2>3. ASSUME NEW side
        PROVE  /\ DoneSum(orders', side, c) = DoneSum(orders, side, c) + DoneOf(orders'[o], side, c)
               /\ DoneSum(orders, side, c) \in Nat
    <3>1. DoneOf(orders[o], side, c) = 0
      BY <2>1 DEF DoneOf
    <3>2. DoneSum(orders', side, c) = DoneSum(orders, side, c) - 0 + DoneOf(orders'[o], side, c)
      BY <1>c, <2>1, <3>1, DoneChange
    <3>3. DoneSum(orders, side, c) \in Nat /\ DoneOf(orders'[o], side, c) \in Nat
      BY <1>c, <2>1, DoneSums, DoneNat
    <3>. QED  BY <3>2, <3>3
  <2>4. PendingOf(pc'[MainLoop], dto'[MainLoop], c)
          = DoneOf(orders'[o], "bid", c) - DoneOf(orders'[o], "ask", c)
    BY <2>1, <2>2 DEF PendingOf, DoneOf, r
  <2>5. PendingOf(pc[MainLoop], dto[MainLoop], c) = 0 /\ Held(c)' = Held(c) /\ Held(c) \in Nat
    BY <1>c, <1>f, <2>1 DEF Held, Asset
  <2>6. DoneOf(orders'[o], "bid", c) \in Nat /\ DoneOf(orders'[o], "ask", c) \in Nat
    BY <1>c, <2>1, DoneNat
  <2>7. Held(c)' + PendingOf(pc'[MainLoop], dto'[MainLoop], c)
          = DoneSum(orders', "bid", c) - DoneSum(orders', "ask", c)
    BY <1>b, <2>3, <2>4, <2>5, <2>6 DEF Balanced
  <2>. QED  BY <2>7 DEF Balanced
<1>8. CASE SettleBase(MainLoop)
  <2> DEFINE r == dto[MainLoop]
  <2>1. /\ orders' = orders /\ pc[MainLoop] = "base" /\ pc'[MainLoop] = "unit"
        /\ assets'[c] = IF c # Base[r.market] THEN assets[c]
                        ELSE IF r.side = "bid" THEN Credited(assets[c], r.volume)
                        ELSE AskConsumed(assets[c], r)
    BY <1>8, <1>c DEF SettleBase, Goto
  <2>2. /\ r.volume \in Nat /\ r.locked \in Nat /\ r.side \in {"bid", "ask"}
        /\ r.side = "ask" => r.locked = r.volume
    BY <1>c, <2>1 DEF OrderRow, MemoryInv, LocksVolume
  <2>3. r.side = "ask" /\ c = Base[r.market] => r.locked <= assets[c].locked
    BY <1>h, <2>1 DEF LockCurrency
  <2> HIDE DEF r
  <2>4. Held(c)' = Held(c) + PendingOf(pc[MainLoop], r, c) /\ Held(c) \in Nat
    BY <1>c, <2>1, <2>2, <2>3
    DEF Held, PendingOf, Credited, AskConsumed, AtLeastZero, Asset
  <2>5. Held(c)' + PendingOf(pc'[MainLoop], dto'[MainLoop], c)
          = DoneSum(orders', "bid", c) - DoneSum(orders', "ask", c)
    <3>1. PendingOf(pc[MainLoop], r, c) \in Int
      BY <2>2 DEF PendingOf
    <3>2. PendingOf(pc'[MainLoop], dto'[MainLoop], c) = 0
      BY <1>g, <2>1
    <3>. QED  BY <1>b, <1>d, <2>1, <2>4, <3>1, <3>2 DEF Balanced, r
  <2>. QED  BY <2>5 DEF Balanced
<1>9. CASE SettleUnit(MainLoop)
  <2>1. /\ orders' = orders /\ pc[MainLoop] = "unit" /\ pc'[MainLoop] = "idle"
        /\ assets'[c] = assets[c]
    BY <1>9, <1>c DEF SettleUnit, Return, Goto
  <2>. QED  BY <1>b, <1>d, <1>e, <1>f, <1>g, <2>1, QuietBooks
<1>. QED
  BY <1>a, <1>1, <1>2, <1>3, <1>4, <1>5, <1>6, <1>7, <1>8, <1>9 DEF Next, Continue

LEMMA BooksInit == Init => BooksInv
<1> SUFFICES ASSUME Init, NEW c \in Currencies, c # KRW PROVE Balanced(c)
  BY DEF BooksInv, Init
<1>1. Held(c) = 0 /\ PendingOf(pc[MainLoop], dto[MainLoop], c) = 0
  BY AccountAssumption DEF Init, Held, PendingOf
<1>2. ASSUME NEW side PROVE DoneSum(orders, side, c) = 0
  <2> DEFINE f == [o \in Orders |-> DoneOf(orders[o], side, c)]
  <2>1. \A o \in Orders : f[o] = 0
    BY BlankRow DEF Init, DoneOf
  <2>2. SumFunctionOnSet(f, Orders) = 0
    <3> HIDE DEF f
    <3>. QED  BY <2>1, FiniteAssumption, ZeroSum
  <2>. QED  BY <2>2 DEF DoneSum
<1>. QED  BY <1>1, <1>2 DEF Balanced

\* If only the main loop calls the account and it is not killed, the coins locked are
\* those of the orders, and the coins held are those the orders bought and did not sell.
THEOREM SoleThreadCoinsAddUp ==
  ASSUME Threads = {MainLoop}, ~ MayCrash, \A m \in Markets : Unit[m] = KRW
  PROVE  Spec => []CoinsAddUp
<1>1. AllKrw
  BY DEF AllKrw
<1>2. Spec => []BooksInv
  BY <1>1, BooksInit, BooksNext, SoleFill, SoleCoins, AccountMemory, PTL DEF Spec
<1>3. Spec => []EventInv
  BY EventInit, EventNext, AccountTypeOK, PTL DEF Spec
<1>4. TypeOK /\ EventInv /\ BooksInv => CoinBooksBalance
  <2> SUFFICES ASSUME TypeOK, EventInv, BooksInv, MutexFree, NEW c \in Currencies, c # KRW
               PROVE  assets[c].balance + assets[c].locked = Traded("bid", c) - Traded("ask", c)
    BY DEF CoinBooksBalance
  <2>1. pc[MainLoop] # "base"
    BY AccountAssumption DEF EventInv, MutexFree
  <2>2. PendingOf(pc[MainLoop], dto[MainLoop], c) = 0
    BY <2>1 DEF PendingOf
  <2>3. \A side : Traded(side, c) = DoneSum(orders, side, c)
    BY DoneSums DEF Traded, TypeOK
  <2>4. Balanced(c) /\ assets[c].balance \in Nat /\ assets[c].locked \in Nat
    BY DEF BooksInv, TypeOK, Asset
  <2>. QED  BY <2>2, <2>3, <2>4 DEF Balanced, Held
<1>. QED  BY <1>2, <1>3, <1>4, SoleThreadLocksAreExact, AccountTypeOK, PTL DEF CoinsAddUp
=============================================================================
