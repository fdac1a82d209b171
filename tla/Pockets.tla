------------------------------ MODULE Pockets ------------------------------
(***************************************************************************)
(* Pockets from the buy that opens them to the sale that closes them:      *)
(* PocketManager (src/pocket_manager.py), the handlers of Manager          *)
(* (src/main.py) it calls back and is called by, the DefaultStrategy every *)
(* pocket gets, and the orders of the account, for one ticker.             *)
(*                                                                         *)
(* Manager's main loop takes tasks from task_queue: fills of orders and    *)
(* signals of strategies.  The MCP server's thread calls the same managers *)
(* directly, without a lock.  A saved pocket, order or strategy survives a *)
(* crash; the queue, and where a thread was, do not.  One action below is  *)
(* one save, or one look at shared state whose outcome is used later.      *)
(*                                                                         *)
(* The account's own steps are in Account; here a sale either locks its    *)
(* coins and leaves an order, or raises.  Prices appear only as the rank   *)
(* of an entry price, and when a strategy signals is left open.  A pocket  *)
(* object and its row are one record: every assignment is followed by      *)
(* save().  A strategy is named by its pocket: on_pocket_created is called *)
(* once for each.                                                          *)
(***************************************************************************)
EXTENDS Integers, Sequences, FiniteSets, FiniteSetsExt

CONSTANTS Threads, MainLoop,
          PocketIds,     \* the ids pockets may get
          Bids, Asks,    \* the uuids buy orders and sell orders may get
          Volumes,       \* volumes a command may name
          Entries,       \* ranks of entry prices
          ManualSales,   \* whether sell commands are given
          Cancels,       \* whether orders are cancelled
          MayCrash,      \* whether the process may be killed and restarted
          QueueMax,      \* bound: no signal is queued behind this many tasks
          NoPocket, NoOrder

Orders == Bids \cup Asks

ASSUME PocketsAssumption ==
  /\ MainLoop \in Threads
  /\ NoPocket \notin PocketIds /\ NoOrder \notin Orders
  /\ Bids \cap Asks = {}
  /\ Volumes \subseteq Nat \ {0} /\ Entries \subseteq Nat
  /\ {ManualSales, Cancels, MayCrash} \subseteq BOOLEAN
  /\ QueueMax \in Nat

\* Of threads, pockets and uuids there are finitely many, so volumes add up.
ASSUME FiniteAssumption == IsFiniteSet(Threads) /\ IsFiniteSet(PocketIds) /\ IsFiniteSet(Bids)

VARIABLES pockets,     \* id -> pocket, "none" before it is created
          table,       \* ids with a row in the table pockets (not archived)
          loaded,      \* keys of PocketManager.pockets
          stratRows,   \* pockets whose strategy has a row
          strategies,  \* pockets whose strategy is in StrategyManager.strategies
          orders,      \* uuid -> state and volume
          coins,       \* free coins of the ticker
          queue,       \* Manager.task_queue
          at           \* where each thread is, and what it carries

dbVars == <<pockets, table, stratRows, orders, coins>>
memVars == <<loaded, strategies, queue, at>>
vars == <<dbVars, memVars>>

Pocket == [status : {"none", "active", "closing", "closed"}, volume : Nat,
           entry : Nat, order : Asks \cup {NoOrder}]
NoRow == [status |-> "none", volume |-> 0, entry |-> 0, order |-> NoOrder]
Order == [state : {"none", "wait", "done", "cancel"}, volume : Nat]
Task == [kind : {"fill"}, order : Orders] \cup [kind : {"close"}, pocket : PocketIds]

\* A thread's frame: the next step, what follows the notification it is in, the
\* pocket and the order worked on, a pocket just made, the volume of a sale yet
\* to be assigned, and the pockets yet to be visited.
Steps == {"idle", "reason", "guard", "closing", "updated", "sell", "link", "cleanup",
          "create", "opened", "match", "closed", "split", "copy", "targets", "purge",
          "purged", "sweep"}
Frame == [step : Steps, then : Steps, pocket : PocketIds \cup {NoPocket},
          order : Orders \cup {NoOrder}, new : PocketIds \cup {NoPocket},
          rest : Nat, todo : SUBSET PocketIds]
IdleFrame == [step |-> "idle", then |-> "idle", pocket |-> NoPocket, order |-> NoOrder,
              new |-> NoPocket, rest |-> 0, todo |-> {}]

Init ==
  /\ pockets = [p \in PocketIds |-> NoRow]
  /\ table = {} /\ loaded = {} /\ stratRows = {} /\ strategies = {}
  /\ orders = [o \in Orders |-> [state |-> "none", volume |-> 0]]
  /\ coins = 0
  /\ queue = <<>>
  /\ at = [t \in Threads |-> IdleFrame]

----------------------------------------------------------------------------
Idle(t) == at[t].step = "idle"
At(t, s) == at[t].step = s
Goto(t, frame) == at' = [at EXCEPT ![t] = frame]
Return(t) == Goto(t, IdleFrame)

IsOpen(p) == pockets[p].status \in {"active", "closing"}

\* Pocket.save: the object is written whole, under its id, archived or not.
Save(p, pocket) == /\ pockets' = [pockets EXCEPT ![p] = pocket]
                   /\ table' = table \cup {p}

\* delete_strategies_by_pocket_id and archive_strategy: memory and rows.
DropStrategies(ps) == /\ strategies' = strategies \ ps
                      /\ stratRows' = stratRows \ ps

NewOrder(o, volume) == /\ orders[o].state = "none"
                       /\ orders' = [orders EXCEPT ![o] = [state |-> "wait", volume |-> volume]]

----------------------------------------------------------------------------
(* Closing a pocket: set_reason, close_pocket, on_pocket_updated *)

\* A CLOSE_POCKET signal, or the MCP tool: set_reason finds the pocket.  One
\* that is not loaded is only warned of, by close_pocket as well.
BeginClose(t, p) ==
  IF p \in loaded THEN Goto(t, [IdleFrame EXCEPT !.step = "reason", !.pocket = p])
  ELSE UNCHANGED at

\* set_reason saves the pocket and notifies Manager; close_pocket comes next.
SetReason(t) ==
  LET p == at[t].pocket
  IN  /\ At(t, "reason")
      /\ Save(p, pockets[p])
      /\ Goto(t, [at[t] EXCEPT !.step = "updated", !.then = "guard"])
      /\ UNCHANGED <<stratRows, orders, coins, loaded, strategies, queue>>

\* MUTANT of Closable: the status is not looked at.
ClosableAny(p) == p \in loaded

Closable(p) == p \in loaded /\ pockets[p].status = "active"

ClosePocket(t) ==
  /\ At(t, "guard")
  /\ IF Closable(at[t].pocket) THEN Goto(t, [at[t] EXCEPT !.step = "closing"]) ELSE Return(t)
  /\ UNCHANGED <<dbVars, loaded, strategies, queue>>

MarkClosing(t) ==
  LET p == at[t].pocket
  IN  /\ At(t, "closing")
      /\ Save(p, [pockets[p] EXCEPT !.status = "closing"])
      /\ Goto(t, [at[t] EXCEPT !.step = "updated", !.then = "idle"])
      /\ UNCHANGED <<stratRows, orders, coins, loaded, strategies, queue>>

\* MUTANTS of NeedsSale: a pocket that has its order gets another, or the wrong
\* status is compared.
NeedsSaleAlways(p) == pockets[p].status = "closing"
NeedsSaleClosed(p) == pockets[p].status = "closed" /\ pockets[p].order = NoOrder

NeedsSale(p) == pockets[p].status = "closing" /\ pockets[p].order = NoOrder

\* on_pocket_updated: a closing pocket without an order is sold.
OnPocketUpdated(t) ==
  /\ At(t, "updated")
  /\ Goto(t, [at[t] EXCEPT !.step = IF NeedsSale(at[t].pocket) THEN "sell" ELSE "cleanup"])
  /\ UNCHANGED <<dbVars, loaded, strategies, queue>>

\* MUTANT of Affordable: the balance is not looked at.
AffordableAny(volume) == TRUE

Affordable(volume) == coins >= volume

\* sell_market_order: too few coins raise, and the whole task is given up.
SellPocket(t) ==
  LET volume == pockets[at[t].pocket].volume
  IN  /\ At(t, "sell")
      /\ \/ /\ ~ Affordable(volume)
            /\ Return(t)
            /\ UNCHANGED <<orders, coins>>
         \/ /\ Affordable(volume)
            /\ coins' = coins - volume
            /\ \E o \in Asks : /\ NewOrder(o, volume)
                               /\ Goto(t, [at[t] EXCEPT !.step = "link", !.order = o])
      /\ UNCHANGED <<pockets, table, stratRows, loaded, strategies, queue>>

LinkOrder(t) ==
  LET p == at[t].pocket
  IN  /\ At(t, "link")
      /\ Save(p, [pockets[p] EXCEPT !.order = at[t].order])
      /\ Goto(t, [at[t] EXCEPT !.step = "cleanup"])
      /\ UNCHANGED <<stratRows, orders, coins, loaded, strategies, queue>>

MustCleanUpLate(p) == pockets[p].status = "closed" /\ pockets[p].order = NoOrder

MustCleanUp(p) == pockets[p].status = "closed"

\* The end of on_pocket_updated: the strategies of a closed pocket are deleted.
CleanUp(t) ==
  /\ At(t, "cleanup")
  /\ IF MustCleanUp(at[t].pocket) THEN DropStrategies({at[t].pocket})
     ELSE UNCHANGED <<strategies, stratRows>>
  /\ IF at[t].then = "idle" THEN Return(t) ELSE Goto(t, [at[t] EXCEPT !.step = at[t].then])
  /\ UNCHANGED <<pockets, table, orders, coins, loaded, queue>>

----------------------------------------------------------------------------
(* A filled order: on_order_completed *)

\* MUTANT of LinkedTo: no pocket is found by its order.
LinkedToNone(o) == {}

\* get_pocket_by_order_id.  A part split off has its pocket's order as well,
\* but comes after it.
LinkedTo(o) ==
  LET linked == {p \in loaded : pockets[p].order = o}
  IN  IF \E p \in linked : IsOpen(p) THEN {p \in linked : IsOpen(p)} ELSE linked

\* get_pockets, with only_active.
TargetsOf == {p \in loaded : pockets[p].status # "closed"}

FillBid(o) ==
  o \in Bids /\ Goto(MainLoop, [IdleFrame EXCEPT !.step = "create", !.order = o])

\* The pocket the order belongs to is closed, if it is not yet; an order of no
\* pocket is matched against the pockets of its ticker.
FillAsk(o) ==
  /\ o \in Asks
  /\ \/ \E p \in LinkedTo(o) :
          IF IsOpen(p) THEN Goto(MainLoop, [IdleFrame EXCEPT !.step = "closed", !.pocket = p])
          ELSE UNCHANGED at
     \/ /\ LinkedTo(o) = {}
        /\ Goto(MainLoop, [IdleFrame EXCEPT !.step = "match", !.todo = TargetsOf,
                                            !.rest = orders[o].volume])

\* create_pocket: the object and its row, then on_pocket_created.
CreatePocket(t) ==
  /\ At(t, "create")
  /\ \E p \in PocketIds, e \in Entries :
       /\ pockets[p].status = "none"
       /\ Save(p, [status |-> "active", volume |-> orders[at[t].order].volume,
                   entry |-> e, order |-> NoOrder])
       /\ loaded' = loaded \cup {p}
       /\ Goto(t, [IdleFrame EXCEPT !.step = "opened", !.new = p])
  /\ UNCHANGED <<stratRows, orders, coins, strategies, queue>>

\* on_pocket_created: add_strategy saves the row and keeps the strategy.
OnPocketCreated(t) ==
  /\ At(t, "opened")
  /\ stratRows' = stratRows \cup {at[t].new}
  /\ strategies' = strategies \cup {at[t].new}
  /\ Return(t)
  /\ UNCHANGED <<pockets, table, orders, coins, loaded, queue>>

\* closed_pocket, past its check of the status.
MarkClosed(t) ==
  LET p == at[t].pocket
  IN  /\ At(t, "closed")
      /\ Save(p, [pockets[p] EXCEPT !.status = "closed"])
      /\ Goto(t, [at[t] EXCEPT !.step = "updated",
                               !.then = IF at[t].todo = {} /\ at[t].rest = 0 THEN "idle" ELSE "match"])
      /\ UNCHANGED <<stratRows, orders, coins, loaded, strategies, queue>>

\* close_pockets_by_ticker: the lowest entry price first, while volume is left.
MatchSale(t) ==
  LET todo == at[t].todo
      rest == at[t].rest
  IN  /\ At(t, "match")
      /\ \/ /\ rest = 0 \/ todo = {}
            /\ Return(t)
         \/ /\ rest > 0
            /\ \E p \in todo :
                 /\ \A q \in todo : pockets[p].entry <= pockets[q].entry
                 /\ Goto(t, IF rest < pockets[p].volume
                            THEN [at[t] EXCEPT !.step = "split", !.pocket = p, !.todo = {}]
                            ELSE [at[t] EXCEPT !.step = IF p \in loaded /\ IsOpen(p)
                                                        THEN "closed" ELSE "match",
                                               !.pocket = p, !.todo = @ \ {p},
                                               !.rest = @ - pockets[p].volume])
      /\ UNCHANGED <<dbVars, loaded, strategies, queue>>

\* MUTANT of Remaining: the volume sold is not taken off.
RemainingWhole(p, sold) == pockets[p]

Remaining(p, sold) == [pockets[p] EXCEPT !.volume = @ - sold]

\* A partial close: the pocket is copied and saved with what remains of it.
SplitPocket(t) ==
  LET p == at[t].pocket
  IN  /\ At(t, "split")
      /\ Save(p, Remaining(p, at[t].rest))
      /\ Goto(t, [at[t] EXCEPT !.step = "copy", !.order = pockets[p].order])
      /\ UNCHANGED <<stratRows, orders, coins, loaded, strategies, queue>>

\* Then the copy is saved as closed; both are notified, the copy as created.
SaveCopy(t) ==
  /\ At(t, "copy")
  /\ \E q \in PocketIds :
       /\ pockets[q].status = "none"
       /\ Save(q, [pockets[at[t].pocket] EXCEPT !.volume = at[t].rest, !.status = "closed",
                                               !.order = at[t].order])
       /\ loaded' = loaded \cup {q}
       /\ Goto(t, [at[t] EXCEPT !.step = "updated", !.then = "opened", !.new = q, !.rest = 0])
  /\ UNCHANGED <<stratRows, orders, coins, strategies, queue>>

----------------------------------------------------------------------------
(* Commands and tools: buy, sell, sell everything, cancel *)

Buy(t) ==
  /\ Idle(t)
  /\ \E o \in Bids, v \in Volumes : NewOrder(o, v)
  /\ UNCHANGED <<pockets, table, stratRows, coins, memVars>>

\* The bound of the model: an order is given by hand only when uuids are left
\* for the sale of every pocket.
UuidLeft ==
  Cardinality({p \in PocketIds : pockets[p].status \in {"none", "active"} \/ NeedsSale(p)})
    < Cardinality({o \in Asks : orders[o].state = "none"})

Sell(t) ==
  /\ ManualSales /\ Idle(t) /\ UuidLeft
  /\ \E o \in Asks, v \in Volumes : /\ Affordable(v)
                                    /\ NewOrder(o, v)
                                    /\ coins' = coins - v
  /\ UNCHANGED <<pockets, table, stratRows, memVars>>

\* Selling everything: one order over the free coins, even if there are none,
\* and then the pockets and strategies of the ticker are archived.
SellAll(t) ==
  /\ ManualSales /\ Idle(t) /\ UuidLeft
  /\ \E o \in Asks : NewOrder(o, coins)
  /\ coins' = 0
  /\ Goto(t, [IdleFrame EXCEPT !.step = "targets"])
  /\ UNCHANGED <<pockets, table, stratRows, loaded, strategies, queue>>

ListTargets(t) ==
  /\ At(t, "targets")
  /\ Goto(t, [at[t] EXCEPT !.step = "purge", !.todo = TargetsOf])
  /\ UNCHANGED <<dbVars, loaded, strategies, queue>>

\* archive_pocket: the row moves to the archive, in one transaction.  (A second
\* archiving of one id, which would fail, needs a crash and two threads.)
ArchivePocket(t) ==
  /\ At(t, "purge")
  /\ \/ /\ at[t].todo = {}
        /\ Goto(t, [at[t] EXCEPT !.step = "sweep", !.todo = strategies])
        /\ UNCHANGED table
     \/ \E p \in at[t].todo :
          /\ table' = IF p \in loaded THEN table \ {p} ELSE table
          /\ Goto(t, [at[t] EXCEPT !.step = IF p \in loaded THEN "purged" ELSE "purge",
                                   !.pocket = p, !.todo = @ \ {p}])
  /\ UNCHANGED <<pockets, stratRows, orders, coins, loaded, strategies, queue>>

\* on_pocket_deleted, and the pocket leaves memory.
OnPocketDeleted(t) ==
  LET p == at[t].pocket
  IN  /\ At(t, "purged")
      /\ DropStrategies({p})
      /\ loaded' = loaded \ {p}
      /\ Goto(t, [at[t] EXCEPT !.step = "purge"])
      /\ UNCHANGED <<pockets, table, orders, coins, queue>>

\* archive_strategy, for the strategies of the ticker that were listed.
SweepStrategy(t) ==
  /\ At(t, "sweep")
  /\ \/ /\ at[t].todo = {}
        /\ Return(t)
        /\ UNCHANGED <<strategies, stratRows>>
     \/ \E p \in at[t].todo : /\ DropStrategies({p})
                              /\ Goto(t, [at[t] EXCEPT !.todo = @ \ {p}])
  /\ UNCHANGED <<pockets, table, orders, coins, loaded, queue>>

Cancel(t) ==
  /\ Cancels /\ Idle(t)
  /\ \E o \in Orders :
       /\ orders[o].state = "wait"
       /\ orders' = [orders EXCEPT ![o].state = "cancel"]
       /\ coins' = IF o \in Asks THEN coins + orders[o].volume ELSE coins
  /\ UNCHANGED <<pockets, table, stratRows, memVars>>

----------------------------------------------------------------------------
(* The main loop's inputs *)

\* A tick on which the strategy of a pocket signals CLOSE_POCKET.
Signal(p) ==
  /\ Idle(MainLoop) /\ p \in strategies /\ Len(queue) < QueueMax
  /\ queue' = Append(queue, [kind |-> "close", pocket |-> p])
  /\ UNCHANGED <<dbVars, loaded, strategies, at>>

\* An order book fills an order; its myOrder event is queued.
Execute(o) ==
  /\ Idle(MainLoop) /\ orders[o].state = "wait"
  /\ orders' = [orders EXCEPT ![o].state = "done"]
  /\ coins' = IF o \in Bids THEN coins + orders[o].volume ELSE coins
  /\ queue' = Append(queue, [kind |-> "fill", order |-> o])
  /\ UNCHANGED <<pockets, table, stratRows, loaded, strategies, at>>

TakeTask ==
  /\ Idle(MainLoop) /\ queue # <<>>
  /\ LET task == Head(queue)
     IN  IF task.kind = "close" THEN BeginClose(MainLoop, task.pocket)
         ELSE FillBid(task.order) \/ FillAsk(task.order)
  /\ queue' = Tail(queue)
  /\ UNCHANGED <<dbVars, loaded, strategies>>

\* The MCP tool closes a pocket from its own thread.
ToolClose(t) ==
  /\ t # MainLoop /\ Idle(t)
  /\ \E p \in loaded : BeginClose(t, p)
  /\ UNCHANGED <<dbVars, loaded, strategies, queue>>

\* The process is killed; the restart loads the pockets that are not closed,
\* and every strategy that has a row.
Crash ==
  /\ MayCrash
  /\ loaded' = {p \in table : pockets[p].status # "closed"}
  /\ strategies' = stratRows
  /\ queue' = <<>>
  /\ at' = [t \in Threads |-> IdleFrame]
  /\ UNCHANGED dbVars

Command(t) == Buy(t) \/ Sell(t) \/ SellAll(t) \/ Cancel(t) \/ ToolClose(t)

Continue(t) ==
  \/ SetReason(t) \/ ClosePocket(t) \/ MarkClosing(t)
  \/ OnPocketUpdated(t) \/ SellPocket(t) \/ LinkOrder(t) \/ CleanUp(t)
  \/ CreatePocket(t) \/ OnPocketCreated(t) \/ MarkClosed(t)
  \/ MatchSale(t) \/ SplitPocket(t) \/ SaveCopy(t)
  \/ ListTargets(t) \/ ArchivePocket(t) \/ OnPocketDeleted(t) \/ SweepStrategy(t)

Next ==
  \/ \E t \in Threads : Command(t) \/ Continue(t)
  \/ \E p \in PocketIds : Signal(p)
  \/ \E o \in Orders : Execute(o)
  \/ TakeTask
  \/ Crash

Spec == Init /\ [][Next]_vars

\* Threads go on, the queue is first in, first out, and order books keep coming
\* (a market order is filled by any of them, older orders first).  Nobody has
\* to give a command, and no strategy has to signal.
Fairness == /\ \A t \in Threads : WF_vars(Continue(t))
            /\ SF_vars(TakeTask)
            /\ \A o \in Orders : SF_vars(Execute(o))

FairSpec == Spec /\ Fairness

----------------------------------------------------------------------------
(* Properties *)

\* The shapes of rows, frames and tasks; only loaded pockets exist.
TypeOK ==
  /\ pockets \in [PocketIds -> Pocket]
  /\ table \subseteq PocketIds /\ loaded \subseteq PocketIds
  /\ stratRows \subseteq PocketIds /\ strategies \subseteq PocketIds
  /\ orders \in [Orders -> Order]
  /\ coins \in Nat
  /\ queue \in Seq(Task)
  /\ at \in [Threads -> Frame]

\* No pocket is sold twice: every sale that is open or done is the recorded
\* order of a pocket, or is being recorded.  A second sale for the same pocket
\* would leave the first without one.  (on_pocket_updated, with signals that
\* repeat on every tick while the sale waits.)
NoOrphanSale ==
  \A o \in Asks :
    orders[o].state \in {"wait", "done"} =>
      \/ \E p \in PocketIds : pockets[p].order = o
      \/ \E t \in Threads : At(t, "link") /\ at[t].order = o

\* Pockets whose coins are still to be sold.
Unsold == {p \in PocketIds : /\ \/ pockets[p].status = "active"
                                \/ pockets[p].status = "closing" /\ pockets[p].order = NoOrder
                             /\ ~ \E t \in Threads : At(t, "link") /\ at[t].pocket = p}

VolumeOf(ps) == SumFunctionOnSet([p \in PocketIds |-> pockets[p].volume], ps)

\* Every pocket can be sold: the free coins cover the pockets that have no
\* sale, so closing one never raises.  (create_pocket against
\* on_pocket_updated and the account's locks.)
PocketsAreBacked == coins >= VolumeOf(Unsold)

\* A pocket is closed by its own sale, once that is filled.
\* (on_order_completed, get_pocket_by_order_id.)
ClosedWasSold ==
  \A p \in PocketIds :
    pockets[p].status = "closed" =>
      /\ pockets[p].order # NoOrder
      /\ orders[pockets[p].order].state = "done"

\* Of every pocket, what is not sold is free and what is closed has been sold.
PocketsAccountedFor == PocketsAreBacked /\ ClosedWasSold

AllIdle == \A t \in Threads : Idle(t)
InTable(p) == p \in table /\ IsOpen(p)

\* Between tasks, a pocket that is open has its strategy, in memory and saved.
\* (on_pocket_created.)
OpenPocketHasStrategy ==
  AllIdle => \A p \in PocketIds : InTable(p) => p \in strategies \cap stratRows

\* Between tasks, a strategy belongs to an open pocket.  (on_pocket_updated and
\* on_pocket_deleted delete the others.)
StrategyEndsWithPocket ==
  AllIdle => \A p \in strategies \cup stratRows : InTable(p)

\* An open pocket has its strategy, and only an open pocket has one.
PocketsHaveStrategies == OpenPocketHasStrategy /\ StrategyEndsWithPocket

\* No buy is lost and none is counted twice: the volume of filled buys is that
\* of the pockets, whole or split, open or not, and of fills on their way.
DoneBids == {o \in Bids : orders[o].state = "done"}
Creating == {t \in Threads : At(t, "create")}
Copying == {t \in Threads : At(t, "copy")}
Queued == {o \in Bids : \E i \in DOMAIN queue : queue[i] = [kind |-> "fill", order |-> o]}
OrderVolume(os) == SumFunctionOnSet([o \in Bids |-> orders[o].volume], os)
Bought == OrderVolume(DoneBids)
OnTheWay == OrderVolume(Queued)
              + SumFunctionOnSet([t \in Creating |-> orders[at[t].order].volume], Creating)
              + SumFunctionOnSet([t \in Threads |-> at[t].rest], Copying)

VolumeConserved == VolumeOf(PocketIds) + OnTheWay = Bought

\* A crash may lose a fill, but never makes a pocket of a buy twice.
VolumeNotInvented == VolumeOf(PocketIds) + OnTheWay <= Bought

\* A pocket that is closing is closed in the end, though its strategy goes on
\* signalling and other orders are cancelled: but for one whose own sale was
\* cancelled, which keeps the order's id and stays closing for ever.
SaleCancelled(p) ==
  pockets[p].order # NoOrder /\ orders[pockets[p].order].state = "cancel"
ClosingEnds ==
  \A p \in PocketIds :
    pockets[p].status = "closing" ~> pockets[p].status = "closed" \/ SaleCancelled(p)

\* The lifecycle the documents promise; an archived pocket has no row left.
LifecycleStatus == [p \in PocketIds |-> IF pockets[p].status # "none" /\ p \notin table
                                        THEN "archived" ELSE pockets[p].status]

Lifecycle == INSTANCE PocketLifecycle WITH status <- LifecycleStatus

\* Pockets go through their lifecycle and nothing else.
LifecycleSpec == Lifecycle!Spec
=============================================================================
