----------------------------- MODULE Strategies -----------------------------
(***************************************************************************)
(* The strategies of one ticker: StrategyManager (strategy/manager.py)     *)
(* over its table and its archive (strategy/repository.py), and the        *)
(* DefaultStrategy that every pocket gets (strategy/default_strategy.py).  *)
(*                                                                         *)
(* The main loop hands ticks and order books to the strategies and ends    *)
(* those of a closed pocket; the MCP server's thread creates and deletes   *)
(* strategies.  Nothing is locked.  One action is one commit, or one read  *)
(* whose result is used by a later one.                                    *)
(*                                                                         *)
(* Prices are integers in 1/Scale KRW; a stop price is in hundredths of    *)
(* that.  Percentages are whole.  0 stands for None, as the code's tests   *)
(* of truth take it.  Strategies with a schedule are not in this module: a *)
(* DefaultStrategy has no execution_interval, and on_schedule passes it.   *)
(* take_profit_partial, which only a client of the MCP tool could set, is   *)
(* left off.                                                               *)
(***************************************************************************)
EXTENDS Integers, FiniteSets

CONSTANTS Threads, MainLoop,
          Ids,            \* the ids strategies may get
          Pockets,
          PocketOf,       \* strategy -> pocket it is created for
          Entry,          \* entry_price
          Prices,         \* prices a tick may bring
          StopLoss, TakeProfit, Trail, Activation,   \* percentages, 0: not set
          Scale,
          MayCrash,
          NoStrategy

ASSUME StrategiesAssumption ==
  /\ MainLoop \in Threads
  /\ IsFiniteSet(Ids) /\ NoStrategy \notin Ids
  /\ PocketOf \in [Ids -> Pockets]
  /\ Entry \in Nat \ {0} /\ Prices \subseteq Nat \ {0}
  /\ {StopLoss, TakeProfit, Trail, Activation} \subseteq 0..99
  /\ Scale \in Nat \ {0}
  /\ MayCrash \in BOOLEAN

VARIABLES rows,       \* table strategies
          archive,    \* ids in strategies_archive
          live,       \* keys of StrategyManager.strategies
          memory,     \* id -> fields of its instance
          signals,    \* strategies with a CLOSE_POCKET task in task_queue, once or more
          closing,    \* pockets that were asked to close
          at          \* where each thread is, and what it carries

vars == <<rows, archive, live, memory, signals, closing, at>>

\* get_state: what is saved of a DefaultStrategy.
State == [highest : Nat, stop : Nat, activated : BOOLEAN, tp : BOOLEAN]
Fresh == [highest |-> 0, stop |-> 0, activated |-> FALSE, tp |-> FALSE]

\* A row: its status, whether the class accepts its configuration, the state.
Row == [status : {"none", "active", "stopped"}, good : BOOLEAN, state : State]
NoRow == [status |-> "none", good |-> FALSE, state |-> Fresh]

\* The display shows what is left of the take profit, and the stop or the high.
Display == [tp : BOOLEAN, label : {"Nothing", "TS", "High"}, value : Int]
Nothing == [tp |-> FALSE, label |-> "Nothing", value |-> 0]

Instance == [state : State, display : Display, updated : BOOLEAN]
Restored(state) == [state |-> state, display |-> Nothing, updated |-> FALSE]

\* A thread's frame: the next step, the strategy and the row in its hands, the
\* tick's price (0: an order book), the strategies it has come past, the number
\* it began with, whether the last one signalled, and the ones yet to delete.
Steps == {"idle", "tick", "get", "save", "start", "delete", "mark", "archive"}
Frame == [step : Steps, id : Ids \cup {NoStrategy}, row : Row, price : Nat,
          visited : SUBSET Ids, size : Nat, signal : BOOLEAN, todo : SUBSET Ids,
          stop : BOOLEAN]
IdleFrame == [step |-> "idle", id |-> NoStrategy, row |-> NoRow, price |-> 0,
              visited |-> {}, size |-> 0, signal |-> FALSE, todo |-> {}, stop |-> FALSE]

Init ==
  /\ rows = [s \in Ids |-> NoRow] /\ archive = {}
  /\ live = {} /\ memory = [s \in Ids |-> Restored(Fresh)]
  /\ signals = {} /\ closing = {}
  /\ at = [t \in Threads |-> IdleFrame]

----------------------------------------------------------------------------
At(t, step) == at[t].step = step
Idle(t) == At(t, "idle")
Goto(t, frame) == at' = [at EXCEPT ![t] = frame]
Return(t) == Goto(t, IdleFrame)

HasRow(s) == rows[s].status # "none"
Put(s, row) == rows' = [rows EXCEPT ![s] = row]

----------------------------------------------------------------------------
(* DefaultStrategy.on_tick *)

\* MUTANT of StopFrom: the trail is an amount, not a percentage.
StopFromAmount(high) == (high - Trail) * 100

StopFrom(high) == high * (100 - Trail)

\* A stop as the display shows it, in whole KRW, a half to the even neighbour.
Shown(stop) ==
  LET krw  == stop \div (100 * Scale)
      rest == stop % (100 * Scale)
  IN  IF rest > 50 * Scale \/ (rest = 50 * Scale /\ krw % 2 = 1) THEN krw + 1 ELSE krw

ProfitReaches(price, percent) == 100 * (price - Entry) >= percent * Entry

\* The three reasons to close, in their order of priority.
StopLossHit(price) == StopLoss # 0 /\ 100 * price <= Entry * (100 - StopLoss)
TakeProfitHit(m, price) == TakeProfit # 0 /\ ~ m.tp /\ ProfitReaches(price, TakeProfit)
TrailingHit(m, price) == m.activated /\ m.stop # 0 /\ 100 * price <= m.stop

\* MUTANT of NewHigh: the high follows the price down as well.
NewHighAny(m, price) == TRUE

NewHigh(m, price) == price > m.highest

\* The high, the activation and the stop after a tick.
Trailed(m, price) ==
  IF ~ NewHigh(m, price) THEN m
  ELSE LET on == m.activated \/ Activation = 0 \/ ProfitReaches(price, Activation)
       IN  [m EXCEPT !.highest = price, !.activated = on,
                     !.stop = IF on THEN StopFrom(price) ELSE @]

DisplayOf(m) == [tp |-> TakeProfit # 0 /\ ~ m.tp,
                 label |-> IF m.stop # 0 THEN "TS" ELSE "High",
                 value |-> Shown(IF m.stop # 0 THEN m.stop ELSE 100 * m.highest)]

Redisplayed(i, m) ==
  [state |-> m, display |-> DisplayOf(m), updated |-> i.updated \/ DisplayOf(m) # i.display]

\* The instance after a tick, and whether the tick returned a signal.
Ticked(i, price) ==
  IF StopLossHit(price) THEN [instance |-> i, signal |-> TRUE]
  ELSE IF TakeProfitHit(i.state, price)
  THEN [instance |-> [i EXCEPT !.state.tp = TRUE], signal |-> TRUE]
  ELSE IF Trail = 0 THEN [instance |-> i, signal |-> FALSE]
  ELSE LET m == Trailed(i.state, price)
       IN  [instance |-> Redisplayed(i, m), signal |-> TrailingHit(m, price)]

----------------------------------------------------------------------------
(* on_tick and on_orderbook of StrategyManager, and _persist_strategy *)

\* A DefaultStrategy does nothing with an order book, whose price is 0 here.
Visit(price) ==
  /\ Idle(MainLoop)
  /\ Goto(MainLoop, [IdleFrame EXCEPT !.step = "tick", !.price = price,
                                      !.size = Cardinality(live)])
  /\ UNCHANGED <<rows, archive, live, memory, signals, closing>>

OnTick == \E price \in Prices : Visit(price)
OnOrderbook == Visit(0)

\* MUTANT of MustPersist: only signals are saved.
MustPersistSignal(i, signal) == signal

MustPersist(i, signal) == signal \/ i.updated

\* The next of the live dictionary, which another thread may have changed: with
\* another size, the loop raises and the rest of the strategies miss the tick.
NextStrategy(t) ==
  /\ At(t, "tick")
  /\ \/ /\ Cardinality(live) # at[t].size \/ live \subseteq at[t].visited
        /\ Return(t)
        /\ UNCHANGED <<memory, signals>>
     \/ /\ Cardinality(live) = at[t].size
        /\ \E s \in live \ at[t].visited :
             LET r == IF at[t].price = 0 THEN [instance |-> memory[s], signal |-> FALSE]
                      ELSE Ticked(memory[s], at[t].price)
             IN  /\ memory' = [memory EXCEPT ![s] = r.instance]
                 /\ signals' = IF r.signal THEN signals \cup {s} ELSE signals
                 /\ Goto(t, [at[t] EXCEPT
                      !.step = IF MustPersist(r.instance, r.signal) THEN "get" ELSE "tick",
                      !.id = s, !.signal = r.signal, !.visited = @ \cup {s}])
  /\ UNCHANGED <<rows, archive, live, closing>>

\* What on_tick does after a strategy was persisted, or found gone: is_updated
\* is reset unless the tick signalled.
Persisted(t) ==
  /\ memory' = [memory EXCEPT ![at[t].id].updated = @ /\ at[t].signal]
  /\ Goto(t, [at[t] EXCEPT !.step = "tick", !.row = NoRow])

\* The strategy is looked up, and its row read.
GetRow(t) ==
  LET s == at[t].id
  IN  /\ At(t, "get")
      /\ IF s \in live /\ HasRow(s)
         THEN Goto(t, [at[t] EXCEPT !.step = "save", !.row = rows[s]]) /\ UNCHANGED memory
         ELSE Persisted(t)
      /\ UNCHANGED <<rows, archive, live, signals, closing>>

\* The row as it was read is written back with the state of now.
SaveRow(t) ==
  /\ At(t, "save")
  /\ Put(at[t].id, [at[t].row EXCEPT !.state = memory[at[t].id].state])
  /\ Persisted(t)
  /\ UNCHANGED <<archive, live, signals, closing>>

----------------------------------------------------------------------------
(* Creating and deleting *)

\* add_strategy for a new pocket, or create_strategy for the MCP tool, which
\* saves the row before the class has seen the configuration.
CreateRow(t) ==
  /\ Idle(t)
  /\ \E s \in Ids, good \in BOOLEAN :
       /\ ~ HasRow(s) /\ s \notin archive
       /\ \A u \in Threads : at[u].id # s
       /\ Put(s, [status |-> "active", good |-> good, state |-> Fresh])
       /\ Goto(t, [IdleFrame EXCEPT !.step = "start", !.id = s, !.row = [NoRow EXCEPT !.good = good]])
  /\ UNCHANGED <<archive, live, memory, signals, closing>>

\* The instance is made and kept; a configuration that is not accepted raises.
Start(t) ==
  LET s == at[t].id
  IN  /\ At(t, "start")
      /\ IF at[t].row.good
         THEN /\ live' = live \cup {s}
              /\ memory' = [memory EXCEPT ![s] = Restored(Fresh)]
         ELSE UNCHANGED <<live, memory>>
      /\ Return(t)
      /\ UNCHANGED <<rows, archive, signals, closing>>

Delete(t, ids, stop) ==
  /\ Idle(t)
  /\ Goto(t, [IdleFrame EXCEPT !.step = "delete", !.todo = ids, !.stop = stop])
  /\ UNCHANGED <<rows, archive, live, memory, signals, closing>>

\* delete_strategies_by_pocket_id, of a pocket that is closed or archived: what
\* is live or has a row, stopped and then archived.
DeleteByPocket(t) ==
  \E p \in Pockets : Delete(t, {s \in Ids : PocketOf[s] = p /\ (s \in live \/ HasRow(s))}, TRUE)

\* The tool that deletes one strategy, and the sale of everything, which
\* archives what is live.
DeleteOne(t) == \E s \in live : Delete(t, {s}, TRUE)
ArchiveLive(t) == live # {} /\ Delete(t, live, FALSE)

\* stop_strategy: out of the dictionary, and the row is read.
StopStrategy(t) ==
  /\ At(t, "delete")
  /\ \/ /\ at[t].todo = {}
        /\ Return(t)
        /\ UNCHANGED live
     \/ \E s \in at[t].todo :
          /\ live' = live \ {s}
          /\ Goto(t, [at[t] EXCEPT !.step = IF at[t].stop /\ HasRow(s) THEN "mark" ELSE "archive",
                                   !.id = s, !.row = rows[s], !.todo = @ \ {s}])
  /\ UNCHANGED <<rows, archive, memory, signals, closing>>

MarkStopped(t) ==
  /\ At(t, "mark")
  /\ Put(at[t].id, [at[t].row EXCEPT !.status = "stopped"])
  /\ Goto(t, [at[t] EXCEPT !.step = "archive"])
  /\ UNCHANGED <<archive, live, memory, signals, closing>>

\* MUTANT of Unrow: the row stays in the table.
UnrowNot(s) == rows' = rows

Unrow(s) == Put(s, NoRow)

\* archive_strategy: the row, if there is one, moves to the archive in one
\* transaction.
ArchiveStrategy(t) ==
  LET s == at[t].id
  IN  /\ At(t, "archive")
      /\ live' = live \ {s}
      /\ IF HasRow(s) THEN Unrow(s) /\ archive' = archive \cup {s}
         ELSE UNCHANGED <<rows, archive>>
      /\ Goto(t, [at[t] EXCEPT !.step = "delete", !.id = NoStrategy, !.row = NoRow])
      /\ UNCHANGED <<memory, signals, closing>>

----------------------------------------------------------------------------
\* The main loop takes a CLOSE_POCKET task.
TakeSignal(s) ==
  /\ Idle(MainLoop) /\ s \in signals
  /\ signals' = signals \ {s}
  /\ closing' = closing \cup {PocketOf[s]}
  /\ UNCHANGED <<rows, archive, live, memory, at>>

Loadable(s) == HasRow(s) /\ rows[s].good

\* The process is killed, and load_strategies instantiates every row whose
\* configuration is accepted.
Crash ==
  /\ MayCrash
  /\ live' = {s \in Ids : Loadable(s)}
  /\ memory' = [s \in Ids |-> Restored(rows[s].state)]
  /\ signals' = {}
  /\ at' = [t \in Threads |-> IdleFrame]
  /\ UNCHANGED <<rows, archive, closing>>

Command(t) == CreateRow(t) \/ DeleteByPocket(t) \/ DeleteOne(t) \/ ArchiveLive(t)

Continue(t) ==
  \/ NextStrategy(t) \/ GetRow(t) \/ SaveRow(t)
  \/ Start(t) \/ StopStrategy(t) \/ MarkStopped(t) \/ ArchiveStrategy(t)

Next ==
  \/ \E t \in Threads : Command(t) \/ Continue(t)
  \/ OnTick \/ OnOrderbook
  \/ \E s \in Ids : TakeSignal(s)
  \/ Crash

Spec == Init /\ [][Next]_vars

----------------------------------------------------------------------------
(* Properties *)

\* The shapes of rows, instances and frames; no stop price is below zero.
TypeOK ==
  /\ rows \in [Ids -> Row] /\ archive \subseteq Ids
  /\ live \subseteq Ids /\ memory \in [Ids -> Instance]
  /\ signals \subseteq Ids /\ closing \subseteq Pockets
  /\ at \in [Threads -> Frame]

AllIdle == \A t \in Threads : Idle(t)

\* Between operations, what is running is what a restart would run: the
\* dictionary and the table agree, but for rows no class accepts.
\* (add_strategy, stop_strategy and archive_strategy against load_strategies.)
RowsRun == AllIdle => live = {s \in Ids : HasRow(s) /\ rows[s].good}

\* Between operations, a crash takes back no more than the display hides: the
\* saved stop shows as the one in memory, and a take profit that was signalled
\* is saved as such.  (is_updated and _persist_strategy.)
CrashLosesRounding ==
  AllIdle => \A s \in live : /\ Shown(rows[s].state.stop) = Shown(memory[s].state.stop)
                             /\ rows[s].state.tp = memory[s].state.tp

\* Between operations, a restart goes on with the same strategies and, up to the
\* display's rounding, with the same states.
RestartGoesOn == RowsRun /\ CrashLosesRounding

\* The saved trailing stop of an active strategy never falls, over ticks and
\* restarts.  (on_tick, get_state, restore_state.)
SavedStopNeverFalls ==
  [][\A s \in Ids : rows[s].status = "active" /\ rows'[s].status = "active"
       => rows'[s].state.stop >= rows[s].state.stop]_rows

\* No take profit is saved as taken before the close of its pocket was queued or
\* asked for: what will not be signalled again has been signalled.  (The order
\* of process_signal and _persist_strategy, and tp_triggered.)
TakenWasSignalled ==
  [][\A s \in Ids : rows'[s].state.tp /\ ~ rows[s].state.tp
       => s \in signals \/ PocketOf[s] \in closing]_rows

\* The promised lifecycle.  A row of a strategy that is in the archive has no
\* place in it.
LifecycleStatus == [s \in Ids |-> IF s \notin archive THEN rows[s].status
                                  ELSE IF HasRow(s) THEN "revived" ELSE "archived"]

Lifecycle == INSTANCE StrategyLifecycle WITH status <- LifecycleStatus

\* Strategies keep to it; what is archived stays archived.
StrategyLifecycleSpec == Lifecycle!Spec
=============================================================================
