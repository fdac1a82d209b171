----------------------------- MODULE Scheduled ------------------------------
(***************************************************************************)
(* One scalping strategy (strategy/buy_strategy.py) between two threads:   *)
(* the scheduler's, which calls it once a minute through                   *)
(* StrategyManager.on_schedule and takes positions, and the main loop,     *)
(* whose ticks end them.  Both save its row; signals pass through the task *)
(* queue; a crash leaves the row only.                                     *)
(*                                                                         *)
(* A time is kept as its age, up to Interval: what the code compares is    *)
(* now less the time.  Prices are integers.  What the analysis says is     *)
(* open here (module Analysis).                                             *)
(***************************************************************************)
EXTENDS Integers, Sequences, FiniteSets

CONSTANTS Prices,
          TakeProfit, StopLoss,   \* take_profit_pct and stop_loss_pct, in thousandths
          Interval,               \* execution_interval
          Period,                 \* the scheduler's wait between two rounds
          MayCrash,
          MaxTasks                \* bound on task_queue when the scheduler adds to it

ASSUME ScheduledAssumption ==
  /\ Prices \subseteq Nat \ {0} /\ {TakeProfit, StopLoss} \subseteq Nat
  /\ Interval \in Nat \ {0} /\ Period \in Nat
  /\ MayCrash \in BOOLEAN /\ MaxTasks \in Nat

VARIABLES position,    \* position_entry_price, 0: None
          sinceExec,   \* age of context.last_execution_time
          sinceCheck,  \* age of last_check_time
          row,         \* what is saved of the three
          sched,       \* the scheduler's frame
          main,        \* the main loop's frame
          tasks,       \* signals in task_queue
          balance,     \* BUY signals handled less SELL signals; a restored position is one
          restarted    \* no round was finished since the start from a saved row

scheduledVars == <<position, sinceExec, sinceCheck, row, sched, main, tasks, balance, restarted>>

Price0 == Prices \cup {0}
Ages == 0..Interval
Saved == [position : Price0, exec : Ages, check : Ages]
NewRow == [position |-> 0, exec |-> Interval, check |-> Interval]

\* The scheduler's round: its age, whether the strategy signalled, the state it is
\* about to save, and how often it still will.
SchedFrame == [step : {"sleep", "visit", "fetch", "stamp", "get", "save", "put"},
               wait : 0..Period, age : Ages, signal : BOOLEAN, copy : Saved, saves : 0..2]
Sleeping(wait) == [step |-> "sleep", wait |-> wait, age |-> Interval, signal |-> FALSE,
                   copy |-> NewRow, saves |-> 0]
MainFrame == [step : {"idle", "put", "get", "save"}, copy : Saved]
IdleMain == [step |-> "idle", copy |-> NewRow]

ScheduledInit ==
  /\ position = 0 /\ sinceExec = Interval /\ sinceCheck = Interval /\ row = NewRow
  /\ sched = Sleeping(0) /\ main = IdleMain
  /\ tasks = <<>> /\ balance = 0 /\ restarted = FALSE

State == [position |-> position, exec |-> sinceExec, check |-> sinceCheck]
Held(p) == IF p = 0 THEN 0 ELSE 1

-----------------------------------------------------------------------------
(* The scheduler's thread.                                                 *)

SchedAt(step) == sched.step = step
others == <<row, main, tasks, balance>>

\* on_schedule of the manager.
RoundBegins ==
  /\ SchedAt("sleep") /\ sched.wait = 0
  /\ sched' = IF sinceExec >= Interval THEN [sched EXCEPT !.step = "visit", !.age = 0]
                                       ELSE Sleeping(Period)
  /\ UNCHANGED <<position, sinceExec, sinceCheck, restarted, others>>

\* on_schedule of the strategy, to the point where it asks for candles.
CheckOwn ==
  /\ SchedAt("visit")
  /\ IF sinceCheck < Interval
       THEN sched' = [sched EXCEPT !.step = "stamp"] /\ UNCHANGED sinceCheck
       ELSE /\ sinceCheck' = 0
            /\ sched' = [sched EXCEPT !.step = IF position = 0 THEN "fetch" ELSE "stamp"]
  /\ UNCHANGED <<position, sinceExec, restarted, others>>

\* The candles have come, or not, and are analysed.
Analyse ==
  /\ SchedAt("fetch")
  /\ \/ sched' = [sched EXCEPT !.step = "stamp"] /\ UNCHANGED position
     \/ /\ position' \in Prices
        /\ sched' = [sched EXCEPT !.step = "stamp", !.signal = TRUE]
  /\ UNCHANGED <<sinceExec, sinceCheck, restarted, others>>

\* With fewer than three candles a key is missing; the manager catches the error and
\* does not note the round.
AnalyseRaises ==
  /\ SchedAt("fetch") /\ sched' = Sleeping(Period)
  /\ UNCHANGED <<position, sinceExec, sinceCheck, restarted, others>>

\* MUTANT of Stamp: a round without a signal saves nothing.
StampQuiet ==
  /\ SchedAt("stamp") /\ sinceExec' = sched.age /\ restarted' = FALSE
  /\ sched' = IF sched.signal THEN [sched EXCEPT !.step = "get", !.saves = 2] ELSE Sleeping(Period)
  /\ UNCHANGED <<position, sinceCheck, others>>

Stamp ==
  /\ SchedAt("stamp") /\ sinceExec' = sched.age /\ restarted' = FALSE
  /\ sched' = [sched EXCEPT !.step = "get", !.saves = 2]
  /\ UNCHANGED <<position, sinceCheck, others>>

\* _persist_strategy, up to get_state.
SchedGet ==
  /\ SchedAt("get") /\ sched' = [sched EXCEPT !.step = "save", !.copy = State]
  /\ UNCHANGED <<position, sinceExec, sinceCheck, restarted, others>>

\* MUTANT of SchedSave: rounds begin at a fixed rate.
SchedSaveRate ==
  /\ SchedAt("save") /\ row' = sched.copy
  /\ sched' = IF sched.saves > 1 THEN [sched EXCEPT !.step = "get", !.saves = @ - 1]
              ELSE IF sched.signal THEN [sched EXCEPT !.step = "put"]
              ELSE Sleeping(IF sched.age < Period THEN Period - sched.age ELSE 0)
  /\ UNCHANGED <<position, sinceExec, sinceCheck, restarted, main, tasks, balance>>

SchedSave ==
  /\ SchedAt("save") /\ row' = sched.copy
  /\ sched' = IF sched.saves > 1 THEN [sched EXCEPT !.step = "get", !.saves = @ - 1]
              ELSE IF sched.signal THEN [sched EXCEPT !.step = "put"] ELSE Sleeping(Period)
  /\ UNCHANGED <<position, sinceExec, sinceCheck, restarted, main, tasks, balance>>

\* process_signal; then the row is saved once more.
SchedPut ==
  /\ SchedAt("put") /\ Len(tasks) < MaxTasks
  /\ tasks' = Append(tasks, "BUY")
  /\ sched' = [sched EXCEPT !.step = "get", !.signal = FALSE, !.saves = 1]
  /\ UNCHANGED <<position, sinceExec, sinceCheck, restarted, row, main, balance>>

Scheduler ==
  RoundBegins \/ CheckOwn \/ Analyse \/ AnalyseRaises \/ Stamp \/ SchedGet \/ SchedSave \/ SchedPut

-----------------------------------------------------------------------------
(* The main loop.                                                          *)

MainAt(step) == main.step = step
rest == <<sinceExec, sinceCheck, restarted, sched>>

Triggers(price) ==
  \/ 1000 * (price - position) >= TakeProfit * position
  \/ 1000 * (price - position) <= -StopLoss * position

\* MUTANT of OnTick: the position is kept until the order is filled.
OnTickKeeping(price) ==
  /\ MainAt("idle") /\ position # 0 /\ Triggers(price)
  /\ main' = [main EXCEPT !.step = "put"]
  /\ UNCHANGED <<rest, position, row, tasks, balance>>

\* A tick that ends the position; any other changes nothing.
OnTick(price) ==
  /\ MainAt("idle") /\ position # 0 /\ Triggers(price)
  /\ position' = 0 /\ main' = [main EXCEPT !.step = "put"]
  /\ UNCHANGED <<rest, row, tasks, balance>>

MainPut ==
  /\ MainAt("put")
  /\ tasks' = Append(tasks, "SELL")
  /\ main' = [main EXCEPT !.step = "get"]
  /\ UNCHANGED <<rest, position, row, balance>>

MainGet ==
  /\ MainAt("get") /\ main' = [step |-> "save", copy |-> State]
  /\ UNCHANGED <<rest, position, row, tasks, balance>>

MainSave ==
  /\ MainAt("save") /\ row' = main.copy /\ main' = IdleMain
  /\ UNCHANGED <<rest, position, tasks, balance>>

\* on_signal_processing.  A SELL has no amount and raises in the account.
HandleTask(kind) ==
  /\ MainAt("idle") /\ tasks # <<>> /\ Head(tasks) = kind
  /\ tasks' = Tail(tasks)
  /\ balance' = IF kind = "BUY" THEN balance + 1 ELSE balance - 1
  /\ UNCHANGED <<rest, main, position, row>>

Signals == MainPut \/ MainGet \/ MainSave

-----------------------------------------------------------------------------
(* Time, and a crash.                                                      *)

Older(age) == IF age < Interval THEN age + 1 ELSE Interval
OlderRow(r) == [r EXCEPT !.exec = Older(@), !.check = Older(@)]

Elapse ==
  /\ sinceExec' = Older(sinceExec) /\ sinceCheck' = Older(sinceCheck)
  /\ row' = OlderRow(row)
  /\ sched' = [sched EXCEPT !.wait = IF @ > 0 THEN @ - 1 ELSE 0,
                            !.age = Older(@), !.copy = OlderRow(@)]
  /\ main' = [main EXCEPT !.copy = OlderRow(@)]
  /\ UNCHANGED <<position, tasks, balance, restarted>>

\* The process ends and starts again: what was queued is lost; restore_state, and the
\* first round at once.
Crash ==
  /\ MayCrash /\ restarted' = TRUE
  /\ position' = row.position /\ sinceExec' = row.exec /\ sinceCheck' = row.check
  /\ sched' = Sleeping(0) /\ main' = IdleMain
  /\ tasks' = <<>> /\ balance' = Held(row.position)
  /\ UNCHANGED row

ScheduledNext ==
  \/ Scheduler \/ Signals \/ Elapse \/ Crash
  \/ \E price \in Prices : OnTick(price)
  \/ \E kind \in {"BUY", "SELL"} : HandleTask(kind)

ScheduledSpec == ScheduledInit /\ [][ScheduledNext]_scheduledVars

-----------------------------------------------------------------------------
ScheduledTypeOK ==
  /\ position \in Price0 /\ sinceExec \in Ages /\ sinceCheck \in Ages
  /\ row \in Saved /\ sched \in SchedFrame /\ main \in MainFrame
  /\ tasks \in Seq({"BUY", "SELL"}) /\ balance \in -1..2 /\ restarted \in BOOLEAN

\* The manager and the strategy each keep a time of the last check, against one
\* interval.  When the manager's says that the strategy is due, the strategy's own
\* does too, whatever the rounds and the strategies before it took: no round is lost
\* to a strategy that was called for nothing.  (Not the first round after a restart,
\* and only while the interval is not longer than the scheduler's wait.)
NoRoundSkipped == SchedAt("visit") => sinceCheck >= Interval \/ restarted

\* The BUY signals less the SELL signals that are yet to be handled once the tasks
\* before the k-th are: those of the queue, what the two threads are about to send,
\* and the SELL of the position.
Queued(kind, k) == {i \in k..Len(tasks) : tasks[i] = kind}
ToCome(k) ==
  Cardinality(Queued("BUY", k)) - Cardinality(Queued("SELL", k))
    + (IF sched.signal THEN 1 ELSE 0) - (IF MainAt("put") THEN 1 ELSE 0) - Held(position)

\* Every position is bought once and sold once, however ticks fall between the steps
\* of the scheduler: what was handled and what is to come add up to nothing, though
\* the SELL may come before the BUY.  A crash loses what was queued or about to be
\* sent and restores a row that may be behind: the balance of the signals handled
\* before is then not that of the position restored, by two signals at most.
Paired ==
  /\ [](balance + ToCome(1) = 0)
  /\ [][Crash => balance' - balance \in -2..2]_scheduledVars

\* The two threads overwrite each other's rows, but a row that is behind is not so
\* for ever.
RowCatchesUp == row.position # position ~> row.position = position
=============================================================================
