------------------------------ MODULE Trading -------------------------------
(***************************************************************************)
(* A scalping strategy over the live account: the main loop gives the      *)
(* strategy's BUY to the account (src/main.py) and does nothing else until *)
(* the call has ended.                                                     *)
(***************************************************************************)
EXTENDS Scheduled, LiveAccount

CONSTANT MainLoop

ASSUME TradingAssumption == MainLoop \in Threads

tradingVars == <<scheduledVars, liveVars>>

TradingInit == ScheduledInit /\ LiveInit

\* The main loop is not in the account.
Free == Calls(MainLoop, "idle")

Ticks == \E price \in Prices : OnTick(price)

\* on_task and on_signal_processing: a SELL raises before it reaches the exchange.
HandleBuy == HandleTask("BUY") /\ Free /\ BuyMarket(MainLoop)
HandleSell == HandleTask("SELL") /\ Free /\ UNCHANGED liveVars

TradingThreads ==
  \/ Scheduler /\ UNCHANGED liveVars
  \/ Signals /\ UNCHANGED liveVars
  \/ HandleBuy \/ HandleSell

Buying == OrderStep(MainLoop) /\ UNCHANGED scheduledVars

TradingNext ==
  \/ TradingThreads
  \/ Elapse /\ UNCHANGED liveVars
  \/ Ticks /\ Free /\ UNCHANGED liveVars
  \/ Buying
  \/ (\E o \in Orders : Fill(o)) /\ UNCHANGED scheduledVars
  \/ Crash /\ LiveRestart

\* Both threads run, time passes, the network answers or fails, and a market that is
\* new has three candles in the end.
TradingSpec ==
  /\ TradingInit /\ [][TradingNext]_tradingVars
  /\ WF_tradingVars(Scheduler /\ UNCHANGED liveVars)
  /\ SF_tradingVars(Analyse /\ UNCHANGED liveVars)
  /\ WF_tradingVars(Signals /\ UNCHANGED liveVars)
  /\ WF_tradingVars(HandleBuy \/ HandleSell)
  /\ WF_tradingVars(Elapse /\ UNCHANGED liveVars)
  /\ WF_tradingVars(Buying)

-----------------------------------------------------------------------------
\* The shapes of the strategy's state and the account's.
TradingTypeOK == ScheduledTypeOK /\ LiveTypeOK

\* "이미 포지션 보유 중이면 스킵", buy_strategy.py: the strategy does not look for a
\* purchase while it holds what it bought before, once its signals are processed.
SkipsWhenHolding ==
  SchedAt("fetch") /\ tasks = <<>> /\ MainAt("idle")
    => \A o \in Orders : exchange[o] # "done"
=============================================================================
