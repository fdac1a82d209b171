----------------------------- MODULE MCTrading ------------------------------
(* Four kinds of behaviour: both threads call the account as they like; the  *)
(* main loop calls it for the strategy only, for one order; candles come and *)
(* are analysed; an autoencoder learns.                                      *)
EXTENDS Trading, Analyses, DeepAnomaly

VARIABLE part

mcVars == <<part, tradingVars, analysisVars, deepVars>>

\* 100 times the binary logarithm.
TheLogs == [c \in Closes |-> CASE c = 1 -> 0 [] c = 2 -> 100 [] c = 3 -> 158 [] c = 4 -> 200]

OneOrder == CHOOSE o \in Orders : TRUE
OfOneOrder == \A o \in Orders : exchange'[o] # "none" => o = OneOrder

MCInit ==
  /\ part \in {"account", "strategy", "analysis", "learning"}
  /\ TradingInit /\ DeepInit
  /\ AnalysisInit /\ (part # "analysis" => pressure = CHOOSE p \in Pressures : TRUE)

AccountPart == part = "account" /\ UNCHANGED <<part, scheduledVars, analysisVars, deepVars>>
StrategyPart == part = "strategy" /\ UNCHANGED <<part, analysisVars, deepVars>>
AnalysisPart == part = "analysis" /\ UNCHANGED <<part, tradingVars, deepVars>>
LearningPart == part = "learning" /\ UNCHANGED <<part, tradingVars, analysisVars>>

MCNext ==
  \/ AccountPart /\ LiveNext
  \/ StrategyPart /\ TradingNext /\ OfOneOrder
  \/ AnalysisPart /\ NewCandle
  \/ LearningPart /\ DeepNext

MCSpec ==
  /\ MCInit /\ [][MCNext]_mcVars
  /\ \A t \in Threads : WF_mcVars(AccountPart /\ LiveStep(t))
  /\ WF_mcVars(StrategyPart /\ Scheduler /\ UNCHANGED liveVars)
  /\ SF_mcVars(StrategyPart /\ Analyse /\ UNCHANGED liveVars)
  /\ WF_mcVars(StrategyPart /\ Signals /\ UNCHANGED liveVars)
  /\ WF_mcVars(StrategyPart /\ (HandleBuy \/ HandleSell))
  /\ WF_mcVars(StrategyPart /\ Elapse /\ UNCHANGED liveVars)
  /\ WF_mcVars(StrategyPart /\ Buying /\ OfOneOrder)
=============================================================================
