----------------------------- MODULE Analyses ------------------------------
(* The two copies of the analysis side by side: the strategies' and the      *)
(* analyze tool's.                                                           *)
EXTENDS Analysis, AnalysisHelper

\* The constants of strategy/analysis_helper.py (11 to 20, 66, 73, 74) are the numbers
\* that the strategies' configurations have by default (25 to 41 and 127 of
\* strategy/buy_strategy.py, 17 and 18 of strategy/anomaly_strategy.py).
SameNumbers ==
  /\ MA_SHORT = MaShort /\ MA_LONG = MaLong /\ RSI_PERIOD = RsiPeriod
  /\ RSI_OVERSOLD = RsiOversold /\ BB_PERIOD = BbPeriod /\ BB_STD = BbStd
  /\ VOLUME_WINDOW = SurgePeriod /\ VOLUME_SURGE_MULTIPLIER = SurgeTimes
  /\ MIN_BUY_PRESSURE = MinPressure
  /\ MIN_SIGNAL_SCORE = ScalpAt /\ STRONG_SIGNAL_SCORE = StrongAt
  /\ period = AnomalyPeriod /\ z_score_threshold = Threshold

\* The score of the tool (analyze_signal) is the strategy's (_analyze_signal), less two
\* points in a market that has fallen twice, which the tool alone takes off: it never
\* recommends a purchase that the strategy would not make, and keeps from one it would
\* make in such a market only.
ToolAgrees ==
  /\ Now >= 3 => ToolScore(Now) = StrategyScore(Now) - IF FallsTwice(Now) THEN 2 ELSE 0
  /\ Recommendation = "BUY" => StrategyBuys
  /\ StrategyBuys /\ Recommendation # "BUY" => FallsTwice(Now)

\* What the tool (calculate_anomaly_zscore) calls a dip or a momentum is what the
\* strategy buys on in that mode, and with both modes it buys on no more than these.
AnomalyAgrees ==
  /\ Detects("DIP") <=> Direction = "DIP"
  /\ Detects("MOMENTUM") <=> Direction = "MOMENTUM"
  /\ Detects("BOTH") <=> Direction \in {"DIP", "MOMENTUM"}

\* Whoever judges the same candles judges alike, in the strategies and in the tool.
JudgedAlike == PriceSpeaks /\ SpikeIsSurge /\ ToolAgrees /\ AnomalyAgrees
=============================================================================
