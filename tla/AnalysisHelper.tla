-------------------------- MODULE AnalysisHelper ---------------------------
(***************************************************************************)
(* The analyze tool's own computation of the scalping score and of the     *)
(* z-score, strategy/analysis_helper.py.  It shares no code with the       *)
(* strategies, so this module takes nothing from Analysis, only the        *)
(* candles and pandas; its numbers are the constants of that file and the  *)
(* defaults of calculate_anomaly_zscore.                                   *)
(*                                                                         *)
(* A mean or an index is a fraction <<numerator, denominator>>.            *)
(***************************************************************************)
EXTENDS Candles

CONSTANTS MA_SHORT, MA_LONG, RSI_PERIOD, RSI_OVERSOLD, BB_PERIOD, BB_STD,
          VOLUME_WINDOW,               \* of rolling() on the volume
          VOLUME_SURGE_MULTIPLIER, MIN_BUY_PRESSURE, MIN_SIGNAL_SCORE, STRONG_SIGNAL_SCORE,
          period, z_score_threshold    \* defaults of calculate_anomaly_zscore

ASSUME AnalysisHelperAssumption ==
  /\ {MA_SHORT, MA_LONG, RSI_PERIOD, VOLUME_WINDOW} \subseteq Nat \ {0}
  /\ {BB_PERIOD, period} \subseteq Nat \ {0, 1}
  /\ {BB_STD, VOLUME_SURGE_MULTIPLIER, z_score_threshold} \subseteq Nat
  /\ {RSI_OVERSOLD, MIN_BUY_PRESSURE, MIN_SIGNAL_SCORE, STRONG_SIGNAL_SCORE} \subseteq Nat

Greater(p, q) == p[1] * q[2] > q[1] * p[2]
Whole(n) == <<n, 1>>
Mean(column, i, n) == <<Total(Window(column, i, n)), n>>

-----------------------------------------------------------------------------
(* calculate_indicators.                                                   *)

MaFull(i) == i >= MA_SHORT /\ i >= MA_LONG
ShortOverLong(i) == Greater(Mean(close, i, MA_SHORT), Mean(close, i, MA_LONG))

Delta(i) == IF i = 1 THEN 0 ELSE close[i] - close[i - 1]
Positive(x) == IF x > 0 THEN x ELSE 0
RsiGain(i) == Total([k \in 1..RSI_PERIOD |-> Positive(Delta(i - RSI_PERIOD + k))])
RsiLoss(i) == Total([k \in 1..RSI_PERIOD |-> Positive(-Delta(i - RSI_PERIOD + k))])
RsiOf(i) == <<100 * RsiGain(i), RsiGain(i) + RsiLoss(i)>>
RsiNotNa(i) == i >= RSI_PERIOD /\ RsiGain(i) + RsiLoss(i) # 0

\* bb_middle - close is bb_std times BB_STD, or more.
UnderBand(i) ==
  LET w == Window(close, i, BB_PERIOD)
      gap == Total(w) - BB_PERIOD * close[i]
  IN  gap >= 0 /\ (BB_PERIOD - 1) * (gap * gap) >= BB_PERIOD * ((BB_STD * BB_STD) * Spread(w))

VolumeSurge(i) ==
  /\ i >= VOLUME_WINDOW
  /\ LET ma == Mean(volume, i, VOLUME_WINDOW)
     IN  Greater(Whole(volume[i]), <<ma[1] * VOLUME_SURGE_MULTIPLIER, ma[2]>>)

-----------------------------------------------------------------------------
(* analyze_signal.                                                         *)

\* MUTANT of MaTrend: the candle before is not asked for.
MaTrendEager(i) ==
  IF ~MaFull(i) THEN "UNKNOWN"
  ELSE IF ShortOverLong(i) THEN "GOLDEN_CROSS" ELSE "BELOW"

MaTrend(i) ==
  IF ~MaFull(i) THEN "UNKNOWN"
  ELSE IF ShortOverLong(i) /\ MaFull(i - 1) /\ ~ShortOverLong(i - 1) THEN "GOLDEN_CROSS"
  ELSE IF ShortOverLong(i) THEN "ABOVE" ELSE "BELOW"

MaPoints(i) ==
  CASE MaTrend(i) = "GOLDEN_CROSS" -> 3 [] MaTrend(i) = "ABOVE" -> 1 [] OTHER -> 0

RsiPoints(i) ==
  LET between(low, high) == Greater(RsiOf(i), Whole(low)) /\ Greater(Whole(high), RsiOf(i))
  IN  IF ~RsiNotNa(i) THEN 0
      ELSE IF between(30, RSI_OVERSOLD) /\ RsiNotNa(i - 1) /\ Greater(RsiOf(i), RsiOf(i - 1)) THEN 2
      ELSE IF between(40, 60) THEN 1 ELSE 0

LowerBounce(i) == i - 1 >= BB_PERIOD /\ UnderBand(i - 1) /\ ~UnderBand(i)

BookPoints == IF pressure > 55 THEN 2 ELSE IF pressure > MIN_BUY_PRESSURE THEN 1 ELSE 0

FallsTwice(i) == close[i] < close[i - 1] /\ close[i - 1] < close[i - 2]
Momentum(i) ==
  IF close[i] > close[i - 1] /\ close[i - 1] > close[i - 2] THEN 2
  ELSE IF FallsTwice(i) THEN -2 ELSE 0

ToolScore(i) ==
  MaPoints(i) + RsiPoints(i) + (IF LowerBounce(i) THEN 2 ELSE 0)
    + (IF VolumeSurge(i) THEN 2 ELSE 0) + BookPoints + Momentum(i)

Recommendation ==
  IF Now < 3 THEN "HOLD"
  ELSE IF ToolScore(Now) >= STRONG_SIGNAL_SCORE THEN "BUY"
  ELSE IF ToolScore(Now) >= MIN_SIGNAL_SCORE THEN "BUY"
  ELSE IF ToolScore(Now) <= 0 THEN "SELL" ELSE "HOLD"

-----------------------------------------------------------------------------
(* calculate_anomaly_zscore, on the rows that dropna leaves: candles 2 to  *)
(* Now.                                                                    *)

LogReturn(i) == LogOf[close[i]] - LogOf[close[i - 1]]
ToolHistory == [k \in 1..period |-> LogReturn(Now - period - 1 + k)]

\* period times (current_return - mean), and z_score squared.
Deviation == period * LogReturn(Now) - Total(ToolHistory)
ZSquared == <<(period - 1) * (Deviation * Deviation), period * Spread(ToolHistory)>>

Direction ==
  IF Now - 1 < period + 1 THEN "ERROR"
  ELSE IF Spread(ToolHistory) = 0 THEN "NONE"
  ELSE IF ~Greater(ZSquared, Whole(z_score_threshold * z_score_threshold)) THEN "NONE"
  ELSE IF Deviation < 0 THEN "DIP" ELSE "MOMENTUM"
=============================================================================
