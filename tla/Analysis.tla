----------------------------- MODULE Analysis ------------------------------
(***************************************************************************)
(* What the buying strategies read from the candles of a market: the       *)
(* scoring of strategy/buy_strategy.py, the z-score of                     *)
(* strategy/anomaly_strategy.py and the volume spike of                    *)
(* strategy/volume_strategy.py.                                            *)
(*                                                                         *)
(* A value pandas has not (NaN) is one that is not Known.                  *)
(***************************************************************************)
EXTENDS Candles

CONSTANTS MaShort, MaLong, RsiPeriod, RsiOversold, BbPeriod, BbStd,
          SurgePeriod, SurgeTimes, MinPressure,
          ScalpAt, StrongAt,           \* min_signal_strength, strong_signal_threshold
          SpikePeriod, SpikeTimes,     \* VolumeSpikeStrategyConfig
          AnomalyPeriod, Threshold     \* AnomalyStrategyConfig

ASSUME AnalysisAssumption ==
  /\ {MaShort, MaLong, RsiPeriod, SurgePeriod, SpikePeriod} \subseteq Nat \ {0}
  /\ {BbPeriod, AnomalyPeriod} \subseteq Nat \ {0, 1}
  /\ {BbStd, SurgeTimes, SpikeTimes, Threshold} \subseteq Nat
  /\ {RsiOversold, MinPressure, ScalpAt, StrongAt} \subseteq Nat

-----------------------------------------------------------------------------
\* x is below (above) the mean of seq by times its standard deviation, or more, or,
\* strictly, by more.
Off(x, seq) == Len(seq) * x - Total(seq)
Beyond(off, seq, times) == off * off * (Len(seq) - 1) >= times * times * Len(seq) * Spread(seq)
WellBeyond(off, seq, times) == off * off * (Len(seq) - 1) > times * times * Len(seq) * Spread(seq)

-----------------------------------------------------------------------------
(* The indicators, as _calculate_indicators makes them.                    *)

MaKnown(i) == i >= MaShort /\ i >= MaLong
AboveLong(i) ==
  MaKnown(i) /\ MaLong * Total(Window(close, i, MaShort)) > MaShort * Total(Window(close, i, MaLong))
NotAboveLong(i) == MaKnown(i) /\ ~AboveLong(i)

\* The first candle has no change; it counts as none.
Rise(i) == IF i > 1 /\ close[i] > close[i - 1] THEN close[i] - close[i - 1] ELSE 0
Fall(i) == IF i > 1 /\ close[i] < close[i - 1] THEN close[i - 1] - close[i] ELSE 0
Gain(i) == Total([k \in 1..RsiPeriod |-> Rise(i - RsiPeriod + k)])
Loss(i) == Total([k \in 1..RsiPeriod |-> Fall(i - RsiPeriod + k)])
RsiKnown(i) == i >= RsiPeriod /\ Gain(i) + Loss(i) > 0
RsiAbove(i, percent) == 100 * Gain(i) > percent * (Gain(i) + Loss(i))
RsiBelow(i, percent) == 100 * Gain(i) < percent * (Gain(i) + Loss(i))
RsiRises(i) ==
  RsiKnown(i - 1) /\ Gain(i) * (Gain(i - 1) + Loss(i - 1)) > Gain(i - 1) * (Gain(i) + Loss(i))

\* The close is at the lower band, or under it.
AtLowerBand(i) ==
  LET w == Window(close, i, BbPeriod) IN Off(close[i], w) <= 0 /\ Beyond(Off(close[i], w), w, BbStd)

Surge(i) ==
  i >= SurgePeriod /\ volume[i] * SurgePeriod > SurgeTimes * Total(Window(volume, i, SurgePeriod))

-----------------------------------------------------------------------------
(* _analyze_signal.                                                        *)

Trend(i) == IF ~AboveLong(i) THEN 0 ELSE IF NotAboveLong(i - 1) THEN 3 ELSE 1

Rsi(i) ==
  IF ~RsiKnown(i) THEN 0
  ELSE IF RsiAbove(i, 30) /\ RsiBelow(i, RsiOversold) /\ RsiRises(i) THEN 2
  ELSE IF RsiAbove(i, 40) /\ RsiBelow(i, 60) THEN 1 ELSE 0

Band(i) == IF i > BbPeriod /\ AtLowerBand(i - 1) /\ ~AtLowerBand(i) THEN 2 ELSE 0

Crowd(i) == IF Surge(i) THEN 2 ELSE 0
Book == IF pressure > 55 THEN 2 ELSE IF pressure > MinPressure THEN 1 ELSE 0

RisesTwice(i) == close[i] > close[i - 1] /\ close[i - 1] > close[i - 2]

FromPrice(i) == Trend(i) + Rsi(i) + Band(i) + IF RisesTwice(i) THEN 2 ELSE 0

StrategyScore(i) == FromPrice(i) + Crowd(i) + Book
StrategyAction ==
  IF Now < 3 THEN "HOLD"
  ELSE IF StrategyScore(Now) >= StrongAt THEN "STRONG_BUY"
  ELSE IF StrategyScore(Now) >= ScalpAt THEN "BUY" ELSE "HOLD"
StrategyBuys == StrategyAction \in {"BUY", "STRONG_BUY"}

-----------------------------------------------------------------------------
(* The z-score of the last log return, and the volume spike.               *)

Returns == [i \in 1..Now - 1 |-> LogOf[close[i + 1]] - LogOf[close[i]]]
LastReturn == Returns[Now - 1]

\* The period before the current candle.
History == Window(Returns, Now - 2, AnomalyPeriod)
HasHistory == Now >= AnomalyPeriod + 2
Outlier == HasHistory /\ Spread(History) > 0 /\ WellBeyond(Off(LastReturn, History), History, Threshold)

\* The strategy, in its mode.
Detects(mode) ==
  /\ Outlier
  /\ mode = "DIP" => Off(LastReturn, History) < 0
  /\ mode = "MOMENTUM" => Off(LastReturn, History) > 0

\* VolumeSpikeStrategy buys.
Spike ==
  LET earlier == Window(volume, Now - 1, SpikePeriod) IN
  /\ Now >= SpikePeriod + 1 /\ Total(earlier) > 0
  /\ SpikePeriod * volume[Now] >= SpikeTimes * Total(earlier)
  /\ rising

-----------------------------------------------------------------------------
\* The scalping strategy never buys on volume and order book alone: the price must
\* have shown something.  (_analyze_signal of strategy/buy_strategy.py.)
PriceSpeaks == StrategyBuys => FromPrice(Now) > 0

\* The volume strategy measures a candle against those before it, the scalping
\* strategy against a window that the candle is part of: with the multipliers of the
\* code, what the first buys on is a surge for the second.
SpikeIsSurge == Spike => Surge(Now)
=============================================================================
