------------------------------ MODULE Candles ------------------------------
(***************************************************************************)
(* The candles of a market and the state of its order book, as pyupbit     *)
(* gives them, and what pandas computes over their columns.                *)
(*                                                                         *)
(* Candles come one by one.  Prices and volumes are integers and           *)
(* comparisons of means and deviations are multiplied out, exact where     *)
(* pandas rounds.                                                          *)
(***************************************************************************)
EXTENDS Integers, Sequences, Functions

CONSTANTS Closes, Volumes,
          LogOf,                       \* a price's logarithm, scaled
          Pressures,                   \* of the order book, in percent
          MaxCandles                   \* bound

ASSUME CandlesAssumption ==
  Closes \subseteq Nat \ {0} /\ Volumes \subseteq Nat /\ LogOf \in [Closes -> Int]

VARIABLES close, volume,   \* columns of the candles
          rising,          \* whether the last candle closed above its open
          pressure         \* buy_pressure

analysisVars == <<close, volume, rising, pressure>>

AnalysisInit == close = <<>> /\ volume = <<>> /\ rising = FALSE /\ pressure \in Pressures

NewCandle ==
  /\ Len(close) < MaxCandles
  /\ \E c \in Closes, v \in Volumes : close' = Append(close, c) /\ volume' = Append(volume, v)
  /\ rising' \in BOOLEAN /\ pressure' \in Pressures

AnalysisSpec == AnalysisInit /\ [][NewCandle]_analysisVars

-----------------------------------------------------------------------------
Now == Len(close)
Total(seq) == SumFunction(seq)
Squares(seq) == SumFunction([i \in DOMAIN seq |-> seq[i] * seq[i]])

\* rolling(n) at candle i; the mean is Total / n, once the window is full.
Window(column, i, n) == SubSeq(column, i - n + 1, i)

\* n (n - 1) times the variance, std() * std().
Spread(seq) == Len(seq) * Squares(seq) - Total(seq) * Total(seq)
=============================================================================
