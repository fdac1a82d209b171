----------------------------- MODULE MCAccount -----------------------------
(* A small account for TLC: one KRW market.                                *)
EXTENDS Account, TLC

CONSTANT btc

OneMarketBase == [m \in Markets |-> btc]
OneMarketUnit == [m \in Markets |-> KRW]

LimitBid(m, p, v) == [market |-> m, side |-> "bid", type |-> "limit", price |-> p, volume |-> v]
LimitAsk(m, p, v) == [market |-> m, side |-> "ask", type |-> "limit", price |-> p, volume |-> v]
MarketBid(m, v) == [market |-> m, side |-> "bid", type |-> "market", price |-> 0, volume |-> v]
MarketAsk(m, v) == [market |-> m, side |-> "ask", type |-> "market", price |-> 0, volume |-> v]

\* Bids of two sizes and a sale that may exceed the balance by the tolerance.
MixedRequests ==
  UNION {{LimitBid(m, 2, 1), MarketBid(m, 2), LimitAsk(m, 1, 1), MarketAsk(m, 2)} : m \in Markets}
BidRequests == UNION {{LimitBid(m, 2, 1), LimitBid(m, 1, 1)} : m \in Markets}

OrderSymmetry == Permutations(Orders)
=============================================================================
