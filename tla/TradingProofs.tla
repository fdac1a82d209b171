---------------------------- MODULE TradingProofs ----------------------------
(***************************************************************************)
(* The live account, the strategy that trades on it, and the two together: *)
(* of any number of threads, orders and attempts, and of every interval,   *)
(* period, percentage and set of prices.  The analyses, of any candles and *)
(* any windows; and the autoencoder, of any number of trainings.           *)
(***************************************************************************)
EXTENDS MCTrading, SumProofs, SequenceTheorems, TLAPS

-----------------------------------------------------------------------------
(* The live account loses no order it knows of while threads place, query, *)
(* prune and cancel at once.  The invariant adds to the two properties     *)
(* what makes them inductive: an attempt is never beyond the last, orders  *)
(* that are known have been taken, and what a query is about to prune has  *)
(* ended, which stays so.                                                  *)

Over == {"done", "cancel"}

\* A frame at exchange ex: what get_orders and the attempts have found.
Good(ex, f) ==
  /\ f \in CallFrame /\ f.attempt <= f.last
  /\ \A o \in f.orders : ex[o] # "none"
  /\ \A o \in f.stale : ex[o] \in Over

FramesGood == \A t \in Threads : Good(exchange, call[t])
TrackedTaken == \A o \in tracked : exchange[o] # "none"
LiveInv == LiveTypeOK /\ FramesGood /\ TrackedTaken /\ OpenIsTracked

\* The exchange goes one way.
Exchanges == [Orders -> {"none", "wait", "done", "cancel"}]
Advances ==
  /\ exchange' \in Exchanges
  /\ \A o \in Orders : /\ exchange[o] # "none" => exchange'[o] # "none"
                       /\ exchange[o] \in Over => exchange'[o] \in Over

-----------------------------------------------------------------------------
(* Frames.                                                                 *)

LEMMA NoCallFields ==
  /\ NoCall \in CallFrame /\ NoCall.attempt = 1 /\ NoCall.last = 1
  /\ NoCall.orders = {} /\ NoCall.stale = {}
  BY LiveAssumption DEF NoCall, CallFrame, CallSteps

LEMMA NoCallGood == \A ex : Good(ex, NoCall)
  BY LiveAssumption DEF Good, NoCall, CallFrame, CallSteps

\* A frame that is good stays so.
LEMMA StaysGood ==
  ASSUME NEW f, Good(exchange, f), Advances
  PROVE  Good(exchange', f)
  BY DEF Good, Advances, CallFrame

\* One thread's frame changes.
LEMMA OneFrame ==
  ASSUME LiveInv, NEW t \in Threads, NEW f, Good(exchange', f), Become(t, f), Advances
  PROVE  /\ call' \in [Threads -> CallFrame] /\ FramesGood'
         /\ call'[t] = f /\ \A u \in Threads \ {t} : call'[u] = call[u]
<1>1. call \in [Threads -> CallFrame] /\ f \in CallFrame
  BY DEF LiveInv, LiveTypeOK, Good
<1>2. call' \in [Threads -> CallFrame] /\ call'[t] = f /\ \A u \in Threads \ {t} : call'[u] = call[u]
  BY <1>1 DEF Become
<1>3. \A u \in Threads \ {t} : Good(exchange', call'[u])
  BY <1>2, StaysGood DEF LiveInv, FramesGood
<1> QED BY <1>2, <1>3 DEF FramesGood

\* The frame of a thread and the one it becomes.
LEMMA FrameOf ==
  ASSUME LiveInv, NEW t \in Threads
  PROVE  call[t] \in CallFrame /\ Good(exchange, call[t])
  BY DEF LiveInv, LiveTypeOK, FramesGood

\* A step of a thread that had nothing to track, and that forgets nothing.
LEMMA ForgetsNothing ==
  ASSUME LiveInv, NEW t \in Threads, ~Calls(t, "track"),
         \A u \in Threads \ {t} : call'[u] = call[u],
         tracked \subseteq tracked', unknown \subseteq unknown',
         \A o \in Orders : exchange'[o] = "wait" => exchange[o] = "wait"
  PROVE  OpenIsTracked'
  BY DEF LiveInv, OpenIsTracked, Calls

-----------------------------------------------------------------------------
(* Steps that change a frame only.                                         *)

LEMMA SameExchange ==
  ASSUME LiveInv, UNCHANGED exchange
  PROVE  Advances
  BY DEF LiveInv, LiveTypeOK, Advances, Exchanges

LEMMA FrameStep ==
  ASSUME LiveInv, NEW t \in Threads, NEW f, Good(exchange, f), Become(t, f),
         ~Calls(t, "track"), UNCHANGED <<exchange, tracked, unknown>>
  PROVE  LiveInv'
<1>1. Advances BY SameExchange
<1>2. Good(exchange', f) BY <1>1, StaysGood
<1>3. /\ call' \in [Threads -> CallFrame] /\ FramesGood'
      /\ \A u \in Threads \ {t} : call'[u] = call[u]
  BY <1>1, <1>2, OneFrame
<1>4. OpenIsTracked'
  <2> USE <1>3
  <2> QED BY ForgetsNothing
<1> QED BY <1>3, <1>4 DEF LiveInv, LiveTypeOK, TrackedTaken

\* What a failed attempt leaves.
LEMMA FailedFrame ==
  ASSUME LiveInv, NEW t \in Threads, Failed(t)
  PROVE  \E f : Good(exchange, f) /\ Become(t, f)
<1> DEFINE f == [call[t] EXCEPT !.step = "price", !.attempt = @ + 1]
<1>1. call[t] \in CallFrame /\ Good(exchange, call[t]) BY FrameOf
<1>2. CASE call[t].attempt = call[t].last
  BY <1>2, NoCallGood DEF Failed, Return
<1>3. CASE call[t].attempt # call[t].last
  <2>1. call[t].attempt + 1 \in 1..MaxAttempts /\ call[t].attempt + 1 <= call[t].last
    BY <1>1, <1>3, LiveAssumption DEF Good, CallFrame
  <2>2. f \in CallFrame /\ f.attempt <= f.last /\ f.orders = call[t].orders /\ f.stale = call[t].stale
    BY <1>1, <2>1 DEF CallFrame, CallSteps
  <2>3. Good(exchange, f) BY <1>1, <2>2 DEF Good
  <2> QED BY <2>3, <1>3 DEF Failed
<1> QED BY <1>2, <1>3

LEMMA ReturnFrame ==
  ASSUME NEW t \in Threads, Return(t)
  PROVE  \E f : Good(exchange, f) /\ Become(t, f)
  BY NoCallGood DEF Return

LEMMA BuyMarketStep == ASSUME LiveInv, NEW t \in Threads, BuyMarket(t) PROVE LiveInv'
<1> DEFINE f == [NoCall EXCEPT !.step = "price", !.last = MaxAttempts]
<1>1. MaxAttempts \in 1..MaxAttempts /\ 1 <= MaxAttempts BY LiveAssumption
<1>2. /\ f \in CallFrame /\ f.attempt = 1 /\ f.last = MaxAttempts
      /\ f.orders = {} /\ f.stale = {}
  BY <1>1, NoCallFields DEF CallFrame, CallSteps
<1>3. Become(t, f) /\ ~Calls(t, "track") /\ UNCHANGED <<exchange, tracked, unknown>>
  BY DEF BuyMarket, Calls
<1> HIDE DEF f
<1>4. Good(exchange, f) BY <1>1, <1>2 DEF Good
<1> QED BY <1>3, <1>4, FrameStep

LEMMA PlaceOrderStep == ASSUME LiveInv, NEW t \in Threads, PlaceOrder(t) PROVE LiveInv'
<1> DEFINE f == [NoCall EXCEPT !.step = "order"]
<1>1. Good(exchange, f)
  BY LiveAssumption DEF Good, NoCall, CallFrame, CallSteps
<1> QED BY <1>1, FrameStep DEF PlaceOrder, Calls

LEMMA AskPriceStep == ASSUME LiveInv, NEW t \in Threads, AskPrice(t) PROVE LiveInv'
<1> DEFINE f == [call[t] EXCEPT !.step = "order"]
<1>1. Good(exchange, f)
  BY FrameOf DEF Good, CallFrame, CallSteps
<1>2. \E g : Good(exchange, g) /\ Become(t, g)
  BY <1>1, FailedFrame, ReturnFrame DEF AskPrice
<1>3. ~Calls(t, "track") /\ UNCHANGED <<exchange, tracked, unknown>>
  BY DEF AskPrice, Calls
<1> QED BY <1>2, <1>3, FrameStep

LEMMA RefusedStep == ASSUME LiveInv, NEW t \in Threads, Refused(t) PROVE LiveInv'
<1>1. \E g : Good(exchange, g) /\ Become(t, g)
  BY FailedFrame, ReturnFrame DEF Refused
<1>2. ~Calls(t, "track") /\ UNCHANGED <<exchange, tracked, unknown>>
  BY DEF Refused, Calls
<1> QED BY <1>1, <1>2, FrameStep

LEMMA GetOrdersStep == ASSUME LiveInv, NEW t \in Threads, GetOrders(t) PROVE LiveInv'
<1> DEFINE f == [NoCall EXCEPT !.step = "query", !.orders = tracked]
<1>1. tracked \in SUBSET Orders /\ \A o \in tracked : exchange[o] # "none"
  BY DEF LiveInv, LiveTypeOK, TrackedTaken
<1>2. /\ f \in CallFrame /\ f.attempt = 1 /\ f.last = 1
      /\ f.orders = tracked /\ f.stale = {}
  BY <1>1, NoCallFields DEF CallFrame, CallSteps
<1>3. Become(t, f) /\ ~Calls(t, "track") /\ UNCHANGED <<exchange, tracked, unknown>>
  BY DEF GetOrders, Calls
<1> HIDE DEF f
<1>4. Good(exchange, f)
  BY <1>1, <1>2 DEF Good
<1> QED BY <1>3, <1>4, FrameStep

\* An answer that is neither "wait" nor missing has come from an order that has ended.
LEMMA QueryStep == ASSUME LiveInv, NEW t \in Threads, Query(t) PROVE LiveInv'
<1>1. ~Calls(t, "track") /\ UNCHANGED <<exchange, tracked, unknown>>
  BY DEF Query, Calls
<1>2. PICK o \in call[t].orders :
        \/ Become(t, [call[t] EXCEPT !.orders = @ \ {o},
                        !.stale = IF exchange[o] = "wait" THEN @ ELSE @ \cup {o}])
        \/ Become(t, [call[t] EXCEPT !.orders = @ \ {o}])
  BY DEF Query
<1>3. call[t] \in CallFrame /\ Good(exchange, call[t]) BY FrameOf
<1>4. o \in Orders /\ exchange[o] \in {"wait"} \cup Over
  BY <1>3 DEF Good, CallFrame, Over, LiveInv, LiveTypeOK
<1> DEFINE left == call[t].orders \ {o}
           ended == IF exchange[o] = "wait" THEN call[t].stale ELSE call[t].stale \cup {o}
           asked == [call[t] EXCEPT !.orders = left, !.stale = ended]
           passed == [call[t] EXCEPT !.orders = left]
<1>5. left \in SUBSET Orders /\ \A p \in left : exchange[p] # "none"
  BY <1>3 DEF Good, CallFrame
<1>6. ended \in SUBSET Orders /\ \A p \in ended : exchange[p] \in Over
  BY <1>3, <1>4 DEF Good, CallFrame
<1>7. Good(exchange, passed)
  BY <1>3, <1>5 DEF Good, CallFrame
<1>8. Good(exchange, asked)
  <2> HIDE DEF ended, left
  <2>1. asked \in CallFrame /\ asked.orders = left /\ asked.stale = ended
        /\ asked.attempt = call[t].attempt /\ asked.last = call[t].last
    BY <1>3, <1>5, <1>6 DEF CallFrame
  <2> QED BY <2>1, <1>3, <1>5, <1>6 DEF Good
<1>9. Become(t, asked) \/ Become(t, passed)
  BY <1>2
<1> HIDE DEF asked, passed
<1> QED BY <1>1, <1>7, <1>8, <1>9, FrameStep

LEMMA CancelOrderStep ==
  ASSUME LiveInv, NEW t \in Threads, NEW o \in Orders, CancelOrder(t, o)
  PROVE  LiveInv'
<1> DEFINE f == [NoCall EXCEPT !.step = "cancel", !.orders = {o}]
<1>1. /\ f \in CallFrame /\ f.attempt = 1 /\ f.last = 1
      /\ f.orders = {o} /\ f.stale = {}
  BY NoCallFields DEF CallFrame, CallSteps
<1>2. /\ Become(t, f) /\ ~Calls(t, "track") /\ exchange[o] # "none"
      /\ UNCHANGED <<exchange, tracked, unknown>>
  BY DEF CancelOrder, Calls
<1> HIDE DEF f
<1>3. Good(exchange, f)
  BY <1>1, <1>2 DEF Good
<1> QED BY <1>2, <1>3, FrameStep

-----------------------------------------------------------------------------
(* Steps that change what is known, and the exchange's own.                *)

\* The order is taken, and the answer comes or is lost.
LEMMA TakenStep == ASSUME LiveInv, NEW t \in Threads, Taken(t) PROVE LiveInv'
<1>1. PICK o \in Orders :
        /\ Calls(t, "order") /\ exchange[o] = "none"
        /\ exchange' = [exchange EXCEPT ![o] = "wait"]
        /\ \/ Become(t, [call[t] EXCEPT !.step = "track", !.orders = {o}]) /\ UNCHANGED unknown
           \/ (Return(t) \/ Failed(t)) /\ unknown' = unknown \cup {o}
        /\ UNCHANGED tracked
  BY DEF Taken
<1>2. Advances /\ exchange' \in Exchanges /\ exchange'[o] = "wait"
      /\ \A p \in Orders \ {o} : exchange'[p] = exchange[p]
  BY <1>1 DEF Advances, Exchanges, Over, LiveInv, LiveTypeOK
<1>3. call[t] \in CallFrame /\ Good(exchange, call[t]) BY FrameOf
<1>4. TrackedTaken' /\ tracked' \subseteq Orders /\ unknown' \subseteq Orders
  BY <1>1, <1>2 DEF LiveInv, LiveTypeOK, TrackedTaken, Advances
<1>5. CASE Become(t, [call[t] EXCEPT !.step = "track", !.orders = {o}]) /\ UNCHANGED unknown
  <2> DEFINE f == [call[t] EXCEPT !.step = "track", !.orders = {o}]
  <2>1. f \in CallFrame /\ f.step = "track" /\ f.orders = {o} /\ f.stale = call[t].stale
        /\ f.attempt = call[t].attempt /\ f.last = call[t].last
    BY <1>3 DEF CallFrame, CallSteps
  <2>2. Become(t, f) BY <1>5
  <2> HIDE DEF f
  <2>3. Good(exchange', f)
    BY <1>2, <1>3, <2>1 DEF Good, Advances, CallFrame
  <2>4. /\ call' \in [Threads -> CallFrame] /\ FramesGood'
        /\ call'[t] = f /\ \A u \in Threads \ {t} : call'[u] = call[u]
    BY <1>2, <2>2, <2>3, OneFrame
  <2>5. OpenIsTracked'
    BY <1>1, <1>2, <1>5, <2>1, <2>4 DEF LiveInv, OpenIsTracked, Calls
  <2> QED BY <1>2, <1>4, <2>4, <2>5 DEF LiveInv, LiveTypeOK, Exchanges
<1>6. CASE (Return(t) \/ Failed(t)) /\ unknown' = unknown \cup {o}
  <2>1. PICK f : Good(exchange, f) /\ Become(t, f)
    BY <1>6, ReturnFrame, FailedFrame
  <2>2. Good(exchange', f) BY <1>2, <2>1, StaysGood
  <2>3. /\ call' \in [Threads -> CallFrame] /\ FramesGood'
        /\ \A u \in Threads \ {t} : call'[u] = call[u]
    BY <1>2, <2>1, <2>2, OneFrame
  <2>4. OpenIsTracked'
    BY <1>1, <1>2, <1>6, <2>3 DEF LiveInv, OpenIsTracked, Calls
  <2> QED BY <1>2, <1>4, <2>3, <2>4 DEF LiveInv, LiveTypeOK, Exchanges
<1> QED BY <1>1, <1>5, <1>6

\* What Return leaves: the frame of t is idle, the others stay.
LEMMA Returned ==
  ASSUME LiveInv, NEW t \in Threads, Return(t), Advances
  PROVE  /\ call' \in [Threads -> CallFrame] /\ FramesGood'
         /\ \A u \in Threads \ {t} : call'[u] = call[u]
<1>1. Good(exchange', NoCall) BY NoCallGood
<1> QED BY <1>1, OneFrame DEF Return

\* The order gets into the set.
LEMMA TrackStep == ASSUME LiveInv, NEW t \in Threads, Track(t) PROVE LiveInv'
<1>1. Advances /\ Return(t) /\ UNCHANGED <<exchange, unknown>>
      /\ tracked' = tracked \cup call[t].orders
  BY SameExchange DEF Track
<1>2. /\ call' \in [Threads -> CallFrame] /\ FramesGood'
      /\ \A u \in Threads \ {t} : call'[u] = call[u]
  BY <1>1, Returned
<1>3. call[t].orders \subseteq Orders /\ \A o \in call[t].orders : exchange[o] # "none"
  BY FrameOf DEF Good, CallFrame
<1>4. TrackedTaken' /\ tracked' \subseteq Orders
  BY <1>1, <1>3 DEF LiveInv, LiveTypeOK, TrackedTaken
<1>5. OpenIsTracked'
  BY <1>1, <1>2 DEF LiveInv, OpenIsTracked, Calls
<1> QED BY <1>1, <1>2, <1>4, <1>5 DEF LiveInv, LiveTypeOK

\* What is pruned has ended, whatever has happened since it was asked for.
LEMMA PruneStep == ASSUME LiveInv, NEW t \in Threads, Prune(t) PROVE LiveInv'
<1>1. Advances /\ Return(t) /\ UNCHANGED <<exchange, unknown>> /\ Calls(t, "query")
      /\ tracked' = tracked \ call[t].stale
  BY SameExchange DEF Prune
<1>2. /\ call' \in [Threads -> CallFrame] /\ FramesGood'
      /\ \A u \in Threads \ {t} : call'[u] = call[u]
  BY <1>1, Returned
<1>3. \A o \in call[t].stale : exchange[o] # "wait"
  BY FrameOf DEF Good, Over
<1>4. TrackedTaken' /\ tracked' \subseteq Orders
  BY <1>1 DEF LiveInv, LiveTypeOK, TrackedTaken
<1>5. OpenIsTracked'
  BY <1>1, <1>2, <1>3 DEF LiveInv, OpenIsTracked, Calls
<1> QED BY <1>1, <1>2, <1>4, <1>5 DEF LiveInv, LiveTypeOK

LEMMA CancelledStep == ASSUME LiveInv, NEW t \in Threads, Cancelled(t) PROVE LiveInv'
<1>1. Calls(t, "cancel") /\ UNCHANGED <<tracked, unknown>>
      /\ (Become(t, [call[t] EXCEPT !.step = "discard"]) \/ Return(t))
  BY DEF Cancelled
<1>2. Advances /\ exchange' \in Exchanges
      /\ \A o \in Orders : exchange'[o] = "wait" => exchange[o] = "wait"
  <2>1. CASE UNCHANGED exchange
    BY <2>1, SameExchange DEF Advances
  <2>2. CASE \E o \in call[t].orders : exchange[o] = "wait"
                                     /\ exchange' = [exchange EXCEPT ![o] = "cancel"]
    BY <2>2 DEF Advances, Exchanges, Over, LiveInv, LiveTypeOK
  <2> QED BY <2>1, <2>2 DEF Cancelled
<1>3. PICK f : Good(exchange, f) /\ Become(t, f)
  <2>1. Good(exchange, [call[t] EXCEPT !.step = "discard"])
    BY FrameOf DEF Good, CallFrame, CallSteps
  <2> QED BY <1>1, <2>1, ReturnFrame
<1>4. Good(exchange', f) BY <1>2, <1>3, StaysGood
<1>5. /\ call' \in [Threads -> CallFrame] /\ FramesGood'
      /\ \A u \in Threads \ {t} : call'[u] = call[u]
  BY <1>2, <1>3, <1>4, OneFrame
<1>6. OpenIsTracked'
  <2>1. ~Calls(t, "track") BY <1>1 DEF Calls
  <2> QED BY <1>1, <1>2, <1>5, <2>1, ForgetsNothing
<1> QED BY <1>1, <1>2, <1>5, <1>6 DEF LiveInv, LiveTypeOK, TrackedTaken, Advances, Exchanges

LEMMA DiscardStep == ASSUME LiveInv, NEW t \in Threads, Discard(t) PROVE LiveInv'
<1>1. Advances /\ Return(t) /\ UNCHANGED exchange /\ Calls(t, "discard")
      /\ tracked' = tracked \ call[t].orders /\ unknown' = unknown \cup call[t].orders
  BY SameExchange DEF Discard
<1>2. /\ call' \in [Threads -> CallFrame] /\ FramesGood'
      /\ \A u \in Threads \ {t} : call'[u] = call[u]
  BY <1>1, Returned
<1>3. call[t].orders \subseteq Orders BY FrameOf DEF CallFrame
<1>4. TrackedTaken' /\ tracked' \subseteq Orders /\ unknown' \subseteq Orders
  BY <1>1, <1>3 DEF LiveInv, LiveTypeOK, TrackedTaken
<1>5. OpenIsTracked'
  BY <1>1, <1>2 DEF LiveInv, OpenIsTracked, Calls
<1> QED BY <1>1, <1>2, <1>4, <1>5 DEF LiveInv, LiveTypeOK

LEMMA FillStep == ASSUME LiveInv, NEW o \in Orders, Fill(o) PROVE LiveInv'
<1>1. UNCHANGED <<tracked, call, unknown>> BY DEF Fill
<1>2. Advances /\ exchange' \in Exchanges
      /\ \A p \in Orders : exchange'[p] = "wait" => exchange[p] = "wait"
  BY DEF Fill, Advances, Exchanges, Over, LiveInv, LiveTypeOK
<1>3. FramesGood' BY <1>1, <1>2, StaysGood DEF LiveInv, FramesGood
<1>4. OpenIsTracked' BY <1>1, <1>2 DEF LiveInv, OpenIsTracked, Calls
<1> QED BY <1>1, <1>2, <1>3, <1>4 DEF LiveInv, LiveTypeOK, TrackedTaken, Advances, Exchanges

LEMMA LiveRestartStep == ASSUME LiveInv, LiveRestart PROVE LiveInv'
<1>1. \A t \in Threads : call'[t] = NoCall BY DEF LiveRestart
<1>2. call' \in [Threads -> CallFrame] /\ FramesGood'
  BY <1>1, NoCallGood DEF LiveRestart, FramesGood, Good
<1> QED BY <1>2 DEF LiveRestart, LiveInv, LiveTypeOK, TrackedTaken, OpenIsTracked

-----------------------------------------------------------------------------
(* The theorems.                                                           *)

LEMMA LiveInvInit == ASSUME LiveInit PROVE LiveInv
<1>1. \A t \in Threads : call[t] = NoCall BY DEF LiveInit
<1>2. call \in [Threads -> CallFrame] /\ FramesGood
  BY <1>1, NoCallGood DEF LiveInit, FramesGood, Good
<1> QED BY <1>2 DEF LiveInit, LiveInv, LiveTypeOK, TrackedTaken, OpenIsTracked

LEMMA LiveInvNext == ASSUME LiveInv, [LiveNext]_liveVars PROVE LiveInv'
<1>1. CASE UNCHANGED liveVars
  BY <1>1 DEF liveVars, LiveInv, LiveTypeOK, FramesGood, Good, TrackedTaken, OpenIsTracked, Calls
<1>2. ASSUME NEW t \in Threads, LiveStep(t) PROVE LiveInv'
  BY <1>2, AskPriceStep, TakenStep, RefusedStep, TrackStep, QueryStep, PruneStep, CancelledStep,
     DiscardStep DEF LiveStep, OrderStep
<1>3. ASSUME NEW t \in Threads, LiveCall(t) PROVE LiveInv'
  BY <1>3, BuyMarketStep, PlaceOrderStep, GetOrdersStep, CancelOrderStep DEF LiveCall
<1> QED BY <1>1, <1>2, <1>3, FillStep, LiveRestartStep DEF LiveNext

THEOREM LiveInvariant == LiveSpec => []LiveInv
  BY LiveInvInit, LiveInvNext, PTL DEF LiveSpec

\* Every frame keeps its shape: with_retry never counts past its last attempt, for
\* every number of attempts.
THEOREM LiveTypeCorrect == LiveSpec => []LiveTypeOK
  BY LiveInvariant, PTL DEF LiveInv

\* No thread's pruning, cancelling or restart makes the account forget an order that
\* is open, for every number of threads and orders.
THEOREM LiveOpenIsTracked == LiveSpec => []OpenIsTracked
  BY LiveInvariant, PTL DEF LiveInv

-----------------------------------------------------------------------------
(* What the scheduler's thread and the main loop make of one scalping      *)
(* strategy.  That signals and position agree rests on who may set the     *)
(* position, the scheduler's thread when there is none, the main loop      *)
(* never, and what a crash may lose of them on the order of the queue:     *)
(* whatever part of it was handled, what is left is a SELL or two, a BUY   *)
(* or nothing.  That no round is skipped rests on the age of the strategy's own *)
(* check, which with the rest of the wait makes up an interval.            *)

\* Where the scheduler's thread is, and what it may then count on.
SchedInv ==
  /\ SchedAt("fetch") => position = 0
  /\ sched.step \in {"sleep", "visit", "fetch"} => ~sched.signal
  /\ SchedAt("put") => sched.signal

Shape ==
  /\ position \in Price0 /\ sinceExec \in Ages /\ sinceCheck \in Ages
  /\ row \in Saved /\ sched \in SchedFrame /\ main \in MainFrame
  /\ tasks \in Seq({"BUY", "SELL"}) /\ balance \in Int /\ restarted \in BOOLEAN

\* The places in a queue, from the k-th on, of the signals of a kind; the BUYs less the
\* SELLs there; what the two threads are about to send, and the SELL of the position.
Of(q, kind, k) == {i \in k..Len(q) : q[i] = kind}
Waits(q, k) == Cardinality(Of(q, "BUY", k)) - Cardinality(Of(q, "SELL", k))
Pending ==
  (IF sched.signal THEN 1 ELSE 0) - (IF MainAt("put") THEN 1 ELSE 0) - Held(position)

Agree ==
  /\ balance + Waits(tasks, 1) + Pending = 0
  /\ \A k \in 1..Len(tasks) + 1 : Waits(tasks, k) + Pending \in -2..1

ScheduledInv == Shape /\ SchedInv /\ Agree

LEMMA Constants ==
  /\ Interval \in Nat \ {0} /\ Period \in Nat /\ Prices \subseteq Nat \ {0}
  /\ 0 \in Ages /\ Interval \in Ages /\ 0 \in Price0 /\ Ages \subseteq Nat
  /\ Price0 \subseteq Nat /\ Prices \subseteq Price0
  BY ScheduledAssumption DEF Ages, Price0

LEMMA NewRowSaved == NewRow \in Saved
  BY Constants DEF NewRow, Saved

LEMMA SleepingFrame ==
  ASSUME NEW wait \in 0..Period
  PROVE  /\ Sleeping(wait) \in SchedFrame /\ Sleeping(wait).step = "sleep"
         /\ Sleeping(wait).signal = FALSE /\ Sleeping(wait).wait = wait
  BY Constants, NewRowSaved DEF Sleeping, SchedFrame

LEMMA IdleMainFrame == IdleMain \in MainFrame /\ IdleMain.step = "idle"
  BY NewRowSaved DEF IdleMain, MainFrame

LEMMA StateSaved == ASSUME Shape PROVE State \in Saved
  BY DEF Shape, State, Saved

\* The thread goes on in its round, with its signal as it is.
LEMMA FrameSteps ==
  ASSUME NEW f \in SchedFrame,
         NEW s \in {"sleep", "visit", "fetch", "stamp", "get", "save", "put"}
  PROVE  LET g == [f EXCEPT !.step = s]
         IN  g \in SchedFrame /\ g.step = s /\ g.signal = f.signal /\ g.wait = f.wait
  BY DEF SchedFrame

LEMMA FrameSaves ==
  ASSUME NEW f \in SchedFrame, NEW n \in 0..2,
         NEW s \in {"sleep", "visit", "fetch", "stamp", "get", "save", "put"}
  PROVE  LET g == [f EXCEPT !.step = s, !.saves = n]
         IN  g \in SchedFrame /\ g.step = s /\ g.signal = f.signal
  BY DEF SchedFrame

-----------------------------------------------------------------------------
(* The queue: what it holds after a put, and after a get.                  *)

Signal == {"BUY", "SELL"}
Worth(kind) == IF kind = "BUY" THEN 1 ELSE -1

LEMMA OfFinite ==
  ASSUME NEW q \in Seq(Signal), NEW kind, NEW k \in Nat
  PROVE  IsFiniteSet(Of(q, kind, k)) /\ Cardinality(Of(q, kind, k)) \in Nat
<1>1. IsFiniteSet(k..Len(q))
  BY LenProperties, FS_Interval
<1>2. Of(q, kind, k) \subseteq k..Len(q)
  BY DEF Of
<1>. QED  BY <1>1, <1>2, FS_Subset, FS_CardinalityType

LEMMA WaitsInt == ASSUME NEW q \in Seq(Signal), NEW k \in Nat PROVE Waits(q, k) \in Int
  BY OfFinite DEF Waits

LEMMA OfAppend ==
  ASSUME NEW q \in Seq(Signal), NEW x \in Signal, NEW kind, NEW k \in 1..Len(q) + 1
  PROVE  Cardinality(Of(Append(q, x), kind, k)) = Cardinality(Of(q, kind, k)) + IF x = kind THEN 1 ELSE 0
<1>1. /\ Len(q) \in Nat /\ Len(Append(q, x)) = Len(q) + 1 /\ Append(q, x)[Len(q) + 1] = x
      /\ \A i \in 1..Len(q) : Append(q, x)[i] = q[i]
  BY LenProperties, AppendProperties
<1>2. k \in Nat /\ IsFiniteSet(Of(q, kind, k)) /\ Cardinality(Of(q, kind, k)) \in Nat
  BY <1>1, OfFinite
<1>3. k..Len(q) + 1 = (k..Len(q)) \cup {Len(q) + 1} /\ \A i \in k..Len(q) : i \in 1..Len(q)
  BY <1>1
<1>4. CASE x = kind
  <2>1. Of(Append(q, x), kind, k) = Of(q, kind, k) \cup {Len(q) + 1}
    BY <1>1, <1>3, <1>4 DEF Of
  <2>2. Len(q) + 1 \notin Of(q, kind, k)
    BY <1>1 DEF Of
  <2>. QED  BY <1>2, <1>4, <2>1, <2>2, FS_AddElement
<1>5. CASE x # kind
  <2>1. Of(Append(q, x), kind, k) = Of(q, kind, k)
    BY <1>1, <1>3, <1>5 DEF Of
  <2>. QED  BY <1>2, <1>5, <2>1
<1>. QED  BY <1>4, <1>5

LEMMA WaitsAppend ==
  ASSUME NEW q \in Seq(Signal), NEW x \in Signal, NEW k \in 1..Len(q) + 1
  PROVE  Waits(Append(q, x), k) = Waits(q, k) + Worth(x)
<1>1. /\ Cardinality(Of(Append(q, x), "BUY", k)) = Cardinality(Of(q, "BUY", k)) + IF x = "BUY" THEN 1 ELSE 0
      /\ Cardinality(Of(Append(q, x), "SELL", k)) = Cardinality(Of(q, "SELL", k)) + IF x = "SELL" THEN 1 ELSE 0
  BY OfAppend
<1>2. k \in Nat
  BY LenProperties
<1>3. Cardinality(Of(q, "BUY", k)) \in Nat /\ Cardinality(Of(q, "SELL", k)) \in Nat
  BY <1>2, OfFinite
<1>. QED  BY <1>1, <1>3 DEF Waits, Worth, Signal

\* Beyond the end nothing waits.
LEMMA WaitsEnd == ASSUME NEW q \in Seq(Signal) PROVE Waits(q, Len(q) + 1) = 0
<1>1. Of(q, "BUY", Len(q) + 1) = {} /\ Of(q, "SELL", Len(q) + 1) = {}
  BY LenProperties DEF Of
<1>2. Cardinality({}) = 0
  BY FS_EmptySet
<1>3. Cardinality(Of(q, "BUY", Len(q) + 1)) = 0 /\ Cardinality(Of(q, "SELL", Len(q) + 1)) = 0
  BY <1>1, <1>2, Zenon
<1>4. PICK k : k = Len(q) + 1
  OBVIOUS
<1>5. Cardinality(Of(q, "BUY", k)) = 0 /\ Cardinality(Of(q, "SELL", k)) = 0
  BY <1>3, <1>4, Zenon
<1>6. Waits(q, k) = 0
  BY <1>5 DEF Waits
<1>. QED  BY <1>4, <1>6, Zenon

LEMMA OfTail ==
  ASSUME NEW q \in Seq(Signal), q # <<>>, NEW kind, NEW k \in 1..Len(q)
  PROVE  Cardinality(Of(Tail(q), kind, k)) = Cardinality(Of(q, kind, k + 1))
<1> DEFINE next == [i \in Of(Tail(q), kind, k) |-> i + 1]
<1>1. /\ Len(q) \in Nat /\ Len(Tail(q)) = Len(q) - 1
      /\ \A i \in 1..Len(Tail(q)) : Tail(q)[i] = q[i + 1]
      /\ Tail(q) \in Seq(Signal) /\ k \in Nat
  BY LenProperties, HeadTailProperties
<1>2. \A i \in Of(Tail(q), kind, k) : i \in Nat /\ i + 1 \in Of(q, kind, k + 1)
  BY <1>1 DEF Of
<1>3. \A j \in Of(q, kind, k + 1) : j \in Nat /\ j - 1 \in Of(Tail(q), kind, k) /\ (j - 1) + 1 = j
  <2>1. ASSUME NEW j \in Of(q, kind, k + 1)
        PROVE  j \in Nat /\ j - 1 \in Of(Tail(q), kind, k) /\ (j - 1) + 1 = j
    <3>1. j \in k + 1..Len(q) /\ q[j] = kind
      BY DEF Of
    <3>2. j - 1 \in k..Len(Tail(q)) /\ j - 1 \in 1..Len(Tail(q)) /\ (j - 1) + 1 = j /\ j \in Nat
      BY <1>1, <3>1
    <3>3. Tail(q)[j - 1] = q[(j - 1) + 1]
      BY <1>1, <3>2
    <3>. QED  BY <3>1, <3>2, <3>3 DEF Of
  <2>. QED  BY <2>1
<1>4. next \in [Of(Tail(q), kind, k) -> Of(q, kind, k + 1)]
  BY <1>2
<1>5. \A i, j \in Of(Tail(q), kind, k) : next[i] = next[j] => i = j
  BY <1>2
<1>6. \A j \in Of(q, kind, k + 1) : \E i \in Of(Tail(q), kind, k) : next[i] = j
  BY <1>3
<1> HIDE DEF next
<1>7. next \in Bijection(Of(Tail(q), kind, k), Of(q, kind, k + 1))
  BY <1>4, <1>5, <1>6 DEF Bijection, Injection, Surjection, IsInjective
<1>8. IsFiniteSet(Of(Tail(q), kind, k))
  BY <1>1, OfFinite
<1>9. ExistsBijection(Of(Tail(q), kind, k), Of(q, kind, k + 1))
  BY <1>7 DEF ExistsBijection
<1>. QED  BY <1>8, <1>9, FS_Bijection

LEMMA WaitsTail ==
  ASSUME NEW q \in Seq(Signal), q # <<>>, NEW k \in 1..Len(q)
  PROVE  Waits(Tail(q), k) = Waits(q, k + 1)
  BY OfTail DEF Waits

LEMMA OfHead ==
  ASSUME NEW q \in Seq(Signal), q # <<>>, NEW kind
  PROVE  Cardinality(Of(q, kind, 1)) = Cardinality(Of(q, kind, 2)) + IF Head(q) = kind THEN 1 ELSE 0
<1>1. Len(q) \in Nat /\ Len(q) >= 1 /\ Head(q) = q[1]
  BY LenProperties, EmptySeq, HeadTailProperties
<1>2. IsFiniteSet(Of(q, kind, 2)) /\ Cardinality(Of(q, kind, 2)) \in Nat
  BY OfFinite
<1>3. 1..Len(q) = {1} \cup 2..Len(q)
  BY <1>1
<1>4. CASE Head(q) = kind
  <2>1. Of(q, kind, 1) = Of(q, kind, 2) \cup {1} /\ 1 \notin Of(q, kind, 2)
    BY <1>1, <1>3, <1>4 DEF Of
  <2>. QED  BY <1>2, <1>4, <2>1, FS_AddElement
<1>5. CASE Head(q) # kind
  <2>1. Of(q, kind, 1) = Of(q, kind, 2)
    BY <1>1, <1>3, <1>5 DEF Of
  <2>. QED  BY <1>2, <1>5, <2>1
<1>. QED  BY <1>4, <1>5

LEMMA WaitsHead ==
  ASSUME NEW q \in Seq(Signal), q # <<>>
  PROVE  Waits(q, 1) = Waits(q, 2) + Worth(Head(q))
<1>1. /\ Cardinality(Of(q, "BUY", 1)) = Cardinality(Of(q, "BUY", 2)) + IF Head(q) = "BUY" THEN 1 ELSE 0
      /\ Cardinality(Of(q, "SELL", 1)) = Cardinality(Of(q, "SELL", 2)) + IF Head(q) = "SELL" THEN 1 ELSE 0
  BY OfHead
<1>2. Cardinality(Of(q, "BUY", 2)) \in Nat /\ Cardinality(Of(q, "SELL", 2)) \in Nat
  BY OfFinite
<1>3. Head(q) \in {"BUY", "SELL"}
  BY HeadTailProperties DEF Signal
<1>. QED  BY <1>1, <1>2, <1>3 DEF Waits, Worth

LEMMA ToComeWaits ==
  ASSUME tasks \in Seq(Signal), NEW k \in Nat
  PROVE  ToCome(k) = Waits(tasks, k) + Pending
<1>1. Cardinality(Of(tasks, "BUY", k)) \in Nat /\ Cardinality(Of(tasks, "SELL", k)) \in Nat
  BY OfFinite
<1>2. Queued("BUY", k) = Of(tasks, "BUY", k) /\ Queued("SELL", k) = Of(tasks, "SELL", k)
  BY DEF Queued, Of
<1>. QED  BY <1>1, <1>2 DEF ToCome, Waits, Pending, Held

LEMMA PendingBounds == Pending \in -2..1
  BY DEF Pending, Held

LEMMA AgreeStays ==
  ASSUME Agree, Pending' = Pending, UNCHANGED <<tasks, balance>>
  PROVE  Agree'
  BY DEF Agree

\* A signal is put into the queue that was about to be.
LEMMA AgreePut ==
  ASSUME Agree, tasks \in Seq(Signal), balance \in Int, UNCHANGED balance, NEW kind \in Signal,
         tasks' = Append(tasks, kind), Pending' = Pending - Worth(kind)
  PROVE  Agree'
<1>1. /\ Len(tasks) \in Nat /\ Len(tasks') = Len(tasks) + 1 /\ tasks' \in Seq(Signal)
      /\ Pending \in Int /\ Worth(kind) \in Int
  BY LenProperties, AppendProperties, PendingBounds DEF Worth
<1>2. \A k \in 1..Len(tasks) + 1 : /\ Waits(tasks, k) \in Int
                                    /\ Waits(tasks', k) = Waits(tasks, k) + Worth(kind)
  BY <1>1, WaitsInt, WaitsAppend
<1>3. \A k \in 1..Len(tasks) + 1 : Waits(tasks', k) + Pending' = Waits(tasks, k) + Pending
  BY <1>1, <1>2
<1>4. Waits(tasks', Len(tasks') + 1) + Pending' \in -2..1
  <2>1. Waits(tasks', Len(tasks') + 1) = 0 BY <1>1, WaitsEnd
  <2>2. Pending' \in -2..1 BY DEF Pending, Held
  <2> QED BY <2>1, <2>2
<1>5. 1..Len(tasks') + 1 = (1..Len(tasks) + 1) \cup {Len(tasks') + 1} /\ 1 \in 1..Len(tasks) + 1
  BY <1>1
<1>6. balance' + Waits(tasks', 1) + Pending' = 0
  <2>1. balance + Waits(tasks, 1) + Pending = 0 BY DEF Agree
  <2>2. Waits(tasks, 1) \in Int /\ Waits(tasks', 1) = Waits(tasks, 1) + Worth(kind) BY <1>2, <1>5
  <2> QED BY <1>1, <2>1, <2>2
<1>7. \A k \in 1..Len(tasks') + 1 : Waits(tasks', k) + Pending' \in -2..1
  BY <1>3, <1>4, <1>5 DEF Agree
<1> QED BY <1>6, <1>7 DEF Agree

\* And the first is handled.
LEMMA AgreeTaken ==
  ASSUME Agree, tasks \in Seq(Signal), tasks # <<>>, balance \in Int,
         tasks' = Tail(tasks), balance' = balance + Worth(Head(tasks)), Pending' = Pending
  PROVE  Agree'
<1>1. /\ Len(tasks) \in Nat /\ Len(tasks) >= 1 /\ Len(tasks') = Len(tasks) - 1
      /\ Pending \in Int /\ Worth(Head(tasks)) \in Int /\ Waits(tasks, 2) \in Int
  BY LenProperties, EmptySeq, HeadTailProperties, PendingBounds, WaitsInt DEF Worth
<1>2. \A k \in 1..Len(tasks) : Waits(tasks', k) = Waits(tasks, k + 1)
  BY WaitsTail
<1>3. \A k \in 1..Len(tasks') + 1 : k \in 1..Len(tasks) /\ k + 1 \in 1..Len(tasks) + 1
  BY <1>1
<1>4. \A k \in 1..Len(tasks') + 1 : Waits(tasks', k) + Pending' \in -2..1
  BY <1>2, <1>3 DEF Agree
<1>5. Waits(tasks', 1) = Waits(tasks, 2) BY <1>1, <1>2
<1>6. Waits(tasks, 1) = Waits(tasks, 2) + Worth(Head(tasks)) BY WaitsHead
<1>7. balance' + Waits(tasks', 1) + Pending' = 0
  BY <1>1, <1>5, <1>6 DEF Agree
<1> QED BY <1>4, <1>7 DEF Agree

-----------------------------------------------------------------------------
\* A step that sends and takes nothing: what is left to show is where it leads.
LEMMA SendsNothing ==
  ASSUME ScheduledInv, sched' \in SchedFrame, sched'.signal = sched.signal,
         UNCHANGED <<position, main, tasks, balance>>,
         row' \in Saved, sinceExec' \in Ages, sinceCheck' \in Ages, restarted' \in BOOLEAN,
         SchedInv'
  PROVE  ScheduledInv'
<1>1. Shape' BY DEF ScheduledInv, Shape
<1>2. Pending' = Pending BY DEF Pending, MainAt, Held
<1>3. Agree' BY <1>2, AgreeStays DEF ScheduledInv
<1> QED BY <1>1, <1>3 DEF ScheduledInv

-----------------------------------------------------------------------------
(* The scheduler's thread.                                                 *)

LEMMA RoundBeginsStep == ASSUME ScheduledInv, RoundBegins PROVE ScheduledInv'
<1> DEFINE f == [sched EXCEPT !.step = "visit", !.age = 0]
<1>1. sched \in SchedFrame /\ sched.signal = FALSE
  BY DEF ScheduledInv, Shape, SchedInv, RoundBegins, SchedAt, SchedFrame
<1>2. f \in SchedFrame /\ f.step = "visit" /\ f.signal = sched.signal
  BY <1>1, Constants DEF SchedFrame
<1>3. sched' = f \/ sched' = Sleeping(Period)
  BY DEF RoundBegins
<1> HIDE DEF f
<1>4. Period \in 0..Period BY Constants
<1>5. sched' \in SchedFrame /\ sched'.step \in {"sleep", "visit"} /\ sched'.signal = FALSE
  BY <1>1, <1>2, <1>3, <1>4, SleepingFrame
<1>6. SchedInv' BY <1>5 DEF SchedInv, SchedAt
<1>7. UNCHANGED <<position, sinceExec, sinceCheck, restarted, row, main, tasks, balance>>
  BY DEF RoundBegins, others
<1> QED BY <1>1, <1>5, <1>6, <1>7, SendsNothing DEF ScheduledInv, Shape

LEMMA CheckOwnStep == ASSUME ScheduledInv, CheckOwn PROVE ScheduledInv'
<1>1. sched \in SchedFrame /\ sched.signal = FALSE
  BY DEF ScheduledInv, Shape, SchedInv, CheckOwn, SchedAt, SchedFrame
<1>2. PICK s \in {"stamp", "fetch"} : /\ sched' = [sched EXCEPT !.step = s]
                                      /\ s = "fetch" => position = 0
  BY DEF CheckOwn
<1>3. sched' \in SchedFrame /\ sched'.step = s /\ sched'.signal = sched.signal
  <2>1. s \in {"sleep", "visit", "fetch", "stamp", "get", "save", "put"} BY <1>2
  <2>2. [sched EXCEPT !.step = s] \in SchedFrame /\ [sched EXCEPT !.step = s].step = s
        /\ [sched EXCEPT !.step = s].signal = sched.signal
    BY <1>1, <2>1, FrameSteps
  <2> QED BY <1>2, <2>2
<1>4. sinceCheck' \in Ages
  BY Constants DEF CheckOwn, ScheduledInv, Shape
<1>5. UNCHANGED <<position, sinceExec, restarted, row, main, tasks, balance>>
  BY DEF CheckOwn, others
<1>6. SchedInv' BY <1>1, <1>2, <1>3, <1>5 DEF SchedInv, SchedAt
<1> QED BY <1>3, <1>4, <1>5, <1>6, SendsNothing DEF ScheduledInv, Shape

\* A position is taken where there was none, with a signal that is still to be sent.
LEMMA AnalyseStep == ASSUME ScheduledInv, Analyse PROVE ScheduledInv'
<1>1. sched \in SchedFrame /\ sched.signal = FALSE /\ position = 0
  BY DEF ScheduledInv, Shape, SchedInv, Analyse, SchedAt, SchedFrame
<1>2. UNCHANGED <<sinceExec, sinceCheck, restarted, row, main, tasks, balance>>
  BY DEF Analyse, others
<1>3. CASE sched' = [sched EXCEPT !.step = "stamp"] /\ UNCHANGED position
  <2>1. sched' \in SchedFrame /\ sched'.step = "stamp" /\ sched'.signal = sched.signal
    BY <1>1, <1>3, FrameSteps
  <2>2. SchedInv' BY <2>1 DEF SchedInv, SchedAt
  <2> QED BY <1>2, <1>3, <2>1, <2>2, SendsNothing DEF ScheduledInv, Shape
<1>4. CASE position' \in Prices /\ sched' = [sched EXCEPT !.step = "stamp", !.signal = TRUE]
  <2>1. sched' \in SchedFrame /\ sched'.step = "stamp" /\ sched'.signal = TRUE
    BY <1>1, <1>4 DEF SchedFrame
  <2>2. position' \in Price0 /\ position' # 0
    BY <1>4, Constants
  <2>3. balance \in Int BY DEF ScheduledInv, Shape
  <2>4. Agree'
    <3>1. Pending' = Pending BY <1>1, <1>2, <2>1, <2>2 DEF Pending, MainAt, Held
    <3> QED BY <1>2, <3>1, AgreeStays DEF ScheduledInv
  <2>5. SchedInv' BY <2>1 DEF SchedInv, SchedAt
  <2>6. Shape' BY <1>2, <2>1, <2>2 DEF ScheduledInv, Shape
  <2> QED BY <2>4, <2>5, <2>6 DEF ScheduledInv
<1> QED BY <1>3, <1>4 DEF Analyse

LEMMA AnalyseRaisesStep == ASSUME ScheduledInv, AnalyseRaises PROVE ScheduledInv'
<1>1. sched.signal = FALSE
  BY DEF ScheduledInv, Shape, SchedInv, AnalyseRaises, SchedAt, SchedFrame
<1>2. Period \in 0..Period BY Constants
<1>3. sched' \in SchedFrame /\ sched'.step = "sleep" /\ sched'.signal = FALSE
  BY <1>2, SleepingFrame DEF AnalyseRaises
<1>4. SchedInv' BY <1>3 DEF SchedInv, SchedAt
<1>5. UNCHANGED <<position, sinceExec, sinceCheck, restarted, row, main, tasks, balance>>
  BY DEF AnalyseRaises, others
<1> QED BY <1>1, <1>3, <1>4, <1>5, SendsNothing DEF ScheduledInv, Shape

LEMMA StampStep == ASSUME ScheduledInv, Stamp PROVE ScheduledInv'
<1> DEFINE f == [sched EXCEPT !.step = "get", !.saves = 2]
<1>1. sched \in SchedFrame BY DEF ScheduledInv, Shape
<1>2. f \in SchedFrame /\ f.step = "get" /\ f.signal = sched.signal
  <2> DEFINE g == [sched EXCEPT !.step = "get"]
  <2>1. g \in SchedFrame /\ g.step = "get" /\ g.signal = sched.signal BY <1>1, FrameSteps
  <2>2. f = [g EXCEPT !.step = "get", !.saves = 2] BY <1>1 DEF SchedFrame
  <2>3. 2 \in 0..2 OBVIOUS
  <2> HIDE DEF f, g
  <2> QED BY <2>1, <2>2, <2>3, FrameSaves
<1>3. sched' = f /\ sched.age \in Ages BY <1>1 DEF Stamp, SchedFrame
<1>4. UNCHANGED <<position, sinceCheck, row, main, tasks, balance>> BY DEF Stamp, others
<1>5. sinceExec' \in Ages /\ restarted' \in BOOLEAN BY <1>3 DEF Stamp
<1> HIDE DEF f
<1>6. sched' \in SchedFrame /\ sched'.step = "get" /\ sched'.signal = sched.signal
  BY <1>2, <1>3
<1>7. SchedInv' BY <1>6 DEF SchedInv, SchedAt
<1> QED BY <1>4, <1>5, <1>6, <1>7, SendsNothing DEF ScheduledInv, Shape

LEMMA SchedGetStep == ASSUME ScheduledInv, SchedGet PROVE ScheduledInv'
<1> DEFINE f == [sched EXCEPT !.step = "save", !.copy = State]
<1>1. sched \in SchedFrame /\ State \in Saved BY StateSaved DEF ScheduledInv, Shape
<1>2. f \in SchedFrame /\ f.step = "save" /\ f.signal = sched.signal
  BY <1>1 DEF SchedFrame
<1>3. sched' = f BY DEF SchedGet
<1>4. UNCHANGED <<position, sinceExec, sinceCheck, restarted, row, main, tasks, balance>>
  BY DEF SchedGet, others
<1> HIDE DEF f
<1>5. SchedInv' BY <1>2, <1>3 DEF SchedInv, SchedAt
<1> QED BY <1>2, <1>3, <1>4, <1>5, SendsNothing DEF ScheduledInv, Shape

\* What the step leaves in the frame: once more, or the signal, or the end.
LEMMA SaveFrame ==
  ASSUME ScheduledInv, SchedSave
  PROVE  /\ sched' \in SchedFrame /\ sched'.signal = sched.signal
         /\ \/ sched'.step = "get"
            \/ sched'.step = "put" /\ sched.signal = TRUE
            \/ sched'.step = "sleep" /\ sched.signal = FALSE
<1> DEFINE f == [sched EXCEPT !.step = "get", !.saves = @ - 1]
<1>1. sched \in SchedFrame /\ sched.signal \in BOOLEAN
  BY DEF ScheduledInv, Shape, SchedFrame
<1>2. CASE sched.saves > 1
  <2>1. sched.saves - 1 \in 0..2 BY <1>1, <1>2 DEF SchedFrame
  <2>2. f \in SchedFrame /\ f.step = "get" /\ f.signal = sched.signal
    BY <1>1, <2>1 DEF SchedFrame
  <2>3. sched' = f BY <1>2 DEF SchedSave
  <2> HIDE DEF f
  <2> QED BY <2>2, <2>3
<1>3. CASE ~(sched.saves > 1) /\ sched.signal = TRUE
  <2>1. sched' = [sched EXCEPT !.step = "put"] BY <1>3 DEF SchedSave
  <2> QED BY <1>1, <1>3, <2>1, FrameSteps
<1>4. CASE ~(sched.saves > 1) /\ sched.signal = FALSE
  <2>1. sched' = Sleeping(Period) BY <1>4 DEF SchedSave
  <2>2. Period \in 0..Period BY Constants
  <2> QED BY <1>4, <2>1, <2>2, SleepingFrame
<1> QED BY <1>1, <1>2, <1>3, <1>4

LEMMA SchedSaveStep == ASSUME ScheduledInv, SchedSave PROVE ScheduledInv'
<1>1. sched.copy \in Saved BY DEF ScheduledInv, Shape, SchedFrame
<1>2. row' \in Saved /\ UNCHANGED <<position, sinceExec, sinceCheck, restarted, main, tasks, balance>>
  BY <1>1 DEF SchedSave
<1>3. SchedInv' BY SaveFrame DEF SchedInv, SchedAt
<1> QED BY <1>2, <1>3, SaveFrame, SendsNothing DEF ScheduledInv, Shape

LEMMA SchedPutStep == ASSUME ScheduledInv, SchedPut PROVE ScheduledInv'
<1> DEFINE f == [sched EXCEPT !.step = "get", !.signal = FALSE, !.saves = 1]
<1>1. sched \in SchedFrame /\ sched.signal = TRUE
  BY DEF ScheduledInv, Shape, SchedInv, SchedPut, SchedAt, SchedFrame
<1>2. f \in SchedFrame /\ f.step = "get" /\ f.signal = FALSE
  <2> DEFINE g == [sched EXCEPT !.step = "get", !.signal = FALSE]
  <2>1. g \in SchedFrame /\ g.step = "get" /\ g.signal = FALSE BY <1>1 DEF SchedFrame
  <2>2. f = [g EXCEPT !.step = "get", !.saves = 1] BY <1>1 DEF SchedFrame
  <2>3. 1 \in 0..2 OBVIOUS
  <2> HIDE DEF f, g
  <2> QED BY <2>1, <2>2, <2>3, FrameSaves
<1>3. sched' = f BY DEF SchedPut
<1> HIDE DEF f
<1>4. tasks' \in Seq({"BUY", "SELL"}) BY DEF SchedPut, ScheduledInv, Shape
<1>5. balance \in Int /\ balance' = balance BY DEF SchedPut, ScheduledInv, Shape
<1>6. UNCHANGED <<position, sinceExec, sinceCheck, restarted, row, main>> BY DEF SchedPut
<1>7. sched' \in SchedFrame /\ sched'.step = "get" /\ sched'.signal = FALSE BY <1>2, <1>3
<1>8. Shape' BY <1>4, <1>5, <1>6, <1>7 DEF ScheduledInv, Shape
<1>9. SchedInv' BY <1>7 DEF SchedInv, SchedAt
<1>10. Agree'
  <2>1. Pending' = Pending - Worth("BUY")
    BY <1>1, <1>6, <1>7 DEF Pending, MainAt, Held, Worth
  <2>2. tasks' = Append(tasks, "BUY") /\ tasks \in Seq(Signal) /\ "BUY" \in Signal
    BY DEF SchedPut, ScheduledInv, Shape, Signal
  <2> QED BY <1>5, <2>1, <2>2, AgreePut DEF ScheduledInv
<1> QED BY <1>8, <1>9, <1>10 DEF ScheduledInv

-----------------------------------------------------------------------------
(* The main loop.                                                          *)

LEMMA OnTickStep ==
  ASSUME ScheduledInv, NEW price \in Prices, OnTick(price)
  PROVE  ScheduledInv'
<1>1. main \in MainFrame /\ main.step = "idle" BY DEF ScheduledInv, Shape, OnTick, MainAt
<1>2. main' \in MainFrame /\ main'.step = "put" BY <1>1 DEF OnTick, MainFrame
<1>3. position # 0 /\ position' = 0 /\ balance \in Int BY DEF OnTick, ScheduledInv, Shape
<1>4. UNCHANGED <<sinceExec, sinceCheck, restarted, sched, row, tasks, balance>>
  BY DEF OnTick, rest
<1>5. Shape' BY <1>2, <1>3, <1>4, Constants DEF ScheduledInv, Shape
<1>6. SchedInv' BY <1>3, <1>4 DEF ScheduledInv, SchedInv, SchedAt
<1>7. Agree'
  <2>1. Pending' = Pending BY <1>1, <1>2, <1>3, <1>4 DEF Pending, MainAt, Held
  <2> QED BY <1>4, <2>1, AgreeStays DEF ScheduledInv
<1> QED BY <1>5, <1>6, <1>7 DEF ScheduledInv

LEMMA MainPutStep == ASSUME ScheduledInv, MainPut PROVE ScheduledInv'
<1>1. main \in MainFrame /\ main.step = "put" BY DEF ScheduledInv, Shape, MainPut, MainAt
<1>2. main' \in MainFrame /\ main'.step = "get" BY <1>1 DEF MainPut, MainFrame
<1>3. tasks' \in Seq({"BUY", "SELL"}) BY DEF MainPut, ScheduledInv, Shape
<1>4. balance \in Int /\ balance' = balance BY DEF MainPut, ScheduledInv, Shape
<1>5. UNCHANGED <<sinceExec, sinceCheck, restarted, sched, position, row>>
  BY DEF MainPut, rest
<1>6. Shape' BY <1>2, <1>3, <1>4, <1>5 DEF ScheduledInv, Shape
<1>7. SchedInv' BY <1>5 DEF ScheduledInv, SchedInv, SchedAt
<1>8. Agree'
  <2>1. Pending' = Pending - Worth("SELL")
    BY <1>1, <1>2, <1>5 DEF Pending, MainAt, Held, Worth
  <2>2. tasks' = Append(tasks, "SELL") /\ tasks \in Seq(Signal) /\ "SELL" \in Signal
    BY DEF MainPut, ScheduledInv, Shape, Signal
  <2> QED BY <1>4, <2>1, <2>2, AgreePut DEF ScheduledInv
<1> QED BY <1>6, <1>7, <1>8 DEF ScheduledInv

\* What the main loop does between its put and the next task; Agree' is left to show.
LEMMA MainKeeps ==
  ASSUME ScheduledInv, main' \in MainFrame, ~MainAt("put"), ~MainAt("put")',
         row' \in Saved, tasks' \in Seq({"BUY", "SELL"}),
         balance' \in Int, UNCHANGED <<sinceExec, sinceCheck, restarted, sched, position>>,
         Pending' = Pending => Agree'
  PROVE  ScheduledInv'
<1>1. Shape' BY DEF ScheduledInv, Shape
<1>2. SchedInv' BY DEF ScheduledInv, SchedInv, SchedAt
<1>3. Agree' BY DEF Pending, Held
<1> QED BY <1>1, <1>2, <1>3 DEF ScheduledInv

LEMMA MainGetStep == ASSUME ScheduledInv, MainGet PROVE ScheduledInv'
<1>1. State \in Saved BY StateSaved DEF ScheduledInv
<1>2. main' \in MainFrame /\ main'.step = "save" /\ main.step = "get"
  BY <1>1 DEF MainGet, MainFrame, MainAt
<1>3. UNCHANGED <<sinceExec, sinceCheck, restarted, sched, position, row, tasks, balance>>
  BY DEF MainGet, rest
<1>4. row' \in Saved /\ tasks' \in Seq({"BUY", "SELL"}) BY <1>3 DEF ScheduledInv, Shape
<1>5. ~MainAt("put") /\ ~MainAt("put")' BY <1>2 DEF MainAt
<1>6. Pending' = Pending => Agree' BY <1>3, AgreeStays DEF ScheduledInv
<1>7. balance' \in Int BY <1>3 DEF ScheduledInv, Shape
<1> QED BY <1>2, <1>3, <1>4, <1>5, <1>6, <1>7, MainKeeps

LEMMA MainSaveStep == ASSUME ScheduledInv, MainSave PROVE ScheduledInv'
<1>1. row' \in Saved BY DEF MainSave, ScheduledInv, Shape, MainFrame
<1>2. main' \in MainFrame /\ main'.step = "idle" /\ main.step = "save"
  BY IdleMainFrame DEF MainSave, MainAt
<1>3. UNCHANGED <<sinceExec, sinceCheck, restarted, sched, position, tasks, balance>>
  BY DEF MainSave, rest
<1>4. tasks' \in Seq({"BUY", "SELL"}) BY <1>3 DEF ScheduledInv, Shape
<1>5. ~MainAt("put") /\ ~MainAt("put")' BY <1>2 DEF MainAt
<1>6. Pending' = Pending => Agree' BY <1>3, AgreeStays DEF ScheduledInv
<1>7. balance' \in Int BY <1>3 DEF ScheduledInv, Shape
<1> QED BY <1>1, <1>2, <1>3, <1>4, <1>5, <1>6, <1>7, MainKeeps

LEMMA HandleTaskStep ==
  ASSUME ScheduledInv, NEW kind \in {"BUY", "SELL"}, HandleTask(kind)
  PROVE  ScheduledInv'
<1>1. tasks' \in Seq({"BUY", "SELL"}) BY DEF HandleTask, ScheduledInv, Shape
<1>2. UNCHANGED <<sinceExec, sinceCheck, restarted, sched, main, position, row>>
  BY DEF HandleTask, rest
<1>3. ~MainAt("put") /\ ~MainAt("put")' BY <1>2 DEF HandleTask, MainAt
<1>4. main' \in MainFrame /\ row' \in Saved BY <1>2 DEF ScheduledInv, Shape
<1>5. balance \in Int /\ tasks \in Seq(Signal) /\ tasks # <<>> /\ tasks' = Tail(tasks)
  BY DEF HandleTask, ScheduledInv, Shape, Signal
<1>6. balance' = balance + Worth(Head(tasks)) /\ balance' \in Int
  BY <1>5 DEF HandleTask, Worth
<1>7. Pending' = Pending => Agree' BY <1>5, <1>6, AgreeTaken DEF ScheduledInv
<1> QED BY <1>1, <1>2, <1>3, <1>4, <1>6, <1>7, MainKeeps

-----------------------------------------------------------------------------
(* Time, and a crash.                                                      *)

LEMMA OlderAge == ASSUME NEW age \in Ages PROVE Older(age) \in Ages /\ Older(age) >= age
  BY Constants DEF Older, Ages

LEMMA OlderSaved == ASSUME NEW r \in Saved PROVE OlderRow(r) \in Saved
  BY OlderAge DEF OlderRow, Saved

\* The scheduler's frame a moment later.
LEMMA OlderFrame ==
  ASSUME Shape, Elapse
  PROVE  /\ sched' \in SchedFrame /\ sched'.step = sched.step /\ sched'.signal = sched.signal
         /\ sched'.wait = IF sched.wait > 0 THEN sched.wait - 1 ELSE 0
<1> DEFINE wait == IF sched.wait > 0 THEN sched.wait - 1 ELSE 0
           f == [sched EXCEPT !.wait = wait, !.age = Older(sched.age), !.copy = OlderRow(sched.copy)]
<1>1. sched \in SchedFrame BY DEF Shape
<1>2. wait \in 0..Period BY <1>1, Constants DEF SchedFrame
<1>3. sched.age \in Ages /\ sched.copy \in Saved BY <1>1 DEF SchedFrame
<1>4. Older(sched.age) \in Ages BY <1>3, OlderAge
<1>5. OlderRow(sched.copy) \in Saved BY <1>3, OlderSaved
<1>6. sched' = f BY DEF Elapse
<1> HIDE DEF wait
<1>7. f \in SchedFrame /\ f.step = sched.step /\ f.signal = sched.signal /\ f.wait = wait
  BY <1>1, <1>2, <1>4, <1>5 DEF SchedFrame
<1> HIDE DEF f
<1> QED BY <1>6, <1>7 DEF wait

LEMMA ElapseStep == ASSUME ScheduledInv, Elapse PROVE ScheduledInv'
<1>1. sinceExec' \in Ages /\ sinceCheck' \in Ages
  BY OlderAge DEF Elapse, ScheduledInv, Shape
<1>2. row' \in Saved BY OlderSaved DEF Elapse, ScheduledInv, Shape
<1>3. main' \in MainFrame /\ main'.step = main.step
  <2>1. main \in MainFrame /\ main.copy \in Saved BY DEF ScheduledInv, Shape, MainFrame
  <2>2. OlderRow(main.copy) \in Saved BY <2>1, OlderSaved
  <2> QED BY <2>1, <2>2 DEF Elapse, MainFrame
<1>4. UNCHANGED <<position, tasks, balance, restarted>> BY DEF Elapse
<1>5. sched' \in SchedFrame /\ sched'.step = sched.step /\ sched'.signal = sched.signal
  BY OlderFrame DEF ScheduledInv
<1>6. Shape' BY <1>1, <1>2, <1>3, <1>4, <1>5 DEF ScheduledInv, Shape
<1>7. SchedInv' BY <1>4, <1>5 DEF ScheduledInv, SchedInv, SchedAt
<1>8. Agree'
  <2>1. Pending' = Pending BY <1>3, <1>4, <1>5 DEF Pending, MainAt, Held
  <2> QED BY <1>4, <2>1, AgreeStays DEF ScheduledInv
<1> QED BY <1>6, <1>7, <1>8 DEF ScheduledInv

LEMMA CrashStep == ASSUME ScheduledInv, Crash PROVE ScheduledInv'
<1>1. 0 \in 0..Period BY Constants
<1>2. sched' \in SchedFrame /\ sched'.step = "sleep" /\ sched'.signal = FALSE
  BY <1>1, SleepingFrame DEF Crash
<1>3. main' \in MainFrame /\ main'.step = "idle" BY IdleMainFrame DEF Crash
<1>4. /\ position' = row.position /\ position' \in Price0 /\ sinceExec' \in Ages
      /\ sinceCheck' \in Ages /\ row' \in Saved
  BY DEF Crash, ScheduledInv, Shape, Saved
<1>5. balance' = Held(position') /\ balance' \in Int BY <1>4 DEF Crash, Held
<1>6. tasks' \in Seq({"BUY", "SELL"}) /\ restarted' \in BOOLEAN BY DEF Crash
<1>7. Shape' BY <1>2, <1>3, <1>4, <1>5, <1>6 DEF Shape
<1>8. SchedInv' BY <1>2 DEF SchedInv, SchedAt
<1>9. Agree'
  <2>1. tasks' = <<>> /\ tasks' \in Seq(Signal) /\ Len(tasks') = 0
    BY EmptySeq DEF Crash
  <2>2. Waits(tasks', Len(tasks') + 1) = 0 BY <2>1, WaitsEnd
  <2>3. Waits(tasks', 1) = 0 /\ 1..Len(tasks') + 1 = {1} BY <2>1, <2>2
  <2>4. Pending' = -Held(position') /\ Pending' \in -2..1
    BY <1>2, <1>3 DEF Pending, MainAt, Held
  <2>5. Waits(tasks', 1) + Pending' = Pending' /\ balance' + Pending' = 0
    BY <1>5, <2>3, <2>4
  <2>6. balance' + Waits(tasks', 1) + Pending' = 0 BY <1>5, <2>3, <2>4, <2>5
  <2>7. \A k \in 1..Len(tasks') + 1 : Waits(tasks', k) + Pending' \in -2..1
    BY <2>3, <2>4, <2>5
  <2> QED BY <2>6, <2>7 DEF Agree
<1> QED BY <1>7, <1>8, <1>9 DEF ScheduledInv

\* What a crash loses, and what it brings back.
LEMMA CrashUnpairs == ASSUME ScheduledInv, Crash PROVE balance' - balance \in -2..2
<1>1. tasks \in Seq(Signal) /\ balance \in Int /\ row.position \in Price0
  BY DEF ScheduledInv, Shape, Signal, Saved
<1>2. Waits(tasks, 1) \in Int /\ Pending \in Int /\ Len(tasks) \in Nat
  BY <1>1, WaitsInt, PendingBounds, LenProperties
<1>3. Waits(tasks, 1) + Pending \in -2..1
  <2>1. 1 \in 1..Len(tasks) + 1 BY <1>2
  <2> QED BY <2>1 DEF ScheduledInv, Agree
<1>4. balance + Waits(tasks, 1) + Pending = 0 BY DEF ScheduledInv, Agree
<1>5. balance' = Held(row.position) /\ Held(row.position) \in {0, 1} BY DEF Crash, Held
<1> QED BY <1>1, <1>2, <1>3, <1>4, <1>5

-----------------------------------------------------------------------------
LEMMA InitInv == ScheduledInit => ScheduledInv
<1> SUFFICES ASSUME ScheduledInit PROVE ScheduledInv OBVIOUS
<1>1. 0 \in 0..Period BY Constants
<1>2. sched \in SchedFrame /\ sched.step = "sleep" /\ sched.signal = FALSE
  BY <1>1, SleepingFrame DEF ScheduledInit
<1>3. main \in MainFrame /\ main.step = "idle" BY IdleMainFrame DEF ScheduledInit
<1>4. Shape
  <2>1. tasks \in Seq({"BUY", "SELL"}) BY DEF ScheduledInit
  <2>2. position \in Price0 /\ sinceExec \in Ages /\ sinceCheck \in Ages /\ row \in Saved
    BY NewRowSaved, Constants DEF ScheduledInit
  <2>3. balance \in Int BY DEF ScheduledInit
  <2>4. restarted \in BOOLEAN BY Zenon DEF ScheduledInit
  <2> QED BY <1>2, <1>3, <2>1, <2>2, <2>3, <2>4 DEF Shape
<1>5. SchedInv BY <1>2 DEF SchedInv, SchedAt
<1>6. Agree
  <2>1. tasks = <<>> /\ tasks \in Seq(Signal) /\ Len(tasks) = 0 /\ balance = 0
    BY EmptySeq DEF ScheduledInit
  <2>2. Waits(tasks, Len(tasks) + 1) = 0 BY <2>1, WaitsEnd
  <2>3. Waits(tasks, 1) = 0 /\ 1..Len(tasks) + 1 = {1} BY <2>1, <2>2
  <2>4. Pending = 0 BY <1>2, <1>3 DEF ScheduledInit, Pending, MainAt, Held
  <2>5. \A k \in 1..Len(tasks) + 1 : Waits(tasks, k) + Pending \in -2..1
    BY <2>3, <2>4
  <2> QED BY <2>1, <2>3, <2>4, <2>5 DEF Agree
<1> QED BY <1>4, <1>5, <1>6 DEF ScheduledInv

LEMMA StepInv == ScheduledInv /\ [ScheduledNext]_scheduledVars => ScheduledInv'
<1> SUFFICES ASSUME ScheduledInv, [ScheduledNext]_scheduledVars PROVE ScheduledInv'
  OBVIOUS
<1>1. CASE Scheduler
  BY <1>1, RoundBeginsStep, CheckOwnStep, AnalyseStep, AnalyseRaisesStep, StampStep,
     SchedGetStep, SchedSaveStep, SchedPutStep DEF Scheduler
<1>2. CASE Signals
  BY <1>2, MainPutStep, MainGetStep, MainSaveStep DEF Signals
<1>3. CASE Elapse BY <1>3, ElapseStep
<1>4. CASE Crash BY <1>4, CrashStep
<1>5. CASE \E price \in Prices : OnTick(price) BY <1>5, OnTickStep
<1>6. CASE \E kind \in {"BUY", "SELL"} : HandleTask(kind) BY <1>6, HandleTaskStep
<1>7. CASE UNCHANGED scheduledVars
  <2>1. Shape' /\ SchedInv' BY <1>7 DEF scheduledVars, ScheduledInv, Shape, SchedInv, SchedAt
  <2>2. Pending' = Pending BY <1>7 DEF scheduledVars, Pending, MainAt, Held
  <2>3. Agree' BY <1>7, <2>2, AgreeStays DEF scheduledVars, ScheduledInv
  <2> QED BY <2>1, <2>3 DEF ScheduledInv
<1> QED BY <1>1, <1>2, <1>3, <1>4, <1>5, <1>6, <1>7 DEF ScheduledNext

THEOREM ScheduledInvariant == ScheduledSpec => []ScheduledInv
<1> QED BY InitInv, StepInv, PTL DEF ScheduledSpec

LEMMA Balanced == ASSUME ScheduledInv PROVE balance + ToCome(1) = 0 /\ balance \in -1..2
<1>1. tasks \in Seq(Signal) /\ balance \in Int /\ Len(tasks) \in Nat
  BY LenProperties DEF ScheduledInv, Shape, Signal
<1>2. Waits(tasks, 1) \in Int /\ Pending \in Int /\ ToCome(1) = Waits(tasks, 1) + Pending
  BY <1>1, WaitsInt, PendingBounds, ToComeWaits
<1>3. Waits(tasks, 1) + Pending \in -2..1
  <2>1. 1 \in 1..Len(tasks) + 1 BY <1>1
  <2> QED BY <2>1 DEF ScheduledInv, Agree
<1>4. balance + Waits(tasks, 1) + Pending = 0 BY DEF ScheduledInv, Agree
<1> QED BY <1>1, <1>2, <1>3, <1>4

\* The balance stays between -1, a SELL ahead of its BUY, and 2.
THEOREM ScheduledTypeCorrect == ScheduledSpec => []ScheduledTypeOK
<1>1. ScheduledInv => ScheduledTypeOK
  BY Balanced DEF ScheduledInv, Shape, ScheduledTypeOK
<1> QED BY <1>1, ScheduledInvariant, PTL

\* Between crashes every position is bought once and sold once, however ticks fall
\* between the steps of the scheduler (on_schedule and on_tick of
\* strategy/manager.py); a crash, which loses the queue and restores the saved row,
\* puts the balance out by two signals at most, whatever was queued and saved.
THEOREM SignalsArePaired == ScheduledSpec => Paired
<1>1. ScheduledInv => balance + ToCome(1) = 0 BY Balanced
<1>2. ScheduledInv /\ [ScheduledNext]_scheduledVars
        => [Crash => balance' - balance \in -2..2]_scheduledVars
  BY CrashUnpairs
<1> QED BY <1>1, <1>2, ScheduledInvariant, PTL DEF Paired, ScheduledSpec

-----------------------------------------------------------------------------
(* No round is skipped.                                                    *)

\* While the thread sleeps, the wait and the age of the strategy's own check make up
\* an interval.
SleptEnough ==
  SchedAt("sleep") => restarted \/ sinceCheck + sched.wait >= Interval

RoundInv == SleptEnough /\ NoRoundSkipped

LEMMA Sums ==
  ASSUME NEW a \in Nat, NEW b \in Nat, NEW c \in Nat, c <= b
  PROVE  a + b >= c
  OBVIOUS

\* A round that ends with the full wait.
LEMMA FullWait ==
  ASSUME Interval <= Period, sinceCheck' \in Ages, sched' = Sleeping(Period)
  PROVE  RoundInv'
<1>1. Period \in 0..Period BY Constants
<1>2. sched'.step = "sleep" /\ sched'.wait = Period BY <1>1, SleepingFrame
<1>3. sinceCheck' \in Nat /\ Interval \in Nat /\ Period \in Nat BY Constants
<1>4. sinceCheck' + Period >= Interval BY <1>3, Sums
<1> QED BY <1>2, <1>4 DEF RoundInv, SleptEnough, NoRoundSkipped, SchedAt

\* A step to where neither says anything.
LEMMA Elsewhere ==
  ASSUME sched'.step \notin {"sleep", "visit"}
  PROVE  RoundInv'
  BY DEF RoundInv, SleptEnough, NoRoundSkipped, SchedAt

LEMMA RoundStep ==
  ASSUME Interval <= Period, ScheduledInv, RoundInv, [ScheduledNext]_scheduledVars
  PROVE  RoundInv'
<1>1. sched \in SchedFrame /\ sinceCheck \in Ages /\ sinceCheck' \in Ages
  BY StepInv DEF ScheduledInv, Shape
<1>2. CASE RoundBegins
  <2>1. CASE sched' = Sleeping(Period) BY <1>1, <2>1, FullWait
  <2>2. CASE sched' = [sched EXCEPT !.step = "visit", !.age = 0]
    <3> DEFINE f == [sched EXCEPT !.step = "visit", !.age = 0]
    <3>1. f.step = "visit" BY <1>1 DEF SchedFrame
    <3> HIDE DEF f
    <3>2. sched'.step = "visit" BY <2>2, <3>1 DEF f
    <3>3. restarted \/ sinceCheck >= Interval
      BY <1>1, <1>2, Constants DEF RoundBegins, RoundInv, SleptEnough
    <3>4. UNCHANGED <<restarted, sinceCheck>> BY <1>2 DEF RoundBegins
    <3> QED BY <3>2, <3>3, <3>4 DEF RoundInv, SleptEnough, NoRoundSkipped, SchedAt
  <2> QED BY <1>2, <2>1, <2>2 DEF RoundBegins
<1>3. CASE AnalyseRaises BY <1>1, <1>3, FullWait DEF AnalyseRaises
<1>4. CASE SchedSave
  <2>1. CASE sched' = Sleeping(Period) BY <1>1, <2>1, FullWait
  <2>2. CASE sched' # Sleeping(Period)
    <3> DEFINE f == [sched EXCEPT !.step = "get", !.saves = @ - 1]
    <3>1. f.step = "get" BY <1>1 DEF SchedFrame
    <3>2. sched' = f \/ sched' = [sched EXCEPT !.step = "put"]
      BY <1>4, <2>2 DEF SchedSave
    <3> HIDE DEF f
    <3>3. [sched EXCEPT !.step = "put"].step = "put" BY <1>1 DEF SchedFrame
    <3> QED BY <3>1, <3>2, <3>3, Elsewhere
  <2> QED BY <2>1, <2>2
<1>5. CASE CheckOwn
  <2>1. PICK s \in {"stamp", "fetch"} : sched' = [sched EXCEPT !.step = s]
    BY <1>5 DEF CheckOwn
  <2> QED BY <1>1, <2>1, FrameSteps, Elsewhere
<1>6. CASE Analyse
  <2> DEFINE f == [sched EXCEPT !.step = "stamp", !.signal = TRUE]
  <2>1. f.step = "stamp" /\ [sched EXCEPT !.step = "stamp"].step = "stamp"
    BY <1>1 DEF SchedFrame
  <2>2. sched' = f \/ sched' = [sched EXCEPT !.step = "stamp"] BY <1>6 DEF Analyse
  <2> HIDE DEF f
  <2> QED BY <2>1, <2>2, Elsewhere
<1>7. CASE Stamp
  <2> DEFINE f == [sched EXCEPT !.step = "get", !.saves = 2]
  <2>1. f.step = "get" /\ sched' = f BY <1>1, <1>7 DEF Stamp, SchedFrame
  <2> HIDE DEF f
  <2> QED BY <2>1, Elsewhere
<1>8. CASE SchedGet
  <2> DEFINE f == [sched EXCEPT !.step = "save", !.copy = State]
  <2>1. f.step = "save" /\ sched' = f BY <1>1, <1>8 DEF SchedGet, SchedFrame
  <2> HIDE DEF f
  <2> QED BY <2>1, Elsewhere
<1>9. CASE SchedPut
  <2> DEFINE f == [sched EXCEPT !.step = "get", !.signal = FALSE, !.saves = 1]
  <2>1. f.step = "get" /\ sched' = f BY <1>1, <1>9 DEF SchedPut, SchedFrame
  <2> HIDE DEF f
  <2> QED BY <2>1, Elsewhere
<1>10. CASE Elapse
  <2>1. sched'.step = sched.step /\ sched'.wait = IF sched.wait > 0 THEN sched.wait - 1 ELSE 0
    BY <1>10, OlderFrame DEF ScheduledInv
  <2>2. /\ sinceCheck' = (IF sinceCheck < Interval THEN sinceCheck + 1 ELSE Interval)
        /\ restarted' = restarted
    BY <1>10 DEF Elapse, Older
  <2>3. sched.wait \in 0..Period /\ sinceCheck \in 0..Interval BY <1>1 DEF SchedFrame, Ages
  <2>4. SleptEnough' BY <2>1, <2>2, <2>3, Constants DEF RoundInv, SleptEnough, SchedAt
  <2>5. NoRoundSkipped' BY <2>1, <2>2, <2>3, Constants DEF RoundInv, NoRoundSkipped, SchedAt
  <2> QED BY <2>4, <2>5 DEF RoundInv
<1>11. CASE Crash BY <1>11 DEF Crash, RoundInv, SleptEnough, NoRoundSkipped
<1>12. CASE UNCHANGED <<sched, sinceCheck, restarted>>
  BY <1>12 DEF RoundInv, SleptEnough, NoRoundSkipped, SchedAt
<1>13. CASE Signals
  BY <1>12, <1>13 DEF Signals, MainPut, MainGet, MainSave, rest
<1>14. CASE \E price \in Prices : OnTick(price) BY <1>12, <1>14 DEF OnTick, rest
<1>15. CASE \E kind \in {"BUY", "SELL"} : HandleTask(kind)
  BY <1>12, <1>15 DEF HandleTask, rest
<1>16. CASE UNCHANGED scheduledVars BY <1>12, <1>16 DEF scheduledVars
<1> QED BY <1>2, <1>3, <1>4, <1>5, <1>6, <1>7, <1>8, <1>9, <1>10, <1>11, <1>13, <1>14, <1>15, <1>16
        DEF ScheduledNext, Scheduler

\* While the interval is not longer than the wait between two rounds, a strategy that
\* the manager finds due finds itself due too.
THEOREM NoRoundIsSkipped ==
  ASSUME Interval <= Period
  PROVE  ScheduledSpec => []NoRoundSkipped
<1>1. ScheduledInit => RoundInv
  <2>1. 0 \in 0..Period BY Constants
  <2>2. Sleeping(0).step = "sleep" /\ Sleeping(0).wait = 0 BY <2>1, SleepingFrame
  <2> QED BY <2>2, Constants DEF ScheduledInit, RoundInv, SleptEnough, NoRoundSkipped, SchedAt
<1>2. ScheduledInv /\ RoundInv /\ [ScheduledNext]_scheduledVars => RoundInv'
  BY RoundStep
<1>3. RoundInv => NoRoundSkipped BY DEF RoundInv
<1> QED BY <1>1, <1>2, <1>3, ScheduledInvariant, PTL DEF ScheduledSpec

-----------------------------------------------------------------------------
(* The strategy over the account.  In each step of the composition either  *)
(* part takes a step of its own or none, so all that is proved of the parts *)
(* holds of the whole.                                                     *)

LEMMA TradingStep ==
  ASSUME [TradingNext]_tradingVars
  PROVE  [ScheduledNext]_scheduledVars /\ [LiveNext]_liveVars
<1>1. CASE TradingThreads
  <2>1. CASE (Scheduler \/ Signals) /\ UNCHANGED liveVars
    BY <2>1 DEF ScheduledNext
  <2>2. CASE HandleBuy
    <3>1. HandleTask("BUY") /\ BuyMarket(MainLoop)
      BY <2>2 DEF HandleBuy
    <3>. QED  BY <3>1, TradingAssumption DEF ScheduledNext, LiveNext, LiveCall
  <2>3. CASE HandleSell
    <3>1. HandleTask("SELL") /\ UNCHANGED liveVars
      BY <2>3 DEF HandleSell
    <3>. QED  BY <3>1 DEF ScheduledNext
  <2>. QED  BY <1>1, <2>1, <2>2, <2>3 DEF TradingThreads
<1>2. CASE Elapse /\ UNCHANGED liveVars
  BY <1>2 DEF ScheduledNext
<1>3. CASE Ticks /\ UNCHANGED liveVars
  BY <1>3 DEF Ticks, ScheduledNext
<1>4. CASE Buying
  BY <1>4, TradingAssumption DEF Buying, LiveNext, LiveStep
<1>5. CASE (\E o \in Orders : Fill(o)) /\ UNCHANGED scheduledVars
  BY <1>5 DEF LiveNext
<1>6. CASE Crash /\ LiveRestart
  BY <1>6 DEF ScheduledNext, LiveNext
<1>7. CASE UNCHANGED tradingVars
  BY <1>7 DEF tradingVars
<1>. QED  BY <1>1, <1>2, <1>3, <1>4, <1>5, <1>6, <1>7 DEF TradingNext

\* The main loop's handling of a signal, which is one step of the strategy and one of
\* the account at once, and a crash, which ends both, are steps of each part.
\* (on_task and on_signal_processing of src/main.py.)
THEOREM TradingKeepsItsParts == TradingSpec => ScheduledSpec /\ LiveSpec
<1>1. TradingInit => ScheduledInit /\ LiveInit
  BY DEF TradingInit
<1>. QED  BY <1>1, TradingStep, PTL DEF TradingSpec, ScheduledSpec, LiveSpec

\* The strategy and the account keep their shapes together.
THEOREM TradingTypeCorrect == TradingSpec => []TradingTypeOK
<1>1. ScheduledTypeOK /\ LiveTypeOK => TradingTypeOK
  BY DEF TradingTypeOK
<1>. QED  BY <1>1, TradingKeepsItsParts, ScheduledTypeCorrect, LiveTypeCorrect, PTL

\* While the strategy trades, its signals are paired as above, and no order that its
\* purchases leave open is forgotten by the account.
THEOREM TradingIsPairedAndTracked == TradingSpec => Paired /\ []OpenIsTracked
<1>. QED  BY TradingKeepsItsParts, SignalsArePaired, LiveOpenIsTracked, PTL

-----------------------------------------------------------------------------
(* The analyses.  What is summed up are integers, and of volumes naturals; *)
(* the rest is arithmetic.                                                 *)

AnalysisInv == close \in Seq(Closes) /\ volume \in Seq(Volumes) /\ Len(volume) = Len(close)

LEMMA Measures ==
  /\ Closes \subseteq Nat \ {0} /\ Volumes \subseteq Nat /\ LogOf \in [Closes -> Int]
  /\ SurgePeriod \in Nat \ {0} /\ SpikePeriod \in Nat \ {0} /\ AnomalyPeriod \in Nat \ {0, 1}
  /\ MaShort \in Nat \ {0} /\ MaLong \in Nat \ {0} /\ RsiPeriod \in Nat \ {0}
  /\ BbPeriod \in Nat \ {0, 1} /\ BbStd \in Nat
  /\ SurgeTimes \in Nat /\ SpikeTimes \in Nat /\ Threshold \in Nat
  /\ RsiOversold \in Nat /\ MinPressure \in Nat /\ ScalpAt \in Nat /\ StrongAt \in Nat
  BY CandlesAssumption, AnalysisAssumption

LEMMA Summed ==
  ASSUME NEW s \in Seq(Int)
  PROVE  /\ Len(s) \in Nat /\ Total(s) \in Int /\ Squares(s) \in Int /\ Spread(s) \in Int
         /\ \A x \in Int : Off(x, s) \in Int
<1>1. Len(s) \in Nat /\ DOMAIN s = 1..Len(s) /\ \A i \in DOMAIN s : s[i] \in Int
  BY LenProperties, ElementOfSeq
<1>2. IsFiniteSet(DOMAIN s)
  BY <1>1, FS_Interval
<1>3. Total(s) \in Int
  BY <1>1, <1>2, SumInt DEF Total, SumFunction
<1>4. Squares(s) \in Int
  <2> DEFINE q == [i \in DOMAIN s |-> s[i] * s[i]]
  <2>1. DOMAIN q = DOMAIN s /\ \A i \in DOMAIN s : q[i] \in Int
    BY <1>1
  <2>2. Squares(s) = SumFunctionOnSet(q, DOMAIN s)
    BY <2>1 DEF Squares, SumFunction
  <2> HIDE DEF q
  <2>. QED  BY <1>2, <2>1, <2>2, SumInt
<1>. QED  BY <1>1, <1>3, <1>4 DEF Spread, Off

\* A variance is not negative.
LEMMA SpreadIsNotNegative == ASSUME NEW s \in Seq(Int) PROVE Spread(s) >= 0
<1> DEFINE q == [i \in DOMAIN s |-> s[i] * s[i]]
<1>1. Len(s) \in Nat /\ DOMAIN s = 1..Len(s) /\ \A i \in DOMAIN s : s[i] \in Int
  BY LenProperties, ElementOfSeq
<1>2. IsFiniteSet(DOMAIN s) /\ Cardinality(DOMAIN s) = Len(s)
  BY <1>1, FS_Interval
<1>3. DOMAIN q = DOMAIN s /\ \A i \in DOMAIN s : s[i] \in Int /\ q[i] = s[i] * s[i]
  BY <1>1
<1>4. Total(s) = SumFunctionOnSet(s, DOMAIN s) /\ Squares(s) = SumFunctionOnSet(q, DOMAIN s)
  BY <1>3 DEF Total, Squares, SumFunction
<1> HIDE DEF q
<1>5. Total(s) * Total(s) <= Len(s) * Squares(s)
  BY <1>2, <1>3, <1>4, SumSquares
<1>6. Total(s) \in Int /\ Squares(s) \in Int
  BY Summed
<1>. QED  BY <1>1, <1>5, <1>6 DEF Spread

LEMMA InitAnalysis == AnalysisInit => AnalysisInv
  BY EmptySeq DEF AnalysisInit, AnalysisInv

LEMMA StepAnalysis == AnalysisInv /\ [NewCandle]_analysisVars => AnalysisInv'
<1> SUFFICES ASSUME AnalysisInv, [NewCandle]_analysisVars PROVE AnalysisInv'
  OBVIOUS
<1>1. CASE NewCandle
  <2>1. PICK c \in Closes, v \in Volumes : close' = Append(close, c) /\ volume' = Append(volume, v)
    BY <1>1 DEF NewCandle
  <2>2. close' \in Seq(Closes) /\ Len(close') = Len(close) + 1
    BY <2>1, AppendProperties DEF AnalysisInv
  <2>3. volume' \in Seq(Volumes) /\ Len(volume') = Len(volume) + 1
    BY <2>1, AppendProperties DEF AnalysisInv
  <2>. QED  BY <2>2, <2>3 DEF AnalysisInv
<1>2. CASE UNCHANGED analysisVars
  BY <1>2 DEF analysisVars, AnalysisInv
<1>. QED  BY <1>1, <1>2

\* The points are numbers; volume and order book give at most four.
LEMMA Points ==
  /\ FromPrice(Now) \in Int /\ FromPrice(Now) >= 0
  /\ Crowd(Now) + Book <= 4 /\ Crowd(Now) \in Int /\ Book \in Int
  /\ StrategyScore(Now) = FromPrice(Now) + Crowd(Now) + Book
<1>1. Trend(Now) \in {0, 1, 3} /\ Rsi(Now) \in {0, 1, 2} /\ Band(Now) \in {0, 2}
  BY DEF Trend, Rsi, Band
<1>2. Crowd(Now) \in {0, 2} /\ Book \in {0, 1, 2}
  BY DEF Crowd, Book
<1>. QED  BY <1>1, <1>2 DEF FromPrice, StrategyScore

LEMMA PriceMustSpeak == ASSUME ScalpAt > 4, StrongAt > 4 PROVE PriceSpeaks
  BY Points, Measures DEF PriceSpeaks, StrategyBuys, StrategyAction

-----------------------------------------------------------------------------
(* The tool and the strategy give the same points, indicator by indicator. *)

LEMMA Candle == ASSUME AnalysisInv
                PROVE  /\ Now \in Nat /\ \A i \in 1..Now : close[i] \in Nat /\ volume[i] \in Nat
                       /\ Len(close) = Now /\ Len(volume) = Now
<1>1. Now \in Nat /\ Len(close) = Now /\ Len(volume) = Now
  BY LenProperties DEF AnalysisInv, Now
<1>2. \A i \in 1..Now : close[i] \in Closes /\ volume[i] \in Volumes
  BY <1>1, ElementOfSeq DEF AnalysisInv
<1>. QED  BY <1>1, <1>2, Measures

\* A window that is full.
LEMMA Windows ==
  ASSUME NEW column, NEW n \in Nat \ {0}, NEW i \in Nat, i >= n, \A j \in 1..i : column[j] \in Nat
  PROVE  /\ Window(column, i, n) \in Seq(Int) /\ Len(Window(column, i, n)) = n
         /\ Total(Window(column, i, n)) \in Int /\ Spread(Window(column, i, n)) \in Int
<1>1. PICK m : m = i - n + 1
  OBVIOUS
<1>2. m \in Int /\ m <= i /\ i - m + 1 = n /\ \A j \in m..i : column[j] \in Int
  BY <1>1
<1>3. SubSeq(column, m, i) \in Seq(Int) /\ Len(SubSeq(column, m, i)) = n
  BY <1>2, SubSeqProperties
<1>4. Window(column, i, n) = SubSeq(column, m, i)
  BY <1>1 DEF Window
<1>5. /\ Total(SubSeq(column, m, i)) \in Int /\ Spread(SubSeq(column, m, i)) \in Int
  BY <1>3, Summed
<1>. QED  BY <1>3, <1>4, <1>5

LEMMA SameTrend ==
  ASSUME SameNumbers, AnalysisInv, NEW i \in 1..Now
  PROVE  MaPoints(i) = Trend(i)
<1>1. ASSUME NEW j \in Nat, j <= Now
      PROVE  AboveLong(j) <=> MaFull(j) /\ ShortOverLong(j)
  <2>1. MaFull(j) <=> MaKnown(j)
    BY DEF MaFull, MaKnown, SameNumbers
  <2>2. CASE MaKnown(j)
    <3>1. \A k \in 1..j : close[k] \in Nat
      BY <1>1, Candle
    <3>2. /\ Total(Window(close, j, MaShort)) \in Int /\ Total(Window(close, j, MaLong)) \in Int
      BY <2>2, <3>1, Measures, Windows DEF MaKnown
    <3>3. PICK x, y : x = Total(Window(close, j, MaShort)) /\ y = Total(Window(close, j, MaLong))
      OBVIOUS
    <3>4. x \in Int /\ y \in Int /\ MaShort \in Int /\ MaLong \in Int
      BY <3>2, <3>3, Measures
    <3>5. ShortOverLong(j) <=> x * MaLong > y * MaShort
      BY <3>3 DEF ShortOverLong, Greater, Mean, SameNumbers
    <3>6. AboveLong(j) <=> MaLong * x > MaShort * y
      BY <2>2, <3>3 DEF AboveLong
    <3>7. MaLong * x = x * MaLong /\ MaShort * y = y * MaShort
      BY <3>4
    <3>. QED  BY <2>1, <2>2, <3>5, <3>6, <3>7
  <2>3. CASE ~MaKnown(j)
    BY <2>1, <2>3 DEF AboveLong
  <2>. QED  BY <2>2, <2>3
<1>2. i \in Nat /\ i <= Now /\ i - 1 \in Nat /\ i - 1 <= Now
  BY Candle
<1>3. MaFull(i - 1) <=> MaKnown(i - 1)
  BY DEF MaFull, MaKnown, SameNumbers
<1>4. /\ AboveLong(i) <=> MaFull(i) /\ ShortOverLong(i)
      /\ AboveLong(i - 1) <=> MaFull(i - 1) /\ ShortOverLong(i - 1)
  BY <1>1, <1>2
<1>5. NotAboveLong(i - 1) <=> MaFull(i - 1) /\ ~ShortOverLong(i - 1)
  BY <1>3, <1>4 DEF NotAboveLong
<1>. QED  BY <1>4, <1>5 DEF MaPoints, MaTrend, Trend

\* The sums of the gains and losses.
LEMMA SameGains ==
  ASSUME SameNumbers, AnalysisInv, NEW i \in RsiPeriod..Now
  PROVE  /\ RsiGain(i) = Gain(i) /\ RsiLoss(i) = Loss(i)
         /\ Gain(i) \in Nat /\ Loss(i) \in Nat
<1> DEFINE ups == [k \in 1..RsiPeriod |-> Rise(i - RsiPeriod + k)]
           downs == [k \in 1..RsiPeriod |-> Fall(i - RsiPeriod + k)]
<1>1. ASSUME NEW j \in 1..Now
      PROVE  /\ Rise(j) \in Nat /\ Fall(j) \in Nat
             /\ Positive(Delta(j)) = Rise(j) /\ Positive(-Delta(j)) = Fall(j)
  <2>1. CASE j = 1
    BY <2>1 DEF Rise, Fall, Positive, Delta
  <2>2. CASE j # 1
    <3>1. j \in Nat /\ j > 1 /\ j - 1 \in 1..Now
      BY <2>2, Candle
    <3>2. close[j] \in Nat /\ close[j - 1] \in Nat
      BY <3>1, Candle
    <3>. QED  BY <2>2, <3>1, <3>2 DEF Rise, Fall, Positive, Delta
  <2>. QED  BY <2>1, <2>2
<1>2. /\ \A k \in 1..RsiPeriod : i - RsiPeriod + k \in 1..Now
      /\ IsFiniteSet(1..RsiPeriod) /\ RSI_PERIOD = RsiPeriod
  <2>1. RsiPeriod \in Nat /\ Now \in Nat /\ RSI_PERIOD = RsiPeriod
    BY Measures, Candle DEF SameNumbers
  <2>. QED  BY <2>1, FS_Interval
<1>3. /\ \A k \in 1..RsiPeriod : Positive(Delta(i - RsiPeriod + k)) = Rise(i - RsiPeriod + k)
      /\ \A k \in 1..RsiPeriod : Positive(-Delta(i - RsiPeriod + k)) = Fall(i - RsiPeriod + k)
  BY <1>1, <1>2
<1>4. /\ [k \in 1..RsiPeriod |-> Positive(Delta(i - RsiPeriod + k))] = ups
      /\ [k \in 1..RsiPeriod |-> Positive(-Delta(i - RsiPeriod + k))] = downs
  BY <1>3
<1>5. RsiGain(i) = Gain(i) /\ RsiLoss(i) = Loss(i)
  BY <1>2, <1>4 DEF RsiGain, RsiLoss, Gain, Loss
<1>6. /\ \A k \in 1..RsiPeriod : ups[k] \in Nat /\ downs[k] \in Nat
      /\ DOMAIN ups = 1..RsiPeriod /\ DOMAIN downs = 1..RsiPeriod
  BY <1>1, <1>2
<1>7. Gain(i) = SumFunctionOnSet(ups, 1..RsiPeriod) /\ Loss(i) = SumFunctionOnSet(downs, 1..RsiPeriod)
  BY <1>6 DEF Gain, Loss, Total, SumFunction
<1> HIDE DEF ups, downs
<1>. QED  BY <1>2, <1>5, <1>6, <1>7, SumNat

LEMMA SameRsi ==
  ASSUME SameNumbers, AnalysisInv, NEW i \in 1..Now
  PROVE  RsiPoints(i) = Rsi(i)
<1>1. i \in Nat /\ i - 1 \in Nat /\ RsiPeriod \in Nat /\ RSI_PERIOD = RsiPeriod /\ Now \in Nat
  BY Measures, Candle DEF SameNumbers
<1>2. ASSUME NEW j \in Nat, j <= Now PROVE RsiNotNa(j) <=> RsiKnown(j)
  <2>1. CASE j >= RsiPeriod
    <3>1. j \in RsiPeriod..Now
      BY <1>1, <1>2, <2>1
    <3>. QED  BY <1>1, <2>1, <3>1, SameGains DEF RsiNotNa, RsiKnown
  <2>2. CASE ~ (j >= RsiPeriod)
    BY <1>1, <2>2 DEF RsiNotNa, RsiKnown
  <2>. QED  BY <2>1, <2>2
<1>3. RsiNotNa(i) <=> RsiKnown(i)
  BY <1>1, <1>2
<1>4. RsiNotNa(i - 1) <=> RsiKnown(i - 1)
  BY <1>1, <1>2
<1>5. CASE ~RsiKnown(i)
  BY <1>3, <1>5 DEF RsiPoints, Rsi
<1>6. CASE RsiKnown(i)
  <2>1. i \in RsiPeriod..Now
    BY <1>1, <1>6 DEF RsiKnown
  <2>2. PICK g, l : g = Gain(i) /\ l = Loss(i)
    OBVIOUS
  <2>3. /\ g \in Nat /\ l \in Nat /\ RsiOf(i) = <<100 * g, g + l>>
    BY <2>1, <2>2, SameGains DEF RsiOf
  <2>4. ASSUME NEW n \in Nat
        PROVE  /\ Greater(RsiOf(i), Whole(n)) <=> RsiAbove(i, n)
               /\ Greater(Whole(n), RsiOf(i)) <=> RsiBelow(i, n)
    <3>1. PICK z : z = n * (g + l)
      OBVIOUS
    <3>2. z \in Int
      BY <2>3, <3>1
    <3>3. /\ Greater(RsiOf(i), Whole(n)) <=> (100 * g) * 1 > z
          /\ Greater(Whole(n), RsiOf(i)) <=> z > (100 * g) * 1
      BY <2>3, <3>1 DEF Greater, Whole
    <3>4. RsiAbove(i, n) <=> 100 * g > z
      BY <2>2, <3>1 DEF RsiAbove
    <3>5. RsiBelow(i, n) <=> 100 * g < z
      BY <2>2, <3>1 DEF RsiBelow
    <3>. QED  BY <2>3, <3>2, <3>3, <3>4, <3>5
  <2>5. RsiNotNa(i - 1) /\ Greater(RsiOf(i), RsiOf(i - 1)) <=> RsiRises(i)
    <3>1. CASE ~RsiKnown(i - 1)
      BY <1>4, <3>1 DEF RsiRises
    <3>2. CASE RsiKnown(i - 1)
      <4>1. i - 1 \in RsiPeriod..Now
        BY <1>1, <2>1, <3>2 DEF RsiKnown
      <4>2. PICK h, m : h = Gain(i - 1) /\ m = Loss(i - 1)
        OBVIOUS
      <4>3. h \in Nat /\ m \in Nat /\ RsiOf(i - 1) = <<100 * h, h + m>>
        BY <4>1, <4>2, SameGains DEF RsiOf
      <4>4. PICK x, y : x = g * (h + m) /\ y = h * (g + l)
        OBVIOUS
      <4>5. x \in Int /\ y \in Int /\ (100 * g) * (h + m) = 100 * x /\ (100 * h) * (g + l) = 100 * y
        BY <2>3, <4>3, <4>4
      <4>6. Greater(RsiOf(i), RsiOf(i - 1)) <=> (100 * g) * (h + m) > (100 * h) * (g + l)
        BY <2>3, <4>3 DEF Greater
      <4>7. RsiRises(i) <=> x > y
        BY <2>2, <3>2, <4>2, <4>4 DEF RsiRises
      <4>8. 100 * x > 100 * y <=> x > y
        BY <4>5
      <4>. QED  BY <1>4, <3>2, <4>5, <4>6, <4>7, <4>8
    <3>. QED  BY <3>1, <3>2
  <2>6. RSI_OVERSOLD = RsiOversold /\ RsiOversold \in Nat
    BY Measures DEF SameNumbers
  <2>7. /\ Greater(RsiOf(i), Whole(30)) <=> RsiAbove(i, 30)
        /\ Greater(RsiOf(i), Whole(40)) <=> RsiAbove(i, 40)
        /\ Greater(Whole(60), RsiOf(i)) <=> RsiBelow(i, 60)
        /\ Greater(Whole(RSI_OVERSOLD), RsiOf(i)) <=> RsiBelow(i, RsiOversold)
    BY <2>4, <2>6
  <2>. QED  BY <1>3, <1>6, <2>5, <2>7 DEF RsiPoints, Rsi
<1>. QED  BY <1>5, <1>6

LEMMA SameBand ==
  ASSUME SameNumbers, AnalysisInv, NEW i \in 1..Now
  PROVE  (IF LowerBounce(i) THEN 2 ELSE 0) = Band(i)
<1>1. i \in Nat /\ Now \in Nat /\ BbPeriod \in Nat /\ BbPeriod >= 2 /\ BB_PERIOD = BbPeriod
  BY Measures, Candle DEF SameNumbers
<1>2. ASSUME NEW j \in BbPeriod..Now PROVE UnderBand(j) <=> AtLowerBand(j)
  <2>1. PICK w, n, c, b, t, d : /\ w = Window(close, j, BbPeriod) /\ n = BbPeriod /\ c = close[j]
                                /\ b = BbStd /\ t = Total(w) /\ d = Spread(w)
    OBVIOUS
  <2>2. j \in Nat /\ j >= BbPeriod /\ j \in 1..Now /\ \A k \in 1..j : close[k] \in Nat
    BY <1>1, Candle
  <2>3. Len(w) = n /\ t \in Int /\ d \in Int /\ n \in Nat /\ b \in Nat /\ c \in Nat
    BY <2>1, <2>2, Windows, Measures, Candle
  <2>4. PICK off, gap : off = n * c - t /\ gap = t - n * c
    OBVIOUS
  <2>5. PICK sq, v : sq = gap * gap /\ v = (b * b) * d
    OBVIOUS
  <2>6. /\ off \in Int /\ gap \in Int /\ sq \in Int /\ v \in Int /\ gap = -off
        /\ off * off * (n - 1) = (n - 1) * sq /\ b * b * n * d = n * v
    <3>1. off \in Int /\ gap \in Int /\ gap = -off
      BY <2>3, <2>4
    <3>2. sq = off * off
      BY <2>5, <3>1
    <3>3. sq \in Int /\ v \in Int
      BY <2>3, <2>5, <3>1
    <3>. QED  BY <2>3, <2>5, <3>1, <3>2, <3>3
  <2>7. UnderBand(j) <=> gap >= 0 /\ (n - 1) * sq >= n * v
    BY <1>1, <2>1, <2>4, <2>5 DEF UnderBand, SameNumbers
  <2>8. AtLowerBand(j) <=> off <= 0 /\ off * off * (n - 1) >= b * b * n * d
    BY <2>1, <2>3, <2>4 DEF AtLowerBand, Off, Beyond
  <2>9. gap >= 0 <=> off <= 0
    BY <2>6
  <2>. QED  BY <2>6, <2>7, <2>8, <2>9
<1>3. CASE i > BbPeriod
  <2>1. i \in BbPeriod..Now /\ i - 1 \in BbPeriod..Now
    BY <1>1, <1>3
  <2>. QED  BY <1>1, <1>2, <1>3, <2>1 DEF LowerBounce, Band
<1>4. CASE ~ (i > BbPeriod)
  BY <1>1, <1>4 DEF LowerBounce, Band
<1>. QED  BY <1>3, <1>4

LEMMA SameSurge ==
  ASSUME SameNumbers, AnalysisInv, NEW i \in 1..Now
  PROVE  VolumeSurge(i) <=> Surge(i)
<1>1. i \in Nat /\ i <= Now /\ VOLUME_WINDOW = SurgePeriod /\ SurgePeriod \in Nat \ {0}
  BY Measures, Candle DEF SameNumbers
<1>2. CASE i >= SurgePeriod
  <2>1. PICK t, v, u, n : /\ t = Total(Window(volume, i, SurgePeriod)) /\ v = volume[i]
                          /\ u = SurgeTimes /\ n = SurgePeriod
    OBVIOUS
  <2>2. \A j \in 1..i : volume[j] \in Nat
    BY <1>1, Candle
  <2>3. t \in Int /\ v \in Nat /\ u \in Nat /\ n \in Nat
    BY <1>1, <1>2, <2>1, <2>2, Windows, Measures, Candle
  <2>4. VolumeSurge(i) <=> v * n > (t * u) * 1
    BY <1>1, <1>2, <2>1 DEF VolumeSurge, Greater, Whole, Mean, SameNumbers
  <2>5. Surge(i) <=> v * n > u * t
    BY <1>2, <2>1 DEF Surge
  <2>6. (t * u) * 1 = u * t
    BY <2>3
  <2>. QED  BY <2>4, <2>5, <2>6
<1>3. CASE ~ (i >= SurgePeriod)
  BY <1>1, <1>3 DEF VolumeSurge, Surge
<1>. QED  BY <1>2, <1>3

\* The tool takes two points off where the market has fallen twice, and that is all.
LEMMA SameScore ==
  ASSUME SameNumbers, AnalysisInv, Now >= 3
  PROVE  ToolScore(Now) = StrategyScore(Now) - IF FallsTwice(Now) THEN 2 ELSE 0
<1>1. Now \in Nat /\ Now \in 1..Now
  BY Candle
<1>2. PICK n : n = Now
  OBVIOUS
<1>3. MaPoints(n) = Trend(n) /\ RsiPoints(n) = Rsi(n) /\ (IF LowerBounce(n) THEN 2 ELSE 0) = Band(n)
  BY <1>1, <1>2, SameTrend, SameRsi, SameBand
<1>4. (IF VolumeSurge(n) THEN 2 ELSE 0) = Crowd(n) /\ BookPoints = Book
  BY <1>1, <1>2, SameSurge DEF Crowd, BookPoints, Book, SameNumbers
<1>5. Momentum(n) = (IF RisesTwice(n) THEN 2 ELSE 0) - IF FallsTwice(n) THEN 2 ELSE 0
  <2>1. n - 1 \in 1..Now /\ n - 2 \in 1..Now /\ n \in 1..Now
    BY <1>1, <1>2
  <2>2. close[n] \in Nat /\ close[n - 1] \in Nat /\ close[n - 2] \in Nat
    BY <2>1, Candle
  <2>. QED  BY <2>2 DEF Momentum, RisesTwice, FallsTwice
<1>6. /\ Trend(n) \in Int /\ Rsi(n) \in Int /\ Band(n) \in Int /\ Crowd(n) \in Int /\ Book \in Int
  BY DEF Trend, Rsi, Band, Crowd, Book
<1>7. ToolScore(n) = Trend(n) + Rsi(n) + Band(n) + Crowd(n) + Book + Momentum(n)
  BY <1>3, <1>4 DEF ToolScore
<1>. QED  BY <1>2, <1>5, <1>6, <1>7 DEF StrategyScore, FromPrice

LEMMA ToolMustAgree == ASSUME SameNumbers, AnalysisInv PROVE ToolAgrees
<1>1. /\ StrategyScore(Now) \in Int /\ ScalpAt \in Nat /\ StrongAt \in Nat /\ Now \in Nat
      /\ MIN_SIGNAL_SCORE = ScalpAt /\ STRONG_SIGNAL_SCORE = StrongAt
  BY Points, Measures, Candle DEF SameNumbers
<1>2. CASE Now < 3
  BY <1>1, <1>2 DEF ToolAgrees, Recommendation, StrategyBuys, StrategyAction
<1>3. CASE ~ (Now < 3)
  <2>1. ToolScore(Now) = StrategyScore(Now) - IF FallsTwice(Now) THEN 2 ELSE 0
    BY <1>1, <1>3, SameScore
  <2>2. /\ ToolScore(Now) \in Int /\ ToolScore(Now) <= StrategyScore(Now)
        /\ ~FallsTwice(Now) => ToolScore(Now) = StrategyScore(Now)
    BY <1>1, <2>1
  <2>3. Recommendation = "BUY" <=> ToolScore(Now) >= StrongAt \/ ToolScore(Now) >= ScalpAt
    BY <1>1, <1>3 DEF Recommendation
  <2>4. StrategyBuys <=> StrategyScore(Now) >= StrongAt \/ StrategyScore(Now) >= ScalpAt
    BY <1>1, <1>3 DEF StrategyBuys, StrategyAction
  <2>. QED  BY <1>1, <2>1, <2>2, <2>3, <2>4 DEF ToolAgrees
<1>. QED  BY <1>2, <1>3

-----------------------------------------------------------------------------
(* The z-score: the tool's history is the strategy's.                      *)

\* The period that a return is measured against.
LEMMA Histories == ASSUME AnalysisInv, HasHistory
                   PROVE  /\ History \in Seq(Int) /\ LastReturn \in Int
                          /\ Len(History) = AnomalyPeriod
                          /\ \A k \in 1..AnomalyPeriod :
                               History[k] = Returns[Now - 2 - AnomalyPeriod + k]
<1>1. Now \in Nat /\ Now >= AnomalyPeriod + 2 /\ AnomalyPeriod \in Nat /\ AnomalyPeriod >= 2
  BY Measures, LenProperties DEF AnalysisInv, Now, HasHistory
<1>2. \A i \in 1..Now : LogOf[close[i]] \in Int
  <2>1. \A i \in 1..Now : close[i] \in Closes
    BY ElementOfSeq DEF AnalysisInv, Now
  <2>. QED  BY <2>1, Measures
<1>3. PICK r : r = Returns
  OBVIOUS
<1>4. DOMAIN r = 1..Now - 1 /\ \A i \in 1..Now - 1 : r[i] \in Int
  <2>1. \A i \in 1..Now - 1 : i \in 1..Now /\ i + 1 \in 1..Now
    BY <1>1
  <2>2. \A i \in 1..Now - 1 : LogOf[close[i + 1]] - LogOf[close[i]] \in Int
    BY <1>2, <2>1
  <2>. QED  BY <1>3, <2>2 DEF Returns
<1>5. LastReturn \in Int
  BY <1>1, <1>3, <1>4 DEF LastReturn
<1>6. PICK m, n : m = (Now - 2) - AnomalyPeriod + 1 /\ n = Now - 2
  OBVIOUS
<1>7. m \in Int /\ n \in Int /\ \A i \in m..n : r[i] \in Int
  BY <1>1, <1>4, <1>6
<1>8. /\ SubSeq(r, m, n) \in Seq(Int) /\ Len(SubSeq(r, m, n)) = IF m <= n THEN n - m + 1 ELSE 0
      /\ \A k \in 1..n - m + 1 : SubSeq(r, m, n)[k] = r[m + k - 1]
  BY <1>7, SubSeqProperties
<1>9. History = SubSeq(r, m, n)
  BY <1>3, <1>6 DEF History, Window
<1>10. m <= n /\ n - m + 1 = AnomalyPeriod
       /\ \A k \in 1..AnomalyPeriod : m + k - 1 = Now - 2 - AnomalyPeriod + k
  BY <1>1, <1>6
<1>11. \A k \in 1..AnomalyPeriod : History[k] = r[Now - 2 - AnomalyPeriod + k]
  BY <1>8, <1>9, <1>10
<1>. QED  BY <1>3, <1>5, <1>8, <1>9, <1>10, <1>11

\* The last return lies to one side of an outlier's history.
LEMMA OutlierHasASide ==
  ASSUME AnalysisInv, Outlier
  PROVE  Off(LastReturn, History) \in Int /\ Off(LastReturn, History) # 0
<1>1. HasHistory /\ Spread(History) > 0 /\ WellBeyond(Off(LastReturn, History), History, Threshold)
  BY DEF Outlier
<1>2. /\ Len(History) \in Nat /\ Spread(History) \in Int /\ Off(LastReturn, History) \in Int
  BY <1>1, Histories, Summed
<1>3. PICK off, n, d, t : /\ off = Off(LastReturn, History) /\ n = Len(History)
                          /\ d = Spread(History) /\ t = Threshold
  OBVIOUS
<1>4. off * off * (n - 1) > t * t * n * d /\ off \in Int /\ n \in Nat /\ d \in Nat /\ t \in Nat
  BY <1>1, <1>2, <1>3, Measures DEF WellBeyond
<1>5. t * t * n * d >= 0
  <2>1. t * t \in Nat
    BY <1>4
  <2>2. t * t * n \in Nat
    BY <1>4, <2>1
  <2>. QED  BY <1>4, <2>2
<1>6. off # 0
  <2>1. ASSUME off = 0 PROVE FALSE
    <3>1. off * off * (n - 1) = 0
      BY <1>4, <2>1
    <3>2. t * t * n * d \in Int
      BY <1>4
    <3>. QED  BY <1>4, <1>5, <3>1, <3>2
  <2>. QED  BY <2>1
<1>. QED  BY <1>2, <1>3, <1>6

\* Both copies take the returns of the same candles.
LEMMA SameHistory ==
  ASSUME SameNumbers, AnalysisInv, HasHistory
  PROVE  ToolHistory = History /\ LogReturn(Now) = LastReturn
<1>1. /\ Now \in Nat /\ AnomalyPeriod \in Nat /\ AnomalyPeriod >= 2 /\ Now >= AnomalyPeriod + 2
      /\ period = AnomalyPeriod
  BY Measures, Candle DEF HasHistory, SameNumbers
<1>2. \A j \in 1..Now - 1 : Returns[j] = LogReturn(j + 1)
  <2>1. \A j \in 1..Now - 1 : (j + 1) - 1 = j
    BY <1>1
  <2>. QED  BY <2>1 DEF Returns, LogReturn
<1>3. LogReturn(Now) = LastReturn
  <2>1. Now - 1 \in 1..Now - 1 /\ (Now - 1) + 1 = Now
    BY <1>1
  <2>. QED  BY <1>2, <2>1 DEF LastReturn
<1>4. \A k \in 1..AnomalyPeriod : History[k] = LogReturn(Now - period - 1 + k)
  <2>1. \A k \in 1..AnomalyPeriod :
           /\ Now - 2 - AnomalyPeriod + k \in 1..Now - 1
           /\ (Now - 2 - AnomalyPeriod + k) + 1 = Now - period - 1 + k
    BY <1>1
  <2>. QED  BY <1>2, <2>1, Histories
<1>5. ToolHistory = [k \in 1..AnomalyPeriod |-> History[k]]
  BY <1>1, <1>4 DEF ToolHistory
<1>6. History = [k \in 1..AnomalyPeriod |-> History[k]]
  <2>1. History \in Seq(Int) /\ Len(History) = AnomalyPeriod
    BY Histories
  <2>2. History \in [1..Len(History) -> Int]
    BY <2>1, LenProperties
  <2>. QED  BY <2>1, <2>2
<1>. QED  BY <1>3, <1>5, <1>6

LEMMA CopiesMustAgree == ASSUME SameNumbers, AnalysisInv PROVE AnomalyAgrees
<1>1. /\ Now \in Nat /\ AnomalyPeriod \in Nat /\ AnomalyPeriod >= 2 /\ Threshold \in Nat
      /\ period = AnomalyPeriod /\ z_score_threshold = Threshold
  BY Measures, Candle DEF SameNumbers
<1>2. Now - 1 < period + 1 <=> ~HasHistory
  BY <1>1 DEF HasHistory
<1>3. CASE ~HasHistory
  <2>1. Direction = "ERROR"
    BY <1>2, <1>3 DEF Direction
  <2>2. \A mode : ~Detects(mode)
    BY <1>3 DEF Detects, Outlier
  <2>. QED  BY <2>1, <2>2 DEF AnomalyAgrees
<1>4. CASE HasHistory
  <2>1. PICK off, n, d, t : /\ off = Off(LastReturn, History) /\ n = Len(History)
                            /\ d = Spread(History) /\ t = Threshold
    OBVIOUS
  <2>2. /\ off \in Int /\ n = AnomalyPeriod /\ d \in Int /\ d >= 0 /\ n \in Nat /\ t \in Nat
    BY <1>1, <1>4, <2>1, Histories, Summed, SpreadIsNotNegative
  <2>3. Deviation = off
    BY <1>1, <1>4, <2>1, <2>2, SameHistory DEF Deviation, Off
  <2>4. Greater(ZSquared, Whole(z_score_threshold * z_score_threshold)) <=>
          WellBeyond(off, History, Threshold)
    <3>1. PICK sq, v : sq = off * off /\ v = t * t
      OBVIOUS
    <3>2. sq \in Int /\ v \in Int
      BY <2>2, <3>1
    <3>3. Greater(ZSquared, Whole(z_score_threshold * z_score_threshold)) <=>
            ((n - 1) * sq) * 1 > v * (n * d)
      BY <1>1, <1>4, <2>1, <2>2, <2>3, <3>1, SameHistory DEF Greater, ZSquared, Whole
    <3>4. WellBeyond(off, History, Threshold) <=> sq * (n - 1) > v * n * d
      BY <2>1, <3>1 DEF WellBeyond
    <3>5. ((n - 1) * sq) * 1 = sq * (n - 1) /\ v * (n * d) = v * n * d
      BY <2>2, <3>2
    <3>. QED  BY <3>3, <3>4, <3>5
  <2>5. Direction = IF Outlier THEN (IF off < 0 THEN "DIP" ELSE "MOMENTUM") ELSE "NONE"
    BY <1>2, <1>4, <2>1, <2>2, <2>3, <2>4, SameHistory DEF Direction, Outlier
  <2>6. Outlier => off # 0
    BY <2>1, OutlierHasASide
  <2>7. /\ Detects("DIP") <=> Outlier /\ off < 0
        /\ Detects("MOMENTUM") <=> Outlier /\ off > 0
        /\ Detects("BOTH") <=> Outlier
    BY <2>1 DEF Detects
  <2>. QED  BY <2>2, <2>5, <2>6, <2>7 DEF AnomalyAgrees
<1>. QED  BY <1>3, <1>4

\* A volume that is SpikeTimes the mean of the candles before it is SurgeTimes the mean
\* of a window that it is part of.
LEMMA SpikeArithmetic ==
  ASSUME NEW P \in Nat, NEW S \in Nat, NEW T \in Nat, NEW U \in Nat,
         NEW v \in Int, NEW e \in Nat, NEW r \in Nat,
         T * S > U * (T + P), P * v >= T * e, e > 0, r <= e
  PROVE  v * S > U * (v + r)
<1>1. U * (T + P) >= 0
  OBVIOUS
<1>2. T > 0
  <2>1. T = 0 => T * S = 0
    OBVIOUS
  <2>. QED  BY <1>1, <2>1
<1>3. v > 0
  <2>1. T * e >= 1
    BY <1>2
  <2>2. v <= 0 => P * v <= 0
    OBVIOUS
  <2>. QED  BY <2>1, <2>2
<1>4. (T * S) * v > (U * (T + P)) * v
  BY <1>3
<1>5. (U * (T + P)) * v = (U * T) * v + U * (P * v)
  OBVIOUS
<1>6. U * (P * v) >= U * (T * e)
  OBVIOUS
<1>7. U * (T * e) >= U * (T * r)
  <2>1. T * e >= T * r
    OBVIOUS
  <2>. QED  BY <2>1
<1>8. (U * T) * v + U * (T * r) = T * (U * (v + r))
  OBVIOUS
<1>9. (T * S) * v = T * (v * S)
  OBVIOUS
<1>10. PICK x, y : x = v * S /\ y = U * (v + r)
  OBVIOUS
<1>11. x \in Int /\ y \in Int /\ T * x > T * y
  BY <1>4, <1>5, <1>6, <1>7, <1>8, <1>9, <1>10
<1>12. x > y
  BY <1>2, <1>11
<1>. QED  BY <1>10, <1>12

\* The window of a surge is the candle and candles that the spike has compared it to.
LEMMA SpikeMustSurge ==
  ASSUME AnalysisInv, SurgePeriod <= SpikePeriod + 1,
         SpikeTimes * SurgePeriod > SurgeTimes * (SpikeTimes + SpikePeriod)
  PROVE  SpikeIsSurge
<1> SUFFICES ASSUME Spike PROVE Surge(Now)
  BY DEF SpikeIsSurge
<1>1. PICK n, P, S, v : n = Now /\ P = SpikePeriod /\ S = SurgePeriod /\ v = volume[Now]
  OBVIOUS
<1>2. /\ n \in Nat /\ P \in Nat /\ P >= 1 /\ S \in Nat /\ S >= 1 /\ S <= P + 1 /\ n >= P + 1
  BY <1>1, Measures, LenProperties DEF AnalysisInv, Now, Spike
<1>3. \A i \in 1..n : volume[i] \in Nat
  BY <1>1, Measures, ElementOfSeq DEF AnalysisInv, Now
<1>4. v \in Nat
  BY <1>1, <1>2, <1>3
<1>5. PICK earlier : earlier = SubSeq(volume, n - P, n - 1)
  OBVIOUS
<1>6. PICK window : window = SubSeq(volume, n - S + 1, n)
  OBVIOUS
<1>7. /\ earlier \in Seq(Nat) /\ Len(earlier) = P
      /\ \A j \in 1..P : earlier[j] = volume[n - P + j - 1]
  <2>1. PICK a, b : a = n - P /\ b = n - 1
    OBVIOUS
  <2>2. a \in Int /\ b \in Int /\ a <= b /\ b - a + 1 = P /\ \A i \in a..b : volume[i] \in Nat
    BY <1>2, <1>3, <2>1
  <2>3. /\ SubSeq(volume, a, b) \in Seq(Nat) /\ Len(SubSeq(volume, a, b)) = b - a + 1
        /\ \A i \in 1..b - a + 1 : SubSeq(volume, a, b)[i] = volume[a + i - 1]
    BY <2>2, SubSeqProperties
  <2>4. earlier = SubSeq(volume, a, b)
    BY <1>5, <2>1
  <2>. QED  BY <2>1, <2>2, <2>3, <2>4
<1>8. /\ window \in Seq(Nat) /\ Len(window) = S
      /\ \A j \in 1..S : window[j] = volume[n - S + j]
  <2>1. PICK a, b : a = n - S + 1 /\ b = n
    OBVIOUS
  <2>2. a \in Int /\ b \in Int /\ a <= b /\ b - a + 1 = S /\ \A i \in a..b : volume[i] \in Nat
    BY <1>2, <1>3, <2>1
  <2>3. /\ SubSeq(volume, a, b) \in Seq(Nat) /\ Len(SubSeq(volume, a, b)) = b - a + 1
        /\ \A i \in 1..b - a + 1 : SubSeq(volume, a, b)[i] = volume[a + i - 1]
    BY <2>2, SubSeqProperties
  <2>4. window = SubSeq(volume, a, b)
    BY <1>6, <2>1
  <2>5. \A j \in 1..S : a + j - 1 = n - S + j
    BY <1>2, <2>1
  <2>. QED  BY <2>2, <2>3, <2>4, <2>5
<1>9. PICK e, r : e = Total(earlier) /\ r = SumFunctionOnSet(window, 1..S - 1)
  OBVIOUS
<1>10. /\ e = SumFunctionOnSet(earlier, 1..P) /\ Total(window) = SumFunctionOnSet(window, 1..S)
  <2>1. DOMAIN earlier = 1..P /\ DOMAIN window = 1..S
    BY <1>7, <1>8, LenProperties
  <2>. QED  BY <1>9, <2>1 DEF Total, SumFunction
<1>11. /\ \A j \in 1..P : earlier[j] \in Nat
       /\ \A j \in 1..S : window[j] \in Nat
  BY <1>7, <1>8, ElementOfSeq
<1>12. IsFiniteSet(1..P) /\ IsFiniteSet(1..S) /\ IsFiniteSet(1..S - 1)
  BY <1>2, FS_Interval
<1>13. e \in Nat
  BY <1>10, <1>11, <1>12, SumNat
<1>14. r \in Nat
  <2>1. \A j \in 1..S - 1 : window[j] \in Nat
    BY <1>2, <1>11
  <2>. QED  BY <1>9, <1>12, <2>1, SumNat
<1>15. r <= e
  <2> DEFINE h == [k \in 1..S - 1 |-> k + P + 1 - S]
  <2>1. \A k \in 1..S - 1 : h[k] \in 1..P /\ h[k] = k + P + 1 - S
    BY <1>2
  <2>2. \A k \in 1..S - 1 : window[k] = earlier[h[k]]
    <3>1. \A k \in 1..S - 1 : k \in 1..S /\ n - P + h[k] - 1 = n - S + k
      BY <1>2, <2>1
    <3>2. \A k \in 1..S - 1 : window[k] = volume[n - S + k]
      BY <1>8, <3>1
    <3>3. \A k \in 1..S - 1 : earlier[h[k]] = volume[n - P + h[k] - 1]
      BY <1>7, <2>1
    <3> HIDE DEF h
    <3>. QED  BY <3>1, <3>2, <3>3, Zenon
  <2>3. \A j, k \in 1..S - 1 : h[j] = h[k] => j = k
    BY <1>2, <2>1
  <2> HIDE DEF h
  <2>4. SumFunctionOnSet(window, 1..S - 1) <= SumFunctionOnSet(earlier, 1..P)
    BY <1>11, <1>12, <2>1, <2>2, <2>3, SumElsewhere
  <2>. QED  BY <1>9, <1>10, <2>4
<1>16. Total(window) = v + r
  <2>1. S \in 1..S /\ 1..S - 1 = (1..S) \ {S}
    BY <1>2
  <2>2. \A j \in 1..S : window[j] \in Int
    BY <1>11
  <2>3. SumFunctionOnSet(window, 1..S) = window[S] + SumFunctionOnSet(window, (1..S) \ {S})
    BY <1>12, <2>1, <2>2, SumRemove
  <2>4. window[S] = v
    <3>1. window[S] = volume[n - S + S] /\ n - S + S = n
      BY <1>2, <1>8, <2>1
    <3>. QED  BY <1>1, <3>1
  <2>. QED  BY <1>9, <1>10, <2>1, <2>3, <2>4, Zenon
<1>17. e > 0 /\ P * v >= SpikeTimes * e
  <2>1. Now - 1 - SpikePeriod + 1 = n - P
    BY <1>1, <1>2
  <2>2. Window(volume, Now - 1, SpikePeriod) = earlier
    BY <1>1, <1>5, <2>1 DEF Window
  <2>. QED  BY <1>1, <1>9, <2>2 DEF Spike
<1>18. v * S > SurgeTimes * (v + r)
  <2>1. PICK T, U : T = SpikeTimes /\ U = SurgeTimes
    OBVIOUS
  <2>2. T \in Nat /\ U \in Nat
    BY <2>1, Measures
  <2>3. T * S > U * (T + P) /\ P * v >= T * e /\ e > 0 /\ v \in Int
    BY <1>1, <1>4, <1>17, <2>1
  <2>4. v * S > U * (v + r)
    BY <1>2, <1>13, <1>14, <1>15, <2>2, <2>3, SpikeArithmetic
  <2>. QED  BY <2>1, <2>4
<1>19. Window(volume, Now, SurgePeriod) = window
  BY <1>1, <1>6 DEF Window
<1>. QED  BY <1>1, <1>2, <1>16, <1>18, <1>19 DEF Surge

\* Where the two copies have the same numbers, a purchase needs more points than volume
\* and order book can give, the surge looks no further back than the spike, and the
\* spike's multiplier is that much the larger (in the code: 5 and 7 points, 20 candles
\* both, 2 and 5 times), the tool's computations, made in another way, give what the
\* strategies' give, for every history of candles.
THEOREM AnalysesAgree ==
  ASSUME SameNumbers, ScalpAt > 4, StrongAt > 4, SurgePeriod <= SpikePeriod + 1,
         SpikeTimes * SurgePeriod > SurgeTimes * (SpikeTimes + SpikePeriod)
  PROVE  AnalysisSpec => []JudgedAlike
<1>1. AnalysisInv => JudgedAlike
  BY PriceMustSpeak, ToolMustAgree, CopiesMustAgree, SpikeMustSurge DEF JudgedAlike
<1>. QED  BY <1>1, InitAnalysis, StepAnalysis, PTL DEF AnalysisSpec

-----------------------------------------------------------------------------
(* The autoencoder.  A training that failed leaves a scaler, or a scaler   *)
(* and a model, that are not of the training before; the age of the last   *)
(* one that was finished keeps them from judging.                          *)

\* The scaler, the model and the threshold, once a training was finished.
Finished ==
  /\ model.done /\ model.of = scaler /\ scaler # 0
  /\ threshold \in {0, model.of}

DeepInv ==
  /\ scaler \in Nat /\ begun \in Nat /\ threshold \in Nat
  /\ model \in [of : Nat, done : BOOLEAN]
  /\ trainedAt = "lately" => Finished
  /\ pc \in {"train", "epochs"} => trainedAt # "lately" /\ scaler # 0
  /\ pc = "epochs" => model.of = scaler
  /\ pc \in {"infer", "judge"} => trainedAt = "lately"
  /\ pc = "judge" => threshold = model.of

LEMMA InitDeep == DeepInit => DeepInv
  BY DEF DeepInit, DeepInv, Finished

LEMMA StepDeep == DeepInv /\ [DeepNext]_deepVars => DeepInv'
<1> SUFFICES ASSUME DeepInv, [DeepNext]_deepVars PROVE DeepInv'
  OBVIOUS
<1>1. CASE Fit
  BY <1>1 DEF Fit, NeedsTraining, DeepInv, Finished
<1>2. CASE NewModel
  BY <1>2 DEF NewModel, DeepInv, Finished
<1>3. CASE Trained
  BY <1>3 DEF Trained, DeepInv, Finished
<1>4. CASE Infer
  BY <1>4 DEF Infer, DeepInv, Finished
<1>5. CASE Judge
  BY <1>5 DEF Judge, DeepInv, Finished
<1>6. CASE Fails
  BY <1>6 DEF Fails, DeepInv, Finished
<1>7. CASE SixHours
  BY <1>7 DEF SixHours, DeepInv, Finished
<1>8. CASE UNCHANGED deepVars
  BY <1>8 DEF deepVars, DeepInv, Finished
<1>. QED  BY <1>1, <1>2, <1>3, <1>4, <1>5, <1>6, <1>7, <1>8 DEF DeepNext

\* A window is judged by a finished model with its own scaler and threshold, for any
\* number of trainings and of failures.
THEOREM DeepJudgesByItsOwn == DeepSpec => []JudgedByItsOwn
<1>1. DeepInv => JudgedByItsOwn
  BY DEF DeepInv, Finished, JudgedByItsOwn
<1>. QED  BY <1>1, InitDeep, StepDeep, PTL DEF DeepSpec

\* The same of the behaviours that are checked, of which the candles are one part.
THEOREM AllJudgeAlike ==
  ASSUME SameNumbers, ScalpAt > 4, StrongAt > 4, SurgePeriod <= SpikePeriod + 1,
         SpikeTimes * SurgePeriod > SurgeTimes * (SpikeTimes + SpikePeriod)
  PROVE  MCSpec => []JudgedAlike
<1>1. MCInit => AnalysisInit
  BY DEF MCInit
<1>2. [MCNext]_mcVars => [NewCandle]_analysisVars
  BY DEF MCNext, mcVars, AccountPart, StrategyPart, AnalysisPart, LearningPart
<1>3. AnalysisInv => JudgedAlike
  BY PriceMustSpeak, ToolMustAgree, CopiesMustAgree, SpikeMustSurge DEF JudgedAlike
<1>. QED  BY <1>1, <1>2, <1>3, InitAnalysis, StepAnalysis, PTL DEF MCSpec
=============================================================================
