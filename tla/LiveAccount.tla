---------------------------- MODULE LiveAccount -----------------------------
(***************************************************************************)
(* The live account: LiveAccountManager of account/manager.py, and the     *)
(* retry of account/retry.py around its market purchases.  The exchange is *)
(* asked over the network; an answer may be lost, after the order was      *)
(* taken or before.  The account remembers the orders it knows of, in a    *)
(* set that the threads share without a lock and that no restart keeps.    *)
(*                                                                         *)
(* The exchange and pyupbit are external.  pyupbit answers nothing for     *)
(* some errors and raises for others.                                      *)
(***************************************************************************)
EXTENDS Naturals, FiniteSets

CONSTANTS Threads, Orders,
          MaxAttempts    \* of with_retry

ASSUME LiveAssumption == MaxAttempts \in Nat \ {0}

VARIABLES exchange,   \* order -> its state at the exchange
          tracked,    \* _open_uuids
          call,       \* thread -> the call it is in
          unknown     \* orders the account was never told of, or forgot: the answer was
                      \* lost, a cancellation was asked for, the process ended

liveVars == <<exchange, tracked, call, unknown>>

CallSteps == {"idle", "price", "order", "track", "query", "cancel", "discard"}
CallFrame == [step : CallSteps, attempt : 1..MaxAttempts, last : 1..MaxAttempts,
              orders : SUBSET Orders, stale : SUBSET Orders]
NoCall == [step |-> "idle", attempt |-> 1, last |-> 1, orders |-> {}, stale |-> {}]

LiveInit ==
  /\ exchange = [o \in Orders |-> "none"] /\ tracked = {}
  /\ call = [t \in Threads |-> NoCall] /\ unknown = {}

Calls(t, step) == call[t].step = step
Become(t, frame) == call' = [call EXCEPT ![t] = frame]
Return(t) == Become(t, NoCall)

-----------------------------------------------------------------------------
(* Orders.                                                                 *)

\* buy_market_order, up to MaxAttempts times.
BuyMarket(t) ==
  /\ Calls(t, "idle") /\ Become(t, [NoCall EXCEPT !.step = "price", !.last = MaxAttempts])
  /\ UNCHANGED <<exchange, tracked, unknown>>

\* The other three orders are tried once.
PlaceOrder(t) ==
  /\ Calls(t, "idle") /\ Become(t, [NoCall EXCEPT !.step = "order"])
  /\ UNCHANGED <<exchange, tracked, unknown>>

\* MUTANT of Failed: the attempts are not counted.
FailedAgain(t) == Become(t, [call[t] EXCEPT !.step = "price"])

\* with_retry, when the call has raised.
Failed(t) ==
  IF call[t].attempt = call[t].last THEN Return(t)
  ELSE Become(t, [call[t] EXCEPT !.step = "price", !.attempt = @ + 1])

\* The price comes; or none, and there is no order; or the request raises.
AskPrice(t) ==
  /\ Calls(t, "price")
  /\ Become(t, [call[t] EXCEPT !.step = "order"]) \/ Return(t) \/ Failed(t)
  /\ UNCHANGED <<exchange, tracked, unknown>>

\* The exchange takes the order.  The answer comes; or none, or the call raises.
Taken(t) ==
  \E o \in Orders :
    /\ Calls(t, "order") /\ exchange[o] = "none"
    /\ exchange' = [exchange EXCEPT ![o] = "wait"]
    /\ \/ Become(t, [call[t] EXCEPT !.step = "track", !.orders = {o}]) /\ UNCHANGED unknown
       \/ (Return(t) \/ Failed(t)) /\ unknown' = unknown \cup {o}
    /\ UNCHANGED tracked

\* The exchange does not take it.
Refused(t) ==
  /\ Calls(t, "order") /\ (Return(t) \/ Failed(t))
  /\ UNCHANGED <<exchange, tracked, unknown>>

Track(t) ==
  /\ Calls(t, "track") /\ tracked' = tracked \cup call[t].orders /\ Return(t)
  /\ UNCHANGED <<exchange, unknown>>

-----------------------------------------------------------------------------
(* get_orders: asks for one order after the other, of a copy of the set.   *)

GetOrders(t) ==
  /\ Calls(t, "idle") /\ tracked # {}
  /\ Become(t, [NoCall EXCEPT !.step = "query", !.orders = tracked])
  /\ UNCHANGED <<exchange, tracked, unknown>>

\* MUTANT of Query: an order that cannot be asked for is taken for closed.
QueryHasty(t) ==
  /\ Calls(t, "query")
  /\ \E o \in call[t].orders :
       Become(t, [call[t] EXCEPT !.orders = @ \ {o}, !.stale = @ \cup {o}])
  /\ UNCHANGED <<exchange, tracked, unknown>>

\* One answer, or an error, which is passed.
Query(t) ==
  /\ Calls(t, "query")
  /\ \E o \in call[t].orders :
       \/ Become(t, [call[t] EXCEPT !.orders = @ \ {o},
                       !.stale = IF exchange[o] = "wait" THEN @ ELSE @ \cup {o}])
       \/ Become(t, [call[t] EXCEPT !.orders = @ \ {o}])
  /\ UNCHANGED <<exchange, tracked, unknown>>

Prune(t) ==
  /\ Calls(t, "query") /\ call[t].orders = {}
  /\ tracked' = tracked \ call[t].stale /\ Return(t)
  /\ UNCHANGED <<exchange, unknown>>

-----------------------------------------------------------------------------
(* cancel_order.                                                           *)

CancelOrder(t, o) ==
  /\ Calls(t, "idle") /\ exchange[o] # "none"
  /\ Become(t, [NoCall EXCEPT !.step = "cancel", !.orders = {o}])
  /\ UNCHANGED <<exchange, tracked, unknown>>

\* The exchange cancels it, or not; the call answers something, nothing, or raises.
Cancelled(t) ==
  /\ Calls(t, "cancel")
  /\ \/ \E o \in call[t].orders : exchange[o] = "wait"
                                  /\ exchange' = [exchange EXCEPT ![o] = "cancel"]
     \/ UNCHANGED exchange
  /\ Become(t, [call[t] EXCEPT !.step = "discard"]) \/ Return(t)
  /\ UNCHANGED <<tracked, unknown>>

\* The order is forgotten, also when the exchange did not cancel it.
Discard(t) ==
  /\ Calls(t, "discard") /\ tracked' = tracked \ call[t].orders
  /\ unknown' = unknown \cup call[t].orders /\ Return(t)
  /\ UNCHANGED exchange

-----------------------------------------------------------------------------
Fill(o) ==
  /\ exchange[o] = "wait" /\ exchange' = [exchange EXCEPT ![o] = "done"]
  /\ UNCHANGED <<tracked, call, unknown>>

\* The set is not kept.
LiveRestart ==
  /\ tracked' = {} /\ unknown' = {o \in Orders : exchange[o] # "none"}
  /\ call' = [t \in Threads |-> NoCall]
  /\ UNCHANGED exchange

OrderStep(t) == AskPrice(t) \/ Taken(t) \/ Refused(t) \/ Track(t)

LiveStep(t) ==
  \/ OrderStep(t)
  \/ Query(t) \/ Prune(t) \/ Cancelled(t) \/ Discard(t)

LiveCall(t) ==
  BuyMarket(t) \/ PlaceOrder(t) \/ GetOrders(t) \/ \E o \in Orders : CancelOrder(t, o)

LiveNext ==
  \/ \E t \in Threads : LiveStep(t) \/ LiveCall(t)
  \/ \E o \in Orders : Fill(o)
  \/ LiveRestart

LiveSpec == LiveInit /\ [][LiveNext]_liveVars

-----------------------------------------------------------------------------
LiveTypeOK ==
  /\ exchange \in [Orders -> {"none", "wait", "done", "cancel"}]
  /\ tracked \subseteq Orders /\ unknown \subseteq Orders
  /\ call \in [Threads -> CallFrame]

\* The account knows of every order that is open at the exchange, while other
\* threads prune the set and cancel: but for those whose answer was lost, that it was
\* asked to cancel, or that are older than the process.
OpenIsTracked ==
  \A o \in Orders : exchange[o] = "wait" =>
    \/ o \in tracked \cup unknown
    \/ \E t \in Threads : Calls(t, "track") /\ o \in call[t].orders

\* A call of the account ends, however often the network fails.
CallEnds == \A t \in Threads : ~Calls(t, "idle") ~> Calls(t, "idle")
=============================================================================
