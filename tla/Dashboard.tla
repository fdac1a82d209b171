----------------------------- MODULE Dashboard ------------------------------
(***************************************************************************)
(* What clients see: src/dashboard.py queues the events of all threads and *)
(* applies them in one of its own, src/dashboard_state.py keeps the state  *)
(* and throttles, and the event loop of src/ws_server.py sends a snapshot  *)
(* to each viewer that comes and then the events.                          *)
(*                                                                         *)
(* One ticker.  A payload with a Decimal (those of pockets, strategies and *)
(* orders) is stored but cannot be turned into JSON when it is broadcast;  *)
(* a snapshot turns Decimals into text, but not the date of an order that  *)
(* was read from the database at the start.  Tokens, commands of a viewer  *)
(* and the terminal are left out; a viewer takes what is sent.             *)
(***************************************************************************)
EXTENDS Integers, Sequences, FiniteSets

CONSTANTS PocketIds, StrategyIds, OrderIds,
          PocketOf,     \* strategy -> its pocket, or NoPocket
          NoPocket,
          Restored,     \* orders read from the database at the start
          MaxLogs,      \* _MAX_LOGS
          Viewers,
          MaxPrices, MaxMessages, MaxEvents, MaxQueue   \* bounds

ASSUME DashboardAssumption ==
  /\ PocketOf \in [StrategyIds -> PocketIds \cup {NoPocket}] /\ NoPocket \notin PocketIds
  /\ PocketIds \cap StrategyIds = {} /\ (PocketIds \cup StrategyIds) \cap OrderIds = {}
  /\ Restored \subseteq OrderIds
  /\ {MaxLogs, MaxPrices, MaxMessages, MaxEvents, MaxQueue} \subseteq Nat

VARIABLES events,     \* Dashboard.queue
          current,    \* the event the dashboard's thread has stored and not yet told
          store,      \* DashboardStateStore._state
          recent,     \* whether the last price was told less than 0.5 s ago
          told,       \* broadcasts the event loop has not run yet
          view,       \* what each viewer has: nothing, or what the events made of the
                      \* snapshot; had: how many messages the snapshot had (history)
          dropped,    \* the last price that was not told
          prices, messages,   \* prices and messages so far
          known, gone, again \* pockets, strategies and orders that were announced,
                      \* or ended, or announced again

dashVars == <<events, current, store, recent, told, view, dropped, prices, messages, known, gone, again>>

Event == [kind : {"price", "message"}, n : Nat]
           \cup [kind : {"pocket"}, id : PocketIds]
           \cup [kind : {"strategy", "remove"}, id : StrategyIds]
           \cup [kind : {"open", "done"}, id : OrderIds]
Nothing == [kind |-> "none"]
NoView == [price |-> 0, logs |-> <<>>, had |-> 0, strategies |-> {}, on |-> FALSE]

\* json.dumps of the payload of a broadcast succeeds.
Serialisable(e) == e.kind \in {"price", "message", "remove"}

\* _state: nested has the strategies filed under a pocket's dictionary, loose those
\* under the ticker.  (Orders are under it too, by the same calls.)
DashInit ==
  /\ events = <<>> /\ current = Nothing /\ recent = FALSE /\ told = <<>> /\ dropped = 0
  /\ store = [price |-> 0, pockets |-> {}, strategies |-> {}, nested |-> {}, loose |-> {},
              orders |-> {}, logs |-> <<>>]
  /\ view = [v \in Viewers |-> NoView]
  /\ prices = 0 /\ messages = 0 /\ known = {} /\ gone = {} /\ again = {}

-----------------------------------------------------------------------------
(* Producers: the manager's observers, in any thread.                      *)

Put(e) ==
  /\ prices + messages + Cardinality(known) + Cardinality(gone) + Cardinality(again) < MaxEvents
  /\ Len(events) < MaxQueue /\ events' = Append(events, e)
  /\ UNCHANGED <<current, store, recent, told, view, dropped>>

PutPrice == prices < MaxPrices /\ prices' = prices + 1
            /\ Put([kind |-> "price", n |-> prices'])
            /\ UNCHANGED <<messages, known, gone, again>>

PutMessage == messages < MaxMessages /\ messages' = messages + 1
              /\ Put([kind |-> "message", n |-> messages'])
              /\ UNCHANGED <<prices, known, gone, again>>

\* A pocket is announced when it is loaded or created; nothing announces its end.
PutPocket(p) ==
  /\ p \notin known /\ known' = known \cup {p}
  /\ Put([kind |-> "pocket", id |-> p])
  /\ UNCHANGED <<prices, messages, gone, again>>

\* on_pocket_updated: the whole pocket again.
PutPocketAgain(p) ==
  /\ p \in known \ again /\ again' = again \cup {p}
  /\ Put([kind |-> "pocket", id |-> p])
  /\ UNCHANGED <<prices, messages, known, gone>>

\* A strategy is created for a pocket that was announced, or for none.
PutStrategy(s) ==
  /\ s \notin known /\ PocketOf[s] \in known \cup {NoPocket} /\ known' = known \cup {s}
  /\ Put([kind |-> "strategy", id |-> s])
  /\ UNCHANGED <<prices, messages, gone, again>>

\* on_strategy_signal and on_strategy_updated; also when another thread has just
\* deleted the strategy, which then is shown for ever.
PutStrategyAgain(s) ==
  /\ s \in known \ again /\ again' = again \cup {s}
  /\ Put([kind |-> "strategy", id |-> s])
  /\ UNCHANGED <<prices, messages, known, gone>>

PutRemove(s) ==
  /\ s \in known \ gone /\ gone' = gone \cup {s}
  /\ Put([kind |-> "remove", id |-> s])
  /\ UNCHANGED <<prices, messages, known, again>>

PutOrder(o) ==
  /\ o \notin known /\ known' = known \cup {o}
  /\ Put([kind |-> "open", id |-> o])
  /\ UNCHANGED <<prices, messages, gone, again>>

PutOrderDone(o) ==
  /\ o \in known \ gone /\ gone' = gone \cup {o}
  /\ Put([kind |-> "done", id |-> o])
  /\ UNCHANGED <<prices, messages, known, again>>

-----------------------------------------------------------------------------
(* The dashboard's thread.                                                 *)

Filed(p) == {s \in StrategyIds : PocketOf[s] = p}

Latest(logs) == IF Len(logs) > MaxLogs THEN SubSeq(logs, Len(logs) - MaxLogs + 1, Len(logs))
                                       ELSE logs

\* _update.  A new dictionary of a pocket has none of the strategies of the old
\* one.  A strategy is filed under its pocket when that is known, and under the
\* ticker otherwise.
Stored(e) ==
  CASE e.kind = "price" -> [store EXCEPT !.price = e.n]
    [] e.kind = "message" -> [store EXCEPT !.logs = Latest(Append(@, e.n))]
    [] e.kind = "pocket" -> [store EXCEPT !.pockets = @ \cup {e.id}, !.nested = @ \ Filed(e.id)]
    [] e.kind = "strategy" ->
         IF PocketOf[e.id] \in store.pockets
           THEN [store EXCEPT !.strategies = @ \cup {e.id}, !.nested = @ \cup {e.id}]
           ELSE [store EXCEPT !.strategies = @ \cup {e.id}, !.loose = @ \cup {e.id}]
    [] e.kind = "remove" /\ e.id \in store.strategies ->
         IF PocketOf[e.id] \in store.pockets
           THEN [store EXCEPT !.strategies = @ \ {e.id}, !.nested = @ \ {e.id}]
           ELSE [store EXCEPT !.strategies = @ \ {e.id}, !.loose = @ \ {e.id}]
    [] e.kind = "open" -> [store EXCEPT !.orders = @ \cup {e.id}]
    [] e.kind = "done" -> [store EXCEPT !.orders = @ \ {e.id}]
    [] OTHER -> store

dashProducer == <<prices, messages, known, gone, again>>

\* apply_event, under its lock.
Apply ==
  /\ events # <<>> /\ current = Nothing
  /\ current' = Head(events) /\ events' = Tail(events)
  /\ store' = Stored(Head(events))
  /\ UNCHANGED <<recent, told, view, dropped, dashProducer>>

\* MUTANT of Notify: a message overtakes what waits to be sent.
NotifyMessagesFirst ==
  /\ current # Nothing /\ current' = Nothing
  /\ IF current.kind = "price" /\ recent
       THEN dropped' = current.n /\ UNCHANGED <<recent, told>>
       ELSE /\ Len(told) < MaxQueue
            /\ told' = IF current.kind = "message" THEN <<current>> \o told
                                                   ELSE Append(told, current)
            /\ UNCHANGED dropped
            /\ recent' = (recent \/ current.kind = "price")
  /\ UNCHANGED <<events, store, view, dashProducer>>

\* _maybe_notify, outside the lock: a price soon after the last one told is dropped.
Notify ==
  /\ current # Nothing /\ current' = Nothing
  /\ IF current.kind = "price" /\ recent
       THEN dropped' = current.n /\ UNCHANGED <<recent, told>>
       ELSE /\ Len(told) < MaxQueue /\ told' = Append(told, current)
            /\ UNCHANGED dropped
            /\ recent' = (recent \/ current.kind = "price")
  /\ UNCHANGED <<events, store, view, dashProducer>>

\* Half a second has passed since the last price was told.
Elapse ==
  /\ recent /\ recent' = FALSE
  /\ UNCHANGED <<events, current, store, told, view, dropped, dashProducer>>

-----------------------------------------------------------------------------
(* The event loop.                                                         *)

\* ws_view: the viewer is added and gets a snapshot, in one step of the loop; with a
\* restored order in it the snapshot cannot be sent, and the connection ends.
ViewerComes(v) ==
  /\ ~view[v].on /\ Restored \cap store.orders = {}
  /\ view' = [view EXCEPT ![v] = [price |-> store.price, logs |-> store.logs,
                                  had |-> Len(store.logs),
                                  strategies |-> store.strategies, on |-> TRUE]]
  /\ UNCHANGED <<events, current, store, recent, told, dropped, dashProducer>>

ViewerGoes(v) ==
  /\ view[v].on /\ view' = [view EXCEPT ![v] = NoView]
  /\ UNCHANGED <<events, current, store, recent, told, dropped, dashProducer>>

Shown(w, e) ==
  IF ~w.on THEN w
  ELSE CASE e.kind = "price" -> [w EXCEPT !.price = e.n]
         [] e.kind = "message" -> [w EXCEPT !.logs = Append(@, e.n)]
         [] e.kind = "remove" -> [w EXCEPT !.strategies = @ \ {e.id}]
         [] OTHER -> w

\* _broadcast: raises before it sends anything, or sends to every viewer.
Broadcast ==
  /\ told # <<>> /\ told' = Tail(told)
  /\ view' = IF Serialisable(Head(told)) THEN [v \in Viewers |-> Shown(view[v], Head(told))]
                                         ELSE view
  /\ UNCHANGED <<events, current, store, recent, dropped, dashProducer>>

-----------------------------------------------------------------------------
DashThreads == Apply \/ Notify \/ Broadcast

DashNext ==
  \/ DashThreads \/ Elapse
  \/ PutPrice \/ PutMessage
  \/ \E p \in PocketIds : PutPocket(p) \/ PutPocketAgain(p)
  \/ \E s \in StrategyIds : PutStrategy(s) \/ PutStrategyAgain(s) \/ PutRemove(s)
  \/ \E o \in OrderIds : PutOrder(o) \/ PutOrderDone(o)
  \/ \E v \in Viewers : ViewerComes(v) \/ ViewerGoes(v)

\* The dashboard's thread and the event loop run.
DashSpec == DashInit /\ [][DashNext]_dashVars /\ WF_dashVars(DashThreads)

-----------------------------------------------------------------------------
AtRest == events = <<>> /\ current = Nothing /\ told = <<>>
SetOf(seq) == {seq[i] : i \in 1..Len(seq)}

DashTypeOK ==
  /\ SetOf(events) \cup SetOf(told) \subseteq Event
  /\ current = Nothing \/ current \in Event
  /\ store.price \in 0..MaxPrices /\ Len(store.logs) <= MaxLogs
  /\ store.pockets \subseteq PocketIds /\ store.orders \subseteq OrderIds
  /\ store.strategies \subseteq StrategyIds
  /\ recent \in BOOLEAN

\* The places that hold a strategy agree: one filed under a pocket or under the
\* ticker is in the flat index, under the right one of the two.  (Not the other way
\* round: an update of the pocket drops what was filed under it.)
FiledIsListed ==
  /\ store.nested \cup store.loose \subseteq store.strategies
  /\ store.nested \cap store.loose = {}
  /\ \A s \in store.nested : PocketOf[s] \in store.pockets

\* The messages of a viewer follow one another, those of the snapshot and those told
\* after it; the first that is told may be one that the snapshot has, or the next.
InOrder(w) ==
  \A i \in 1..Len(w.logs) - 1 :
    IF i = w.had THEN w.logs[i + 1] <= w.logs[i] + 1 ELSE w.logs[i + 1] = w.logs[i] + 1

\* A viewer misses nothing that can be sent, whenever it came, and gets the messages in
\* order.  At rest it has every message that is kept or came since one it has, and
\* shows no strategy that was removed.
ViewersHaveAll ==
  \A v \in Viewers : view[v].on =>
    /\ InOrder(view[v])
    /\ AtRest => /\ SetOf(store.logs) \subseteq SetOf(view[v].logs)
                 /\ \A n \in SetOf(view[v].logs) : n < messages => n + 1 \in SetOf(view[v].logs)
                 /\ view[v].strategies \subseteq store.strategies

\* At rest a viewer shows the latest price, unless that one was dropped because
\* another had just been told: then nothing brings it until the next price comes,
\* and a viewer that came in between may even be set back behind its snapshot.
PriceIsLatest ==
  AtRest => \A v \in Viewers :
    view[v].on => view[v].price = store.price \/ dropped = store.price
=============================================================================
