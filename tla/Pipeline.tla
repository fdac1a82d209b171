------------------------------ MODULE Pipeline ------------------------------
(***************************************************************************)
(* The asyncio pipeline of tools/pipeline.py: nodes joined by bounded      *)
(* queues, one task each, and a manager that rewires, pauses, removes and  *)
(* stops them while they run, by direct calls and by queued signals.       *)
(*                                                                         *)
(* One action is the code between two suspensions.  A node whose function  *)
(* is not a coroutine takes an item, works and emits without a suspension  *)
(* up to the first full queue.  Waits with a timeout that only loop again  *)
(* are left out; metrics are, except what tells of a lost value; an        *)
(* UPDATE_CONFIG signal changes a dictionary no node reads.                *)
(*                                                                         *)
(* The caller starts again only after the last stop has ended.             *)
(***************************************************************************)
EXTENDS Integers, Sequences, FiniteSets

CONSTANTS Nodes, Order,     \* the nodes, and the order they are registered in
          Kind, Source,
          Routes, Default,
          Wiring,           \* subscribers at the beginning
          Pushes,           \* the values pushed, each once, in order
          Bad,              \* node -> values its function raises on
          RouteOf,          \* what the router's function answers
          Passes,           \* values the filter lets through
          Window, Timed,    \* window_size; whether the aggregator has a timeout
          Capacity,         \* max_queue_size
          Pausable, Removable, Edges, MaxOps,   \* what the controllers do
          NoNode

Values == {Pushes[i] : i \in 1..Len(Pushes)}
Kinds == {"source", "processor", "router", "filter", "aggregator", "errors", "sink"}
Controllers == {"signals", "caller"}

ASSUME PipelineAssumption ==
  /\ IsFiniteSet(Nodes) /\ NoNode \notin Nodes
  /\ Source \in Nodes /\ Default \in Routes
  /\ Pushes \in Seq(Values) /\ Order \in Seq(Nodes) /\ Kind \in [Nodes -> Kinds]
  /\ Wiring \in [Nodes -> [Routes -> Seq(Nodes)]]
  /\ \A n \in Nodes, r \in Routes : \A i, j \in 1..Len(Wiring[n][r]) :
       Wiring[n][r][i] = Wiring[n][r][j] => i = j        \* connect() sees to it
  /\ \A n, m \in Nodes : Kind[n] = "aggregator" /\ Kind[m] = "aggregator" => n = m
                                                        \* there is one buffer
  /\ RouteOf \in [Values -> Routes] /\ Bad \in [Nodes -> SUBSET Values]
  /\ \A n \in Nodes : Kind[n] = "sink"                    \* has no downstream (488)
       => (\A r \in Routes : Wiring[n][r] = <<>>) /\ \A e \in Edges : e[1] # n
  /\ Window \in Nat \ {0} /\ Capacity \in Nat \ {0} /\ MaxOps \in Nat
  /\ Timed \in BOOLEAN
  /\ Pausable \subseteq Nodes /\ Removable \subseteq Nodes
  /\ Edges \subseteq Nodes \X Nodes \X Routes

VARIABLES subs,        \* node -> route -> subscribers; none: no such route
          queue, active, running,
          step,        \* where the node's task is
          hand,        \* what it is processing or emitting, and how far it is
          buffer,      \* items in the aggregator
          collected,   \* what the sink has: the values of each item
          counted,     \* values that dropped_count, or a sink's error_count, counted
          registered,  \* PipelineManager.nodes, in order
          up,          \* PipelineManager.running
          signals,     \* whether the signal task is alive
          ctl,         \* what each controller is in the middle of
          pushed, ops, \* values pushed, control operations done
          forfeit,     \* values lost in a hand: its task cancelled, its node paused
          cut,         \* whether a connection has been taken away
          edited       \* values whose emission saw its list of targets change

nodeVars == <<queue, step, hand, buffer, collected, counted>>
wireVars == <<subs, cut, edited>>
vars == <<nodeVars, wireVars, active, running, registered, up, signals, ctl,
          pushed, ops, forfeit>>

\* An item carries one value, or a list of them.
Item == [vals : Seq(Values), list : BOOLEAN, route : Routes, err : BOOLEAN]
ValuesOf(item) == {item.vals[i] : i \in 1..Len(item.vals)}

\* An emission: the list it runs through is subscribers[route], while that list
\* is still the one in the dictionary (live), or the list as it was; the index,
\* and the target whose queue is full.
NoItem == [vals |-> <<>>, list |-> FALSE, route |-> Default, err |-> FALSE]
EmptyHand == [item |-> NoItem, route |-> Default, live |-> TRUE, kept |-> <<>>,
              at |-> 0, to |-> NoNode]

IdleCtl == [do |-> "idle", rest |-> <<>>, size |-> 0, on |-> NoNode]

Init ==
  /\ subs = Wiring
  /\ queue = [n \in Nodes |-> <<>>]
  /\ active = [n \in Nodes |-> TRUE] /\ running = [n \in Nodes |-> FALSE]
  /\ step = [n \in Nodes |-> "ended"] /\ hand = [n \in Nodes |-> EmptyHand]
  /\ buffer = <<>> /\ collected = <<>> /\ counted = {}
  /\ registered = Order /\ up = FALSE /\ signals = FALSE
  /\ ctl = [c \in Controllers |-> IdleCtl]
  /\ pushed = 0 /\ ops = 0 /\ forfeit = {} /\ cut = FALSE /\ edited = {}

Full(q, n) == Len(q[n]) >= Capacity

-----------------------------------------------------------------------------
(* A node at work.                                                         *)

\* subscribers.get(route_id), or those of the default route.
ListFor(n, route) == IF subs[n][route] # <<>> THEN route ELSE Default

\* MUTANT of Blocked: the emitter gives up on a full queue without counting.
NeverBlocked(list, i, q) == Len(list) + 1

\* Where put() has to wait, emitting to list from i on: past the end if nowhere.
Blocked(list, i, q) ==
  CHOOSE j \in i..Len(list) + 1 :
    /\ j = Len(list) + 1 \/ Full(q, list[j])
    /\ \A k \in i..j - 1 : ~Full(q, list[k])

\* Emits h.item to list from i on, over the queues q, and then returns.
EmitFrom(n, h, list, i, q) ==
  LET j == IF i > Len(list) THEN Len(list) + 1 ELSE Blocked(list, i, q)
      reached == {list[k] : k \in i..j - 1}
  IN  /\ queue' = [m \in Nodes |-> IF m \in reached /\ ~Full(q, m)
                                    THEN Append(q[m], h.item) ELSE q[m]]
      /\ IF j <= Len(list)
           THEN /\ hand' = [hand EXCEPT ![n] = [h EXCEPT !.at = j, !.to = list[j]]]
                /\ step' = [step EXCEPT ![n] = "put"]
           ELSE /\ hand' = [hand EXCEPT ![n] = EmptyHand]
                /\ step' = [step EXCEPT ![n] = IF running'[n] THEN "get" ELSE "ended"]

Emit(n, item, q) ==
  LET route == ListFor(n, item.route) IN
  EmitFrom(n, [EmptyHand EXCEPT !.item = item, !.route = route], subs[n][route], 1, q)

\* handle() ends without anything to emit.
Done(n, q) == EmitFrom(n, EmptyHand, <<>>, 1, q)

\* The node's function raises: the item goes on as it came, marked.
Raises(n, item) == ValuesOf(item) \cap Bad[n] # {}
Marked(item) == [item EXCEPT !.err = TRUE]

ListOf(item, all) == [item EXCEPT !.vals = all, !.list = TRUE, !.err = FALSE]

\* MUTANT of Aggregated: the buffer is not cleared.
AggregatedAgain(n, item, q) ==
  LET all == buffer \o item.vals IN
  /\ buffer' = all
  /\ IF Len(all) >= Window THEN Emit(n, ListOf(item, all), q) ELSE Done(n, q)

\* AggregatorProcessor.process: a timeout is looked at only when an item comes.
\* The list does not carry the marks of its items.
Aggregated(n, item, q) ==
  LET all == buffer \o item.vals IN
  \/ /\ Len(all) >= Window \/ Timed
     /\ buffer' = <<>> /\ Emit(n, ListOf(item, all), q)
  \/ /\ Len(all) < Window
     /\ buffer' = all /\ Done(n, q)

\* process() of a node whose function is not a coroutine, and what follows.  The
\* callback of an error handler is called with marked items only, so that one that
\* raises changes nothing.
Process(n, item, q) ==
  \/ /\ Kind[n] \in {"source", "errors"}
     /\ Emit(n, item, q) /\ UNCHANGED <<buffer, collected>>
  \/ /\ Kind[n] \in {"router", "filter"} /\ Raises(n, item)
     /\ Emit(n, Marked(item), q) /\ UNCHANGED <<buffer, collected>>
  \/ /\ Kind[n] = "router" /\ ~Raises(n, item)
     /\ Emit(n, [item EXCEPT !.route = RouteOf[item.vals[1]]], q)
     /\ UNCHANGED <<buffer, collected>>
  \/ /\ Kind[n] = "filter" /\ ~Raises(n, item)
     /\ IF ValuesOf(item) \subseteq Passes THEN Emit(n, item, q) ELSE Done(n, q)
     /\ UNCHANGED <<buffer, collected>>
  \/ /\ Kind[n] = "aggregator"
     /\ Aggregated(n, item, q) /\ UNCHANGED collected
  \/ /\ Kind[n] = "sink" /\ ~Raises(n, item)
     /\ collected' = Append(collected, [vals |-> item.vals, list |-> item.list])
     /\ Done(n, q) /\ UNCHANGED buffer

MayTake(n) == step[n] = "get" /\ queue[n] # <<>>

\* MUTANT of Handle: a paused node leaves its queue alone.
HandleWhenActive(n) ==
  LET item == Head(queue[n])
      rest == [queue EXCEPT ![n] = Tail(@)]
  IN  /\ MayTake(n) /\ active[n]
      /\ \/ /\ Kind[n] = "sink" /\ Raises(n, item)
            /\ counted' = counted \cup ValuesOf(item)
            /\ Done(n, rest) /\ UNCHANGED <<buffer, collected>>
         \/ /\ Kind[n] = "processor"
            /\ step' = [step EXCEPT ![n] = "process"]
            /\ hand' = [hand EXCEPT ![n] = [EmptyHand EXCEPT !.item = item]]
            /\ queue' = rest /\ UNCHANGED <<buffer, collected, counted>>
         \/ /\ Kind[n] # "processor"
            /\ Process(n, item, rest) /\ UNCHANGED counted

\* Node.handle, up to the first suspension.  What a sink raises on is counted, and
\* has nowhere to go.
Handle(n) ==
  LET item == Head(queue[n])
      rest == [queue EXCEPT ![n] = Tail(@)]
  IN  /\ MayTake(n)
      /\ \/ /\ ~active[n] \/ (Kind[n] = "sink" /\ Raises(n, item))
            /\ counted' = counted \cup ValuesOf(item)
            /\ Done(n, rest) /\ UNCHANGED <<buffer, collected>>
         \/ /\ active[n] /\ Kind[n] = "processor"
            /\ step' = [step EXCEPT ![n] = "process"]
            /\ hand' = [hand EXCEPT ![n] = [EmptyHand EXCEPT !.item = item]]
            /\ queue' = rest /\ UNCHANGED <<buffer, collected, counted>>
         \/ /\ active[n] /\ Kind[n] # "processor"
            /\ Process(n, item, rest) /\ UNCHANGED counted

Take(n) ==
  /\ UNCHANGED <<running, active, wireVars, registered, up, signals, ctl, pushed, ops, forfeit>>
  /\ Handle(n)

\* The processor's coroutine returns or raises.  emit() of a node that was
\* paused in the meantime drops the result and counts nothing.
Finish(n) ==
  LET item == hand[n].item
      result == IF Raises(n, item) THEN Marked(item) ELSE item
  IN  /\ step[n] = "process"
      /\ UNCHANGED <<running, active, wireVars, registered, up, signals, ctl, pushed, ops,
                     buffer, collected, counted>>
      /\ IF active[n]
           THEN Emit(n, result, queue) /\ UNCHANGED forfeit
           ELSE Done(n, queue) /\ forfeit' = forfeit \cup ValuesOf(item)

MayPut(n) == step[n] = "put" /\ ~Full(queue, hand[n].to)

\* A put() that waited goes through, and the emission goes on behind it.
Unblock(n) ==
  LET h == hand[n]
      list == IF h.live THEN subs[n][h.route] ELSE h.kept
  IN  /\ MayPut(n)
      /\ UNCHANGED <<running, active, wireVars, registered, up, signals, ctl, pushed, ops,
                     forfeit, buffer, collected, counted>>
      /\ EmitFrom(n, h, list, h.at + 1, [queue EXCEPT ![h.to] = Append(@, h.item)])

\* Source.push_data: put() succeeds, or times out on a full queue.
Push ==
  /\ pushed < Len(Pushes) /\ pushed' = pushed + 1
  /\ LET v == Pushes[pushed + 1] IN
     \/ /\ ~Full(queue, Source)
        /\ queue' = [queue EXCEPT ![Source] =
                       Append(@, [vals |-> <<v>>, list |-> FALSE, route |-> Default, err |-> FALSE])]
        /\ UNCHANGED counted
     \/ /\ Full(queue, Source)
        /\ counted' = counted \cup {v} /\ UNCHANGED queue
  /\ UNCHANGED <<step, hand, buffer, collected, wireVars, active, running, registered,
                 up, signals, ctl, ops, forfeit>>

-----------------------------------------------------------------------------
(* The controllers: the task of the signals, and a caller of the manager.  *)

Free(c) == ctl[c].do = "idle" /\ (c = "signals" => signals)
Operation(c) == Free(c) /\ ops < MaxOps /\ ops' = ops + 1
Registered(n) == \E i \in 1..Len(registered) : registered[i] = n

\* The task of the signals looks at running after each of them.
SignalDone(c) == signals' = IF c = "signals" THEN up ELSE signals

\* Puts the subscribers new in place.  An emission that runs through a list
\* that was changed sees the change; one whose route was deleted keeps the list
\* as left: whole, or emptied by a removal.
Rewire(new, whole) ==
  LET changed(m) == step[m] = "put" /\ hand[m].live
                      /\ new[m][hand[m].route] # subs[m][hand[m].route]
  IN  /\ subs' = new
      /\ cut' = (cut \/ \E m \in Nodes, r \in Routes : Len(new[m][r]) < Len(subs[m][r]))
      /\ edited' = edited \cup UNION {ValuesOf(hand[m].item) : m \in {k \in Nodes : changed(k)}}
      /\ hand' = [m \in Nodes |->
           IF changed(m) /\ new[m][hand[m].route] = <<>>
             THEN [hand[m] EXCEPT !.live = FALSE,
                     !.kept = IF whole THEN subs[m][hand[m].route] ELSE <<>>]
             ELSE hand[m]]

Has(list, n) == \E i \in 1..Len(list) : list[i] = n

\* A list that has n once, without it.
Without(list, n) ==
  LET i == CHOOSE i \in 1..Len(list) : list[i] = n
  IN  IF Has(list, n) THEN [k \in 1..Len(list) - 1 |-> list[IF k < i THEN k ELSE k + 1]]
      ELSE list

\* MUTANT of Connect: a subscriber is appended again.
ConnectAgain(c, e) ==
  /\ Operation(c) /\ Registered(e[1]) /\ Registered(e[2])
  /\ Rewire([subs EXCEPT ![e[1]][e[3]] = Append(@, e[2])], FALSE)
  /\ SignalDone(c)
  /\ UNCHANGED <<queue, step, buffer, collected, counted, active, running, registered, up,
                 ctl, pushed, forfeit>>

\* connect_nodes, and a CHANGE_ROUTE signal.
Connect(c, e) ==
  /\ Operation(c) /\ Registered(e[1]) /\ Registered(e[2])
  /\ Rewire([subs EXCEPT ![e[1]][e[3]] = IF Has(@, e[2]) THEN @ ELSE Append(@, e[2])], FALSE)
  /\ SignalDone(c)
  /\ UNCHANGED <<queue, step, buffer, collected, counted, active, running, registered, up,
                 ctl, pushed, forfeit>>

\* disconnect_nodes; a target that is no longer registered is looked up as None,
\* and None takes every subscriber of the route away.
Disconnect(e) ==
  /\ Operation("caller") /\ Registered(e[1])
  /\ IF Registered(e[2])
       THEN Rewire([subs EXCEPT ![e[1]][e[3]] = Without(@, e[2])], FALSE)
       ELSE Rewire([subs EXCEPT ![e[1]][e[3]] = <<>>], TRUE)
  /\ UNCHANGED <<queue, step, buffer, collected, counted, active, running, registered, up,
                 signals, ctl, pushed, forfeit>>

SetActive(c, n) ==
  /\ Operation(c) /\ Registered(n)
  /\ active' = [active EXCEPT ![n] = ~@]
  /\ SignalDone(c)
  /\ UNCHANGED <<nodeVars, wireVars, running, registered, up, ctl, pushed, forfeit>>

\* register_node; an ADD_PROCESSOR signal also starts it in a running pipeline.
Register(c, n) ==
  /\ Operation(c) /\ ~Registered(n)
  /\ registered' = Append(registered, n)
  /\ IF c = "signals" /\ up
       THEN /\ running' = [running EXCEPT ![n] = TRUE]
            /\ step' = [step EXCEPT ![n] = IF @ = "ended" THEN "get" ELSE @]
       ELSE UNCHANGED <<running, step>>
  /\ SignalDone(c)
  /\ UNCHANGED <<queue, hand, buffer, collected, counted, wireVars, active, up, ctl,
                 pushed, forfeit>>

-----------------------------------------------------------------------------
(* Stopping.                                                               *)

\* The task of n is cancelled: what it holds is lost, its queue stays.
Cancelled(n) ==
  /\ step' = [step EXCEPT ![n] = "ended"]
  /\ hand' = [hand EXCEPT ![n] = EmptyHand]
  /\ forfeit' = forfeit \cup ValuesOf(hand[n].item)
  /\ UNCHANGED <<queue, buffer, collected, counted>>

\* Node.stop, up to the wait for the task.  wait_for passes a cancellation over
\* when its get() has just ended: the node then handles that item first.
StopNode(n) ==
  /\ running' = [running EXCEPT ![n] = FALSE]
  /\ \/ Cancelled(n)
     \/ Handle(n) /\ UNCHANGED forfeit

\* Node.stop is through: the task has ended.
Stopped(c) == ctl[c].on # NoNode => step[ctl[c].on] = "ended"

\* unregister_node, up to the wait; the manager's lock admits one.
Remove(c, n) ==
  /\ Operation(c) /\ Registered(n) /\ \A d \in Controllers : ctl[d].do # "removing"
  /\ StopNode(n)
  /\ ctl' = [ctl EXCEPT ![c] = [IdleCtl EXCEPT !.do = "removing", !.on = n]]
  /\ UNCHANGED <<wireVars, active, registered, up, signals, pushed>>

\* The rest of it: every registered node loses n as a subscriber.  A node that
\* waits to put into the queue of n goes on waiting.
Removed(c) ==
  LET n == ctl[c].on IN
  /\ ctl[c].do = "removing" /\ Stopped(c)
  /\ Rewire([m \in Nodes |-> [r \in Routes |->
               IF Registered(m) THEN Without(subs[m][r], n) ELSE subs[m][r]]], FALSE)
  /\ registered' = Without(registered, n)
  /\ ctl' = [ctl EXCEPT ![c] = IdleCtl] /\ SignalDone(c)
  /\ UNCHANGED <<queue, step, buffer, collected, counted, active, running, up, pushed, ops,
                 forfeit>>

\* start(): a node whose task has not ended is left as it is.
Start ==
  /\ Operation("caller") /\ ~up /\ ~signals
  /\ up' = TRUE /\ signals' = TRUE
  /\ running' = [n \in Nodes |-> running[n] \/ (Registered(n) /\ step[n] = "ended")]
  /\ step' = [n \in Nodes |-> IF Registered(n) /\ step[n] = "ended" THEN "get" ELSE step[n]]
  /\ UNCHANGED <<queue, hand, buffer, collected, counted, wireVars, active, registered,
                 ctl, pushed, forfeit>>

\* stop(), by the caller or by a STOP signal, up to the wait for the task of the
\* signals.  If that waits for a node, the cancellation hits the node's task.
StopAll(c) ==
  LET on == ctl["signals"].on IN
  /\ Operation(c) /\ up /\ up' = FALSE
  /\ ctl' = [ctl EXCEPT ![c] = [IdleCtl EXCEPT !.do = "joining"]]
  /\ IF c = "caller" /\ on # NoNode /\ step[on] # "ended"
       THEN Cancelled(on)
       ELSE UNCHANGED <<nodeVars, forfeit>>
  /\ UNCHANGED <<wireVars, active, running, registered, signals, pushed>>

MaySignalsEnd == signals /\ ~up /\ ctl["signals"].do = "idle"

\* The task of the signals ends, waiting for a signal.
SignalsEnd ==
  /\ MaySignalsEnd /\ signals' = FALSE
  /\ UNCHANGED <<nodeVars, wireVars, active, running, registered, up, ctl, pushed, ops,
                 forfeit>>

\* MUTANT of MayJoin: a STOP signal waits for the end of the task it runs in.
MayJoinItself(c) == ctl[c].do = "joining" /\ ~signals

\* stop() has waited for the task of the signals; a STOP signal waits for itself,
\* which is a cancellation too.
MayJoin(c) == ctl[c].do = "joining" /\ (c = "caller" => ~signals)

\* The nodes are then stopped one by one.
Joined(c) ==
  /\ MayJoin(c)
  /\ ctl' = [ctl EXCEPT ![c] = [do |-> "stopping", rest |-> registered,
                                size |-> Len(registered), on |-> NoNode]]
  /\ UNCHANGED <<nodeVars, wireVars, active, running, registered, up, signals, pushed, ops,
                 forfeit>>

\* MUTANT of StopNext: the end of the task is not awaited.
StopNextUnawaited(c) ==
  /\ ctl[c].do = "stopping"
  /\ Len(registered) = ctl[c].size /\ ctl[c].rest # <<>>
  /\ StopNode(Head(ctl[c].rest))
  /\ ctl' = [ctl EXCEPT ![c].on = Head(ctl[c].rest), ![c].rest = Tail(@)]
  /\ UNCHANGED <<wireVars, active, registered, up, signals, pushed, ops>>

\* The next node of the dictionary, whose size must not have changed.
StopNext(c) ==
  /\ ctl[c].do = "stopping" /\ Stopped(c)
  /\ Len(registered) = ctl[c].size /\ ctl[c].rest # <<>>
  /\ LET n == Head(ctl[c].rest) IN
     /\ IF step[n] = "ended"
          THEN running' = [running EXCEPT ![n] = FALSE] /\ UNCHANGED <<nodeVars, forfeit>>
          ELSE StopNode(n)
     /\ ctl' = [ctl EXCEPT ![c].on = n, ![c].rest = Tail(@)]
  /\ UNCHANGED <<wireVars, active, registered, up, signals, pushed, ops>>

\* stop() returns, or raises because the dictionary has changed size.
StopDone(c) ==
  /\ ctl[c].do = "stopping" /\ Stopped(c)
  /\ Len(registered) = ctl[c].size => ctl[c].rest = <<>>
  /\ ctl' = [ctl EXCEPT ![c] = IdleCtl] /\ SignalDone(c)
  /\ UNCHANGED <<nodeVars, wireVars, active, running, registered, up, pushed, ops, forfeit>>

-----------------------------------------------------------------------------
NodeStep(n) == Take(n) \/ Finish(n) \/ Unblock(n)

ControlStep(c) == Removed(c) \/ Joined(c) \/ StopNext(c) \/ StopDone(c)

Next ==
  \/ Push \/ Start \/ SignalsEnd
  \/ \E n \in Nodes : NodeStep(n)
  \/ \E c \in Controllers :
       \/ ControlStep(c) \/ StopAll(c)
       \/ \E e \in Edges : Connect(c, e)
       \/ \E n \in Pausable : SetActive(c, n)
       \/ \E n \in Removable : Remove(c, n) \/ Register(c, n)
  \/ \E e \in Edges : Disconnect(e)

Spec == Init /\ [][Next]_vars

\* The event loop runs the tasks that are ready, and the functions of the nodes
\* return.  Nobody has to push, to rewire or to stop.
Ready == SignalsEnd \/ (\E n \in Nodes : NodeStep(n)) \/ \E c \in Controllers : ControlStep(c)

FairSpec == Spec /\ WF_vars(Ready)

-----------------------------------------------------------------------------
(* Wirings, as the properties and the theorems speak of them.              *)

\* Who may ever subscribe to a route: who does at the beginning, and whom a
\* controller connects.
Targets(n, r) == {Wiring[n][r][i] : i \in 1..Len(Wiring[n][r])}
                 \cup {e[2] : e \in {f \in Edges : f[1] = n /\ f[3] = r}}

\* The route by which a node passes on what carries the route r.
Wired(n, r) == IF Wiring[n][r] # <<>> THEN r ELSE Default

\* No node subscribes to itself, and connecting does not turn what took the
\* default route away from it.
WellWired ==
  \A n \in Nodes, r \in Routes :
    /\ n \notin Targets(n, r)
    /\ Wiring[n][r] = <<>> /\ r # Default => Targets(n, r) = {}

\* way gives the nodes that single values of a route pass on their way to a sink.
Line(way) == UNION {{way[r][d] : d \in 1..Len(way[r])} : r \in Routes}

\* The route that such a value carries behind the first d of them.
Carried(way, r, d) == IF \E k \in 1..d : Kind[way[r][k]] = "router" THEN r ELSE Default

\* A wiring of that kind: one way for each route, and nowhere two of them to go
\* on, also by an edge that a controller may add; aside from it values go only
\* into an aggregator, or nowhere near it.  What a router raises on, and passes on as
\* it came, is the default route's.
OneWay(way) ==
  /\ WellWired /\ way \in [Routes -> Seq(Nodes)]
  /\ \A n \in Nodes : Kind[n] = "sink" => n \in Line(way)
  /\ \A n \in Nodes, r \in Routes :
       /\ n \in Line(way) => \A t, u \in Targets(n, r) \cap Line(way) : t = u
       /\ n \notin Line(way) /\ Kind[n] # "aggregator" => Targets(n, r) \cap Line(way) = {}
  /\ \A n \in Line(way) : Kind[n] = "router" => \A v \in Bad[n] : RouteOf[v] = Default
  /\ \A r \in Routes :
       /\ way[r] # <<>> /\ way[r][1] = Source /\ Kind[way[r][Len(way[r])]] = "sink"
       /\ \A c, d \in 1..Len(way[r]) : way[r][c] = way[r][d] => c = d
       /\ \A d \in 1..Len(way[r]) - 1 :
            /\ Kind[way[r][d]] # "sink"
            /\ Targets(way[r][d], Wired(way[r][d], Carried(way, r, d))) \cap Line(way)
                 \subseteq {way[r][d + 1]}

\* A wiring without circles, whatever a controller adds to it.
Ranked(rank) ==
  /\ rank \in [Nodes -> Nat]
  /\ \A n \in Nodes, r \in Routes : \A t \in Targets(n, r) : rank[n] < rank[t]

-----------------------------------------------------------------------------
(* What is checked.                                                        *)

\* Queues keep to their capacity and the buffer to its window; a node has an
\* item in hand exactly while it processes or emits, and waits for another only
\* while it runs.
TypeOK ==
  /\ subs \in [Nodes -> [Routes -> Seq(Nodes)]]
  /\ \A n \in Nodes : queue[n] \in Seq(Item) /\ Len(queue[n]) <= Capacity
  /\ active \in [Nodes -> BOOLEAN] /\ running \in [Nodes -> BOOLEAN]
  /\ step \in [Nodes -> {"ended", "get", "process", "put"}]
  /\ \A n \in Nodes :
       /\ (step[n] \in {"process", "put"}) <=> (hand[n].item.vals # <<>>)
       /\ (step[n] = "put") <=> (hand[n].to # NoNode)
       /\ step[n] = "get" => running[n]
  /\ buffer \in Seq(Values) /\ Len(buffer) < Window
  /\ counted \cup forfeit \cup edited \subseteq Values
  /\ registered \in Seq(Nodes) /\ {up, signals, cut} \subseteq BOOLEAN

Position(v) == CHOOSE i \in 1..Len(Pushes) : Pushes[i] = v

EachOnce == \A i, j \in 1..Len(Pushes) : Pushes[i] = Pushes[j] => i = j

\* A value gets to the sink once, and values of one route get there in the order
\* they were pushed: whatever is paused, removed or stopped, emissions of
\* different values never mix (one task per node, one queue per node).  Excepted
\* are values in the middle of an emission when its list was edited, which may
\* miss a subscriber or get to one twice; and the order, once a subscriber was
\* taken away and the route falls back to the default.
DeliveredInOrder ==
  \A i, j \in 1..Len(collected) :
    LET one == collected[i]   other == collected[j] IN
    i < j /\ ~one.list /\ ~other.list =>
      /\ one.vals = other.vals => one.vals[1] \in edited
      /\ RouteOf[one.vals[1]] = RouteOf[other.vals[1]]
           => cut \/ Position(one.vals[1]) < Position(other.vals[1])

\* The items with n: in its queue or in its hand.
Held(n) == {queue[n][i] : i \in 1..Len(queue[n])} \cup {hand[n].item}
At(n) == UNION {ValuesOf(item) : item \in Held(n)}
InTransit == \E n \in Nodes : queue[n] # <<>> \/ step[n] \in {"process", "put"}

\* An emitter waits on the full queue of a node whose task has ended.
Stuck == \E n \in Nodes : step[n] = "put" /\ step[hand[n].to] = "ended"
                             /\ Full(queue, hand[n].to)

\* A stop that returns has ended every node that is registered, also one that
\* passed the cancellation over and first handled another item.
StopIsComplete ==
  [][\A c \in Controllers :
       ctl[c].do = "stopping" /\ ctl'[c].do = "idle" /\ Len(registered) = ctl[c].size
         => \A n \in Nodes : Registered(n) => step[n] = "ended"]_vars

\* Some task can go on: the guards of Ready.
CanGo ==
  \/ MaySignalsEnd
  \/ \E n \in Nodes : MayTake(n) \/ step[n] = "process" \/ MayPut(n)
  \/ \E c \in Controllers : MayJoin(c) \/ (ctl[c].do \in {"removing", "stopping"} /\ Stopped(c))

\* stop and unregister_node come to an end: while one is under way some task can
\* go on, so that nobody waits for himself or in a circle; except that an emitter
\* may be stuck on a node that was removed, and with it who waits for the emitter.
NoDeadlock == (\E c \in Controllers : ctl[c].do # "idle") => CanGo \/ Stuck

\* Back pressure never stops a running pipeline for good: what is in the queues
\* comes to its end, unless it lies in the queue of a node that was removed.
Drains == up /\ InTransit ~> ~up \/ ~InTransit
                             \/ \E m \in Nodes : step[m] = "ended" /\ queue[m] # <<>>
=============================================================================
