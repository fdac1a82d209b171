----------------------------- MODULE MCPipeline -----------------------------
(* A source, an asynchronous processor and a router; the router's route a   *)
(* goes to a filter and an aggregator at once, its default to the errors.  *)
EXTENDS Pipeline, TLC

CONSTANTS src, proc, rt, flt, agg, err, snk, v1, v2, v3, a, default

TheNodes == {src, proc, rt, flt, agg, err, snk}
TheOrder == <<src, proc, rt, flt, agg, err, snk>>
TheKind == src :> "source" @@ proc :> "processor" @@ rt :> "router" @@ flt :> "filter"
           @@ agg :> "aggregator" @@ err :> "errors" @@ snk :> "sink"
To(list) == a :> <<>> @@ default :> list
TheWiring == src :> To(<<proc>>) @@ proc :> To(<<rt>>)
             @@ rt :> (a :> <<flt, agg>> @@ default :> <<err>>)
             @@ flt :> To(<<snk>>) @@ agg :> To(<<snk>>) @@ err :> To(<<snk>>)
             @@ snk :> To(<<>>)
ThePushes == <<v1, v2, v3>>
TheRoutes == {a, default}
TheRouteOf == v1 :> a @@ v2 :> a @@ v3 :> default
TheBad == [n \in TheNodes |-> IF n = flt THEN {v1} ELSE IF n \in {proc, rt, snk} THEN {v3} ELSE {}]
ThePasses == {v1, v2, v3}
TheEdges == {<<rt, flt, a>>}

\* Single values come to the sink by the filter or by the errors.
TheWay == a :> <<src, proc, rt, flt, snk>> @@ default :> <<src, proc, rt, err, snk>>

ASSUME WayAssumption == EachOnce /\ OneWay(TheWay)

\* It has no circles.
TheRank == src :> 0 @@ proc :> 1 @@ rt :> 2 @@ flt :> 3 @@ agg :> 3 @@ err :> 3 @@ snk :> 4

ASSUME RankAssumption == Ranked(TheRank)

\* What NothingLostSilently is about, of all this.
ASSUME TopologyAssumption ==
  /\ {src, proc, rt, flt, agg, err, snk} \subseteq Nodes
  /\ Source = src /\ Default = default /\ Routes = {a, default} /\ a # default
  /\ Kind[src] = "source" /\ Kind[proc] = "processor" /\ Kind[rt] = "router"
  /\ Kind[flt] = "filter" /\ Kind[agg] = "aggregator" /\ Kind[err] = "errors" /\ Kind[snk] = "sink"
  /\ \A n \in {src, proc, flt, agg, err} : Wiring[n][a] = <<>>
  /\ Wiring[src][default] = <<proc>> /\ Wiring[proc][default] = <<rt>>
  /\ Wiring[rt][a] = <<flt, agg>> /\ Wiring[rt][default] = <<err>>
  /\ \A n \in {flt, agg, err} : Wiring[n][default] = <<snk>>
  /\ Values \subseteq Passes /\ \A v \in Bad[rt] : RouteOf[v] = default

\* What has come to the sink or lies before it.
Arrived == {[vals |-> i.vals, list |-> i.list] : i \in Held(snk)}
           \cup {collected[i] : i \in 1..Len(collected)}

\* As long as no subscriber was taken away, a pushed value is never lost without
\* a trace: it is counted as dropped, or was in the hand of a task that was
\* cancelled or paused, or it is on its way along both branches of its route, in
\* the aggregator's buffer, or at the sink, once from each branch.
NothingLostSilently ==
  \A i \in 1..pushed :
    LET v == Pushes[i] IN
    \/ cut \/ v \in counted \cup forfeit
    \/ v \in At(src) \cup At(proc) \cup At(rt)
    \/ /\ RouteOf[v] = a
       /\ v \in At(flt) \/ [vals |-> <<v>>, list |-> FALSE] \in Arrived
       /\ \/ v \in At(agg) \/ \E k \in 1..Len(buffer) : buffer[k] = v
          \/ \E it \in Arrived : it.list /\ \E k \in 1..Len(it.vals) : it.vals[k] = v
    \/ /\ RouteOf[v] # a
       /\ v \in At(err) \/ [vals |-> <<v>>, list |-> FALSE] \in Arrived
=============================================================================
