--------------------------- MODULE PipelineProofs ---------------------------
(***************************************************************************)
(* Proofs about Pipeline, for every wiring, every capacity and any number   *)
(* of control operations: types, with the bounds of queues and buffer; that *)
(* a stop which returns has ended every registered node; the order in which *)
(* the sink gets the values; where every value of the source is accounted   *)
(* for; that control operations never wait for each other for good.  Last,  *)
(* for the wiring of MCPipeline, that no value is lost without a trace.     *)
(***************************************************************************)
EXTENDS MCPipeline, FiniteSetTheorems, SequenceTheorems, TLAPS

Phases == {"ended", "get", "process", "put"}
Doings == {"idle", "removing", "joining", "stopping"}

Hand == [item : Item, route : Routes, live : BOOLEAN, kept : Seq(Nodes), at : Nat,
         to : Nodes \cup {NoNode}]
Ctl == [do : Doings, rest : Seq(Nodes), size : Nat, on : Nodes \cup {NoNode}]

\* Items that carry something, one value unless they are a list, what lies in a
\* queue, and what the sink keeps of an item.
Packed == {item \in Item : item.vals # <<>> /\ (item.list \/ Len(item.vals) = 1)}
Taken == {[vals |-> item.vals, list |-> item.list] : item \in Packed}
Queue == {s \in Seq(Packed) : Len(s) <= Capacity}

LEMMA Idles == /\ NoItem \in Item /\ NoItem.vals = <<>>
               /\ EmptyHand \in Hand /\ EmptyHand.item = NoItem /\ EmptyHand.to = NoNode
               /\ IdleCtl \in Ctl /\ IdleCtl.do = "idle" /\ IdleCtl.on = NoNode
<1>1. Default \in Routes /\ <<>> \in Seq(Values) /\ <<>> \in Seq(Nodes)
  BY PipelineAssumption
<1>2. NoItem \in Item /\ NoItem.vals = <<>>
  BY <1>1 DEF NoItem, Item
<1>3. EmptyHand \in Hand /\ EmptyHand.item = NoItem /\ EmptyHand.to = NoNode
  BY <1>1, <1>2 DEF EmptyHand, Hand
<1>4. IdleCtl \in Ctl /\ IdleCtl.do = "idle" /\ IdleCtl.on = NoNode
  BY <1>1 DEF IdleCtl, Ctl, Doings
<1>. QED  BY <1>2, <1>3, <1>4

LEMMA ItemFields ==
  ASSUME NEW item \in Item
  PROVE  /\ item.vals \in Seq(Values) /\ item.route \in Routes
         /\ ValuesOf(item) \subseteq Values
<1>1. item.vals \in Seq(Values) /\ item.route \in Routes
  BY DEF Item
<1>. QED  BY <1>1, ElementOfSeq DEF ValuesOf

LEMMA MarkedPacked ==
  ASSUME NEW item \in Packed
  PROVE  /\ Marked(item) \in Packed /\ Marked(item).vals = item.vals
         /\ Marked(item).list = item.list /\ Marked(item).route = item.route
<1>1. PICK i : i = Marked(item)
  OBVIOUS
<1>2. item \in Item /\ (item.vals # <<>>) /\ (item.list \/ Len(item.vals) = 1)
  BY DEF Packed
<1>3. i \in Item /\ i.vals = item.vals /\ i.list = item.list /\ i.route = item.route
  BY <1>1, <1>2 DEF Marked, Item
<1>. QED  BY <1>1, <1>2, <1>3 DEF Packed

LEMMA HandFields ==
  ASSUME NEW h \in Hand
  PROVE  /\ h.item \in Item /\ h.route \in Routes /\ h.kept \in Seq(Nodes) /\ h.at \in Nat
         /\ h.to \in Nodes \cup {NoNode}
  BY DEF Hand

LEMMA CtlFields ==
  ASSUME NEW k \in Ctl
  PROVE  k.do \in Doings /\ k.rest \in Seq(Nodes) /\ k.size \in Nat /\ k.on \in Nodes \cup {NoNode}
  BY DEF Ctl

-----------------------------------------------------------------------------
(* What the helpers of the model return.                                   *)

\* A finite set of integers that is not empty has a least element.
LEMMA Least ==
  ASSUME NEW S, S \subseteq Int, IsFiniteSet(S), S # {}
  PROVE  \E x \in S : \A y \in S : x <= y
<1> DEFINE Below(x) == {k \in S : k <= x}
           F == {T \in SUBSET S : \E x \in S : T = Below(x)}
<1>1. IsWellFoundedOn(StrictSubsetOrdering(S), SUBSET S)
  BY FS_StrictSubsetOrderingWellFounded, FS_FiniteSubsetsOfFinite
<1>2. F \subseteq SUBSET S
  OBVIOUS
<1>3. F # {}
  <2>1. PICK x \in S : TRUE
    OBVIOUS
  <2>2. Below(x) \in F
    OBVIOUS
  <2>. QED  BY <2>2
<1>4. PICK T \in F : \A U \in F : ~ (<<U, T>> \in StrictSubsetOrdering(S))
  <2> HIDE DEF F
  <2>. QED  BY <1>1, <1>2, <1>3, WFMin
<1>5. PICK x \in S : T = Below(x)
  OBVIOUS
<1>6. ASSUME NEW y \in S, y < x
      PROVE  FALSE
  <2>1. Below(y) \in F
    OBVIOUS
  <2>2. x \in Below(x) /\ x \notin Below(y) /\ Below(y) \subseteq Below(x)
    <3>1. x \in Int /\ y \in Int
      OBVIOUS
    <3>2. x <= x /\ ~ (x <= y)
      BY <1>6, <3>1
    <3>3. \A k \in S : k <= y => k <= x
      BY <1>6, <3>1
    <3>. QED  BY <3>2, <3>3
  <2>3. <<Below(y), T>> \in StrictSubsetOrdering(S)
    BY <1>5, <2>2 DEF StrictSubsetOrdering
  <2>. QED  BY <1>4, <2>1, <2>3
<1>. QED  BY <1>6

\* put() waits at the first full queue, or nowhere.
LEMMA BlockedIsFirst ==
  ASSUME NEW list \in Seq(Nodes), NEW i \in 1..Len(list) + 1, NEW q
  PROVE  /\ Blocked(list, i, q) \in i..Len(list) + 1
         /\ Blocked(list, i, q) = Len(list) + 1 \/ Full(q, list[Blocked(list, i, q)])
         /\ \A k \in i..Blocked(list, i, q) - 1 : ~ Full(q, list[k])
<1> DEFINE S == {j \in i..Len(list) + 1 : j = Len(list) + 1 \/ Full(q, list[j])}
<1>1. Len(list) \in Nat /\ i \in Nat
  BY LenProperties
<1>2. S \subseteq i..Len(list) + 1 /\ IsFiniteSet(i..Len(list) + 1)
  BY <1>1, FS_Interval
<1>3. IsFiniteSet(S) /\ S \subseteq Int
  BY <1>1, <1>2, FS_Subset
<1>4. Len(list) + 1 \in S
  BY <1>1
<1>5. PICK j \in S : \A k \in S : j <= k
  <2> HIDE DEF S
  <2>. QED  BY <1>3, <1>4, Least
<1>6. /\ j \in i..Len(list) + 1
      /\ j = Len(list) + 1 \/ Full(q, list[j])
      /\ \A k \in i..j - 1 : ~ Full(q, list[k])
  BY <1>1, <1>5
<1>. QED  BY <1>6 DEF Blocked

LEMMA WithoutType ==
  ASSUME NEW list \in Seq(Nodes), NEW n
  PROVE  /\ Without(list, n) \in Seq(Nodes) /\ Len(Without(list, n)) <= Len(list)
         /\ \A m : Has(list, m) /\ m # n => Has(Without(list, n), m)
<1>1. Len(list) \in Nat /\ \A k \in 1..Len(list) : list[k] \in Nodes
  BY LenProperties, ElementOfSeq
<1>2. CASE ~ Has(list, n)
  BY <1>1, <1>2 DEF Without
<1>3. CASE Has(list, n)
  <2>1. PICK i : i = CHOOSE k \in 1..Len(list) : list[k] = n
    OBVIOUS
  <2>2. i \in 1..Len(list) /\ list[i] = n
    BY <1>3, <2>1 DEF Has
  <2>3. PICK s : s = [k \in 1..Len(list) - 1 |-> list[IF k < i THEN k ELSE k + 1]]
    OBVIOUS
  <2>4. Without(list, n) = s
    BY <1>3, <2>1, <2>3 DEF Without
  <2>5. \A k \in 1..Len(list) - 1 : s[k] = list[IF k < i THEN k ELSE k + 1]
    BY <2>3
  <2>6. \A k \in 1..Len(list) - 1 : s[k] \in Nodes
    BY <1>1, <2>2, <2>5
  <2>7. Len(list) - 1 \in Nat /\ s \in [1..Len(list) - 1 -> Nodes]
    BY <1>1, <2>2, <2>3, <2>6
  <2>8. s \in Seq(Nodes) /\ Len(s) = Len(list) - 1
    BY <2>7, SeqDef
  <2>9. ASSUME NEW m, Has(list, m), m # n
        PROVE  Has(s, m)
    <3>1. PICK k \in 1..Len(list) : list[k] = m
      BY <2>9 DEF Has
    <3>2. k # i
      BY <2>2, <2>9, <3>1
    <3>3. CASE k < i
      <4>1. k \in 1..Len(list) - 1 /\ s[k] = m
        BY <1>1, <2>2, <2>5, <3>1, <3>3
      <4>. QED  BY <2>8, <4>1 DEF Has
    <3>4. CASE k > i
      <4>1. k - 1 \in 1..Len(list) - 1 /\ ~ (k - 1 < i) /\ (k - 1) + 1 = k
        BY <1>1, <2>2, <3>1, <3>4
      <4>2. s[k - 1] = m
        BY <2>5, <3>1, <4>1
      <4>. QED  BY <2>8, <4>1, <4>2 DEF Has
    <3>. QED  BY <1>1, <2>2, <3>2, <3>3, <3>4
  <2>. QED  BY <1>1, <2>4, <2>8, <2>9
<1>. QED  BY <1>2, <1>3

LEMMA Appended ==
  ASSUME NEW list \in Seq(Nodes), NEW n \in Nodes
  PROVE  /\ Append(list, n) \in Seq(Nodes) /\ Has(Append(list, n), n)
         /\ \A m : Has(list, m) => Has(Append(list, n), m)
<1>1. /\ Append(list, n) \in Seq(Nodes) /\ Len(Append(list, n)) = Len(list) + 1
      /\ Append(list, n)[Len(list) + 1] = n /\ Len(list) \in Nat
      /\ \A k \in 1..Len(list) : Append(list, n)[k] = list[k]
  BY AppendProperties, LenProperties
<1>2. Has(Append(list, n), n)
  BY <1>1 DEF Has
<1>3. ASSUME NEW m, Has(list, m)
      PROVE  Has(Append(list, n), m)
  <2>1. PICK k \in 1..Len(list) : list[k] = m
    BY <1>3 DEF Has
  <2>2. k \in 1..Len(Append(list, n)) /\ Append(list, n)[k] = m
    BY <1>1, <2>1
  <2>. QED  BY <2>2 DEF Has
<1>. QED  BY <1>1, <1>2, <1>3

\* A queue that takes one more item, or gives one.
LEMMA QueueSteps ==
  ASSUME NEW s \in Queue
  PROVE  /\ \A item \in Packed : Len(s) < Capacity => Append(s, item) \in Queue
         /\ s # <<>> => Head(s) \in Packed /\ Tail(s) \in Queue
<1>1. s \in Seq(Packed) /\ Len(s) <= Capacity /\ Len(s) \in Nat /\ Capacity \in Nat
  BY LenProperties, PipelineAssumption DEF Queue
<1>2. ASSUME NEW item \in Packed, Len(s) < Capacity
      PROVE  Append(s, item) \in Queue
  <2>1. Append(s, item) \in Seq(Packed) /\ Len(Append(s, item)) = Len(s) + 1
    BY <1>1, AppendProperties
  <2>. QED  BY <1>1, <1>2, <2>1 DEF Queue
<1>3. ASSUME s # <<>>
      PROVE  Head(s) \in Packed /\ Tail(s) \in Queue
  <2>1. Head(s) \in Packed /\ Tail(s) \in Seq(Packed) /\ Len(Tail(s)) = Len(s) - 1
    BY <1>1, <1>3, HeadTailProperties
  <2>. QED  BY <1>1, <2>1 DEF Queue
<1>. QED  BY <1>2, <1>3

-----------------------------------------------------------------------------
(* Nodes: queues, phases and hands.                                        *)

\* A phase, a hand and whether the node runs, as they go together.
Fits(phase, h, run) ==
  /\ (phase \in {"process", "put"}) <=> (h.item.vals # <<>>)
  /\ h.item.vals # <<>> => h.item \in Packed
  /\ (phase = "put") <=> (h.to # NoNode)
  /\ phase = "get" => run

NodesInv ==
  /\ queue \in [Nodes -> Queue] /\ step \in [Nodes -> Phases] /\ hand \in [Nodes -> Hand]
  /\ running \in [Nodes -> BOOLEAN]
  /\ \A n \in Nodes : Fits(step[n], hand[n], running[n])

\* The aggregator's buffer, and what is counted of the values.
ValuesInv == /\ buffer \in Seq(Values) /\ Len(buffer) < Window /\ collected \in Seq(Taken)
             /\ counted \cup forfeit \cup edited \subseteq Values

WiresInv == subs \in [Nodes -> [Routes -> Seq(Nodes)]]

ControlInv ==
  /\ registered \in Seq(Nodes) /\ active \in [Nodes -> BOOLEAN]
  /\ {up, signals, cut} \subseteq BOOLEAN
  /\ ctl \in [Controllers -> Ctl] /\ pushed \in Nat

TypeInv == NodesInv /\ ValuesInv /\ WiresInv /\ ControlInv

\* Emitting keeps queues within their capacity, and leaves the emitter waiting
\* with the item in its hand, or done with an empty hand.
LEMMA EmitFromType ==
  ASSUME NodesInv, NEW n \in Nodes, NEW h \in Hand, h.item \in Packed, NEW list \in Seq(Nodes),
         NEW i \in Nat \ {0}, NEW q \in [Nodes -> Queue], EmitFrom(n, h, list, i, q),
         running' \in [Nodes -> BOOLEAN], \A m \in Nodes \ {n} : running'[m] = running[m]
  PROVE  NodesInv'
<1>1. PICK j : j = IF i > Len(list) THEN Len(list) + 1 ELSE Blocked(list, i, q)
  OBVIOUS
<1>2. Len(list) \in Nat /\ \A k \in 1..Len(list) : list[k] \in Nodes
  BY LenProperties, ElementOfSeq
<1>3. /\ j \in 1..Len(list) + 1
      /\ \A k \in i..j - 1 : k \in 1..Len(list)
  <2>1. CASE i > Len(list)
    BY <1>1, <1>2, <2>1
  <2>2. CASE ~ (i > Len(list))
    <3>1. i \in 1..Len(list) + 1
      BY <1>2, <2>2
    <3>2. j \in i..Len(list) + 1
      BY <1>1, <2>2, <3>1, BlockedIsFirst
    <3>. QED  BY <1>2, <3>1, <3>2
  <2>. QED  BY <2>1, <2>2
<1>4. PICK reached : reached = {list[k] : k \in i..j - 1}
  OBVIOUS
<1>5. queue' = [m \in Nodes |-> IF m \in reached /\ ~ Full(q, m) THEN Append(q[m], h.item)
                                ELSE q[m]]
  BY <1>1, <1>4 DEF EmitFrom
<1>6. queue' \in [Nodes -> Queue]
  <2>1. ASSUME NEW m \in Nodes
        PROVE  (IF m \in reached /\ ~ Full(q, m) THEN Append(q[m], h.item) ELSE q[m]) \in Queue
    <3>1. q[m] \in Queue /\ Len(q[m]) \in Nat /\ Capacity \in Nat
      BY LenProperties, PipelineAssumption DEF Queue
    <3>2. ~ Full(q, m) => Len(q[m]) < Capacity
      BY <3>1 DEF Full
    <3>. QED  BY <3>1, <3>2, QueueSteps
  <2>. QED  BY <1>5, <2>1
<1>7. CASE j <= Len(list)
  <2>1. PICK k : k = [h EXCEPT !.at = j, !.to = list[j]]
    OBVIOUS
  <2>2. list[j] \in Nodes /\ list[j] # NoNode /\ j \in Nat
    BY <1>2, <1>3, <1>7, PipelineAssumption
  <2>3. k \in Hand /\ k.item = h.item /\ k.to = list[j]
    BY <2>1, <2>2 DEF Hand
  <2>4. hand' = [hand EXCEPT ![n] = k] /\ step' = [step EXCEPT ![n] = "put"]
    BY <1>1, <1>7, <2>1 DEF EmitFrom
  <2>5. hand' \in [Nodes -> Hand] /\ step' \in [Nodes -> Phases]
    BY <2>3, <2>4 DEF NodesInv, Phases
  <2>6. Fits(step'[n], hand'[n], running'[n])
    BY <2>2, <2>3, <2>4 DEF NodesInv, Fits, Packed
  <2>7. \A m \in Nodes \ {n} : Fits(step'[m], hand'[m], running'[m])
    BY <2>4 DEF NodesInv
  <2>. QED  BY <1>6, <2>5, <2>6, <2>7 DEF NodesInv
<1>8. CASE ~ (j <= Len(list))
  <2>1. PICK phase : phase = IF running'[n] THEN "get" ELSE "ended"
    OBVIOUS
  <2>2. hand' = [hand EXCEPT ![n] = EmptyHand] /\ step' = [step EXCEPT ![n] = phase]
    BY <1>1, <1>8, <2>1 DEF EmitFrom
  <2>3. hand' \in [Nodes -> Hand] /\ step' \in [Nodes -> Phases]
    BY <2>1, <2>2, Idles DEF NodesInv, Phases
  <2>4. Fits(step'[n], hand'[n], running'[n])
    BY <2>1, <2>2, Idles DEF NodesInv, Fits
  <2>5. \A m \in Nodes \ {n} : Fits(step'[m], hand'[m], running'[m])
    BY <2>2 DEF NodesInv
  <2>. QED  BY <1>6, <2>3, <2>4, <2>5 DEF NodesInv
<1>. QED  BY <1>7, <1>8

LEMMA EmitType ==
  ASSUME NodesInv, WiresInv, NEW n \in Nodes, NEW item \in Packed,
         NEW q \in [Nodes -> Queue], Emit(n, item, q),
         running' \in [Nodes -> BOOLEAN], \A m \in Nodes \ {n} : running'[m] = running[m]
  PROVE  NodesInv'
<1>1. PICK route : route = ListFor(n, item.route)
  OBVIOUS
<1>2. item \in Item /\ item.route \in Routes
  BY ItemFields DEF Packed
<1>3. route \in Routes
  BY <1>1, <1>2, PipelineAssumption DEF ListFor
<1>4. subs[n][route] \in Seq(Nodes)
  BY <1>3 DEF WiresInv
<1>5. PICK h : h = [EmptyHand EXCEPT !.item = item, !.route = route]
  OBVIOUS
<1>6. h \in Hand /\ h.item = item
  BY <1>2, <1>3, <1>5, Idles DEF Hand
<1>7. EmitFrom(n, h, subs[n][route], 1, q)
  BY <1>1, <1>5 DEF Emit
<1>. QED  BY <1>4, <1>6, <1>7, EmitFromType

LEMMA DoneType ==
  ASSUME NodesInv, NEW n \in Nodes, NEW q \in [Nodes -> Queue], Done(n, q),
         running' \in [Nodes -> BOOLEAN], \A m \in Nodes \ {n} : running'[m] = running[m]
  PROVE  NodesInv'
<1>1. Len(<<>>) = 0 /\ ~ (1 <= 0)
  BY EmptySeq
<1>2. PICK phase : phase = IF running'[n] THEN "get" ELSE "ended"
  OBVIOUS
<1>3. /\ hand' = [hand EXCEPT ![n] = EmptyHand] /\ step' = [step EXCEPT ![n] = phase]
      /\ queue' = [m \in Nodes |-> IF m \in {<<>>[k] : k \in 1..0 + 1 - 1} /\ ~ Full(q, m)
                                   THEN Append(q[m], EmptyHand.item) ELSE q[m]]
  BY <1>1, <1>2 DEF Done, EmitFrom
<1>4. queue' = q
  <2>1. 1..0 + 1 - 1 = {}
    OBVIOUS
  <2>2. queue' = [m \in Nodes |-> q[m]]
    BY <1>3, <2>1
  <2>. QED  BY <2>2
<1>5. hand' \in [Nodes -> Hand] /\ step' \in [Nodes -> Phases]
  BY <1>2, <1>3, Idles DEF NodesInv, Phases
<1>6. Fits(step'[n], hand'[n], running'[n])
  BY <1>2, <1>3, Idles DEF NodesInv, Fits
<1>7. \A m \in Nodes \ {n} : Fits(step'[m], hand'[m], running'[m])
  BY <1>3 DEF NodesInv
<1>. QED  BY <1>4, <1>5, <1>6, <1>7 DEF NodesInv

\* The list an aggregator emits: what it had, and the item.
LEMMA Gathered ==
  ASSUME ValuesInv, NEW item \in Packed
  PROVE  /\ buffer \o item.vals \in Seq(Values) /\ Len(buffer \o item.vals) \in Nat
         /\ ListOf(item, buffer \o item.vals) \in Packed
<1>1. item \in Item /\ item.vals \in Seq(Values) /\ item.vals # <<>>
  BY ItemFields DEF Packed
<1>2. buffer \in Seq(Values)
  BY DEF ValuesInv
<1>3. PICK all : all = buffer \o item.vals
  OBVIOUS
<1>4. all \in Seq(Values) /\ Len(all) \in Nat
  BY <1>1, <1>2, <1>3, ConcatProperties, LenProperties
<1>5. all # <<>>
  BY <1>1, <1>2, <1>3, ConcatEqualIffEmpty
<1>6. PICK whole : whole = ListOf(item, all)
  OBVIOUS
<1>7. whole \in Item /\ whole.vals = all /\ whole.list = TRUE
  BY <1>1, <1>4, <1>6 DEF ListOf, Item
<1>. QED  BY <1>3, <1>4, <1>5, <1>6, <1>7 DEF Packed

LEMMA AggregatedType ==
  ASSUME NodesInv, WiresInv, ValuesInv, NEW n \in Nodes, NEW item \in Packed,
         NEW q \in [Nodes -> Queue], Aggregated(n, item, q),
         running' \in [Nodes -> BOOLEAN], \A m \in Nodes \ {n} : running'[m] = running[m]
  PROVE  NodesInv' /\ buffer' \in Seq(Values) /\ Len(buffer') < Window
<1>1. PICK all, whole : all = buffer \o item.vals /\ whole = ListOf(item, all)
  OBVIOUS
<1>2. all \in Seq(Values) /\ whole \in Packed
  BY <1>1, Gathered
<1>3. CASE buffer' = <<>> /\ Emit(n, whole, q)
  <2>1. <<>> \in Seq(Values) /\ Len(<<>>) = 0 /\ 0 < Window
    BY EmptySeq, PipelineAssumption
  <2>. QED  BY <1>2, <1>3, <2>1, EmitType
<1>4. CASE Len(all) < Window /\ buffer' = all /\ Done(n, q)
  BY <1>2, <1>4, DoneType
<1>. QED  BY <1>1, <1>3, <1>4 DEF Aggregated

LEMMA ProcessType ==
  ASSUME NodesInv, WiresInv, ValuesInv, NEW n \in Nodes, NEW item \in Packed,
         NEW q \in [Nodes -> Queue], Process(n, item, q),
         running' \in [Nodes -> BOOLEAN], \A m \in Nodes \ {n} : running'[m] = running[m]
  PROVE  /\ NodesInv' /\ buffer' \in Seq(Values) /\ Len(buffer') < Window
         /\ collected' \in Seq(Taken)
<1>0. buffer \in Seq(Values) /\ Len(buffer) < Window /\ collected \in Seq(Taken)
  BY DEF ValuesInv
<1>1. CASE Emit(n, item, q) /\ UNCHANGED <<buffer, collected>>
  BY <1>0, <1>1, EmitType
<1>2. CASE /\ collected' = Append(collected, [vals |-> item.vals, list |-> item.list])
           /\ Done(n, q) /\ UNCHANGED buffer
  <2>1. PICK taken : taken = [vals |-> item.vals, list |-> item.list]
    OBVIOUS
  <2>2. collected' \in Seq(Taken)
    BY <1>0, <1>2, <2>1, AppendProperties DEF Taken
  <2>. QED  BY <1>0, <1>2, <2>2, DoneType
<1>5. CASE Done(n, q) /\ UNCHANGED <<buffer, collected>>
  BY <1>0, <1>5, DoneType
<1>3. CASE /\ Emit(n, [item EXCEPT !.route = RouteOf[item.vals[1]]], q)
           /\ UNCHANGED <<buffer, collected>>
  <2>1. item \in Item /\ item.vals \in Seq(Values) /\ item.vals # <<>>
    BY ItemFields DEF Packed
  <2>2. 1 \in 1..Len(item.vals)
    BY <2>1, EmptySeq
  <2>3. item.vals[1] \in Values
    BY <2>1, <2>2, ElementOfSeq
  <2>4. PICK r : r = RouteOf[item.vals[1]]
    OBVIOUS
  <2>5. r \in Routes
    BY <2>3, <2>4, PipelineAssumption
  <2>6. PICK routed : routed = [item EXCEPT !.route = r]
    OBVIOUS
  <2>7. routed \in Item /\ routed.vals = item.vals /\ routed.list = item.list
    BY <2>1, <2>5, <2>6 DEF Item
  <2>8. routed \in Packed
    BY <2>7 DEF Packed
  <2>9. Emit(n, routed, q)
    BY <1>3, <2>4, <2>6
  <2>. QED  BY <1>0, <1>3, <2>8, <2>9, EmitType
<1>4. CASE Aggregated(n, item, q) /\ UNCHANGED collected
  BY <1>0, <1>4, AggregatedType
<1>6. CASE Emit(n, Marked(item), q) /\ UNCHANGED <<buffer, collected>>
  <2>1. PICK marked : marked = Marked(item)
    OBVIOUS
  <2>2. marked \in Packed
    BY <2>1, MarkedPacked
  <2>. QED  BY <1>0, <1>6, <2>1, <2>2, EmitType
<1>. QED  BY <1>1, <1>2, <1>3, <1>4, <1>5, <1>6 DEF Process

\* Taking the next item, whether the node goes on running or not.
LEMMA HandleType ==
  ASSUME NodesInv, WiresInv, ValuesInv, NEW n \in Nodes, Handle(n),
         running' \in [Nodes -> BOOLEAN], \A m \in Nodes \ {n} : running'[m] = running[m]
  PROVE  /\ NodesInv' /\ buffer' \in Seq(Values) /\ Len(buffer') < Window
         /\ collected' \in Seq(Taken) /\ counted' \subseteq Values
<1>1. PICK item, rest : item = Head(queue[n]) /\ rest = [queue EXCEPT ![n] = Tail(@)]
  OBVIOUS
<1>2. queue \in [Nodes -> Queue] /\ queue[n] # <<>>
  BY DEF NodesInv, Handle, MayTake
<1>3. item \in Packed /\ rest \in [Nodes -> Queue]
  BY <1>1, <1>2, QueueSteps
<1>4. ValuesOf(item) \subseteq Values /\ counted \subseteq Values
  BY <1>3, ItemFields DEF Packed, ValuesInv
<1>5. CASE counted' = counted \cup ValuesOf(item) /\ Done(n, rest) /\ UNCHANGED <<buffer, collected>>
  BY <1>3, <1>4, <1>5, DoneType DEF ValuesInv
<1>6. CASE /\ step' = [step EXCEPT ![n] = "process"]
           /\ hand' = [hand EXCEPT ![n] = [EmptyHand EXCEPT !.item = item]]
           /\ queue' = rest /\ UNCHANGED <<buffer, collected, counted>>
  <2>1. PICK h : h = [EmptyHand EXCEPT !.item = item]
    OBVIOUS
  <2>2. h \in Hand /\ h.item = item /\ h.to = NoNode
    BY <1>3, <2>1, Idles DEF Hand, Packed
  <2>3. hand' \in [Nodes -> Hand] /\ step' \in [Nodes -> Phases]
    BY <1>6, <2>1, <2>2 DEF NodesInv, Phases
  <2>4. Fits(step'[n], hand'[n], running'[n])
    BY <1>3, <1>6, <2>1, <2>2 DEF NodesInv, Fits, Packed
  <2>5. \A m \in Nodes \ {n} : Fits(step'[m], hand'[m], running'[m])
    BY <1>6 DEF NodesInv
  <2>6. NodesInv'
    BY <1>3, <1>6, <2>3, <2>4, <2>5 DEF NodesInv
  <2>. QED  BY <1>4, <1>6, <2>6 DEF ValuesInv
<1>7. CASE Process(n, item, rest) /\ UNCHANGED counted
  BY <1>3, <1>4, <1>7, ProcessType
<1>. QED  BY <1>1, <1>5, <1>6, <1>7 DEF Handle, MayTake

LEMMA TakeType ==
  ASSUME TypeInv, NEW n \in Nodes, Take(n)
  PROVE  TypeInv'
<1>1. /\ NodesInv' /\ buffer' \in Seq(Values) /\ Len(buffer') < Window
      /\ collected' \in Seq(Taken) /\ counted' \subseteq Values
  BY HandleType DEF TypeInv, Take, NodesInv
<1>. QED  BY <1>1 DEF Take, TypeInv, ValuesInv, WiresInv, ControlInv, wireVars

LEMMA FinishType ==
  ASSUME TypeInv, NEW n \in Nodes, Finish(n)
  PROVE  TypeInv'
<1>1. PICK item : item = hand[n].item
  OBVIOUS
<1>2. item \in Packed
  BY <1>1 DEF Finish, TypeInv, NodesInv, Fits, Hand, Packed
<1>3. PICK marked : marked = Marked(item)
  OBVIOUS
<1>4. marked \in Packed
  BY <1>2, <1>3 DEF Marked, Packed, Item
<1>5. queue \in [Nodes -> Queue] /\ running' \in [Nodes -> BOOLEAN] /\ running' = running
  BY DEF Finish, TypeInv, NodesInv
<1>6. NodesInv'
  <2>1. ASSUME NEW result \in Packed, Emit(n, result, queue)
        PROVE  NodesInv'
    BY <1>5, <2>1, EmitType DEF TypeInv
  <2>2. CASE Done(n, queue)
    BY <1>5, <2>2, DoneType DEF TypeInv
  <2>. QED  BY <1>1, <1>2, <1>3, <1>4, <2>1, <2>2 DEF Finish
<1>7. forfeit' \subseteq Values
  BY <1>1, <1>2, ItemFields DEF Finish, TypeInv, ValuesInv, Packed
<1>. QED  BY <1>6, <1>7 DEF Finish, TypeInv, ValuesInv, WiresInv, ControlInv, wireVars

LEMMA UnblockType ==
  ASSUME TypeInv, NEW n \in Nodes, Unblock(n)
  PROVE  TypeInv'
<1>1. PICK h, list : h = hand[n] /\ list = IF h.live THEN subs[n][h.route] ELSE h.kept
  OBVIOUS
<1>2. h \in Hand /\ h.item \in Packed /\ h.to \in Nodes
  BY <1>1 DEF Unblock, MayPut, TypeInv, NodesInv, Fits, Hand, Packed
<1>3. list \in Seq(Nodes) /\ h.at + 1 \in Nat \ {0}
  BY <1>1, <1>2, HandFields DEF TypeInv, WiresInv
<1>4. PICK q : q = [queue EXCEPT ![h.to] = Append(@, h.item)]
  OBVIOUS
<1>5. queue \in [Nodes -> Queue] /\ ~ Full(queue, h.to)
  BY <1>1 DEF Unblock, MayPut, TypeInv, NodesInv
<1>6. queue[h.to] \in Queue /\ Len(queue[h.to]) < Capacity
  <2>1. queue[h.to] \in Queue
    BY <1>2, <1>5
  <2>2. Len(queue[h.to]) \in Nat /\ Capacity \in Nat
    BY <2>1, LenProperties, PipelineAssumption DEF Queue
  <2>. QED  BY <1>5, <2>1, <2>2 DEF Full
<1>7. q \in [Nodes -> Queue]
  BY <1>2, <1>4, <1>5, <1>6, QueueSteps
<1>8. EmitFrom(n, h, list, h.at + 1, q)
  BY <1>1, <1>4 DEF Unblock, MayPut
<1>9. NodesInv'
  BY <1>2, <1>3, <1>7, <1>8, EmitFromType DEF Unblock, MayPut, TypeInv, NodesInv
<1>. QED  BY <1>9 DEF Unblock, MayPut, TypeInv, ValuesInv, WiresInv, ControlInv, wireVars

LEMMA PushType ==
  ASSUME TypeInv, Push
  PROVE  TypeInv'
<1>1. PICK v : v = Pushes[pushed + 1]
  OBVIOUS
<1>2. v \in Values /\ pushed' \in Nat
  <2>1. Len(Pushes) \in Nat /\ pushed \in Nat /\ pushed < Len(Pushes) /\ pushed' = pushed + 1
    BY PipelineAssumption, LenProperties DEF Push, TypeInv, ControlInv
  <2>2. pushed + 1 \in 1..Len(Pushes)
    BY <2>1
  <2>. QED  BY <1>1, <2>1, <2>2 DEF Values
<1>3. CASE counted' = counted \cup {v} /\ UNCHANGED queue
  <2>1. NodesInv'
    BY <1>3 DEF Push, TypeInv, NodesInv, wireVars
  <2>. QED  BY <1>2, <1>3, <2>1 DEF Push, TypeInv, ValuesInv, WiresInv, ControlInv, wireVars
<1>4. ASSUME ~ Full(queue, Source), UNCHANGED counted,
             queue' = [queue EXCEPT ![Source] =
               Append(@, [vals |-> <<v>>, list |-> FALSE, route |-> Default, err |-> FALSE])]
      PROVE  TypeInv'
  <2>1. PICK item : item = [vals |-> <<v>>, list |-> FALSE, route |-> Default, err |-> FALSE]
    OBVIOUS
  <2>2. <<v>> \in Seq(Values) /\ <<v>> # <<>>
    BY <1>2
  <2>3. item \in Packed
    BY <2>1, <2>2, PipelineAssumption DEF Packed, Item
  <2>4. Source \in Nodes /\ queue \in [Nodes -> Queue]
    BY PipelineAssumption DEF TypeInv, NodesInv
  <2>5. queue[Source] \in Queue /\ Len(queue[Source]) < Capacity
    <3>1. Len(queue[Source]) \in Nat /\ Capacity \in Nat
      BY <2>4, LenProperties, PipelineAssumption DEF Queue
    <3>. QED  BY <1>4, <2>4, <3>1 DEF Full
  <2>6. Append(queue[Source], item) \in Queue
    BY <2>3, <2>5, QueueSteps
  <2>7. queue' \in [Nodes -> Queue]
    BY <1>4, <2>1, <2>4, <2>6
  <2>8. NodesInv'
    BY <2>7 DEF Push, TypeInv, NodesInv
  <2>. QED  BY <1>2, <1>4, <2>8 DEF Push, TypeInv, ValuesInv, WiresInv, ControlInv, wireVars
<1>. QED  BY <1>1, <1>3, <1>4 DEF Push

-----------------------------------------------------------------------------
(* Controllers.                                                            *)

\* Edited wires, and hands that lost their list.
LEMMA RewireType ==
  ASSUME TypeInv, NEW new \in [Nodes -> [Routes -> Seq(Nodes)]], NEW whole \in BOOLEAN,
         Rewire(new, whole), UNCHANGED <<queue, step, running>>
  PROVE  NodesInv' /\ WiresInv' /\ edited' \subseteq Values /\ cut' \in BOOLEAN
<1> DEFINE changed(m) == step[m] = "put" /\ hand[m].live
                            /\ new[m][hand[m].route] # subs[m][hand[m].route]
           Lost(m) == [hand[m] EXCEPT !.live = FALSE,
                         !.kept = IF whole THEN subs[m][hand[m].route] ELSE <<>>]
<1>1. subs' = new /\ cut' \in BOOLEAN
  BY DEF Rewire, TypeInv, ControlInv
<1>2. edited' \subseteq Values
  <2>1. edited' = edited \cup UNION {ValuesOf(hand[m].item) : m \in {k \in Nodes : changed(k)}}
    BY DEF Rewire
  <2>2. \A m \in Nodes : ValuesOf(hand[m].item) \subseteq Values
    BY HandFields, ItemFields DEF TypeInv, NodesInv
  <2> HIDE DEF changed
  <2>3. edited \subseteq Values
    BY DEF TypeInv, ValuesInv
  <2>. QED  BY <2>1, <2>2, <2>3
<1>3. hand' = [m \in Nodes |->
         IF changed(m) /\ new[m][hand[m].route] = <<>> THEN Lost(m) ELSE hand[m]]
  BY DEF Rewire
<1>4. ASSUME NEW m \in Nodes
      PROVE  /\ Lost(m) \in Hand /\ Lost(m).item = hand[m].item /\ Lost(m).to = hand[m].to
             /\ hand[m] \in Hand
  <2>1. PICK h : h = hand[m]
    OBVIOUS
  <2>2. h \in Hand
    BY <2>1 DEF TypeInv, NodesInv
  <2>3. subs[m][h.route] \in Seq(Nodes) /\ <<>> \in Seq(Nodes)
    BY <2>2, HandFields DEF TypeInv, WiresInv
  <2>4. PICK kept : kept = IF whole THEN subs[m][h.route] ELSE <<>>
    OBVIOUS
  <2>5. kept \in Seq(Nodes)
    BY <2>3, <2>4
  <2>6. PICK k : k = [h EXCEPT !.live = FALSE, !.kept = kept]
    OBVIOUS
  <2>7. k \in Hand /\ k.item = h.item /\ k.to = h.to
    BY <2>2, <2>5, <2>6 DEF Hand
  <2>. QED  BY <2>1, <2>2, <2>4, <2>6, <2>7
<1> HIDE DEF changed, Lost
<1>5. /\ hand' \in [Nodes -> Hand]
      /\ \A m \in Nodes : hand'[m].item = hand[m].item /\ hand'[m].to = hand[m].to
  BY <1>3, <1>4
<1>6. NodesInv'
  BY <1>5 DEF TypeInv, NodesInv, Fits
<1>. QED  BY <1>1, <1>2, <1>6 DEF WiresInv

\* One subscriber list is replaced.
LEMMA OneListType ==
  ASSUME WiresInv, NEW e \in Edges, NEW list \in Seq(Nodes)
  PROVE  [subs EXCEPT ![e[1]][e[3]] = list] \in [Nodes -> [Routes -> Seq(Nodes)]]
<1>1. e[1] \in Nodes /\ e[2] \in Nodes /\ e[3] \in Routes
  BY PipelineAssumption
<1>. QED  BY <1>1 DEF WiresInv

LEMMA SignalDoneType ==
  ASSUME ControlInv, NEW c, SignalDone(c)
  PROVE  signals' \in BOOLEAN
  BY DEF SignalDone, ControlInv

LEMMA ConnectType ==
  ASSUME TypeInv, NEW c \in Controllers, NEW e \in Edges, Connect(c, e)
  PROVE  TypeInv'
<1>1. e[1] \in Nodes /\ e[2] \in Nodes /\ e[3] \in Routes /\ subs[e[1]][e[3]] \in Seq(Nodes)
  BY PipelineAssumption DEF TypeInv, WiresInv
<1>2. PICK list : list = IF Has(subs[e[1]][e[3]], e[2]) THEN subs[e[1]][e[3]]
                         ELSE Append(subs[e[1]][e[3]], e[2])
  OBVIOUS
<1>3. list \in Seq(Nodes)
  BY <1>1, <1>2, Appended
<1>4. PICK new : new = [subs EXCEPT ![e[1]][e[3]] = list]
  OBVIOUS
<1>5. new \in [Nodes -> [Routes -> Seq(Nodes)]]
  BY <1>3, <1>4, OneListType DEF TypeInv
<1>6. Rewire(new, FALSE)
  <2>1. new = [subs EXCEPT ![e[1]][e[3]] = IF Has(@, e[2]) THEN @ ELSE Append(@, e[2])]
    BY <1>1, <1>2, <1>4 DEF TypeInv, WiresInv
  <2>. QED  BY <2>1 DEF Connect
<1>7. NodesInv' /\ WiresInv' /\ edited' \subseteq Values /\ cut' \in BOOLEAN
  BY <1>5, <1>6, RewireType DEF Connect
<1>8. signals' \in BOOLEAN
  BY SignalDoneType DEF Connect, TypeInv
<1>. QED  BY <1>7, <1>8 DEF Connect, TypeInv, ValuesInv, ControlInv

LEMMA DisconnectType ==
  ASSUME TypeInv, NEW e \in Edges, Disconnect(e)
  PROVE  TypeInv'
<1>1. e[1] \in Nodes /\ e[3] \in Routes /\ subs[e[1]][e[3]] \in Seq(Nodes)
  BY PipelineAssumption DEF TypeInv, WiresInv
<1>2. PICK list : list = IF Registered(e[2]) THEN Without(subs[e[1]][e[3]], e[2]) ELSE <<>>
  OBVIOUS
<1>3. list \in Seq(Nodes)
  BY <1>1, <1>2, WithoutType
<1>4. PICK new : new = [subs EXCEPT ![e[1]][e[3]] = list]
  OBVIOUS
<1>5. new \in [Nodes -> [Routes -> Seq(Nodes)]]
  BY <1>3, <1>4, OneListType DEF TypeInv
<1>6. Rewire(new, FALSE) \/ Rewire(new, TRUE)
  <2>1. CASE Registered(e[2])
    <3>1. new = [subs EXCEPT ![e[1]][e[3]] = Without(@, e[2])]
      BY <1>1, <1>2, <1>4, <2>1 DEF TypeInv, WiresInv
    <3>. QED  BY <2>1, <3>1 DEF Disconnect
  <2>2. CASE ~ Registered(e[2])
    BY <1>2, <1>4, <2>2 DEF Disconnect
  <2>. QED  BY <2>1, <2>2
<1>7. NodesInv' /\ WiresInv' /\ edited' \subseteq Values /\ cut' \in BOOLEAN
  BY <1>5, <1>6, RewireType DEF Disconnect
<1>. QED  BY <1>7 DEF Disconnect, TypeInv, ValuesInv, ControlInv

LEMMA SetActiveType ==
  ASSUME TypeInv, NEW c \in Controllers, NEW n \in Nodes, SetActive(c, n)
  PROVE  TypeInv'
<1>1. active' \in [Nodes -> BOOLEAN] /\ signals' \in BOOLEAN
  BY SignalDoneType DEF SetActive, TypeInv, ControlInv
<1>. QED  BY <1>1 DEF SetActive, TypeInv, NodesInv, ValuesInv, WiresInv, ControlInv, nodeVars, wireVars

\* Nodes that were ended and now run wait for an item.
LEMMA StartedType ==
  ASSUME NodesInv, NEW S \in SUBSET Nodes, \A n \in S : running'[n] = TRUE,
         running' \in [Nodes -> BOOLEAN], \A n \in Nodes : running[n] => running'[n],
         step' = [n \in Nodes |-> IF n \in S /\ step[n] = "ended" THEN "get" ELSE step[n]],
         UNCHANGED <<queue, hand>>
  PROVE  NodesInv'
<1>1. step' \in [Nodes -> Phases]
  BY DEF NodesInv, Phases
<1>2. \A n \in Nodes : Fits(step'[n], hand'[n], running'[n])
  BY DEF NodesInv, Fits
<1>. QED  BY <1>1, <1>2 DEF NodesInv

LEMMA RegisterType ==
  ASSUME TypeInv, NEW c \in Controllers, NEW n \in Nodes, Register(c, n)
  PROVE  TypeInv'
<1>1. registered' \in Seq(Nodes) /\ signals' \in BOOLEAN
  BY Appended, SignalDoneType DEF Register, TypeInv, ControlInv
<1>2. NodesInv'
  <2>1. CASE UNCHANGED <<running, step>>
    BY <2>1 DEF Register, TypeInv, NodesInv
  <2>2. CASE /\ running' = [running EXCEPT ![n] = TRUE]
             /\ step' = [step EXCEPT ![n] = IF @ = "ended" THEN "get" ELSE @]
    <3>0. PICK S \in SUBSET Nodes : S = {n}
      OBVIOUS
    <3>1. /\ \A m \in S : running'[m] = TRUE
          /\ running' \in [Nodes -> BOOLEAN] /\ \A m \in Nodes : running[m] => running'[m]
      BY <2>2, <3>0 DEF TypeInv, NodesInv
    <3>2. step' = [m \in Nodes |-> IF m \in S /\ step[m] = "ended" THEN "get" ELSE step[m]]
      BY <2>2, <3>0 DEF TypeInv, NodesInv
    <3>3. NodesInv /\ UNCHANGED <<queue, hand>>
      BY DEF Register, TypeInv
    <3>. QED  BY <3>1, <3>2, <3>3, StartedType
  <2>. QED  BY <2>1, <2>2 DEF Register
<1>. QED  BY <1>1, <1>2 DEF Register, TypeInv, ValuesInv, WiresInv, ControlInv, wireVars

LEMMA StartType ==
  ASSUME TypeInv, Start
  PROVE  TypeInv'
<1>1. PICK S : S = {n \in Nodes : Registered(n) /\ step[n] = "ended"}
  OBVIOUS
<1>2. step' = [n \in Nodes |-> IF n \in S /\ step[n] = "ended" THEN "get" ELSE step[n]]
  BY <1>1 DEF Start
<1>3. /\ \A n \in S : running'[n] = TRUE
      /\ running' \in [Nodes -> BOOLEAN] /\ \A n \in Nodes : running[n] => running'[n]
  BY <1>1 DEF Start, TypeInv, NodesInv
<1>4. NodesInv'
  BY <1>1, <1>2, <1>3, StartedType DEF Start, TypeInv
<1>. QED  BY <1>4 DEF Start, TypeInv, ValuesInv, WiresInv, ControlInv, wireVars

LEMMA CancelledType ==
  ASSUME TypeInv, NEW n \in Nodes, Cancelled(n), running' \in [Nodes -> BOOLEAN],
         \A m \in Nodes \ {n} : running'[m] = running[m]
  PROVE  NodesInv' /\ forfeit' \subseteq Values /\ UNCHANGED <<buffer, collected, counted>>
<1>1. hand' \in [Nodes -> Hand] /\ step' \in [Nodes -> Phases]
  BY Idles DEF Cancelled, TypeInv, NodesInv, Phases
<1>2. Fits(step'[n], hand'[n], running'[n])
  BY Idles DEF Cancelled, TypeInv, NodesInv, Fits
<1>3. \A m \in Nodes \ {n} : Fits(step'[m], hand'[m], running'[m])
  BY DEF Cancelled, TypeInv, NodesInv
<1>4. NodesInv'
  BY <1>1, <1>2, <1>3 DEF Cancelled, TypeInv, NodesInv
<1>5. ValuesOf(hand[n].item) \subseteq Values
  BY HandFields, ItemFields DEF TypeInv, NodesInv
<1>. QED  BY <1>4, <1>5 DEF Cancelled, TypeInv, ValuesInv

LEMMA StopNodeType ==
  ASSUME TypeInv, NEW n \in Nodes, StopNode(n), UNCHANGED edited
  PROVE  NodesInv' /\ ValuesInv'
<1>1. /\ running' \in [Nodes -> BOOLEAN] /\ \A m \in Nodes \ {n} : running'[m] = running[m]
  BY DEF StopNode, TypeInv, NodesInv
<1>2. CASE Cancelled(n)
  BY <1>1, <1>2, CancelledType DEF TypeInv, ValuesInv
<1>3. CASE Handle(n) /\ UNCHANGED forfeit
  BY <1>1, <1>3, HandleType DEF TypeInv, ValuesInv
<1>. QED  BY <1>2, <1>3 DEF StopNode

LEMMA RemoveType ==
  ASSUME TypeInv, NEW c \in Controllers, NEW n \in Nodes, Remove(c, n)
  PROVE  TypeInv'
<1>1. NodesInv' /\ ValuesInv'
  BY StopNodeType DEF Remove, wireVars
<1>2. PICK k : k = [IdleCtl EXCEPT !.do = "removing", !.on = n]
  OBVIOUS
<1>3. k \in Ctl
  BY <1>2, Idles DEF Ctl, Doings
<1>4. ctl' \in [Controllers -> Ctl]
  BY <1>2, <1>3 DEF Remove, TypeInv, ControlInv
<1>. QED  BY <1>1, <1>4 DEF Remove, TypeInv, WiresInv, ControlInv, wireVars

LEMMA RemovedType ==
  ASSUME TypeInv, NEW c \in Controllers, Removed(c)
  PROVE  TypeInv'
<1>1. PICK n, new : /\ n = ctl[c].on
                    /\ new = [m \in Nodes |-> [r \in Routes |->
                         IF Registered(m) THEN Without(subs[m][r], n) ELSE subs[m][r]]]
  OBVIOUS
<1>2. new \in [Nodes -> [Routes -> Seq(Nodes)]]
  <2>1. ASSUME NEW m \in Nodes, NEW r \in Routes
        PROVE  (IF Registered(m) THEN Without(subs[m][r], n) ELSE subs[m][r]) \in Seq(Nodes)
    BY WithoutType DEF TypeInv, WiresInv
  <2>. QED  BY <1>1, <2>1
<1>3. Rewire(new, FALSE)
  BY <1>1 DEF Removed
<1>4. NodesInv' /\ WiresInv' /\ edited' \subseteq Values /\ cut' \in BOOLEAN
  BY <1>2, <1>3, RewireType DEF Removed
<1>5. ctl' \in [Controllers -> Ctl]
  BY Idles DEF Removed, TypeInv, ControlInv
<1>6. registered' \in Seq(Nodes) /\ signals' \in BOOLEAN
  BY WithoutType, SignalDoneType DEF Removed, TypeInv, ControlInv
<1>. QED  BY <1>4, <1>5, <1>6 DEF Removed, TypeInv, ValuesInv, ControlInv

LEMMA StopAllType ==
  ASSUME TypeInv, NEW c \in Controllers, StopAll(c)
  PROVE  TypeInv'
<1>1. PICK k : k = [IdleCtl EXCEPT !.do = "joining"]
  OBVIOUS
<1>2. k \in Ctl
  BY <1>1, Idles DEF Ctl, Doings
<1>3. ctl' \in [Controllers -> Ctl]
  BY <1>1, <1>2 DEF StopAll, TypeInv, ControlInv
<1>4. NodesInv' /\ ValuesInv'
  <2>1. CASE UNCHANGED <<nodeVars, forfeit>>
    BY <2>1 DEF StopAll, TypeInv, NodesInv, ValuesInv, nodeVars, wireVars
  <2>2. CASE ctl["signals"].on # NoNode /\ Cancelled(ctl["signals"].on)
    <3>1. ctl["signals"].on \in Nodes
      BY <2>2, CtlFields DEF TypeInv, ControlInv, Controllers
    <3>2. running' \in [Nodes -> BOOLEAN] /\ running' = running
      BY DEF StopAll, TypeInv, NodesInv
    <3>. QED  BY <2>2, <3>1, <3>2, CancelledType DEF StopAll, TypeInv, ValuesInv, wireVars
  <2>. QED  BY <2>1, <2>2 DEF StopAll
<1>. QED  BY <1>3, <1>4 DEF StopAll, TypeInv, WiresInv, ControlInv, wireVars

LEMMA JoinedType ==
  ASSUME TypeInv, NEW c \in Controllers, Joined(c)
  PROVE  TypeInv'
<1>1. PICK k : k = [do |-> "stopping", rest |-> registered, size |-> Len(registered),
                    on |-> NoNode]
  OBVIOUS
<1>2. k \in Ctl
  BY <1>1, LenProperties DEF Ctl, Doings, TypeInv, ControlInv
<1>3. ctl' \in [Controllers -> Ctl]
  BY <1>1, <1>2 DEF Joined, MayJoin, TypeInv, ControlInv
<1>. QED  BY <1>3 DEF Joined, MayJoin, TypeInv, NodesInv, ValuesInv, WiresInv, ControlInv, nodeVars, wireVars

LEMMA StopNextType ==
  ASSUME TypeInv, NEW c \in Controllers, StopNext(c)
  PROVE  TypeInv'
<1>1. PICK n : n = Head(ctl[c].rest)
  OBVIOUS
<1>2. /\ ctl[c] \in Ctl /\ ctl[c].rest \in Seq(Nodes) /\ ctl[c].rest # <<>>
  BY CtlFields DEF StopNext, TypeInv, ControlInv
<1>3. n \in Nodes /\ Tail(ctl[c].rest) \in Seq(Nodes)
  BY <1>1, <1>2, HeadTailProperties
<1>4. NodesInv' /\ ValuesInv'
  <2>1. CASE running' = [running EXCEPT ![n] = FALSE] /\ step[n] = "ended" /\ UNCHANGED <<nodeVars, forfeit>>
    <3>1. NodesInv'
      BY <1>3, <2>1 DEF TypeInv, NodesInv, Fits, nodeVars
    <3>. QED  BY <2>1, <3>1 DEF StopNext, TypeInv, ValuesInv, nodeVars, wireVars
  <2>2. CASE StopNode(n)
    BY <1>3, <2>2, StopNodeType DEF StopNext, wireVars
  <2>. QED  BY <1>1, <2>1, <2>2 DEF StopNext
<1>5. ctl' \in [Controllers -> Ctl]
  <2>1. PICK k : k = [ctl[c] EXCEPT !.on = n, !.rest = Tail(@)]
    OBVIOUS
  <2>2. k \in Ctl
    BY <1>2, <1>3, <2>1 DEF Ctl
  <2>3. ctl' = [ctl EXCEPT ![c] = k]
    BY <1>1, <2>1 DEF StopNext, TypeInv, ControlInv
  <2>. QED  BY <2>2, <2>3 DEF TypeInv, ControlInv
<1>. QED  BY <1>4, <1>5 DEF StopNext, TypeInv, WiresInv, ControlInv, wireVars

LEMMA StopDoneType ==
  ASSUME TypeInv, NEW c \in Controllers, StopDone(c)
  PROVE  TypeInv'
<1>1. ctl' \in [Controllers -> Ctl] /\ signals' \in BOOLEAN
  BY Idles, SignalDoneType DEF StopDone, TypeInv, ControlInv
<1>. QED  BY <1>1 DEF StopDone, TypeInv, NodesInv, ValuesInv, WiresInv, ControlInv, nodeVars, wireVars

LEMMA TypeInit == Init => TypeInv
<1> SUFFICES ASSUME Init
             PROVE  TypeInv
  OBVIOUS
<1>1. <<>> \in Queue /\ <<>> \in Seq(Values) /\ Len(<<>>) = 0
  BY EmptySeq, PipelineAssumption DEF Queue
<1>2. NodesInv
  <2>1. step \in [Nodes -> Phases]
    BY DEF Init, Phases
  <2>2. \A n \in Nodes : Fits(step[n], hand[n], running[n])
    BY Idles DEF Init, Fits
  <2>. QED  BY <1>1, <2>1, <2>2, Idles DEF Init, NodesInv
<1>3. ValuesInv
  BY <1>1, PipelineAssumption DEF Init, ValuesInv
<1>4. WiresInv /\ ControlInv
  BY PipelineAssumption, Idles DEF Init, WiresInv, ControlInv
<1>. QED  BY <1>2, <1>3, <1>4 DEF TypeInv

LEMMA TypeStep == TypeInv /\ [Next]_vars => TypeInv'
<1> SUFFICES ASSUME TypeInv, [Next]_vars
             PROVE  TypeInv'
  OBVIOUS
<1>1. CASE Push \/ Start
  BY <1>1, PushType, StartType
<1>2. CASE SignalsEnd
  BY <1>2 DEF SignalsEnd, MaySignalsEnd, TypeInv, NodesInv, ValuesInv, WiresInv, ControlInv, nodeVars, wireVars
<1>3. ASSUME NEW n \in Nodes, NodeStep(n)
      PROVE  TypeInv'
  BY <1>3, TakeType, FinishType, UnblockType DEF NodeStep
<1>4. ASSUME NEW c \in Controllers, ControlStep(c) \/ StopAll(c)
      PROVE  TypeInv'
  BY <1>4, RemovedType, JoinedType, StopNextType, StopDoneType, StopAllType DEF ControlStep
<1>5. ASSUME NEW c \in Controllers, NEW e \in Edges, Connect(c, e) \/ Disconnect(e)
      PROVE  TypeInv'
  BY <1>5, ConnectType, DisconnectType
<1>6. ASSUME NEW c \in Controllers, NEW n \in Pausable, SetActive(c, n)
      PROVE  TypeInv'
  BY <1>6, SetActiveType, PipelineAssumption
<1>7. ASSUME NEW c \in Controllers, NEW n \in Removable, Remove(c, n) \/ Register(c, n)
      PROVE  TypeInv'
  BY <1>7, RemoveType, RegisterType, PipelineAssumption
<1>8. CASE UNCHANGED vars
  BY <1>8 DEF vars, TypeInv, NodesInv, ValuesInv, WiresInv, ControlInv, nodeVars, wireVars
<1>9. ASSUME NEW e \in Edges, Disconnect(e)
      PROVE  TypeInv'
  BY <1>9, DisconnectType
<1>. QED  BY <1>1, <1>2, <1>3, <1>4, <1>5, <1>6, <1>7, <1>8, <1>9 DEF Next

LEMMA TypeHolds == TypeInv => TypeOK
<1> SUFFICES ASSUME TypeInv
             PROVE  TypeOK
  OBVIOUS
<1>1. \A n \in Nodes : queue[n] \in Seq(Item) /\ Len(queue[n]) <= Capacity
  <2>1. Packed \subseteq Item
    BY DEF Packed
  <2>. QED  BY <2>1, SeqMonotonic DEF TypeInv, NodesInv, Queue
<1>2. step \in [Nodes -> {"ended", "get", "process", "put"}]
  BY DEF TypeInv, NodesInv, Phases
<1>3. \A n \in Nodes :
        /\ (step[n] \in {"process", "put"}) <=> (hand[n].item.vals # <<>>)
        /\ (step[n] = "put") <=> (hand[n].to # NoNode)
        /\ step[n] = "get" => running[n]
  BY DEF TypeInv, NodesInv, Fits
<1>. QED  BY <1>1, <1>2, <1>3 DEF TypeOK, TypeInv, NodesInv, ValuesInv, WiresInv, ControlInv

\* Whatever the wiring, the values and the controllers: no queue is longer than
\* its capacity and the aggregator's buffer never fills its window; a node has an
\* item in hand exactly while it processes or emits, also after a cancellation,
\* a removal or an edit of the list it emits to; and it waits for another only
\* while it runs.  (Node.handle, emit, stop, AggregatorProcessor.)
THEOREM PipelineTypeOK == Spec => []TypeOK
<1>. QED  BY TypeInit, TypeStep, TypeHolds, PTL DEF Spec

-----------------------------------------------------------------------------
(* Stopping.  While a stop is under way nothing starts a node, so that the  *)
(* tasks still going belong to nodes the stop has yet to come to, or waits  *)
(* for.                                                                    *)

Ending == {"joining", "stopping"}

EndInv ==
  /\ ctl["signals"].do # "idle" => signals
  /\ \A c \in Controllers : ctl[c].do \in Ending => ~ up
  /\ \A n \in Nodes : step[n] = "ended" \/ Registered(n)
  /\ \A c \in Controllers : ctl[c].do = "stopping" =>
       \A n \in Nodes : step[n] = "ended" \/ n = ctl[c].on \/ Has(ctl[c].rest, n)

\* A stop that returns finds every registered node ended.
StopsAll ==
  \A c \in Controllers :
    ctl[c].do = "stopping" /\ ctl'[c].do = "idle" /\ Len(registered) = ctl[c].size
      => \A n \in Nodes : Registered(n) => step[n] = "ended"

StopStep == EndInv' /\ StopsAll

NoneStarts == \A n \in Nodes : step[n] = "ended" => step'[n] = "ended"

LEMMA HasRegistered == \A n : Has(registered, n) <=> Registered(n)
  BY DEF Has, Registered

LEMMA CtlOf ==
  ASSUME TypeInv
  PROVE  /\ DOMAIN ctl = Controllers /\ ctl \in [Controllers -> Ctl]
         /\ "signals" \in Controllers /\ registered \in Seq(Nodes)
         /\ step \in [Nodes -> Phases]
  BY DEF TypeInv, NodesInv, ControlInv, Controllers

\* Tasks end or go on; nobody's control moves.
LEMMA NodesMove ==
  ASSUME TypeInv, EndInv, NoneStarts, UNCHANGED <<ctl, up, signals, registered>>
  PROVE  StopStep
<1>1. StopsAll
  BY DEF StopsAll, Ending
<1>2. EndInv'
  BY DEF EndInv, NoneStarts, Registered
<1>. QED  BY <1>1, <1>2 DEF StopStep

\* Emission by a node that is at work.
LEMMA EmitStep ==
  ASSUME TypeInv, NEW n \in Nodes, NEW h, NEW list, NEW i, NEW q, EmitFrom(n, h, list, i, q),
         step[n] # "ended"
  PROVE  NoneStarts
<1>1. \A m \in Nodes \ {n} : step'[m] = step[m]
  BY CtlOf DEF EmitFrom
<1>. QED  BY <1>1 DEF NoneStarts

LEMMA HandleStep ==
  ASSUME TypeInv, NEW n \in Nodes, Handle(n)
  PROVE  NoneStarts /\ step[n] # "ended"
<1>1. step[n] # "ended"
  BY DEF Handle, MayTake
<1>2. ASSUME NEW q, Done(n, q)
      PROVE  NoneStarts
  BY <1>1, <1>2, EmitStep DEF Done
<1>3. ASSUME NEW item, NEW q, Emit(n, item, q)
      PROVE  NoneStarts
  BY <1>1, <1>3, EmitStep DEF Emit
<1>4. ASSUME NEW item, NEW q, Process(n, item, q)
      PROVE  NoneStarts
  BY <1>2, <1>3, <1>4 DEF Process, Aggregated
<1>5. CASE step' = [step EXCEPT ![n] = "process"]
  BY <1>1, <1>5, CtlOf DEF NoneStarts
<1>. QED  BY <1>1, <1>2, <1>4, <1>5 DEF Handle, MayTake

LEMMA NodeStepNone ==
  ASSUME TypeInv, NEW n \in Nodes, NodeStep(n)
  PROVE  NoneStarts
<1>1. CASE Take(n)
  BY <1>1, HandleStep DEF Take
<1>2. CASE Finish(n)
  <2>1. step[n] # "ended"
    BY <1>2 DEF Finish
  <2>. QED  BY <1>2, <2>1, EmitStep DEF Finish, Emit, Done
<1>3. CASE Unblock(n)
  <2>1. step[n] # "ended"
    BY <1>3 DEF Unblock, MayPut
  <2>. QED  BY <1>3, <2>1, EmitStep DEF Unblock
<1>. QED  BY <1>1, <1>2, <1>3 DEF NodeStep

LEMMA NodeStepStops ==
  ASSUME TypeInv, EndInv, NEW n \in Nodes, NodeStep(n)
  PROVE  StopStep
<1>1. UNCHANGED <<ctl, up, signals, registered>>
  BY DEF NodeStep, Take, Finish, Unblock
<1>. QED  BY <1>1, NodeStepNone, NodesMove

LEMMA StopNodeStep ==
  ASSUME TypeInv, NEW n \in Nodes, StopNode(n)
  PROVE  NoneStarts
<1>1. CASE Cancelled(n)
  BY <1>1, CtlOf DEF Cancelled, NoneStarts
<1>. QED  BY <1>1, HandleStep DEF StopNode

\* An operation of an idle controller that starts no node and is over at once.
LEMMA OperationStops ==
  ASSUME TypeInv, EndInv, NEW c \in Controllers, Operation(c), NoneStarts,
         SignalDone(c) \/ UNCHANGED signals, UNCHANGED <<ctl, up>>,
         \A n \in Nodes : Registered(n) => Registered(n)'
  PROVE  StopStep
<1>1. StopsAll
  BY DEF StopsAll
<1>2. ctl["signals"].do # "idle" => signals'
  BY DEF SignalDone, Operation, Free, EndInv
<1>3. EndInv'
  BY <1>2 DEF EndInv, NoneStarts
<1>. QED  BY <1>1, <1>3 DEF StopStep

LEMMA RegisterStops ==
  ASSUME TypeInv, EndInv, NEW c \in Controllers, NEW n \in Nodes, Register(c, n)
  PROVE  StopStep
<1>0. step \in [Nodes -> Phases] /\ registered \in Seq(Nodes)
  BY CtlOf
<1>1. \A m \in Nodes : Registered(m) => Registered(m)'
  <2>1. \A m : Has(registered, m) => Has(registered', m)
    BY <1>0, Appended DEF Register
  <2>. QED  BY <2>1 DEF Has, Registered
<1>2. Registered(n)'
  <2>1. Has(registered', n)
    BY <1>0, Appended DEF Register
  <2>. QED  BY <2>1 DEF Has, Registered
<1>3. CASE UNCHANGED <<running, step>>
  BY <1>1, <1>3, OperationStops DEF Register, NoneStarts
<1>4. CASE up /\ step' = [step EXCEPT ![n] = IF @ = "ended" THEN "get" ELSE @]
  <2>1. StopsAll
    BY DEF StopsAll, Register
  <2>2. \A m \in Nodes \ {n} : step'[m] = step[m]
    BY <1>0, <1>4
  <2>3. ctl["signals"].do # "idle" => signals'
    BY DEF Register, SignalDone, Operation, Free, EndInv
  <2>4. \A d \in Controllers : ctl[d].do # "stopping" /\ (ctl[d].do \in Ending => ~ up)
    BY <1>4 DEF EndInv, Ending
  <2>5. EndInv'
    BY <1>1, <1>2, <2>2, <2>3, <2>4 DEF Register, EndInv
  <2>. QED  BY <2>1, <2>5 DEF StopStep
<1>. QED  BY <1>3, <1>4 DEF Register

LEMMA StartStops ==
  ASSUME TypeInv, EndInv, Start
  PROVE  StopStep
<1>0. DOMAIN ctl = Controllers
  BY CtlOf
<1>1. ~ signals /\ ctl["caller"].do = "idle" /\ ctl' = ctl /\ registered' = registered
      /\ signals' = TRUE
  BY DEF Start, Operation, Free
<1>2. \A c \in Controllers : ctl[c].do = "idle"
  BY <1>1 DEF EndInv, Controllers
<1>3. \A n \in Nodes : step'[n] = "ended" \/ Registered(n)'
  BY <1>1 DEF Start, EndInv, Registered
<1>. QED  BY <1>1, <1>2, <1>3 DEF StopStep, StopsAll, EndInv, Ending

LEMMA RemoveStops ==
  ASSUME TypeInv, EndInv, NEW c \in Controllers, NEW n \in Nodes, Remove(c, n)
  PROVE  StopStep
<1>0. ctl \in [Controllers -> Ctl] /\ "signals" \in Controllers
  BY CtlOf
<1>1. NoneStarts /\ UNCHANGED <<up, signals, registered>>
  BY StopNodeStep DEF Remove
<1>2. ctl[c].do = "idle" /\ (c = "signals" => signals)
  BY DEF Remove, Operation, Free
<1>3. ctl'[c].do = "removing" /\ \A d \in Controllers \ {c} : ctl'[d] = ctl[d]
  BY <1>0 DEF Remove, IdleCtl
<1>4. StopsAll
  BY <1>2, <1>3 DEF StopsAll
<1>5. EndInv'
  BY <1>0, <1>1, <1>2, <1>3 DEF EndInv, NoneStarts, Registered, Ending
<1>. QED  BY <1>4, <1>5 DEF StopStep

\* A controller that is done: the task of the signals is then idle.
LEMMA IdleAgain ==
  ASSUME TypeInv, EndInv, NEW c \in Controllers, ctl' = [ctl EXCEPT ![c] = IdleCtl],
         SignalDone(c)
  PROVE  /\ ctl'[c].do = "idle" /\ \A d \in Controllers \ {c} : ctl'[d] = ctl[d]
         /\ ctl'["signals"].do # "idle" => signals'
<1>0. ctl \in [Controllers -> Ctl] /\ "signals" \in Controllers
  BY CtlOf
<1>1. ctl'[c].do = "idle" /\ \A d \in Controllers \ {c} : ctl'[d] = ctl[d]
  BY <1>0, Idles
<1>. QED  BY <1>0, <1>1 DEF SignalDone, EndInv

LEMMA RemovedStops ==
  ASSUME TypeInv, EndInv, NEW c \in Controllers, Removed(c)
  PROVE  StopStep
<1>0. /\ registered \in Seq(Nodes) /\ ctl[c].do = "removing"
      /\ UNCHANGED <<step, up>>
  BY CtlOf DEF Removed
<1>1. \A n \in Nodes : step'[n] = "ended" \/ Registered(n)'
  <2>1. ASSUME NEW n \in Nodes, step[n] # "ended"
        PROVE  Has(registered', n)
    <3>1. ctl[c].on \in Nodes \cup {NoNode}
      BY CtlFields DEF TypeInv, ControlInv
    <3>2. n # ctl[c].on
      BY <2>1, PipelineAssumption DEF Removed, Stopped
    <3>3. Has(registered, n)
      BY <2>1, HasRegistered DEF EndInv
    <3>. QED  BY <1>0, <3>2, <3>3, WithoutType DEF Removed
  <2>. QED  BY <1>0, <2>1 DEF Has, Registered
<1>2. /\ ctl'[c].do = "idle" /\ \A d \in Controllers \ {c} : ctl'[d] = ctl[d]
      /\ ctl'["signals"].do # "idle" => signals'
  BY IdleAgain DEF Removed
<1>3. StopsAll
  BY <1>0, <1>2 DEF StopsAll
<1>4. EndInv'
  BY <1>0, <1>1, <1>2 DEF EndInv, Ending
<1>. QED  BY <1>3, <1>4 DEF StopStep

LEMMA StopAllStops ==
  ASSUME TypeInv, EndInv, NEW c \in Controllers, StopAll(c)
  PROVE  StopStep
<1>0. ctl \in [Controllers -> Ctl] /\ "signals" \in Controllers /\ step \in [Nodes -> Phases]
  BY CtlOf
<1>1. NoneStarts
  BY <1>0 DEF StopAll, Cancelled, NoneStarts, nodeVars
<1>2. ctl[c].do = "idle" /\ (c = "signals" => signals) /\ UNCHANGED <<signals, registered>> /\ ~ up'
  BY DEF StopAll, Operation, Free
<1>3. ctl'[c].do = "joining" /\ \A d \in Controllers \ {c} : ctl'[d] = ctl[d]
  BY <1>0 DEF StopAll, IdleCtl
<1>4. StopsAll
  BY <1>2, <1>3 DEF StopsAll
<1>5. EndInv'
  BY <1>0, <1>1, <1>2, <1>3 DEF EndInv, NoneStarts, Registered, Ending
<1>. QED  BY <1>4, <1>5 DEF StopStep

LEMMA JoinedStops ==
  ASSUME TypeInv, EndInv, NEW c \in Controllers, Joined(c)
  PROVE  StopStep
<1>0. ctl \in [Controllers -> Ctl] /\ "signals" \in Controllers
  BY CtlOf
<1>1. ctl[c].do = "joining" /\ UNCHANGED <<step, signals, registered, up>>
  BY DEF Joined, MayJoin, nodeVars
<1>2. /\ ctl'[c].do = "stopping" /\ ctl'[c].rest = registered
      /\ \A d \in Controllers \ {c} : ctl'[d] = ctl[d]
  BY <1>0 DEF Joined, MayJoin
<1>3. StopsAll
  BY <1>1, <1>2 DEF StopsAll
<1>4. \A n \in Nodes : step[n] = "ended" \/ Has(ctl'[c].rest, n)
  BY <1>2, HasRegistered DEF EndInv
<1>5. EndInv'
  BY <1>0, <1>1, <1>2, <1>4 DEF EndInv, Registered, Ending
<1>. QED  BY <1>3, <1>5 DEF StopStep

LEMMA StopNextStops ==
  ASSUME TypeInv, EndInv, NEW c \in Controllers, StopNext(c)
  PROVE  StopStep
<1>0. /\ ctl \in [Controllers -> Ctl] /\ "signals" \in Controllers
      /\ step \in [Nodes -> Phases]
  BY CtlOf
<1>1. PICK k, rest : k = ctl[c] /\ rest = k.rest
  OBVIOUS
<1>2. k \in Ctl /\ rest \in Seq(Nodes) /\ rest # <<>> /\ k.do = "stopping"
  BY <1>0, <1>1, CtlFields DEF StopNext
<1>3. /\ Head(rest) \in Nodes /\ Head(rest) = rest[1] /\ Len(rest) \in Nat
      /\ Len(Tail(rest)) = Len(rest) - 1
      /\ \A i \in 1..Len(Tail(rest)) : Tail(rest)[i] = rest[i + 1]
  BY <1>2, HeadTailProperties, LenProperties
<1>4. \A n : Has(rest, n) => n = Head(rest) \/ Has(Tail(rest), n)
  <2> SUFFICES ASSUME NEW n, Has(rest, n), n # Head(rest)
               PROVE  Has(Tail(rest), n)
    OBVIOUS
  <2>1. PICK i \in 1..Len(rest) : rest[i] = n
    BY DEF Has
  <2>2. i # 1
    BY <1>3, <2>1
  <2>3. i - 1 \in 1..Len(Tail(rest)) /\ (i - 1) + 1 = i
    BY <1>3, <2>1, <2>2
  <2>4. Tail(rest)[i - 1] = n
    BY <1>3, <2>1, <2>3
  <2>. QED  BY <2>3, <2>4 DEF Has
<1>5. NoneStarts /\ UNCHANGED <<up, signals, registered>>
  <2>1. CASE UNCHANGED <<nodeVars, forfeit>>
    BY <2>1 DEF StopNext, NoneStarts, nodeVars
  <2>2. CASE StopNode(Head(rest))
    BY <1>3, <2>2, StopNodeStep DEF StopNext
  <2>. QED  BY <1>1, <2>1, <2>2 DEF StopNext
<1>6. PICK next : next = [k EXCEPT !.on = Head(rest), !.rest = Tail(@)]
  OBVIOUS
<1>7. next.do = "stopping" /\ next.on = Head(rest) /\ next.rest = Tail(rest)
  BY <1>1, <1>2, <1>6 DEF Ctl
<1>8. ctl' = [ctl EXCEPT ![c] = next]
  BY <1>0, <1>1, <1>6 DEF StopNext
<1>9. ctl'[c] = next /\ \A d \in Controllers \ {c} : ctl'[d] = ctl[d]
  BY <1>0, <1>8
<1>10. \A n \in Nodes : step'[n] = "ended" \/ n = next.on \/ Has(next.rest, n)
  <2> SUFFICES ASSUME NEW n \in Nodes, step'[n] # "ended"
               PROVE  n = next.on \/ Has(next.rest, n)
    OBVIOUS
  <2>1. step[n] # "ended"
    BY <1>5 DEF NoneStarts
  <2>2. k.on = n => step[n] = "ended"
    BY <1>1, PipelineAssumption DEF StopNext, Stopped
  <2>3. Has(rest, n)
    BY <1>1, <1>2, <2>1, <2>2 DEF EndInv
  <2>. QED  BY <1>4, <1>7, <2>3
<1>11. StopsAll
  BY <1>1, <1>2, <1>7, <1>9 DEF StopsAll
<1>12. EndInv'
  BY <1>0, <1>1, <1>2, <1>5, <1>7, <1>9, <1>10 DEF EndInv, NoneStarts, Registered, Ending
<1>. QED  BY <1>11, <1>12 DEF StopStep

LEMMA StopDoneStops ==
  ASSUME TypeInv, EndInv, NEW c \in Controllers, StopDone(c)
  PROVE  StopStep
<1>1. ctl[c].do = "stopping" /\ UNCHANGED <<step, up, registered>>
  BY DEF StopDone, nodeVars
<1>2. /\ ctl'[c].do = "idle" /\ \A d \in Controllers \ {c} : ctl'[d] = ctl[d]
      /\ ctl'["signals"].do # "idle" => signals'
  BY IdleAgain DEF StopDone
<1>3. ASSUME Len(registered) = ctl[c].size
      PROVE  \A n \in Nodes : step[n] = "ended"
  <2> SUFFICES ASSUME NEW n \in Nodes
               PROVE  step[n] = "ended"
    OBVIOUS
  <2>1. ctl[c].rest = <<>>
    BY <1>3 DEF StopDone
  <2>2. ~ Has(ctl[c].rest, n)
    BY <2>1, EmptySeq DEF Has
  <2>3. ctl[c].on = n => step[n] = "ended"
    BY PipelineAssumption DEF StopDone, Stopped
  <2>. QED  BY <1>1, <2>2, <2>3 DEF EndInv
<1>4. StopsAll
  BY <1>2, <1>3 DEF StopsAll
<1>5. EndInv'
  BY <1>1, <1>2 DEF EndInv, Registered, Ending
<1>. QED  BY <1>4, <1>5 DEF StopStep

LEMMA EndStep == TypeInv /\ EndInv /\ [Next]_vars => StopStep
<1> SUFFICES ASSUME TypeInv, EndInv, [Next]_vars
             PROVE  StopStep
  OBVIOUS
<1>1. CASE Push
  BY <1>1, NodesMove DEF Push, NoneStarts
<1>2. CASE SignalsEnd
  <2>1. ctl["signals"].do = "idle" /\ UNCHANGED <<ctl, up, step, registered>>
    BY <1>2 DEF SignalsEnd, MaySignalsEnd, nodeVars
  <2>. QED  BY <2>1 DEF StopStep, StopsAll, EndInv, Registered
<1>3. ASSUME NEW n \in Nodes, NodeStep(n)
      PROVE  StopStep
  BY <1>3, NodeStepStops
<1>4. ASSUME NEW c \in Controllers, ControlStep(c) \/ StopAll(c)
      PROVE  StopStep
  BY <1>4, RemovedStops, JoinedStops, StopNextStops, StopDoneStops, StopAllStops DEF ControlStep
<1>5. ASSUME NEW c \in Controllers, NEW e \in Edges, Connect(c, e)
      PROVE  StopStep
  BY <1>5, OperationStops DEF Connect, NoneStarts, Registered
<1>6. ASSUME NEW e \in Edges, Disconnect(e)
      PROVE  StopStep
  <2>1. "caller" \in Controllers
    BY DEF Controllers
  <2>. QED  BY <1>6, <2>1, OperationStops DEF Disconnect, NoneStarts, Registered
<1>7. ASSUME NEW c \in Controllers, NEW n \in Pausable, SetActive(c, n)
      PROVE  StopStep
  BY <1>7, OperationStops DEF SetActive, NoneStarts, Registered, nodeVars
<1>8. ASSUME NEW c \in Controllers, NEW n \in Removable, Remove(c, n) \/ Register(c, n)
      PROVE  StopStep
  BY <1>8, RemoveStops, RegisterStops, PipelineAssumption
<1>9. CASE UNCHANGED vars
  BY <1>9, NodesMove DEF vars, nodeVars, NoneStarts
<1>. QED  BY <1>1, <1>2, <1>3, <1>4, <1>5, <1>6, <1>7, <1>8, <1>9, StartStops DEF Next

\* Whatever the wiring and whatever else is done to the pipeline meanwhile: a stop
\* that returns, and was not cut short by a change of the node table, has ended
\* every registered node.  (PipelineManager.stop, Node.stop, unregister_node.)
THEOREM PipelineStopIsComplete == Spec => StopIsComplete
<1>1. Init => EndInv
  BY DEF Init, EndInv, IdleCtl, Ending, Controllers
<1>2. TypeInv /\ EndInv /\ [Next]_vars
        => EndInv' /\ [\A c \in Controllers :
             ctl[c].do = "stopping" /\ ctl'[c].do = "idle" /\ Len(registered) = ctl[c].size
               => \A n \in Nodes : Registered(n) => step[n] = "ended"]_vars
  BY EndStep DEF StopStep, StopsAll
<1>. QED  BY <1>1, <1>2, TypeInit, TypeStep, PTL DEF Spec, StopIsComplete

-----------------------------------------------------------------------------
(* Wires.  As long as no subscriber was taken away lists only grow, and an  *)
(* emission goes on through the list it began with.                        *)

\* A value no edit has touched, or no edit took anything away.
Sound(v) == v \notin edited \/ ~ cut

\* The list an emission runs through.
Serving(n) == IF hand[n].live THEN subs[n][hand[n].route] ELSE hand[n].kept

Extends(list, start) ==
  Len(start) <= Len(list) /\ \A x \in 1..Len(start) : list[x] = start[x]

ListsInv == \A n \in Nodes, r \in Routes :
  /\ \A x \in 1..Len(subs[n][r]) : subs[n][r][x] \in Targets(n, r)
  /\ \A x, y \in 1..Len(subs[n][r]) : subs[n][r][x] = subs[n][r][y] => x = y
  /\ ~ cut => Extends(subs[n][r], Wiring[n][r])

\* The list, the place in it and the target that n's emission waits for.
Waits(n, h) ==
  /\ h.to \in Targets(n, h.route)
  /\ \A x \in 1..Len(h.kept) : h.kept[x] \in Targets(n, h.route)
  /\ ~ cut => h.route = Wired(n, h.item.route)
  /\ Sound(h.item.vals[1]) => /\ h.live /\ h.at \in 1..Len(subs[n][h.route])
                              /\ subs[n][h.route][h.at] = h.to

WaitsInv == \A n \in Nodes : step[n] = "put" => Waits(n, hand[n])

WireInv == ListsInv /\ WaitsInv

\* What n sends is item, over the list of route from its i-th subscriber on; its
\* queue has lost k items at the front.  It comes to the end of the list, or
\* waits for the j-th subscriber.
Served(list, i, j) == {list[x] : x \in {y \in 1..Len(list) : i <= y /\ y < j}}

PassesTo(n, k, item, route, i, j) ==
  /\ \A m \in Nodes \ {n} : hand'[m] = hand[m] /\ step'[m] = step[m]
  /\ queue'[n] = IF k = 1 THEN Tail(queue[n]) ELSE queue[n]
  /\ \A m \in Nodes \ {n} :
       IF Sound(item.vals[1])
         THEN queue'[m] = IF m \in Served(subs[n][route], i, j) THEN Append(queue[m], item)
                                                                ELSE queue[m]
         ELSE \A x \in 1..Len(queue'[m]) :
                queue'[m][x] = item \/ (x <= Len(queue[m]) /\ queue'[m][x] = queue[m][x])
  /\ \/ /\ hand'[n] = EmptyHand /\ step'[n] \in {"get", "ended"}
        /\ Sound(item.vals[1]) => j = Len(subs[n][route]) + 1
     \/ /\ step'[n] = "put" /\ hand'[n].item = item /\ hand'[n].route = route
        /\ hand'[n].at = j /\ Waits(n, hand'[n])

\* Nothing of n's queue is left out when it begins: k is 0 or 1.
PassOn(n, k, item, route, i) ==
  /\ k = 1 => queue[n] # <<>>
  /\ \E j \in Nat : i <= j /\ PassesTo(n, k, item, route, i, j)

LEMMA TargetsType ==
  ASSUME NEW n \in Nodes, NEW r \in Routes
  PROVE  Targets(n, r) \subseteq Nodes
<1>1. Wiring[n][r] \in Seq(Nodes) /\ Edges \subseteq Nodes \X Nodes \X Routes
  BY PipelineAssumption
<1>2. \A x \in 1..Len(Wiring[n][r]) : Wiring[n][r][x] \in Nodes
  BY <1>1, ElementOfSeq
<1>. QED  BY <1>1, <1>2 DEF Targets

LEMMA WiredType ==
  ASSUME NEW n, NEW r \in Routes
  PROVE  Wired(n, r) \in Routes
  BY PipelineAssumption DEF Wired

\* What emit() looks up is the route by which the node is wired.
LEMMA ListForWired ==
  ASSUME WellWired, TypeInv, ListsInv, ~ cut, NEW n \in Nodes, NEW r \in Routes
  PROVE  ListFor(n, r) = Wired(n, r)
<1>1. subs[n][r] \in Seq(Nodes) /\ Wiring[n][r] \in Seq(Nodes)
  BY PipelineAssumption DEF TypeInv, WiresInv
<1>2. /\ Len(Wiring[n][r]) \in Nat /\ Len(subs[n][r]) \in Nat
      /\ Wiring[n][r] = <<>> <=> Len(Wiring[n][r]) = 0
      /\ subs[n][r] = <<>> <=> Len(subs[n][r]) = 0
  BY <1>1, LenProperties, EmptySeq
<1>3. CASE Wiring[n][r] # <<>>
  <2>1. Len(Wiring[n][r]) <= Len(subs[n][r])
    BY DEF ListsInv, Extends
  <2>. QED  BY <1>2, <1>3, <2>1 DEF ListFor, Wired
<1>4. CASE Wiring[n][r] = <<>> /\ r # Default
  <2>1. Targets(n, r) = {}
    BY <1>4 DEF WellWired
  <2>2. ~ (1 \in 1..Len(subs[n][r]))
    BY <2>1 DEF ListsInv
  <2>3. subs[n][r] = <<>>
    BY <1>2, <2>2
  <2>. QED  BY <1>4, <2>3 DEF ListFor, Wired
<1>5. CASE r = Default
  BY <1>5 DEF ListFor, Wired
<1>. QED  BY <1>3, <1>4, <1>5

\* Emitting, in these terms: Emit and Done over a queue that lost k items.
LEMMA EmitFromPasses ==
  ASSUME WellWired, TypeInv, WireInv, NEW n \in Nodes, NEW k \in {0, 1},
         k = 1 => queue[n] # <<>>,
         NEW h \in Hand, h.item \in Packed, h.live, h.kept = <<>>,
         ~ cut => h.route = Wired(n, h.item.route),
         EmitFrom(n, h, subs[n][h.route], 1,
                  [queue EXCEPT ![n] = IF k = 1 THEN Tail(@) ELSE @]),
         UNCHANGED wireVars
  PROVE  PassOn(n, k, h.item, h.route, 1)
<1>1. PICK list, q : /\ list = subs[n][h.route]
                     /\ q = [queue EXCEPT ![n] = IF k = 1 THEN Tail(@) ELSE @]
  OBVIOUS
<1>2. PICK j : j = IF 1 > Len(list) THEN Len(list) + 1 ELSE Blocked(list, 1, q)
  OBVIOUS
<1>3. h.route \in Routes /\ list \in Seq(Nodes) /\ Len(list) \in Nat
  BY <1>1, HandFields, LenProperties DEF TypeInv, WiresInv
<1>4. \A x \in 1..Len(list) : list[x] \in Nodes /\ list[x] # n /\ list[x] \in Targets(n, h.route)
  BY <1>1, <1>3, ElementOfSeq DEF WireInv, ListsInv, WellWired
<1>5. /\ j \in 1..Len(list) + 1 /\ \A x \in 1..j - 1 : ~ Full(q, list[x])
  <2>1. CASE 1 > Len(list)
    BY <1>2, <1>3, <2>1
  <2>2. CASE ~ (1 > Len(list))
    <3>1. 1 \in 1..Len(list) + 1
      BY <1>3
    <3>. QED  BY <1>2, <1>3, <2>2, <3>1, BlockedIsFirst
  <2>. QED  BY <2>1, <2>2
<1>6. queue \in [Nodes -> Queue] /\ step \in [Nodes -> Phases] /\ hand \in [Nodes -> Hand]
  BY DEF TypeInv, NodesInv
<1>7. /\ \A m \in Nodes \ {n} : q[m] = queue[m]
      /\ q[n] = IF k = 1 THEN Tail(queue[n]) ELSE queue[n]
  BY <1>1, <1>6
<1>8. \A m : m \in {list[x] : x \in 1..j - 1} <=> m \in Served(list, 1, j)
  BY <1>3, <1>5 DEF Served
<1>9. queue' = [m \in Nodes |-> IF m \in {list[x] : x \in 1..j - 1} /\ ~ Full(q, m)
                                THEN Append(q[m], h.item) ELSE q[m]]
  BY <1>1, <1>2 DEF EmitFrom
<1>10. \A m \in Nodes : queue'[m] = IF m \in Served(list, 1, j) THEN Append(q[m], h.item) ELSE q[m]
  <2>1. \A m : m \in Served(list, 1, j) => ~ Full(q, m)
    BY <1>5, <1>8
  <2>. QED  BY <1>8, <1>9, <2>1
<1>11. n \notin Served(list, 1, j)
  BY <1>4 DEF Served
<1>12. /\ queue'[n] = IF k = 1 THEN Tail(queue[n]) ELSE queue[n]
       /\ \A m \in Nodes \ {n} :
            queue'[m] = IF m \in Served(list, 1, j) THEN Append(queue[m], h.item) ELSE queue[m]
  BY <1>7, <1>10, <1>11
<1>13. \A m \in Nodes \ {n} :
         IF Sound(h.item.vals[1])
           THEN queue'[m] = IF m \in Served(list, 1, j) THEN Append(queue[m], h.item)
                                                        ELSE queue[m]
           ELSE \A x \in 1..Len(queue'[m]) :
                  queue'[m][x] = h.item \/ (x <= Len(queue[m]) /\ queue'[m][x] = queue[m][x])
  <2> SUFFICES ASSUME NEW m \in Nodes \ {n}, NEW x \in 1..Len(queue'[m])
               PROVE  queue'[m][x] = h.item \/ (x <= Len(queue[m]) /\ queue'[m][x] = queue[m][x])
    BY <1>12
  <2>1. queue[m] \in Seq(Packed) /\ Len(queue[m]) \in Nat
    BY <1>6, LenProperties DEF Queue
  <2>2. CASE queue'[m] = queue[m]
    BY <2>1, <2>2
  <2>3. CASE queue'[m] = Append(queue[m], h.item)
    BY <2>1, <2>3, AppendProperties
  <2>. QED  BY <1>12, <2>2, <2>3
<1>14. CASE j <= Len(list)
  <2>1. PICK g : g = [h EXCEPT !.at = j, !.to = list[j]]
    OBVIOUS
  <2>2. /\ g.item = h.item /\ g.route = h.route /\ g.at = j /\ g.to = list[j]
        /\ g.live = h.live /\ g.kept = h.kept
    BY <2>1 DEF Hand
  <2>3. hand' = [hand EXCEPT ![n] = g] /\ step' = [step EXCEPT ![n] = "put"]
    BY <1>1, <1>2, <1>14, <2>1 DEF EmitFrom
  <2>4. /\ hand'[n] = g /\ step'[n] = "put"
        /\ \A m \in Nodes \ {n} : hand'[m] = hand[m] /\ step'[m] = step[m]
    BY <1>6, <2>3
  <2>5. j \in 1..Len(list)
    BY <1>3, <1>5, <1>14
  <2>6. \A x \in 1..Len(<<>>) : FALSE
    BY EmptySeq
  <2>7. Waits(n, g)
    BY <1>1, <1>4, <2>2, <2>5, <2>6 DEF Waits
  <2>8. PassesTo(n, k, h.item, h.route, 1, j)
    BY <1>1, <1>12, <1>13, <2>2, <2>4, <2>7 DEF PassesTo
  <2>. QED  BY <1>5, <2>8 DEF PassOn
<1>15. CASE ~ (j <= Len(list))
  <2>1. PICK phase : phase = IF running'[n] THEN "get" ELSE "ended"
    OBVIOUS
  <2>2. hand' = [hand EXCEPT ![n] = EmptyHand] /\ step' = [step EXCEPT ![n] = phase]
    BY <1>1, <1>2, <1>15, <2>1 DEF EmitFrom
  <2>3. /\ hand'[n] = EmptyHand /\ step'[n] \in {"get", "ended"}
        /\ \A m \in Nodes \ {n} : hand'[m] = hand[m] /\ step'[m] = step[m]
    BY <1>6, <2>1, <2>2
  <2>4. j = Len(list) + 1
    BY <1>3, <1>5, <1>15
  <2>5. PassesTo(n, k, h.item, h.route, 1, j)
    BY <1>1, <1>12, <1>13, <2>3, <2>4 DEF PassesTo
  <2>. QED  BY <1>5, <2>5 DEF PassOn
<1>. QED  BY <1>14, <1>15

LEMMA EmitPasses ==
  ASSUME WellWired, TypeInv, WireInv, NEW n \in Nodes, NEW k \in {0, 1}, k = 1 => queue[n] # <<>>,
         NEW item \in Packed,
         Emit(n, item, [queue EXCEPT ![n] = IF k = 1 THEN Tail(@) ELSE @]), UNCHANGED wireVars
  PROVE  \E route \in Routes :
           /\ PassOn(n, k, item, route, 1)
           /\ ~ cut => route = Wired(n, item.route)
<1>1. PICK route : route = ListFor(n, item.route)
  OBVIOUS
<1>2. item \in Item /\ item.route \in Routes
  BY ItemFields DEF Packed
<1>3. route \in Routes /\ (~ cut => route = Wired(n, item.route))
  BY <1>1, <1>2, ListForWired, PipelineAssumption DEF ListFor, WireInv
<1>4. PICK h : h = [EmptyHand EXCEPT !.item = item, !.route = route]
  OBVIOUS
<1>5. h \in Hand /\ h.item = item /\ h.route = route /\ h.live /\ h.kept = <<>>
  BY <1>2, <1>3, <1>4, Idles DEF Hand, EmptyHand
<1>6. EmitFrom(n, h, subs[n][h.route], 1, [queue EXCEPT ![n] = IF k = 1 THEN Tail(@) ELSE @])
  BY <1>1, <1>4, <1>5 DEF Emit
<1>7. PassOn(n, k, item, route, 1)
  BY <1>3, <1>5, <1>6, EmitFromPasses
<1>. QED  BY <1>3, <1>7

\* Nothing to emit: as if the end of a list had been reached.
LEMMA DonePasses ==
  ASSUME TypeInv, NEW n \in Nodes, NEW k \in {0, 1}, k = 1 => queue[n] # <<>>,
         NEW item, NEW route \in Routes,
         Done(n, [queue EXCEPT ![n] = IF k = 1 THEN Tail(@) ELSE @])
  PROVE  PassOn(n, k, item, route, Len(subs[n][route]) + 1)
<1>1. PICK q : q = [queue EXCEPT ![n] = IF k = 1 THEN Tail(@) ELSE @]
  OBVIOUS
<1>2. queue \in [Nodes -> Queue] /\ step \in [Nodes -> Phases] /\ hand \in [Nodes -> Hand]
  BY DEF TypeInv, NodesInv
<1>3. Len(<<>>) = 0 /\ ~ (1 <= 0) /\ 1 > 0 /\ 1..0 + 1 - 1 = {}
  BY EmptySeq
<1>4. PICK phase : phase = IF running'[n] THEN "get" ELSE "ended"
  OBVIOUS
<1>5. /\ hand' = [hand EXCEPT ![n] = EmptyHand] /\ step' = [step EXCEPT ![n] = phase]
      /\ queue' = [m \in Nodes |-> IF m \in {<<>>[x] : x \in 1..0 + 1 - 1} /\ ~ Full(q, m)
                                   THEN Append(q[m], EmptyHand.item) ELSE q[m]]
  BY <1>1, <1>3, <1>4 DEF Done, EmitFrom
<1>6. queue' = [m \in Nodes |-> q[m]]
  BY <1>3, <1>5
<1>7. /\ queue'[n] = IF k = 1 THEN Tail(queue[n]) ELSE queue[n]
      /\ \A m \in Nodes \ {n} : queue'[m] = queue[m]
  BY <1>1, <1>2, <1>6
<1>8. /\ hand'[n] = EmptyHand /\ step'[n] \in {"get", "ended"}
      /\ \A m \in Nodes \ {n} : hand'[m] = hand[m] /\ step'[m] = step[m]
  BY <1>2, <1>4, <1>5
<1>9. PICK j : j = Len(subs[n][route]) + 1
  OBVIOUS
<1>10. Len(subs[n][route]) \in Nat
  BY LenProperties DEF TypeInv, WiresInv
<1>11. Served(subs[n][route], j, j) = {}
  BY <1>9, <1>10 DEF Served
<1>12. \A m \in Nodes \ {n} : \A x \in 1..Len(queue'[m]) :
         x <= Len(queue[m]) /\ queue'[m][x] = queue[m][x]
  <2>1. \A m \in Nodes : Len(queue[m]) \in Nat
    BY <1>2, LenProperties DEF Queue
  <2>. QED  BY <1>7, <2>1
<1>13. PassesTo(n, k, item, route, j, j)
  BY <1>7, <1>8, <1>9, <1>11, <1>12 DEF PassesTo
<1>. QED  BY <1>9, <1>10, <1>13 DEF PassOn

\* A put() that goes through, and what follows: from the list's place on.
LEMMA UnblockPasses ==
  ASSUME WellWired, TypeInv, WireInv, NEW n \in Nodes, Unblock(n)
  PROVE  /\ hand[n].item \in Packed /\ hand[n].route \in Routes /\ Waits(n, hand[n])
         /\ hand[n].at \in Nat /\ PassOn(n, 0, hand[n].item, hand[n].route, hand[n].at)
<1>1. PICK h, list, q : /\ h = hand[n] /\ list = Serving(n)
                        /\ q = [queue EXCEPT ![h.to] = Append(@, h.item)]
  OBVIOUS
<1>2. /\ step[n] = "put" /\ ~ Full(queue, h.to) /\ EmitFrom(n, h, list, h.at + 1, q)
      /\ UNCHANGED wireVars
  BY <1>1 DEF Unblock, MayPut, Serving
<1>3. queue \in [Nodes -> Queue] /\ step \in [Nodes -> Phases] /\ hand \in [Nodes -> Hand]
  BY DEF TypeInv, NodesInv
<1>4. h \in Hand /\ h.item \in Packed /\ h.to \in Nodes /\ h.at \in Nat /\ h.route \in Routes
  BY <1>1, <1>2, <1>3, HandFields DEF TypeInv, NodesInv, Fits
<1>5. Waits(n, h)
  BY <1>1, <1>2 DEF WireInv, WaitsInv
<1>6. h.to \in Targets(n, h.route) /\ h.to # n
  BY <1>4, <1>5 DEF Waits, WellWired
<1>7. list \in Seq(Nodes) /\ Len(list) \in Nat
  BY <1>1, <1>4, HandFields, LenProperties DEF Serving, TypeInv, WiresInv
<1>8. \A x \in 1..Len(list) : list[x] \in Targets(n, h.route) /\ list[x] \in Nodes /\ list[x] # n
  <2>1. \A x \in 1..Len(list) : list[x] \in Targets(n, h.route)
    BY <1>1, <1>4, <1>5 DEF Serving, WireInv, ListsInv, Waits
  <2>. QED  BY <1>4, <2>1, TargetsType DEF WellWired
<1>9. PICK j : j = IF h.at + 1 > Len(list) THEN Len(list) + 1 ELSE Blocked(list, h.at + 1, q)
  OBVIOUS
<1>10. /\ j \in Nat /\ j <= Len(list) + 1
       /\ h.at + 1 <= j \/ j = Len(list) + 1
       /\ h.at + 1 <= Len(list) + 1 => h.at + 1 <= j
       /\ \A x \in h.at + 1..j - 1 : x \in 1..Len(list) /\ ~ Full(q, list[x])
  <2>1. CASE h.at + 1 > Len(list)
    BY <1>4, <1>7, <1>9, <2>1
  <2>2. CASE ~ (h.at + 1 > Len(list))
    <3>1. h.at + 1 \in 1..Len(list) + 1
      BY <1>4, <1>7, <2>2
    <3>2. PICK b : b = Blocked(list, h.at + 1, q)
      OBVIOUS
    <3>3. b \in h.at + 1..Len(list) + 1 /\ \A x \in h.at + 1..b - 1 : ~ Full(q, list[x])
      BY <1>7, <3>1, <3>2, BlockedIsFirst
    <3>4. j = b
      BY <1>9, <2>2, <3>2
    <3>. QED  BY <1>4, <1>7, <3>3, <3>4
  <2>. QED  BY <2>1, <2>2
<1>11. /\ \A m \in Nodes : q[m] = IF m = h.to THEN Append(queue[m], h.item) ELSE queue[m]
  BY <1>1, <1>3, <1>4
<1>12. PICK reached : reached = {list[x] : x \in h.at + 1..j - 1}
  OBVIOUS
<1>13. /\ \A m \in Nodes : queue'[m] = IF m \in reached THEN Append(q[m], h.item) ELSE q[m]
  <2>1. queue' = [m \in Nodes |-> IF m \in reached /\ ~ Full(q, m)
                                  THEN Append(q[m], h.item) ELSE q[m]]
    BY <1>2, <1>9, <1>12 DEF EmitFrom
  <2>2. \A m : m \in reached => ~ Full(q, m)
    BY <1>10, <1>12
  <2>. QED  BY <2>1, <2>2
<1>14. n \notin reached /\ queue'[n] = queue[n]
  <2>1. n \notin reached
    BY <1>8, <1>10, <1>12
  <2>. QED  BY <1>6, <1>11, <1>13, <2>1
<1>15. ASSUME Sound(h.item.vals[1])
       PROVE  /\ list = subs[n][h.route] /\ h.at \in 1..Len(list) /\ h.at <= j
              /\ \A m \in Nodes \ {n} :
                   queue'[m] = IF m \in Served(list, h.at, j) THEN Append(queue[m], h.item)
                                                              ELSE queue[m]
  <2>1. /\ list = subs[n][h.route] /\ h.at \in 1..Len(list) /\ list[h.at] = h.to
    BY <1>1, <1>5, <1>15 DEF Waits, Serving
  <2>2. \A x, y \in 1..Len(list) : list[x] = list[y] => x = y
    BY <1>4, <2>1 DEF WireInv, ListsInv
  <2>3. h.to \notin reached
    BY <1>4, <1>10, <1>12, <2>1, <2>2
  <2>4. h.at + 1 <= j
    BY <1>7, <1>10, <2>1
  <2>5. \A m : m \in Served(list, h.at, j) <=> m = h.to \/ m \in reached
    <3>1. \A x \in 1..Len(list) : h.at <= x /\ x < j <=> x = h.at \/ x \in h.at + 1..j - 1
      BY <1>4, <1>7, <1>10, <2>1, <2>4
    <3>2. \A x \in h.at + 1..j - 1 : x \in 1..Len(list)
      BY <1>10
    <3>. QED  BY <1>12, <2>1, <3>1, <3>2 DEF Served
  <2>6. \A m \in Nodes : queue'[m] = IF m = h.to \/ m \in reached THEN Append(queue[m], h.item)
                                                                  ELSE queue[m]
    BY <1>11, <1>13, <2>3
  <2>7. h.at <= j
    BY <1>4, <1>10, <2>4
  <2>. QED  BY <2>1, <2>5, <2>6, <2>7
<1>16. ASSUME NEW m \in Nodes \ {n}, NEW x \in 1..Len(queue'[m])
       PROVE  queue'[m][x] = h.item \/ (x <= Len(queue[m]) /\ queue'[m][x] = queue[m][x])
  <2>1. queue[m] \in Seq(Packed) /\ Len(queue[m]) \in Nat
    BY <1>3, LenProperties DEF Queue
  <2>2. PICK s : s = Append(queue[m], h.item)
    OBVIOUS
  <2>3. /\ s \in Seq(Packed) /\ Len(s) = Len(queue[m]) + 1 /\ s[Len(queue[m]) + 1] = h.item
        /\ \A y \in 1..Len(queue[m]) : s[y] = queue[m][y]
    BY <1>4, <2>1, <2>2, AppendProperties
  <2>4. PICK t : t = Append(s, h.item)
    OBVIOUS
  <2>5. /\ Len(t) = Len(s) + 1 /\ t[Len(s) + 1] = h.item
        /\ \A y \in 1..Len(s) : t[y] = s[y]
    BY <1>4, <2>3, <2>4, AppendProperties
  <2>6. queue'[m] \in {queue[m], s, t}
    BY <1>11, <1>13, <2>2, <2>4
  <2>7. CASE queue'[m] = queue[m]
    BY <2>1, <2>7
  <2>8. CASE queue'[m] = s
    BY <2>1, <2>3, <2>8
  <2>9. CASE queue'[m] = t
    BY <2>1, <2>3, <2>5, <2>9
  <2>. QED  BY <2>6, <2>7, <2>8, <2>9
<1>17. \A m \in Nodes \ {n} :
         IF Sound(h.item.vals[1])
           THEN queue'[m] = IF m \in Served(subs[n][h.route], h.at, j)
                            THEN Append(queue[m], h.item) ELSE queue[m]
           ELSE \A x \in 1..Len(queue'[m]) :
                  queue'[m][x] = h.item \/ (x <= Len(queue[m]) /\ queue'[m][x] = queue[m][x])
  BY <1>15, <1>16
<1>18. CASE j <= Len(list)
  <2>1. PICK g : g = [h EXCEPT !.at = j, !.to = list[j]]
    OBVIOUS
  <2>2. /\ g.item = h.item /\ g.route = h.route /\ g.at = j /\ g.to = list[j]
        /\ g.live = h.live /\ g.kept = h.kept
    BY <1>4, <2>1 DEF Hand
  <2>3. hand' = [hand EXCEPT ![n] = g] /\ step' = [step EXCEPT ![n] = "put"]
    BY <1>2, <1>9, <1>18, <2>1 DEF EmitFrom
  <2>4. /\ hand'[n] = g /\ step'[n] = "put"
        /\ \A m \in Nodes \ {n} : hand'[m] = hand[m] /\ step'[m] = step[m]
    BY <1>3, <2>3
  <2>5. Waits(n, g)
    <3>1. j \in 1..Len(list)
      BY <1>4, <1>7, <1>10, <1>18
    <3>. QED  BY <1>5, <1>8, <1>15, <2>2, <3>1 DEF Waits
  <2>6. PassesTo(n, 0, h.item, h.route, h.at, j)
    BY <1>14, <1>17, <2>2, <2>4, <2>5 DEF PassesTo
  <2>7. h.at <= j
    BY <1>4, <1>7, <1>10, <1>18
  <2>. QED  BY <1>1, <1>4, <1>5, <1>10, <2>6, <2>7 DEF PassOn
<1>19. CASE ~ (j <= Len(list))
  <2>1. PICK phase : phase = IF running'[n] THEN "get" ELSE "ended"
    OBVIOUS
  <2>2. hand' = [hand EXCEPT ![n] = EmptyHand] /\ step' = [step EXCEPT ![n] = phase]
    BY <1>2, <1>9, <1>19, <2>1 DEF EmitFrom
  <2>3. /\ hand'[n] = EmptyHand /\ step'[n] \in {"get", "ended"}
        /\ \A m \in Nodes \ {n} : hand'[m] = hand[m] /\ step'[m] = step[m]
    BY <1>3, <2>1, <2>2
  <2>4. PICK i : i = IF Sound(h.item.vals[1]) THEN j ELSE h.at
    OBVIOUS
  <2>5. i \in Nat /\ h.at <= i
    BY <1>4, <1>10, <1>15, <2>4
  <2>6. ASSUME Sound(h.item.vals[1])
        PROVE  i = Len(subs[n][h.route]) + 1
    <3>1. j = Len(list) + 1
      BY <1>7, <1>10, <1>19
    <3>2. i = j /\ list = subs[n][h.route]
      BY <1>15, <2>4, <2>6
    <3>. QED  BY <3>1, <3>2
  <2>7. PassesTo(n, 0, h.item, h.route, h.at, i)
    BY <1>14, <1>17, <2>3, <2>4, <2>6 DEF PassesTo
  <2>. QED  BY <1>1, <1>4, <1>5, <2>5, <2>7 DEF PassOn
<1>. QED  BY <1>18, <1>19

\* Of the hands nothing has changed but that of n, which does not wait now or waits
\* for what it may.
LEMMA WiresStay ==
  ASSUME NEW n, WireInv, UNCHANGED wireVars,
         \A m \in Nodes \ {n} : hand'[m] = hand[m] /\ (step'[m] = "put" => step[m] = "put"),
         n \in Nodes /\ step'[n] = "put" => Waits(n, hand'[n])
  PROVE  WireInv'
<1>1. ListsInv'
  BY DEF WireInv, ListsInv, wireVars
<1>2. ASSUME NEW m \in Nodes, step'[m] = "put"
      PROVE  Waits(m, hand'[m])
  BY <1>2 DEF WireInv, WaitsInv
<1>3. WaitsInv'
  <2> SUFFICES ASSUME NEW m \in Nodes, step'[m] = "put"
               PROVE  Waits(m, hand[m])'
    BY DEF WaitsInv
  <2>1. Waits(m, hand'[m])
    BY <1>2
  <2>. QED  BY <2>1 DEF Waits, Sound, wireVars
<1>. QED  BY <1>1, <1>3 DEF WireInv

LEMMA PassKeepsWires ==
  ASSUME WireInv, NEW n \in Nodes, NEW k, NEW item, NEW route, NEW i,
         PassOn(n, k, item, route, i), UNCHANGED wireVars
  PROVE  WireInv'
<1>1. PICK j \in Nat : PassesTo(n, k, item, route, i, j)
  BY DEF PassOn
<1>2. \A m \in Nodes \ {n} : hand'[m] = hand[m] /\ step'[m] = step[m]
  BY <1>1 DEF PassesTo
<1>3. step'[n] = "put" => Waits(n, hand'[n])
  BY <1>1 DEF PassesTo
<1>. QED  BY <1>2, <1>3, WiresStay

-----------------------------------------------------------------------------
(* Rewiring.                                                               *)

\* How one list may change: it stays, it gets shorter, or it gains one at the end.
Changed(list, new) ==
  new = list \/ Len(new) < Len(list) \/ \E t : new = Append(list, t)

Rewires(new) ==
  /\ new \in [Nodes -> [Routes -> Seq(Nodes)]]
  /\ \A n \in Nodes, r \in Routes :
       /\ Changed(subs[n][r], new[n][r])
       /\ \A x \in 1..Len(new[n][r]) : new[n][r][x] \in Targets(n, r)
       /\ \A x, y \in 1..Len(new[n][r]) : new[n][r][x] = new[n][r][y] => x = y

LEMMA WithoutList ==
  ASSUME NEW list \in Seq(Nodes), NEW n,
         \A x, y \in 1..Len(list) : list[x] = list[y] => x = y
  PROVE  /\ Changed(list, Without(list, n))
         /\ \A x \in 1..Len(Without(list, n)) :
              \E y \in 1..Len(list) : Without(list, n)[x] = list[y]
         /\ \A x, y \in 1..Len(Without(list, n)) :
              Without(list, n)[x] = Without(list, n)[y] => x = y
<1>1. Len(list) \in Nat /\ \A k \in 1..Len(list) : list[k] \in Nodes
  BY LenProperties, ElementOfSeq
<1>2. CASE ~ Has(list, n)
  BY <1>1, <1>2 DEF Without, Changed
<1>3. CASE Has(list, n)
  <2>1. PICK i : i = CHOOSE k \in 1..Len(list) : list[k] = n
    OBVIOUS
  <2>2. i \in 1..Len(list) /\ list[i] = n
    BY <1>3, <2>1 DEF Has
  <2>3. PICK s : s = [k \in 1..Len(list) - 1 |-> list[IF k < i THEN k ELSE k + 1]]
    OBVIOUS
  <2>4. Without(list, n) = s
    BY <1>3, <2>1, <2>3 DEF Without
  <2>5. \A k \in 1..Len(list) - 1 : /\ s[k] = list[IF k < i THEN k ELSE k + 1]
                                     /\ (IF k < i THEN k ELSE k + 1) \in 1..Len(list)
    BY <1>1, <2>2, <2>3
  <2>6. \A k \in 1..Len(list) - 1 : s[k] \in Nodes
    BY <1>1, <2>5
  <2>7. Len(list) - 1 \in Nat /\ s \in [1..Len(list) - 1 -> Nodes]
    BY <1>1, <2>2, <2>3, <2>6
  <2>8. s \in Seq(Nodes) /\ Len(s) = Len(list) - 1
    BY <2>7, SeqDef
  <2>9. \A x \in 1..Len(s) : \E y \in 1..Len(list) : s[x] = list[y]
    BY <2>5, <2>8
  <2>10. ASSUME NEW x \in 1..Len(s), NEW y \in 1..Len(s), s[x] = s[y]
         PROVE  x = y
    <3>1. PICK x1, y1 : x1 = (IF x < i THEN x ELSE x + 1) /\ y1 = (IF y < i THEN y ELSE y + 1)
      OBVIOUS
    <3>2. x1 \in 1..Len(list) /\ y1 \in 1..Len(list) /\ list[x1] = list[y1]
      BY <2>5, <2>8, <2>10, <3>1
    <3>3. x1 = y1
      BY <3>2
    <3>. QED  BY <1>1, <2>2, <2>8, <3>1, <3>3
  <2>11. Len(s) < Len(list)
    BY <1>1, <2>8
  <2>. QED  BY <2>4, <2>9, <2>10, <2>11 DEF Changed
<1>. QED  BY <1>2, <1>3

\* One list is replaced, the others stay.
LEMMA OneListRewires ==
  ASSUME TypeInv, ListsInv, NEW n \in Nodes, NEW r \in Routes, NEW list \in Seq(Nodes),
         Changed(subs[n][r], list), \A x \in 1..Len(list) : list[x] \in Targets(n, r),
         \A x, y \in 1..Len(list) : list[x] = list[y] => x = y
  PROVE  Rewires([subs EXCEPT ![n][r] = list])
<1>1. PICK new : new = [subs EXCEPT ![n][r] = list]
  OBVIOUS
<1>2. /\ new \in [Nodes -> [Routes -> Seq(Nodes)]]
      /\ \A m \in Nodes, s \in Routes :
           new[m][s] = IF m = n /\ s = r THEN list ELSE subs[m][s]
  BY <1>1 DEF TypeInv, WiresInv
<1>3. \A m \in Nodes, s \in Routes : Changed(subs[m][s], subs[m][s])
  BY DEF Changed
<1>4. ASSUME NEW m \in Nodes, NEW s \in Routes
      PROVE  /\ Changed(subs[m][s], new[m][s])
             /\ \A x \in 1..Len(new[m][s]) : new[m][s][x] \in Targets(m, s)
             /\ \A x, y \in 1..Len(new[m][s]) : new[m][s][x] = new[m][s][y] => x = y
  <2>1. CASE m = n /\ s = r
    BY <1>2, <2>1
  <2>2. CASE ~ (m = n /\ s = r)
    BY <1>2, <1>3, <2>2 DEF ListsInv
  <2>. QED  BY <2>1, <2>2
<1>5. Rewires(new)
  BY <1>2, <1>4 DEF Rewires
<1>. QED  BY <1>1, <1>5

LEMMA ConnectRewires ==
  ASSUME TypeInv, ListsInv, NEW c \in Controllers, NEW e \in Edges, Connect(c, e)
  PROVE  \E new : Rewires(new) /\ Rewire(new, FALSE)
<1>1. e[1] \in Nodes /\ e[2] \in Nodes /\ e[3] \in Routes /\ subs[e[1]][e[3]] \in Seq(Nodes)
  BY PipelineAssumption DEF TypeInv, WiresInv
<1>2. PICK old, list : /\ old = subs[e[1]][e[3]]
                       /\ list = IF Has(old, e[2]) THEN old ELSE Append(old, e[2])
  OBVIOUS
<1>3. /\ old \in Seq(Nodes) /\ Len(old) \in Nat
      /\ \A x \in 1..Len(old) : old[x] \in Targets(e[1], e[3])
      /\ \A x, y \in 1..Len(old) : old[x] = old[y] => x = y
  BY <1>1, <1>2, LenProperties DEF ListsInv
<1>4. e[2] \in Targets(e[1], e[3])
  BY DEF Targets
<1>5. /\ list \in Seq(Nodes) /\ Changed(old, list)
      /\ \A x \in 1..Len(list) : list[x] \in Targets(e[1], e[3])
      /\ \A x, y \in 1..Len(list) : list[x] = list[y] => x = y
  <2>1. CASE Has(old, e[2])
    BY <1>2, <1>3, <2>1 DEF Changed
  <2>2. CASE ~ Has(old, e[2])
    <3>1. /\ list = Append(old, e[2]) /\ list \in Seq(Nodes) /\ Len(list) = Len(old) + 1
          /\ list[Len(old) + 1] = e[2] /\ \A x \in 1..Len(old) : list[x] = old[x]
      <4>1. list = Append(old, e[2])
        BY <1>2, <2>2
      <4>2. e[2] \in Nodes /\ old \in Seq(Nodes)
        BY <1>1, <1>3
      <4>3. /\ Append(old, e[2]) \in Seq(Nodes) /\ Len(Append(old, e[2])) = Len(old) + 1
            /\ Append(old, e[2])[Len(old) + 1] = e[2]
            /\ \A x \in 1..Len(old) : Append(old, e[2])[x] = old[x]
        BY <4>2, AppendProperties
      <4>. QED  BY <4>1, <4>3
    <3>2. \A x \in 1..Len(old) : old[x] # e[2]
      BY <2>2 DEF Has
    <3>3. Changed(old, list)
      BY <3>1 DEF Changed
    <3>4. \A x \in 1..Len(list) : x \in 1..Len(old) \/ x = Len(old) + 1
      BY <1>3, <3>1
    <3>5. \A x \in 1..Len(list) : list[x] \in Targets(e[1], e[3])
      BY <1>3, <1>4, <3>1, <3>4
    <3>6. \A x, y \in 1..Len(list) : list[x] = list[y] => x = y
      BY <1>3, <3>1, <3>2, <3>4
    <3>. QED  BY <3>1, <3>3, <3>5, <3>6
  <2>. QED  BY <2>1, <2>2
<1>6. PICK new : new = [subs EXCEPT ![e[1]][e[3]] = list]
  OBVIOUS
<1>7. Rewires(new)
  BY <1>1, <1>2, <1>5, <1>6, OneListRewires
<1>8. new = [subs EXCEPT ![e[1]][e[3]] = IF Has(@, e[2]) THEN @ ELSE Append(@, e[2])]
  BY <1>1, <1>2, <1>6 DEF TypeInv, WiresInv
<1>. QED  BY <1>7, <1>8 DEF Connect

LEMMA DisconnectRewires ==
  ASSUME TypeInv, ListsInv, NEW e \in Edges, Disconnect(e)
  PROVE  \E new : Rewires(new) /\ (Rewire(new, FALSE) \/ Rewire(new, TRUE))
<1>1. e[1] \in Nodes /\ e[3] \in Routes /\ subs[e[1]][e[3]] \in Seq(Nodes)
  BY PipelineAssumption DEF TypeInv, WiresInv
<1>2. PICK old, list : /\ old = subs[e[1]][e[3]]
                       /\ list = IF Registered(e[2]) THEN Without(old, e[2]) ELSE <<>>
  OBVIOUS
<1>3. /\ old \in Seq(Nodes) /\ Len(old) \in Nat
      /\ \A x \in 1..Len(old) : old[x] \in Targets(e[1], e[3])
      /\ \A x, y \in 1..Len(old) : old[x] = old[y] => x = y
  BY <1>1, <1>2, LenProperties DEF ListsInv
<1>4. /\ list \in Seq(Nodes) /\ Changed(old, list)
      /\ \A x \in 1..Len(list) : list[x] \in Targets(e[1], e[3])
      /\ \A x, y \in 1..Len(list) : list[x] = list[y] => x = y
  <2>1. CASE list = Without(old, e[2])
    <3>1. /\ Changed(old, list)
          /\ \A x \in 1..Len(list) : \E y \in 1..Len(old) : list[x] = old[y]
          /\ \A x, y \in 1..Len(list) : list[x] = list[y] => x = y
      BY <1>3, <2>1, WithoutList
    <3>. QED  BY <1>3, <2>1, <3>1, WithoutType
  <2>2. CASE list = <<>>
    <3>1. list \in Seq(Nodes) /\ Len(list) = 0
      BY <2>2, EmptySeq
    <3>2. Len(old) = 0 => old = <<>>
      BY <1>3, EmptySeq
    <3>3. Changed(old, list)
      BY <1>3, <2>2, <3>1, <3>2 DEF Changed
    <3>. QED  BY <3>1, <3>3
  <2>. QED  BY <1>2, <2>1, <2>2
<1>5. PICK new : new = [subs EXCEPT ![e[1]][e[3]] = list]
  OBVIOUS
<1>6. Rewires(new)
  BY <1>1, <1>2, <1>4, <1>5, OneListRewires
<1>7. Rewire(new, FALSE) \/ Rewire(new, TRUE)
  <2>1. CASE Registered(e[2])
    <3>1. new = [subs EXCEPT ![e[1]][e[3]] = Without(@, e[2])]
      BY <1>1, <1>2, <1>5, <2>1 DEF TypeInv, WiresInv
    <3>. QED  BY <2>1, <3>1 DEF Disconnect
  <2>2. CASE ~ Registered(e[2])
    BY <1>2, <1>5, <2>2 DEF Disconnect
  <2>. QED  BY <2>1, <2>2
<1>. QED  BY <1>6, <1>7

LEMMA RemovedRewires ==
  ASSUME TypeInv, ListsInv, NEW c \in Controllers, Removed(c)
  PROVE  \E new : Rewires(new) /\ Rewire(new, FALSE)
<1>1. PICK n, new : /\ n = ctl[c].on
                    /\ new = [m \in Nodes |-> [r \in Routes |->
                         IF Registered(m) THEN Without(subs[m][r], n) ELSE subs[m][r]]]
  OBVIOUS
<1>2. ASSUME NEW m \in Nodes, NEW r \in Routes
      PROVE  /\ new[m][r] \in Seq(Nodes) /\ Changed(subs[m][r], new[m][r])
             /\ \A x \in 1..Len(new[m][r]) : new[m][r][x] \in Targets(m, r)
             /\ \A x, y \in 1..Len(new[m][r]) : new[m][r][x] = new[m][r][y] => x = y
  <2>1. PICK old, list : old = subs[m][r] /\ list = new[m][r]
    OBVIOUS
  <2>2. /\ old \in Seq(Nodes)
        /\ \A x \in 1..Len(old) : old[x] \in Targets(m, r)
        /\ \A x, y \in 1..Len(old) : old[x] = old[y] => x = y
    BY <2>1 DEF ListsInv, TypeInv, WiresInv
  <2>3. list = old \/ list = Without(old, n)
    BY <1>1, <2>1
  <2>4. /\ Changed(old, Without(old, n)) /\ Without(old, n) \in Seq(Nodes)
        /\ \A x \in 1..Len(Without(old, n)) : Without(old, n)[x] \in Targets(m, r)
        /\ \A x, y \in 1..Len(Without(old, n)) : Without(old, n)[x] = Without(old, n)[y] => x = y
    <3>1. \A x \in 1..Len(Without(old, n)) : \E y \in 1..Len(old) : Without(old, n)[x] = old[y]
      BY <2>2, WithoutList
    <3>. QED  BY <2>2, <3>1, WithoutList, WithoutType
  <2>5. CASE list = old
    BY <2>1, <2>2, <2>5 DEF Changed
  <2>6. CASE list = Without(old, n)
    BY <2>1, <2>4, <2>6
  <2>. QED  BY <2>3, <2>5, <2>6
<1>3. new \in [Nodes -> [Routes -> Seq(Nodes)]]
  BY <1>1, <1>2
<1>4. Rewires(new)
  BY <1>2, <1>3 DEF Rewires
<1>. QED  BY <1>1, <1>4 DEF Removed

\* What an edit does to emissions: a value is told apart from then on when its
\* list has changed and something was taken away; else its emission only finds
\* more at the end of its list.
LEMMA RewireSound ==
  ASSUME TypeInv, WireInv, NEW new, NEW whole, Rewires(new), Rewire(new, whole),
         UNCHANGED step
  PROVE  /\ subs' = new
         /\ \A v : Sound(v)' => Sound(v)
         /\ ~ cut' => ~ cut /\ \A n \in Nodes, r \in Routes : Extends(new[n][r], subs[n][r])
         /\ \A n \in Nodes : /\ hand'[n].item = hand[n].item /\ hand'[n].at = hand[n].at
                             /\ hand'[n].to = hand[n].to /\ hand'[n].route = hand[n].route
         /\ \A n \in Nodes : \A v \in ValuesOf(hand[n].item) :
              step[n] = "put" /\ Sound(v)' /\ hand[n].live
                => hand'[n] = hand[n] /\ Extends(new[n][hand[n].route], subs[n][hand[n].route])
<1> DEFINE changed(m) == step[m] = "put" /\ hand[m].live
                            /\ new[m][hand[m].route] # subs[m][hand[m].route]
           Lost(m) == [hand[m] EXCEPT !.live = FALSE,
                         !.kept = IF whole THEN subs[m][hand[m].route] ELSE <<>>]
<1>1. /\ subs' = new
      /\ cut' = (cut \/ \E m \in Nodes, r \in Routes : Len(new[m][r]) < Len(subs[m][r]))
      /\ edited' = edited \cup UNION {ValuesOf(hand[m].item) : m \in {x \in Nodes : changed(x)}}
      /\ hand' = [m \in Nodes |->
           IF changed(m) /\ new[m][hand[m].route] = <<>> THEN Lost(m) ELSE hand[m]]
  BY DEF Rewire
<1>2. \A v : Sound(v)' => Sound(v)
  BY <1>1 DEF Sound
<1>3. ASSUME NEW n \in Nodes, NEW r \in Routes, ~ (Len(new[n][r]) < Len(subs[n][r]))
      PROVE  Extends(new[n][r], subs[n][r])
  <2>1. PICK s, old : s = new[n][r] /\ old = subs[n][r]
    OBVIOUS
  <2>2. old \in Seq(Nodes) /\ Len(old) \in Nat
    BY <2>1, LenProperties DEF TypeInv, WiresInv
  <2>3. s = old \/ \E t : s = Append(old, t)
    BY <1>3, <2>1 DEF Rewires, Changed
  <2>4. CASE s = old
    BY <2>1, <2>2, <2>4 DEF Extends
  <2>5. ASSUME NEW t, s = Append(old, t)
        PROVE  Extends(s, old)
    <3>1. old \in Seq(Nodes \cup {t})
      BY <2>2, SeqMonotonic
    <3>2. Len(s) = Len(old) + 1 /\ \A x \in 1..Len(old) : s[x] = old[x]
      BY <2>5, <3>1, AppendProperties
    <3>. QED  BY <2>2, <3>2 DEF Extends
  <2>. QED  BY <2>1, <2>3, <2>4, <2>5
<1>4. ~ cut' => ~ cut /\ \A n \in Nodes, r \in Routes : Extends(new[n][r], subs[n][r])
  BY <1>1, <1>3
<1>5. ASSUME NEW n \in Nodes
      PROVE  /\ hand'[n].item = hand[n].item /\ hand'[n].at = hand[n].at
             /\ hand'[n].to = hand[n].to /\ hand'[n].route = hand[n].route
             /\ hand[n].route \in Routes
  <2>1. PICK h : h = hand[n]
    OBVIOUS
  <2>2. h \in Hand
    BY <2>1 DEF TypeInv, NodesInv
  <2>3. PICK g, kept : kept = (IF whole THEN subs[n][h.route] ELSE <<>>)
                       /\ g = [h EXCEPT !.live = FALSE, !.kept = kept]
    OBVIOUS
  <2>4. g.item = h.item /\ g.at = h.at /\ g.to = h.to /\ g.route = h.route
    BY <2>2, <2>3 DEF Hand
  <2>5. hand'[n] = h \/ hand'[n] = g
    BY <1>1, <2>1, <2>3
  <2>. QED  BY <2>1, <2>2, <2>4, <2>5, HandFields
<1>6. ASSUME NEW n \in Nodes, NEW v \in ValuesOf(hand[n].item), step[n] = "put", Sound(v)',
             hand[n].live
      PROVE  hand'[n] = hand[n] /\ Extends(new[n][hand[n].route], subs[n][hand[n].route])
  <2>1. CASE ~ changed(n)
    <3>1. new[n][hand[n].route] = subs[n][hand[n].route]
      BY <1>6, <2>1
    <3>2. Len(subs[n][hand[n].route]) \in Nat
      BY <1>5, LenProperties DEF TypeInv, WiresInv
    <3>3. Extends(new[n][hand[n].route], subs[n][hand[n].route])
      BY <3>1, <3>2 DEF Extends
    <3>4. hand'[n] = hand[n]
      BY <1>1, <2>1
    <3>. QED  BY <3>3, <3>4
  <2>2. CASE changed(n)
    <3>1. v \in edited'
      BY <1>1, <2>2
    <3>2. ~ cut'
      BY <1>6, <3>1 DEF Sound
    <3>3. PICK r \in Routes : r = hand[n].route
      BY <1>5
    <3>4. Extends(new[n][r], subs[n][r]) /\ new[n][r] \in Seq(Nodes) /\ subs[n][r] \in Seq(Nodes)
      BY <1>4, <3>2 DEF Rewires, TypeInv, WiresInv
    <3>5. new[n][r] # <<>>
      <4>1. Len(subs[n][r]) \in Nat /\ (Len(subs[n][r]) = 0 => subs[n][r] = <<>>)
        BY <3>4, LenProperties, EmptySeq
      <4>2. new[n][r] = <<>> => Len(new[n][r]) = 0
        BY EmptySeq
      <4>3. new[n][r] # subs[n][r]
        BY <2>2, <3>3
      <4>. QED  BY <3>4, <4>1, <4>2, <4>3 DEF Extends
    <3>6. hand'[n] = hand[n]
      BY <1>1, <3>3, <3>5
    <3>. QED  BY <3>3, <3>4, <3>6
  <2>. QED  BY <2>1, <2>2
<1>. QED  BY <1>1, <1>2, <1>4, <1>5, <1>6

LEMMA ExtendsTwice ==
  ASSUME NEW one, NEW two, NEW three, Extends(two, one), Extends(three, two),
         Len(one) \in Nat, Len(two) \in Nat, Len(three) \in Nat
  PROVE  Extends(three, one)
  BY DEF Extends

LEMMA RewireKeepsWires ==
  ASSUME TypeInv, WireInv, NEW new, NEW whole \in BOOLEAN, Rewires(new), Rewire(new, whole),
         UNCHANGED step
  PROVE  WireInv'
<1>1. ListsInv'
  <2> SUFFICES ASSUME NEW n \in Nodes, NEW r \in Routes
               PROVE  /\ \A x \in 1..Len(new[n][r]) : new[n][r][x] \in Targets(n, r)
                      /\ \A x, y \in 1..Len(new[n][r]) : new[n][r][x] = new[n][r][y] => x = y
                      /\ ~ cut' => Extends(new[n][r], Wiring[n][r])
    BY RewireSound DEF ListsInv
  <2>1. ASSUME ~ cut'
        PROVE  Extends(new[n][r], Wiring[n][r])
    <3>1. Extends(new[n][r], subs[n][r]) /\ Extends(subs[n][r], Wiring[n][r])
      BY <2>1, RewireSound DEF WireInv, ListsInv
    <3>2. /\ Len(new[n][r]) \in Nat /\ Len(subs[n][r]) \in Nat /\ Len(Wiring[n][r]) \in Nat
      BY LenProperties, PipelineAssumption DEF Rewires, TypeInv, WiresInv
    <3>. QED  BY <3>1, <3>2, ExtendsTwice
  <2>. QED  BY <2>1 DEF Rewires
<1>2. WaitsInv'
  <2> SUFFICES ASSUME NEW n \in Nodes, step[n] = "put"
               PROVE  Waits(n, hand[n])'
    BY DEF WaitsInv
  <2>1. PICK h, g : h = hand[n] /\ g = hand'[n]
    OBVIOUS
  <2>2. /\ Waits(n, h) /\ h \in Hand /\ h.item \in Packed /\ h.route \in Routes
    BY <2>1, HandFields DEF WireInv, WaitsInv, TypeInv, NodesInv, Fits
  <2>3. g.item = h.item /\ g.at = h.at /\ g.to = h.to /\ g.route = h.route
    BY <2>1, RewireSound
  <2>4. \A x \in 1..Len(g.kept) : g.kept[x] \in Targets(n, g.route)
    <3>1. CASE g = h
      BY <2>2, <3>1 DEF Waits
    <3>2. PICK kept : kept = IF whole THEN subs[n][h.route] ELSE <<>>
      OBVIOUS
    <3>3. CASE g = [h EXCEPT !.live = FALSE, !.kept = kept]
      <4>1. g.kept = kept
        BY <2>2, <3>3 DEF Hand
      <4>2. \A x \in 1..Len(kept) : kept[x] \in Targets(n, h.route)
        BY <2>2, <3>2, EmptySeq DEF WireInv, ListsInv
      <4>. QED  BY <2>3, <4>1, <4>2
    <3>4. g = h \/ g = [h EXCEPT !.live = FALSE, !.kept = kept]
      <4>1. hand' = [m \in Nodes |->
               IF (step[m] = "put" /\ hand[m].live
                     /\ new[m][hand[m].route] # subs[m][hand[m].route])
                  /\ new[m][hand[m].route] = <<>>
                 THEN [hand[m] EXCEPT !.live = FALSE,
                         !.kept = IF whole THEN subs[m][hand[m].route] ELSE <<>>]
                 ELSE hand[m]]
        BY DEF Rewire
      <4>. QED  BY <2>1, <3>2, <4>1
    <3>. QED  BY <3>1, <3>3, <3>4
  <2>5. ASSUME ~ cut'
        PROVE  g.route = Wired(n, g.item.route)
    BY <2>2, <2>3, <2>5, RewireSound DEF Waits
  <2>6. ASSUME Sound(g.item.vals[1])'
        PROVE  /\ g.live /\ g.at \in 1..Len(new[n][g.route]) /\ new[n][g.route][g.at] = g.to
    <3>1. PICK v : v = h.item.vals[1]
      OBVIOUS
    <3>2. v \in ValuesOf(h.item)
      <4>1. h.item.vals \in Seq(Values) /\ h.item.vals # <<>>
        BY <2>2, ItemFields DEF Packed
      <4>2. 1 \in 1..Len(h.item.vals)
        BY <4>1, LenProperties, EmptySeq
      <4>. QED  BY <3>1, <4>2 DEF ValuesOf
    <3>3. Sound(v)' /\ Sound(v)
      BY <2>3, <2>6, <3>1, RewireSound DEF Sound
    <3>4. h.live /\ h.at \in 1..Len(subs[n][h.route]) /\ subs[n][h.route][h.at] = h.to
      BY <2>2, <3>1, <3>3 DEF Waits
    <3>5. g = h /\ Extends(new[n][h.route], subs[n][h.route])
      BY <2>1, <3>2, <3>3, <3>4, RewireSound
    <3>6. Len(new[n][h.route]) \in Nat /\ Len(subs[n][h.route]) \in Nat
      BY <2>2, LenProperties DEF Rewires, TypeInv, WiresInv
    <3>. QED  BY <3>4, <3>5, <3>6 DEF Extends
  <2>7. subs' = new
    BY RewireSound
  <2>. QED  BY <2>1, <2>2, <2>3, <2>4, <2>5, <2>6, <2>7 DEF Waits
<1>. QED  BY <1>1, <1>2 DEF WireInv

-----------------------------------------------------------------------------
(* Every step, told apart by what it does to values.                        *)

Rest == <<buffer, collected, counted, forfeit, pushed>>

Quiet ==
  /\ UNCHANGED <<queue, hand, wireVars, Rest>>
  /\ \A n \in Nodes : step'[n] = step[n] \/ (step[n] = "ended" /\ step'[n] = "get")

Rewired == \E new : \E whole \in BOOLEAN :
  Rewires(new) /\ Rewire(new, whole) /\ UNCHANGED <<queue, step, Rest>>

Cancels(n) == Cancelled(n) /\ UNCHANGED <<wireVars, pushed>>

Handles(n) == Handle(n) /\ UNCHANGED <<wireVars, forfeit, pushed>>

Kinded == \/ Quiet \/ Push \/ Rewired
          \/ \E n \in Nodes : Cancels(n) \/ Handles(n) \/ Finish(n) \/ Unblock(n)

LEMMA StopNodeKinds ==
  ASSUME NEW n \in Nodes, StopNode(n), UNCHANGED <<wireVars, pushed>>
  PROVE  Kinded
  BY DEF StopNode, Kinded, Cancels, Handles

LEMMA StepKinds ==
  ASSUME TypeInv, ListsInv, [Next]_vars
  PROVE  Kinded
<1> USE DEF nodeVars, Rest
<1>1. step \in [Nodes -> Phases]
  BY DEF TypeInv, NodesInv
<1>2. CASE UNCHANGED vars
  BY <1>2 DEF vars, Kinded, Quiet
<1>3. CASE Push
  BY <1>3 DEF Kinded
<1>4. CASE Start
  BY <1>1, <1>4 DEF Start, Kinded, Quiet
<1>5. CASE SignalsEnd
  BY <1>5 DEF SignalsEnd, MaySignalsEnd, Kinded, Quiet
<1>6. ASSUME NEW n \in Nodes, NodeStep(n)
      PROVE  Kinded
  BY <1>6 DEF NodeStep, Take, Kinded, Handles
<1>7. ASSUME NEW c \in Controllers, Removed(c)
      PROVE  Kinded
  <2>1. PICK new : Rewires(new) /\ Rewire(new, FALSE)
    BY <1>7, RemovedRewires
  <2>. QED  BY <1>7, <2>1 DEF Removed, Kinded, Rewired
<1>8. ASSUME NEW c \in Controllers, Joined(c)
      PROVE  Kinded
  BY <1>8 DEF Joined, MayJoin, Kinded, Quiet
<1>9. ASSUME NEW c \in Controllers, StopNext(c)
      PROVE  Kinded
  <2>1. PICK n : n = Head(ctl[c].rest)
    OBVIOUS
  <2>2. n \in Nodes
    <3>1. ctl[c].rest \in Seq(Nodes) /\ ctl[c].rest # <<>>
      BY <1>9, CtlFields DEF StopNext, TypeInv, ControlInv
    <3>. QED  BY <2>1, <3>1, HeadTailProperties
  <2>3. CASE step[n] = "ended"
    BY <1>9, <2>1, <2>3 DEF StopNext, Kinded, Quiet
  <2>4. CASE step[n] # "ended"
    BY <1>9, <2>1, <2>2, <2>4, StopNodeKinds DEF StopNext
  <2>. QED  BY <2>3, <2>4
<1>10. ASSUME NEW c \in Controllers, StopDone(c)
       PROVE  Kinded
  BY <1>10 DEF StopDone, Kinded, Quiet
<1>11. ASSUME NEW c \in Controllers, StopAll(c)
       PROVE  Kinded
  <2>1. PICK on : on = ctl["signals"].on
    OBVIOUS
  <2>2. on \in Nodes \cup {NoNode}
    BY <2>1, CtlFields DEF TypeInv, ControlInv, Controllers
  <2>3. CASE c = "caller" /\ on # NoNode /\ step[on] # "ended"
    BY <1>11, <2>1, <2>2, <2>3 DEF StopAll, Kinded, Cancels
  <2>4. CASE ~ (c = "caller" /\ on # NoNode /\ step[on] # "ended")
    BY <1>11, <2>1, <2>4 DEF StopAll, Kinded, Quiet
  <2>. QED  BY <2>3, <2>4
<1>12. ASSUME NEW c \in Controllers, NEW e \in Edges, Connect(c, e)
       PROVE  Kinded
  <2>1. PICK new : Rewires(new) /\ Rewire(new, FALSE)
    BY <1>12, ConnectRewires
  <2>. QED  BY <1>12, <2>1 DEF Connect, Kinded, Rewired
<1>13. ASSUME NEW c \in Controllers, NEW n \in Pausable, SetActive(c, n)
       PROVE  Kinded
  BY <1>13 DEF SetActive, Kinded, Quiet
<1>14. ASSUME NEW c \in Controllers, NEW n \in Removable, Remove(c, n)
       PROVE  Kinded
  <2>1. n \in Nodes
    BY PipelineAssumption
  <2>. QED  BY <1>14, <2>1, StopNodeKinds DEF Remove
<1>15. ASSUME NEW c \in Controllers, NEW n \in Removable, Register(c, n)
       PROVE  Kinded
  <2>1. n \in Nodes
    BY PipelineAssumption
  <2>2. CASE UNCHANGED step
    BY <1>15, <2>2 DEF Register, Kinded, Quiet
  <2>3. CASE step' = [step EXCEPT ![n] = IF @ = "ended" THEN "get" ELSE @]
    <3>1. \A m \in Nodes : step'[m] = step[m] \/ (step[m] = "ended" /\ step'[m] = "get")
      BY <1>1, <2>1, <2>3
    <3>. QED  BY <1>15, <3>1 DEF Register, Kinded, Quiet
  <2>. QED  BY <1>15, <2>2, <2>3 DEF Register
<1>16. ASSUME NEW e \in Edges, Disconnect(e)
       PROVE  Kinded
  <2>1. PICK new : Rewires(new) /\ (Rewire(new, FALSE) \/ Rewire(new, TRUE))
    BY <1>16, DisconnectRewires
  <2>. QED  BY <1>16, <2>1 DEF Disconnect, Kinded, Rewired
<1>. QED  BY <1>2, <1>3, <1>4, <1>5, <1>6, <1>7, <1>8, <1>9, <1>10, <1>11, <1>12, <1>13,
             <1>14, <1>15, <1>16 DEF Next, ControlStep

\* What becomes of the item that a node takes from its queue.
Gone(n) == PassOn(n, 1, NoItem, Default, Len(subs[n][Default]) + 1)

Goes(n, item, route) ==
  /\ item \in Packed /\ PassOn(n, 1, item, route, 1)
  /\ ~ cut => route = Wired(n, item.route)

Dropped(n, item) ==
  counted' = counted \cup ValuesOf(item) /\ UNCHANGED <<buffer, collected>> /\ Gone(n)

Worked(n, item) ==
  /\ Kind[n] = "processor" /\ UNCHANGED <<buffer, collected, counted>>
  /\ step' = [step EXCEPT ![n] = "process"]
  /\ hand' = [hand EXCEPT ![n] = [EmptyHand EXCEPT !.item = item]]
  /\ queue' = [queue EXCEPT ![n] = Tail(@)]

Passed(n, item) ==
  /\ Kind[n] \in {"source", "errors", "filter"} \/ (Kind[n] = "router" /\ Raises(n, item))
  /\ UNCHANGED <<buffer, collected, counted>>
  /\ \E i \in {item, Marked(item)}, route \in Routes : Goes(n, i, route)

Routed(n, item) ==
  /\ Kind[n] = "router" /\ ~ Raises(n, item) /\ UNCHANGED <<buffer, collected, counted>>
  /\ \E route \in Routes : Goes(n, [item EXCEPT !.route = RouteOf[item.vals[1]]], route)

Filtered(n, item) ==
  /\ Kind[n] = "filter" /\ ~ (ValuesOf(item) \subseteq Passes)
  /\ UNCHANGED <<buffer, collected, counted>> /\ Gone(n)

Listed(n, item) ==
  /\ Kind[n] = "aggregator" /\ buffer' = <<>> /\ UNCHANGED <<collected, counted>>
  /\ \E route \in Routes : Goes(n, ListOf(item, buffer \o item.vals), route)

Buffered(n, item) ==
  /\ Kind[n] = "aggregator" /\ buffer' = buffer \o item.vals
  /\ UNCHANGED <<collected, counted>> /\ Gone(n)

Sunk(n, item) ==
  /\ Kind[n] = "sink" /\ UNCHANGED <<buffer, counted>> /\ Gone(n)
  /\ collected' = Append(collected, [vals |-> item.vals, list |-> item.list])

TakenUp(n, item) ==
  \/ Dropped(n, item) \/ Worked(n, item) \/ Passed(n, item) \/ Routed(n, item)
  \/ Filtered(n, item) \/ Listed(n, item) \/ Buffered(n, item) \/ Sunk(n, item)

LEMMA HandleKinds ==
  ASSUME WellWired, TypeInv, WireInv, NEW n \in Nodes, Handles(n)
  PROVE  /\ step[n] = "get" /\ queue[n] # <<>> /\ Head(queue[n]) \in Packed
         /\ TakenUp(n, Head(queue[n]))
<1>1. PICK item, rest : item = Head(queue[n]) /\ rest = [queue EXCEPT ![n] = Tail(@)]
  OBVIOUS
<1>2. step[n] = "get" /\ queue[n] # <<>> /\ UNCHANGED wireVars
  BY DEF Handles, Handle, MayTake
<1>3. queue[n] \in Queue
  BY DEF TypeInv, NodesInv
<1>4. item \in Packed /\ item \in Item
  BY <1>1, <1>2, <1>3, QueueSteps DEF Packed
<1>5. rest = [queue EXCEPT ![n] = IF 1 = 1 THEN Tail(@) ELSE @] /\ Default \in Routes
  BY <1>1, PipelineAssumption
<1>6. ASSUME Done(n, rest)
      PROVE  Gone(n)
  BY <1>2, <1>5, <1>6, DonePasses DEF Gone
<1>7. ASSUME NEW i \in Packed, Emit(n, i, rest)
      PROVE  \E route \in Routes : Goes(n, i, route)
  BY <1>2, <1>5, <1>7, EmitPasses DEF Goes
<1>8. \/ counted' = counted \cup ValuesOf(item) /\ Done(n, rest) /\ UNCHANGED <<buffer, collected>>
      \/ /\ Kind[n] = "processor"
         /\ step' = [step EXCEPT ![n] = "process"]
         /\ hand' = [hand EXCEPT ![n] = [EmptyHand EXCEPT !.item = item]]
         /\ queue' = rest /\ UNCHANGED <<buffer, collected, counted>>
      \/ Process(n, item, rest) /\ UNCHANGED counted
  BY <1>1 DEF Handles, Handle, MayTake
<1>9. ASSUME counted' = counted \cup ValuesOf(item) /\ Done(n, rest) /\ UNCHANGED <<buffer, collected>>
      PROVE  TakenUp(n, item)
  BY <1>6, <1>9 DEF Dropped, TakenUp
<1>10. ASSUME /\ Kind[n] = "processor"
              /\ step' = [step EXCEPT ![n] = "process"]
              /\ hand' = [hand EXCEPT ![n] = [EmptyHand EXCEPT !.item = item]]
              /\ queue' = rest /\ UNCHANGED <<buffer, collected, counted>>
       PROVE  TakenUp(n, item)
  BY <1>1, <1>10 DEF Worked, TakenUp
<1>11. ASSUME Process(n, item, rest) /\ UNCHANGED counted
       PROVE  TakenUp(n, item)
  <2>1. CASE Kind[n] \in {"source", "errors"} /\ Emit(n, item, rest) /\ UNCHANGED <<buffer, collected>>
    BY <1>4, <1>7, <1>11, <2>1 DEF Passed, TakenUp
  <2>7. CASE /\ Kind[n] \in {"router", "filter"} /\ Raises(n, item) /\ Emit(n, Marked(item), rest)
             /\ UNCHANGED <<buffer, collected>>
    <3>1. Marked(item) \in Packed
      BY <1>4, MarkedPacked
    <3>2. \E route \in Routes : Goes(n, Marked(item), route)
      BY <1>7, <2>7, <3>1
    <3>. QED  BY <1>11, <2>7, <3>2 DEF Passed, TakenUp
  <2>2. CASE /\ Kind[n] = "router" /\ ~ Raises(n, item)
             /\ Emit(n, [item EXCEPT !.route = RouteOf[item.vals[1]]], rest)
             /\ UNCHANGED <<buffer, collected>>
    <3>1. PICK i : i = [item EXCEPT !.route = RouteOf[item.vals[1]]]
      OBVIOUS
    <3>2. item.vals[1] \in Values
      <4>1. item.vals \in Seq(Values) /\ item.vals # <<>>
        BY <1>4, ItemFields DEF Packed
      <4>. QED  BY <4>1, EmptySeq, LenProperties, ElementOfSeq
    <3>3. RouteOf[item.vals[1]] \in Routes
      BY <3>2, PipelineAssumption
    <3>4. i \in Packed
      BY <1>4, <3>1, <3>3 DEF Packed, Item
    <3>5. \E route \in Routes : Goes(n, i, route)
      BY <1>7, <2>2, <3>1, <3>4
    <3>. QED  BY <1>11, <2>2, <3>1, <3>5 DEF Routed, TakenUp
  <2>3. CASE Kind[n] = "filter" /\ Emit(n, item, rest) /\ UNCHANGED <<buffer, collected>>
    BY <1>4, <1>7, <1>11, <2>3 DEF Passed, TakenUp
  <2>4. CASE /\ Kind[n] = "filter" /\ ~ (ValuesOf(item) \subseteq Passes) /\ Done(n, rest)
             /\ UNCHANGED <<buffer, collected>>
    BY <1>6, <1>11, <2>4 DEF Filtered, TakenUp
  <2>5. CASE Kind[n] = "aggregator" /\ Aggregated(n, item, rest) /\ UNCHANGED collected
    <3>1. PICK all : all = buffer \o item.vals
      OBVIOUS
    <3>2. CASE buffer' = <<>> /\ Emit(n, ListOf(item, all), rest)
      <4>1. PICK i : i = ListOf(item, all)
        OBVIOUS
      <4>2. i \in Packed
        BY <1>4, <3>1, <4>1, Gathered DEF TypeInv, ValuesInv
      <4>3. \E route \in Routes : Goes(n, i, route)
        BY <1>7, <3>2, <4>1, <4>2
      <4>. QED  BY <1>11, <2>5, <3>1, <3>2, <4>1, <4>3 DEF Listed, TakenUp
    <3>3. CASE buffer' = all /\ Done(n, rest)
      BY <1>6, <1>11, <2>5, <3>1, <3>3 DEF Buffered, TakenUp
    <3>. QED  BY <2>5, <3>1, <3>2, <3>3 DEF Aggregated
  <2>6. CASE /\ Kind[n] = "sink" /\ Done(n, rest) /\ UNCHANGED buffer
             /\ collected' = Append(collected, [vals |-> item.vals, list |-> item.list])
    BY <1>6, <1>11, <2>6 DEF Sunk, TakenUp
  <2>. QED  BY <1>11, <2>1, <2>2, <2>3, <2>4, <2>5, <2>6, <2>7 DEF Process
<1>. QED  BY <1>1, <1>2, <1>4, <1>8, <1>9, <1>10, <1>11

\* A processor that is through.
LEMMA FinishKinds ==
  ASSUME WellWired, TypeInv, WireInv, NEW n \in Nodes, Finish(n)
  PROVE  /\ step[n] = "process" /\ hand[n].item \in Packed
         /\ \/ /\ forfeit' = forfeit \cup ValuesOf(hand[n].item)
               /\ PassOn(n, 0, NoItem, Default, Len(subs[n][Default]) + 1)
            \/ /\ UNCHANGED forfeit
               /\ \E item \in Packed, route \in Routes :
                    /\ item.vals = hand[n].item.vals /\ item.list = hand[n].item.list
                    /\ item.route = hand[n].item.route
                    /\ PassOn(n, 0, item, route, 1)
                    /\ ~ cut => route = Wired(n, item.route)
<1>1. PICK item, result :
        /\ item = hand[n].item
        /\ result = IF Raises(n, item) THEN Marked(item) ELSE item
  OBVIOUS
<1>2. /\ step[n] = "process" /\ UNCHANGED wireVars
      /\ \/ Emit(n, result, queue) /\ UNCHANGED forfeit
         \/ Done(n, queue) /\ forfeit' = forfeit \cup ValuesOf(item)
  BY <1>1 DEF Finish
<1>3. item \in Packed /\ item \in Item
  BY <1>1, <1>2 DEF TypeInv, NodesInv, Fits, Packed
<1>4. /\ result \in Packed /\ result.vals = item.vals /\ result.list = item.list
      /\ result.route = item.route
  BY <1>1, <1>3 DEF Marked, Packed, Item
<1>5. PICK k : k = 0
  OBVIOUS
<1>6. queue = [queue EXCEPT ![n] = IF k = 1 THEN Tail(@) ELSE @]
  BY <1>5 DEF TypeInv, NodesInv
<1>7. ASSUME Done(n, queue)
      PROVE  PassOn(n, 0, NoItem, Default, Len(subs[n][Default]) + 1)
  <2>1. Done(n, [queue EXCEPT ![n] = IF k = 1 THEN Tail(@) ELSE @])
    BY <1>6, <1>7
  <2>2. Default \in Routes /\ k \in {0, 1} /\ (k = 1 => queue[n] # <<>>)
    BY <1>5, PipelineAssumption
  <2>3. PassOn(n, k, NoItem, Default, Len(subs[n][Default]) + 1)
    BY <2>1, <2>2, DonePasses
  <2>. QED  BY <1>5, <2>3
<1>8. ASSUME Emit(n, result, queue)
      PROVE  \E route \in Routes : /\ PassOn(n, 0, result, route, 1)
                                   /\ ~ cut => route = Wired(n, result.route)
  <2>1. Emit(n, result, [queue EXCEPT ![n] = IF k = 1 THEN Tail(@) ELSE @])
    BY <1>6, <1>8
  <2>2. k \in {0, 1} /\ (k = 1 => queue[n] # <<>>)
    BY <1>5
  <2>3. \E route \in Routes : /\ PassOn(n, k, result, route, 1)
                              /\ ~ cut => route = Wired(n, result.route)
    BY <1>2, <1>4, <2>1, <2>2, EmitPasses
  <2>. QED  BY <1>5, <2>3
<1>. QED  BY <1>1, <1>2, <1>3, <1>4, <1>7, <1>8

\* A processor works, a sink sends nothing, and an aggregator sends lists.
WorkInv == \A n \in Nodes :
  /\ step[n] = "process" => Kind[n] = "processor"
  /\ step[n] = "put" => Kind[n] # "sink" /\ (Kind[n] = "aggregator" => hand[n].item.list)

\* No hand changes but that of n.
LEMMA WorkStays ==
  ASSUME WorkInv, NEW n,
         \A m \in Nodes \ {n} : /\ hand'[m].item = hand[m].item
                                /\ step'[m] \in {step[m], "get", "ended"},
         n \in Nodes /\ step'[n] = "process" => Kind[n] = "processor",
         n \in Nodes /\ step'[n] = "put"
           => Kind[n] # "sink" /\ (Kind[n] = "aggregator" => hand'[n].item.list)
  PROVE  WorkInv'
  BY DEF WorkInv

LEMMA PassKeepsWork ==
  ASSUME WorkInv, NEW n \in Nodes, NEW k, NEW item, NEW route, NEW i,
         PassOn(n, k, item, route, i),
         step'[n] = "put" => Kind[n] # "sink" /\ (Kind[n] = "aggregator" => item.list)
  PROVE  WorkInv'
<1>1. PICK j \in Nat : PassesTo(n, k, item, route, i, j)
  BY DEF PassOn
<1>2. \A m \in Nodes \ {n} : hand'[m] = hand[m] /\ step'[m] = step[m]
  BY <1>1 DEF PassesTo
<1>3. \/ step'[n] \in {"get", "ended"}
      \/ step'[n] = "put" /\ hand'[n].item = item
  BY <1>1 DEF PassesTo
<1>. QED  BY <1>2, <1>3, WorkStays

\* Nothing emitted, nobody waits.
LEMMA GoneEnds ==
  ASSUME TypeInv', NEW n \in Nodes, NEW k, NEW route, NEW i, PassOn(n, k, NoItem, route, i)
  PROVE  hand'[n] = EmptyHand /\ step'[n] \in {"get", "ended"}
<1>1. PICK j \in Nat : PassesTo(n, k, NoItem, route, i, j)
  BY DEF PassOn
<1>2. NoItem.vals = <<>>
  BY Idles
<1>3. ~ (step'[n] = "put" /\ hand'[n].item = NoItem)
  BY <1>2 DEF TypeInv, NodesInv, Fits
<1>. QED  BY <1>1, <1>3 DEF PassesTo

LEMMA WireInit == Init => WireInv /\ WorkInv
<1> SUFFICES ASSUME Init
             PROVE  WireInv /\ WorkInv
  OBVIOUS
<1>1. subs = Wiring /\ \A n \in Nodes : step[n] = "ended"
  BY DEF Init
<1>2. ListsInv
  <2> SUFFICES ASSUME NEW n \in Nodes, NEW r \in Routes
               PROVE  /\ \A x \in 1..Len(subs[n][r]) : subs[n][r][x] \in Targets(n, r)
                      /\ \A x, y \in 1..Len(subs[n][r]) : subs[n][r][x] = subs[n][r][y] => x = y
                      /\ Extends(subs[n][r], Wiring[n][r])
    BY DEF ListsInv
  <2>1. Wiring[n][r] \in Seq(Nodes) /\ Len(Wiring[n][r]) \in Nat
    BY PipelineAssumption, LenProperties
  <2>2. \A x \in 1..Len(Wiring[n][r]) : Wiring[n][r][x] \in Targets(n, r)
    BY DEF Targets
  <2>3. Extends(Wiring[n][r], Wiring[n][r])
    BY <2>1 DEF Extends
  <2>. QED  BY <1>1, <2>2, <2>3, PipelineAssumption
<1>. QED  BY <1>1, <1>2 DEF WireInv, WaitsInv, WorkInv

LEMMA WorkedWires ==
  ASSUME TypeInv, WireInv, WorkInv, NEW n \in Nodes, NEW item, Worked(n, item), UNCHANGED wireVars
  PROVE  WireInv' /\ WorkInv'
<1>1. step \in [Nodes -> Phases] /\ hand \in [Nodes -> Hand]
  BY DEF TypeInv, NodesInv
<1>2. /\ step'[n] = "process" /\ Kind[n] = "processor"
      /\ \A m \in Nodes \ {n} : hand'[m] = hand[m] /\ step'[m] = step[m]
  BY <1>1 DEF Worked
<1>3. WireInv'
  BY <1>2, WiresStay
<1>4. WorkInv'
  BY <1>2, WorkStays
<1>. QED  BY <1>3, <1>4

LEMMA WireStep ==
  ASSUME WellWired, TypeInv, TypeInv', WireInv, WorkInv, Kinded
  PROVE  WireInv' /\ WorkInv'
<1>1. /\ step \in [Nodes -> Phases] /\ hand \in [Nodes -> Hand]
  BY DEF TypeInv, NodesInv
<1>2. ASSUME UNCHANGED wireVars, NEW n, \A m \in Nodes \ {n} : hand'[m] = hand[m],
             \A m \in Nodes \ {n} : step'[m] = step[m] \/ step'[m] \in {"get", "ended"},
             n \in Nodes => step'[n] \in {"get", "ended"}
      PROVE  WireInv' /\ WorkInv'
  <2>1. \A m \in Nodes \ {n} : step'[m] = "put" => step[m] = "put"
    BY <1>2
  <2>2. WireInv'
    BY <1>2, <2>1, WiresStay
  <2>3. WorkInv'
    BY <1>2, WorkStays
  <2>. QED  BY <2>2, <2>3
<1>3. CASE Quiet
  <2>1. PICK n : n \notin Nodes
    BY PipelineAssumption
  <2>2. UNCHANGED wireVars /\ hand' = hand
    BY <1>3 DEF Quiet
  <2>3. \A m \in Nodes : step'[m] = step[m] \/ step'[m] \in {"get", "ended"}
    BY <1>3 DEF Quiet
  <2>. QED  BY <1>2, <2>1, <2>2, <2>3
<1>4. CASE Push
  <2>1. PICK n : n \notin Nodes
    BY PipelineAssumption
  <2>2. UNCHANGED wireVars /\ hand' = hand /\ step' = step
    BY <1>4 DEF Push
  <2>. QED  BY <1>2, <2>1, <2>2
<1>5. CASE Rewired
  <2>0. PICK new : \E whole \in BOOLEAN : Rewires(new) /\ Rewire(new, whole) /\ UNCHANGED step
    BY <1>5 DEF Rewired
  <2>1. PICK whole \in BOOLEAN : Rewires(new) /\ Rewire(new, whole) /\ UNCHANGED step
    BY <2>0
  <2>2. WireInv'
    BY <2>1, RewireKeepsWires
  <2>3. \A n \in Nodes : hand'[n].item = hand[n].item
    BY <2>1, RewireSound
  <2>4. WorkInv'
    BY <2>1, <2>3 DEF WorkInv
  <2>. QED  BY <2>2, <2>4
<1>6. ASSUME NEW n \in Nodes, Cancels(n)
      PROVE  WireInv' /\ WorkInv'
  <2>1. UNCHANGED wireVars /\ step'[n] = "ended"
        /\ \A m \in Nodes \ {n} : hand'[m] = hand[m] /\ step'[m] = step[m]
    BY <1>1, <1>6 DEF Cancels, Cancelled
  <2>. QED  BY <1>2, <2>1
<1>7. ASSUME NEW n \in Nodes, Unblock(n)
      PROVE  WireInv' /\ WorkInv'
  <2>1. UNCHANGED wireVars /\ step[n] = "put"
    BY <1>7 DEF Unblock, MayPut
  <2>2. PassOn(n, 0, hand[n].item, hand[n].route, hand[n].at)
    BY <1>7, UnblockPasses
  <2>3. WireInv'
    BY <2>1, <2>2, PassKeepsWires
  <2>4. Kind[n] # "sink" /\ (Kind[n] = "aggregator" => hand[n].item.list)
    BY <2>1 DEF WorkInv
  <2>5. WorkInv'
    BY <2>2, <2>4, PassKeepsWork
  <2>. QED  BY <2>3, <2>5
<1>8. ASSUME NEW n \in Nodes, Finish(n)
      PROVE  WireInv' /\ WorkInv'
  <2>1. UNCHANGED wireVars /\ Kind[n] = "processor"
    BY <1>8 DEF Finish, WorkInv
  <2>2. CASE PassOn(n, 0, NoItem, Default, Len(subs[n][Default]) + 1)
    BY <2>1, <2>2, PassKeepsWires, PassKeepsWork
  <2>3. CASE \E item \in Packed, route \in Routes : PassOn(n, 0, item, route, 1)
    BY <2>1, <2>3, PassKeepsWires, PassKeepsWork
  <2>. QED  BY <1>8, <2>2, <2>3, FinishKinds
<1>9. ASSUME NEW n \in Nodes, Handles(n)
      PROVE  WireInv' /\ WorkInv'
  <2>1. PICK item : item = Head(queue[n]) /\ item \in Packed
    BY <1>9, HandleKinds
  <2>2. UNCHANGED wireVars /\ TakenUp(n, item)
    BY <1>9, <2>1, HandleKinds DEF Handles
  <2>3. CASE Gone(n)
    <3>1. step'[n] # "put"
      BY <2>3, GoneEnds DEF Gone
    <3>. QED  BY <2>2, <2>3, <3>1, PassKeepsWires, PassKeepsWork DEF Gone
  <2>4. ASSUME NEW i, NEW route, Goes(n, i, route), Kind[n] # "sink",
               Kind[n] = "aggregator" => i.list
        PROVE  WireInv' /\ WorkInv'
    BY <2>2, <2>4, PassKeepsWires, PassKeepsWork DEF Goes
  <2>5. CASE Passed(n, item)
    BY <2>4, <2>5 DEF Passed
  <2>6. CASE Routed(n, item)
    BY <2>4, <2>6 DEF Routed
  <2>7. CASE Listed(n, item)
    <3>1. PICK i : i = ListOf(item, buffer \o item.vals)
      OBVIOUS
    <3>2. i.list
      BY <2>1, <3>1 DEF ListOf, Packed, Item
    <3>. QED  BY <2>4, <2>7, <3>1, <3>2 DEF Listed
  <2>8. CASE Worked(n, item)
    BY <2>2, <2>8, WorkedWires
  <2>. QED  BY <2>2, <2>3, <2>5, <2>6, <2>7, <2>8 DEF TakenUp, Dropped, Filtered, Buffered, Sunk
<1>. QED  BY <1>3, <1>4, <1>5, <1>6, <1>7, <1>8, <1>9 DEF Kinded

-----------------------------------------------------------------------------
(* The way of a value: where it lies, and who is ahead of whom.             *)

Places == Nodes \cup {NoNode}

Alone(item, v) == ~ item.list /\ item.vals = <<v>>

\* n waits in an emission that has passed the one who stands on the way.
Sent(way, n) ==
  /\ step[n] = "put"
  /\ \E x \in 1..Len(subs[n][hand[n].route]) :
       x < hand[n].at /\ subs[n][hand[n].route][x] \in Line(way)

\* v lies at the place i of n: 0 is its hand, 1 the head of its queue; the sink's
\* values lie nowhere in the order they came.
Lies(way, v, n, i) ==
  \/ n = NoNode /\ i \in 1..Len(collected) /\ Alone(collected[i], v)
  \/ n \in Line(way) /\ i = 0 /\ Alone(hand[n].item, v) /\ ~ Sent(way, n)
  \/ n \in Line(way) /\ i \in 1..Len(queue[n]) /\ Alone(queue[n][i], v)

\* The item of v is where its way goes, back nodes behind its route.
Bears(way, v, item, n, back) ==
  \E d \in 1..Len(way[RouteOf[v]]) :
    way[RouteOf[v]][d] = n /\ item.route = Carried(way, RouteOf[v], d - back)

\* Nearer to the end of the way.
Ahead(way, r, n, i, m, j) ==
  \/ n = m /\ i < j
  \/ n = NoNode /\ \E d \in 1..Len(way[r]) : way[r][d] = m
  \/ \E c, d \in 1..Len(way[r]) : d < c /\ way[r][c] = n /\ way[r][d] = m

Once(way) == \A v \in Values : Sound(v) =>
  \A n, m \in Places, i, j \in Nat :
    Lies(way, v, n, i) /\ Lies(way, v, m, j) => n = m /\ i = j

Due(way) == \A v \in Values : Sound(v) =>
  \A n \in Places, i \in Nat : Lies(way, v, n, i) => Position(v) <= pushed

OnRoute(way) == ~ cut =>
  \A v \in Values, n \in Line(way) :
    /\ \A i \in 1..Len(queue[n]) : Alone(queue[n][i], v) => Bears(way, v, queue[n][i], n, 1)
    /\ Alone(hand[n].item, v) => Bears(way, v, hand[n].item, n, IF step[n] = "put" THEN 0 ELSE 1)

InOrder(way) == ~ cut =>
  \A u, v \in Values : RouteOf[u] = RouteOf[v] =>
    \A n, m \in Places, i, j \in Nat :
      Lies(way, u, n, i) /\ Lies(way, v, m, j) /\ Ahead(way, RouteOf[u], n, i, m, j)
        => Position(u) < Position(v)

WayInv(way) == Once(way) /\ Due(way) /\ OnRoute(way) /\ InOrder(way)

\* What a step does to the places: from s the items move up by k, and the one
\* that was then in hand may go to the end, e, of t.  There is no t that is s.
Onward(way, r, s, t) == \E d \in 1..Len(way[r]) :
  way[r][d] = s /\ t = IF d = Len(way[r]) THEN NoNode ELSE way[r][d + 1]

Moves(way, s, k, t, e) ==
  /\ \A v \in Values : Sound(v)' => Sound(v)
  /\ ~ cut' => ~ cut
  /\ \A v \in Values, n \in Places, i \in Nat :
       Sound(v)' /\ Lies(way, v, n, i)' =>
         \/ n # s /\ Lies(way, v, n, i)
         \/ n = s /\ Lies(way, v, s, i + k)
         \/ /\ t # s /\ n = t /\ i = e /\ Lies(way, v, s, k)
            /\ \A u \in Values : Sound(u)' => ~ Lies(way, u, s, 0)'
            /\ ~ cut' => Onward(way, RouteOf[v], s, t)
  /\ t # s => \A u \in Values, j \in Nat : Lies(way, u, t, j) => j < e

LEMMA OnceMoves ==
  ASSUME NEW way, NEW s \in Places, NEW k \in Nat, NEW t \in Places, NEW e \in Nat,
         Moves(way, s, k, t, e), Once(way)
  PROVE  Once(way)'
<1> SUFFICES ASSUME NEW v \in Values, Sound(v)', NEW n \in Places, NEW m \in Places,
                    NEW i \in Nat, NEW j \in Nat, Lies(way, v, n, i)', Lies(way, v, m, j)'
             PROVE  n = m /\ i = j
  BY DEF Once
<1>1. Sound(v)
  BY DEF Moves
<1>2. /\ i + k \in Nat /\ j + k \in Nat
      /\ \A n1, m1 \in Places, i1, j1 \in Nat :
           Lies(way, v, n1, i1) /\ Lies(way, v, m1, j1) => n1 = m1 /\ i1 = j1
  BY <1>1 DEF Once
<1>3. ASSUME NEW p \in Places, NEW x \in Nat, Lies(way, v, p, x)'
      PROVE  \/ p # s /\ Lies(way, v, p, x)
             \/ p = s /\ Lies(way, v, s, x + k)
             \/ t # s /\ p = t /\ x = e /\ Lies(way, v, s, k) /\ ~ Lies(way, v, s, 0)'
  BY <1>3 DEF Moves
<1>4. t # s => ~ Lies(way, v, t, e)
  BY DEF Moves
<1>5. CASE n # s /\ Lies(way, v, n, i)
  <2>1. CASE m # s /\ Lies(way, v, m, j)
    BY <1>2, <1>5, <2>1
  <2>2. CASE m = s /\ Lies(way, v, s, j + k)
    BY <1>2, <1>5, <2>2
  <2>3. CASE t # s /\ m = t /\ j = e /\ Lies(way, v, s, k)
    BY <1>2, <1>5, <2>3
  <2>. QED  BY <1>3, <2>1, <2>2, <2>3
<1>6. CASE n = s /\ Lies(way, v, s, i + k)
  <2>1. CASE m # s /\ Lies(way, v, m, j)
    BY <1>2, <1>6, <2>1
  <2>2. CASE m = s /\ Lies(way, v, s, j + k)
    <3>1. i + k = j + k
      BY <1>2, <1>6, <2>2
    <3>. QED  BY <1>6, <2>2, <3>1
  <2>3. CASE t # s /\ m = t /\ j = e /\ Lies(way, v, s, k) /\ ~ Lies(way, v, s, 0)'
    <3>1. i + k = k
      BY <1>2, <1>6, <2>3
    <3>2. i = 0
      BY <3>1
    <3>. QED  BY <1>6, <2>3, <3>2
  <2>. QED  BY <1>3, <2>1, <2>2, <2>3
<1>7. CASE t # s /\ n = t /\ i = e /\ Lies(way, v, s, k) /\ ~ Lies(way, v, s, 0)'
  <2>1. CASE m # s /\ Lies(way, v, m, j)
    BY <1>2, <1>7, <2>1
  <2>2. CASE m = s /\ Lies(way, v, s, j + k)
    <3>1. j + k = k
      BY <1>2, <1>7, <2>2
    <3>2. j = 0
      BY <3>1
    <3>. QED  BY <1>7, <2>2, <3>2
  <2>3. CASE t # s /\ m = t /\ j = e
    BY <1>7, <2>3
  <2>. QED  BY <1>3, <2>1, <2>2, <2>3
<1>. QED  BY <1>3, <1>5, <1>6, <1>7

LEMMA DueMoves ==
  ASSUME NEW way, NEW s \in Places, NEW k \in Nat, NEW t \in Places, NEW e \in Nat,
         Moves(way, s, k, t, e), Due(way), UNCHANGED pushed
  PROVE  Due(way)'
<1> SUFFICES ASSUME NEW v \in Values, Sound(v)', NEW n \in Places, NEW i \in Nat,
                    Lies(way, v, n, i)'
             PROVE  Position(v) <= pushed
  BY DEF Due
<1>1. Sound(v) /\ i + k \in Nat
  BY DEF Moves
<1>2. \E m \in Places, j \in Nat : Lies(way, v, m, j)
  BY <1>1 DEF Moves
<1>. QED  BY <1>1, <1>2 DEF Due

\* With no repetition on the way nobody is between s and the next, and nobody
\* behind the end.
LEMMA OrderMoves ==
  ASSUME NEW way, way \in [Routes -> Seq(Nodes)], RouteOf \in [Values -> Routes],
         \A r \in Routes : \A c, d \in 1..Len(way[r]) : way[r][c] = way[r][d] => c = d,
         NEW s \in Places, NEW k \in Nat, NEW t \in Places, NEW e \in Nat,
         Moves(way, s, k, t, e), InOrder(way)
  PROVE  InOrder(way)'
<1> SUFFICES ASSUME ~ cut', NEW u \in Values, NEW v \in Values, RouteOf[u] = RouteOf[v],
                    NEW n \in Places, NEW m \in Places, NEW i \in Nat, NEW j \in Nat,
                    Lies(way, u, n, i)', Lies(way, v, m, j)',
                    Ahead(way, RouteOf[u], n, i, m, j)
             PROVE  Position(u) < Position(v)
  BY DEF InOrder, Ahead
<1>1. PICK r \in Routes : r = RouteOf[u] /\ r = RouteOf[v]
  OBVIOUS
<1>2. PICK list \in Seq(Nodes) : /\ list = way[r]
                                 /\ \A c, d \in 1..Len(list) : list[c] = list[d] => c = d
  OBVIOUS
<1>3. /\ Len(list) \in Nat /\ NoNode \notin Nodes
      /\ \A d \in 1..Len(list) : list[d] \in Nodes
  BY LenProperties, ElementOfSeq, PipelineAssumption
<1>4. ~ cut /\ \A w : Sound(w)'
  BY DEF Moves, Sound
<1>5. ASSUME NEW w \in Values, RouteOf[w] = r, NEW p \in Places, NEW x \in Nat,
             Lies(way, w, p, x)'
      PROVE  \/ p # s /\ Lies(way, w, p, x) /\ (t # s /\ p = t => x < e)
             \/ p = s /\ Lies(way, w, s, x + k)
             \/ /\ t # s /\ p = t /\ x = e /\ Lies(way, w, s, k) /\ Onward(way, r, s, t)
                /\ \A y \in Values : ~ Lies(way, y, s, 0)'
  BY <1>4, <1>5 DEF Moves
<1>6. /\ i + k \in Nat /\ j + k \in Nat
      /\ \A n1, m1 \in Places, i1, j1 \in Nat :
           Lies(way, u, n1, i1) /\ Lies(way, v, m1, j1) /\ Ahead(way, r, n1, i1, m1, j1)
             => Position(u) < Position(v)
  BY <1>1, <1>4 DEF InOrder
<1>7. \A p, q \in Places, x, y \in Nat :
        Ahead(way, r, p, x, q, y) <=> \/ p = q /\ x < y
                                      \/ p = NoNode /\ \E d \in 1..Len(list) : list[d] = q
                                      \/ \E c, d \in 1..Len(list) : d < c /\ list[c] = p /\ list[d] = q
  BY <1>2 DEF Ahead
<1>8. Onward(way, r, s, t) => \E d \in 1..Len(list) :
        list[d] = s /\ t = IF d = Len(list) THEN NoNode ELSE list[d + 1]
  BY <1>2 DEF Onward
<1>9. /\ Ahead(way, r, n, i, m, j)
      /\ \/ n = m /\ i < j
         \/ n = NoNode /\ \E d \in 1..Len(list) : list[d] = m
         \/ \E c, d \in 1..Len(list) : d < c /\ list[c] = n /\ list[d] = m
  BY <1>1, <1>7
<1>10. CASE n # s /\ Lies(way, u, n, i) /\ (t # s /\ n = t => i < e)
  <2>1. CASE m # s /\ Lies(way, v, m, j)
    BY <1>6, <1>9, <1>10, <2>1
  <2>2. CASE m = s /\ Lies(way, v, s, j + k)
    <3>1. Ahead(way, r, n, i, s, j + k)
      BY <1>6, <1>7, <1>9, <1>10, <2>2
    <3>. QED  BY <1>6, <1>10, <2>2, <3>1
  <2>3. CASE t # s /\ m = t /\ j = e /\ Lies(way, v, s, k) /\ Onward(way, r, s, t)
    <3>1. PICK d \in 1..Len(list) :
            list[d] = s /\ t = IF d = Len(list) THEN NoNode ELSE list[d + 1]
      BY <1>8, <2>3
    <3>2. s # NoNode
      BY <1>3, <3>1
    <3>3. Ahead(way, r, n, i, s, k)
      <4>1. CASE n = t
        <5>1. CASE d = Len(list)
          BY <1>7, <3>1, <3>2, <4>1, <5>1
        <5>2. CASE d # Len(list)
          <6>1. d + 1 \in 1..Len(list) /\ d < d + 1 /\ list[d + 1] = n
            BY <1>3, <3>1, <4>1, <5>2
          <6>. QED  BY <1>7, <3>1, <6>1
        <5>. QED  BY <5>1, <5>2
      <4>2. CASE n = NoNode
        BY <1>7, <3>1, <4>2
      <4>3. CASE \E c, b \in 1..Len(list) : b < c /\ list[c] = n /\ list[b] = t
        <5>1. PICK c \in 1..Len(list), b \in 1..Len(list) : b < c /\ list[c] = n /\ list[b] = t
          BY <4>3
        <5>2. d # Len(list)
          BY <1>3, <3>1, <5>1
        <5>3. d + 1 \in 1..Len(list) /\ list[d + 1] = list[b]
          BY <1>3, <3>1, <5>1, <5>2
        <5>4. b = d + 1
          BY <1>2, <5>3
        <5>5. d < c
          BY <1>3, <5>1, <5>4
        <5>. QED  BY <1>7, <3>1, <5>1, <5>5
      <4>. QED  BY <1>7, <1>9, <2>3, <4>1, <4>2, <4>3
    <3>. QED  BY <1>6, <1>10, <2>3, <3>3
  <2>. QED  BY <1>1, <1>5, <2>1, <2>2, <2>3
<1>11. CASE n = s /\ Lies(way, u, s, i + k)
  <2>1. CASE m # s /\ Lies(way, v, m, j)
    <3>1. Ahead(way, r, s, i + k, m, j)
      BY <1>6, <1>7, <1>9, <1>11, <2>1
    <3>. QED  BY <1>6, <1>11, <2>1, <3>1
  <2>2. CASE m = s /\ Lies(way, v, s, j + k)
    <3>1. i < j => i + k < j + k
      OBVIOUS
    <3>2. Ahead(way, r, s, i + k, s, j + k)
      BY <1>6, <1>7, <1>9, <1>11, <2>2, <3>1
    <3>. QED  BY <1>6, <1>11, <2>2, <3>2
  <2>3. CASE t # s /\ m = t /\ j = e /\ Lies(way, v, s, k) /\ Onward(way, r, s, t)
    <3>1. PICK d \in 1..Len(list) :
            list[d] = s /\ t = IF d = Len(list) THEN NoNode ELSE list[d + 1]
      BY <1>8, <2>3
    <3>2. s # NoNode
      BY <1>3, <3>1
    <3>3. PICK c \in 1..Len(list), b \in 1..Len(list) : b < c /\ list[c] = s /\ list[b] = t
      BY <1>9, <1>11, <2>3, <3>2
    <3>4. c = d /\ d # Len(list)
      BY <1>2, <1>3, <3>1, <3>3
    <3>5. d + 1 \in 1..Len(list) /\ list[d + 1] = list[b]
      BY <1>3, <3>1, <3>3, <3>4
    <3>6. b = d + 1
      BY <1>2, <3>5
    <3>. QED  BY <3>3, <3>4, <3>6
  <2>. QED  BY <1>1, <1>5, <2>1, <2>2, <2>3
<1>12. CASE /\ t # s /\ n = t /\ i = e /\ Lies(way, u, s, k) /\ Onward(way, r, s, t)
            /\ \A y \in Values : ~ Lies(way, y, s, 0)'
  <2>0. PICK d \in 1..Len(list) :
          list[d] = s /\ t = IF d = Len(list) THEN NoNode ELSE list[d + 1]
    BY <1>8, <1>12
  <2>1. CASE m # s /\ Lies(way, v, m, j) /\ (t # s /\ m = t => j < e)
    <3>1. \E b \in 1..Len(list) : b < d /\ list[b] = m
      <4>1. CASE t = NoNode
        <5>1. d = Len(list)
          BY <1>3, <2>0, <4>1
        <5>2. PICK b \in 1..Len(list) : list[b] = m
          BY <1>3, <1>9, <1>12, <2>1, <4>1
        <5>3. b # d
          BY <2>0, <2>1, <5>2
        <5>4. b < d
          BY <1>3, <5>1, <5>3
        <5>. QED  BY <5>2, <5>4
      <4>2. CASE t # NoNode
        <5>1. PICK c \in 1..Len(list), b \in 1..Len(list) : b < c /\ list[c] = t /\ list[b] = m
          BY <1>9, <1>12, <2>1, <4>2
        <5>2. d # Len(list) /\ d + 1 \in 1..Len(list) /\ list[d + 1] = list[c]
          BY <1>3, <2>0, <4>2, <5>1
        <5>3. c = d + 1
          BY <1>2, <5>2
        <5>4. b # d
          BY <2>0, <2>1, <5>1
        <5>5. b < d
          BY <5>1, <5>3, <5>4
        <5>. QED  BY <5>1, <5>5
      <4>. QED  BY <4>1, <4>2
    <3>2. Ahead(way, r, s, k, m, j)
      BY <1>7, <2>0, <3>1
    <3>. QED  BY <1>6, <1>12, <2>1, <3>2
  <2>2. CASE m = s /\ Lies(way, v, s, j + k)
    <3>1. j # 0
      BY <1>12, <2>2
    <3>2. k < j + k
      BY <3>1
    <3>3. Ahead(way, r, s, k, s, j + k)
      BY <1>6, <1>7, <3>2
    <3>. QED  BY <1>6, <1>12, <2>2, <3>3
  <2>3. CASE t # s /\ m = t /\ j = e
    <3>1. PICK c \in 1..Len(list), b \in 1..Len(list) : b < c /\ list[c] = list[b]
      <4>1. ~ (e < e)
        OBVIOUS
      <4>. QED  BY <1>3, <1>9, <1>12, <2>3, <4>1
    <3>2. c = b
      BY <1>2, <3>1
    <3>. QED  BY <3>1, <3>2
  <2>. QED  BY <1>1, <1>5, <2>1, <2>2, <2>3
<1>. QED  BY <1>1, <1>5, <1>10, <1>11, <1>12

LEMMA LineType ==
  ASSUME NEW way, OneWay(way)
  PROVE  Line(way) \subseteq Nodes /\ NoNode \notin Line(way)
<1>1. \A r \in Routes : way[r] \in Seq(Nodes)
  BY DEF OneWay
<1>2. \A r \in Routes : \A d \in 1..Len(way[r]) : way[r][d] \in Nodes
  BY <1>1, ElementOfSeq
<1>. QED  BY <1>2, PipelineAssumption DEF Line

LEMMA AloneOnes ==
  /\ \A item, v : Alone(item, v) => item.vals[1] = v /\ item.vals # <<>>
  /\ \A v : ~ Alone(NoItem, v) /\ ~ Alone(EmptyHand.item, v)
<1>1. ASSUME NEW item, NEW v, Alone(item, v)
      PROVE  item.vals[1] = v /\ item.vals # <<>>
  <2>1. Len(<<v>>) = 1 /\ <<v>>[1] = v /\ Len(<<>>) = 0
    BY EmptySeq
  <2>. QED  BY <1>1, <2>1 DEF Alone
<1>. QED  BY <1>1, Idles

\* What a passed item does to the queue of another node m, and to n's own.
LEMMA PassQueues ==
  ASSUME TypeInv, NEW n \in Nodes, NEW k \in {0, 1}, NEW item, NEW route, NEW i, NEW j,
         k = 1 => queue[n] # <<>>, PassesTo(n, k, item, route, i, j), UNCHANGED wireVars,
         NEW v, Sound(v), NEW m \in Nodes, NEW x \in 1..Len(queue'[m]), Alone(queue'[m][x], v)
  PROVE  /\ m = n => x + k \in 1..Len(queue[n]) /\ queue'[n][x] = queue[n][x + k]
         /\ m # n => \/ x \in 1..Len(queue[m]) /\ queue'[m][x] = queue[m][x]
                     \/ /\ queue'[m][x] = item /\ Alone(item, v) /\ x = Len(queue[m]) + 1
                        /\ m \in Served(subs[n][route], i, j)
<1>1. \A p \in Nodes : queue[p] \in Seq(Packed) /\ Len(queue[p]) \in Nat
  BY LenProperties DEF TypeInv, NodesInv, Queue
<1>2. CASE m = n
  <2>1. PICK s : s = queue[n]
    OBVIOUS
  <2>2. s \in Seq(Packed) /\ Len(s) \in Nat
    BY <1>1, <2>1
  <2>3. CASE k = 0
    BY <1>2, <2>1, <2>2, <2>3 DEF PassesTo
  <2>4. CASE k = 1
    <3>1. queue'[n] = Tail(s) /\ s # <<>>
      BY <2>1, <2>4 DEF PassesTo
    <3>2. Len(Tail(s)) = Len(s) - 1 /\ \A y \in 1..Len(Tail(s)) : Tail(s)[y] = s[y + 1]
      BY <2>2, <3>1, HeadTailProperties
    <3>. QED  BY <1>2, <2>1, <2>2, <2>4, <3>1, <3>2
  <2>. QED  BY <2>3, <2>4
<1>3. CASE m # n /\ Sound(item.vals[1])
  <2>1. CASE m \in Served(subs[n][route], i, j)
    <3>1. queue'[m] = Append(queue[m], item)
      BY <1>3, <2>1 DEF PassesTo
    <3>2. PICK s : s = queue[m]
      OBVIOUS
    <3>3. s \in Seq(Packed \cup {item}) /\ Len(s) \in Nat
      BY <1>1, <3>2, SeqMonotonic
    <3>4. /\ Len(Append(s, item)) = Len(s) + 1 /\ Append(s, item)[Len(s) + 1] = item
          /\ \A y \in 1..Len(s) : Append(s, item)[y] = s[y]
      BY <3>3, AppendProperties
    <3>5. x \in 1..Len(s) \/ x = Len(s) + 1
      BY <3>1, <3>2, <3>3, <3>4
    <3>. QED  BY <1>3, <2>1, <3>1, <3>2, <3>4, <3>5
  <2>2. CASE m \notin Served(subs[n][route], i, j)
    <3>1. queue'[m] = queue[m]
      BY <1>3, <2>2 DEF PassesTo
    <3>. QED  BY <1>3, <3>1
  <2>. QED  BY <2>1, <2>2
<1>4. CASE m # n /\ ~ Sound(item.vals[1])
  <2>1. queue'[m][x] = item \/ (x <= Len(queue[m]) /\ queue'[m][x] = queue[m][x])
    BY <1>4 DEF PassesTo
  <2>2. queue'[m][x] # item
    BY <1>4, AloneOnes
  <2>. QED  BY <1>1, <1>4, <2>1, <2>2
<1>. QED  BY <1>2, <1>3, <1>4

\* The places of values when n passes an item on that it had in its hand (k is 0)
\* or at the head of its queue.
Passing(way, n, k, item, route, i) ==
  /\ PassOn(n, k, item, route, i)
  /\ \A v \in Values : Alone(item, v) /\ n \in Line(way)
       /\ (\A x \in 1..Len(subs[n][route]) : x < i => subs[n][route][x] \notin Line(way))
       => Lies(way, v, n, k)
  /\ n \notin Line(way) /\ Kind[n] = "aggregator" => \A v \in Values : ~ Alone(item, v)
  /\ ~ cut => /\ route = Wired(n, item.route)
              /\ \A v \in Values : Alone(item, v) /\ n \in Line(way)
                   => Bears(way, v, item, n, 0) /\ Kind[n] # "sink"

\* Who is served on the way is the next one.
IsNext(way, n, item, route, i, j, v, t) ==
  /\ n \in Line(way) /\ t # n
  /\ \A u \in Line(way) : u \in Targets(n, route) => u = t
  /\ \E z \in 1..Len(subs[n][route]) : subs[n][route][z] = t /\ i <= z /\ z < j
  /\ ~ cut => Onward(way, RouteOf[v], n, t) /\ Bears(way, v, item, t, 1)

LEMMA ServedNext ==
  ASSUME NEW way, OneWay(way), TypeInv, WireInv, NEW n \in Nodes, NEW k \in {0, 1}, NEW item,
         NEW route \in Routes, NEW i \in Nat, NEW j \in Nat, Passing(way, n, k, item, route, i),
         NEW v \in Values, Alone(item, v), NEW t \in Line(way), t \in Served(subs[n][route], i, j)
  PROVE  IsNext(way, n, item, route, i, j, v, t)
<1>1. PICK z \in 1..Len(subs[n][route]) : subs[n][route][z] = t /\ i <= z /\ z < j
  BY DEF Served
<1>2. t \in Targets(n, route)
  BY <1>1 DEF WireInv, ListsInv
<1>3. n \in Line(way)
  BY <1>2 DEF Passing, OneWay
<1>4. t # n
  BY <1>2 DEF OneWay, WellWired
<1>5. \A u \in Line(way) : u \in Targets(n, route) => u = t
  BY <1>2, <1>3 DEF OneWay
<1>6. ASSUME ~ cut
      PROVE  Onward(way, RouteOf[v], n, t) /\ Bears(way, v, item, t, 1)
  <2>1. PICK r \in Routes : r = RouteOf[v]
    BY PipelineAssumption
  <2>2. /\ route = Wired(n, item.route) /\ Kind[n] # "sink"
        /\ \E d \in 1..Len(way[r]) : way[r][d] = n /\ item.route = Carried(way, r, d - 0)
    BY <1>3, <1>6, <2>1 DEF Passing, Bears
  <2>3. PICK d \in 1..Len(way[r]) : way[r][d] = n /\ item.route = Carried(way, r, d - 0)
    BY <2>2
  <2>4. way[r] \in Seq(Nodes) /\ Len(way[r]) \in Nat /\ d - 0 = d /\ (d + 1) - 1 = d
    BY LenProperties DEF OneWay
  <2>5. d # Len(way[r])
    BY <2>2, <2>3 DEF OneWay
  <2>6. d \in 1..Len(way[r]) - 1 /\ d + 1 \in 1..Len(way[r])
    BY <2>4, <2>5
  <2>7. Targets(n, route) \cap Line(way) \subseteq {way[r][d + 1]}
    BY <2>2, <2>3, <2>4, <2>6 DEF OneWay
  <2>8. t = way[r][d + 1]
    BY <1>2, <2>7
  <2>9. Onward(way, r, n, t)
    BY <2>3, <2>5, <2>8 DEF Onward
  <2>10. item.route = Carried(way, r, (d + 1) - 1)
    BY <2>3, <2>4
  <2>11. Bears(way, v, item, t, 1)
    BY <2>1, <2>6, <2>8, <2>10 DEF Bears
  <2>. QED  BY <2>1, <2>9, <2>11
<1>. QED  BY <1>1, <1>3, <1>4, <1>5, <1>6 DEF IsNext

LEMMA PassMoves ==
  ASSUME NEW way, OneWay(way), TypeInv, WireInv, NEW n \in Nodes, NEW k \in {0, 1}, NEW item,
         NEW route \in Routes, NEW i \in Nat, Passing(way, n, k, item, route, i),
         UNCHANGED <<wireVars, collected>>
  PROVE  \E t \in Places, e \in Nat : Moves(way, n, k, t, e)
<1>1. PICK j \in Nat : PassesTo(n, k, item, route, i, j) /\ i <= j
  BY DEF Passing, PassOn
<1>2. PICK list : list = subs[n][route] /\ list = subs'[n][route]
  BY DEF wireVars
<1>3. subs' = subs /\ cut' = cut /\ edited' = edited /\ collected' = collected
  BY DEF wireVars
<1>4. \A v : Sound(v)' <=> Sound(v)
  BY <1>3 DEF Sound
<1>5. n # NoNode /\ Line(way) \subseteq Nodes /\ NoNode \notin Line(way)
  BY LineType, PipelineAssumption
<1>6. \A m \in Nodes \ {n} : hand'[m] = hand[m] /\ step'[m] = step[m]
  BY <1>1 DEF PassesTo
<1>7. /\ list \in Seq(Nodes) /\ Len(list) \in Nat
      /\ \A x \in 1..Len(list) : list[x] \in Targets(n, route)
      /\ \A x, y \in 1..Len(list) : list[x] = list[y] => x = y
  <2>1. subs[n][route] \in Seq(Nodes)
    BY DEF TypeInv, WiresInv
  <2>2. list \in Seq(Nodes) /\ Len(list) \in Nat
    BY <1>2, <2>1, LenProperties
  <2>3. ListsInv
    BY DEF WireInv
  <2>. QED  BY <1>2, <2>2, <2>3 DEF ListsInv
<1>8. k = 1 => queue[n] # <<>>
  BY DEF Passing, PassOn
\* The hand of n, when the emission stops at j.
<1>9. \/ hand'[n] = EmptyHand
      \/ /\ hand'[n].item = item
         /\ Sent(way, n)' <=> \E x \in 1..Len(list) : x < j /\ list[x] \in Line(way)
  <2>1. CASE hand'[n] = EmptyHand
    BY <2>1
  <2>2. CASE step'[n] = "put" /\ hand'[n].item = item /\ hand'[n].route = route /\ hand'[n].at = j
    <3>1. Sent(way, n)' <=> \E x \in 1..Len(list) : x < j /\ list[x] \in Line(way)
      BY <1>2, <2>2 DEF Sent
    <3>. QED  BY <2>2, <3>1
  <2>. QED  BY <1>1, <2>1, <2>2 DEF PassesTo
\* Items that were there already.
<1>10. ASSUME NEW v \in Values, NEW p \in Places, NEW x \in Nat, Sound(v), Lies(way, v, p, x)'
       PROVE  \/ p # n /\ Lies(way, v, p, x)
              \/ p = n /\ Lies(way, v, n, x + k)
              \/ /\ p \in Line(way) /\ p # n /\ Alone(item, v) /\ x = Len(queue[p]) + 1
                 /\ p \in Served(list, i, j)
  <2>1. CASE p = NoNode /\ x \in 1..Len(collected') /\ Alone(collected'[x], v)
    BY <1>3, <1>5, <2>1 DEF Lies
  <2>2. CASE p \in Line(way) /\ p # n /\ x = 0 /\ Alone(hand'[p].item, v) /\ ~ Sent(way, p)'
    <3>1. hand'[p] = hand[p] /\ step'[p] = step[p]
      BY <1>5, <1>6, <2>2
    <3>2. Sent(way, p)' <=> Sent(way, p)
      BY <1>3, <3>1 DEF Sent
    <3>. QED  BY <2>2, <3>1, <3>2 DEF Lies
  <2>3. CASE p \in Line(way) /\ p = n /\ x = 0 /\ Alone(hand'[p].item, v) /\ ~ Sent(way, p)'
    <3>1. hand'[n].item = item /\ \A y \in 1..Len(list) : y < j => list[y] \notin Line(way)
      BY <1>9, <2>3, AloneOnes
    <3>3. \A y \in 1..Len(list) : y < i => list[y] \notin Line(way)
      BY <1>1, <3>1
    <3>4. Lies(way, v, n, k)
      BY <1>2, <2>3, <3>1, <3>3 DEF Passing
    <3>. QED  BY <2>3, <3>4
  <2>4. CASE p \in Line(way) /\ x \in 1..Len(queue'[p]) /\ Alone(queue'[p][x], v)
    <3>1. /\ p = n => x + k \in 1..Len(queue[n]) /\ queue'[n][x] = queue[n][x + k]
          /\ p # n => \/ x \in 1..Len(queue[p]) /\ queue'[p][x] = queue[p][x]
                      \/ /\ queue'[p][x] = item /\ Alone(item, v) /\ x = Len(queue[p]) + 1
                         /\ p \in Served(list, i, j)
      <4>1. PICK m \in Nodes : m = p
        BY <1>5, <2>4
      <4>2. /\ m = n => x + k \in 1..Len(queue[n]) /\ queue'[n][x] = queue[n][x + k]
            /\ m # n => \/ x \in 1..Len(queue[m]) /\ queue'[m][x] = queue[m][x]
                        \/ /\ queue'[m][x] = item /\ Alone(item, v) /\ x = Len(queue[m]) + 1
                           /\ m \in Served(subs[n][route], i, j)
        <5>1. PICK y \in 1..Len(queue'[m]) : y = x /\ Alone(queue'[m][y], v)
          BY <2>4, <4>1
        <5>2. PassesTo(n, k, item, route, i, j) /\ UNCHANGED wireVars /\ Sound(v)
          BY <1>1, <1>10
        <5>3. /\ m = n => y + k \in 1..Len(queue[n]) /\ queue'[n][y] = queue[n][y + k]
              /\ m # n => \/ y \in 1..Len(queue[m]) /\ queue'[m][y] = queue[m][y]
                          \/ /\ queue'[m][y] = item /\ Alone(item, v) /\ y = Len(queue[m]) + 1
                             /\ m \in Served(subs[n][route], i, j)
          BY <1>8, <5>1, <5>2, PassQueues
        <5>. QED  BY <5>1, <5>3
      <4>. QED  BY <1>2, <4>1, <4>2
    <3>. QED  BY <2>4, <3>1 DEF Lies
  <2>. QED  BY <1>10, <2>1, <2>2, <2>3, <2>4 DEF Lies
<1>11. CASE \A v \in Values, m \in Line(way) :
              Sound(v) /\ Alone(item, v) => m \notin Served(list, i, j)
  <2>1. \A v \in Values, p \in Places, x \in Nat : Sound(v)' /\ Lies(way, v, p, x)' =>
          \/ p # n /\ Lies(way, v, p, x)
          \/ p = n /\ Lies(way, v, n, x + k)
    <3> SUFFICES ASSUME NEW v \in Values, NEW p \in Places, NEW x \in Nat, Sound(v)',
                        Lies(way, v, p, x)'
                 PROVE  \/ p # n /\ Lies(way, v, p, x)
                        \/ p = n /\ Lies(way, v, n, x + k)
      OBVIOUS
    <3>1. Sound(v)
      BY <1>4
    <3>2. ~ (p \in Line(way) /\ Alone(item, v) /\ p \in Served(list, i, j))
      BY <1>11, <3>1
    <3>. QED  BY <1>10, <3>1, <3>2
  <2>2. Moves(way, n, k, n, 0)
    BY <1>3, <1>4, <2>1 DEF Moves
  <2>. QED  BY <2>2 DEF Places
<1>12. ASSUME NEW w \in Values, NEW t \in Line(way), Sound(w), Alone(item, w),
              t \in Served(list, i, j)
       PROVE  \E u \in Places, e \in Nat : Moves(way, n, k, u, e)
  <2>1. /\ n \in Line(way) /\ t # n
        /\ \A u \in Line(way) : u \in Targets(n, route) => u = t
        /\ \E z \in 1..Len(list) : list[z] = t /\ i <= z /\ z < j
        /\ ~ cut => Onward(way, RouteOf[w], n, t)
    <3>1. t \in Served(subs[n][route], i, j)
      BY <1>2, <1>12
    <3>2. IsNext(way, n, item, route, i, j, w, t)
      BY <1>12, <3>1, ServedNext
    <3>. QED  BY <1>2, <3>2 DEF IsNext
  <2>2. PICK z \in 1..Len(list) : list[z] = t /\ i <= z /\ z < j
    BY <2>1
  <2>3. \A y \in 1..Len(list) : y < i => list[y] \notin Line(way)
    BY <1>7, <2>1, <2>2
  <2>4. \A v \in Values : Alone(item, v) => v = w
    BY <1>12, AloneOnes
  <2>5. Lies(way, w, n, k)
    BY <1>2, <1>12, <2>1, <2>3 DEF Passing
  <2>6. ASSUME NEW u \in Values, Lies(way, u, n, 0)'
        PROVE  FALSE
    <3>1. Alone(hand'[n].item, u) /\ ~ Sent(way, n)'
      BY <1>5, <2>6 DEF Lies
    <3>2. hand'[n] # EmptyHand
      BY <3>1, AloneOnes
    <3>. QED  BY <1>9, <2>2, <3>1, <3>2
  <2>7. PICK e \in Nat : e = Len(queue[t]) + 1
    BY <1>5, LenProperties DEF TypeInv, NodesInv, Queue
  <2>8. \A m \in Line(way) : m \in Served(list, i, j) => m = t
    BY <1>7, <2>1 DEF Served
  <2>9. \A v \in Values, p \in Places, x \in Nat : Sound(v)' /\ Lies(way, v, p, x)' =>
          \/ p # n /\ Lies(way, v, p, x)
          \/ p = n /\ Lies(way, v, n, x + k)
          \/ /\ t # n /\ p = t /\ x = e /\ Lies(way, v, n, k)
             /\ \A u \in Values : Sound(u)' => ~ Lies(way, u, n, 0)'
             /\ ~ cut' => Onward(way, RouteOf[v], n, t)
    BY <1>3, <1>4, <1>10, <2>1, <2>4, <2>5, <2>6, <2>7, <2>8
  <2>10. \A u \in Values, x \in Nat : Lies(way, u, t, x) => x < e
    <3>1. Len(queue[t]) \in Nat /\ t # NoNode
      BY <1>5, <2>7, LenProperties DEF TypeInv, NodesInv, Queue
    <3>. QED  BY <2>7, <3>1 DEF Lies
  <2>11. Moves(way, n, k, t, e)
    BY <1>3, <1>4, <2>9, <2>10 DEF Moves
  <2>. QED  BY <1>5, <2>11 DEF Places
<1>. QED  BY <1>11, <1>12

LEMMA PassKeepsRoute ==
  ASSUME NEW way, OneWay(way), TypeInv, WireInv, NEW n \in Nodes, NEW k \in {0, 1}, NEW item,
         NEW route \in Routes, NEW i \in Nat, Passing(way, n, k, item, route, i), OnRoute(way),
         UNCHANGED wireVars
  PROVE  OnRoute(way)'
<1>1. PICK j \in Nat : PassesTo(n, k, item, route, i, j)
  BY DEF Passing, PassOn
<1>2. cut' = cut
  BY DEF wireVars
<1> SUFFICES ASSUME ~ cut, NEW v \in Values, NEW m \in Line(way)
             PROVE  /\ \A x \in 1..Len(queue'[m]) :
                         Alone(queue'[m][x], v) => Bears(way, v, queue'[m][x], m, 1)
                    /\ Alone(hand'[m].item, v)
                         => Bears(way, v, hand'[m].item, m, IF step'[m] = "put" THEN 0 ELSE 1)
  BY <1>2 DEF OnRoute
<1>3. m \in Nodes /\ Sound(v)
  BY LineType DEF Sound
<1>4. /\ \A x \in 1..Len(queue[m]) : Alone(queue[m][x], v) => Bears(way, v, queue[m][x], m, 1)
      /\ Alone(hand[m].item, v)
           => Bears(way, v, hand[m].item, m, IF step[m] = "put" THEN 0 ELSE 1)
  BY DEF OnRoute
<1>5. ASSUME NEW x \in 1..Len(queue'[m]), Alone(queue'[m][x], v)
      PROVE  Bears(way, v, queue'[m][x], m, 1)
  <2>1. /\ m = n => x + k \in 1..Len(queue[n]) /\ queue'[n][x] = queue[n][x + k]
        /\ m # n => \/ x \in 1..Len(queue[m]) /\ queue'[m][x] = queue[m][x]
                    \/ /\ queue'[m][x] = item /\ Alone(item, v) /\ x = Len(queue[m]) + 1
                       /\ m \in Served(subs[n][route], i, j)
    <3>1. k = 1 => queue[n] # <<>>
      BY DEF Passing, PassOn
    <3>. QED  BY <1>1, <1>3, <1>5, <3>1, PassQueues
  <2>2. CASE queue'[m][x] = item /\ Alone(item, v) /\ m \in Served(subs[n][route], i, j)
    <3>1. IsNext(way, n, item, route, i, j, v, m)
      BY <2>2, ServedNext
    <3>. QED  BY <2>2, <3>1 DEF IsNext
  <2>. QED  BY <1>4, <1>5, <2>1, <2>2
<1>6. ASSUME Alone(hand'[m].item, v)
      PROVE  Bears(way, v, hand'[m].item, m, IF step'[m] = "put" THEN 0 ELSE 1)
  <2>1. CASE m # n
    <3>1. hand'[m] = hand[m] /\ step'[m] = step[m]
      BY <1>1, <1>3, <2>1 DEF PassesTo
    <3>. QED  BY <1>4, <1>6, <3>1
  <2>2. CASE m = n
    <3>1. hand'[n] # EmptyHand
      BY <1>6, <2>2, AloneOnes
    <3>2. step'[n] = "put" /\ hand'[n].item = item
      BY <1>1, <3>1 DEF PassesTo
    <3>3. Bears(way, v, item, n, 0)
      BY <1>6, <2>2, <3>2 DEF Passing
    <3>. QED  BY <2>2, <3>2, <3>3
  <2>. QED  BY <2>1, <2>2
<1>. QED  BY <1>5, <1>6

LEMMA MovesKeepWay ==
  ASSUME NEW way, OneWay(way), NEW s \in Places, NEW k \in Nat,
         \E t \in Places, e \in Nat : Moves(way, s, k, t, e),
         WayInv(way), OnRoute(way)', UNCHANGED pushed
  PROVE  WayInv(way)'
<1>1. PICK t \in Places, e \in Nat : Moves(way, s, k, t, e)
  OBVIOUS
<1>2. /\ way \in [Routes -> Seq(Nodes)] /\ RouteOf \in [Values -> Routes]
      /\ \A r \in Routes : \A c, d \in 1..Len(way[r]) : way[r][c] = way[r][d] => c = d
  BY PipelineAssumption DEF OneWay
<1>3. Once(way)'
  BY <1>1, OnceMoves DEF WayInv
<1>4. Due(way)'
  BY <1>1, DueMoves DEF WayInv
<1>5. InOrder(way)'
  BY <1>1, <1>2, OrderMoves DEF WayInv
<1>. QED  BY <1>3, <1>4, <1>5 DEF WayInv

LEMMA PassKeepsWay ==
  ASSUME NEW way, OneWay(way), TypeInv, WireInv, NEW n \in Nodes, NEW k \in {0, 1}, NEW item,
         NEW route \in Routes, NEW i \in Nat, Passing(way, n, k, item, route, i), WayInv(way),
         UNCHANGED <<wireVars, collected, pushed>>
  PROVE  WayInv(way)'
<1>1. \E t \in Places, e \in Nat : Moves(way, n, k, t, e)
  BY PassMoves
<1>2. OnRoute(way)'
  BY PassKeepsRoute DEF WayInv
<1>3. n \in Places /\ k \in Nat
  BY DEF Places
<1>. QED  BY <1>1, <1>2, <1>3, MovesKeepWay

\* Nothing moves: places only become empty.
LEMMA StayKeepsWay ==
  ASSUME NEW way, OneWay(way), WayInv(way), OnRoute(way)', UNCHANGED pushed,
         \A v : Sound(v)' => Sound(v), ~ cut' => ~ cut,
         \A v \in Values, n \in Places, i \in Nat :
           Sound(v)' /\ Lies(way, v, n, i)' => Lies(way, v, n, i)
  PROVE  WayInv(way)'
<1>1. PICK k : k = 0
  OBVIOUS
<1>2. NoNode \in Places /\ k \in Nat
  BY <1>1 DEF Places
<1>3. \A i \in Nat : i + k = i
  BY <1>1
<1>4. Moves(way, NoNode, k, NoNode, k)
  BY <1>1, <1>3 DEF Moves
<1>. QED  BY <1>2, <1>4, MovesKeepWay

LEMMA GonePassing ==
  ASSUME NEW way, NEW n \in Nodes, NEW k,
         PassOn(n, k, NoItem, Default, Len(subs[n][Default]) + 1)
  PROVE  Passing(way, n, k, NoItem, Default, Len(subs[n][Default]) + 1)
<1>1. NoItem.route = Default
  BY DEF NoItem
<1>2. Default = Wired(n, NoItem.route)
  BY <1>1 DEF Wired
<1>. QED  BY <1>2, AloneOnes DEF Passing

\* What routers do to the route that is carried.
LEMMA CarriedOn ==
  ASSUME NEW way, OneWay(way), NEW r \in Routes, NEW d \in 1..Len(way[r])
  PROVE  IF Kind[way[r][d]] = "router" THEN Carried(way, r, d) = r
                                       ELSE Carried(way, r, d) = Carried(way, r, d - 1)
<1>1. way[r] \in Seq(Nodes) /\ Len(way[r]) \in Nat
  BY LenProperties DEF OneWay
<1>2. \A k : k \in 1..d <=> k \in 1..d - 1 \/ k = d
  BY <1>1
<1>. QED  BY <1>2 DEF Carried

LEMMA BearsOn ==
  ASSUME NEW way, OneWay(way), NEW v \in Values, NEW item, NEW other, NEW n \in Nodes,
         Bears(way, v, item, n, 1),
         other.route = IF Kind[n] = "router" THEN RouteOf[v] ELSE item.route
  PROVE  Bears(way, v, other, n, 0)
<1>1. PICK r \in Routes : r = RouteOf[v]
  BY PipelineAssumption
<1>2. PICK d \in 1..Len(way[r]) : way[r][d] = n /\ item.route = Carried(way, r, d - 1)
  BY <1>1 DEF Bears
<1>3. other.route = Carried(way, r, d) /\ d - 0 = d
  BY <1>1, <1>2, CarriedOn
<1>. QED  BY <1>1, <1>2, <1>3 DEF Bears

\* What a router raises on carries the default route and keeps it.
LEMMA RaisedByDefault ==
  ASSUME NEW way, OneWay(way), NEW v \in Values, NEW item, NEW n \in Nodes, Kind[n] = "router",
         Bears(way, v, item, n, 1), Alone(item, v), Raises(n, item)
  PROVE  item.route = RouteOf[v]
<1>1. PICK r \in Routes : r = RouteOf[v]
  BY PipelineAssumption
<1>2. PICK d \in 1..Len(way[r]) : way[r][d] = n /\ item.route = Carried(way, r, d - 1)
  BY <1>1 DEF Bears
<1>3. n \in Line(way)
  BY <1>2 DEF Line
<1>4. v \in Bad[n]
  <2>1. item.vals = <<v>>
    BY DEF Alone
  <2>2. \A x \in 1..Len(<<v>>) : <<v>>[x] = v
    OBVIOUS
  <2>. QED  BY <2>1, <2>2 DEF Raises, ValuesOf
<1>5. r = Default
  BY <1>1, <1>3, <1>4 DEF OneWay
<1>. QED  BY <1>1, <1>2, <1>5 DEF Carried

LEMMA QuietKeepsWay ==
  ASSUME NEW way, OneWay(way), WayInv(way), Quiet
  PROVE  WayInv(way)'
<1>1. /\ queue' = queue /\ hand' = hand /\ subs' = subs /\ cut' = cut /\ edited' = edited
      /\ collected' = collected /\ pushed' = pushed
  BY DEF Quiet, wireVars, Rest
<1>2. \A n \in Nodes : step'[n] = "put" <=> step[n] = "put"
  BY DEF Quiet
<1>3. \A n \in Line(way) : n \in Nodes
  BY LineType
<1>4. OnRoute(way)'
  BY <1>1, <1>2, <1>3 DEF WayInv, OnRoute, Bears
<1>5. \A n \in Line(way) : Sent(way, n)' <=> Sent(way, n)
  BY <1>1, <1>2, <1>3 DEF Sent
<1>6. \A v, n, i : Lies(way, v, n, i)' => Lies(way, v, n, i)
  BY <1>1, <1>5 DEF Lies
<1>7. (\A v : Sound(v)' => Sound(v)) /\ (~ cut' => ~ cut)
  BY <1>1 DEF Sound
<1>. QED  BY <1>1, <1>4, <1>6, <1>7, StayKeepsWay

LEMMA CancelsKeepsWay ==
  ASSUME NEW way, OneWay(way), TypeInv, WayInv(way), NEW n \in Nodes, Cancels(n)
  PROVE  WayInv(way)'
<1>1. /\ queue' = queue /\ subs' = subs /\ cut' = cut /\ edited' = edited
      /\ collected' = collected /\ pushed' = pushed
  BY DEF Cancels, Cancelled, wireVars
<1>2. /\ hand'[n] = EmptyHand
      /\ \A m \in Nodes \ {n} : hand'[m] = hand[m] /\ step'[m] = step[m]
  BY DEF Cancels, Cancelled, TypeInv, NodesInv
<1>3. \A m \in Line(way) : m \in Nodes
  BY LineType
<1>4. OnRoute(way)'
  <2>1. \A v, item, m, back : Bears(way, v, item, m, back)' <=> Bears(way, v, item, m, back)
    BY DEF Bears
  <2>. QED  BY <1>1, <1>2, <1>3, <2>1, AloneOnes DEF WayInv, OnRoute
<1>5. \A m \in Line(way) \ {n} : Sent(way, m)' <=> Sent(way, m)
  BY <1>1, <1>2, <1>3 DEF Sent
<1>6. \A v, m, i : Lies(way, v, m, i)' => Lies(way, v, m, i)
  BY <1>1, <1>2, <1>3, <1>5, AloneOnes DEF Lies
<1>7. (\A v : Sound(v)' => Sound(v)) /\ (~ cut' => ~ cut)
  BY <1>1 DEF Sound
<1>. QED  BY <1>1, <1>4, <1>6, <1>7, StayKeepsWay

LEMMA RewireKeepsWay ==
  ASSUME NEW way, OneWay(way), TypeInv, WireInv, WayInv(way), NEW new, NEW whole \in BOOLEAN,
         Rewires(new), Rewire(new, whole), UNCHANGED <<queue, step, Rest>>
  PROVE  WayInv(way)'
<1>1. /\ queue' = queue /\ step' = step /\ collected' = collected /\ pushed' = pushed
      /\ subs' = new
  BY RewireSound DEF Rest
<1>2. /\ \A v : Sound(v)' => Sound(v)
      /\ ~ cut' => ~ cut
      /\ \A n \in Nodes : /\ hand'[n].item = hand[n].item /\ hand'[n].at = hand[n].at
                          /\ hand'[n].route = hand[n].route
  BY RewireSound DEF Rest
<1>3. \A m \in Line(way) : m \in Nodes
  BY LineType
<1>4. OnRoute(way)'
  <2>1. \A v, item, m, back : Bears(way, v, item, m, back)' <=> Bears(way, v, item, m, back)
    BY DEF Bears
  <2>. QED  BY <1>1, <1>2, <1>3, <2>1 DEF WayInv, OnRoute
<1>5. ASSUME NEW v \in Values, Sound(v)', NEW n \in Nodes, Alone(hand[n].item, v), Sent(way, n)
      PROVE  Sent(way, n)'
  <2>1. step[n] = "put" /\ Waits(n, hand[n])
    BY <1>5 DEF Sent, WireInv, WaitsInv
  <2>2. v = hand[n].item.vals[1] /\ v \in ValuesOf(hand[n].item)
    <3>1. 1 \in 1..Len(<<v>>) /\ <<v>>[1] = v
      OBVIOUS
    <3>. QED  BY <1>5, <3>1 DEF Alone, ValuesOf
  <2>3. hand[n].live
    BY <1>2, <1>5, <2>1, <2>2 DEF Waits
  <2>4. hand'[n] = hand[n] /\ Extends(new[n][hand[n].route], subs[n][hand[n].route])
    BY <1>1, <1>5, <2>1, <2>2, <2>3, RewireSound
  <2>5. PICK r \in Routes : r = hand[n].route
    BY HandFields DEF TypeInv, NodesInv
  <2>6. Len(subs[n][r]) \in Nat /\ Len(new[n][r]) \in Nat
    BY LenProperties DEF TypeInv, WiresInv, Rewires
  <2>7. PICK x \in 1..Len(subs[n][r]) : x < hand[n].at /\ subs[n][r][x] \in Line(way)
    BY <1>5, <2>5 DEF Sent
  <2>8. x \in 1..Len(new[n][r]) /\ new[n][r][x] = subs[n][r][x]
    BY <2>4, <2>5, <2>6 DEF Extends
  <2>. QED  BY <1>1, <2>1, <2>4, <2>5, <2>7, <2>8 DEF Sent
<1>6. \A v \in Values, n \in Places, i \in Nat :
        Sound(v)' /\ Lies(way, v, n, i)' => Lies(way, v, n, i)
  BY <1>1, <1>2, <1>3, <1>5 DEF Lies
<1>. QED  BY <1>1, <1>2, <1>4, <1>6, StayKeepsWay

\* The processor takes an item into its hand.
LEMMA WorkedKeepsWay ==
  ASSUME NEW way, OneWay(way), TypeInv, WayInv(way), NEW n \in Nodes, queue[n] # <<>>,
         Worked(n, Head(queue[n])), UNCHANGED <<wireVars, pushed>>
  PROVE  WayInv(way)'
<1>1. PICK item : item = Head(queue[n])
  OBVIOUS
<1>2. /\ subs' = subs /\ cut' = cut /\ edited' = edited
      /\ collected' = collected /\ pushed' = pushed
  BY DEF Worked, wireVars
<1>3. queue[n] \in Seq(Packed)
  BY DEF TypeInv, NodesInv, Queue
<1>4. /\ step'[n] = "process" /\ hand'[n].item = item /\ queue'[n] = Tail(queue[n])
      /\ \A m \in Nodes \ {n} : hand'[m] = hand[m] /\ step'[m] = step[m] /\ queue'[m] = queue[m]
  BY <1>1 DEF Worked, TypeInv, NodesInv, EmptyHand
<1>5. /\ item = queue[n][1] /\ 1 \in 1..Len(queue[n])
      /\ \A x \in 1..Len(queue'[n]) : x + 1 \in 1..Len(queue[n]) /\ queue'[n][x] = queue[n][x + 1]
  <2>1. PICK s : s = queue[n] /\ s \in Seq(Packed) /\ s # <<>>
    BY <1>3
  <2>2. /\ Head(s) = s[1] /\ Len(Tail(s)) = Len(s) - 1 /\ Len(s) \in Nat /\ Len(s) # 0
        /\ \A x \in 1..Len(Tail(s)) : Tail(s)[x] = s[x + 1]
    BY <2>1, HeadTailProperties, LenProperties, EmptySeq
  <2>. QED  BY <1>1, <1>4, <2>1, <2>2
<1>6. \A m \in Line(way) : m \in Nodes
  BY LineType
<1>7. OnRoute(way)'
  <2>1. \A v, it, m, back : Bears(way, v, it, m, back)' <=> Bears(way, v, it, m, back)
    BY DEF Bears
  <2>2. ASSUME ~ cut, NEW v \in Values, NEW m \in Line(way)
        PROVE  /\ \A x \in 1..Len(queue'[m]) :
                    Alone(queue'[m][x], v) => Bears(way, v, queue'[m][x], m, 1)
               /\ Alone(hand'[m].item, v)
                    => Bears(way, v, hand'[m].item, m, IF step'[m] = "put" THEN 0 ELSE 1)
    <3>1. /\ \A x \in 1..Len(queue[m]) : Alone(queue[m][x], v) => Bears(way, v, queue[m][x], m, 1)
          /\ Alone(hand[m].item, v)
               => Bears(way, v, hand[m].item, m, IF step[m] = "put" THEN 0 ELSE 1)
      BY <2>2 DEF WayInv, OnRoute
    <3>2. CASE m = n
      BY <1>4, <1>5, <3>1, <3>2
    <3>3. CASE m # n
      BY <1>4, <1>6, <3>1, <3>3
    <3>. QED  BY <3>2, <3>3
  <2>. QED  BY <1>2, <2>1, <2>2 DEF OnRoute
<1>8. \A m \in Line(way) \ {n} : Sent(way, m)' <=> Sent(way, m)
  BY <1>2, <1>4, <1>6 DEF Sent
<1>9. PICK k : k = 1
  OBVIOUS
<1>10. ASSUME NEW v \in Values, NEW p \in Places, NEW x \in Nat, Lies(way, v, p, x)'
       PROVE  \/ p # n /\ Lies(way, v, p, x)
              \/ p = n /\ Lies(way, v, n, x + k)
  <2>1. n # NoNode
    BY PipelineAssumption
  <2>2. CASE p # n
    BY <1>2, <1>4, <1>6, <1>8, <1>10, <2>2 DEF Lies
  <2>3. CASE p = n
    <3>1. /\ n \in Line(way)
          /\ \/ x = 0 /\ Alone(hand'[n].item, v)
             \/ x \in 1..Len(queue'[n]) /\ Alone(queue'[n][x], v)
      BY <1>10, <2>1, <2>3 DEF Lies
    <3>2. x + k \in 1..Len(queue[n]) /\ Alone(queue[n][x + k], v)
      <4>1. CASE x = 0 /\ Alone(hand'[n].item, v)
        <5>1. x + k = 1
          BY <1>9, <4>1
        <5>. QED  BY <1>4, <1>5, <4>1, <5>1
      <4>2. CASE x \in 1..Len(queue'[n]) /\ Alone(queue'[n][x], v)
        BY <1>5, <1>9, <4>2
      <4>. QED  BY <3>1, <4>1, <4>2
    <3>. QED  BY <2>3, <3>1, <3>2 DEF Lies
  <2>. QED  BY <2>2, <2>3
<1>11. Moves(way, n, k, n, k)
  BY <1>2, <1>10 DEF Moves, Sound
<1>12. n \in Places /\ k \in Nat
  BY <1>9 DEF Places
<1>. QED  BY <1>2, <1>7, <1>11, <1>12, MovesKeepWay

\* The sink keeps what it takes.
LEMMA SunkKeepsWay ==
  ASSUME NEW way, OneWay(way), TypeInv, TypeInv', WayInv(way), NEW n \in Nodes, queue[n] # <<>>,
         Head(queue[n]) \in Packed, Sunk(n, Head(queue[n])), UNCHANGED <<wireVars, pushed>>
  PROVE  WayInv(way)'
<1>1. PICK item, i : item = Head(queue[n]) /\ i = Len(subs[n][Default]) + 1
  OBVIOUS
<1>2. /\ subs' = subs /\ cut' = cut /\ edited' = edited /\ pushed' = pushed
      /\ Kind[n] = "sink" /\ PassOn(n, 1, NoItem, Default, i)
      /\ collected' = Append(collected, [vals |-> item.vals, list |-> item.list])
  BY <1>1 DEF Sunk, Gone, wireVars
<1>3. PICK k \in {0, 1} : k = 1
  OBVIOUS
<1>4. PICK j \in Nat : PassesTo(n, k, NoItem, Default, i, j)
  BY <1>2, <1>3 DEF PassOn
<1>5. hand'[n] = EmptyHand
  BY <1>2, GoneEnds
<1>6. \A m \in Nodes \ {n} : hand'[m] = hand[m] /\ step'[m] = step[m]
  BY <1>4 DEF PassesTo
<1>7. n \in Line(way) /\ n # NoNode /\ NoNode \notin Line(way) /\ Line(way) \subseteq Nodes
  BY <1>2, LineType DEF OneWay
<1>8. Passing(way, n, k, NoItem, Default, i)
  BY <1>1, <1>2, <1>3, GonePassing
<1>9. \A v : Sound(v)' <=> Sound(v)
  BY <1>2 DEF Sound
<1>10. ASSUME NEW v \in Values, Sound(v), NEW m \in Line(way), NEW x \in 1..Len(queue'[m]),
              Alone(queue'[m][x], v)
       PROVE  /\ m = n => x + k \in 1..Len(queue[n]) /\ queue'[n][x] = queue[n][x + k]
              /\ m # n => x \in 1..Len(queue[m]) /\ queue'[m][x] = queue[m][x]
  <2>1. k = 1 => queue[n] # <<>>
    OBVIOUS
  <2>2. m \in Nodes /\ ~ Alone(NoItem, v)
    BY <1>7, AloneOnes
  <2>3. UNCHANGED wireVars
    OBVIOUS
  <2>. QED  BY <1>4, <1>10, <2>1, <2>2, <2>3, PassQueues
<1>11. OnRoute(way)'
  <2>1. UNCHANGED wireVars /\ TypeInv /\ OnRoute(way) /\ Default \in Routes
    BY PipelineAssumption DEF WayInv
  <2>2. \A v, it, m, back : Bears(way, v, it, m, back)' <=> Bears(way, v, it, m, back)
    BY DEF Bears
  <2>3. ASSUME ~ cut, NEW v \in Values, NEW m \in Line(way)
        PROVE  /\ \A x \in 1..Len(queue'[m]) :
                    Alone(queue'[m][x], v) => Bears(way, v, queue'[m][x], m, 1)
               /\ Alone(hand'[m].item, v)
                    => Bears(way, v, hand'[m].item, m, IF step'[m] = "put" THEN 0 ELSE 1)
    <3>1. /\ \A x \in 1..Len(queue[m]) : Alone(queue[m][x], v) => Bears(way, v, queue[m][x], m, 1)
          /\ Alone(hand[m].item, v)
               => Bears(way, v, hand[m].item, m, IF step[m] = "put" THEN 0 ELSE 1)
      BY <2>1, <2>3 DEF OnRoute
    <3>2. Sound(v)
      BY <2>3 DEF Sound
    <3>3. \A x \in 1..Len(queue'[m]) :
            Alone(queue'[m][x], v) => Bears(way, v, queue'[m][x], m, 1)
      BY <1>10, <3>1, <3>2
    <3>4. Alone(hand'[m].item, v)
            => Bears(way, v, hand'[m].item, m, IF step'[m] = "put" THEN 0 ELSE 1)
      BY <1>5, <1>6, <1>7, <3>1, AloneOnes
    <3>. QED  BY <3>3, <3>4
  <2>. QED  BY <1>2, <2>2, <2>3 DEF OnRoute
<1>12. \A m \in Line(way) \ {n} : Sent(way, m)' <=> Sent(way, m)
  BY <1>2, <1>6, <1>7 DEF Sent
<1>13. PICK one, all : /\ one = [vals |-> item.vals, list |-> item.list]
                       /\ all = collected
  OBVIOUS
<1>14. /\ Len(all) \in Nat /\ Len(collected') = Len(all) + 1 /\ collected'[Len(all) + 1] = one
       /\ \A x \in 1..Len(all) : collected'[x] = collected[x]
  <2>1. all \in Seq(Taken) /\ one \in Taken
    BY <1>1, <1>13 DEF TypeInv, ValuesInv, Taken
  <2>. QED  BY <1>2, <1>13, <2>1, AppendProperties, LenProperties
<1>15. \A v : Alone(one, v) <=> Alone(item, v)
  BY <1>13 DEF Alone
<1>16. item = queue[n][1] /\ 1 \in 1..Len(queue[n])
  <2>1. PICK s : s = queue[n] /\ s \in Seq(Packed) /\ s # <<>>
    BY DEF TypeInv, NodesInv, Queue
  <2>. QED  BY <1>1, <2>1, HeadTailProperties, LenProperties, EmptySeq
<1>17. ASSUME NEW v \in Values, NEW p \in Places, NEW x \in Nat, Sound(v), Lies(way, v, p, x)'
       PROVE  \/ p # n /\ Lies(way, v, p, x)
              \/ p = n /\ Lies(way, v, n, x + k)
              \/ p = NoNode /\ x = Len(all) + 1 /\ Alone(item, v)
  <2>1. CASE p = NoNode
    <3>1. x \in 1..Len(collected') /\ Alone(collected'[x], v)
      BY <1>7, <1>17, <2>1 DEF Lies
    <3>2. CASE x \in 1..Len(all)
      BY <1>7, <1>13, <1>14, <2>1, <3>1, <3>2 DEF Lies
    <3>3. CASE x = Len(all) + 1
      BY <1>14, <1>15, <2>1, <3>1, <3>3
    <3>. QED  BY <1>14, <3>1, <3>2, <3>3
  <2>2. CASE p # NoNode /\ x = 0 /\ p \in Line(way) /\ Alone(hand'[p].item, v) /\ ~ Sent(way, p)'
    <3>1. p # n
      BY <1>5, <2>2, AloneOnes
    <3>. QED  BY <1>6, <1>7, <1>12, <2>2, <3>1 DEF Lies
  <2>3. CASE p # NoNode /\ p \in Line(way) /\ x \in 1..Len(queue'[p]) /\ Alone(queue'[p][x], v)
    <3>1. /\ p = n => x + k \in 1..Len(queue[n]) /\ queue'[n][x] = queue[n][x + k]
          /\ p # n => x \in 1..Len(queue[p]) /\ queue'[p][x] = queue[p][x]
      BY <1>10, <1>17, <2>3
    <3>. QED  BY <2>3, <3>1 DEF Lies
  <2>. QED  BY <1>17, <2>1, <2>2, <2>3 DEF Lies
<1>18. \A v \in Values : Lies(way, v, n, k) => Alone(item, v)
  BY <1>3, <1>7, <1>16 DEF Lies
<1>19. \A v \in Values : Alone(item, v) => Lies(way, v, n, k)
  BY <1>3, <1>7, <1>16 DEF Lies
<1>20. \A u \in Values : Sound(u)' => ~ Lies(way, u, n, 0)'
  BY <1>5, <1>7, AloneOnes DEF Lies
<1>21. ASSUME ~ cut, NEW v \in Values, Alone(item, v)
       PROVE  Onward(way, RouteOf[v], n, NoNode)
  <2>1. Bears(way, v, item, n, 1)
    BY <1>7, <1>16, <1>21 DEF WayInv, OnRoute
  <2>2. PICK r \in Routes : r = RouteOf[v]
    BY PipelineAssumption
  <2>3. PICK d \in 1..Len(way[r]) : way[r][d] = n
    BY <2>1, <2>2 DEF Bears
  <2>4. d = Len(way[r])
    <3>1. Len(way[r]) \in Nat
      BY LenProperties DEF OneWay
    <3>2. \A c \in 1..Len(way[r]) - 1 : Kind[way[r][c]] # "sink"
      BY DEF OneWay
    <3>. QED  BY <1>2, <2>3, <3>1, <3>2
  <2>. QED  BY <2>2, <2>3, <2>4 DEF Onward
<1>22. \A u \in Values, x \in Nat : Lies(way, u, NoNode, x) => x < Len(all) + 1
  BY <1>7, <1>13, <1>14 DEF Lies
<1>23. \A v \in Values, p \in Places, x \in Nat : Sound(v)' /\ Lies(way, v, p, x)' =>
         \/ p # n /\ Lies(way, v, p, x)
         \/ p = n /\ Lies(way, v, n, x + k)
         \/ /\ NoNode # n /\ p = NoNode /\ x = Len(all) + 1 /\ Lies(way, v, n, k)
            /\ \A u \in Values : Sound(u)' => ~ Lies(way, u, n, 0)'
            /\ ~ cut' => Onward(way, RouteOf[v], n, NoNode)
  BY <1>2, <1>7, <1>9, <1>17, <1>19, <1>20, <1>21
<1>24. Moves(way, n, k, NoNode, Len(all) + 1)
  BY <1>2, <1>9, <1>22, <1>23 DEF Moves
<1>25. n \in Places /\ NoNode \in Places /\ k \in Nat /\ Len(all) + 1 \in Nat
  BY <1>14 DEF Places
<1>. QED  BY <1>2, <1>11, <1>24, <1>25, MovesKeepWay

LEMMA GoneKeepsWay ==
  ASSUME NEW way, OneWay(way), TypeInv, WireInv, WayInv(way), NEW n \in Nodes, NEW k \in {0, 1},
         PassOn(n, k, NoItem, Default, Len(subs[n][Default]) + 1),
         UNCHANGED <<wireVars, collected, pushed>>
  PROVE  WayInv(way)'
<1>1. PICK i \in Nat : i = Len(subs[n][Default]) + 1
  BY LenProperties, PipelineAssumption DEF TypeInv, WiresInv
<1>2. Passing(way, n, k, NoItem, Default, i)
  BY <1>1, GonePassing
<1>. QED  BY <1>2, PassKeepsWay, PipelineAssumption

\* An item from the queue, or the hand of a processor, that goes on by itself.
LEMMA OnKeepsWay ==
  ASSUME NEW way, OneWay(way), TypeInv, WireInv, WayInv(way), NEW n \in Nodes, NEW k \in {0, 1},
         NEW old, NEW item, NEW route \in Routes, PassOn(n, k, item, route, 1),
         ~ cut => route = Wired(n, item.route),
         old = IF k = 1 THEN queue[n][1] ELSE hand[n].item,
         k = 1 => 1 \in 1..Len(queue[n]), k = 0 => step[n] = "process",
         \A v : Alone(item, v) => Alone(old, v),
         Kind[n] \notin {"sink", "aggregator"},
         \A v \in Values : Alone(item, v) /\ Bears(way, v, old, n, 1)
           => item.route = IF Kind[n] = "router" THEN RouteOf[v] ELSE old.route,
         UNCHANGED <<wireVars, collected, pushed>>
  PROVE  WayInv(way)'
<1>1. ASSUME NEW v \in Values, Alone(item, v), n \in Line(way)
      PROVE  Lies(way, v, n, k)
  <2>1. CASE k = 1
    BY <1>1, <2>1 DEF Lies
  <2>2. CASE k = 0
    <3>1. ~ Sent(way, n)
      BY <2>2 DEF Sent
    <3>. QED  BY <1>1, <2>2, <3>1 DEF Lies
  <2>. QED  BY <2>1, <2>2
<1>2. ASSUME ~ cut, NEW v \in Values, Alone(item, v), n \in Line(way)
      PROVE  Bears(way, v, item, n, 0)
  <2>1. Bears(way, v, old, n, 1)
    BY <1>2 DEF WayInv, OnRoute
  <2>. QED  BY <1>2, <2>1, BearsOn
<1>3. Passing(way, n, k, item, route, 1)
  BY <1>1, <1>2 DEF Passing
<1>. QED  BY <1>3, PassKeepsWay

LEMMA HandlesKeepWay ==
  ASSUME NEW way, OneWay(way), TypeInv, TypeInv', WireInv, WayInv(way), NEW n \in Nodes, Handles(n)
  PROVE  WayInv(way)'
<1>1. PICK item : item = Head(queue[n])
  OBVIOUS
<1>2. /\ queue[n] # <<>> /\ item \in Packed /\ TakenUp(n, item) /\ UNCHANGED <<wireVars, pushed>>
  BY <1>1, HandleKinds DEF OneWay, Handles
<1>3. item = queue[n][1] /\ 1 \in 1..Len(queue[n])
  <2>1. PICK s : s = queue[n] /\ s \in Seq(Packed) /\ s # <<>>
    BY <1>2 DEF TypeInv, NodesInv, Queue
  <2>. QED  BY <1>1, <2>1, HeadTailProperties, LenProperties, EmptySeq
<1>4. PICK k \in {0, 1} : k = 1
  OBVIOUS
<1>5. CASE Gone(n) /\ UNCHANGED collected
  <2>1. PassOn(n, k, NoItem, Default, Len(subs[n][Default]) + 1)
    BY <1>4, <1>5 DEF Gone
  <2>. QED  BY <1>2, <1>5, <2>1, GoneKeepsWay
<1>6. CASE Worked(n, item)
  BY <1>1, <1>2, <1>6, WorkedKeepsWay
<1>7. CASE Sunk(n, item)
  BY <1>1, <1>2, <1>7, SunkKeepsWay
<1>8. CASE Passed(n, item)
  <2>1. PICK out \in {item, Marked(item)}, route \in Routes : Goes(n, out, route)
    BY <1>8 DEF Passed
  <2>2. /\ PassOn(n, k, out, route, 1) /\ (~ cut => route = Wired(n, out.route))
        /\ Kind[n] \notin {"sink", "aggregator"} /\ UNCHANGED collected
        /\ Kind[n] = "router" => Raises(n, item)
    BY <1>4, <1>8, <2>1 DEF Goes, Passed
  <2>3. out.vals = item.vals /\ out.list = item.list /\ out.route = item.route
    BY <1>2, <2>1, MarkedPacked
  <2>4. \A v : Alone(out, v) => Alone(item, v)
    BY <2>3 DEF Alone
  <2>5. ASSUME NEW v \in Values, Alone(out, v), Bears(way, v, item, n, 1)
        PROVE  out.route = IF Kind[n] = "router" THEN RouteOf[v] ELSE item.route
    <3>1. CASE Kind[n] = "router"
      <4>1. Alone(item, v) /\ Raises(n, item)
        BY <2>2, <2>4, <2>5, <3>1
      <4>. QED  BY <2>3, <2>5, <3>1, <4>1, RaisedByDefault
    <3>. QED  BY <2>3, <3>1
  <2>. QED  BY <1>2, <1>3, <1>4, <2>2, <2>4, <2>5, OnKeepsWay
<1>9. CASE Routed(n, item)
  <2>1. PICK out : out = [item EXCEPT !.route = RouteOf[item.vals[1]]]
    OBVIOUS
  <2>2. out.vals = item.vals /\ out.list = item.list /\ out.route = RouteOf[item.vals[1]]
    BY <1>2, <2>1 DEF Packed, Item
  <2>3. PICK route \in Routes : Goes(n, out, route)
    BY <1>9, <2>1 DEF Routed
  <2>4. /\ PassOn(n, k, out, route, 1) /\ (~ cut => route = Wired(n, out.route))
        /\ Kind[n] = "router" /\ UNCHANGED collected
    BY <1>4, <1>9, <2>3 DEF Goes, Routed
  <2>5. \A v : Alone(out, v) => Alone(item, v)
    BY <2>2 DEF Alone
  <2>6. \A v : Alone(out, v) => out.route = RouteOf[v]
    BY <2>2, <2>5, AloneOnes
  <2>. QED  BY <1>2, <1>3, <1>4, <2>4, <2>5, <2>6, OnKeepsWay
<1>10. CASE Listed(n, item)
  <2>1. PICK out : out = ListOf(item, buffer \o item.vals)
    OBVIOUS
  <2>2. out.list
    BY <1>2, <2>1 DEF ListOf, Packed, Item
  <2>3. PICK route \in Routes : Goes(n, out, route)
    BY <1>10, <2>1 DEF Listed
  <2>4. PassOn(n, k, out, route, 1) /\ (~ cut => route = Wired(n, out.route)) /\ UNCHANGED collected
    BY <1>4, <1>10, <2>3 DEF Goes, Listed
  <2>5. Passing(way, n, k, out, route, 1)
    BY <2>2, <2>4 DEF Passing, Alone
  <2>. QED  BY <1>2, <2>4, <2>5, PassKeepsWay
<1>. QED  BY <1>2, <1>5, <1>6, <1>7, <1>8, <1>9, <1>10 DEF TakenUp, Dropped, Filtered, Buffered

LEMMA FinishKeepsWay ==
  ASSUME NEW way, OneWay(way), TypeInv, WireInv, WorkInv, WayInv(way), NEW n \in Nodes, Finish(n)
  PROVE  WayInv(way)'
<1>1. UNCHANGED <<wireVars, collected, pushed>> /\ step[n] = "process" /\ Kind[n] = "processor"
  BY DEF Finish, WorkInv
<1>2. PICK k \in {0, 1} : k = 0
  OBVIOUS
<1>3. CASE PassOn(n, 0, NoItem, Default, Len(subs[n][Default]) + 1)
  BY <1>1, <1>2, <1>3, GoneKeepsWay
<1>4. ASSUME NEW item \in Packed, NEW route \in Routes,
             item.vals = hand[n].item.vals, item.list = hand[n].item.list,
             item.route = hand[n].item.route, PassOn(n, 0, item, route, 1),
             ~ cut => route = Wired(n, item.route)
      PROVE  WayInv(way)'
  <2>1. \A v : Alone(item, v) => Alone(hand[n].item, v)
    BY <1>4 DEF Alone
  <2>2. PICK old : old = hand[n].item
    OBVIOUS
  <2>3. PassOn(n, k, item, route, 1) /\ old = (IF k = 1 THEN queue[n][1] ELSE hand[n].item)
    BY <1>2, <1>4, <2>2
  <2>4. /\ \A v : Alone(item, v) => Alone(old, v)
        /\ \A v \in Values : Alone(item, v)
             => item.route = IF Kind[n] = "router" THEN RouteOf[v] ELSE old.route
    BY <1>1, <1>4, <2>1, <2>2
  <2>. QED  BY <1>1, <1>2, <1>4, <2>3, <2>4, OnKeepsWay
<1>5. WellWired
  BY DEF OneWay
<1>. QED  BY <1>3, <1>4, <1>5, FinishKinds

LEMMA UnblockKeepsWay ==
  ASSUME NEW way, OneWay(way), TypeInv, WireInv, WorkInv, WayInv(way), NEW n \in Nodes, Unblock(n)
  PROVE  WayInv(way)'
<1>1. UNCHANGED <<wireVars, collected, pushed>> /\ step[n] = "put"
  BY DEF Unblock, MayPut
<1>2. /\ hand[n].route \in Routes /\ Waits(n, hand[n]) /\ hand[n].at \in Nat
      /\ PassOn(n, 0, hand[n].item, hand[n].route, hand[n].at)
  BY UnblockPasses DEF OneWay
<1>3. PICK k \in {0, 1} : k = 0
  OBVIOUS
<1>4. PICK item, route, i : /\ item = hand[n].item /\ route = hand[n].route /\ i = hand[n].at
                            /\ route \in Routes /\ i \in Nat
  BY <1>2
<1>5. Kind[n] # "sink" /\ (Kind[n] = "aggregator" => item.list)
  BY <1>1, <1>4 DEF WorkInv
<1>6. ASSUME NEW v \in Values, Alone(item, v), n \in Line(way),
             \A x \in 1..Len(subs[n][route]) : x < i => subs[n][route][x] \notin Line(way)
      PROVE  Lies(way, v, n, k)
  BY <1>3, <1>4, <1>6 DEF Lies, Sent
<1>7. ASSUME ~ cut
      PROVE  /\ route = Wired(n, item.route)
             /\ \A v \in Values : Alone(item, v) /\ n \in Line(way) => Bears(way, v, item, n, 0)
  BY <1>1, <1>2, <1>4, <1>7 DEF WayInv, OnRoute, Waits
<1>8. Passing(way, n, k, item, route, i)
  <2>1. PassOn(n, k, item, route, i)
    BY <1>2, <1>3, <1>4
  <2>2. Kind[n] = "aggregator" => \A v \in Values : ~ Alone(item, v)
    BY <1>5 DEF Alone
  <2>. QED  BY <1>5, <1>6, <1>7, <2>1, <2>2 DEF Passing
<1>. QED  BY <1>1, <1>4, <1>8, PassKeepsWay

LEMMA Positions ==
  ASSUME EachOnce, NEW i \in 1..Len(Pushes)
  PROVE  Position(Pushes[i]) = i
  BY DEF EachOnce, Position

\* A new value is behind all others at the source's queue.
LEMMA PushKeepsWay ==
  ASSUME NEW way, OneWay(way), EachOnce, TypeInv, WayInv(way), Push
  PROVE  WayInv(way)'
<1>1. PICK v, new : /\ v = Pushes[pushed + 1]
                    /\ new = [vals |-> <<v>>, list |-> FALSE, route |-> Default, err |-> FALSE]
  OBVIOUS
<1>2. /\ hand' = hand /\ step' = step /\ subs' = subs /\ cut' = cut /\ edited' = edited
      /\ collected' = collected /\ pushed' = pushed + 1 /\ pushed < Len(Pushes)
  BY DEF Push, wireVars
<1>3. /\ pushed \in Nat /\ Pushes \in Seq(Values) /\ Source \in Nodes /\ Source # NoNode
      /\ Default \in Routes /\ RouteOf \in [Values -> Routes]
  BY PipelineAssumption DEF TypeInv, ControlInv
<1>4. v \in Values /\ Position(v) = pushed + 1
  <2>1. pushed + 1 \in 1..Len(Pushes)
    BY <1>2, <1>3, LenProperties
  <2>. QED  BY <1>1, <1>3, <2>1, Positions, ElementOfSeq
<1>5. /\ \A r \in Routes : way[r] \in Seq(Nodes) /\ 1 \in 1..Len(way[r]) /\ way[r][1] = Source
      /\ \A r \in Routes : \A c, d \in 1..Len(way[r]) : way[r][c] = way[r][d] => c = d
      /\ Source \in Line(way) /\ Line(way) \subseteq Nodes /\ NoNode \notin Line(way)
  <2>1. \A r \in Routes : way[r] \in Seq(Nodes) /\ way[r] # <<>> /\ way[r][1] = Source
    BY DEF OneWay
  <2>2. \A r \in Routes : 1 \in 1..Len(way[r])
    BY <2>1, LenProperties, EmptySeq
  <2>3. Source \in Line(way)
    BY <1>3, <2>1, <2>2 DEF Line
  <2>. QED  BY <2>1, <2>2, <2>3, LineType DEF OneWay
<1>6. PICK q, e : q = queue[Source] /\ e = Len(q) + 1
  OBVIOUS
<1>7. /\ \A m \in Nodes \ {Source} : queue'[m] = queue[m]
      /\ queue'[Source] = q \/ queue'[Source] = Append(q, new)
      /\ q \in Seq(Packed) /\ Len(q) \in Nat
  BY <1>1, <1>3, <1>6, LenProperties DEF Push, TypeInv, NodesInv, Queue
<1>8. new \in Packed
  <2>1. <<v>> \in Seq(Values) /\ <<v>> # <<>> /\ Len(<<v>>) = 1
    BY <1>4, EmptySeq
  <2>. QED  BY <1>1, <1>3, <2>1 DEF Packed, Item
<1>9. ASSUME NEW m \in Nodes, NEW x \in 1..Len(queue'[m])
      PROVE  \/ x \in 1..Len(queue[m]) /\ queue'[m][x] = queue[m][x]
             \/ m = Source /\ x = e /\ queue'[m][x] = new
  <2>1. CASE queue'[m] = queue[m]
    BY <2>1
  <2>2. CASE m = Source /\ queue'[m] = Append(q, new)
    <3>1. /\ Len(Append(q, new)) = Len(q) + 1 /\ Append(q, new)[Len(q) + 1] = new
          /\ \A y \in 1..Len(q) : Append(q, new)[y] = q[y]
      BY <1>7, <1>8, AppendProperties
    <3>. QED  BY <1>6, <1>7, <2>2, <3>1
  <2>. QED  BY <1>6, <1>7, <2>1, <2>2
<1>10. \A w : Alone(new, w) => w = v
  BY <1>1, AloneOnes
<1>11. /\ \A w : Sound(w)' <=> Sound(w)
       /\ \A m : Sent(way, m)' <=> Sent(way, m)
       /\ \A w, item, m, back : Bears(way, w, item, m, back)' <=> Bears(way, w, item, m, back)
  BY <1>2 DEF Sound, Sent, Bears
<1>12. ASSUME NEW w \in Values, NEW p \in Places, NEW x \in Nat, Lies(way, w, p, x)'
       PROVE  Lies(way, w, p, x) \/ (w = v /\ p = Source /\ x = e)
  <2>1. CASE p \in Line(way) /\ x \in 1..Len(queue'[p]) /\ Alone(queue'[p][x], w)
    <3>1. PICK m \in Nodes : m = p
      BY <1>5, <2>1
    <3>2. \/ x \in 1..Len(queue[m]) /\ queue'[m][x] = queue[m][x]
          \/ m = Source /\ x = e /\ queue'[m][x] = new
      BY <1>9, <2>1, <3>1
    <3>. QED  BY <1>10, <2>1, <3>1, <3>2 DEF Lies
  <2>2. CASE ~ (p \in Line(way) /\ x \in 1..Len(queue'[p]) /\ Alone(queue'[p][x], w))
    BY <1>2, <1>11, <1>12, <2>2 DEF Lies
  <2>. QED  BY <2>1, <2>2
<1>13. ASSUME Sound(v), NEW p \in Places, NEW x \in Nat, Lies(way, v, p, x)
       PROVE  FALSE
  <2>1. Position(v) <= pushed
    BY <1>4, <1>13 DEF WayInv, Due
  <2>. QED  BY <1>3, <1>4, <2>1
<1>14. Once(way)'
  <2> SUFFICES ASSUME NEW w \in Values, Sound(w), NEW n \in Places, NEW m \in Places,
                      NEW i \in Nat, NEW j \in Nat, Lies(way, w, n, i)', Lies(way, w, m, j)'
               PROVE  n = m /\ i = j
    BY <1>11 DEF Once
  <2>1. CASE Lies(way, w, n, i) /\ Lies(way, w, m, j)
    BY <2>1 DEF WayInv, Once
  <2>. QED  BY <1>12, <1>13, <2>1
<1>15. Due(way)'
  <2> SUFFICES ASSUME NEW w \in Values, Sound(w), NEW n \in Places, NEW i \in Nat,
                      Lies(way, w, n, i)'
               PROVE  Position(w) <= pushed + 1
    BY <1>2, <1>11 DEF Due
  <2>1. CASE w = v
    BY <1>3, <1>4, <2>1
  <2>2. CASE Lies(way, w, n, i)
    <3>1. Position(w) <= pushed
      BY <2>2 DEF WayInv, Due
    <3>2. Position(w) \in Int
      <4>1. PICK x \in 1..Len(Pushes) : w = Pushes[x]
        BY DEF Values
      <4>. QED  BY <4>1, Positions
    <3>. QED  BY <1>3, <3>1, <3>2
  <2>. QED  BY <1>12, <2>1, <2>2
<1>16. OnRoute(way)'
  <2> SUFFICES ASSUME ~ cut, NEW w \in Values, NEW m \in Line(way)
               PROVE  /\ \A x \in 1..Len(queue'[m]) :
                           Alone(queue'[m][x], w) => Bears(way, w, queue'[m][x], m, 1)
                      /\ Alone(hand'[m].item, w)
                           => Bears(way, w, hand'[m].item, m, IF step'[m] = "put" THEN 0 ELSE 1)
    BY <1>2, <1>11 DEF OnRoute
  <2>1. /\ \A x \in 1..Len(queue[m]) : Alone(queue[m][x], w) => Bears(way, w, queue[m][x], m, 1)
        /\ Alone(hand[m].item, w)
             => Bears(way, w, hand[m].item, m, IF step[m] = "put" THEN 0 ELSE 1)
    BY DEF WayInv, OnRoute
  <2>2. Bears(way, w, new, Source, 1)
    <3>1. PICK r \in Routes : r = RouteOf[w]
      BY <1>3
    <3>2. Carried(way, r, 1 - 1) = Default
      BY DEF Carried
    <3>3. new.route = Default
      BY <1>1
    <3>. QED  BY <1>5, <3>1, <3>2, <3>3 DEF Bears
  <2>3. m \in Nodes
    BY <1>5
  <2>. QED  BY <1>2, <1>9, <2>1, <2>2, <2>3
<1>17. InOrder(way)'
  <2> SUFFICES ASSUME ~ cut, NEW u \in Values, NEW w \in Values, RouteOf[u] = RouteOf[w],
                      NEW n \in Places, NEW m \in Places, NEW i \in Nat, NEW j \in Nat,
                      Lies(way, u, n, i)', Lies(way, w, m, j)',
                      Ahead(way, RouteOf[u], n, i, m, j)
               PROVE  Position(u) < Position(w)
    BY <1>2 DEF InOrder, Ahead
  <2>1. \A x : Sound(x)
    BY DEF Sound
  <2>2. CASE Lies(way, u, n, i) /\ Lies(way, w, m, j)
    BY <2>2 DEF WayInv, InOrder
  <2>3. CASE Lies(way, u, n, i) /\ w = v
    <3>1. Position(u) <= pushed
      BY <2>1, <2>3 DEF WayInv, Due
    <3>2. Position(u) \in Int
      <4>1. PICK x \in 1..Len(Pushes) : u = Pushes[x]
        BY DEF Values
      <4>. QED  BY <4>1, Positions
    <3>. QED  BY <1>3, <1>4, <2>3, <3>1, <3>2
  <2>4. CASE n = Source /\ i = e
    <3>1. PICK r \in Routes : r = RouteOf[u]
      BY <1>3
    <3>2. m = Source /\ i < j
      <4>1. ASSUME NEW c \in 1..Len(way[r]), NEW d \in 1..Len(way[r]), d < c, way[r][c] = Source
            PROVE  FALSE
        <5>1. c = 1
          BY <1>5, <4>1
        <5>. QED  BY <5>1, <4>1
      <4>2. \/ n = m /\ i < j
            \/ n = NoNode
            \/ \E c, d \in 1..Len(way[r]) : d < c /\ way[r][c] = n /\ way[r][d] = m
        BY <3>1 DEF Ahead
      <4>. QED  BY <1>3, <2>4, <4>1, <4>2
    <3>3. j # e
      BY <2>4, <3>2
    <3>4. Lies(way, w, m, j)
      BY <1>12, <3>3
    <3>5. j \in 1..Len(q)
      <4>1. j # 0 /\ m # NoNode
        BY <1>3, <1>6, <1>7, <2>4, <3>2
      <4>. QED  BY <1>6, <3>2, <3>4, <4>1 DEF Lies
    <3>. QED  BY <1>6, <1>7, <2>4, <3>2, <3>5
  <2>. QED  BY <1>12, <2>2, <2>3, <2>4
<1>. QED  BY <1>14, <1>15, <1>16, <1>17 DEF WayInv

LEMMA WayInit == ASSUME NEW way, OneWay(way), Init
                 PROVE  WayInv(way)
<1>1. \A n \in Nodes : queue[n] = <<>> /\ hand[n] = EmptyHand /\ collected = <<>>
  BY DEF Init
<1>2. Line(way) \subseteq Nodes /\ 1..Len(<<>>) = {} /\ collected = <<>>
  BY LineType, EmptySeq DEF Init
<1>3. \A v, n, i : ~ Lies(way, v, n, i)
  BY <1>1, <1>2, AloneOnes DEF Lies
<1>4. OnRoute(way)
  BY <1>1, <1>2, AloneOnes DEF OnRoute
<1>. QED  BY <1>3, <1>4 DEF WayInv, Once, Due, InOrder

LEMMA WayStep ==
  ASSUME NEW way, OneWay(way), EachOnce, TypeInv, TypeInv', WireInv, WorkInv, WayInv(way), Kinded
  PROVE  WayInv(way)'
<1>1. CASE Quiet
  BY <1>1, QuietKeepsWay
<1>2. CASE Push
  BY <1>2, PushKeepsWay
<1>3. CASE Rewired
  <2>1. PICK new : \E whole \in BOOLEAN :
          Rewires(new) /\ Rewire(new, whole) /\ UNCHANGED <<queue, step, Rest>>
    BY <1>3 DEF Rewired
  <2>. QED  BY <2>1, RewireKeepsWay
<1>4. ASSUME NEW n \in Nodes, Cancels(n) \/ Handles(n) \/ Finish(n) \/ Unblock(n)
      PROVE  WayInv(way)'
  BY <1>4, CancelsKeepsWay, HandlesKeepWay, FinishKeepsWay, UnblockKeepsWay
<1>. QED  BY <1>1, <1>2, <1>3, <1>4 DEF Kinded

LEMMA WayDelivers ==
  ASSUME NEW way, TypeInv, WayInv(way)
  PROVE  DeliveredInOrder
<1> SUFFICES ASSUME NEW i \in 1..Len(collected), NEW j \in 1..Len(collected), i < j,
                    ~ collected[i].list, ~ collected[j].list
             PROVE  /\ collected[i].vals = collected[j].vals => collected[i].vals[1] \in edited
                    /\ RouteOf[collected[i].vals[1]] = RouteOf[collected[j].vals[1]]
                         => cut \/ Position(collected[i].vals[1]) < Position(collected[j].vals[1])
  BY DEF DeliveredInOrder
<1>1. ASSUME NEW x \in 1..Len(collected), ~ collected[x].list
      PROVE  /\ collected[x].vals[1] \in Values /\ Alone(collected[x], collected[x].vals[1])
             /\ Lies(way, collected[x].vals[1], NoNode, x)
  <2>1. collected[x] \in Taken
    BY ElementOfSeq DEF TypeInv, ValuesInv
  <2>2. PICK item \in Packed : collected[x] = [vals |-> item.vals, list |-> item.list]
    BY <2>1 DEF Taken
  <2>3. PICK s \in Seq(Values) : s = item.vals /\ Len(s) = 1 /\ collected[x].vals = s
    BY <1>1, <2>2, ItemFields DEF Packed
  <2>4. s = <<s[1]>> /\ s[1] \in Values
    BY <2>3, ElementOfSeq
  <2>. QED  BY <1>1, <2>3, <2>4 DEF Alone, Lies
<1>2. PICK u, v : u = collected[i].vals[1] /\ v = collected[j].vals[1]
  OBVIOUS
<1>3. /\ u \in Values /\ Alone(collected[i], u) /\ Lies(way, u, NoNode, i)
      /\ v \in Values /\ Alone(collected[j], v) /\ Lies(way, v, NoNode, j)
  BY <1>1, <1>2
<1>4. NoNode \in Places /\ i \in Nat /\ j \in Nat /\ i # j
  BY DEF Places
<1>5. ASSUME collected[i].vals = collected[j].vals, u \notin edited
      PROVE  FALSE
  <2>1. u = v /\ Sound(u)
    BY <1>2, <1>5 DEF Sound
  <2>. QED  BY <1>3, <1>4, <2>1 DEF WayInv, Once
<1>6. ASSUME RouteOf[u] = RouteOf[v], ~ cut
      PROVE  Position(u) < Position(v)
  <2>1. Ahead(way, RouteOf[u], NoNode, i, NoNode, j)
    BY DEF Ahead
  <2>. QED  BY <1>3, <1>4, <1>6, <2>1 DEF WayInv, InOrder
<1>. QED  BY <1>2, <1>5, <1>6

\* What the sink keeps arrives in the order in which the source put it, and none
\* twice: BasePipeline moves one item at a time from queue to queue, so along
\* a line that no control operation cuts nothing overtakes and nothing is copied.
\* It holds for every wiring in which one way leads from the source to the sink
\* for each route (OneWay) and a source that puts each value once (EachOnce).
THEOREM PipelineDeliversInOrder ==
  ASSUME NEW way, OneWay(way), EachOnce
  PROVE  Spec => []DeliveredInOrder
<1> DEFINE Inv == TypeInv /\ WireInv /\ WorkInv /\ WayInv(way)
<1>1. Init => Inv
  BY TypeInit, WireInit, WayInit
<1>2. Inv /\ [Next]_vars => Inv'
  <2> SUFFICES ASSUME Inv, [Next]_vars
               PROVE  Inv'
    OBVIOUS
  <2>1. TypeInv' /\ Kinded
    BY TypeStep, StepKinds DEF WireInv
  <2>2. WellWired
    BY DEF OneWay
  <2>3. WireInv' /\ WorkInv'
    BY <2>1, <2>2, WireStep
  <2>4. WayInv(way)'
    BY <2>1, WayStep
  <2>. QED  BY <2>1, <2>3, <2>4
<1>3. Inv => DeliveredInOrder
  BY WayDelivers
<1>. QED  BY <1>1, <1>2, <1>3, PTL DEF Spec

-----------------------------------------------------------------------------
(* Who waits for whom.  A controller waits for a node that runs no longer;  *)
(* such a node emits, or has ended; and emitters wait forwards.             *)

HaltInv ==
  /\ \A c \in Controllers, n \in Nodes :
       ctl[c].do \in {"removing", "stopping"} /\ ctl[c].on = n /\ step[n] # "ended" => ~ running[n]
  /\ \A c \in Controllers : ctl[c].do = "removing" => Registered(ctl[c].on)
  /\ \A c, d \in Controllers : ctl[c].do = "removing" /\ ctl[d].do = "removing" => c = d

\* Nothing starts, and nobody begins to wait.
Halts == NoneStarts /\ \A n \in Nodes : running'[n] => running[n]

LEMMA HaltStays ==
  ASSUME TypeInv, HaltInv, Halts,
         \A c \in Controllers :
           \/ ctl'[c].do \notin {"removing", "stopping"}
           \/ ctl'[c].do = ctl[c].do /\ ctl'[c].on = ctl[c].on
           \/ ctl'[c].do = "stopping" /\ ctl'[c].on = NoNode,
         \A c \in Controllers : ctl'[c].do = "removing" /\ Registered(ctl[c].on) => Registered(ctl[c].on)'
  PROVE  HaltInv'
<1>1. \A n \in Nodes : n # NoNode
  BY PipelineAssumption
<1>2. \A c \in Controllers : ctl'[c].do = "removing" => ctl[c].do = "removing" /\ ctl'[c].on = ctl[c].on
  OBVIOUS
<1>3. \A c \in Controllers, n \in Nodes :
        ctl'[c].do \in {"removing", "stopping"} /\ ctl'[c].on = n
          => ctl[c].do \in {"removing", "stopping"} /\ ctl[c].on = n
  BY <1>1
<1>4. ASSUME NEW c \in Controllers, ctl'[c].do = "removing"
      PROVE  Registered(ctl[c].on)'
  <2>1. Registered(ctl[c].on)
    BY <1>2, <1>4 DEF HaltInv
  <2>2. \E i \in 1..Len(registered') : registered'[i] = ctl[c].on
    BY <1>2, <1>4, <2>1 DEF Registered
  <2>. QED  BY <1>2, <1>4, <2>2 DEF Registered
<1>. QED  BY <1>2, <1>3, <1>4 DEF HaltInv, Halts, NoneStarts

LEMMA HaltSame ==
  ASSUME TypeInv, HaltInv, Halts, UNCHANGED <<ctl, registered>>
  PROVE  HaltInv'
<1>1. \A n : Registered(n)' <=> Registered(n)
  BY DEF Registered
<1>. QED  BY HaltStays DEF Registered

\* A controller that goes over to something else, or is done.
LEMMA HaltFreed ==
  ASSUME TypeInv, HaltInv, Halts, UNCHANGED registered, NEW c \in Controllers, NEW k,
         ctl' = [ctl EXCEPT ![c] = k],
         k.do \notin {"removing", "stopping"} \/ (k.do = "stopping" /\ k.on = NoNode)
  PROVE  HaltInv'
<1>1. ctl'[c] = k /\ \A d \in Controllers \ {c} : ctl'[d] = ctl[d]
  BY CtlOf
<1>2. \A d \in Controllers :
        \/ ctl'[d].do \notin {"removing", "stopping"}
        \/ ctl'[d].do = ctl[d].do /\ ctl'[d].on = ctl[d].on
        \/ ctl'[d].do = "stopping" /\ ctl'[d].on = NoNode
  BY <1>1
<1>3. \A d \in Controllers : ctl'[d].do = "removing" /\ Registered(ctl[d].on) => Registered(ctl[d].on)'
  BY <1>1 DEF Registered
<1>. QED  BY <1>2, <1>3, HaltStays

\* A controller stops n, and waits for it.
LEMMA HaltOn ==
  ASSUME TypeInv, HaltInv, NoneStarts, NEW n \in Nodes, running' = [running EXCEPT ![n] = FALSE],
         UNCHANGED registered, NEW c \in Controllers, NEW k, ctl' = [ctl EXCEPT ![c] = k],
         k.on = n, k.do \in {"removing", "stopping"},
         k.do = "removing" => Registered(n) /\ \A d \in Controllers : ctl[d].do # "removing"
  PROVE  HaltInv'
<1>1. ctl'[c] = k /\ \A d \in Controllers \ {c} : ctl'[d] = ctl[d]
  BY CtlOf
<1>2. ~ running'[n] /\ \A m \in Nodes : running'[m] => running[m]
  BY DEF TypeInv, NodesInv
<1>3. ASSUME NEW d \in Controllers, NEW m \in Nodes, ctl'[d].do \in {"removing", "stopping"},
             ctl'[d].on = m, step'[m] # "ended"
      PROVE  ~ running'[m]
  <2>1. step[m] # "ended"
    BY <1>3 DEF NoneStarts
  <2>2. CASE d = c
    BY <1>1, <1>2, <1>3, <2>2
  <2>3. CASE d # c
    <3>1. ~ running[m]
      BY <1>1, <1>3, <2>1, <2>3 DEF HaltInv
    <3>. QED  BY <1>2, <3>1
  <2>. QED  BY <2>2, <2>3
<1>4. ASSUME NEW d \in Controllers, ctl'[d].do = "removing"
      PROVE  Registered(ctl[d].on)'
  <2>1. Registered(ctl'[d].on)
    BY <1>1, <1>4 DEF HaltInv
  <2>. QED  BY <2>1 DEF Registered
<1>5. \A d, e \in Controllers : ctl'[d].do = "removing" /\ ctl'[e].do = "removing" => d = e
  <2>1. CASE k.do = "removing"
    BY <1>1, <2>1
  <2>2. CASE k.do # "removing"
    BY <1>1, <2>2 DEF HaltInv
  <2>. QED  BY <2>1, <2>2
<1>. QED  BY <1>3, <1>4, <1>5 DEF HaltInv

LEMMA HaltRegister ==
  ASSUME TypeInv, EndInv, HaltInv, NEW c \in Controllers, NEW n \in Nodes, Register(c, n)
  PROVE  HaltInv'
<1>0. /\ step \in [Nodes -> Phases] /\ running \in [Nodes -> BOOLEAN] /\ registered \in Seq(Nodes)
      /\ ctl' = ctl /\ ~ Registered(n) /\ ctl[c].do = "idle"
  BY CtlOf DEF Register, TypeInv, NodesInv, Operation, Free
<1>1. \A m : Registered(m) => \E i \in 1..Len(registered') : registered'[i] = m
  <2>1. \A m : Has(registered, m) => Has(registered', m)
    BY <1>0, Appended DEF Register
  <2>. QED  BY <2>1 DEF Has, Registered
<1>2. \A d \in Controllers : ctl'[d].do = "removing" => Registered(ctl[d].on)'
  BY <1>0, <1>1 DEF HaltInv, Registered
<1>3. \A m \in Nodes : m # n => step'[m] = step[m] /\ running'[m] = running[m]
  BY <1>0 DEF Register
<1>4. CASE UNCHANGED <<running, step>>
  BY <1>0, <1>2, <1>4 DEF HaltInv
<1>5. CASE up
  <2>1. \A d \in Controllers : ctl[d].do # "stopping"
    BY <1>5 DEF EndInv, Ending
  <2>2. \A d \in Controllers : ctl[d].do = "removing" => ctl[d].on # n
    BY <1>0 DEF HaltInv
  <2>. QED  BY <1>0, <1>2, <1>3, <2>1, <2>2 DEF HaltInv
<1>. QED  BY <1>4, <1>5 DEF Register

LEMMA HaltStart ==
  ASSUME TypeInv, EndInv, HaltInv, Start
  PROVE  HaltInv'
<1>1. ctl["caller"].do = "idle" /\ ctl["signals"].do = "idle" /\ ctl' = ctl
  BY DEF Start, Operation, Free, EndInv
<1>2. \A c \in Controllers : ctl'[c].do = "idle"
  BY <1>1 DEF Controllers
<1>. QED  BY <1>2 DEF HaltInv

LEMMA HaltStopNext ==
  ASSUME TypeInv, HaltInv, NEW c \in Controllers, StopNext(c)
  PROVE  HaltInv'
<1>1. PICK k, n : k = [ctl[c] EXCEPT !.on = Head(ctl[c].rest), !.rest = Tail(@)]
                  /\ n = Head(ctl[c].rest)
  OBVIOUS
<1>2. ctl[c] \in Ctl /\ ctl[c].rest \in Seq(Nodes) /\ ctl[c].rest # <<>> /\ ctl[c].do = "stopping"
  BY CtlFields DEF StopNext, TypeInv, ControlInv
<1>3. n \in Nodes
  BY <1>1, <1>2, HeadTailProperties
<1>4. k.do = "stopping" /\ k.on = n
  BY <1>1, <1>2 DEF Ctl
<1>5. ctl' = [ctl EXCEPT ![c] = k] /\ UNCHANGED registered
  BY <1>1, CtlOf DEF StopNext
<1>6. running' = [running EXCEPT ![n] = FALSE] /\ NoneStarts
  <2>1. CASE StopNode(n)
    BY <1>3, <2>1, StopNodeStep DEF StopNode
  <2>2. CASE running' = [running EXCEPT ![n] = FALSE] /\ UNCHANGED nodeVars
    BY <2>2 DEF NoneStarts, nodeVars
  <2>. QED  BY <1>1, <2>1, <2>2 DEF StopNext
<1>. QED  BY <1>3, <1>4, <1>5, <1>6, HaltOn

LEMMA HaltStep == TypeInv /\ EndInv /\ HaltInv /\ [Next]_vars => HaltInv'
<1> SUFFICES ASSUME TypeInv, EndInv, HaltInv, [Next]_vars
             PROVE  HaltInv'
  OBVIOUS
<1>1. ASSUME UNCHANGED <<step, running>>
      PROVE  Halts
  BY <1>1 DEF Halts, NoneStarts
<1>2. CASE UNCHANGED vars \/ Push \/ SignalsEnd
  BY <1>1, <1>2, HaltSame DEF vars, nodeVars, Push, SignalsEnd
<1>3. ASSUME NEW n \in Nodes, NodeStep(n)
      PROVE  HaltInv'
  <2>1. NoneStarts /\ UNCHANGED <<ctl, registered, running>>
    BY <1>3, NodeStepNone DEF NodeStep, Take, Finish, Unblock
  <2>. QED  BY <2>1, HaltSame DEF Halts
<1>4. ASSUME NEW c \in Controllers,
             \/ \E e \in Edges : Connect(c, e) \/ Disconnect(e)
             \/ \E n \in Pausable : SetActive(c, n)
      PROVE  HaltInv'
  BY <1>1, <1>4, HaltSame DEF Connect, Disconnect, SetActive, nodeVars
<1>5. ASSUME NEW c \in Controllers, Joined(c)
      PROVE  HaltInv'
  <2>1. PICK k : k = [do |-> "stopping", rest |-> registered, size |-> Len(registered), on |-> NoNode]
    OBVIOUS
  <2>2. k.do = "stopping" /\ k.on = NoNode
    BY <2>1
  <2>. QED  BY <1>1, <1>5, <2>1, <2>2, HaltFreed DEF Joined, nodeVars
<1>6. ASSUME NEW c \in Controllers, StopDone(c)
      PROVE  HaltInv'
  <2>1. IdleCtl.do \notin {"removing", "stopping"}
    BY Idles
  <2>. QED  BY <1>1, <1>6, <2>1, HaltFreed DEF StopDone, nodeVars
<1>7. ASSUME NEW c \in Controllers, StopAll(c)
      PROVE  HaltInv'
  <2>1. PICK k : k = [IdleCtl EXCEPT !.do = "joining"]
    OBVIOUS
  <2>2. k.do = "joining"
    BY <2>1 DEF IdleCtl
  <2>3. NoneStarts
    <3>1. step \in [Nodes -> Phases]
      BY CtlOf
    <3>. QED  BY <1>7, <3>1 DEF StopAll, Cancelled, NoneStarts, nodeVars
  <2>4. Halts /\ UNCHANGED registered
    BY <1>7, <2>3 DEF StopAll, Halts
  <2>. QED  BY <1>7, <2>1, <2>2, <2>4, HaltFreed DEF StopAll
<1>8. ASSUME NEW c \in Controllers, Removed(c)
      PROVE  HaltInv'
  <2>1. ctl[c].do = "removing" /\ ctl' = [ctl EXCEPT ![c] = IdleCtl] /\ UNCHANGED <<step, running>>
    BY <1>8 DEF Removed
  <2>2. ctl'[c].do = "idle" /\ \A d \in Controllers \ {c} : ctl'[d] = ctl[d]
    BY <2>1, CtlOf, Idles
  <2>3. \A d \in Controllers : ctl'[d].do # "removing"
    BY <2>1, <2>2 DEF HaltInv
  <2>4. ASSUME NEW d \in Controllers
        PROVE  \/ ctl'[d].do \notin {"removing", "stopping"}
               \/ ctl'[d].do = ctl[d].do /\ ctl'[d].on = ctl[d].on
    <3>1. CASE d = c
      BY <2>2, <3>1
    <3>. QED  BY <2>2, <3>1
  <2>. QED  BY <1>1, <2>1, <2>3, <2>4, HaltStays
<1>9. ASSUME NEW c \in Controllers, NEW n \in Removable, Remove(c, n)
      PROVE  HaltInv'
  <2>1. PICK k : k = [IdleCtl EXCEPT !.do = "removing", !.on = n]
    OBVIOUS
  <2>2. k.do = "removing" /\ k.on = n /\ n \in Nodes
    BY <2>1, PipelineAssumption DEF IdleCtl
  <2>3. NoneStarts /\ running' = [running EXCEPT ![n] = FALSE]
    BY <1>9, <2>2, StopNodeStep DEF Remove, StopNode
  <2>. QED  BY <1>9, <2>1, <2>2, <2>3, HaltOn DEF Remove
<1>10. ASSUME NEW c \in Controllers, NEW n \in Removable, Register(c, n)
       PROVE  HaltInv'
  BY <1>10, HaltRegister, PipelineAssumption
<1>11. ASSUME NEW c \in Controllers, StopNext(c)
       PROVE  HaltInv'
  BY <1>11, HaltStopNext
<1>12. ASSUME NEW e \in Edges, Disconnect(e)
       PROVE  HaltInv'
  BY <1>1, <1>12, HaltSame DEF Disconnect
<1>. QED  BY <1>2, <1>3, <1>4, <1>5, <1>6, <1>7, <1>8, <1>9, <1>10, <1>11, <1>12, HaltStart
          DEF Next, ControlStep

-----------------------------------------------------------------------------
\* Of the nodes that wait to put, the one furthest on waits for a node that does
\* not wait itself.
LEMMA LastWaits ==
  ASSUME TypeInv, WaitsInv, NEW rank, Ranked(rank), \E n \in Nodes : step[n] = "put"
  PROVE  \E n \in Nodes : step[n] = "put" /\ hand[n].to \in Nodes /\ step[hand[n].to] # "put"
<1> DEFINE P == {n \in Nodes : step[n] = "put"}
           S == {0 - rank[n] : n \in P}
<1>1. IsFiniteSet(P) /\ P # {}
  BY PipelineAssumption, FS_Subset
<1>2. \A n \in Nodes : rank[n] \in Nat
  BY DEF Ranked
<1>3. S \subseteq Int /\ S # {}
  BY <1>1, <1>2
<1>4. IsFiniteSet(S)
  <2>1. PICK f : f = [n \in P |-> 0 - rank[n]]
    OBVIOUS
  <2>2. f \in Surjection(P, S)
    BY <2>1 DEF Surjection
  <2>. QED  BY <1>1, <2>2, FS_Surjection
<1>5. PICK x \in S : \A y \in S : x <= y
  <2> HIDE DEF S
  <2>. QED  BY <1>3, <1>4, Least
<1>6. PICK n \in P : x = 0 - rank[n]
  OBVIOUS
<1>7. \A m \in P : rank[m] <= rank[n]
  <2> SUFFICES ASSUME NEW m \in P
               PROVE  rank[m] <= rank[n]
    OBVIOUS
  <2>1. 0 - rank[n] <= 0 - rank[m]
    BY <1>5, <1>6
  <2>. QED  BY <1>2, <2>1
<1>8. hand[n].route \in Routes /\ hand[n].to \in Targets(n, hand[n].route)
  BY HandFields DEF WaitsInv, Waits, TypeInv, NodesInv
<1>9. hand[n].to \in Nodes
  BY <1>8, TargetsType
<1>10. rank[n] < rank[hand[n].to]
  BY <1>8 DEF Ranked
<1>11. hand[n].to \notin P
  BY <1>2, <1>7, <1>9, <1>10
<1>. QED  BY <1>6, <1>9, <1>11

LEMMA SomeoneGoes ==
  ASSUME TypeInv, EndInv, HaltInv, WaitsInv, NEW rank, Ranked(rank)
  PROVE  NoDeadlock
<1> SUFFICES ASSUME NEW c \in Controllers, ctl[c].do # "idle", ~ CanGo
             PROVE  Stuck
  BY DEF NoDeadlock
<1>1. PICK d \in Controllers : ctl[d].do \in {"removing", "stopping"}
  <2>1. ctl[c].do \in Doings /\ ctl["signals"].do \in Doings
    BY CtlOf, CtlFields
  <2>2. CASE ctl[c].do = "joining"
    <3>1. c = "caller" /\ signals
      BY <2>2 DEF CanGo, MayJoin
    <3>2. ~ up
      BY <2>2 DEF EndInv, Ending
    <3>3. ctl["signals"].do # "idle" /\ "signals" \in Controllers
      BY <3>1, <3>2, CtlOf DEF CanGo, MaySignalsEnd
    <3>4. ctl["signals"].do # "joining"
      BY <3>3 DEF CanGo, MayJoin
    <3>. QED  BY <2>1, <3>3, <3>4 DEF Doings
  <2>. QED  BY <2>1, <2>2 DEF Doings
<1>2. PICK n \in Nodes : ctl[d].on = n /\ step[n] # "ended"
  <2>1. ~ Stopped(d)
    BY <1>1 DEF CanGo
  <2>2. ctl[d].on \in Nodes \cup {NoNode}
    BY CtlOf, CtlFields
  <2>. QED  BY <2>1, <2>2 DEF Stopped
<1>3. step[n] = "put"
  <2>1. ~ running[n]
    BY <1>1, <1>2 DEF HaltInv
  <2>2. step[n] \in Phases /\ step[n] # "get"
    BY <2>1 DEF TypeInv, NodesInv, Fits
  <2>3. step[n] # "process"
    BY DEF CanGo
  <2>. QED  BY <1>2, <2>2, <2>3 DEF Phases
<1>4. PICK m, t \in Nodes : m \in Nodes /\ step[m] = "put" /\ hand[m].to = t /\ step[t] # "put"
  BY <1>3, LastWaits
<1>5. Full(queue, t)
  BY <1>4 DEF CanGo, MayPut
<1>6. queue[t] # <<>>
  <2>1. Len(<<>>) = 0 /\ Capacity \in Nat \ {0}
    BY EmptySeq, PipelineAssumption
  <2>. QED  BY <1>5, <2>1 DEF Full
<1>7. step[t] = "ended"
  <2>1. step[t] \in Phases
    BY DEF TypeInv, NodesInv
  <2>. QED  BY <1>4, <1>6, <2>1 DEF CanGo, MayTake, Phases
<1>. QED  BY <1>4, <1>5, <1>7 DEF Stuck

\* In a wiring without circles, for queues of any size: while a stop or a removal
\* is under way, some task can go on, unless an emitter is stuck on a node that
\* has ended.  Nobody waits for himself, a STOP signal not for the task it runs
\* in, and controllers and emitters never in a circle.  (PipelineManager.stop,
\* unregister_node, Node.stop, Node.emit.)
THEOREM PipelineNoDeadlock ==
  ASSUME WellWired, NEW rank, Ranked(rank)
  PROVE  Spec => []NoDeadlock
<1> DEFINE Inv == TypeInv /\ EndInv /\ HaltInv /\ WireInv /\ WorkInv
<1>1. Init => Inv
  <2>1. Init => EndInv /\ HaltInv
    BY DEF Init, EndInv, HaltInv, IdleCtl, Ending, Controllers
  <2>. QED  BY <2>1, TypeInit, WireInit
<1>2. Inv /\ [Next]_vars => Inv'
  <2> SUFFICES ASSUME Inv, [Next]_vars
               PROVE  Inv'
    OBVIOUS
  <2>1. TypeInv' /\ Kinded
    BY TypeStep, StepKinds DEF WireInv
  <2>2. EndInv' /\ HaltInv'
    BY EndStep, HaltStep DEF StopStep
  <2>. QED  BY <2>1, <2>2, WireStep
<1>3. Inv => NoDeadlock
  BY SomeoneGoes DEF WireInv
<1>. QED  BY <1>1, <1>2, <1>3, PTL DEF Spec

-----------------------------------------------------------------------------
(* Nothing is lost.  A visit is a node, and how a value comes to it: in a   *)
(* list or alone, and by which route.  The visits of a value are followed   *)
(* through the wires: each is still there, or has gone on to every          *)
(* subscriber the node began with.                                         *)

Visits == Nodes \X BOOLEAN \X Routes

Carries(item, v, l, r) == v \in ValuesOf(item) /\ item.list = l /\ item.route = r

\* The value is with n, or has come to its end there: at a sink, or in a filter
\* that need not let it through.
Kept(v, n, l, r) ==
  \/ \E x \in 1..Len(queue[n]) : Carries(queue[n][x], v, l, r)
  \/ step[n] = "process" /\ Carries(hand[n].item, v, l, r)
  \/ Kind[n] = "aggregator" /\ \E x \in 1..Len(buffer) : buffer[x] = v
  \/ /\ Kind[n] = "sink"
     /\ \E x \in 1..Len(collected) : collected[x].list = l /\ v \in ValuesOf(collected[x])
  \/ Kind[n] = "filter" /\ IF l THEN ~ (Values \subseteq Passes) ELSE v \notin Passes

\* How it goes on: an aggregator makes lists, and a router looks at single values.
Sends(v, n, l, r, m, s) ==
  /\ m = (l \/ Kind[n] = "aggregator")
  /\ Kind[n] = "router" /\ ~ l => s = IF v \in Bad[n] THEN r ELSE RouteOf[v]
  /\ Kind[n] \notin {"router", "aggregator"} => s = r

\* To all the subscribers n began with; or, in the midst of it, to those before
\* the one it waits for.
SentOn(v, n, m, s, G) ==
  LET list == Wiring[n][Wired(n, s)] IN
  \/ \A x \in 1..Len(list) : <<list[x], m, s>> \in G
  \/ /\ step[n] = "put" /\ Carries(hand[n].item, v, m, s)
     /\ \A x \in 1..Len(list) : x < hand[n].at => <<list[x], m, s>> \in G

GoneOn(v, n, l, r, G) ==
  Kind[n] # "sink" /\ \E m \in BOOLEAN, s \in Routes : Sends(v, n, l, r, m, s) /\ SentOn(v, n, m, s, G)

Followed(v, G) ==
  /\ G \subseteq Visits /\ <<Source, FALSE, Default>> \in G
  /\ \A n \in Nodes, l \in BOOLEAN, r \in Routes :
       <<n, l, r>> \in G => Kept(v, n, l, r) \/ GoneOn(v, n, l, r, G)

Lost(v) == v \in counted \cup forfeit

Accounted == \A i \in 1..pushed : cut \/ Lost(Pushes[i]) \/ \E G : Followed(Pushes[i], G)

LEMMA FollowedOn ==
  ASSUME NEW v, NEW G, NEW H, G \subseteq H, H \subseteq Visits, Followed(v, G),
         \A n \in Nodes, l \in BOOLEAN, r \in Routes :
           /\ <<n, l, r>> \in H => <<n, l, r>> \in G \/ Kept(v, n, l, r)'
           /\ <<n, l, r>> \in G /\ Kept(v, n, l, r) => Kept(v, n, l, r)' \/ GoneOn(v, n, l, r, H)',
         \A n \in Nodes, m \in BOOLEAN, s \in Routes : SentOn(v, n, m, s, G) => SentOn(v, n, m, s, H)'
  PROVE  Followed(v, H)'
<1>1. ASSUME NEW n \in Nodes, NEW l \in BOOLEAN, NEW r \in Routes, <<n, l, r>> \in H
      PROVE  Kept(v, n, l, r)' \/ GoneOn(v, n, l, r, H)'
  <2>1. CASE <<n, l, r>> \in G /\ Kept(v, n, l, r)
    BY <2>1
  <2>2. CASE <<n, l, r>> \in G /\ GoneOn(v, n, l, r, G)
    <3>1. PICK m \in BOOLEAN, s \in Routes : Sends(v, n, l, r, m, s) /\ SentOn(v, n, m, s, G)
      BY <2>2 DEF GoneOn
    <3>2. SentOn(v, n, m, s, H)'
      BY <3>1
    <3>. QED  BY <2>2, <3>1, <3>2 DEF GoneOn, Sends
  <2>. QED  BY <1>1, <2>1, <2>2 DEF Followed
<1>. QED  BY <1>1 DEF Followed

\* Nothing is taken out of the queues, the buffer or the sink, nor out of hands.
LEMMA FollowedStays ==
  ASSUME NEW v, NEW G, Followed(v, G),
         \A n \in Nodes, l \in BOOLEAN, r \in Routes : Kept(v, n, l, r) => Kept(v, n, l, r)',
         \A n \in Nodes : \/ step'[n] = "put" /\ hand'[n].item = hand[n].item /\ hand'[n].at = hand[n].at
                          \/ step[n] # "put" \/ v \notin ValuesOf(hand[n].item)
  PROVE  Followed(v, G)'
<1>1. ASSUME NEW n \in Nodes, NEW m \in BOOLEAN, NEW s \in Routes, SentOn(v, n, m, s, G)
      PROVE  SentOn(v, n, m, s, G)'
  BY <1>1 DEF SentOn, Carries
<1>. QED  BY <1>1, FollowedOn DEF Followed

-----------------------------------------------------------------------------
(* What a node passes on.                                                  *)

\* A passed item, where it has come to.
Come(v, item, list, i, j) ==
  {<<t, item.list, item.route>> : t \in {u \in Served(list, i, j) : v \in ValuesOf(item)}}

\* Nothing is taken from the other nodes' queues, and those served have the item.
Queues(n, k, item, route, i, j) ==
  /\ \A m \in Nodes : \A x \in 1..Len(queue[m]) :
       m # n => x \in 1..Len(queue'[m]) /\ queue'[m][x] = queue[m][x]
  /\ \A x \in 1..Len(queue[n]) :
       x # k => x - k \in 1..Len(queue'[n]) /\ queue'[n][x - k] = queue[n][x]
  /\ \A m \in Served(subs[n][route], i, j) :
       m \in Nodes /\ \E x \in 1..Len(queue'[m]) : queue'[m][x] = item

LEMMA PassKeepsQueues ==
  ASSUME WellWired, TypeInv, WireInv, ~ cut, NEW n \in Nodes, NEW k \in {0, 1}, NEW item,
         NEW route \in Routes, NEW i, NEW j, k = 1 => queue[n] # <<>>,
         PassesTo(n, k, item, route, i, j)
  PROVE  Queues(n, k, item, route, i, j)
<1>1. \A p \in Nodes : queue[p] \in Seq(Packed) /\ Len(queue[p]) \in Nat
  BY LenProperties DEF TypeInv, NodesInv, Queue
<1>2. \A m \in Served(subs[n][route], i, j) : m \in Nodes /\ m # n
  <2>1. \A x \in 1..Len(subs[n][route]) : subs[n][route][x] \in Targets(n, route)
    BY DEF WireInv, ListsInv
  <2>. QED  BY <2>1, TargetsType DEF Served, WellWired
<1>3. Sound(item.vals[1])
  BY DEF Sound
<1>4. ASSUME NEW s \in Seq(Packed)
      PROVE  /\ Append(s, item)[Len(s) + 1] = item /\ Len(Append(s, item)) = Len(s) + 1
             /\ \A y \in 1..Len(s) : Append(s, item)[y] = s[y]
  <2>1. s \in Seq(Packed \cup {item})
    BY SeqMonotonic
  <2>. QED  BY <2>1, AppendProperties
<1>5. ASSUME NEW m \in Nodes, m # n
      PROVE  /\ \A x \in 1..Len(queue[m]) : x \in 1..Len(queue'[m]) /\ queue'[m][x] = queue[m][x]
             /\ m \in Served(subs[n][route], i, j) => \E x \in 1..Len(queue'[m]) : queue'[m][x] = item
  <2>1. PICK s : s = queue[m]
    OBVIOUS
  <2>2. s \in Seq(Packed) /\ Len(s) \in Nat
    BY <1>1, <2>1
  <2>3. CASE m \in Served(subs[n][route], i, j)
    <3>1. queue'[m] = Append(s, item)
      BY <1>3, <1>5, <2>1, <2>3 DEF PassesTo
    <3>2. Len(s) + 1 \in 1..Len(s) + 1 /\ \A y \in 1..Len(s) : y \in 1..Len(s) + 1
      BY <2>2
    <3>. QED  BY <1>4, <2>1, <2>2, <3>1, <3>2
  <2>4. CASE m \notin Served(subs[n][route], i, j)
    <3>1. queue'[m] = queue[m]
      BY <1>3, <1>5, <2>4 DEF PassesTo
    <3>. QED  BY <2>4, <3>1
  <2>. QED  BY <2>3, <2>4
<1>6. ASSUME NEW x \in 1..Len(queue[n]), x # k
      PROVE  x - k \in 1..Len(queue'[n]) /\ queue'[n][x - k] = queue[n][x]
  <2>1. PICK s : s = queue[n]
    OBVIOUS
  <2>2. s \in Seq(Packed) /\ Len(s) \in Nat
    BY <1>1, <2>1
  <2>3. CASE k = 0
    BY <2>1, <2>2, <2>3 DEF PassesTo
  <2>4. CASE k = 1
    <3>1. queue'[n] = Tail(s) /\ s # <<>>
      BY <2>1, <2>4 DEF PassesTo
    <3>2. Len(Tail(s)) = Len(s) - 1 /\ \A y \in 1..Len(Tail(s)) : Tail(s)[y] = s[y + 1]
      BY <2>2, <3>1, HeadTailProperties
    <3>3. x - 1 \in 1..Len(s) - 1 /\ (x - 1) + 1 = x
      BY <1>6, <2>1, <2>2, <2>4
    <3>. QED  BY <2>1, <2>4, <3>1, <3>2, <3>3
  <2>. QED  BY <2>3, <2>4
<1>. QED  BY <1>2, <1>5, <1>6 DEF Queues

\* Those that the node began with, served from the i-th on.
LEMMA PassSends ==
  ASSUME TypeInv, WireInv, ~ cut, NEW n \in Nodes, NEW k, NEW item, item \in Packed,
         NEW i \in Nat, NEW j \in Nat, NEW v, v \in ValuesOf(item), NEW G, NEW H,
         PassesTo(n, k, item, Wired(n, item.route), i, j), G \subseteq H,
         \A x \in 1..Len(Wiring[n][Wired(n, item.route)]) :
           x < i => <<Wiring[n][Wired(n, item.route)][x], item.list, item.route>> \in G,
         Come(v, item, subs[n][Wired(n, item.route)], i, j) \subseteq H
  PROVE  SentOn(v, n, item.list, item.route, H)'
<1>1. PICK route \in Routes : route = Wired(n, item.route)
  BY ItemFields, WiredType DEF Packed
<1>2. PICK list, start : list = subs[n][route] /\ start = Wiring[n][route]
  OBVIOUS
<1>3. list \in Seq(Nodes) /\ Len(list) \in Nat /\ start \in Seq(Nodes) /\ Len(start) \in Nat
  BY <1>1, <1>2, LenProperties, PipelineAssumption DEF TypeInv, WiresInv
<1>4. Len(start) <= Len(list) /\ \A x \in 1..Len(start) : list[x] = start[x]
  BY <1>1, <1>2 DEF WireInv, ListsInv, Extends
<1>5. ASSUME NEW x \in 1..Len(start), x < j
      PROVE  <<start[x], item.list, item.route>> \in H
  <2>1. CASE x < i
    BY <1>1, <1>2, <2>1
  <2>2. CASE ~ (x < i)
    <3>1. i <= x /\ x \in 1..Len(list)
      BY <1>3, <1>4, <2>2
    <3>2. start[x] \in Served(list, i, j)
      BY <1>4, <1>5, <3>1 DEF Served
    <3>. QED  BY <1>1, <1>2, <3>2 DEF Come
  <2>. QED  BY <2>1, <2>2
<1>6. Sound(item.vals[1])
  BY DEF Sound
<1>7. CASE hand'[n] = EmptyHand /\ j = Len(list) + 1
  <2>1. \A x \in 1..Len(start) : <<start[x], item.list, item.route>> \in H
    BY <1>3, <1>4, <1>5, <1>7
  <2>. QED  BY <1>1, <1>2, <2>1 DEF SentOn
<1>8. CASE step'[n] = "put" /\ hand'[n].item = item /\ hand'[n].at = j
  BY <1>1, <1>2, <1>5, <1>8 DEF SentOn, Carries
<1>. QED  BY <1>1, <1>2, <1>6, <1>7, <1>8 DEF PassesTo

\* What n has of a value that is about to leave it: at the head of its queue, in
\* the hand of a processor, or in the buffer.
Leaving(v, n, k, l, r) ==
  \/ k = 1 /\ Carries(queue[n][1], v, l, r)
  \/ step[n] = "process" /\ Carries(hand[n].item, v, l, r)
  \/ Kind[n] = "aggregator" /\ \E x \in 1..Len(buffer) : buffer[x] = v

LEMMA PassFollows ==
  ASSUME WellWired, TypeInv, WireInv, ~ cut, NEW n \in Nodes, NEW k \in {0, 1}, NEW item,
         NEW route \in Routes, NEW i \in Nat, PassOn(n, k, item, route, i), NEW v, NEW G,
         Followed(v, G),
         v \in ValuesOf(item) => item \in Packed /\ route = Wired(n, item.route),
         \A m \in Nodes \ {n} : Kind[m] = "aggregator" => buffer' = buffer,
         \A x \in 1..Len(collected) : x \in 1..Len(collected') /\ collected'[x] = collected[x],
         step[n] = "put" => item = hand[n].item /\ i = hand[n].at,
         \A l \in BOOLEAN, r \in Routes : Leaving(v, n, k, l, r) =>
           \/ Kept(v, n, l, r)'
           \/ /\ i = 1 /\ Kind[n] # "sink" /\ v \in ValuesOf(item)
              /\ Sends(v, n, l, r, item.list, item.route)
  PROVE  \E H : Followed(v, H)'
<1>1. PICK j \in Nat : i <= j /\ PassesTo(n, k, item, route, i, j)
  BY DEF PassOn
<1>2. Queues(n, k, item, route, i, j)
  BY <1>1, PassKeepsQueues DEF PassOn
<1>3. PICK H : H = G \cup Come(v, item, subs[n][route], i, j)
  OBVIOUS
<1>4. \A t \in Come(v, item, subs[n][route], i, j) :
        \E m \in Nodes : /\ t = <<m, item.list, item.route>> /\ v \in ValuesOf(item)
                         /\ \E x \in 1..Len(queue'[m]) : queue'[m][x] = item
  BY <1>2 DEF Come, Queues
<1>5. v \in ValuesOf(item) => item.list \in BOOLEAN /\ item.route \in Routes
  BY DEF Packed, Item
<1>6. G \subseteq H /\ H \subseteq Visits
  <2>1. G \subseteq Visits
    BY DEF Followed
  <2>2. Come(v, item, subs[n][route], i, j) \subseteq Visits
    BY <1>4, <1>5 DEF Visits
  <2>. QED  BY <1>3, <2>1, <2>2
<1>7. ASSUME NEW m \in Nodes, NEW l \in BOOLEAN, NEW r \in Routes, <<m, l, r>> \in H
      PROVE  <<m, l, r>> \in G \/ Kept(v, m, l, r)'
  <2>1. CASE <<m, l, r>> \in Come(v, item, subs[n][route], i, j)
    <3>1. /\ l = item.list /\ r = item.route /\ v \in ValuesOf(item)
          /\ \E x \in 1..Len(queue'[m]) : queue'[m][x] = item
      BY <1>4, <2>1
    <3>. QED  BY <3>1 DEF Kept, Carries
  <2>. QED  BY <1>3, <1>7, <2>1
<1>8. ASSUME NEW m \in Nodes, NEW l \in BOOLEAN, NEW s \in Routes, SentOn(v, m, l, s, G)
      PROVE  SentOn(v, m, l, s, H)'
  <2>1. CASE \A x \in 1..Len(Wiring[m][Wired(m, s)]) : <<Wiring[m][Wired(m, s)][x], l, s>> \in G
    BY <1>6, <2>1 DEF SentOn
  <2>2. ASSUME step[m] = "put", Carries(hand[m].item, v, l, s),
               \A x \in 1..Len(Wiring[m][Wired(m, s)]) :
                 x < hand[m].at => <<Wiring[m][Wired(m, s)][x], l, s>> \in G
        PROVE  SentOn(v, m, l, s, H)'
    <3>1. CASE m # n
      <4>1. step'[m] = step[m] /\ hand'[m] = hand[m]
        BY <1>1, <3>1 DEF PassesTo
      <4>. QED  BY <1>6, <2>2, <4>1 DEF SentOn, Carries
    <3>2. CASE m = n
      <4>1. /\ l = item.list /\ s = item.route /\ v \in ValuesOf(item) /\ i = hand[n].at
            /\ item \in Packed /\ route = Wired(n, item.route)
        BY <2>2, <3>2 DEF Carries
      <4>. QED  BY <1>1, <1>3, <1>6, <2>2, <3>2, <4>1, PassSends
    <3>. QED  BY <3>1, <3>2
  <2>. QED  BY <1>8, <2>1, <2>2 DEF SentOn
<1>9. ASSUME NEW m \in Nodes, NEW l \in BOOLEAN, NEW r \in Routes, <<m, l, r>> \in G, Kept(v, m, l, r)
      PROVE  Kept(v, m, l, r)' \/ GoneOn(v, m, l, r, H)'
  <2>1. CASE m = n /\ Leaving(v, n, k, l, r)
    <3>1. CASE /\ i = 1 /\ Kind[n] # "sink" /\ v \in ValuesOf(item)
               /\ Sends(v, n, l, r, item.list, item.route)
      <4>1. \A x \in 1..Len(Wiring[n][Wired(n, item.route)]) : ~ (x < i)
        BY <3>1
      <4>2. item \in Packed /\ route = Wired(n, item.route) /\ v \in ValuesOf(item)
        BY <3>1
      <4>3. PassesTo(n, k, item, Wired(n, item.route), i, j)
        BY <1>1, <4>2
      <4>4. Come(v, item, subs[n][Wired(n, item.route)], i, j) \subseteq H
        BY <1>3, <4>2
      <4>5. SentOn(v, n, item.list, item.route, H)'
        BY <1>6, <4>1, <4>2, <4>3, <4>4, PassSends
      <4>. QED  BY <1>5, <2>1, <3>1, <4>5 DEF GoneOn, Sends
    <3>. QED  BY <2>1, <3>1
  <2>2. ASSUME NEW x \in 1..Len(queue[m]), Carries(queue[m][x], v, l, r), m # n \/ x # k
        PROVE  Kept(v, m, l, r)'
    <3>1. \E y \in 1..Len(queue'[m]) : queue'[m][y] = queue[m][x]
      BY <1>2, <2>2 DEF Queues
    <3>. QED  BY <2>2, <3>1 DEF Kept, Carries
  <2>3. ASSUME step[m] = "process", Carries(hand[m].item, v, l, r), m # n
        PROVE  Kept(v, m, l, r)'
    <3>1. step'[m] = step[m] /\ hand'[m] = hand[m]
      BY <1>1, <2>3 DEF PassesTo
    <3>. QED  BY <2>3, <3>1 DEF Kept, Carries
  <2>4. ASSUME Kind[m] = "aggregator", \E x \in 1..Len(buffer) : buffer[x] = v, m # n
        PROVE  Kept(v, m, l, r)'
    BY <2>4 DEF Kept
  <2>5. ASSUME Kind[m] = "sink",
               \E x \in 1..Len(collected) : collected[x].list = l /\ v \in ValuesOf(collected[x])
        PROVE  Kept(v, m, l, r)'
    <3>1. PICK x \in 1..Len(collected) : collected[x].list = l /\ v \in ValuesOf(collected[x])
      BY <2>5
    <3>2. x \in 1..Len(collected') /\ collected'[x] = collected[x]
      OBVIOUS
    <3>. QED  BY <2>5, <3>1, <3>2 DEF Kept
  <2>6. ASSUME Kind[m] = "filter", IF l THEN ~ (Values \subseteq Passes) ELSE v \notin Passes
        PROVE  Kept(v, m, l, r)'
    BY <2>6 DEF Kept
  <2>. QED  BY <1>9, <2>1, <2>2, <2>3, <2>4, <2>5, <2>6 DEF Kept, Leaving
<1>. QED  BY <1>6, <1>7, <1>8, <1>9, FollowedOn

-----------------------------------------------------------------------------
(* Every step.                                                             *)

\* What is with a node stays with it if nothing is taken from anything.
LEMMA KeptStays ==
  ASSUME NEW v, NEW n,
         \A x \in 1..Len(queue[n]) : x \in 1..Len(queue'[n]) /\ queue'[n][x] = queue[n][x],
         step[n] = "process" =>
           v \notin ValuesOf(hand[n].item) \/ (step'[n] = "process" /\ hand'[n].item = hand[n].item),
         buffer' = buffer, collected' = collected
  PROVE  \A l, r : Kept(v, n, l, r) => Kept(v, n, l, r)'
<1> SUFFICES ASSUME NEW l, NEW r, Kept(v, n, l, r)
             PROVE  Kept(v, n, l, r)'
  OBVIOUS
<1>1. CASE \E x \in 1..Len(queue[n]) : Carries(queue[n][x], v, l, r)
  <2>1. PICK x \in 1..Len(queue[n]) : Carries(queue[n][x], v, l, r)
    BY <1>1
  <2>2. x \in 1..Len(queue'[n]) /\ queue'[n][x] = queue[n][x]
    OBVIOUS
  <2>. QED  BY <2>1, <2>2 DEF Kept, Carries
<1>2. CASE step[n] = "process" /\ Carries(hand[n].item, v, l, r)
  BY <1>2 DEF Kept, Carries
<1>. QED  BY <1>1, <1>2 DEF Kept

LEMMA QuietFollows ==
  ASSUME NEW v, NEW G, Followed(v, G), Quiet
  PROVE  \E H : Followed(v, H)'
<1>1. queue' = queue /\ hand' = hand /\ buffer' = buffer /\ collected' = collected
  BY DEF Quiet, Rest
<1>2. \A n \in Nodes : step[n] \in {"process", "put"} => step'[n] = step[n]
  BY DEF Quiet
<1>3. \A n \in Nodes : \A l, r : Kept(v, n, l, r) => Kept(v, n, l, r)'
  BY <1>1, <1>2, KeptStays
<1>4. Followed(v, G)'
  BY <1>1, <1>2, <1>3, FollowedStays
<1>. QED  BY <1>4

LEMMA RewireFollows ==
  ASSUME TypeInv, WireInv, NEW v, NEW G, Followed(v, G), Rewired
  PROVE  \E H : Followed(v, H)'
<1>1. PICK new : \E whole \in BOOLEAN :
        Rewires(new) /\ Rewire(new, whole) /\ UNCHANGED <<queue, step, Rest>>
  BY DEF Rewired
<1>2. PICK whole \in BOOLEAN : Rewires(new) /\ Rewire(new, whole) /\ UNCHANGED <<queue, step, Rest>>
  BY <1>1
<1>3. \A n \in Nodes : hand'[n].item = hand[n].item /\ hand'[n].at = hand[n].at
  BY <1>2, RewireSound
<1>4. queue' = queue /\ step' = step /\ buffer' = buffer /\ collected' = collected
  BY <1>2 DEF Rest
<1>5. \A n \in Nodes : \A l, r : Kept(v, n, l, r) => Kept(v, n, l, r)'
  BY <1>3, <1>4, KeptStays
<1>6. Followed(v, G)'
  BY <1>3, <1>4, <1>5, FollowedStays
<1>. QED  BY <1>6

LEMMA CancelsFollows ==
  ASSUME TypeInv, NEW v, NEW G, Followed(v, G), NEW n \in Nodes, Cancels(n), ~ Lost(v)'
  PROVE  \E H : Followed(v, H)'
<1>1. /\ queue' = queue /\ buffer' = buffer /\ collected' = collected
      /\ forfeit' = forfeit \cup ValuesOf(hand[n].item)
      /\ \A m \in Nodes \ {n} : step'[m] = step[m] /\ hand'[m] = hand[m]
  BY DEF Cancels, Cancelled, TypeInv, NodesInv
<1>2. v \notin ValuesOf(hand[n].item)
  BY <1>1 DEF Lost
<1>3. \A m \in Nodes : \A l, r : Kept(v, m, l, r) => Kept(v, m, l, r)'
  <2> SUFFICES ASSUME NEW m \in Nodes
               PROVE  \A l, r : Kept(v, m, l, r) => Kept(v, m, l, r)'
    OBVIOUS
  <2>. QED  BY <1>1, <1>2, KeptStays
<1>4. Followed(v, G)'
  BY <1>1, <1>2, <1>3, FollowedStays
<1>. QED  BY <1>4

LEMMA PushedQueue ==
  ASSUME TypeInv, NEW item,
         queue' = [queue EXCEPT ![Source] = Append(@, item)]
  PROVE  /\ \A n \in Nodes : \A x \in 1..Len(queue[n]) :
              x \in 1..Len(queue'[n]) /\ queue'[n][x] = queue[n][x]
         /\ \E x \in 1..Len(queue'[Source]) : queue'[Source][x] = item
<1>1. Source \in Nodes /\ queue \in [Nodes -> Queue]
  BY PipelineAssumption DEF TypeInv, NodesInv
<1>2. PICK s : s = queue[Source]
  OBVIOUS
<1>3. s \in Seq(Packed) /\ Len(s) \in Nat
  BY <1>1, <1>2, LenProperties DEF Queue
<1>4. s \in Seq(Packed \cup {item})
  BY <1>3, SeqMonotonic
<1>5. /\ Append(s, item)[Len(s) + 1] = item /\ Len(Append(s, item)) = Len(s) + 1
      /\ \A y \in 1..Len(s) : Append(s, item)[y] = s[y]
  BY <1>4, AppendProperties
<1>6. queue'[Source] = Append(s, item) /\ \A n \in Nodes \ {Source} : queue'[n] = queue[n]
  BY <1>1, <1>2
<1>7. Len(s) + 1 \in 1..Len(s) + 1 /\ \A y \in 1..Len(s) : y \in 1..Len(s) + 1
  BY <1>3
<1>. QED  BY <1>1, <1>2, <1>5, <1>6, <1>7

\* The other values of a push, and the one pushed.
LEMMA PushFollows ==
  ASSUME TypeInv, Push, NEW w, w = Pushes[pushed + 1]
  PROVE  /\ \A v, G : Followed(v, G) => Followed(v, G)'
         /\ Lost(w)' \/ Followed(w, {<<Source, FALSE, Default>>})'
<1>1. step' = step /\ hand' = hand /\ buffer' = buffer /\ collected' = collected
  BY DEF Push
<1>2. PICK item : item = [vals |-> <<w>>, list |-> FALSE, route |-> Default, err |-> FALSE]
  OBVIOUS
<1>3. \/ queue' = [queue EXCEPT ![Source] = Append(@, item)]
      \/ counted' = counted \cup {w} /\ queue' = queue
  BY <1>2 DEF Push
<1>4. \A n \in Nodes : \A x \in 1..Len(queue[n]) :
        x \in 1..Len(queue'[n]) /\ queue'[n][x] = queue[n][x]
  BY <1>3, PushedQueue
<1>5. ASSUME NEW v, NEW G, Followed(v, G)
      PROVE  Followed(v, G)'
  <2>1. \A n \in Nodes : \A l, r : Kept(v, n, l, r) => Kept(v, n, l, r)'
    BY <1>1, <1>4, KeptStays
  <2>. QED  BY <1>1, <1>5, <2>1, FollowedStays
<1>6. CASE counted' = counted \cup {w}
  BY <1>2, <1>5, <1>6 DEF Lost
<1>7. CASE queue' = [queue EXCEPT ![Source] = Append(@, item)]
  <2>1. \E x \in 1..Len(queue'[Source]) : queue'[Source][x] = item
    BY <1>7, PushedQueue
  <2>2. w \in ValuesOf(item) /\ item.list = FALSE /\ item.route = Default
    <3>1. item.vals = <<w>> /\ item.list = FALSE /\ item.route = Default
      BY <1>2
    <3>2. 1 \in 1..Len(<<w>>) /\ <<w>>[1] = w
      OBVIOUS
    <3>. QED  BY <3>1, <3>2 DEF ValuesOf
  <2>3. Kept(w, Source, FALSE, Default)'
    BY <2>1, <2>2 DEF Kept, Carries
  <2>4. <<Source, FALSE, Default>> \in Visits
    BY PipelineAssumption DEF Visits
  <2>5. Followed(w, {<<Source, FALSE, Default>>})'
    BY <2>3, <2>4 DEF Followed
  <2>. QED  BY <1>2, <1>5, <2>5
<1>. QED  BY <1>3, <1>6, <1>7

LEMMA NothingCarried == \A v : v \notin ValuesOf(NoItem)
<1>1. Len(NoItem.vals) = 0
  BY Idles, EmptySeq
<1>. QED  BY <1>1 DEF ValuesOf

LEMMA ValuesCarried ==
  ASSUME NEW item \in Packed
  PROVE  /\ ValuesOf(item) \subseteq Values /\ item.list \in BOOLEAN /\ item.route \in Routes
         /\ \A v \in ValuesOf(item) : ~ item.list => item.vals[1] = v
<1>1. item \in Item /\ (item.list \/ Len(item.vals) = 1)
  BY DEF Packed
<1>2. ASSUME NEW v \in ValuesOf(item), ~ item.list
      PROVE  item.vals[1] = v
  <2>1. PICK x \in 1..Len(item.vals) : item.vals[x] = v
    BY DEF ValuesOf
  <2>2. x = 1
    BY <1>1, <1>2, <2>1
  <2>. QED  BY <2>1, <2>2
<1>. QED  BY <1>1, <1>2, ItemFields DEF Item

\* A list has what the buffer had and what the item has.
LEMMA ListCarries ==
  ASSUME TypeInv, NEW item \in Packed, NEW s, s = buffer \o item.vals
  PROVE  /\ \A x \in 1..Len(buffer) : x \in 1..Len(s) /\ s[x] = buffer[x]
         /\ \A v \in ValuesOf(item) : \E x \in 1..Len(s) : s[x] = v
<1>1. buffer \in Seq(Values) /\ item.vals \in Seq(Values)
  BY ItemFields DEF TypeInv, ValuesInv, Packed
<1>2. PICK t : t = item.vals
  OBVIOUS
<1>3. /\ Len(s) = Len(buffer) + Len(t) /\ Len(buffer) \in Nat /\ Len(t) \in Nat
      /\ \A x \in 1..Len(s) : s[x] = IF x <= Len(buffer) THEN buffer[x] ELSE t[x - Len(buffer)]
  BY <1>1, <1>2, ConcatProperties, LenProperties
<1>4. ASSUME NEW v \in ValuesOf(item)
      PROVE  \E x \in 1..Len(s) : s[x] = v
  <2>1. PICK y \in 1..Len(t) : t[y] = v
    BY <1>2 DEF ValuesOf
  <2>2. PICK x : x = y + Len(buffer)
    OBVIOUS
  <2>3. x \in 1..Len(s) /\ ~ (x <= Len(buffer)) /\ x - Len(buffer) = y
    BY <1>3, <2>1, <2>2
  <2>. QED  BY <1>3, <2>1, <2>3
<1>. QED  BY <1>3, <1>4

\* The item is gone, or with n in some other way.
LEMMA GoneFollows ==
  ASSUME WellWired, TypeInv, WireInv, ~ cut, NEW n \in Nodes, NEW k \in {0, 1},
         PassOn(n, k, NoItem, Default, Len(subs[n][Default]) + 1), NEW v, NEW G, Followed(v, G),
         step[n] # "put",
         \A m \in Nodes \ {n} : Kind[m] = "aggregator" => buffer' = buffer,
         \A x \in 1..Len(collected) : x \in 1..Len(collected') /\ collected'[x] = collected[x],
         \A l \in BOOLEAN, r \in Routes : Leaving(v, n, k, l, r) => Kept(v, n, l, r)'
  PROVE  \E H : Followed(v, H)'
<1>1. PICK i : i = Len(subs[n][Default]) + 1
  OBVIOUS
<1>2. i \in Nat /\ Default \in Routes
  BY <1>1, LenProperties, PipelineAssumption DEF TypeInv, WiresInv
<1>. QED  BY <1>1, <1>2, NothingCarried, PassFollows

\* It goes on as item, by the wires of n.
LEMMA SentFollows ==
  ASSUME WellWired, TypeInv, WireInv, ~ cut, NEW n \in Nodes, NEW k \in {0, 1},
         NEW item \in Packed, NEW route \in Routes, PassOn(n, k, item, route, 1),
         ~ cut => route = Wired(n, item.route), NEW v, NEW G, Followed(v, G),
         step[n] # "put", Kind[n] # "sink",
         \A m \in Nodes \ {n} : Kind[m] = "aggregator" => buffer' = buffer, collected' = collected,
         \A l \in BOOLEAN, r \in Routes : Leaving(v, n, k, l, r) =>
           v \in ValuesOf(item) /\ Sends(v, n, l, r, item.list, item.route)
  PROVE  \E H : Followed(v, H)'
<1>1. PICK i : i = 1
  OBVIOUS
<1>2. i \in Nat /\ PassOn(n, k, item, route, i)
  BY <1>1
<1>. QED  BY <1>1, <1>2, PassFollows

LEMMA UnblockFollows ==
  ASSUME WellWired, TypeInv, WireInv, WorkInv, ~ cut, NEW n \in Nodes, Unblock(n),
         NEW v, NEW G, Followed(v, G)
  PROVE  \E H : Followed(v, H)'
<1>1. PICK item, route, i : item = hand[n].item /\ route = hand[n].route /\ i = hand[n].at
  OBVIOUS
<1>2. /\ item \in Packed /\ route \in Routes /\ i \in Nat /\ PassOn(n, 0, item, route, i)
      /\ route = Wired(n, item.route)
  BY <1>1, UnblockPasses DEF Waits
<1>3. step[n] = "put" /\ buffer' = buffer /\ collected' = collected
  BY DEF Unblock, MayPut
<1>4. ASSUME NEW l \in BOOLEAN, NEW r \in Routes, Leaving(v, n, 0, l, r)
      PROVE  Kept(v, n, l, r)'
  BY <1>3, <1>4 DEF Leaving, Kept
<1>. QED  BY <1>1, <1>2, <1>3, <1>4, PassFollows

LEMMA FinishFollows ==
  ASSUME WellWired, TypeInv, WireInv, WorkInv, ~ cut, NEW n \in Nodes, Finish(n),
         NEW v, NEW G, Followed(v, G), ~ Lost(v)'
  PROVE  \E H : Followed(v, H)'
<1>1. step[n] = "process" /\ Kind[n] = "processor" /\ hand[n].item \in Packed
  BY FinishKinds DEF WorkInv
<1>2. buffer' = buffer /\ collected' = collected
  BY DEF Finish
<1>3. ASSUME forfeit' = forfeit \cup ValuesOf(hand[n].item),
             PassOn(n, 0, NoItem, Default, Len(subs[n][Default]) + 1)
      PROVE  \E H : Followed(v, H)'
  <2>1. v \notin ValuesOf(hand[n].item)
    BY <1>3 DEF Lost
  <2>2. \A l, r : ~ Leaving(v, n, 0, l, r)
    BY <1>1, <2>1 DEF Leaving, Carries
  <2>. QED  BY <1>1, <1>2, <1>3, <2>2, GoneFollows
<1>4. ASSUME NEW item \in Packed, NEW route \in Routes,
             item.vals = hand[n].item.vals, item.list = hand[n].item.list,
             item.route = hand[n].item.route, PassOn(n, 0, item, route, 1),
             ~ cut => route = Wired(n, item.route)
      PROVE  \E H : Followed(v, H)'
  <2>1. ASSUME NEW l \in BOOLEAN, NEW r \in Routes, Leaving(v, n, 0, l, r)
        PROVE  v \in ValuesOf(item) /\ Sends(v, n, l, r, item.list, item.route)
    <3>1. v \in ValuesOf(hand[n].item) /\ l = item.list /\ r = item.route
      BY <1>1, <1>4, <2>1 DEF Leaving, Carries
    <3>. QED  BY <1>1, <1>4, <3>1 DEF Sends, ValuesOf
  <2>. QED  BY <1>1, <1>2, <1>4, <2>1, SentFollows
<1>. QED  BY <1>3, <1>4, FinishKinds

\* The processor takes the item into its hand.
LEMMA WorkedFollows ==
  ASSUME TypeInv, NEW n \in Nodes, queue[n] # <<>>, step[n] = "get", Worked(n, Head(queue[n])),
         NEW v, NEW G, Followed(v, G)
  PROVE  \E H : Followed(v, H)'
<1>1. PICK item : item = Head(queue[n])
  OBVIOUS
<1>2. /\ queue \in [Nodes -> Queue] /\ step \in [Nodes -> Phases] /\ hand \in [Nodes -> Hand]
  BY DEF TypeInv, NodesInv
<1>3. /\ step' = [step EXCEPT ![n] = "process"]
      /\ hand' = [hand EXCEPT ![n] = [EmptyHand EXCEPT !.item = item]]
      /\ queue' = [queue EXCEPT ![n] = Tail(@)]
      /\ buffer' = buffer /\ collected' = collected
  BY <1>1 DEF Worked
<1>4. /\ step'[n] = "process" /\ hand'[n].item = item /\ queue'[n] = Tail(queue[n])
      /\ \A m \in Nodes \ {n} : step'[m] = step[m] /\ hand'[m] = hand[m] /\ queue'[m] = queue[m]
  BY <1>2, <1>3 DEF EmptyHand
<1>5. ASSUME NEW m \in Nodes, m # n
      PROVE  \A l, r : Kept(v, m, l, r) => Kept(v, m, l, r)'
  BY <1>3, <1>4, <1>5, KeptStays
<1>6. ASSUME NEW l, NEW r, Kept(v, n, l, r)
      PROVE  Kept(v, n, l, r)'
  <2>1. CASE \E x \in 1..Len(queue[n]) : Carries(queue[n][x], v, l, r)
    <3>1. PICK s : s = queue[n]
      OBVIOUS
    <3>2. PICK x \in 1..Len(s) : Carries(s[x], v, l, r)
      BY <2>1, <3>1
    <3>3. s \in Seq(Packed) /\ s # <<>> /\ Len(s) \in Nat
      BY <1>2, <3>1, LenProperties DEF Queue
    <3>4. Head(s) = s[1] /\ Len(Tail(s)) = Len(s) - 1 /\ \A y \in 1..Len(Tail(s)) : Tail(s)[y] = s[y + 1]
      BY <3>3, HeadTailProperties
    <3>5. CASE x = 1
      BY <1>1, <1>4, <3>1, <3>2, <3>4, <3>5 DEF Kept, Carries
    <3>6. CASE x # 1
      <4>1. x - 1 \in 1..Len(Tail(s)) /\ (x - 1) + 1 = x
        BY <3>3, <3>4, <3>6
      <4>2. Tail(s)[x - 1] = s[x]
        BY <3>4, <4>1
      <4>. QED  BY <1>4, <3>1, <3>2, <4>1, <4>2 DEF Kept, Carries
    <3>. QED  BY <3>5, <3>6
  <2>2. CASE Kind[n] \in {"aggregator", "sink", "filter"}
    BY <2>2 DEF Worked
  <2>. QED  BY <1>6, <2>1, <2>2 DEF Kept
<1>7. \A m \in Nodes : \A l, r : Kept(v, m, l, r) => Kept(v, m, l, r)'
  BY <1>5, <1>6
<1>8. \A m \in Nodes : \/ step'[m] = "put" /\ hand'[m].item = hand[m].item /\ hand'[m].at = hand[m].at
                       \/ step[m] # "put" \/ v \notin ValuesOf(hand[m].item)
  BY <1>4
<1>9. Followed(v, G)'
  BY <1>7, <1>8, FollowedStays
<1>. QED  BY <1>9

\* A single value on which a node raises is a bad one.
LEMMA SingleRaises ==
  ASSUME NEW n \in Nodes, NEW item \in Packed, ~ item.list, Raises(n, item), NEW v \in ValuesOf(item)
  PROVE  v \in Bad[n]
<1>1. \A w \in ValuesOf(item) : w = item.vals[1]
  BY ValuesCarried
<1>. QED  BY <1>1 DEF Raises

LEMMA HandlesFollow ==
  ASSUME WellWired, TypeInv, WireInv, WorkInv, ~ cut, NEW n \in Nodes, Handles(n),
         NEW v, NEW G, Followed(v, G), ~ Lost(v)'
  PROVE  \E H : Followed(v, H)'
<1>1. PICK item : item = Head(queue[n])
  OBVIOUS
<1>2. step[n] = "get" /\ queue[n] # <<>> /\ item \in Packed /\ TakenUp(n, item)
  BY <1>1, HandleKinds
<1>3. item = queue[n][1]
  <2>1. queue[n] \in Seq(Packed)
    BY DEF TypeInv, NodesInv, Queue
  <2>. QED  BY <1>1, <1>2, <2>1, HeadTailProperties
<1>4. \A m \in Nodes \ {n} : Kind[n] = "aggregator" => Kind[m] # "aggregator"
  BY PipelineAssumption
<1>5. \A l, r : Leaving(v, n, 1, l, r) => Carries(item, v, l, r)
                 \/ (Kind[n] = "aggregator" /\ \E x \in 1..Len(buffer) : buffer[x] = v)
  BY <1>2, <1>3 DEF Leaving
<1>6. /\ ValuesOf(item) \subseteq Values /\ item.list \in BOOLEAN /\ item.route \in Routes
      /\ v \in ValuesOf(item) /\ ~ item.list => item.vals[1] = v
  BY <1>2, ValuesCarried
<1>7. ASSUME Gone(n), Kind[n] # "aggregator" => buffer' = buffer,
             \A x \in 1..Len(collected) : x \in 1..Len(collected') /\ collected'[x] = collected[x],
             \A l \in BOOLEAN, r \in Routes :
               Carries(item, v, l, r) \/ (Kind[n] = "aggregator" /\ \E x \in 1..Len(buffer) : buffer[x] = v)
                 => Kept(v, n, l, r)'
      PROVE  \E H : Followed(v, H)'
  BY <1>2, <1>4, <1>5, <1>7, GoneFollows DEF Gone
<1>8. ASSUME NEW other, NEW route \in Routes, Goes(n, other, route), Kind[n] # "sink",
             Kind[n] # "aggregator" => buffer' = buffer, collected' = collected,
             \A l \in BOOLEAN, r \in Routes :
               Carries(item, v, l, r) \/ (Kind[n] = "aggregator" /\ \E x \in 1..Len(buffer) : buffer[x] = v)
                 => v \in ValuesOf(other) /\ Sends(v, n, l, r, other.list, other.route)
      PROVE  \E H : Followed(v, H)'
  BY <1>2, <1>4, <1>5, <1>8, SentFollows DEF Goes
<1>9. CASE Dropped(n, item)
  <2>1. counted' = counted \cup ValuesOf(item) /\ buffer' = buffer /\ collected' = collected /\ Gone(n)
    BY <1>9 DEF Dropped
  <2>2. \A l, r : ~ Carries(item, v, l, r)
    BY <2>1 DEF Lost, Carries
  <2>. QED  BY <1>7, <2>1, <2>2 DEF Kept
<1>10. CASE Worked(n, item)
  BY <1>1, <1>2, <1>10, WorkedFollows
<1>11. CASE Passed(n, item)
  <2>1. PICK other \in {item, Marked(item)}, route \in Routes : Goes(n, other, route)
    BY <1>11 DEF Passed
  <2>2. /\ other.vals = item.vals /\ other.list = item.list /\ other.route = item.route
        /\ ValuesOf(other) = ValuesOf(item)
    BY <1>2, <2>1, MarkedPacked DEF ValuesOf
  <2>3. ASSUME NEW l, NEW r, Carries(item, v, l, r)
        PROVE  v \in ValuesOf(other) /\ Sends(v, n, l, r, other.list, other.route)
    <3>1. Kind[n] = "router" /\ ~ l => v \in Bad[n]
      BY <1>2, <1>11, <2>3, SingleRaises DEF Passed, Carries
    <3>. QED  BY <1>6, <1>11, <2>2, <2>3, <3>1 DEF Passed, Carries, Sends
  <2>. QED  BY <1>8, <1>11, <2>1, <2>3 DEF Passed
<1>12. CASE Routed(n, item)
  <2>1. PICK other : other = [item EXCEPT !.route = RouteOf[item.vals[1]]]
    OBVIOUS
  <2>2. PICK route \in Routes : Goes(n, other, route)
    BY <1>12, <2>1 DEF Routed
  <2>3. other.vals = item.vals /\ other.list = item.list /\ other.route = RouteOf[item.vals[1]]
    BY <1>2, <2>1 DEF Packed, Item
  <2>4. ASSUME NEW l, NEW r, Carries(item, v, l, r)
        PROVE  v \in ValuesOf(other) /\ Sends(v, n, l, r, other.list, other.route)
    <3>1. Kind[n] = "router" /\ v \notin Bad[n]
      BY <1>12, <2>4 DEF Routed, Carries, Raises
    <3>. QED  BY <1>6, <2>3, <2>4, <3>1 DEF Carries, Sends, ValuesOf
  <2>. QED  BY <1>8, <1>12, <2>2, <2>4 DEF Routed
<1>13. CASE Filtered(n, item)
  <2>1. ASSUME NEW l, NEW r, Carries(item, v, l, r)
        PROVE  Kept(v, n, l, r)'
    <3>1. IF l THEN ~ (Values \subseteq Passes) ELSE v \notin Passes
      <4>1. CASE item.list
        BY <1>6, <1>13, <2>1, <4>1 DEF Filtered, Carries
      <4>2. CASE ~ item.list
        <5>1. \A w \in ValuesOf(item) : w = item.vals[1]
          BY <1>2, <4>2, ValuesCarried
        <5>. QED  BY <1>13, <2>1, <4>2, <5>1 DEF Filtered, Carries
      <4>. QED  BY <4>1, <4>2
    <3>. QED  BY <1>13, <3>1 DEF Filtered, Kept
  <2>. QED  BY <1>7, <1>13, <2>1 DEF Filtered
<1>14. CASE Listed(n, item)
  <2>1. PICK s, other : s = buffer \o item.vals /\ other = ListOf(item, s)
    OBVIOUS
  <2>2. PICK route \in Routes : Goes(n, other, route)
    BY <1>14, <2>1 DEF Listed
  <2>3. other.vals = s /\ other.list = TRUE /\ other.route = item.route
    BY <1>2, <2>1 DEF ListOf, Packed, Item
  <2>4. ASSUME NEW l \in BOOLEAN, NEW r,
               Carries(item, v, l, r) \/ \E x \in 1..Len(buffer) : buffer[x] = v
        PROVE  v \in ValuesOf(other) /\ Sends(v, n, l, r, other.list, other.route)
    <3>1. \E x \in 1..Len(s) : s[x] = v
      <4>1. /\ \A x \in 1..Len(buffer) : x \in 1..Len(s) /\ s[x] = buffer[x]
            /\ \A w \in ValuesOf(item) : \E x \in 1..Len(s) : s[x] = w
        BY <1>2, <2>1, ListCarries
      <4>. QED  BY <2>4, <4>1 DEF Carries
    <3>. QED  BY <1>14, <2>3, <3>1 DEF Listed, Sends, ValuesOf
  <2>. QED  BY <1>8, <1>14, <2>2, <2>4 DEF Listed
<1>15. CASE Buffered(n, item)
  <2>1. PICK s : s = buffer \o item.vals
    OBVIOUS
  <2>2. ASSUME NEW l, NEW r, Carries(item, v, l, r) \/ \E x \in 1..Len(buffer) : buffer[x] = v
        PROVE  Kept(v, n, l, r)'
    <3>1. \E x \in 1..Len(s) : s[x] = v
      <4>1. /\ \A x \in 1..Len(buffer) : x \in 1..Len(s) /\ s[x] = buffer[x]
            /\ \A w \in ValuesOf(item) : \E x \in 1..Len(s) : s[x] = w
        BY <1>2, <2>1, ListCarries
      <4>. QED  BY <2>2, <4>1 DEF Carries
    <3>. QED  BY <1>15, <2>1, <3>1 DEF Buffered, Kept
  <2>. QED  BY <1>7, <1>15, <2>2 DEF Buffered
<1>16. CASE Sunk(n, item)
  <2>1. PICK one : one = [vals |-> item.vals, list |-> item.list]
    OBVIOUS
  <2>2. collected \in Seq(Taken) /\ collected \in Seq(Taken \cup {one}) /\ Len(collected) \in Nat
    BY SeqMonotonic, LenProperties DEF TypeInv, ValuesInv
  <2>3. /\ Len(collected') = Len(collected) + 1 /\ collected'[Len(collected) + 1] = one
        /\ \A x \in 1..Len(collected) : collected'[x] = collected[x]
    BY <1>16, <2>1, <2>2, AppendProperties DEF Sunk
  <2>4. /\ Len(collected) + 1 \in 1..Len(collected')
        /\ \A x \in 1..Len(collected) : x \in 1..Len(collected')
    BY <2>2, <2>3
  <2>5. ASSUME NEW l, NEW r, Carries(item, v, l, r)
        PROVE  Kept(v, n, l, r)'
    <3>1. one.list = l /\ v \in ValuesOf(one)
      BY <2>1, <2>5 DEF Carries, ValuesOf
    <3>. QED  BY <1>16, <2>3, <2>4, <3>1 DEF Sunk, Kept
  <2>. QED  BY <1>7, <1>16, <2>3, <2>4, <2>5 DEF Sunk
<1>. QED  BY <1>2, <1>9, <1>10, <1>11, <1>12, <1>13, <1>14, <1>15, <1>16 DEF TakenUp

LEMMA AccountedStep ==
  ASSUME WellWired, TypeInv, WireInv, WorkInv, Accounted, Kinded
  PROVE  Accounted'
<1>1. ASSUME NEW v, NEW G, Followed(v, G), ~ cut, ~ Lost(v)'
      PROVE  \E H : Followed(v, H)'
  <2>1. CASE Push
    <3>1. PICK w : w = Pushes[pushed + 1]
      OBVIOUS
    <3>2. Followed(v, G)'
      BY <1>1, <2>1, <3>1, PushFollows
    <3>. QED  BY <3>2
  <2>2. ASSUME NEW n \in Nodes, Cancels(n) \/ Handles(n) \/ Finish(n) \/ Unblock(n)
        PROVE  \E H : Followed(v, H)'
    BY <1>1, <2>2, CancelsFollows, HandlesFollow, FinishFollows, UnblockFollows
  <2>. QED  BY <1>1, <2>1, <2>2, QuietFollows, RewireFollows DEF Kinded
<1>2. /\ cut => cut'
      /\ \A v : Lost(v) => Lost(v)'
  <2>1. ASSUME NEW n \in Nodes, Handles(n)
        PROVE  cut' = cut /\ counted \subseteq counted' /\ forfeit' = forfeit
    <3>1. TakenUp(n, Head(queue[n])) /\ cut' = cut /\ forfeit' = forfeit
      BY <2>1, HandleKinds DEF Handles, wireVars
    <3>. QED  BY <3>1 DEF TakenUp, Dropped, Worked, Passed, Routed, Filtered, Listed, Buffered, Sunk
  <2>2. ASSUME NEW n \in Nodes, Cancels(n) \/ Finish(n) \/ Unblock(n)
        PROVE  cut' = cut /\ counted' = counted /\ forfeit \subseteq forfeit'
    BY <2>2 DEF Cancels, Cancelled, Finish, Unblock, MayPut, wireVars
  <2>3. CASE Rewired
    BY <2>3 DEF Rewired, Rewire, Rest, Lost
  <2>4. CASE Quiet \/ Push
    BY <2>4 DEF Quiet, Push, wireVars, Rest, Lost
  <2>. QED  BY <2>1, <2>2, <2>3, <2>4 DEF Kinded, Lost
<1>3. CASE ~ Push
  <2>1. pushed' = pushed
    BY <1>3 DEF Kinded, Quiet, Rewired, Cancels, Handles, Finish, Unblock, MayPut, Rest
  <2>. QED  BY <1>1, <1>2, <2>1 DEF Accounted
<1>4. CASE Push
  <2>1. PICK w : w = Pushes[pushed + 1]
    OBVIOUS
  <2>2. Lost(w)' \/ \E H : Followed(w, H)'
    BY <1>4, <2>1, PushFollows
  <2>3. pushed' = pushed + 1 /\ pushed \in Nat
    BY <1>4 DEF Push, TypeInv, ControlInv
  <2>4. \A i \in 1..pushed' : i \in 1..pushed \/ i = pushed + 1
    BY <2>3
  <2>. QED  BY <1>1, <1>2, <2>1, <2>2, <2>4 DEF Accounted
<1>. QED  BY <1>3, <1>4

LossInv == TypeInv /\ WireInv /\ WorkInv /\ Accounted /\ pushed <= Len(Pushes)

LEMMA LossInvHolds ==
  ASSUME WellWired
  PROVE  /\ Init => LossInv
         /\ LossInv /\ [Next]_vars => LossInv'
<1>1. Len(Pushes) \in Nat
  BY PipelineAssumption, LenProperties
<1>2. Init => LossInv
  <2>1. Init => Accounted /\ pushed <= Len(Pushes)
    BY <1>1 DEF Init, Accounted
  <2>. QED  BY <2>1, TypeInit, WireInit DEF LossInv
<1>3. ASSUME LossInv, [Next]_vars
      PROVE  LossInv'
  <2>1. TypeInv' /\ Kinded
    BY <1>3, TypeStep, StepKinds DEF LossInv, WireInv
  <2>2. WireInv' /\ WorkInv' /\ Accounted'
    BY <1>3, <2>1, WireStep, AccountedStep DEF LossInv
  <2>3. pushed' = pushed \/ (pushed < Len(Pushes) /\ pushed' = pushed + 1)
    BY <2>1 DEF Kinded, Quiet, Push, Rewired, Cancels, Handles, Finish, Unblock, MayPut, Rest
  <2>4. pushed' <= Len(Pushes)
    BY <1>1, <1>3, <2>3 DEF LossInv, TypeInv, ControlInv
  <2>. QED  BY <2>1, <2>2, <2>4 DEF LossInv
<1>. QED  BY <1>2, <1>3

\* As long as no subscriber was taken away, a pushed value is never lost without a
\* trace: it is counted as dropped, or was in the hand of a task that was cancelled
\* or paused; or it can be followed from the source, through every wire, to all of
\* the nodes that have it or where it ends.  (Node.handle, Node.emit, Node.stop,
\* PipelineManager.unregister_node.)
THEOREM PipelineAccounts ==
  ASSUME WellWired
  PROVE  Spec => []Accounted
<1>1. LossInv => Accounted
  BY DEF LossInv
<1>. QED  BY <1>1, LossInvHolds, PTL DEF Spec

-----------------------------------------------------------------------------
(* The pipeline of MCPipeline.                                             *)

\* A value that is with n lies in its queue or in its hand.
LEMMA KeptAt ==
  ASSUME TypeInv, WorkInv, NEW v, NEW n \in Nodes, NEW l \in BOOLEAN, NEW r, Kept(v, n, l, r)
  PROVE  \/ v \in At(n)
         \/ Kind[n] = "aggregator" /\ \E x \in 1..Len(buffer) : buffer[x] = v
         \/ Kind[n] = "sink" /\ \E x \in 1..Len(collected) :
              collected[x].list = l /\ v \in ValuesOf(collected[x])
         \/ Kind[n] = "filter" /\ IF l THEN ~ (Values \subseteq Passes) ELSE v \notin Passes
<1>1. \A x \in 1..Len(queue[n]) : v \in ValuesOf(queue[n][x]) => v \in At(n)
  BY DEF At, Held
<1>2. v \in ValuesOf(hand[n].item) => v \in At(n)
  BY DEF At, Held
<1>. QED  BY <1>1, <1>2 DEF Kept, Carries

\* Where a visit has gone on to, unless the node is still at it.
LEMMA OnAt ==
  ASSUME NEW v, NEW n \in Nodes, NEW l, NEW r, NEW G, GoneOn(v, n, l, r, G), v \notin At(n)
  PROVE  \E m \in BOOLEAN, s \in Routes :
           /\ Sends(v, n, l, r, m, s)
           /\ \A x \in 1..Len(Wiring[n][Wired(n, s)]) : <<Wiring[n][Wired(n, s)][x], m, s>> \in G
<1>1. PICK m \in BOOLEAN, s \in Routes : Sends(v, n, l, r, m, s) /\ SentOn(v, n, m, s, G)
  BY DEF GoneOn
<1>2. v \in ValuesOf(hand[n].item) => v \in At(n)
  BY DEF At, Held
<1>. QED  BY <1>1, <1>2 DEF SentOn, Carries

\* A single value and a list before the sink or in it.
LEMMA SinkArrived ==
  ASSUME TypeInv, WorkInv, snk \in Nodes, Kind[snk] = "sink", NEW v, NEW l \in BOOLEAN, NEW r,
         Kept(v, snk, l, r)
  PROVE  \E it \in Arrived : it.list = l /\ v \in ValuesOf(it) /\ (~ l => it = [vals |-> <<v>>, list |-> FALSE])
<1>1. ASSUME NEW vals \in Seq(Values), l \/ Len(vals) = 1, v \in {vals[x] : x \in 1..Len(vals)}
      PROVE  ~ l => vals = <<v>>
  <2>1. CASE ~ l
    <3>1. vals[1] = v /\ vals = <<vals[1]>>
      BY <1>1, <2>1
    <3>. QED  BY <3>1
  <2>. QED  BY <2>1
<1>2. CASE \E x \in 1..Len(queue[snk]) : Carries(queue[snk][x], v, l, r)
  <2>1. PICK x \in 1..Len(queue[snk]) : Carries(queue[snk][x], v, l, r)
    BY <1>2
  <2>2. PICK i : i = queue[snk][x]
    OBVIOUS
  <2>3. i \in Packed
    BY <2>1, <2>2, ElementOfSeq DEF TypeInv, NodesInv, Queue
  <2>4. PICK it : it = [vals |-> i.vals, list |-> i.list]
    OBVIOUS
  <2>5. it \in Arrived
    BY <2>2, <2>4 DEF Arrived, Held
  <2>6. i.vals \in Seq(Values) /\ (i.list \/ Len(i.vals) = 1)
    BY <2>3, ItemFields DEF Packed
  <2>7. i.list = l /\ v \in {i.vals[y] : y \in 1..Len(i.vals)}
    BY <2>1, <2>2 DEF Carries, ValuesOf
  <2>8. ~ l => i.vals = <<v>>
    BY <1>1, <2>6, <2>7
  <2>. QED  BY <2>4, <2>5, <2>7, <2>8 DEF ValuesOf
<1>3. CASE \E x \in 1..Len(collected) : collected[x].list = l /\ v \in ValuesOf(collected[x])
  <2>1. PICK x \in 1..Len(collected) : collected[x].list = l /\ v \in ValuesOf(collected[x])
    BY <1>3
  <2>2. PICK it : it = collected[x]
    OBVIOUS
  <2>3. it \in Taken /\ it \in Arrived
    BY <2>1, <2>2, ElementOfSeq DEF TypeInv, ValuesInv, Arrived
  <2>4. PICK i \in Packed : it = [vals |-> i.vals, list |-> i.list]
    BY <2>3 DEF Taken
  <2>6. i.vals \in Seq(Values) /\ (i.list \/ Len(i.vals) = 1)
    BY <2>4, ItemFields DEF Packed
  <2>7. i.list = l /\ v \in {i.vals[y] : y \in 1..Len(i.vals)}
    BY <2>1, <2>2, <2>4 DEF ValuesOf
  <2>8. ~ l => i.vals = <<v>>
    BY <1>1, <2>6, <2>7
  <2>. QED  BY <2>3, <2>4, <2>7, <2>8 DEF ValuesOf
<1>. QED  BY <1>2, <1>3 DEF Kept, WorkInv

\* One element to go to.
LEMMA NextOf ==
  ASSUME NEW n, NEW r, NEW t, NEW m, NEW s, NEW G, Wired(n, s) = r, Wiring[n][r] = <<t>>,
         \A x \in 1..Len(Wiring[n][Wired(n, s)]) : <<Wiring[n][Wired(n, s)][x], m, s>> \in G
  PROVE  <<t, m, s>> \in G
<1>1. 1 \in 1..Len(<<t>>) /\ <<t>>[1] = t
  OBVIOUS
<1>. QED  BY <1>1

LEMMA Wires ==
  ASSUME NEW s \in Routes
  PROVE  /\ \A n \in {src, proc, flt, agg, err} : Wired(n, s) = default
         /\ Wired(rt, s) = s
<1>1. <<proc>> # <<>> /\ <<rt>> # <<>> /\ <<snk>> # <<>> /\ <<err>> # <<>> /\ <<flt, agg>> # <<>>
  OBVIOUS
<1>. QED  BY <1>1, TopologyAssumption DEF Wired

LEMMA FollowedArrives ==
  ASSUME TypeInv, WorkInv, NEW v \in Values, NEW G, Followed(v, G)
  PROVE  \/ v \in At(src) \cup At(proc) \cup At(rt)
         \/ /\ RouteOf[v] = a
            /\ v \in At(flt) \/ [vals |-> <<v>>, list |-> FALSE] \in Arrived
            /\ \/ v \in At(agg) \/ \E k \in 1..Len(buffer) : buffer[k] = v
               \/ \E it \in Arrived : it.list /\ \E k \in 1..Len(it.vals) : it.vals[k] = v
         \/ /\ RouteOf[v] # a
            /\ v \in At(err) \/ [vals |-> <<v>>, list |-> FALSE] \in Arrived
<1>1. SUFFICES ASSUME v \notin At(src), v \notin At(proc), v \notin At(rt)
               PROVE  \/ /\ RouteOf[v] = a
                         /\ v \in At(flt) \/ [vals |-> <<v>>, list |-> FALSE] \in Arrived
                         /\ \/ v \in At(agg) \/ \E k \in 1..Len(buffer) : buffer[k] = v
                            \/ \E it \in Arrived : it.list /\ \E k \in 1..Len(it.vals) : it.vals[k] = v
                      \/ /\ RouteOf[v] # a
                         /\ v \in At(err) \/ [vals |-> <<v>>, list |-> FALSE] \in Arrived
  OBVIOUS
<1> DEFINE Visited(n, l, r) == <<n, l, r>> \in G
<1>2. /\ {src, proc, rt, flt, agg, err, snk} \subseteq Nodes /\ a \in Routes /\ default \in Routes
      /\ \A s \in Routes : s = a \/ s = default
      /\ FALSE \in BOOLEAN /\ TRUE \in BOOLEAN /\ v \in Passes
      /\ Kind[src] = "source" /\ Kind[proc] = "processor" /\ Kind[rt] = "router"
      /\ Kind[flt] = "filter" /\ Kind[agg] = "aggregator" /\ Kind[err] = "errors" /\ Kind[snk] = "sink"
  BY TopologyAssumption
<1>3. ASSUME NEW n \in Nodes, NEW l \in BOOLEAN, NEW r \in Routes, Visited(n, l, r),
             v \notin At(n), Kind[n] \in {"source", "processor", "router", "errors"} \/ (Kind[n] = "filter" /\ ~ l)
      PROVE  \E m \in BOOLEAN, s \in Routes :
               /\ Sends(v, n, l, r, m, s)
               /\ \A x \in 1..Len(Wiring[n][Wired(n, s)]) : <<Wiring[n][Wired(n, s)][x], m, s>> \in G
  <2>1. ~ Kept(v, n, l, r)
    BY <1>2, <1>3, KeptAt
  <2>. QED  BY <1>3, <2>1, OnAt DEF Followed
<1>4. ASSUME NEW n \in {src, proc, flt, err}, NEW t \in {proc, rt, snk}, Wiring[n][default] = <<t>>,
             NEW r \in Routes, Visited(n, FALSE, r), v \notin At(n)
      PROVE  Visited(t, FALSE, r)
  <2>0. PICK l \in BOOLEAN : l = FALSE
    BY <1>2
  <2>1. PICK m \in BOOLEAN, s \in Routes :
               /\ Sends(v, n, l, r, m, s)
               /\ \A x \in 1..Len(Wiring[n][Wired(n, s)]) : <<Wiring[n][Wired(n, s)][x], m, s>> \in G
    <3>1. n \in Nodes /\ Kind[n] \in {"source", "processor", "router", "errors", "filter"}
      BY <1>2
    <3>2. v \notin At(n) /\ Visited(n, l, r)
      BY <1>4, <2>0
    <3>3. Kind[n] \in {"source", "processor", "router", "errors"} \/ (Kind[n] = "filter" /\ ~ l)
      BY <2>0, <3>1
    <3>. QED
      <4> HIDE DEF Visited
      <4>. QED  BY <1>3, <3>1, <3>2, <3>3
  <2>2. m = FALSE /\ s = r
    BY <1>2, <1>4, <2>0, <2>1 DEF Sends
  <2>3. Wired(n, s) = default
    BY Wires
  <2>. QED  BY <1>4, <2>1, <2>2, <2>3, NextOf
<1>5. Visited(rt, FALSE, default)
  <2>1. Visited(src, FALSE, default)
    BY TopologyAssumption DEF Followed
  <2>2. Visited(proc, FALSE, default)
    BY <1>1, <1>2, <1>4, <2>1, TopologyAssumption
  <2>. QED  BY <1>1, <1>2, <1>4, <2>2, TopologyAssumption
<1>6. PICK s \in Routes :
        /\ s = RouteOf[v]
        /\ \A x \in 1..Len(Wiring[rt][s]) : Visited(Wiring[rt][s][x], FALSE, s)
  <2>1. PICK m \in BOOLEAN, s \in Routes :
               /\ Sends(v, rt, FALSE, default, m, s)
               /\ \A x \in 1..Len(Wiring[rt][Wired(rt, s)]) : <<Wiring[rt][Wired(rt, s)][x], m, s>> \in G
    BY <1>1, <1>2, <1>3, <1>5
  <2>2. m = FALSE /\ s = RouteOf[v]
    BY <1>2, <2>1, TopologyAssumption DEF Sends
  <2>. QED  BY <2>1, <2>2, Wires
<1>7. ASSUME NEW r \in Routes, Visited(snk, FALSE, r)
      PROVE  [vals |-> <<v>>, list |-> FALSE] \in Arrived
  <2>1. Kept(v, snk, FALSE, r)
    BY <1>2, <1>7 DEF Followed, GoneOn
  <2>. QED  BY <1>2, <2>1, SinkArrived
<1>8. ASSUME NEW n \in {flt, err}, Visited(n, FALSE, s)
      PROVE  v \in At(n) \/ [vals |-> <<v>>, list |-> FALSE] \in Arrived
  <2>1. Wiring[n][default] = <<snk>>
    BY TopologyAssumption
  <2>. QED  BY <1>2, <1>4, <1>7, <1>8, <2>1
<1>9. ASSUME s = a
      PROVE  /\ v \in At(flt) \/ [vals |-> <<v>>, list |-> FALSE] \in Arrived
             /\ \/ v \in At(agg) \/ \E k \in 1..Len(buffer) : buffer[k] = v
                \/ \E it \in Arrived : it.list /\ \E k \in 1..Len(it.vals) : it.vals[k] = v
  <2>1. /\ 1 \in 1..Len(<<flt, agg>>) /\ <<flt, agg>>[1] = flt
        /\ 2 \in 1..Len(<<flt, agg>>) /\ <<flt, agg>>[2] = agg
    OBVIOUS
  <2>2. Visited(flt, FALSE, s) /\ Visited(agg, FALSE, s)
    BY <1>6, <1>9, <2>1, TopologyAssumption
  <2>3. CASE Kept(v, agg, FALSE, s)
    BY <1>2, <1>8, <2>2, <2>3, KeptAt
  <2>4. CASE v \notin At(agg) /\ GoneOn(v, agg, FALSE, s, G)
    <3>0. PICK l \in BOOLEAN : l = FALSE
      BY <1>2
    <3>1. PICK m \in BOOLEAN, r \in Routes :
               /\ Sends(v, agg, l, s, m, r)
               /\ \A x \in 1..Len(Wiring[agg][Wired(agg, r)]) : <<Wiring[agg][Wired(agg, r)][x], m, r>> \in G
      <4>1. agg \in Nodes /\ GoneOn(v, agg, l, s, G) /\ v \notin At(agg)
        BY <1>2, <2>4, <3>0
      <4>. QED  BY <4>1, OnAt
    <3>2. m = TRUE /\ Wired(agg, r) = default /\ Wiring[agg][default] = <<snk>>
      BY <1>2, <3>0, <3>1, Wires, TopologyAssumption DEF Sends
    <3>3. Visited(snk, TRUE, r)
      BY <3>1, <3>2, NextOf
    <3>4. Kept(v, snk, TRUE, r)
      BY <1>2, <3>3 DEF Followed, GoneOn
    <3>5. \E it \in Arrived : it.list /\ v \in ValuesOf(it)
      BY <1>2, <3>4, SinkArrived
    <3>. QED  BY <1>8, <2>2, <3>5 DEF ValuesOf
  <2>. QED  BY <1>2, <1>8, <2>2, <2>3, <2>4 DEF Followed
<1>10. ASSUME s # a
       PROVE  v \in At(err) \/ [vals |-> <<v>>, list |-> FALSE] \in Arrived
  <2>1. 1 \in 1..Len(<<err>>) /\ <<err>>[1] = err /\ s = default
    BY <1>2, <1>10
  <2>2. Visited(err, FALSE, s)
    BY <1>6, <2>1, TopologyAssumption
  <2>. QED  BY <1>8, <2>2
<1>. QED  BY <1>6, <1>9, <1>10

LEMMA AccountedArrive == LossInv => NothingLostSilently
<1> SUFFICES ASSUME LossInv, NEW i \in 1..pushed, ~ cut, Pushes[i] \notin counted \cup forfeit
             PROVE  \/ Pushes[i] \in At(src) \cup At(proc) \cup At(rt)
                    \/ /\ RouteOf[Pushes[i]] = a
                       /\ Pushes[i] \in At(flt) \/ [vals |-> <<Pushes[i]>>, list |-> FALSE] \in Arrived
                       /\ \/ Pushes[i] \in At(agg) \/ \E k \in 1..Len(buffer) : buffer[k] = Pushes[i]
                          \/ \E it \in Arrived : it.list /\ \E k \in 1..Len(it.vals) : it.vals[k] = Pushes[i]
                    \/ /\ RouteOf[Pushes[i]] # a
                       /\ Pushes[i] \in At(err) \/ [vals |-> <<Pushes[i]>>, list |-> FALSE] \in Arrived
  BY DEF NothingLostSilently
<1>1. PICK v : v = Pushes[i]
  OBVIOUS
<1>2. PICK G : Followed(v, G)
  BY <1>1 DEF LossInv, Accounted, Lost
<1>3. v \in Values
  <2>1. i \in 1..Len(Pushes)
    BY PipelineAssumption, LenProperties DEF LossInv, TypeInv, ControlInv
  <2>. QED  BY <1>1, <2>1 DEF Values
<1>. QED  BY <1>1, <1>2, <1>3, FollowedArrives DEF LossInv

\* In the pipeline of MCPipeline, whatever is paused, removed, stopped or connected
\* while values are on their way, and for queues of any size: as long as no
\* subscriber was taken away a pushed value is counted, or lost with a hand, or on
\* its way along both branches of its route, in the buffer, or at the sink.
\* (Node.handle, emit and stop; PipelineManager.unregister_node.)
THEOREM PipelineLosesNothing == Spec => []NothingLostSilently
<1>1. WellWired
  BY WayAssumption DEF OneWay
<1>. QED  BY <1>1, LossInvHolds, AccountedArrive, PTL DEF Spec
=============================================================================
