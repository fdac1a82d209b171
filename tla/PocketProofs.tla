---------------------------- MODULE PocketProofs ----------------------------
(***************************************************************************)
(* Proofs about Pockets.  With any number of threads: types, and that what *)
(* was bought is never in the pockets twice, nor, without a crash, missing. *)
(* With the main loop as the only thread: a pocket is sold once, the coins *)
(* cover every pocket that is unsold, and open pockets and strategies      *)
(* belong together.                                                        *)
(***************************************************************************)
EXTENDS Pockets, SumProofs, TLAPS

\* The frames a step leaves behind are frames, and the rows a save leaves are rows.
LEMMA StepUpdate == \A f \in Frame, s \in Steps : [f EXCEPT !.step = s] \in Frame
  BY DEF Frame
LEMMA ThenUpdate ==
  \A f \in Frame, s \in Steps, s2 \in Steps : [f EXCEPT !.step = s, !.then = s2] \in Frame
  BY DEF Frame
LEMMA OrderUpdate ==
  \A f \in Frame, s \in Steps, o \in Orders \cup {NoOrder} :
    [f EXCEPT !.step = s, !.order = o] \in Frame
  BY DEF Frame
LEMMA NewUpdate ==
  \A f \in Frame, s \in Steps, s2 \in Steps, p \in PocketIds \cup {NoPocket}, n \in Nat :
    [f EXCEPT !.step = s, !.then = s2, !.new = p, !.rest = n] \in Frame
  BY DEF Frame
LEMMA TodoUpdate ==
  \A f \in Frame, s \in Steps, p \in PocketIds \cup {NoPocket}, ps \in SUBSET PocketIds :
    /\ [f EXCEPT !.todo = ps] \in Frame
    /\ [f EXCEPT !.step = s, !.todo = ps] \in Frame
    /\ [f EXCEPT !.step = s, !.pocket = p, !.todo = ps] \in Frame
  BY DEF Frame
LEMMA RestUpdate ==
  \A f \in Frame, s \in Steps, p \in PocketIds \cup {NoPocket}, ps \in SUBSET PocketIds,
     n \in Nat :
    [f EXCEPT !.step = s, !.pocket = p, !.todo = ps, !.rest = n] \in Frame
  BY DEF Frame
LEMMA IdleFrameType == IdleFrame \in Frame
  BY DEF Frame, IdleFrame, Steps

LEMMA NoPocketType == NoPocket \in PocketIds \cup {NoPocket}
  OBVIOUS

LEMMA CopyUpdate ==
  \A r \in Pocket, v \in Nat, o \in Asks \cup {NoOrder} :
    [r EXCEPT !.volume = v, !.status = "closed", !.order = o] \in Pocket
  BY DEF Pocket

\* Every shape is right from the start.
LEMMA TypeInit == Init => TypeOK
  BY IdleFrameType, PocketsAssumption DEF Init, TypeOK, Pocket, NoRow, Order, Task

----------------------------------------------------------------------------
(* Types.  A save writes the pocket a frame names, so the frame must name   *)
(* one; what a split leaves of a pocket is positive only as long as nobody  *)
(* changes its volume, and only the main loop does.                         *)

PocketSteps == {"reason", "guard", "closing", "updated", "sell", "link", "cleanup", "closed",
                "split", "copy", "purged"}
MainSteps == {"create", "opened", "match", "closed", "split", "copy"}

WellFormed(t, f, rows) ==
  /\ f.step \in PocketSteps => f.pocket \in PocketIds
  /\ f.step = "create" => f.order \in Bids
  /\ f.step = "link" => f.order \in Asks
  /\ f.step = "copy" => f.order \in Asks \cup {NoOrder}
  /\ f.step = "opened" \/ f.then = "opened" => f.new \in PocketIds
  /\ f.then \in {"idle", "guard", "match", "opened"}
  /\ t # MainLoop => f.step \notin MainSteps /\ f.then \notin MainSteps
  /\ f.step = "split" => f.rest < rows[f.pocket].volume

TypeInv == TypeOK /\ \A t \in Threads : WellFormed(t, at[t], pockets)

\* What a step of one thread leaves is well typed if its tables and its new
\* frame are, and no other thread's split is upset.
LEMMA ThreadStep ==
  ASSUME TypeInv, NEW t \in Threads, NEW f \in Frame, at' = [at EXCEPT ![t] = f],
         WellFormed(t, f, pockets'),
         \/ t = MainLoop
         \/ \A p \in PocketIds : pockets'[p].volume = pockets[p].volume,
         pockets' \in [PocketIds -> Pocket], table' \subseteq PocketIds,
         loaded' \subseteq PocketIds, stratRows' \subseteq PocketIds,
         strategies' \subseteq PocketIds, orders' \in [Orders -> Order], coins' \in Nat,
         queue' \in Seq(Task)
  PROVE  TypeInv'
<1>1. TypeOK'
  BY DEF TypeInv, TypeOK
<1>2. at'[t] = f /\ \A u \in Threads : u # t => at'[u] = at[u]
  BY DEF TypeInv, TypeOK
<1>3. ASSUME NEW u \in Threads, u # t
      PROVE  WellFormed(u, at'[u], pockets')
  <2>1. WellFormed(u, at[u], pockets)
    BY DEF TypeInv
  <2>2. at[u].step = "split" => /\ u = MainLoop /\ at[u].pocket \in PocketIds
                                /\ at[u].rest < pockets[at[u].pocket].volume
    BY <2>1 DEF WellFormed, MainSteps, PocketSteps
  <2>. QED  BY <1>2, <1>3, <2>1, <2>2 DEF WellFormed
<1>. QED  BY <1>1, <1>2, <1>3 DEF TypeInv

\* Nothing is upset by a step that moves no thread and writes no pocket.
LEMMA QuietStep ==
  ASSUME TypeInv, at' = at, pockets' = pockets, table' \subseteq PocketIds,
         loaded' \subseteq PocketIds, stratRows' \subseteq PocketIds,
         strategies' \subseteq PocketIds, orders' \in [Orders -> Order], coins' \in Nat,
         queue' \in Seq(Task)
  PROVE  TypeInv'
  BY DEF TypeInv, TypeOK

\* A save of a row keeps the shape of the tables.
LEMMA SaveType ==
  ASSUME TypeOK, NEW p \in PocketIds, NEW r \in Pocket, Save(p, r)
  PROVE  /\ pockets' \in [PocketIds -> Pocket]
         /\ table' \subseteq PocketIds
         /\ pockets'[p] = r
         /\ \A q \in PocketIds : q # p => pockets'[q] = pockets[q]
  BY DEF TypeOK, Save

\* A thread that goes to a frame is there.
LEMMA Moved ==
  ASSUME TypeOK, NEW t \in Threads, NEW f, Goto(t, f)
  PROVE  at'[t] = f
  BY DEF TypeOK, Goto

\* The steps, one by one, for the provers.
LEMMA AllSteps ==
  /\ "idle" \in Steps /\ "reason" \in Steps /\ "guard" \in Steps /\ "closing" \in Steps
  /\ "updated" \in Steps /\ "sell" \in Steps /\ "link" \in Steps /\ "cleanup" \in Steps
  /\ "create" \in Steps /\ "opened" \in Steps /\ "match" \in Steps /\ "closed" \in Steps
  /\ "split" \in Steps /\ "copy" \in Steps /\ "targets" \in Steps /\ "purge" \in Steps
  /\ "purged" \in Steps /\ "sweep" \in Steps
  BY DEF Steps

\* Every action keeps the types: first the steps of a thread, then what tools
\* and commands do, then the main loop's inputs.
LEMMA SetReasonType ==
  ASSUME TypeInv, NEW t \in Threads, SetReason(t)
  PROVE  TypeInv'
<1>0. at[t] \in Frame /\ WellFormed(t, at[t], pockets) /\ TypeOK
  BY DEF TypeInv, TypeOK
<1>1. PICK f : f = [at[t] EXCEPT !.step = "updated", !.then = "guard"]
  OBVIOUS
<1>2. f \in Frame
  BY <1>0, <1>1, AllSteps, ThenUpdate, Zenon
<1>3. f.step = "updated" /\ f.then = "guard" /\ f.pocket = at[t].pocket
  BY <1>0, <1>1, SMT DEF Frame
<1>4. at[t].pocket \in PocketIds
  BY <1>0 DEF SetReason, At, WellFormed, PocketSteps
<1>5. WellFormed(t, f, pockets')
  BY <1>3, <1>4 DEF WellFormed, PocketSteps, MainSteps
<1>6. pockets' = pockets /\ table' \subseteq PocketIds
  BY <1>0, <1>4 DEF SetReason, Save, TypeOK
<1>7. at' = [at EXCEPT ![t] = f]
  BY <1>1 DEF SetReason, Goto
<1>. QED  BY <1>0, <1>2, <1>5, <1>6, <1>7, ThreadStep DEF SetReason, TypeOK

LEMMA ClosePocketType ==
  ASSUME TypeInv, NEW t \in Threads, ClosePocket(t)
  PROVE  TypeInv'
<1>0. at[t] \in Frame /\ WellFormed(t, at[t], pockets) /\ TypeOK
  BY DEF TypeInv, TypeOK
<1>1. PICK f : f = [at[t] EXCEPT !.step = "closing"]
  OBVIOUS
<1>2. f \in Frame
  BY <1>0, <1>1, AllSteps, StepUpdate, Zenon
<1>3. f.step = "closing" /\ f.then = at[t].then /\ f.pocket = at[t].pocket /\ f.new = at[t].new
  BY <1>0, <1>1, SMT DEF Frame
<1>4. WellFormed(t, f, pockets) /\ WellFormed(t, IdleFrame, pockets)
  BY <1>0, <1>3 DEF ClosePocket, At, WellFormed, PocketSteps, MainSteps, IdleFrame
<1>5. at' = [at EXCEPT ![t] = f] \/ at' = [at EXCEPT ![t] = IdleFrame]
  BY <1>1 DEF ClosePocket, Goto, Return
<1>. QED  BY <1>0, <1>2, <1>4, <1>5, IdleFrameType, ThreadStep DEF ClosePocket, TypeOK, dbVars

LEMMA MarkClosingType ==
  ASSUME TypeInv, NEW t \in Threads, MarkClosing(t)
  PROVE  TypeInv'
<1>0. at[t] \in Frame /\ WellFormed(t, at[t], pockets) /\ TypeOK
  BY DEF TypeInv, TypeOK
<1>1. PICK f : f = [at[t] EXCEPT !.step = "updated", !.then = "idle"]
  OBVIOUS
<1>2. f \in Frame
  BY <1>0, <1>1, AllSteps, ThenUpdate, Zenon
<1>3. f.step = "updated" /\ f.then = "idle" /\ f.pocket = at[t].pocket
  BY <1>0, <1>1, SMT DEF Frame
<1>4. at[t].pocket \in PocketIds /\ pockets[at[t].pocket] \in Pocket
  BY <1>0 DEF MarkClosing, At, WellFormed, PocketSteps, TypeOK
<1>5. PICK r : r = [pockets[at[t].pocket] EXCEPT !.status = "closing"]
  OBVIOUS
<1>6. r \in Pocket /\ r.volume = pockets[at[t].pocket].volume
  BY <1>4, <1>5, SMT DEF Pocket
<1>7. Save(at[t].pocket, r)
  BY <1>5 DEF MarkClosing
<1>8. /\ pockets' \in [PocketIds -> Pocket] /\ table' \subseteq PocketIds
      /\ \A p \in PocketIds : pockets'[p].volume = pockets[p].volume
  BY <1>0, <1>4, <1>6, <1>7, SaveType
<1>9. WellFormed(t, f, pockets')
  BY <1>3, <1>4 DEF WellFormed, PocketSteps, MainSteps
<1>10. at' = [at EXCEPT ![t] = f]
  BY <1>1 DEF MarkClosing, Goto
<1>. QED  BY <1>0, <1>2, <1>8, <1>9, <1>10, ThreadStep DEF MarkClosing, TypeOK

LEMMA OnPocketUpdatedType ==
  ASSUME TypeInv, NEW t \in Threads, OnPocketUpdated(t)
  PROVE  TypeInv'
<1>0. at[t] \in Frame /\ WellFormed(t, at[t], pockets) /\ TypeOK
  BY DEF TypeInv, TypeOK
<1>1. PICK s : s = IF NeedsSale(at[t].pocket) THEN "sell" ELSE "cleanup"
  OBVIOUS
<1>2. PICK f : f = [at[t] EXCEPT !.step = s]
  OBVIOUS
<1>3. s \in {"sell", "cleanup"} /\ s \in Steps
  BY <1>1, AllSteps
<1>4. f \in Frame
  BY <1>0, <1>2, <1>3, StepUpdate, Zenon
<1>5. f.step = s /\ f.then = at[t].then /\ f.pocket = at[t].pocket /\ f.new = at[t].new
  BY <1>0, <1>2, SMT DEF Frame
<1>6. WellFormed(t, f, pockets)
  BY <1>0, <1>3, <1>5 DEF OnPocketUpdated, At, WellFormed, PocketSteps, MainSteps
<1>7. at' = [at EXCEPT ![t] = f]
  BY <1>1, <1>2 DEF OnPocketUpdated, Goto
<1>. QED  BY <1>0, <1>4, <1>6, <1>7, ThreadStep DEF OnPocketUpdated, TypeOK, dbVars

LEMMA SellPocketType ==
  ASSUME TypeInv, NEW t \in Threads, SellPocket(t)
  PROVE  TypeInv'
<1>0. at[t] \in Frame /\ WellFormed(t, at[t], pockets) /\ TypeOK
  BY DEF TypeInv, TypeOK
<1> DEFINE volume == pockets[at[t].pocket].volume
<1>1. at[t].pocket \in PocketIds /\ at[t].then = at[t].then /\ volume \in Nat
  BY <1>0 DEF SellPocket, At, WellFormed, PocketSteps, TypeOK, Pocket
<1>2. CASE Return(t) /\ UNCHANGED <<orders, coins>>
  <2>1. WellFormed(t, IdleFrame, pockets)
    BY DEF IdleFrame, WellFormed, PocketSteps, MainSteps
  <2>. QED  BY <1>0, <1>2, <2>1, IdleFrameType, ThreadStep DEF SellPocket, Return, Goto, TypeOK
<1>3. CASE ~ (Return(t) /\ UNCHANGED <<orders, coins>>)
  <2>1. Affordable(volume) /\ coins' = coins - volume
    BY <1>3 DEF SellPocket
  <2>2. PICK o \in Asks : NewOrder(o, volume) /\ Goto(t, [at[t] EXCEPT !.step = "link", !.order = o])
    BY <1>3 DEF SellPocket
  <2>3. PICK f : f = [at[t] EXCEPT !.step = "link", !.order = o]
    OBVIOUS
  <2>4. f \in Frame
    <3>1. o \in Orders \cup {NoOrder}
      BY DEF Orders
    <3>. QED  BY <1>0, <2>3, <3>1, AllSteps, OrderUpdate, Zenon
  <2>5. /\ f.step = "link" /\ f.then = at[t].then /\ f.pocket = at[t].pocket
        /\ f.new = at[t].new /\ f.order = o
    BY <1>0, <2>3, SMT DEF Frame
  <2>6. WellFormed(t, f, pockets)
    BY <1>0, <1>1, <2>5 DEF WellFormed, PocketSteps, MainSteps
  <2>7. coins' \in Nat
    BY <1>0, <1>1, <2>1 DEF Affordable, TypeOK
  <2>8. orders' \in [Orders -> Order]
    BY <1>0, <1>1, <2>2 DEF NewOrder, TypeOK, Order, Orders
  <2>9. at' = [at EXCEPT ![t] = f]
    BY <2>2, <2>3 DEF Goto
  <2>. QED  BY <1>0, <2>4, <2>6, <2>7, <2>8, <2>9, ThreadStep DEF SellPocket, TypeOK
<1>. QED  BY <1>2, <1>3

LEMMA LinkOrderType ==
  ASSUME TypeInv, NEW t \in Threads, LinkOrder(t)
  PROVE  TypeInv'
<1>0. at[t] \in Frame /\ WellFormed(t, at[t], pockets) /\ TypeOK
  BY DEF TypeInv, TypeOK
<1>1. PICK f : f = [at[t] EXCEPT !.step = "cleanup"]
  OBVIOUS
<1>2. f \in Frame
  BY <1>0, <1>1, AllSteps, StepUpdate, Zenon
<1>3. f.step = "cleanup" /\ f.then = at[t].then /\ f.pocket = at[t].pocket /\ f.new = at[t].new
  BY <1>0, <1>1, SMT DEF Frame
<1>4. /\ at[t].pocket \in PocketIds /\ pockets[at[t].pocket] \in Pocket
      /\ at[t].order \in Asks \cup {NoOrder}
  BY <1>0 DEF LinkOrder, At, WellFormed, PocketSteps, TypeOK
<1>5. PICK r : r = [pockets[at[t].pocket] EXCEPT !.order = at[t].order]
  OBVIOUS
<1>6. r \in Pocket /\ r.volume = pockets[at[t].pocket].volume
  BY <1>4, <1>5, SMT DEF Pocket
<1>7. Save(at[t].pocket, r)
  BY <1>5 DEF LinkOrder
<1>8. /\ pockets' \in [PocketIds -> Pocket] /\ table' \subseteq PocketIds
      /\ \A p \in PocketIds : pockets'[p].volume = pockets[p].volume
  BY <1>0, <1>4, <1>6, <1>7, SaveType
<1>9. WellFormed(t, f, pockets')
  BY <1>0, <1>3, <1>4 DEF WellFormed, PocketSteps, MainSteps
<1>10. at' = [at EXCEPT ![t] = f]
  BY <1>1 DEF LinkOrder, Goto
<1>. QED  BY <1>0, <1>2, <1>8, <1>9, <1>10, ThreadStep DEF LinkOrder, TypeOK

LEMMA CleanUpType ==
  ASSUME TypeInv, NEW t \in Threads, CleanUp(t)
  PROVE  TypeInv'
<1>0. at[t] \in Frame /\ WellFormed(t, at[t], pockets) /\ TypeOK
  BY DEF TypeInv, TypeOK
<1>1. PICK f : f = [at[t] EXCEPT !.step = at[t].then]
  OBVIOUS
<1>2. f \in Frame
  <2>1. at[t].then \in Steps
    BY <1>0 DEF Frame
  <2>. QED  BY <1>0, <1>1, <2>1, StepUpdate, Zenon
<1>3. f.step = at[t].then /\ f.then = at[t].then /\ f.pocket = at[t].pocket /\ f.new = at[t].new
  BY <1>0, <1>1, SMT DEF Frame
<1>4. WellFormed(t, f, pockets)
  BY <1>0, <1>3 DEF CleanUp, At, WellFormed, PocketSteps, MainSteps
<1>5. WellFormed(t, IdleFrame, pockets)
  BY DEF IdleFrame, WellFormed, PocketSteps, MainSteps
<1>6. strategies' \subseteq PocketIds /\ stratRows' \subseteq PocketIds
  BY <1>0 DEF CleanUp, DropStrategies, TypeOK
<1>7. at' = [at EXCEPT ![t] = f] \/ at' = [at EXCEPT ![t] = IdleFrame]
  BY <1>1 DEF CleanUp, Goto, Return
<1>. QED  BY <1>0, <1>2, <1>4, <1>5, <1>6, <1>7, IdleFrameType, ThreadStep DEF CleanUp, TypeOK

LEMMA CreatePocketType ==
  ASSUME TypeInv, NEW t \in Threads, CreatePocket(t)
  PROVE  TypeInv'
<1>0. at[t] \in Frame /\ WellFormed(t, at[t], pockets) /\ TypeOK
  BY DEF TypeInv, TypeOK
<1>1. t = MainLoop /\ at[t].order \in Bids /\ orders[at[t].order].volume \in Nat
  BY <1>0 DEF CreatePocket, At, WellFormed, MainSteps, TypeOK, Order, Orders
<1>2. PICK p \in PocketIds, e \in Entries :
        /\ Save(p, [status |-> "active", volume |-> orders[at[t].order].volume,
                    entry |-> e, order |-> NoOrder])
        /\ loaded' = loaded \cup {p}
        /\ Goto(t, [IdleFrame EXCEPT !.step = "opened", !.new = p])
  BY DEF CreatePocket
<1>3. [status |-> "active", volume |-> orders[at[t].order].volume,
       entry |-> e, order |-> NoOrder] \in Pocket
  BY <1>1, PocketsAssumption DEF Pocket
<1>4. pockets' \in [PocketIds -> Pocket] /\ table' \subseteq PocketIds
  BY <1>0, <1>2, <1>3, SaveType
<1>5. PICK f : f = [IdleFrame EXCEPT !.step = "opened", !.new = p]
  OBVIOUS
<1>6. f \in Frame /\ f.step = "opened" /\ f.then = "idle" /\ f.new = p
  BY <1>5 DEF Frame, IdleFrame, Steps
<1>7. WellFormed(t, f, pockets')
  BY <1>1, <1>6 DEF WellFormed, PocketSteps, MainSteps
<1>8. at' = [at EXCEPT ![t] = f]
  BY <1>2, <1>5 DEF Goto
<1>. QED  BY <1>0, <1>1, <1>2, <1>4, <1>6, <1>7, <1>8, ThreadStep DEF CreatePocket, TypeOK

LEMMA OnPocketCreatedType ==
  ASSUME TypeInv, NEW t \in Threads, OnPocketCreated(t)
  PROVE  TypeInv'
<1>0. at[t] \in Frame /\ WellFormed(t, at[t], pockets) /\ TypeOK
  BY DEF TypeInv, TypeOK
<1>1. WellFormed(t, IdleFrame, pockets)
  BY DEF IdleFrame, WellFormed, PocketSteps, MainSteps
<1>2. at[t].new \in PocketIds
  BY <1>0 DEF OnPocketCreated, At, WellFormed
<1>. QED  BY <1>0, <1>1, <1>2, IdleFrameType, ThreadStep DEF OnPocketCreated, Return, Goto, TypeOK

LEMMA MarkClosedType ==
  ASSUME TypeInv, NEW t \in Threads, MarkClosed(t)
  PROVE  TypeInv'
<1>0. at[t] \in Frame /\ WellFormed(t, at[t], pockets) /\ TypeOK
  BY DEF TypeInv, TypeOK
<1>1. PICK s : s = IF at[t].todo = {} /\ at[t].rest = 0 THEN "idle" ELSE "match"
  OBVIOUS
<1>2. PICK f : f = [at[t] EXCEPT !.step = "updated", !.then = s]
  OBVIOUS
<1>3. s \in {"idle", "match"} /\ s \in Steps
  BY <1>1, AllSteps
<1>4. f \in Frame
  BY <1>0, <1>2, <1>3, AllSteps, ThenUpdate, Zenon
<1>5. f.step = "updated" /\ f.then = s /\ f.pocket = at[t].pocket
  BY <1>0, <1>2, SMT DEF Frame
<1>6. /\ t = MainLoop /\ at[t].pocket \in PocketIds /\ pockets[at[t].pocket] \in Pocket
  BY <1>0 DEF MarkClosed, At, WellFormed, PocketSteps, MainSteps, TypeOK
<1>7. PICK r : r = [pockets[at[t].pocket] EXCEPT !.status = "closed"]
  OBVIOUS
<1>8. r \in Pocket
  BY <1>6, <1>7, SMT DEF Pocket
<1>9. pockets' \in [PocketIds -> Pocket] /\ table' \subseteq PocketIds
  BY <1>0, <1>6, <1>7, <1>8, SaveType DEF MarkClosed
<1>10. WellFormed(t, f, pockets')
  BY <1>3, <1>5, <1>6 DEF WellFormed, PocketSteps, MainSteps
<1>11. at' = [at EXCEPT ![t] = f]
  BY <1>1, <1>2 DEF MarkClosed, Goto
<1>. QED  BY <1>0, <1>4, <1>6, <1>9, <1>10, <1>11, ThreadStep DEF MarkClosed, TypeOK

LEMMA MatchSaleType ==
  ASSUME TypeInv, NEW t \in Threads, MatchSale(t)
  PROVE  TypeInv'
<1>0. at[t] \in Frame /\ WellFormed(t, at[t], pockets) /\ TypeOK
  BY DEF TypeInv, TypeOK
<1>1. t = MainLoop /\ at[t].todo \subseteq PocketIds /\ at[t].rest \in Nat
  BY <1>0 DEF MatchSale, At, WellFormed, MainSteps, Frame
<1>2. CASE Return(t)
  <2>1. WellFormed(t, IdleFrame, pockets)
    BY DEF IdleFrame, WellFormed, PocketSteps, MainSteps
  <2>. QED  BY <1>0, <1>2, <2>1, IdleFrameType, ThreadStep
            DEF MatchSale, Return, Goto, TypeOK, dbVars
<1>3. CASE ~ Return(t)
  <2>1. PICK p \in at[t].todo :
          Goto(t, IF at[t].rest < pockets[p].volume
                  THEN [at[t] EXCEPT !.step = "split", !.pocket = p, !.todo = {}]
                  ELSE [at[t] EXCEPT !.step = IF p \in loaded /\ IsOpen(p)
                                              THEN "closed" ELSE "match",
                                     !.pocket = p, !.todo = @ \ {p},
                                     !.rest = @ - pockets[p].volume])
    BY <1>3 DEF MatchSale
  <2>2. p \in PocketIds /\ pockets[p].volume \in Nat
    BY <1>0, <1>1, <2>1 DEF TypeOK, Pocket
  <2>3. CASE at[t].rest < pockets[p].volume
    <3>1. PICK f : f = [at[t] EXCEPT !.step = "split", !.pocket = p, !.todo = {}]
      OBVIOUS
    <3>2. f \in Frame
      <4>1. p \in PocketIds \cup {NoPocket} /\ {} \in SUBSET PocketIds
        BY <2>2
      <4>. QED  BY <1>0, <3>1, <4>1, AllSteps, TodoUpdate, Zenon
    <3>3. /\ f.step = "split" /\ f.then = at[t].then /\ f.pocket = p
          /\ f.new = at[t].new /\ f.rest = at[t].rest
      BY <1>0, <3>1, SMT DEF Frame
    <3>4. WellFormed(t, f, pockets)
      BY <1>0, <1>1, <2>2, <2>3, <3>3 DEF WellFormed, PocketSteps, MainSteps
    <3>5. at' = [at EXCEPT ![t] = f]
      BY <2>1, <2>3, <3>1 DEF Goto
    <3>. QED  BY <1>0, <3>2, <3>4, <3>5, ThreadStep DEF MatchSale, TypeOK, dbVars
  <2>4. CASE ~ (at[t].rest < pockets[p].volume)
    <3>1. PICK s : s = IF p \in loaded /\ IsOpen(p) THEN "closed" ELSE "match"
      OBVIOUS
    <3>2. PICK ps, n : ps = at[t].todo \ {p} /\ n = at[t].rest - pockets[p].volume
      OBVIOUS
    <3>3. PICK f : f = [at[t] EXCEPT !.step = s, !.pocket = p, !.todo = ps, !.rest = n]
      OBVIOUS
    <3>4. f \in Frame
      <4>1. s \in Steps
        BY <3>1, AllSteps
      <4>2. p \in PocketIds \cup {NoPocket} /\ ps \in SUBSET PocketIds /\ n \in Nat
        BY <1>1, <2>2, <2>4, <3>2
      <4>. QED  BY <1>0, <3>3, <4>1, <4>2, RestUpdate, Zenon
    <3>5. s \in {"closed", "match"}
      BY <3>1
    <3>6. f.step = s /\ f.then = at[t].then /\ f.pocket = p /\ f.new = at[t].new
      BY <1>0, <3>3, SMT DEF Frame
    <3>7. WellFormed(t, f, pockets)
      BY <1>0, <1>1, <2>2, <3>5, <3>6 DEF WellFormed, PocketSteps, MainSteps
    <3>8. at' = [at EXCEPT ![t] = f]
      BY <2>1, <2>4, <3>1, <3>2, <3>3 DEF Goto
    <3>. QED  BY <1>0, <3>4, <3>7, <3>8, ThreadStep DEF MatchSale, TypeOK, dbVars
  <2>. QED  BY <2>3, <2>4
<1>. QED  BY <1>2, <1>3

LEMMA SplitPocketType ==
  ASSUME TypeInv, NEW t \in Threads, SplitPocket(t)
  PROVE  TypeInv'
<1>0. at[t] \in Frame /\ WellFormed(t, at[t], pockets) /\ TypeOK
  BY DEF TypeInv, TypeOK
<1>1. /\ t = MainLoop /\ at[t].pocket \in PocketIds /\ pockets[at[t].pocket] \in Pocket
      /\ at[t].rest \in Nat /\ at[t].rest < pockets[at[t].pocket].volume
  BY <1>0 DEF SplitPocket, At, WellFormed, PocketSteps, MainSteps, TypeOK, Frame
<1>2. PICK o : o = pockets[at[t].pocket].order
  OBVIOUS
<1>3. o \in Asks \cup {NoOrder} /\ o \in Orders \cup {NoOrder}
  BY <1>1, <1>2 DEF Pocket, Orders
<1>4. PICK f : f = [at[t] EXCEPT !.step = "copy", !.order = o]
  OBVIOUS
<1>5. f \in Frame
  BY <1>0, <1>3, <1>4, AllSteps, OrderUpdate, Zenon
<1>6. /\ f.step = "copy" /\ f.then = at[t].then /\ f.pocket = at[t].pocket
      /\ f.new = at[t].new /\ f.order = o
  BY <1>0, <1>4, SMT DEF Frame
<1>7. Remaining(at[t].pocket, at[t].rest) \in Pocket
  BY <1>1, SMT DEF Remaining, Pocket
<1>8. pockets' \in [PocketIds -> Pocket] /\ table' \subseteq PocketIds
  BY <1>0, <1>1, <1>7, SaveType DEF SplitPocket
<1>9. WellFormed(t, f, pockets')
  BY <1>0, <1>1, <1>3, <1>6 DEF WellFormed, PocketSteps, MainSteps
<1>10. at' = [at EXCEPT ![t] = f]
  BY <1>2, <1>4 DEF SplitPocket, Goto
<1>. QED  BY <1>0, <1>1, <1>5, <1>8, <1>9, <1>10, ThreadStep DEF SplitPocket, TypeOK

LEMMA SaveCopyType ==
  ASSUME TypeInv, NEW t \in Threads, SaveCopy(t)
  PROVE  TypeInv'
<1>0. at[t] \in Frame /\ WellFormed(t, at[t], pockets) /\ TypeOK
  BY DEF TypeInv, TypeOK
<1>1. /\ t = MainLoop /\ at[t].pocket \in PocketIds /\ pockets[at[t].pocket] \in Pocket
      /\ at[t].rest \in Nat /\ at[t].order \in Asks \cup {NoOrder}
  BY <1>0 DEF SaveCopy, At, WellFormed, PocketSteps, MainSteps, TypeOK, Frame
<1>2. PICK q \in PocketIds :
        /\ Save(q, [pockets[at[t].pocket] EXCEPT !.volume = at[t].rest, !.status = "closed",
                                                 !.order = at[t].order])
        /\ loaded' = loaded \cup {q}
        /\ Goto(t, [at[t] EXCEPT !.step = "updated", !.then = "opened", !.new = q, !.rest = 0])
  BY DEF SaveCopy
<1>3. PICK r : r = [pockets[at[t].pocket] EXCEPT !.volume = at[t].rest, !.status = "closed",
                                                 !.order = at[t].order]
  OBVIOUS
<1>4. r \in Pocket
  BY <1>1, <1>3, CopyUpdate, Zenon
<1>5. pockets' \in [PocketIds -> Pocket] /\ table' \subseteq PocketIds
  BY <1>0, <1>2, <1>3, <1>4, SaveType
<1>6. PICK f : f = [at[t] EXCEPT !.step = "updated", !.then = "opened", !.new = q, !.rest = 0]
  OBVIOUS
<1>7. f \in Frame
  <2>1. q \in PocketIds \cup {NoPocket} /\ 0 \in Nat
    BY <1>2
  <2>. QED  BY <1>0, <1>6, <2>1, AllSteps, NewUpdate, Zenon
<1>8. f.step = "updated" /\ f.then = "opened" /\ f.pocket = at[t].pocket /\ f.new = q
  BY <1>0, <1>6, SMT DEF Frame
<1>9. WellFormed(t, f, pockets')
  BY <1>1, <1>8 DEF WellFormed, PocketSteps, MainSteps
<1>10. at' = [at EXCEPT ![t] = f]
  BY <1>2, <1>6 DEF Goto
<1>. QED  BY <1>0, <1>1, <1>2, <1>5, <1>7, <1>9, <1>10, ThreadStep DEF SaveCopy, TypeOK

LEMMA ListTargetsType ==
  ASSUME TypeInv, NEW t \in Threads, ListTargets(t)
  PROVE  TypeInv'
<1>0. at[t] \in Frame /\ WellFormed(t, at[t], pockets) /\ TypeOK
  BY DEF TypeInv, TypeOK
<1>1. PICK ps : ps = TargetsOf
  OBVIOUS
<1>2. PICK f : f = [at[t] EXCEPT !.step = "purge", !.todo = ps]
  OBVIOUS
<1>3. ps \in SUBSET PocketIds
  BY <1>0, <1>1 DEF TargetsOf, TypeOK
<1>4. f \in Frame
  BY <1>0, <1>2, <1>3, AllSteps, TodoUpdate, NoPocketType, Zenon
<1>5. f.step = "purge" /\ f.then = at[t].then /\ f.pocket = at[t].pocket /\ f.new = at[t].new
  BY <1>0, <1>2, SMT DEF Frame
<1>6. WellFormed(t, f, pockets)
  BY <1>0, <1>5 DEF WellFormed, PocketSteps, MainSteps
<1>7. at' = [at EXCEPT ![t] = f]
  BY <1>1, <1>2 DEF ListTargets, Goto
<1>. QED  BY <1>0, <1>4, <1>6, <1>7, ThreadStep DEF ListTargets, TypeOK, dbVars

LEMMA ArchivePocketType ==
  ASSUME TypeInv, NEW t \in Threads, ArchivePocket(t)
  PROVE  TypeInv'
<1>0. at[t] \in Frame /\ WellFormed(t, at[t], pockets) /\ TypeOK
  BY DEF TypeInv, TypeOK
<1>1. at[t].todo \subseteq PocketIds
  BY <1>0 DEF Frame
<1>2. CASE at[t].todo = {} /\ Goto(t, [at[t] EXCEPT !.step = "sweep", !.todo = strategies])
           /\ UNCHANGED table
  <2>1. PICK f : f = [at[t] EXCEPT !.step = "sweep", !.todo = strategies]
    OBVIOUS
  <2>2. f \in Frame
    <3>1. strategies \in SUBSET PocketIds
      BY <1>0 DEF TypeOK
    <3>. QED  BY <1>0, <2>1, <3>1, AllSteps, TodoUpdate, NoPocketType, Zenon
  <2>3. f.step = "sweep" /\ f.then = at[t].then /\ f.pocket = at[t].pocket /\ f.new = at[t].new
    BY <1>0, <2>1, SMT DEF Frame
  <2>4. WellFormed(t, f, pockets)
    BY <1>0, <2>3 DEF WellFormed, PocketSteps, MainSteps
  <2>5. at' = [at EXCEPT ![t] = f]
    BY <1>2, <2>1 DEF Goto
  <2>. QED  BY <1>0, <1>2, <2>2, <2>4, <2>5, ThreadStep DEF ArchivePocket, TypeOK
<1>3. CASE \E p \in at[t].todo :
             /\ table' = IF p \in loaded THEN table \ {p} ELSE table
             /\ Goto(t, [at[t] EXCEPT !.step = IF p \in loaded THEN "purged" ELSE "purge",
                                      !.pocket = p, !.todo = @ \ {p}])
  <2>1. PICK p \in at[t].todo :
             /\ table' = IF p \in loaded THEN table \ {p} ELSE table
             /\ Goto(t, [at[t] EXCEPT !.step = IF p \in loaded THEN "purged" ELSE "purge",
                                      !.pocket = p, !.todo = @ \ {p}])
    BY <1>3
  <2>2. PICK s, ps : s = (IF p \in loaded THEN "purged" ELSE "purge") /\ ps = at[t].todo \ {p}
    OBVIOUS
  <2>3. PICK f : f = [at[t] EXCEPT !.step = s, !.pocket = p, !.todo = ps]
    OBVIOUS
  <2>4. s \in {"purged", "purge"} /\ s \in Steps
    BY <2>2, AllSteps
  <2>5. f \in Frame
    <3>1. p \in PocketIds \cup {NoPocket} /\ ps \in SUBSET PocketIds
      BY <1>1, <2>2
    <3>. QED  BY <1>0, <2>3, <2>4, <3>1, TodoUpdate, Zenon
  <2>6. f.step = s /\ f.then = at[t].then /\ f.pocket = p /\ f.new = at[t].new
    BY <1>0, <2>3, SMT DEF Frame
  <2>7. WellFormed(t, f, pockets)
    BY <1>0, <1>1, <2>4, <2>6 DEF WellFormed, PocketSteps, MainSteps
  <2>8. at' = [at EXCEPT ![t] = f]
    BY <2>1, <2>2, <2>3 DEF Goto
  <2>9. table' \subseteq PocketIds
    BY <1>0, <2>1 DEF TypeOK
  <2>. QED  BY <1>0, <2>5, <2>7, <2>8, <2>9, ThreadStep DEF ArchivePocket, TypeOK
<1>. QED  BY <1>2, <1>3 DEF ArchivePocket

LEMMA OnPocketDeletedType ==
  ASSUME TypeInv, NEW t \in Threads, OnPocketDeleted(t)
  PROVE  TypeInv'
<1>0. at[t] \in Frame /\ WellFormed(t, at[t], pockets) /\ TypeOK
  BY DEF TypeInv, TypeOK
<1>1. PICK f : f = [at[t] EXCEPT !.step = "purge"]
  OBVIOUS
<1>2. f \in Frame
  BY <1>0, <1>1, AllSteps, StepUpdate, Zenon
<1>3. f.step = "purge" /\ f.then = at[t].then /\ f.pocket = at[t].pocket /\ f.new = at[t].new
  BY <1>0, <1>1, SMT DEF Frame
<1>4. WellFormed(t, f, pockets)
  BY <1>0, <1>3 DEF WellFormed, PocketSteps, MainSteps
<1>5. at' = [at EXCEPT ![t] = f]
  BY <1>1 DEF OnPocketDeleted, Goto
<1>6. /\ loaded' \subseteq PocketIds /\ strategies' \subseteq PocketIds
      /\ stratRows' \subseteq PocketIds
  BY <1>0 DEF OnPocketDeleted, DropStrategies, TypeOK
<1>. QED  BY <1>0, <1>2, <1>4, <1>5, <1>6, ThreadStep DEF OnPocketDeleted, TypeOK

LEMMA SweepStrategyType ==
  ASSUME TypeInv, NEW t \in Threads, SweepStrategy(t)
  PROVE  TypeInv'
<1>0. at[t] \in Frame /\ WellFormed(t, at[t], pockets) /\ TypeOK
  BY DEF TypeInv, TypeOK
<1>1. CASE Return(t) /\ UNCHANGED <<strategies, stratRows>>
  <2>1. WellFormed(t, IdleFrame, pockets)
    BY DEF IdleFrame, WellFormed, PocketSteps, MainSteps
  <2>. QED  BY <1>0, <1>1, <2>1, IdleFrameType, ThreadStep
            DEF SweepStrategy, Return, Goto, TypeOK
<1>2. CASE \E p \in at[t].todo : DropStrategies({p}) /\ Goto(t, [at[t] EXCEPT !.todo = @ \ {p}])
  <2>1. PICK p \in at[t].todo : DropStrategies({p}) /\ Goto(t, [at[t] EXCEPT !.todo = @ \ {p}])
    BY <1>2
  <2>2. PICK ps : ps = at[t].todo \ {p}
    OBVIOUS
  <2>3. PICK f : f = [at[t] EXCEPT !.todo = ps]
    OBVIOUS
  <2>4. f \in Frame
    <3>1. ps \in SUBSET PocketIds
      BY <1>0, <2>2 DEF Frame
    <3>. QED  BY <1>0, <2>3, <3>1, AllSteps, TodoUpdate, NoPocketType, Zenon
  <2>5. /\ f.step = "sweep" /\ f.then = at[t].then
        /\ f.pocket = at[t].pocket /\ f.new = at[t].new
    BY <1>0, <2>3, SMT DEF Frame, SweepStrategy, At
  <2>6. WellFormed(t, f, pockets)
    BY <1>0, <2>5 DEF WellFormed, PocketSteps, MainSteps
  <2>7. at' = [at EXCEPT ![t] = f]
    BY <2>1, <2>2, <2>3 DEF Goto
  <2>8. strategies' \subseteq PocketIds /\ stratRows' \subseteq PocketIds
    BY <1>0, <2>1 DEF DropStrategies, TypeOK
  <2>. QED  BY <1>0, <2>4, <2>6, <2>7, <2>8, ThreadStep DEF SweepStrategy, TypeOK
<1>. QED  BY <1>1, <1>2 DEF SweepStrategy

LEMMA BuyType ==
  ASSUME TypeInv, NEW t \in Threads, Buy(t)
  PROVE  TypeInv'
<1>0. at[t] \in Frame /\ WellFormed(t, at[t], pockets) /\ TypeOK
  BY DEF TypeInv, TypeOK
<1>1. PICK o \in Bids, v \in Volumes : NewOrder(o, v)
  BY DEF Buy
<1>2. o \in Orders /\ v \in Nat
  BY PocketsAssumption DEF Orders
<1>3. orders' \in [Orders -> Order]
  BY <1>0, <1>1, <1>2 DEF NewOrder, TypeOK, Order
<1>. QED  BY <1>0, <1>3, QuietStep DEF Buy, TypeOK, memVars

LEMMA SellType ==
  ASSUME TypeInv, NEW t \in Threads, Sell(t)
  PROVE  TypeInv'
<1>0. at[t] \in Frame /\ WellFormed(t, at[t], pockets) /\ TypeOK
  BY DEF TypeInv, TypeOK
<1>1. PICK o \in Asks, v \in Volumes : Affordable(v) /\ NewOrder(o, v) /\ coins' = coins - v
  BY DEF Sell
<1>2. o \in Orders /\ v \in Nat
  BY PocketsAssumption DEF Orders
<1>3. orders' \in [Orders -> Order] /\ coins' \in Nat
  BY <1>0, <1>1, <1>2 DEF NewOrder, Affordable, TypeOK, Order
<1>. QED  BY <1>0, <1>3, QuietStep DEF Sell, TypeOK, memVars

LEMMA SellAllType ==
  ASSUME TypeInv, NEW t \in Threads, SellAll(t)
  PROVE  TypeInv'
<1>0. at[t] \in Frame /\ WellFormed(t, at[t], pockets) /\ TypeOK
  BY DEF TypeInv, TypeOK
<1>1. PICK o \in Asks : NewOrder(o, coins)
  BY DEF SellAll
<1>2. orders' \in [Orders -> Order] /\ coins' \in Nat
  BY <1>0, <1>1 DEF SellAll, NewOrder, TypeOK, Order, Orders
<1>3. PICK f : f = [IdleFrame EXCEPT !.step = "targets"]
  OBVIOUS
<1>4. f \in Frame /\ f.step = "targets" /\ f.then = "idle"
  BY <1>3 DEF Frame, IdleFrame, Steps
<1>5. WellFormed(t, f, pockets)
  BY <1>4 DEF WellFormed, PocketSteps, MainSteps
<1>6. at' = [at EXCEPT ![t] = f]
  BY <1>3 DEF SellAll, Goto
<1>. QED  BY <1>0, <1>2, <1>4, <1>5, <1>6, ThreadStep DEF SellAll, TypeOK

LEMMA CancelType ==
  ASSUME TypeInv, NEW t \in Threads, Cancel(t)
  PROVE  TypeInv'
<1>0. at[t] \in Frame /\ WellFormed(t, at[t], pockets) /\ TypeOK
  BY DEF TypeInv, TypeOK
<1>1. PICK o \in Orders :
        /\ orders' = [orders EXCEPT ![o].state = "cancel"]
        /\ coins' = IF o \in Asks THEN coins + orders[o].volume ELSE coins
  BY DEF Cancel
<1>2. orders' \in [Orders -> Order] /\ coins' \in Nat
  BY <1>0, <1>1, SMT DEF TypeOK, Order
<1>. QED  BY <1>0, <1>2, QuietStep DEF Cancel, TypeOK, memVars

\* set_reason, or nothing, is what follows a signal.
LEMMA BeginCloseType ==
  ASSUME TypeInv, NEW t \in Threads, NEW p \in PocketIds, BeginClose(t, p),
         UNCHANGED <<dbVars, loaded, strategies>>, queue' \in Seq(Task)
  PROVE  TypeInv'
<1>0. TypeOK
  BY DEF TypeInv
<1>1. CASE at' = at
  BY <1>0, <1>1, QuietStep DEF TypeOK, dbVars
<1>2. CASE ~ (at' = at)
  <2>1. PICK f : f = [IdleFrame EXCEPT !.step = "reason", !.pocket = p]
    OBVIOUS
  <2>2. f \in Frame /\ f.step = "reason" /\ f.then = "idle" /\ f.pocket = p
    BY <2>1 DEF Frame, IdleFrame, Steps
  <2>3. WellFormed(t, f, pockets)
    BY <2>2 DEF WellFormed, PocketSteps, MainSteps
  <2>4. at' = [at EXCEPT ![t] = f]
    BY <1>2, <2>1 DEF BeginClose, Goto
  <2>. QED  BY <1>0, <2>2, <2>3, <2>4, ThreadStep DEF TypeOK, dbVars
<1>. QED  BY <1>1, <1>2

LEMMA ToolCloseType ==
  ASSUME TypeInv, NEW t \in Threads, ToolClose(t)
  PROVE  TypeInv'
<1>0. TypeOK
  BY DEF TypeInv
<1>1. PICK p \in loaded : BeginClose(t, p)
  BY DEF ToolClose
<1>2. p \in PocketIds
  BY <1>0 DEF TypeOK
<1>3. UNCHANGED <<dbVars, loaded, strategies>> /\ queue' \in Seq(Task)
  BY <1>0 DEF ToolClose, TypeOK
<1>. QED  BY <1>1, <1>2, <1>3, BeginCloseType

LEMMA SignalType ==
  ASSUME TypeInv, NEW p \in PocketIds, Signal(p)
  PROVE  TypeInv'
<1>0. TypeOK
  BY DEF TypeInv
<1>1. [kind |-> "close", pocket |-> p] \in Task
  BY DEF Task
<1>2. queue' \in Seq(Task)
  BY <1>0, <1>1 DEF Signal, TypeOK
<1>. QED  BY <1>0, <1>2, QuietStep DEF Signal, TypeOK, dbVars

LEMMA ExecuteType ==
  ASSUME TypeInv, NEW o \in Orders, Execute(o)
  PROVE  TypeInv'
<1>0. TypeOK
  BY DEF TypeInv
<1>1. [kind |-> "fill", order |-> o] \in Task
  BY DEF Task
<1>2. queue' \in Seq(Task)
  BY <1>0, <1>1 DEF Execute, TypeOK
<1>3. orders' \in [Orders -> Order] /\ coins' \in Nat
  BY <1>0, SMT DEF Execute, TypeOK, Order
<1>. QED  BY <1>0, <1>2, <1>3, QuietStep DEF Execute, TypeOK

\* A fill starts the main loop on a frame that names its order or its pocket.
LEMMA FillType ==
  ASSUME TypeInv, NEW o \in Orders, FillBid(o) \/ FillAsk(o),
         UNCHANGED <<dbVars, loaded, strategies>>, queue' \in Seq(Task)
  PROVE  TypeInv'
<1>0. TypeOK /\ MainLoop \in Threads
  BY PocketsAssumption DEF TypeInv
<1> DEFINE Enter(f) == f \in Frame /\ WellFormed(MainLoop, f, pockets) /\ Goto(MainLoop, f)
<1>1. ASSUME NEW f, Enter(f)
      PROVE  TypeInv'
  BY <1>0, <1>1, ThreadStep DEF Goto, TypeOK, dbVars
<1>2. CASE FillBid(o)
  <2>1. PICK f : f = [IdleFrame EXCEPT !.step = "create", !.order = o]
    OBVIOUS
  <2>2. f \in Frame /\ f.step = "create" /\ f.then = "idle" /\ f.order = o
    BY <2>1 DEF Frame, IdleFrame, Steps, Orders
  <2>3. WellFormed(MainLoop, f, pockets)
    BY <1>2, <2>2 DEF FillBid, WellFormed, PocketSteps, MainSteps
  <2>. QED  BY <1>1, <1>2, <2>1, <2>2, <2>3 DEF FillBid
<1>3. CASE FillAsk(o)
  <2>1. CASE at' = at
    BY <1>0, <2>1, QuietStep DEF TypeOK, dbVars
  <2>2. CASE \E p \in LinkedTo(o) :
               Goto(MainLoop, [IdleFrame EXCEPT !.step = "closed", !.pocket = p])
    <3>1. PICK p \in LinkedTo(o) :
            Goto(MainLoop, [IdleFrame EXCEPT !.step = "closed", !.pocket = p])
      BY <2>2
    <3>2. p \in PocketIds
      BY <1>0 DEF LinkedTo, TypeOK
    <3>3. PICK f : f = [IdleFrame EXCEPT !.step = "closed", !.pocket = p]
      OBVIOUS
    <3>4. f \in Frame /\ f.step = "closed" /\ f.then = "idle" /\ f.pocket = p
      BY <3>2, <3>3 DEF Frame, IdleFrame, Steps
    <3>5. WellFormed(MainLoop, f, pockets)
      BY <3>2, <3>4 DEF WellFormed, PocketSteps, MainSteps
    <3>. QED  BY <1>1, <3>1, <3>3, <3>4, <3>5
  <2>3. CASE Goto(MainLoop, [IdleFrame EXCEPT !.step = "match", !.todo = TargetsOf,
                                              !.rest = orders[o].volume])
    <3>1. PICK ps, n : ps = TargetsOf /\ n = orders[o].volume
      OBVIOUS
    <3>2. ps \in SUBSET PocketIds /\ n \in Nat
      BY <1>0, <3>1 DEF TargetsOf, TypeOK, Order
    <3>3. PICK f : f = [IdleFrame EXCEPT !.step = "match", !.todo = ps, !.rest = n]
      OBVIOUS
    <3>4. f \in Frame /\ f.step = "match" /\ f.then = "idle"
      BY <3>2, <3>3 DEF Frame, IdleFrame, Steps
    <3>5. WellFormed(MainLoop, f, pockets)
      BY <3>4 DEF WellFormed, PocketSteps, MainSteps
    <3>. QED  BY <1>1, <2>3, <3>1, <3>3, <3>4, <3>5
  <2>. QED  BY <1>3, <2>1, <2>2, <2>3 DEF FillAsk
<1>. QED  BY <1>2, <1>3

LEMMA TakeTaskType ==
  ASSUME TypeInv, TakeTask
  PROVE  TypeInv'
<1>0. TypeOK /\ MainLoop \in Threads
  BY PocketsAssumption DEF TypeInv
<1>1. Head(queue) \in Task /\ queue' \in Seq(Task)
  BY <1>0 DEF TakeTask, TypeOK
<1>2. UNCHANGED <<dbVars, loaded, strategies>>
  BY DEF TakeTask
<1>3. CASE Head(queue).kind = "close"
  <2>1. Head(queue).pocket \in PocketIds /\ BeginClose(MainLoop, Head(queue).pocket)
    BY <1>1, <1>3 DEF TakeTask, Task
  <2>. QED  BY <1>0, <1>1, <1>2, <2>1, BeginCloseType
<1>4. CASE Head(queue).kind # "close"
  <2>1. /\ Head(queue).order \in Orders
        /\ FillBid(Head(queue).order) \/ FillAsk(Head(queue).order)
    BY <1>1, <1>4 DEF TakeTask, Task
  <2>. QED  BY <1>1, <1>2, <2>1, FillType
<1>. QED  BY <1>3, <1>4

LEMMA CrashType ==
  ASSUME TypeInv, Crash
  PROVE  TypeInv'
<1>1. \A t \in Threads : WellFormed(t, IdleFrame, pockets)
  BY DEF WellFormed, IdleFrame, PocketSteps, MainSteps
<1>2. \A t \in Threads : at'[t] = IdleFrame
  BY DEF Crash
<1>3. TypeOK'
  BY IdleFrameType DEF TypeInv, TypeOK, Crash, dbVars
<1>. QED  BY <1>1, <1>2, <1>3 DEF TypeInv, Crash, dbVars

LEMMA TypeStep == TypeInv /\ [Next]_vars => TypeInv'
<1> SUFFICES ASSUME TypeInv, [Next]_vars
             PROVE  TypeInv'
  OBVIOUS
<1>1. ASSUME NEW t \in Threads, Command(t)
      PROVE  TypeInv'
  BY <1>1, BuyType, SellType, SellAllType, CancelType, ToolCloseType DEF Command
<1>2. ASSUME NEW t \in Threads, Continue(t)
      PROVE  TypeInv'
  BY <1>2, SetReasonType, ClosePocketType, MarkClosingType, OnPocketUpdatedType, SellPocketType,
     LinkOrderType, CleanUpType, CreatePocketType, OnPocketCreatedType, MarkClosedType,
     MatchSaleType, SplitPocketType, SaveCopyType, ListTargetsType, ArchivePocketType,
     OnPocketDeletedType, SweepStrategyType DEF Continue
<1>3. CASE UNCHANGED vars
  BY <1>3, QuietStep DEF vars, dbVars, memVars, TypeInv, TypeOK
<1>. QED  BY <1>1, <1>2, <1>3, SignalType, ExecuteType, TakeTaskType, CrashType DEF Next

\* The rows, the frames and the queue always have their types: no sale spends
\* coins that are not there, and no split takes more than the pocket has.
\* (sell_market_order's balance check, close_pockets_by_ticker.)
THEOREM PocketsTypeOK == Spec => []TypeOK
<1>1. Init => TypeInv
  <2>1. Init => \A t \in Threads : WellFormed(t, at[t], pockets)
    BY DEF Init, WellFormed, IdleFrame, PocketSteps, MainSteps
  <2>. QED  BY <2>1, TypeInit DEF TypeInv
<1>2. TypeInv => TypeOK
  BY DEF TypeInv
<1>. QED  BY <1>1, <1>2, TypeStep, PTL DEF Spec

----------------------------------------------------------------------------
(* With the main loop as the only thread, without sales by hand and without *)
(* crashes, no pocket is sold twice.  A second thread, a crash and a sale   *)
(* by hand each break that; this is the proof that nothing else does.       *)

\* While a pocket is being sold it has no order; nor has one not yet made.
SaleInv ==
  /\ NoOrphanSale
  /\ \A t \in Threads :
       at[t].step \in {"sell", "link"} => /\ pockets[at[t].pocket].order = NoOrder
                                        /\ pockets[at[t].pocket].status # "none"
  /\ \A p \in PocketIds : pockets[p].status = "none" => pockets[p].order = NoOrder

Quietly ==
  /\ \A p \in PocketIds :
       /\ pockets'[p].order = pockets[p].order
       /\ pockets'[p].status = "none" => pockets[p].status = "none"
  /\ \A o \in Asks : orders'[o].state \in {"wait", "done"} => orders[o].state \in {"wait", "done"}

\* A step that links no order and leaves the thread elsewhere than in a sale.
LEMMA CalmStep ==
  ASSUME TypeInv, SaleInv, Threads = {MainLoop}, Quietly,
         \/ at' = at
         \/ at[MainLoop].step # "link" /\ at'[MainLoop].step \notin {"sell", "link"}
  PROVE  SaleInv'
<1>1. NoOrphanSale'
  <2> SUFFICES ASSUME NEW o \in Asks, orders'[o].state \in {"wait", "done"}
               PROVE  \/ \E p \in PocketIds : pockets'[p].order = o
                      \/ \E t \in Threads : at'[t].step = "link" /\ at'[t].order = o
    BY DEF NoOrphanSale, At
  <2>1. \/ \E p \in PocketIds : pockets[p].order = o
        \/ \E t \in Threads : at[t].step = "link" /\ at[t].order = o
    BY DEF Quietly, SaleInv, NoOrphanSale, At
  <2>. QED  BY <2>1 DEF Quietly
<1>2. \A t \in Threads :
        at'[t].step \in {"sell", "link"} => /\ pockets'[at'[t].pocket].order = NoOrder
                                          /\ pockets'[at'[t].pocket].status # "none"
  <2>1. at[MainLoop].step \in {"sell", "link"} => at[MainLoop].pocket \in PocketIds
    BY DEF TypeInv, WellFormed, PocketSteps
  <2>. QED  BY <2>1 DEF Quietly, SaleInv
<1>3. \A p \in PocketIds : pockets'[p].status = "none" => pockets'[p].order = NoOrder
  BY DEF Quietly, SaleInv
<1>. QED  BY <1>1, <1>2, <1>3 DEF SaleInv

LEMMA Same ==
  ASSUME UNCHANGED <<pockets, orders>>
  PROVE  Quietly
  BY DEF Quietly

LEMMA SetReasonSale ==
  ASSUME TypeInv, SaleInv, Threads = {MainLoop}, SetReason(MainLoop)
  PROVE  SaleInv'
<1>0. TypeOK /\ MainLoop \in Threads /\ at[MainLoop] \in Frame /\ WellFormed(MainLoop, at[MainLoop], pockets)
  BY DEF TypeInv, TypeOK
<1>1. PICK f : f = [at[MainLoop] EXCEPT !.step = "updated", !.then = "guard"]
  OBVIOUS
<1>2. f.step = "updated"
  BY <1>0, <1>1, SMT DEF Frame
<1>3. at'[MainLoop].step = "updated"
  BY <1>0, <1>1, <1>2, Moved DEF SetReason
<1>4. Quietly
  <2>1. at[MainLoop].pocket \in PocketIds
    BY <1>0 DEF SetReason, At, WellFormed, PocketSteps
  <2>. QED  BY <1>0, <2>1, Same DEF SetReason, Save, TypeOK
<1>5. at[MainLoop].step # "link"
  BY DEF SetReason, At
<1>. QED  BY <1>3, <1>4, <1>5, CalmStep

LEMMA MarkClosingSale ==
  ASSUME TypeInv, SaleInv, Threads = {MainLoop}, MarkClosing(MainLoop)
  PROVE  SaleInv'
<1>0. TypeOK /\ MainLoop \in Threads /\ at[MainLoop] \in Frame /\ WellFormed(MainLoop, at[MainLoop], pockets)
  BY DEF TypeInv, TypeOK
<1>1. PICK f : f = [at[MainLoop] EXCEPT !.step = "updated", !.then = "idle"]
  OBVIOUS
<1>2. f.step = "updated"
  BY <1>0, <1>1, SMT DEF Frame
<1>3. at'[MainLoop].step = "updated"
  BY <1>0, <1>1, <1>2, Moved DEF MarkClosing
<1>4. Quietly
  <2>1. PICK p, r : p = at[MainLoop].pocket /\ r = [pockets[p] EXCEPT !.status = "closing"]
    OBVIOUS
  <2>2. p \in PocketIds /\ pockets[p] \in Pocket /\ Save(p, r) /\ orders' = orders
    BY <1>0, <2>1 DEF MarkClosing, At, WellFormed, PocketSteps, TypeOK
  <2>3. r.order = pockets[p].order /\ r.status = "closing"
    BY <2>1, <2>2, SMT DEF Pocket
  <2>. QED  BY <1>0, <2>2, <2>3 DEF Quietly, Save, TypeOK
<1>5. at[MainLoop].step # "link"
  BY DEF MarkClosing, At
<1>. QED  BY <1>3, <1>4, <1>5, CalmStep

LEMMA ClosePocketSale ==
  ASSUME TypeInv, SaleInv, Threads = {MainLoop}, ClosePocket(MainLoop)
  PROVE  SaleInv'
<1>0. TypeOK /\ MainLoop \in Threads /\ at[MainLoop] \in Frame /\ WellFormed(MainLoop, at[MainLoop], pockets)
  BY DEF TypeInv, TypeOK
<1>1. at'[MainLoop].step \notin {"sell", "link"}
  <2>1. PICK f : f = [at[MainLoop] EXCEPT !.step = "closing"]
    OBVIOUS
  <2>2. f.step = "closing"
    BY <1>0, <2>1, SMT DEF Frame
  <2>3. Goto(MainLoop, f) \/ Goto(MainLoop, IdleFrame)
    BY <2>1 DEF ClosePocket, Return
  <2>4. IdleFrame.step = "idle"
    BY DEF IdleFrame
  <2>. QED  BY <1>0, <2>2, <2>3, <2>4, Moved
<1>2. Quietly
  BY Same DEF ClosePocket, dbVars
<1>3. at[MainLoop].step # "link"
  BY DEF ClosePocket, At
<1>. QED  BY <1>1, <1>2, <1>3, CalmStep

LEMMA OnPocketUpdatedSale ==
  ASSUME TypeInv, SaleInv, Threads = {MainLoop}, OnPocketUpdated(MainLoop)
  PROVE  SaleInv'
<1>0. TypeOK /\ MainLoop \in Threads /\ at[MainLoop] \in Frame /\ WellFormed(MainLoop, at[MainLoop], pockets)
  BY DEF TypeInv, TypeOK
<1>1. PICK f : f = [at[MainLoop] EXCEPT !.step = IF NeedsSale(at[MainLoop].pocket) THEN "sell" ELSE "cleanup"]
  OBVIOUS
<1>2. /\ f.step = "sell" => pockets[f.pocket].order = NoOrder /\ pockets[f.pocket].status # "none"
      /\ f.step # "link"
  BY <1>0, <1>1, SMT DEF Frame, NeedsSale
<1>3. at'[MainLoop] = f /\ at[MainLoop].step = "updated" /\ UNCHANGED <<pockets, orders>>
  BY <1>0, <1>1, Moved DEF OnPocketUpdated, At, dbVars
<1>. QED  BY <1>2, <1>3 DEF SaleInv, NoOrphanSale, At

LEMMA SellPocketSale ==
  ASSUME TypeInv, SaleInv, Threads = {MainLoop}, SellPocket(MainLoop)
  PROVE  SaleInv'
<1>0. TypeOK /\ MainLoop \in Threads /\ at[MainLoop] \in Frame /\ WellFormed(MainLoop, at[MainLoop], pockets)
  BY DEF TypeInv, TypeOK
<1>1. CASE Return(MainLoop) /\ UNCHANGED <<orders, coins>>
  <2>1. at'[MainLoop].step = "idle"
    BY <1>0, <1>1, IdleFrameType, Moved DEF Return, IdleFrame
  <2>2. Quietly /\ at[MainLoop].step = "sell"
    BY <1>1, Same DEF SellPocket, At
  <2>. QED  BY <2>1, <2>2, CalmStep
<1>2. CASE ~ (Return(MainLoop) /\ UNCHANGED <<orders, coins>>)
  <2>1. PICK o \in Asks : /\ NewOrder(o, pockets[at[MainLoop].pocket].volume)
                          /\ Goto(MainLoop, [at[MainLoop] EXCEPT !.step = "link", !.order = o])
    BY <1>2 DEF SellPocket
  <2>2. PICK f : f = [at[MainLoop] EXCEPT !.step = "link", !.order = o]
    OBVIOUS
  <2>3. f.step = "link" /\ f.order = o /\ f.pocket = at[MainLoop].pocket
    BY <1>0, <2>2, SMT DEF Frame
  <2>4. at'[MainLoop] = f /\ at[MainLoop].step = "sell" /\ pockets' = pockets
    BY <1>0, <2>1, <2>2, Moved DEF SellPocket, At
  <2>5. \A a \in Asks : a # o => orders'[a] = orders[a]
    BY <1>0, <2>1 DEF NewOrder, TypeOK, Orders
  <2>. QED  BY <2>3, <2>4, <2>5 DEF SaleInv, NoOrphanSale, At
<1>. QED  BY <1>1, <1>2

LEMMA LinkOrderSale ==
  ASSUME TypeInv, SaleInv, Threads = {MainLoop}, LinkOrder(MainLoop)
  PROVE  SaleInv'
<1>0. TypeOK /\ MainLoop \in Threads /\ at[MainLoop] \in Frame /\ WellFormed(MainLoop, at[MainLoop], pockets)
  BY DEF TypeInv, TypeOK
<1>1. PICK f : f = [at[MainLoop] EXCEPT !.step = "cleanup"]
  OBVIOUS
<1>2. f.step = "cleanup"
  BY <1>0, <1>1, SMT DEF Frame
<1>3. PICK p, r : p = at[MainLoop].pocket /\ r = [pockets[p] EXCEPT !.order = at[MainLoop].order]
  OBVIOUS
<1>4. /\ p \in PocketIds /\ pockets[p] \in Pocket /\ pockets[p].order = NoOrder /\ pockets[p].status # "none"
      /\ at[MainLoop].step = "link" /\ at[MainLoop].order \in Asks
      /\ Save(p, r) /\ orders' = orders /\ at'[MainLoop] = f
  BY <1>0, <1>1, <1>3, Moved DEF LinkOrder, At, WellFormed, PocketSteps, TypeOK, SaleInv
<1>5. r.order = at[MainLoop].order /\ r.status = pockets[p].status
  BY <1>3, <1>4, SMT DEF Pocket
<1>6. /\ pockets'[p] = r
      /\ \A q \in PocketIds : q # p => pockets'[q] = pockets[q]
  BY <1>0, <1>4 DEF Save, TypeOK
<1>7. ASSUME NEW o \in Asks, orders'[o].state \in {"wait", "done"}
      PROVE  \E q \in PocketIds : pockets'[q].order = o
  <2>1. CASE o = at[MainLoop].order
    BY <1>4, <1>5, <1>6, <2>1
  <2>2. CASE o # at[MainLoop].order
    <3>1. PICK q \in PocketIds : pockets[q].order = o
      BY <1>4, <1>7, <2>2 DEF SaleInv, NoOrphanSale, At
    <3>. QED  BY <1>4, <1>6, <3>1, PocketsAssumption DEF Orders
  <2>. QED  BY <2>1, <2>2
<1>8. NoOrphanSale'
  BY <1>7 DEF NoOrphanSale
<1>. QED  BY <1>2, <1>4, <1>5, <1>6, <1>8 DEF SaleInv

LEMMA CleanUpSale ==
  ASSUME TypeInv, SaleInv, Threads = {MainLoop}, CleanUp(MainLoop)
  PROVE  SaleInv'
<1>0. TypeOK /\ MainLoop \in Threads /\ at[MainLoop] \in Frame /\ WellFormed(MainLoop, at[MainLoop], pockets)
  BY DEF TypeInv, TypeOK
<1>1. at'[MainLoop].step \notin {"sell", "link"}
  <2>1. PICK f : f = [at[MainLoop] EXCEPT !.step = at[MainLoop].then]
    OBVIOUS
  <2>2. f.step = at[MainLoop].then /\ at[MainLoop].then \in {"idle", "guard", "match", "opened"}
    BY <1>0, <2>1, SMT DEF Frame, WellFormed
  <2>3. Goto(MainLoop, f) \/ Goto(MainLoop, IdleFrame)
    BY <2>1 DEF CleanUp, Return
  <2>4. IdleFrame.step = "idle"
    BY DEF IdleFrame
  <2>. QED  BY <1>0, <2>2, <2>3, <2>4, Moved
<1>2. Quietly
  BY Same DEF CleanUp, dbVars
<1>3. at[MainLoop].step # "link"
  BY DEF CleanUp, At
<1>. QED  BY <1>1, <1>2, <1>3, CalmStep

LEMMA CreatePocketSale ==
  ASSUME TypeInv, SaleInv, Threads = {MainLoop}, CreatePocket(MainLoop)
  PROVE  SaleInv'
<1>0. TypeOK /\ MainLoop \in Threads /\ at[MainLoop] \in Frame /\ WellFormed(MainLoop, at[MainLoop], pockets)
  BY DEF TypeInv, TypeOK
<1>1. PICK p \in PocketIds, e \in Entries :
        /\ pockets[p].status = "none"
        /\ Save(p, [status |-> "active", volume |-> orders[at[MainLoop].order].volume,
                    entry |-> e, order |-> NoOrder])
        /\ Goto(MainLoop, [IdleFrame EXCEPT !.step = "opened", !.new = p])
  BY DEF CreatePocket
<1>2. PICK f : f = [IdleFrame EXCEPT !.step = "opened", !.new = p]
  OBVIOUS
<1>3. f.step = "opened"
  BY <1>2 DEF IdleFrame
<1>4. at'[MainLoop] = f
  BY <1>0, <1>1, <1>2, Moved
<1>5. Quietly
  BY <1>0, <1>1 DEF CreatePocket, Quietly, Save, SaleInv, TypeOK
<1>6. at[MainLoop].step = "create"
  BY DEF CreatePocket, At
<1>. QED  BY <1>3, <1>4, <1>5, <1>6, CalmStep

LEMMA OnPocketCreatedSale ==
  ASSUME TypeInv, SaleInv, Threads = {MainLoop}, OnPocketCreated(MainLoop)
  PROVE  SaleInv'
<1>0. TypeOK /\ MainLoop \in Threads /\ at[MainLoop] \in Frame /\ WellFormed(MainLoop, at[MainLoop], pockets)
  BY DEF TypeInv, TypeOK
<1>1. at'[MainLoop].step \notin {"sell", "link"}
  BY <1>0, IdleFrameType, Moved DEF OnPocketCreated, Return, IdleFrame
<1>2. Quietly
  BY Same DEF OnPocketCreated, dbVars
<1>3. at[MainLoop].step # "link"
  BY DEF OnPocketCreated, At
<1>. QED  BY <1>1, <1>2, <1>3, CalmStep

LEMMA MarkClosedSale ==
  ASSUME TypeInv, SaleInv, Threads = {MainLoop}, MarkClosed(MainLoop)
  PROVE  SaleInv'
<1>0. TypeOK /\ MainLoop \in Threads /\ at[MainLoop] \in Frame /\ WellFormed(MainLoop, at[MainLoop], pockets)
  BY DEF TypeInv, TypeOK
<1>1. at'[MainLoop].step \notin {"sell", "link"}
  <2>1. PICK s : s = IF at[MainLoop].todo = {} /\ at[MainLoop].rest = 0 THEN "idle" ELSE "match"
    OBVIOUS
  <2>2. PICK f : f = [at[MainLoop] EXCEPT !.step = "updated", !.then = s]
    OBVIOUS
  <2>3. f.step = "updated"
    BY <1>0, <2>2, SMT DEF Frame
  <2>4. Goto(MainLoop, f)
    BY <2>1, <2>2 DEF MarkClosed
  <2>. QED  BY <1>0, <2>3, <2>4, Moved
<1>2. Quietly
  <2>1. PICK p, r : p = at[MainLoop].pocket /\ r = [pockets[p] EXCEPT !.status = "closed"]
    OBVIOUS
  <2>2. p \in PocketIds /\ pockets[p] \in Pocket /\ Save(p, r) /\ orders' = orders
    BY <1>0, <2>1 DEF MarkClosed, At, WellFormed, PocketSteps, TypeOK
  <2>3. r.order = pockets[p].order /\ r.status = "closed"
    BY <2>1, <2>2, SMT DEF Pocket
  <2>. QED  BY <1>0, <2>2, <2>3 DEF Quietly, Save, TypeOK
<1>3. at[MainLoop].step # "link"
  BY DEF MarkClosed, At
<1>. QED  BY <1>1, <1>2, <1>3, CalmStep

LEMMA MatchSaleSale ==
  ASSUME TypeInv, SaleInv, Threads = {MainLoop}, MatchSale(MainLoop)
  PROVE  SaleInv'
<1>0. TypeOK /\ MainLoop \in Threads /\ at[MainLoop] \in Frame /\ WellFormed(MainLoop, at[MainLoop], pockets)
  BY DEF TypeInv, TypeOK
<1>1. at'[MainLoop].step \notin {"sell", "link"}
  <2>1. CASE Return(MainLoop)
    BY <1>0, <2>1, IdleFrameType, Moved DEF Return, IdleFrame
  <2>2. CASE ~ Return(MainLoop)
    <3>1. PICK p \in at[MainLoop].todo :
            Goto(MainLoop, IF at[MainLoop].rest < pockets[p].volume
                    THEN [at[MainLoop] EXCEPT !.step = "split", !.pocket = p, !.todo = {}]
                    ELSE [at[MainLoop] EXCEPT !.step = IF p \in loaded /\ IsOpen(p)
                                                       THEN "closed" ELSE "match",
                                              !.pocket = p, !.todo = @ \ {p},
                                              !.rest = @ - pockets[p].volume])
      BY <2>2 DEF MatchSale
    <3>2. PICK s, ps, n : /\ s = (IF p \in loaded /\ IsOpen(p) THEN "closed" ELSE "match")
                          /\ ps = at[MainLoop].todo \ {p}
                          /\ n = at[MainLoop].rest - pockets[p].volume
      OBVIOUS
    <3>3. PICK f, g : /\ f = [at[MainLoop] EXCEPT !.step = "split", !.pocket = p, !.todo = {}]
                      /\ g = [at[MainLoop] EXCEPT !.step = s, !.pocket = p, !.todo = ps, !.rest = n]
      OBVIOUS
    <3>4. f.step = "split" /\ g.step \in {"closed", "match"}
      <4>1. s \in {"closed", "match"}
        BY <3>2
      <4>. QED  BY <1>0, <3>3, <4>1, SMT DEF Frame
    <3>5. Goto(MainLoop, f) \/ Goto(MainLoop, g)
      BY <3>1, <3>2, <3>3
    <3>. QED  BY <1>0, <3>4, <3>5, Moved
  <2>. QED  BY <2>1, <2>2
<1>2. Quietly
  BY Same DEF MatchSale, dbVars
<1>3. at[MainLoop].step # "link"
  BY DEF MatchSale, At
<1>. QED  BY <1>1, <1>2, <1>3, CalmStep

LEMMA SplitPocketSale ==
  ASSUME TypeInv, SaleInv, Threads = {MainLoop}, SplitPocket(MainLoop)
  PROVE  SaleInv'
<1>0. TypeOK /\ MainLoop \in Threads /\ at[MainLoop] \in Frame /\ WellFormed(MainLoop, at[MainLoop], pockets)
  BY DEF TypeInv, TypeOK
<1>1. at'[MainLoop].step \notin {"sell", "link"}
  <2>1. PICK f : f = [at[MainLoop] EXCEPT !.step = "copy", !.order = pockets[at[MainLoop].pocket].order]
    OBVIOUS
  <2>2. f.step = "copy"
    BY <1>0, <2>1, SMT DEF Frame
  <2>3. Goto(MainLoop, f)
    BY <2>1 DEF SplitPocket
  <2>. QED  BY <1>0, <2>2, <2>3, Moved
<1>2. Quietly
  <2>1. PICK p, n, r : /\ p = at[MainLoop].pocket /\ n = at[MainLoop].rest
                       /\ r = Remaining(p, n)
    OBVIOUS
  <2>2. p \in PocketIds /\ pockets[p] \in Pocket /\ Save(p, r) /\ orders' = orders
    BY <1>0, <2>1 DEF SplitPocket, At, WellFormed, PocketSteps, TypeOK
  <2>3. r.order = pockets[p].order /\ r.status = pockets[p].status
    BY <2>1, <2>2, SMT DEF Pocket, Remaining
  <2>. QED  BY <1>0, <2>2, <2>3 DEF Quietly, Save, TypeOK
<1>3. at[MainLoop].step # "link"
  BY DEF SplitPocket, At
<1>. QED  BY <1>1, <1>2, <1>3, CalmStep

LEMMA SaveCopySale ==
  ASSUME TypeInv, SaleInv, Threads = {MainLoop}, SaveCopy(MainLoop)
  PROVE  SaleInv'
<1>0. TypeOK /\ MainLoop \in Threads /\ at[MainLoop] \in Frame /\ WellFormed(MainLoop, at[MainLoop], pockets)
  BY DEF TypeInv, TypeOK
<1>1. PICK q \in PocketIds :
        /\ pockets[q].status = "none"
        /\ Save(q, [pockets[at[MainLoop].pocket] EXCEPT !.volume = at[MainLoop].rest,
                                                         !.status = "closed",
                                                         !.order = at[MainLoop].order])
        /\ Goto(MainLoop, [at[MainLoop] EXCEPT !.step = "updated", !.then = "opened",
                                                !.new = q, !.rest = 0])
  BY DEF SaveCopy
<1>2. PICK r, f : /\ r = [pockets[at[MainLoop].pocket] EXCEPT !.volume = at[MainLoop].rest,
                                                              !.status = "closed",
                                                              !.order = at[MainLoop].order]
                  /\ f = [at[MainLoop] EXCEPT !.step = "updated", !.then = "opened",
                                              !.new = q, !.rest = 0]
  OBVIOUS
<1>3. f.step = "updated"
  BY <1>0, <1>2, SMT DEF Frame
<1>4. r.status = "closed"
  <2>1. pockets[at[MainLoop].pocket] \in Pocket
    BY <1>0 DEF SaveCopy, At, WellFormed, PocketSteps, TypeOK
  <2>. QED  BY <1>2, <2>1, SMT DEF Pocket
<1>5. Save(q, r) /\ at'[MainLoop] = f /\ orders' = orders /\ at[MainLoop].step = "copy"
  BY <1>0, <1>1, <1>2, Moved DEF SaveCopy, At
<1>6. pockets'[q] = r /\ \A p \in PocketIds : p # q => pockets'[p] = pockets[p]
  BY <1>0, <1>5 DEF Save, TypeOK
<1>7. pockets[q].order = NoOrder
  BY <1>1 DEF SaleInv
<1>8. NoOrphanSale'
  <2> SUFFICES ASSUME NEW o \in Asks, orders'[o].state \in {"wait", "done"}
               PROVE  \E p \in PocketIds : pockets'[p].order = o
    BY DEF NoOrphanSale
  <2>1. PICK p \in PocketIds : pockets[p].order = o
    BY <1>5 DEF SaleInv, NoOrphanSale, At
  <2>. QED  BY <1>6, <1>7, <2>1, PocketsAssumption DEF Orders
<1>. QED  BY <1>3, <1>4, <1>5, <1>6, <1>8 DEF SaleInv

LEMMA ListTargetsSale ==
  ASSUME TypeInv, SaleInv, Threads = {MainLoop}, ListTargets(MainLoop)
  PROVE  SaleInv'
<1>0. TypeOK /\ MainLoop \in Threads /\ at[MainLoop] \in Frame /\ WellFormed(MainLoop, at[MainLoop], pockets)
  BY DEF TypeInv, TypeOK
<1>1. at'[MainLoop].step \notin {"sell", "link"}
  <2>1. PICK f : f = [at[MainLoop] EXCEPT !.step = "purge", !.todo = TargetsOf]
    OBVIOUS
  <2>2. f.step = "purge"
    BY <1>0, <2>1, SMT DEF Frame
  <2>3. Goto(MainLoop, f)
    BY <2>1 DEF ListTargets
  <2>. QED  BY <1>0, <2>2, <2>3, Moved
<1>2. Quietly
  BY Same DEF ListTargets, dbVars
<1>3. at[MainLoop].step # "link"
  BY DEF ListTargets, At
<1>. QED  BY <1>1, <1>2, <1>3, CalmStep

LEMMA ArchivePocketSale ==
  ASSUME TypeInv, SaleInv, Threads = {MainLoop}, ArchivePocket(MainLoop)
  PROVE  SaleInv'
<1>0. TypeOK /\ MainLoop \in Threads /\ at[MainLoop] \in Frame /\ WellFormed(MainLoop, at[MainLoop], pockets)
  BY DEF TypeInv, TypeOK
<1>1. at'[MainLoop].step \notin {"sell", "link"}
  <2>1. CASE Goto(MainLoop, [at[MainLoop] EXCEPT !.step = "sweep", !.todo = strategies])
    <3>1. PICK f : f = [at[MainLoop] EXCEPT !.step = "sweep", !.todo = strategies]
      OBVIOUS
    <3>2. f.step = "sweep"
      BY <1>0, <3>1, SMT DEF Frame
    <3>. QED  BY <1>0, <2>1, <3>1, <3>2, Moved
  <2>2. ASSUME NEW p \in at[MainLoop].todo,
               Goto(MainLoop, [at[MainLoop] EXCEPT !.step = IF p \in loaded THEN "purged" ELSE "purge",
                                                   !.pocket = p, !.todo = @ \ {p}])
        PROVE  at'[MainLoop].step \notin {"sell", "link"}
    <3>1. PICK s, ps : /\ s = (IF p \in loaded THEN "purged" ELSE "purge")
                       /\ ps = at[MainLoop].todo \ {p}
      OBVIOUS
    <3>2. PICK f : f = [at[MainLoop] EXCEPT !.step = s, !.pocket = p, !.todo = ps]
      OBVIOUS
    <3>3. f.step \in {"purged", "purge"}
      <4>1. s \in {"purged", "purge"}
        BY <3>1
      <4>. QED  BY <1>0, <3>2, <4>1, SMT DEF Frame
    <3>4. Goto(MainLoop, f)
      BY <2>2, <3>1, <3>2
    <3>. QED  BY <1>0, <3>3, <3>4, Moved
  <2>. QED  BY <2>1, <2>2 DEF ArchivePocket
<1>2. Quietly
  BY Same DEF ArchivePocket, dbVars
<1>3. at[MainLoop].step # "link"
  BY DEF ArchivePocket, At
<1>. QED  BY <1>1, <1>2, <1>3, CalmStep

LEMMA OnPocketDeletedSale ==
  ASSUME TypeInv, SaleInv, Threads = {MainLoop}, OnPocketDeleted(MainLoop)
  PROVE  SaleInv'
<1>0. TypeOK /\ MainLoop \in Threads /\ at[MainLoop] \in Frame /\ WellFormed(MainLoop, at[MainLoop], pockets)
  BY DEF TypeInv, TypeOK
<1>1. PICK f : f = [at[MainLoop] EXCEPT !.step = "purge"]
  OBVIOUS
<1>2. f.step = "purge"
  BY <1>0, <1>1, SMT DEF Frame
<1>3. at'[MainLoop].step = "purge"
  BY <1>0, <1>1, <1>2, Moved DEF OnPocketDeleted
<1>4. Quietly
  BY Same DEF OnPocketDeleted, dbVars
<1>5. at[MainLoop].step # "link"
  BY DEF OnPocketDeleted, At
<1>. QED  BY <1>3, <1>4, <1>5, CalmStep

LEMMA SweepStrategySale ==
  ASSUME TypeInv, SaleInv, Threads = {MainLoop}, SweepStrategy(MainLoop)
  PROVE  SaleInv'
<1>0. TypeOK /\ MainLoop \in Threads /\ at[MainLoop] \in Frame /\ WellFormed(MainLoop, at[MainLoop], pockets)
  BY DEF TypeInv, TypeOK
<1>1. at'[MainLoop].step \notin {"sell", "link"}
  <2>1. CASE Return(MainLoop)
    BY <1>0, <2>1, IdleFrameType, Moved DEF Return, IdleFrame
  <2>2. ASSUME NEW p \in at[MainLoop].todo, Goto(MainLoop, [at[MainLoop] EXCEPT !.todo = @ \ {p}])
        PROVE  at'[MainLoop].step \notin {"sell", "link"}
    <3>1. PICK ps, f : ps = at[MainLoop].todo \ {p} /\ f = [at[MainLoop] EXCEPT !.todo = ps]
      OBVIOUS
    <3>2. f.step = at[MainLoop].step /\ at[MainLoop].step = "sweep"
      BY <1>0, <3>1, SMT DEF Frame, SweepStrategy, At
    <3>3. Goto(MainLoop, f)
      BY <2>2, <3>1
    <3>. QED  BY <1>0, <3>2, <3>3, Moved
  <2>. QED  BY <2>1, <2>2 DEF SweepStrategy
<1>2. Quietly
  BY Same DEF SweepStrategy, dbVars
<1>3. at[MainLoop].step # "link"
  BY DEF SweepStrategy, At
<1>. QED  BY <1>1, <1>2, <1>3, CalmStep

LEMMA BuySale ==
  ASSUME TypeInv, SaleInv, Threads = {MainLoop}, Buy(MainLoop)
  PROVE  SaleInv'
<1>0. TypeOK /\ MainLoop \in Threads /\ at[MainLoop] \in Frame /\ WellFormed(MainLoop, at[MainLoop], pockets)
  BY DEF TypeInv, TypeOK
<1>1. at'[MainLoop].step \notin {"sell", "link"}
  BY <1>0 DEF Buy, Idle, memVars
<1>2. Quietly
  <2>1. PICK o \in Bids, v \in Volumes : NewOrder(o, v)
    BY DEF Buy
  <2>2. \A a \in Asks : orders'[a] = orders[a]
    BY <1>0, <2>1, PocketsAssumption DEF NewOrder, TypeOK, Orders
  <2>. QED  BY <2>2 DEF Quietly, Buy
<1>3. at[MainLoop].step # "link"
  BY DEF Buy, Idle
<1>. QED  BY <1>1, <1>2, <1>3, CalmStep

LEMMA CancelSale ==
  ASSUME TypeInv, SaleInv, Threads = {MainLoop}, Cancel(MainLoop)
  PROVE  SaleInv'
<1>0. TypeOK /\ MainLoop \in Threads /\ at[MainLoop] \in Frame /\ WellFormed(MainLoop, at[MainLoop], pockets)
  BY DEF TypeInv, TypeOK
<1>1. at'[MainLoop].step \notin {"sell", "link"}
  BY <1>0 DEF Cancel, Idle, memVars
<1>2. Quietly
  <2>1. PICK o \in Orders : orders' = [orders EXCEPT ![o].state = "cancel"]
    BY DEF Cancel
  <2>2. \A a \in Asks : /\ orders[a] \in Order
                        /\ orders'[a] = IF a = o THEN [orders[a] EXCEPT !.state = "cancel"] ELSE orders[a]
    BY <1>0, <2>1 DEF TypeOK, Orders
  <2>3. \A a \in Asks : orders'[a].state \in {"wait", "done"} => orders'[a] = orders[a]
    BY <2>2 DEF Order
  <2>. QED  BY <2>3 DEF Quietly, Cancel
<1>3. at[MainLoop].step # "link"
  BY DEF Cancel, Idle
<1>. QED  BY <1>1, <1>2, <1>3, CalmStep

LEMMA SignalSale ==
  ASSUME TypeInv, SaleInv, Threads = {MainLoop}, NEW p \in PocketIds, Signal(p)
  PROVE  SaleInv'
<1>1. Quietly /\ at' = at
  BY Same DEF Signal, dbVars
<1>. QED  BY <1>1, CalmStep

LEMMA ExecuteSale ==
  ASSUME TypeInv, SaleInv, Threads = {MainLoop}, NEW o \in Orders, Execute(o)
  PROVE  SaleInv'
<1>1. \A a \in Asks : orders'[a].state \in {"wait", "done"} => orders[a].state \in {"wait", "done"}
  BY DEF Execute, TypeInv, TypeOK, Orders
<1>2. Quietly /\ at' = at
  BY <1>1 DEF Execute, Quietly
<1>. QED  BY <1>2, CalmStep

LEMMA TakeTaskSale ==
  ASSUME TypeInv, SaleInv, Threads = {MainLoop}, TakeTask
  PROVE  SaleInv'
<1>0. TypeOK /\ MainLoop \in Threads
  BY DEF TypeInv
<1> DEFINE task == Head(queue)
<1>1. Quietly /\ at[MainLoop].step = "idle"
  BY Same DEF TakeTask, Idle, dbVars
<1>2. BeginClose(MainLoop, task.pocket) \/ FillBid(task.order) \/ FillAsk(task.order)
  BY DEF TakeTask
<1>3. ASSUME NEW f, Goto(MainLoop, f), f.step \in {"reason", "create", "closed", "match"}
      PROVE  at'[MainLoop].step \notin {"sell", "link"}
  BY <1>0, <1>3, Moved
<1>4. at' = at \/ at'[MainLoop].step \notin {"sell", "link"}
  <2>1. CASE BeginClose(MainLoop, task.pocket)
    <3>1. PICK f : f = [IdleFrame EXCEPT !.step = "reason", !.pocket = task.pocket]
      OBVIOUS
    <3>2. f.step = "reason"
      BY <3>1 DEF IdleFrame
    <3>. QED  BY <1>3, <2>1, <3>1, <3>2 DEF BeginClose
  <2>2. CASE FillBid(task.order)
    <3>1. PICK f : f = [IdleFrame EXCEPT !.step = "create", !.order = task.order]
      OBVIOUS
    <3>2. f.step = "create"
      BY <3>1 DEF IdleFrame
    <3>. QED  BY <1>3, <2>2, <3>1, <3>2 DEF FillBid
  <2>3. CASE FillAsk(task.order)
    <3>1. CASE \E p \in LinkedTo(task.order) :
                 Goto(MainLoop, [IdleFrame EXCEPT !.step = "closed", !.pocket = p])
      <4>1. PICK p : Goto(MainLoop, [IdleFrame EXCEPT !.step = "closed", !.pocket = p])
        BY <3>1
      <4>2. PICK f : f = [IdleFrame EXCEPT !.step = "closed", !.pocket = p]
        OBVIOUS
      <4>3. f.step = "closed"
        BY <4>2 DEF IdleFrame
      <4>. QED  BY <1>3, <4>1, <4>2, <4>3
    <3>2. CASE Goto(MainLoop, [IdleFrame EXCEPT !.step = "match", !.todo = TargetsOf,
                                                !.rest = orders[task.order].volume])
      <4>1. PICK ps, n : ps = TargetsOf /\ n = orders[task.order].volume
        OBVIOUS
      <4>2. PICK f : f = [IdleFrame EXCEPT !.step = "match", !.todo = ps, !.rest = n]
        OBVIOUS
      <4>3. f.step = "match"
        BY <4>2 DEF IdleFrame
      <4>. QED  BY <1>3, <3>2, <4>1, <4>2, <4>3
    <3>. QED  BY <2>3, <3>1, <3>2 DEF FillAsk
  <2>. QED  BY <1>2, <2>1, <2>2, <2>3
<1>. QED  BY <1>1, <1>4, CalmStep

LEMMA SaleStep ==
  ASSUME Threads = {MainLoop}, ManualSales = FALSE, MayCrash = FALSE
  PROVE  TypeInv /\ SaleInv /\ [Next]_vars => SaleInv'
<1> SUFFICES ASSUME TypeInv, SaleInv, [Next]_vars
             PROVE  SaleInv'
  OBVIOUS
<1>1. ASSUME Command(MainLoop)
      PROVE  SaleInv'
  BY <1>1, BuySale, CancelSale DEF Command, Sell, SellAll, ToolClose
<1>2. ASSUME Continue(MainLoop)
      PROVE  SaleInv'
  BY <1>2, SetReasonSale, ClosePocketSale, MarkClosingSale, OnPocketUpdatedSale, SellPocketSale,
     LinkOrderSale, CleanUpSale, CreatePocketSale, OnPocketCreatedSale, MarkClosedSale,
     MatchSaleSale, SplitPocketSale, SaveCopySale, ListTargetsSale, ArchivePocketSale,
     OnPocketDeletedSale, SweepStrategySale DEF Continue
<1>3. CASE UNCHANGED vars
  <2>1. Quietly /\ at' = at
    BY <1>3, Same DEF vars, dbVars, memVars
  <2>. QED  BY <2>1, CalmStep
<1>. QED  BY <1>1, <1>2, <1>3, SignalSale, ExecuteSale, TakeTaskSale DEF Next, Crash

\* Signals repeat while a sale waits, orders are cancelled, sales fail: one
\* thread that does not crash still never sells a pocket a second time.
\* (on_pocket_updated's check of close_order_id.)
THEOREM OneThreadSellsOnce ==
  ASSUME Threads = {MainLoop}, ManualSales = FALSE, MayCrash = FALSE
  PROVE  Spec => []NoOrphanSale
<1>1. Init => TypeInv /\ SaleInv
  <2>1. Init => TypeInv
    BY TypeInit DEF Init, TypeInv, WellFormed, IdleFrame, PocketSteps, MainSteps
  <2>2. Init => SaleInv
    BY DEF Init, SaleInv, NoOrphanSale, NoRow, IdleFrame, Orders
  <2>. QED  BY <2>1, <2>2
<1>2. TypeInv /\ SaleInv /\ [Next]_vars => (TypeInv /\ SaleInv)'
  BY TypeStep, SaleStep
<1>3. SaleInv => NoOrphanSale
  BY DEF SaleInv
<1>. QED  BY <1>1, <1>2, <1>3, PTL DEF Spec

----------------------------------------------------------------------------
(* No buy is lost and none is counted twice, with any threads, whatever is  *)
(* sold by hand.  Pockets, queued fills and fills in progress are four      *)
(* sums; a step moves volume from one summand to another.                   *)

Waits(q, o) == \E i \in DOMAIN q : q[i] = [kind |-> "fill", order |-> o]
QueuedOf(q, rows, o) == IF Waits(q, o) THEN rows[o].volume ELSE 0
DoneOf(rows, o) == IF rows[o].state = "done" THEN rows[o].volume ELSE 0
CreatingOf(f, rows) == IF f.step = "create" THEN rows[f.order].volume ELSE 0
CopyingOf(f) == IF f.step = "copy" THEN f.rest ELSE 0

PocketSum(rows) == SumFunctionOnSet([p \in PocketIds |-> rows[p].volume], PocketIds)
QueuedSum(q, rows) == SumFunctionOnSet([o \in Bids |-> QueuedOf(q, rows, o)], Bids)
DoneSum(rows) == SumFunctionOnSet([o \in Bids |-> DoneOf(rows, o)], Bids)
CreatingSum(frames, rows) ==
  SumFunctionOnSet([t \in Threads |-> CreatingOf(frames[t], rows)], Threads)
CopyingSum(frames) == SumFunctionOnSet([t \in Threads |-> CopyingOf(frames[t])], Threads)

Frames == {f \in Frame : f.step = "create" => f.order \in Bids}

LEMMA VolumesNat ==
  ASSUME NEW rows \in [Orders -> Order]
  PROVE  /\ \A q : \A o \in Bids : QueuedOf(q, rows, o) \in Nat
         /\ \A o \in Bids : DoneOf(rows, o) \in Nat
         /\ \A f \in Frames : CreatingOf(f, rows) \in Nat
         /\ \A f \in Frame : CopyingOf(f) \in Nat
<1>1. \A o \in Bids : rows[o].volume \in Nat
  BY DEF Orders, Order
<1>2. ASSUME NEW q, NEW o \in Bids PROVE QueuedOf(q, rows, o) \in Nat /\ DoneOf(rows, o) \in Nat
  BY <1>1 DEF QueuedOf, DoneOf
<1>3. \A f \in Frames : CreatingOf(f, rows) \in Nat
  BY <1>1 DEF CreatingOf, Frames
<1>4. \A f \in Frame : CopyingOf(f) \in Nat
  BY DEF CopyingOf, Frame
<1>. QED  BY <1>2, <1>3, <1>4

LEMMA SumsNat ==
  ASSUME NEW ps \in [PocketIds -> Pocket], NEW rows \in [Orders -> Order], NEW q,
         NEW frames \in [Threads -> Frames]
  PROVE  /\ PocketSum(ps) \in Nat /\ QueuedSum(q, rows) \in Nat /\ DoneSum(rows) \in Nat
         /\ CreatingSum(frames, rows) \in Nat /\ CopyingSum(frames) \in Nat
<1>1. PocketSum(ps) \in Nat
  <2> DEFINE f == [p \in PocketIds |-> ps[p].volume]
  <2>1. \A p \in PocketIds : f[p] \in Nat
    BY DEF Pocket
  <2>2. SumFunctionOnSet(f, PocketIds) \in Nat
    <3> HIDE DEF f
    <3>. QED  BY <2>1, FiniteAssumption, SumNat
  <2>. QED  BY <2>2 DEF PocketSum
<1>2. QueuedSum(q, rows) \in Nat
  <2> DEFINE f == [o \in Bids |-> QueuedOf(q, rows, o)]
  <2>1. \A o \in Bids : f[o] \in Nat
    BY VolumesNat
  <2>2. SumFunctionOnSet(f, Bids) \in Nat
    <3> HIDE DEF f
    <3>. QED  BY <2>1, FiniteAssumption, SumNat
  <2>. QED  BY <2>2 DEF QueuedSum
<1>3. DoneSum(rows) \in Nat
  <2> DEFINE f == [o \in Bids |-> DoneOf(rows, o)]
  <2>1. \A o \in Bids : f[o] \in Nat
    BY VolumesNat
  <2>2. SumFunctionOnSet(f, Bids) \in Nat
    <3> HIDE DEF f
    <3>. QED  BY <2>1, FiniteAssumption, SumNat
  <2>. QED  BY <2>2 DEF DoneSum
<1>4. CreatingSum(frames, rows) \in Nat
  <2> DEFINE f == [t \in Threads |-> CreatingOf(frames[t], rows)]
  <2>1. \A t \in Threads : f[t] \in Nat
    BY VolumesNat
  <2>2. SumFunctionOnSet(f, Threads) \in Nat
    <3> HIDE DEF f
    <3>. QED  BY <2>1, FiniteAssumption, SumNat
  <2>. QED  BY <2>2 DEF CreatingSum
<1>5. CopyingSum(frames) \in Nat
  <2> DEFINE f == [t \in Threads |-> CopyingOf(frames[t])]
  <2>1. \A t \in Threads : f[t] \in Nat
    <3>1. \A t \in Threads : frames[t] \in Frame
      BY DEF Frames
    <3>. QED  BY <3>1, VolumesNat
  <2>2. SumFunctionOnSet(f, Threads) \in Nat
    <3> HIDE DEF f
    <3>. QED  BY <2>1, FiniteAssumption, SumNat
  <2>. QED  BY <2>2 DEF CopyingSum
<1>. QED  BY <1>1, <1>2, <1>3, <1>4, <1>5

\* The sums, when one summand changes.
LEMMA PocketChange ==
  ASSUME NEW ps \in [PocketIds -> Pocket], NEW ps2 \in [PocketIds -> Pocket], NEW p \in PocketIds,
         \A r \in PocketIds \ {p} : ps2[r].volume = ps[r].volume
  PROVE  PocketSum(ps2) = PocketSum(ps) - ps[p].volume + ps2[p].volume
<1> DEFINE f == [r \in PocketIds |-> ps[r].volume]
           g == [r \in PocketIds |-> ps2[r].volume]
<1>1. \A r \in PocketIds : f[r] \in Int /\ g[r] \in Int
  BY DEF Pocket
<1>2. f[p] = ps[p].volume /\ g[p] = ps2[p].volume /\ \A r \in PocketIds \ {p} : f[r] = g[r]
  OBVIOUS
<1>3. SumFunctionOnSet(g, PocketIds) = SumFunctionOnSet(f, PocketIds) - f[p] + g[p]
  <2> HIDE DEF f, g
  <2>. QED  BY <1>1, <1>2, FiniteAssumption, SumChange
<1>. QED  BY <1>2, <1>3 DEF PocketSum

LEMMA QueuedChange ==
  ASSUME NEW q, NEW q2, NEW rows \in [Orders -> Order], NEW rows2 \in [Orders -> Order], NEW o \in Bids,
         \A b \in Bids \ {o} : QueuedOf(q2, rows2, b) = QueuedOf(q, rows, b)
  PROVE  QueuedSum(q2, rows2) = QueuedSum(q, rows) - QueuedOf(q, rows, o) + QueuedOf(q2, rows2, o)
<1> DEFINE f == [b \in Bids |-> QueuedOf(q, rows, b)]
           g == [b \in Bids |-> QueuedOf(q2, rows2, b)]
<1>1. \A b \in Bids : f[b] \in Int /\ g[b] \in Int
  BY VolumesNat
<1>2. /\ f[o] = QueuedOf(q, rows, o) /\ g[o] = QueuedOf(q2, rows2, o)
      /\ \A b \in Bids \ {o} : f[b] = g[b]
  OBVIOUS
<1>3. SumFunctionOnSet(g, Bids) = SumFunctionOnSet(f, Bids) - f[o] + g[o]
  <2> HIDE DEF f, g
  <2>. QED  BY <1>1, <1>2, FiniteAssumption, SumChange
<1>. QED  BY <1>2, <1>3 DEF QueuedSum

LEMMA DoneChange ==
  ASSUME NEW rows \in [Orders -> Order], NEW rows2 \in [Orders -> Order], NEW o \in Bids,
         \A b \in Bids \ {o} : DoneOf(rows2, b) = DoneOf(rows, b)
  PROVE  DoneSum(rows2) = DoneSum(rows) - DoneOf(rows, o) + DoneOf(rows2, o)
<1> DEFINE f == [b \in Bids |-> DoneOf(rows, b)]
           g == [b \in Bids |-> DoneOf(rows2, b)]
<1>1. \A b \in Bids : f[b] \in Int /\ g[b] \in Int
  BY VolumesNat
<1>2. f[o] = DoneOf(rows, o) /\ g[o] = DoneOf(rows2, o) /\ \A b \in Bids \ {o} : f[b] = g[b]
  OBVIOUS
<1>3. SumFunctionOnSet(g, Bids) = SumFunctionOnSet(f, Bids) - f[o] + g[o]
  <2> HIDE DEF f, g
  <2>. QED  BY <1>1, <1>2, FiniteAssumption, SumChange
<1>. QED  BY <1>2, <1>3 DEF DoneSum

LEMMA FrameChange ==
  ASSUME NEW fs \in [Threads -> Frames], NEW fs2 \in [Threads -> Frames],
         NEW rows \in [Orders -> Order], NEW t \in Threads,
         \A u \in Threads \ {t} : fs2[u] = fs[u]
  PROVE  /\ CreatingSum(fs2, rows)
               = CreatingSum(fs, rows) - CreatingOf(fs[t], rows) + CreatingOf(fs2[t], rows)
         /\ CopyingSum(fs2) = CopyingSum(fs) - CopyingOf(fs[t]) + CopyingOf(fs2[t])
<1>0. \A u \in Threads : fs[u] \in Frame /\ fs2[u] \in Frame
  BY DEF Frames
<1>1. CreatingSum(fs2, rows)
        = CreatingSum(fs, rows) - CreatingOf(fs[t], rows) + CreatingOf(fs2[t], rows)
  <2> DEFINE f == [u \in Threads |-> CreatingOf(fs[u], rows)]
             g == [u \in Threads |-> CreatingOf(fs2[u], rows)]
  <2>1. \A u \in Threads : f[u] \in Int /\ g[u] \in Int
    BY VolumesNat
  <2>2. /\ f[t] = CreatingOf(fs[t], rows) /\ g[t] = CreatingOf(fs2[t], rows)
        /\ \A u \in Threads \ {t} : f[u] = g[u]
    OBVIOUS
  <2>3. SumFunctionOnSet(g, Threads) = SumFunctionOnSet(f, Threads) - f[t] + g[t]
    <3> HIDE DEF f, g
    <3>. QED  BY <2>1, <2>2, FiniteAssumption, SumChange
  <2>. QED  BY <2>2, <2>3 DEF CreatingSum
<1>2. CopyingSum(fs2) = CopyingSum(fs) - CopyingOf(fs[t]) + CopyingOf(fs2[t])
  <2> DEFINE f == [u \in Threads |-> CopyingOf(fs[u])]
             g == [u \in Threads |-> CopyingOf(fs2[u])]
  <2>1. \A u \in Threads : f[u] \in Int /\ g[u] \in Int
    BY <1>0, VolumesNat
  <2>2. /\ f[t] = CopyingOf(fs[t]) /\ g[t] = CopyingOf(fs2[t])
        /\ \A u \in Threads \ {t} : f[u] = g[u]
    OBVIOUS
  <2>3. SumFunctionOnSet(g, Threads) = SumFunctionOnSet(f, Threads) - f[t] + g[t]
    <3> HIDE DEF f, g
    <3>. QED  BY <2>1, <2>2, FiniteAssumption, SumChange
  <2>. QED  BY <2>2, <2>3 DEF CopyingSum
<1>. QED  BY <1>1, <1>2

\* What is bought is in pockets, queued, being created or being split off; the
\* rest has been lost.
Balance == PocketSum(pockets) + QueuedSum(queue, orders)
             + CreatingSum(at, orders) + CopyingSum(at) - DoneSum(orders)

\* A queued fill is of an order that is done and queued once, as an order fills
\* only while it waits; what is created was filled; an id not yet used holds nothing.
FillOf(q, i) == q[i].kind = "fill"
QueueInv(q, rows) ==
  \A i \in DOMAIN q :
    FillOf(q, i) => /\ rows[q[i].order].state = "done"
                    /\ \A j \in DOMAIN q : FillOf(q, j) /\ q[j].order = q[i].order => i = j
FlowInv ==
  /\ \A p \in PocketIds : pockets[p].status = "none" => pockets[p].volume = 0
  /\ QueueInv(queue, orders)
  /\ \A t \in Threads : At(t, "create") => orders[at[t].order].state = "done"

Owed == Balance <= 0 /\ (MayCrash = FALSE => Balance = 0)

\* A calm step moves no volume.
Busy == {"create", "copy"}
CalmPockets ==
  \A p \in PocketIds : /\ pockets'[p].volume = pockets[p].volume
                       /\ pockets'[p].status = "none" => pockets[p].status = "none"
CalmOrders ==
  /\ \A o \in Orders : orders[o].state = "done" => orders'[o] = orders[o]
  /\ \A o \in Bids : orders'[o].state = "done" => orders[o].state = "done"
CalmFrames ==
  \A t \in Threads : at'[t] = at[t] \/ (at[t].step \notin Busy /\ at'[t].step \notin Busy)

LEMMA FramesType ==
  ASSUME TypeInv
  PROVE  at \in [Threads -> Frames]
  BY DEF TypeInv, TypeOK, WellFormed, Frames

\* The fills that wait, before and after the queue changes.
LEMMA AppendWaits ==
  ASSUME NEW q \in Seq(Task), NEW x \in Task, NEW o
  PROVE  Waits(Append(q, x), o) <=> Waits(q, o) \/ x = [kind |-> "fill", order |-> o]
<1>1. /\ DOMAIN q = 1..Len(q) /\ Len(q) \in Nat /\ DOMAIN Append(q, x) = 1..(Len(q) + 1)
      /\ \A i \in 1..Len(q) : Append(q, x)[i] = q[i]
      /\ Append(q, x)[Len(q) + 1] = x
  OBVIOUS
<1>. QED  BY <1>1 DEF Waits

LEMMA TailWaits ==
  ASSUME NEW q \in Seq(Task), q # <<>>, NEW o
  PROVE  Waits(q, o) <=> Waits(Tail(q), o) \/ Head(q) = [kind |-> "fill", order |-> o]
<1>1. /\ DOMAIN q = 1..Len(q) /\ Len(q) \in Nat /\ Len(q) > 0
      /\ DOMAIN Tail(q) = 1..(Len(q) - 1)
      /\ \A i \in 1..(Len(q) - 1) : Tail(q)[i] = q[i + 1]
      /\ Head(q) = q[1]
  OBVIOUS
<1>2. ASSUME NEW i \in 1..Len(q), i # 1, q[i] = [kind |-> "fill", order |-> o]
      PROVE  Waits(Tail(q), o)
  <2>1. i - 1 \in 1..(Len(q) - 1) /\ Tail(q)[i - 1] = q[i]
    BY <1>1, <1>2
  <2>. QED  BY <1>1, <1>2, <2>1 DEF Waits
<1>3. ASSUME NEW i \in 1..(Len(q) - 1), Tail(q)[i] = [kind |-> "fill", order |-> o]
      PROVE  Waits(q, o)
  <2>1. i + 1 \in 1..Len(q) /\ Tail(q)[i] = q[i + 1]
    BY <1>1
  <2>. QED  BY <1>1, <1>3, <2>1 DEF Waits
<1>. QED  BY <1>1, <1>2, <1>3 DEF Waits

\* Sums over rows, queues and frames that agree.
LEMMA PocketSame ==
  ASSUME NEW ps \in [PocketIds -> Pocket], NEW ps2,
         \A p \in PocketIds : ps2[p].volume = ps[p].volume
  PROVE  PocketSum(ps2) = PocketSum(ps)
<1> DEFINE f == [p \in PocketIds |-> ps[p].volume]
           g == [p \in PocketIds |-> ps2[p].volume]
<1>1. \A p \in PocketIds : f[p] \in Int /\ f[p] = g[p]
  BY DEF Pocket
<1>2. SumFunctionOnSet(f, PocketIds) = SumFunctionOnSet(g, PocketIds)
  <2> HIDE DEF f, g
  <2>. QED  BY <1>1, FiniteAssumption, SumSame
<1>. QED  BY <1>2 DEF PocketSum

LEMMA QueuedSame ==
  ASSUME NEW q, NEW rows \in [Orders -> Order], NEW q2, NEW rows2,
         \A o \in Bids : QueuedOf(q2, rows2, o) = QueuedOf(q, rows, o)
  PROVE  QueuedSum(q2, rows2) = QueuedSum(q, rows)
<1> DEFINE f == [o \in Bids |-> QueuedOf(q, rows, o)]
           g == [o \in Bids |-> QueuedOf(q2, rows2, o)]
<1>1. \A o \in Bids : f[o] \in Int /\ f[o] = g[o]
  BY VolumesNat
<1>2. SumFunctionOnSet(f, Bids) = SumFunctionOnSet(g, Bids)
  <2> HIDE DEF f, g
  <2>. QED  BY <1>1, FiniteAssumption, SumSame
<1>. QED  BY <1>2 DEF QueuedSum

LEMMA DoneSame ==
  ASSUME NEW rows \in [Orders -> Order], NEW rows2, \A o \in Bids : DoneOf(rows2, o) = DoneOf(rows, o)
  PROVE  DoneSum(rows2) = DoneSum(rows)
<1> DEFINE f == [o \in Bids |-> DoneOf(rows, o)]
           g == [o \in Bids |-> DoneOf(rows2, o)]
<1>1. \A o \in Bids : f[o] \in Int /\ f[o] = g[o]
  BY VolumesNat
<1>2. SumFunctionOnSet(f, Bids) = SumFunctionOnSet(g, Bids)
  <2> HIDE DEF f, g
  <2>. QED  BY <1>1, FiniteAssumption, SumSame
<1>. QED  BY <1>2 DEF DoneSum

LEMMA CreatingSame ==
  ASSUME NEW fs \in [Threads -> Frames], NEW fs2, NEW rows \in [Orders -> Order], NEW rows2,
         \A t \in Threads : CreatingOf(fs2[t], rows2) = CreatingOf(fs[t], rows)
  PROVE  CreatingSum(fs2, rows2) = CreatingSum(fs, rows)
<1> DEFINE f == [t \in Threads |-> CreatingOf(fs[t], rows)]
           g == [t \in Threads |-> CreatingOf(fs2[t], rows2)]
<1>1. \A t \in Threads : f[t] \in Int /\ f[t] = g[t]
  BY VolumesNat
<1>2. SumFunctionOnSet(f, Threads) = SumFunctionOnSet(g, Threads)
  <2> HIDE DEF f, g
  <2>. QED  BY <1>1, FiniteAssumption, SumSame
<1>. QED  BY <1>2 DEF CreatingSum

LEMMA CopyingSame ==
  ASSUME NEW fs \in [Threads -> Frames], NEW fs2, \A t \in Threads : CopyingOf(fs2[t]) = CopyingOf(fs[t])
  PROVE  CopyingSum(fs2) = CopyingSum(fs)
<1> DEFINE f == [t \in Threads |-> CopyingOf(fs[t])]
           g == [t \in Threads |-> CopyingOf(fs2[t])]
<1>1. \A t \in Threads : f[t] \in Int /\ f[t] = g[t]
  <2>1. \A t \in Threads : fs[t] \in Frame
    BY DEF Frames
  <2>2. \A x \in Frame : CopyingOf(x) \in Nat
    BY DEF CopyingOf, Frame
  <2>. QED  BY <2>1, <2>2
<1>2. SumFunctionOnSet(f, Threads) = SumFunctionOnSet(g, Threads)
  <2> HIDE DEF f, g
  <2>. QED  BY <1>1, FiniteAssumption, SumSame
<1>. QED  BY <1>2 DEF CopyingSum

\* The balance is a number, whose summands are counted together.
LEMMA BalanceParts ==
  ASSUME TypeInv
  PROVE  /\ PocketSum(pockets) \in Nat /\ QueuedSum(queue, orders) \in Nat
         /\ DoneSum(orders) \in Nat /\ CreatingSum(at, orders) \in Nat /\ CopyingSum(at) \in Nat
  BY FramesType, SumsNat DEF TypeInv, TypeOK

\* The queue's part of the invariant, as the queue and the orders change.
LEMMA QueueSame ==
  ASSUME TypeInv, FlowInv, CalmOrders
  PROVE  QueueInv(queue, orders')
<1>1. ASSUME NEW i \in DOMAIN queue, FillOf(queue, i)
      PROVE  orders'[queue[i].order].state = "done"
  <2>1. queue[i] \in Task
    BY DEF TypeInv, TypeOK
  <2>2. queue[i].order \in Orders
    BY <1>1, <2>1 DEF Task, FillOf
  <2>3. orders[queue[i].order].state = "done"
    BY <1>1 DEF FlowInv, QueueInv
  <2>. QED  BY <2>2, <2>3 DEF CalmOrders
<1>. QED  BY <1>1 DEF FlowInv, QueueInv

LEMMA QueueTail ==
  ASSUME NEW rows, NEW q \in Seq(Task), q # <<>>, QueueInv(q, rows)
  PROVE  QueueInv(Tail(q), rows)
<1>1. /\ DOMAIN q = 1..Len(q) /\ Len(q) \in Nat
      /\ DOMAIN Tail(q) = 1..(Len(q) - 1)
      /\ \A i \in 1..(Len(q) - 1) : Tail(q)[i] = q[i + 1]
  OBVIOUS
<1>2. ASSUME NEW i \in 1..(Len(q) - 1), FillOf(Tail(q), i)
      PROVE  /\ rows[Tail(q)[i].order].state = "done"
             /\ \A j \in 1..(Len(q) - 1) :
                  FillOf(Tail(q), j) /\ Tail(q)[j].order = Tail(q)[i].order => i = j
  <2>1. i + 1 \in DOMAIN q /\ FillOf(q, i + 1) /\ Tail(q)[i] = q[i + 1]
    BY <1>1, <1>2 DEF FillOf
  <2>2. ASSUME NEW j \in 1..(Len(q) - 1), FillOf(Tail(q), j), Tail(q)[j].order = Tail(q)[i].order
        PROVE  i = j
    <3>1. j + 1 \in DOMAIN q /\ FillOf(q, j + 1) /\ q[j + 1].order = q[i + 1].order
      BY <1>1, <2>1, <2>2 DEF FillOf
    <3>2. i + 1 = j + 1
      BY <2>1, <3>1 DEF QueueInv
    <3>. QED  BY <3>2
  <2>. QED  BY <2>1, <2>2 DEF QueueInv
<1>. QED  BY <1>1, <1>2 DEF QueueInv

LEMMA QueueAppend ==
  ASSUME NEW rows, NEW q \in Seq(Task), QueueInv(q, rows), NEW x \in Task,
         x.kind = "fill" => /\ rows[x.order].state = "done"
                            /\ \A i \in DOMAIN q : FillOf(q, i) => q[i].order # x.order
  PROVE  QueueInv(Append(q, x), rows)
<1>1. /\ DOMAIN q = 1..Len(q) /\ Len(q) \in Nat /\ DOMAIN Append(q, x) = 1..(Len(q) + 1)
      /\ \A i \in 1..Len(q) : Append(q, x)[i] = q[i]
      /\ Append(q, x)[Len(q) + 1] = x
  OBVIOUS
<1> DEFINE q2 == Append(q, x)
<1>2. \A i \in 1..Len(q) : FillOf(q2, i) = FillOf(q, i)
  BY <1>1 DEF FillOf
<1>3. ASSUME NEW i \in 1..(Len(q) + 1), FillOf(q2, i)
      PROVE  rows[q2[i].order].state = "done"
  BY <1>1, <1>2, <1>3 DEF QueueInv, FillOf
<1>4. ASSUME NEW i \in 1..(Len(q) + 1), NEW j \in 1..(Len(q) + 1), FillOf(q2, i), FillOf(q2, j),
             q2[i].order = q2[j].order
      PROVE  i = j
  <2>1. CASE i \in 1..Len(q) /\ j \in 1..Len(q)
    BY <1>1, <1>2, <1>4, <2>1 DEF QueueInv
  <2>2. CASE i = Len(q) + 1 /\ j \in 1..Len(q)
    BY <1>1, <1>2, <1>4, <2>2 DEF FillOf
  <2>3. CASE j = Len(q) + 1 /\ i \in 1..Len(q)
    BY <1>1, <1>2, <1>4, <2>3 DEF FillOf
  <2>. QED  BY <1>1, <2>1, <2>2, <2>3
<1>. QED
  <2> HIDE DEF q2
  <2>1. QueueInv(q2, rows)
    BY <1>1, <1>3, <1>4 DEF QueueInv, q2
  <2>. QED  BY <2>1 DEF q2

LEMMA QueuedCalm ==
  ASSUME TypeInv, FlowInv, CalmOrders, \A o \in Bids : Waits(queue', o) <=> Waits(queue, o)
  PROVE  QueuedSum(queue', orders') = QueuedSum(queue, orders)
<1>0. orders \in [Orders -> Order] /\ Bids \subseteq Orders
  BY DEF TypeInv, TypeOK, Orders
<1>1. \A o \in Bids : QueuedOf(queue', orders', o) = QueuedOf(queue, orders, o)
  <2> SUFFICES ASSUME NEW o \in Bids
               PROVE  QueuedOf(queue', orders', o) = QueuedOf(queue, orders, o)
    OBVIOUS
  <2>1. CASE Waits(queue, o)
    <3>1. PICK i \in DOMAIN queue : queue[i] = [kind |-> "fill", order |-> o]
      BY <2>1 DEF Waits
    <3>2. orders[o].state = "done"
      BY <3>1 DEF FlowInv, QueueInv, FillOf
    <3>3. orders'[o] = orders[o]
      BY <1>0, <3>2 DEF CalmOrders
    <3>. QED  BY <3>3 DEF QueuedOf
  <2>2. CASE ~ Waits(queue, o)
    BY <2>2 DEF QueuedOf
  <2>. QED  BY <2>1, <2>2
<1>. QED  BY <1>0, <1>1, QueuedSame

\* A step that moves no volume.
LEMMA CalmQueue ==
  ASSUME TypeInv, FlowInv, CalmPockets, CalmOrders, CalmFrames,
         QueueInv(queue', orders'), \A o \in Bids : Waits(queue', o) <=> Waits(queue, o)
  PROVE  FlowInv' /\ Balance' = Balance
<1>0. /\ pockets \in [PocketIds -> Pocket] /\ orders \in [Orders -> Order]
      /\ at \in [Threads -> Frames] /\ queue \in Seq(Task) /\ Bids \subseteq Orders
  BY FramesType DEF TypeInv, TypeOK, Orders
<1>1. PocketSum(pockets') = PocketSum(pockets)
  BY <1>0, PocketSame DEF CalmPockets
<1>3. QueuedSum(queue', orders') = QueuedSum(queue, orders)
  BY QueuedCalm
<1>4. \A o \in Bids : DoneOf(orders', o) = DoneOf(orders, o)
  BY <1>0 DEF CalmOrders, DoneOf
<1>5. DoneSum(orders') = DoneSum(orders)
  BY <1>0, <1>4, DoneSame
<1>6. ASSUME NEW t \in Threads
      PROVE  /\ CreatingOf(at'[t], orders') = CreatingOf(at[t], orders)
             /\ CopyingOf(at'[t]) = CopyingOf(at[t])
             /\ at'[t].step = "create" => orders'[at'[t].order].state = "done"
  <2>1. CASE at[t].step \notin Busy /\ at'[t].step \notin Busy
    BY <2>1 DEF CreatingOf, CopyingOf, Busy
  <2>2. CASE at'[t] = at[t]
    <3>1. at[t].step = "create" => at[t].order \in Orders /\ orders[at[t].order].state = "done"
      BY <1>0 DEF FlowInv, At, Frames
    <3>2. at[t].step = "create" => orders'[at[t].order] = orders[at[t].order]
      BY <3>1 DEF CalmOrders
    <3>. QED  BY <2>2, <3>1, <3>2 DEF CreatingOf, CopyingOf
  <2>. QED  BY <2>1, <2>2 DEF CalmFrames
<1>7. CreatingSum(at', orders') = CreatingSum(at, orders) /\ CopyingSum(at') = CopyingSum(at)
  BY <1>0, <1>6, CreatingSame, CopyingSame
<1>8. Balance' = Balance
  BY <1>1, <1>3, <1>5, <1>7 DEF Balance
<1>9. \A p \in PocketIds : pockets'[p].status = "none" => pockets'[p].volume = 0
  BY DEF CalmPockets, FlowInv
<1>10. FlowInv'
  BY <1>6, <1>9 DEF FlowInv, At
<1>. QED  BY <1>8, <1>10

LEMMA Calm ==
  ASSUME TypeInv, FlowInv, CalmPockets, CalmOrders, CalmFrames, queue' = queue
  PROVE  FlowInv' /\ Balance' = Balance
  BY QueueSame, CalmQueue

\* What makes pockets, orders and frames calm.
LEMMA CalmSave ==
  ASSUME TypeInv, NEW p \in PocketIds, NEW r, Save(p, r), r.volume = pockets[p].volume,
         r.status = "none" => pockets[p].status = "none"
  PROVE  CalmPockets
  BY DEF Save, CalmPockets, TypeInv, TypeOK

LEMMA CalmAsk ==
  ASSUME TypeInv, NEW o \in Orders, NEW v, NewOrder(o, v)
  PROVE  CalmOrders
  BY DEF NewOrder, CalmOrders, TypeInv, TypeOK, Orders

LEMMA CalmSame ==
  /\ pockets' = pockets => CalmPockets
  /\ orders' = orders => CalmOrders
  /\ at' = at => CalmFrames
  BY DEF CalmPockets, CalmOrders, CalmFrames

LEMMA CalmGoto ==
  ASSUME TypeInv, NEW t \in Threads, at[t].step \notin Busy, NEW f, f.step \notin Busy, Goto(t, f)
  PROVE  CalmFrames
  BY DEF Goto, CalmFrames, TypeInv, TypeOK

LEMMA CalmReturn ==
  ASSUME TypeInv, NEW t \in Threads, at[t].step \notin Busy, Return(t)
  PROVE  CalmFrames
  BY CalmGoto DEF Return, IdleFrame, Busy

\* Every action: what moves no volume, then what does.
LEMMA SetReasonFlow ==
  ASSUME TypeInv, FlowInv, NEW t \in Threads, SetReason(t)
  PROVE  FlowInv' /\ Balance' = Balance
<1>0. TypeOK /\ at[t] \in Frame /\ WellFormed(t, at[t], pockets)
  BY DEF TypeInv, TypeOK
<1>1. PICK f : f = [at[t] EXCEPT !.step = "updated", !.then = "guard"]
  OBVIOUS
<1>2. f.step = "updated"
  BY <1>0, <1>1, SMT DEF Frame
<1>3. PICK p, r : p = at[t].pocket /\ r = pockets[p]
  OBVIOUS
<1>4. p \in PocketIds /\ pockets[p] \in Pocket
  BY <1>0, <1>3 DEF SetReason, At, WellFormed, PocketSteps, TypeOK
<1>5. r.volume = pockets[p].volume /\ (r.status = "none" => pockets[p].status = "none")
  BY <1>3, <1>4, SMT DEF Pocket
<1>6. CalmPockets
  BY <1>3, <1>4, <1>5, CalmSave DEF SetReason
<1>7. CalmFrames
  BY <1>1, <1>2, CalmGoto DEF SetReason, At, Busy
<1>. QED  BY <1>6, <1>7, Calm, CalmSame DEF SetReason

LEMMA MarkClosingFlow ==
  ASSUME TypeInv, FlowInv, NEW t \in Threads, MarkClosing(t)
  PROVE  FlowInv' /\ Balance' = Balance
<1>0. TypeOK /\ at[t] \in Frame /\ WellFormed(t, at[t], pockets)
  BY DEF TypeInv, TypeOK
<1>1. PICK f : f = [at[t] EXCEPT !.step = "updated", !.then = "idle"]
  OBVIOUS
<1>2. f.step = "updated"
  BY <1>0, <1>1, SMT DEF Frame
<1>3. PICK p, r : p = at[t].pocket /\ r = [pockets[p] EXCEPT !.status = "closing"]
  OBVIOUS
<1>4. p \in PocketIds /\ pockets[p] \in Pocket
  BY <1>0, <1>3 DEF MarkClosing, At, WellFormed, PocketSteps, TypeOK
<1>5. r.volume = pockets[p].volume /\ (r.status = "none" => pockets[p].status = "none")
  BY <1>3, <1>4, SMT DEF Pocket
<1>6. CalmPockets
  BY <1>3, <1>4, <1>5, CalmSave DEF MarkClosing
<1>7. CalmFrames
  BY <1>1, <1>2, CalmGoto DEF MarkClosing, At, Busy
<1>. QED  BY <1>6, <1>7, Calm, CalmSame DEF MarkClosing

LEMMA LinkOrderFlow ==
  ASSUME TypeInv, FlowInv, NEW t \in Threads, LinkOrder(t)
  PROVE  FlowInv' /\ Balance' = Balance
<1>0. TypeOK /\ at[t] \in Frame /\ WellFormed(t, at[t], pockets)
  BY DEF TypeInv, TypeOK
<1>1. PICK f : f = [at[t] EXCEPT !.step = "cleanup"]
  OBVIOUS
<1>2. f.step = "cleanup"
  BY <1>0, <1>1, SMT DEF Frame
<1>3. PICK p, r : p = at[t].pocket /\ r = [pockets[p] EXCEPT !.order = at[t].order]
  OBVIOUS
<1>4. p \in PocketIds /\ pockets[p] \in Pocket
  BY <1>0, <1>3 DEF LinkOrder, At, WellFormed, PocketSteps, TypeOK
<1>5. r.volume = pockets[p].volume /\ (r.status = "none" => pockets[p].status = "none")
  BY <1>3, <1>4, SMT DEF Pocket
<1>6. CalmPockets
  BY <1>3, <1>4, <1>5, CalmSave DEF LinkOrder
<1>7. CalmFrames
  BY <1>1, <1>2, CalmGoto DEF LinkOrder, At, Busy
<1>. QED  BY <1>6, <1>7, Calm, CalmSame DEF LinkOrder

LEMMA MarkClosedFlow ==
  ASSUME TypeInv, FlowInv, NEW t \in Threads, MarkClosed(t)
  PROVE  FlowInv' /\ Balance' = Balance
<1>0. TypeOK /\ at[t] \in Frame /\ WellFormed(t, at[t], pockets)
  BY DEF TypeInv, TypeOK
<1>1. PICK f : f = [at[t] EXCEPT !.step = "updated",
                         !.then = IF at[t].todo = {} /\ at[t].rest = 0 THEN "idle" ELSE "match"]
  OBVIOUS
<1>2. f.step = "updated"
  BY <1>0, <1>1, SMT DEF Frame
<1>3. PICK p, r : p = at[t].pocket /\ r = [pockets[p] EXCEPT !.status = "closed"]
  OBVIOUS
<1>4. p \in PocketIds /\ pockets[p] \in Pocket
  BY <1>0, <1>3 DEF MarkClosed, At, WellFormed, PocketSteps, TypeOK
<1>5. r.volume = pockets[p].volume /\ (r.status = "none" => pockets[p].status = "none")
  BY <1>3, <1>4, SMT DEF Pocket
<1>6. CalmPockets
  BY <1>3, <1>4, <1>5, CalmSave DEF MarkClosed
<1>7. CalmFrames
  BY <1>1, <1>2, CalmGoto DEF MarkClosed, At, Busy
<1>. QED  BY <1>6, <1>7, Calm, CalmSame DEF MarkClosed

LEMMA ClosePocketFlow ==
  ASSUME TypeInv, FlowInv, NEW t \in Threads, ClosePocket(t)
  PROVE  FlowInv' /\ Balance' = Balance
<1>0. TypeOK /\ at[t] \in Frame /\ WellFormed(t, at[t], pockets)
  BY DEF TypeInv, TypeOK
<1>1. PICK f : f = [at[t] EXCEPT !.step = "closing"]
  OBVIOUS
<1>2. f.step = "closing"
  BY <1>0, <1>1, SMT DEF Frame
<1>3. CalmFrames
  BY <1>1, <1>2, CalmGoto, CalmReturn DEF ClosePocket, At, Busy
<1>. QED  BY <1>3, Calm, CalmSame DEF ClosePocket, dbVars

LEMMA OnPocketUpdatedFlow ==
  ASSUME TypeInv, FlowInv, NEW t \in Threads, OnPocketUpdated(t)
  PROVE  FlowInv' /\ Balance' = Balance
<1>0. TypeOK /\ at[t] \in Frame /\ WellFormed(t, at[t], pockets)
  BY DEF TypeInv, TypeOK
<1>1. PICK s : s = IF NeedsSale(at[t].pocket) THEN "sell" ELSE "cleanup"
  OBVIOUS
<1>2. PICK f : f = [at[t] EXCEPT !.step = s]
  OBVIOUS
<1>3. f.step \in {"sell", "cleanup"}
  BY <1>0, <1>1, <1>2, SMT DEF Frame
<1>4. CalmFrames
  BY <1>1, <1>2, <1>3, CalmGoto DEF OnPocketUpdated, At, Busy
<1>. QED  BY <1>4, Calm, CalmSame DEF OnPocketUpdated, dbVars

LEMMA SellPocketFlow ==
  ASSUME TypeInv, FlowInv, NEW t \in Threads, SellPocket(t)
  PROVE  FlowInv' /\ Balance' = Balance
<1>0. TypeOK /\ at[t] \in Frame /\ WellFormed(t, at[t], pockets)
  BY DEF TypeInv, TypeOK
<1>1. CASE Return(t) /\ UNCHANGED <<orders, coins>>
  <2>1. CalmFrames
    BY <1>1, CalmReturn DEF SellPocket, At, Busy
  <2>. QED  BY <1>1, <2>1, Calm, CalmSame DEF SellPocket
<1>2. CASE ~ (Return(t) /\ UNCHANGED <<orders, coins>>)
  <2>1. PICK o \in Asks : /\ NewOrder(o, pockets[at[t].pocket].volume)
                          /\ Goto(t, [at[t] EXCEPT !.step = "link", !.order = o])
    BY <1>2 DEF SellPocket
  <2>2. PICK f : f = [at[t] EXCEPT !.step = "link", !.order = o]
    OBVIOUS
  <2>3. f.step = "link"
    BY <1>0, <2>2, SMT DEF Frame
  <2>4. CalmFrames
    BY <2>1, <2>2, <2>3, CalmGoto DEF SellPocket, At, Busy
  <2>5. CalmOrders
    BY <2>1, CalmAsk DEF Orders
  <2>. QED  BY <2>4, <2>5, Calm, CalmSame DEF SellPocket
<1>. QED  BY <1>1, <1>2

LEMMA CleanUpFlow ==
  ASSUME TypeInv, FlowInv, NEW t \in Threads, CleanUp(t)
  PROVE  FlowInv' /\ Balance' = Balance
<1>0. TypeOK /\ at[t] \in Frame /\ WellFormed(t, at[t], pockets)
  BY DEF TypeInv, TypeOK
<1>1. PICK f : f = [at[t] EXCEPT !.step = at[t].then]
  OBVIOUS
<1>2. f.step \notin Busy
  BY <1>0, <1>1, SMT DEF Frame, WellFormed, Busy
<1>3. CalmFrames
  BY <1>1, <1>2, CalmGoto, CalmReturn DEF CleanUp, At, Busy
<1>. QED  BY <1>3, Calm, CalmSame DEF CleanUp

LEMMA OnPocketCreatedFlow ==
  ASSUME TypeInv, FlowInv, NEW t \in Threads, OnPocketCreated(t)
  PROVE  FlowInv' /\ Balance' = Balance
<1>1. CalmFrames
  BY CalmReturn DEF OnPocketCreated, At, Busy
<1>. QED  BY <1>1, Calm, CalmSame DEF OnPocketCreated

LEMMA MatchSaleFlow ==
  ASSUME TypeInv, FlowInv, NEW t \in Threads, MatchSale(t)
  PROVE  FlowInv' /\ Balance' = Balance
<1>0. TypeOK /\ at[t] \in Frame /\ WellFormed(t, at[t], pockets)
  BY DEF TypeInv, TypeOK
<1>1. CASE Return(t)
  <2>1. CalmFrames
    BY <1>1, CalmReturn DEF MatchSale, At, Busy
  <2>. QED  BY <2>1, Calm, CalmSame DEF MatchSale, dbVars
<1>2. CASE ~ Return(t)
  <2>1. PICK p \in at[t].todo :
          Goto(t, IF at[t].rest < pockets[p].volume
                  THEN [at[t] EXCEPT !.step = "split", !.pocket = p, !.todo = {}]
                  ELSE [at[t] EXCEPT !.step = IF p \in loaded /\ IsOpen(p)
                                              THEN "closed" ELSE "match",
                                     !.pocket = p, !.todo = @ \ {p},
                                     !.rest = @ - pockets[p].volume])
    BY <1>2 DEF MatchSale
  <2>2. PICK s : s = IF p \in loaded /\ IsOpen(p) THEN "closed" ELSE "match"
    OBVIOUS
  <2>3. PICK ps, n : ps = at[t].todo \ {p} /\ n = at[t].rest - pockets[p].volume
    OBVIOUS
  <2>4. PICK f : f = [at[t] EXCEPT !.step = "split", !.pocket = p, !.todo = {}]
    OBVIOUS
  <2>5. PICK g : g = [at[t] EXCEPT !.step = s, !.pocket = p, !.todo = ps, !.rest = n]
    OBVIOUS
  <2>6. f.step = "split" /\ g.step = s
    BY <1>0, <2>4, <2>5, SMT DEF Frame
  <2>7. Goto(t, f) \/ Goto(t, g)
    BY <2>1, <2>2, <2>3, <2>4, <2>5
  <2>8. CalmFrames
    BY <2>2, <2>6, <2>7, CalmGoto DEF MatchSale, At, Busy
  <2>. QED  BY <2>8, Calm, CalmSame DEF MatchSale, dbVars
<1>. QED  BY <1>1, <1>2

LEMMA ListTargetsFlow ==
  ASSUME TypeInv, FlowInv, NEW t \in Threads, ListTargets(t)
  PROVE  FlowInv' /\ Balance' = Balance
<1>0. TypeOK /\ at[t] \in Frame /\ WellFormed(t, at[t], pockets)
  BY DEF TypeInv, TypeOK
<1>1. PICK ps : ps = TargetsOf
  OBVIOUS
<1>2. PICK f : f = [at[t] EXCEPT !.step = "purge", !.todo = ps]
  OBVIOUS
<1>3. f.step = "purge"
  BY <1>0, <1>2, SMT DEF Frame
<1>4. CalmFrames
  BY <1>1, <1>2, <1>3, CalmGoto DEF ListTargets, At, Busy
<1>. QED  BY <1>4, Calm, CalmSame DEF ListTargets, dbVars

LEMMA ArchivePocketFlow ==
  ASSUME TypeInv, FlowInv, NEW t \in Threads, ArchivePocket(t)
  PROVE  FlowInv' /\ Balance' = Balance
<1>0. TypeOK /\ at[t] \in Frame /\ WellFormed(t, at[t], pockets)
  BY DEF TypeInv, TypeOK
<1>1. CalmFrames
  <2>1. CASE Goto(t, [at[t] EXCEPT !.step = "sweep", !.todo = strategies])
    <3>1. PICK f : f = [at[t] EXCEPT !.step = "sweep", !.todo = strategies]
      OBVIOUS
    <3>2. f.step = "sweep"
      BY <1>0, <3>1, SMT DEF Frame
    <3>. QED  BY <2>1, <3>1, <3>2, CalmGoto DEF ArchivePocket, At, Busy
  <2>2. CASE \E p \in at[t].todo :
               Goto(t, [at[t] EXCEPT !.step = IF p \in loaded THEN "purged" ELSE "purge",
                                     !.pocket = p, !.todo = @ \ {p}])
    <3>1. PICK p : Goto(t, [at[t] EXCEPT !.step = IF p \in loaded THEN "purged" ELSE "purge",
                                         !.pocket = p, !.todo = @ \ {p}])
      BY <2>2
    <3>2. PICK s, ps : s = (IF p \in loaded THEN "purged" ELSE "purge") /\ ps = at[t].todo \ {p}
      OBVIOUS
    <3>3. PICK f : f = [at[t] EXCEPT !.step = s, !.pocket = p, !.todo = ps]
      OBVIOUS
    <3>4. f.step \in {"purged", "purge"}
      BY <1>0, <3>2, <3>3, SMT DEF Frame
    <3>5. Goto(t, f)
      BY <3>1, <3>2, <3>3
    <3>. QED  BY <3>4, <3>5, CalmGoto DEF ArchivePocket, At, Busy
  <2>. QED  BY <2>1, <2>2 DEF ArchivePocket
<1>. QED  BY <1>1, Calm, CalmSame DEF ArchivePocket

LEMMA OnPocketDeletedFlow ==
  ASSUME TypeInv, FlowInv, NEW t \in Threads, OnPocketDeleted(t)
  PROVE  FlowInv' /\ Balance' = Balance
<1>0. TypeOK /\ at[t] \in Frame /\ WellFormed(t, at[t], pockets)
  BY DEF TypeInv, TypeOK
<1>1. PICK f : f = [at[t] EXCEPT !.step = "purge"]
  OBVIOUS
<1>2. f.step = "purge"
  BY <1>0, <1>1, SMT DEF Frame
<1>3. CalmFrames
  BY <1>1, <1>2, CalmGoto DEF OnPocketDeleted, At, Busy
<1>. QED  BY <1>3, Calm, CalmSame DEF OnPocketDeleted

LEMMA SweepStrategyFlow ==
  ASSUME TypeInv, FlowInv, NEW t \in Threads, SweepStrategy(t)
  PROVE  FlowInv' /\ Balance' = Balance
<1>0. TypeOK /\ at[t] \in Frame /\ WellFormed(t, at[t], pockets)
  BY DEF TypeInv, TypeOK
<1>1. CalmFrames
  <2>1. CASE Return(t)
    BY <2>1, CalmReturn DEF SweepStrategy, At, Busy
  <2>2. CASE \E p \in at[t].todo : Goto(t, [at[t] EXCEPT !.todo = @ \ {p}])
    <3>1. PICK p \in at[t].todo : Goto(t, [at[t] EXCEPT !.todo = @ \ {p}])
      BY <2>2
    <3>2. PICK ps : ps = at[t].todo \ {p}
      OBVIOUS
    <3>3. PICK f : f = [at[t] EXCEPT !.todo = ps]
      OBVIOUS
    <3>4. f.step = at[t].step
      BY <1>0, <3>3, SMT DEF Frame
    <3>5. Goto(t, f)
      BY <3>1, <3>2, <3>3
    <3>. QED  BY <3>4, <3>5, CalmGoto DEF SweepStrategy, At, Busy
  <2>. QED  BY <2>1, <2>2 DEF SweepStrategy
<1>. QED  BY <1>1, Calm, CalmSame DEF SweepStrategy

LEMMA BuyFlow ==
  ASSUME TypeInv, FlowInv, NEW t \in Threads, Buy(t)
  PROVE  FlowInv' /\ Balance' = Balance
<1>1. PICK o \in Bids, v \in Volumes : NewOrder(o, v)
  BY DEF Buy
<1>2. CalmOrders
  BY <1>1, CalmAsk DEF Orders
<1>. QED  BY <1>2, Calm, CalmSame DEF Buy, memVars

LEMMA SellFlow ==
  ASSUME TypeInv, FlowInv, NEW t \in Threads, Sell(t)
  PROVE  FlowInv' /\ Balance' = Balance
<1>1. PICK o \in Asks, v \in Volumes : NewOrder(o, v)
  BY DEF Sell
<1>2. CalmOrders
  BY <1>1, CalmAsk DEF Orders
<1>. QED  BY <1>2, Calm, CalmSame DEF Sell, memVars

LEMMA SellAllFlow ==
  ASSUME TypeInv, FlowInv, NEW t \in Threads, SellAll(t)
  PROVE  FlowInv' /\ Balance' = Balance
<1>1. PICK o \in Asks : NewOrder(o, coins)
  BY DEF SellAll
<1>2. CalmOrders
  BY <1>1, CalmAsk DEF Orders
<1>3. PICK f : f = [IdleFrame EXCEPT !.step = "targets"]
  OBVIOUS
<1>4. f.step = "targets"
  BY <1>3 DEF IdleFrame
<1>5. CalmFrames
  BY <1>3, <1>4, CalmGoto DEF SellAll, Idle, Busy
<1>. QED  BY <1>2, <1>5, Calm, CalmSame DEF SellAll

LEMMA CancelFlow ==
  ASSUME TypeInv, FlowInv, NEW t \in Threads, Cancel(t)
  PROVE  FlowInv' /\ Balance' = Balance
<1>1. CalmOrders
  BY SMT DEF Cancel, CalmOrders, TypeInv, TypeOK, Orders, Order
<1>. QED  BY <1>1, Calm, CalmSame DEF Cancel, memVars

\* BeginClose starts from rest and moves nothing.
LEMMA BeginCloseCalm ==
  ASSUME TypeInv, NEW t \in Threads, NEW p, Idle(t), BeginClose(t, p)
  PROVE  CalmFrames
<1>1. PICK f : f = [IdleFrame EXCEPT !.step = "reason", !.pocket = p]
  OBVIOUS
<1>2. f.step = "reason"
  BY <1>1 DEF IdleFrame
<1>. QED  BY <1>1, <1>2, CalmGoto, CalmSame DEF BeginClose, Idle, Busy

LEMMA ToolCloseFlow ==
  ASSUME TypeInv, FlowInv, NEW t \in Threads, ToolClose(t)
  PROVE  FlowInv' /\ Balance' = Balance
<1>1. CalmFrames
  BY BeginCloseCalm DEF ToolClose
<1>. QED  BY <1>1, Calm, CalmSame DEF ToolClose, dbVars

\* A step of one thread that moves volume between its frame and the pockets.
LEMMA Moves ==
  ASSUME TypeInv, TypeInv', FlowInv, NEW t \in Threads, NEW f, f.step # "create", Goto(t, f),
         NEW p \in PocketIds, \A q \in PocketIds \ {p} : pockets'[q] = pockets[q],
         pockets'[p].status = "none" => pockets'[p].volume = 0,
         UNCHANGED <<queue, orders>>,
         pockets'[p].volume + CopyingOf(f)
           = pockets[p].volume + CopyingOf(at[t]) + CreatingOf(at[t], orders)
  PROVE  FlowInv' /\ Balance' = Balance
<1>0. /\ pockets \in [PocketIds -> Pocket] /\ orders \in [Orders -> Order]
      /\ pockets' \in [PocketIds -> Pocket]
      /\ at \in [Threads -> Frames] /\ at' \in [Threads -> Frames]
      /\ at'[t] = f /\ \A u \in Threads \ {t} : at'[u] = at[u]
  BY FramesType DEF TypeInv, TypeOK, Goto, WellFormed, Frames
<1>1. PocketSum(pockets') = PocketSum(pockets) - pockets[p].volume + pockets'[p].volume
  <2>1. PICK ps : ps = pockets'
    OBVIOUS
  <2>2. PocketSum(ps) = PocketSum(pockets) - pockets[p].volume + ps[p].volume
    BY <1>0, <2>1, PocketChange
  <2>. QED  BY <2>1, <2>2
<1>2. /\ CreatingSum(at', orders) = CreatingSum(at, orders) - CreatingOf(at[t], orders) + CreatingOf(f, orders)
      /\ CopyingSum(at') = CopyingSum(at) - CopyingOf(at[t]) + CopyingOf(f)
  <2>1. PICK fs : fs = at'
    OBVIOUS
  <2>2. /\ CreatingSum(fs, orders)
             = CreatingSum(at, orders) - CreatingOf(at[t], orders) + CreatingOf(fs[t], orders)
        /\ CopyingSum(fs) = CopyingSum(at) - CopyingOf(at[t]) + CopyingOf(fs[t])
    BY <1>0, <2>1, FrameChange
  <2>. QED  BY <1>0, <2>1, <2>2
<1>3. CreatingOf(f, orders) = 0
  BY DEF CreatingOf
<1>4. /\ CreatingOf(at[t], orders) \in Nat /\ CopyingOf(at[t]) \in Nat /\ CopyingOf(f) \in Nat
      /\ pockets[p].volume \in Nat /\ pockets'[p].volume \in Nat
  <2>1. at[t] \in Frames /\ f \in Frames /\ at[t] \in Frame /\ f \in Frame
    BY <1>0 DEF Frames
  <2>. QED  BY <1>0, <2>1, VolumesNat DEF Pocket
<1>5. Balance' = Balance
  BY <1>1, <1>2, <1>3, <1>4, BalanceParts DEF Balance
<1>6. FlowInv'
  BY <1>0 DEF FlowInv, At
<1>. QED  BY <1>5, <1>6

LEMMA CreatePocketFlow ==
  ASSUME TypeInv, TypeInv', FlowInv, NEW t \in Threads, CreatePocket(t)
  PROVE  FlowInv' /\ Balance' = Balance
<1>0. TypeOK /\ at[t] \in Frame /\ WellFormed(t, at[t], pockets)
  BY DEF TypeInv, TypeOK
<1>1. PICK p \in PocketIds, e \in Entries :
        /\ pockets[p].status = "none"
        /\ Save(p, [status |-> "active", volume |-> orders[at[t].order].volume,
                    entry |-> e, order |-> NoOrder])
        /\ Goto(t, [IdleFrame EXCEPT !.step = "opened", !.new = p])
  BY DEF CreatePocket
<1>2. PICK f : f = [IdleFrame EXCEPT !.step = "opened", !.new = p]
  OBVIOUS
<1>3. f.step = "opened"
  BY <1>2 DEF IdleFrame
<1>4. orders[at[t].order].volume \in Nat
  BY <1>0 DEF CreatePocket, At, WellFormed, TypeOK, Order, Orders
<1>5. /\ pockets'[p].volume = orders[at[t].order].volume /\ pockets'[p].status = "active"
      /\ \A q \in PocketIds \ {p} : pockets'[q] = pockets[q]
  BY <1>0, <1>1 DEF Save, TypeOK
<1>6. pockets[p].volume = 0
  BY <1>1 DEF FlowInv
<1>7. CopyingOf(f) = 0 /\ CopyingOf(at[t]) = 0 /\ CreatingOf(at[t], orders) = orders[at[t].order].volume
  BY <1>3 DEF CreatePocket, At, CopyingOf, CreatingOf
<1>8. Goto(t, f)
  BY <1>1, <1>2
<1>9. UNCHANGED <<queue, orders>>
  BY DEF CreatePocket
<1>. QED  BY <1>3, <1>4, <1>5, <1>6, <1>7, <1>8, <1>9, Moves

LEMMA SplitPocketFlow ==
  ASSUME TypeInv, TypeInv', FlowInv, NEW t \in Threads, SplitPocket(t)
  PROVE  FlowInv' /\ Balance' = Balance
<1>0. TypeOK /\ at[t] \in Frame /\ WellFormed(t, at[t], pockets) /\ at[t].rest \in Nat
  BY DEF TypeInv, TypeOK, Frame
<1>1. PICK p, n, o : p = at[t].pocket /\ n = at[t].rest /\ o = pockets[p].order
  OBVIOUS
<1>2. p \in PocketIds /\ n \in Nat /\ n < pockets[p].volume /\ pockets[p] \in Pocket
  BY <1>0, <1>1 DEF SplitPocket, At, WellFormed, PocketSteps, TypeOK
<1>3. PICK f : f = [at[t] EXCEPT !.step = "copy", !.order = o]
  OBVIOUS
<1>4. f.step = "copy" /\ f.rest = n
  BY <1>0, <1>1, <1>3, SMT DEF Frame
<1>5. PICK r : r = [pockets[p] EXCEPT !.volume = @ - n]
  OBVIOUS
<1>6. r.volume = pockets[p].volume - n /\ r.status = pockets[p].status /\ pockets[p].volume \in Nat
  BY <1>2, <1>5, SMT DEF Pocket
<1>7. pockets'[p] = r /\ \A q \in PocketIds \ {p} : pockets'[q] = pockets[q]
  <2>1. Save(p, r)
    BY <1>1, <1>5 DEF SplitPocket, Remaining
  <2>. QED  BY <1>0, <1>2, <2>1 DEF Save, TypeOK
<1>8. pockets[p].status # "none"
  BY <1>2, <1>6 DEF FlowInv
<1>9. CopyingOf(f) = n /\ CopyingOf(at[t]) = 0 /\ CreatingOf(at[t], orders) = 0
  BY <1>4 DEF SplitPocket, At, CopyingOf, CreatingOf
<1>10. Goto(t, f) /\ UNCHANGED <<queue, orders>>
  BY <1>1, <1>3 DEF SplitPocket
<1>. QED  BY <1>2, <1>4, <1>6, <1>7, <1>8, <1>9, <1>10, Moves

LEMMA SaveCopyFlow ==
  ASSUME TypeInv, TypeInv', FlowInv, NEW t \in Threads, SaveCopy(t)
  PROVE  FlowInv' /\ Balance' = Balance
<1>0. TypeOK /\ at[t] \in Frame /\ WellFormed(t, at[t], pockets) /\ at[t].rest \in Nat
  BY DEF TypeInv, TypeOK, Frame
<1>1. PICK p \in PocketIds :
        /\ pockets[p].status = "none"
        /\ Save(p, [pockets[at[t].pocket] EXCEPT !.volume = at[t].rest, !.status = "closed",
                                                !.order = at[t].order])
        /\ Goto(t, [at[t] EXCEPT !.step = "updated", !.then = "opened", !.new = p, !.rest = 0])
  BY DEF SaveCopy
<1>2. PICK f : f = [at[t] EXCEPT !.step = "updated", !.then = "opened", !.new = p, !.rest = 0]
  OBVIOUS
<1>3. f.step = "updated"
  BY <1>0, <1>2, SMT DEF Frame
<1>4. PICK r : r = [pockets[at[t].pocket] EXCEPT !.volume = at[t].rest, !.status = "closed",
                                               !.order = at[t].order]
  OBVIOUS
<1>5. at[t].pocket \in PocketIds /\ pockets[at[t].pocket] \in Pocket
  BY <1>0 DEF SaveCopy, At, WellFormed, PocketSteps, TypeOK
<1>6. r.volume = at[t].rest /\ r.status = "closed"
  BY <1>4, <1>5, SMT DEF Pocket
<1>7. pockets'[p] = r /\ \A q \in PocketIds \ {p} : pockets'[q] = pockets[q]
  BY <1>0, <1>1, <1>4 DEF Save, TypeOK
<1>8. pockets[p].volume = 0
  BY <1>1 DEF FlowInv
<1>9. CopyingOf(f) = 0 /\ CopyingOf(at[t]) = at[t].rest /\ CreatingOf(at[t], orders) = 0
  BY <1>3 DEF SaveCopy, At, CopyingOf, CreatingOf
<1>10. Goto(t, f) /\ UNCHANGED <<queue, orders>>
  BY <1>1, <1>2 DEF SaveCopy
<1>. QED  BY <1>0, <1>3, <1>6, <1>7, <1>8, <1>9, <1>10, Moves

LEMMA SignalFlow ==
  ASSUME TypeInv, FlowInv, NEW p \in PocketIds, Signal(p)
  PROVE  FlowInv' /\ Balance' = Balance
<1>1. PICK x : x = [kind |-> "close", pocket |-> p]
  OBVIOUS
<1>2. x \in Task /\ x.kind = "close" /\ queue \in Seq(Task) /\ queue' = Append(queue, x)
  BY <1>1 DEF Task, Signal, TypeInv, TypeOK
<1>3. CalmPockets /\ CalmOrders /\ CalmFrames /\ orders' = orders
  BY CalmSame DEF Signal, dbVars
<1>4. QueueInv(queue', orders')
  BY <1>2, <1>3, QueueAppend DEF FlowInv
<1>5. \A o \in Bids : Waits(queue', o) <=> Waits(queue, o)
  <2>1. \A o \in Bids : x # [kind |-> "fill", order |-> o]
    BY <1>2
  <2>. QED  BY <1>2, <2>1, AppendWaits
<1>. QED  BY <1>3, <1>4, <1>5, CalmQueue

LEMMA ExecuteFlow ==
  ASSUME TypeInv, TypeInv', FlowInv, NEW o \in Orders, Execute(o)
  PROVE  FlowInv' /\ Balance' = Balance
<1>0. /\ pockets \in [PocketIds -> Pocket] /\ orders \in [Orders -> Order]
      /\ orders' \in [Orders -> Order] /\ at \in [Threads -> Frames] /\ queue \in Seq(Task)
      /\ Bids \subseteq Orders /\ pockets' = pockets /\ at' = at /\ orders[o].state = "wait"
  BY FramesType DEF TypeInv, TypeOK, Orders, Execute
<1>1. PICK x : x = [kind |-> "fill", order |-> o]
  OBVIOUS
<1>2. x \in Task /\ queue' = Append(queue, x) /\ x.kind = "fill" /\ x.order = o
  BY <1>1 DEF Task, Execute
<1>3. /\ orders'[o].state = "done" /\ orders'[o].volume = orders[o].volume
      /\ \A b \in Orders : b # o => orders'[b] = orders[b]
  BY <1>0, SMT DEF Execute, Order
<1>4. \A i \in DOMAIN queue : FillOf(queue, i) => queue[i].order # o
  BY <1>0 DEF FlowInv, QueueInv
<1>5. QueueInv(queue', orders')
  <2>1. QueueInv(queue, orders')
    <3>1. ASSUME NEW i \in DOMAIN queue, FillOf(queue, i)
          PROVE  orders'[queue[i].order].state = "done"
      <4>1. queue[i] \in Task /\ queue[i].order # o
        BY <1>0, <1>4, <3>1
      <4>2. queue[i].order \in Orders
        BY <3>1, <4>1 DEF Task, FillOf
      <4>. QED  BY <1>3, <3>1, <4>1, <4>2 DEF FlowInv, QueueInv
    <3>. QED  BY <3>1 DEF FlowInv, QueueInv
  <2>. QED  BY <1>0, <1>2, <1>3, <1>4, <2>1, QueueAppend
<1>6. ~ Waits(queue, o) /\ \A b : Waits(queue', b) <=> Waits(queue, b) \/ b = o
  <2>1. ~ Waits(queue, o)
    BY <1>4 DEF Waits, FillOf
  <2>2. \A b : x = [kind |-> "fill", order |-> b] <=> b = o
    BY <1>1, <1>2
  <2>. QED  BY <1>0, <1>2, <2>1, <2>2, AppendWaits
<1>7. \A b \in Orders : orders'[b].volume = orders[b].volume
  BY <1>3
<1>8. CreatingSum(at', orders') = CreatingSum(at, orders) /\ CopyingSum(at') = CopyingSum(at)
  <2>1. \A t \in Threads : at[t].step = "create" => at[t].order \in Orders
    BY <1>0 DEF Frames
  <2>2. \A t \in Threads : CreatingOf(at[t], orders') = CreatingOf(at[t], orders)
    BY <1>7, <2>1 DEF CreatingOf
  <2>. QED  BY <1>0, <2>2, CreatingSame
<1>9. QueuedSum(queue', orders') - DoneSum(orders') = QueuedSum(queue, orders) - DoneSum(orders)
  <2>0. /\ \A b \in Bids \ {o} : QueuedOf(queue', orders', b) = QueuedOf(queue, orders, b)
        /\ \A b \in Bids \ {o} : DoneOf(orders', b) = DoneOf(orders, b)
    BY <1>0, <1>3, <1>6 DEF QueuedOf, DoneOf
  <2>1. CASE o \in Bids
    <3>1. PICK rows, q : rows = orders' /\ q = queue'
      OBVIOUS
    <3>2. /\ QueuedSum(q, rows) = QueuedSum(queue, orders) - QueuedOf(queue, orders, o) + QueuedOf(q, rows, o)
          /\ DoneSum(rows) = DoneSum(orders) - DoneOf(orders, o) + DoneOf(rows, o)
      <4>1. rows \in [Orders -> Order]
        BY <1>0, <3>1
      <4>2. /\ \A b \in Bids \ {o} : QueuedOf(q, rows, b) = QueuedOf(queue, orders, b)
            /\ \A b \in Bids \ {o} : DoneOf(rows, b) = DoneOf(orders, b)
        BY <2>0, <3>1
      <4>. QED  BY <1>0, <2>1, <4>1, <4>2, QueuedChange, DoneChange
    <3>3. /\ QueuedOf(queue, orders, o) = 0 /\ DoneOf(orders, o) = 0
          /\ QueuedOf(q, rows, o) = DoneOf(rows, o) /\ DoneOf(rows, o) \in Nat
      BY <1>0, <1>3, <1>6, <2>1, <3>1 DEF QueuedOf, DoneOf, Order
    <3>. QED  BY <3>1, <3>2, <3>3, BalanceParts
  <2>2. CASE o \notin Bids
    <3>1. /\ \A b \in Bids : QueuedOf(queue', orders', b) = QueuedOf(queue, orders, b)
          /\ \A b \in Bids : DoneOf(orders', b) = DoneOf(orders, b)
      BY <2>0, <2>2
    <3>. QED  BY <1>0, <3>1, QueuedSame, DoneSame
  <2>. QED  BY <2>1, <2>2
<1>10. Balance' = Balance
  <2>1. /\ QueuedSum(queue', orders') \in Nat /\ DoneSum(orders') \in Nat
    BY <1>0, SumsNat
  <2>2. PocketSum(pockets') = PocketSum(pockets)
    BY <1>0
  <2>. QED  BY <1>8, <1>9, <2>1, <2>2, BalanceParts DEF Balance
<1>11. \A t \in Threads : at[t].step = "create" => orders'[at[t].order].state = "done"
  <2>1. \A t \in Threads : at[t].step = "create" => at[t].order \in Orders
    BY <1>0 DEF Frames
  <2>. QED  BY <1>3, <2>1 DEF FlowInv, At
<1>12. FlowInv'
  BY <1>0, <1>5, <1>11 DEF FlowInv, At
<1>. QED  BY <1>10, <1>12

LEMMA TakeTaskFlow ==
  ASSUME TypeInv, TypeInv', FlowInv, TakeTask
  PROVE  FlowInv' /\ Balance' = Balance
<1>0. /\ pockets \in [PocketIds -> Pocket] /\ orders \in [Orders -> Order]
      /\ at \in [Threads -> Frames] /\ at' \in [Threads -> Frames] /\ queue \in Seq(Task)
      /\ Bids \subseteq Orders /\ pockets' = pockets /\ orders' = orders
      /\ MainLoop \in Threads /\ at[MainLoop].step = "idle"
      /\ queue # <<>> /\ queue' = Tail(queue) /\ Head(queue) \in Task
  <2>1. at' \in [Threads -> Frames]
    BY DEF TypeInv, TypeOK, WellFormed, Frames
  <2>2. /\ pockets \in [PocketIds -> Pocket] /\ orders \in [Orders -> Order] /\ queue \in Seq(Task)
        /\ Bids \subseteq Orders /\ MainLoop \in Threads
    BY PocketsAssumption DEF TypeInv, TypeOK, Orders
  <2>3. /\ pockets' = pockets /\ orders' = orders /\ at[MainLoop].step = "idle"
        /\ queue # <<>> /\ queue' = Tail(queue)
    BY DEF TakeTask, dbVars, Idle
  <2>4. Head(queue) \in Task
    BY <2>2, <2>3
  <2>. QED  BY <2>1, <2>2, <2>3, <2>4, FramesType
<1>1. PICK x : x = Head(queue)
  OBVIOUS
<1>2. QueueInv(queue', orders')
  BY <1>0, QueueTail DEF FlowInv
<1>3. \A o \in Bids : Waits(queue, o) <=> Waits(queue', o) \/ x = [kind |-> "fill", order |-> o]
  BY <1>0, <1>1, TailWaits
<1>4. CalmPockets /\ CalmOrders
  BY <1>0, CalmSame
<1>5. ASSUME CalmFrames, \A o \in Bids : x # [kind |-> "fill", order |-> o]
      PROVE  FlowInv' /\ Balance' = Balance
  <2>1. \A o \in Bids : Waits(queue', o) <=> Waits(queue, o)
    BY <1>3, <1>5
  <2>. QED  BY <1>2, <1>4, <1>5, <2>1, CalmQueue
<1>6. ASSUME NEW f, Goto(MainLoop, f), f.step \notin Busy
      PROVE  CalmFrames
  BY <1>0, <1>6, CalmGoto DEF Busy
<1>7. CASE x.kind = "close"
  <2>1. BeginClose(MainLoop, x.pocket) /\ Idle(MainLoop)
    BY <1>1, <1>7 DEF TakeTask
  <2>2. CalmFrames
    BY <1>0, <2>1, BeginCloseCalm
  <2>3. \A o \in Bids : x # [kind |-> "fill", order |-> o]
    BY <1>7
  <2>. QED  BY <1>5, <2>2, <2>3
<1>8. CASE x.kind # "close" /\ FillAsk(x.order)
  <2>1. CalmFrames
    <3>1. CASE at' = at
      BY <3>1, CalmSame
    <3>2. CASE \E p \in LinkedTo(x.order) :
                 Goto(MainLoop, [IdleFrame EXCEPT !.step = "closed", !.pocket = p])
      <4>1. PICK p : Goto(MainLoop, [IdleFrame EXCEPT !.step = "closed", !.pocket = p])
        BY <3>2
      <4>2. PICK f : f = [IdleFrame EXCEPT !.step = "closed", !.pocket = p]
        OBVIOUS
      <4>3. f.step = "closed"
        BY <4>2 DEF IdleFrame
      <4>. QED  BY <1>6, <4>1, <4>2, <4>3 DEF Busy
    <3>3. CASE Goto(MainLoop, [IdleFrame EXCEPT !.step = "match", !.todo = TargetsOf,
                                                !.rest = orders[x.order].volume])
      <4>1. PICK ps, n : ps = TargetsOf /\ n = orders[x.order].volume
        OBVIOUS
      <4>2. PICK f : f = [IdleFrame EXCEPT !.step = "match", !.todo = ps, !.rest = n]
        OBVIOUS
      <4>3. f.step = "match"
        BY <4>2 DEF IdleFrame
      <4>. QED  BY <1>6, <3>3, <4>1, <4>2, <4>3 DEF Busy
    <3>. QED  BY <1>8, <3>1, <3>2, <3>3 DEF FillAsk
  <2>2. \A o \in Bids : x # [kind |-> "fill", order |-> o]
    <3>1. x.order \notin Bids
      BY <1>8, PocketsAssumption DEF FillAsk
    <3>2. ASSUME NEW o \in Bids, x = [kind |-> "fill", order |-> o]
          PROVE  FALSE
      BY <3>1, <3>2
    <3>. QED  BY <3>2
  <2>. QED  BY <1>5, <2>1, <2>2
<1>9. CASE x.kind # "close" /\ FillBid(x.order)
  <2>1. PICK o \in Bids : x = [kind |-> "fill", order |-> o]
    BY <1>0, <1>1, <1>9 DEF FillBid, Task
  <2>2. /\ ~ Waits(queue', o) /\ Waits(queue, o) /\ orders[o].state = "done"
        /\ \A b \in Bids \ {o} : Waits(queue', b) <=> Waits(queue, b)
    <3>1. /\ DOMAIN queue = 1..Len(queue) /\ Len(queue) \in Nat /\ Len(queue) > 0
          /\ queue[1] = x /\ DOMAIN queue' = 1..(Len(queue) - 1)
          /\ \A i \in 1..(Len(queue) - 1) : queue'[i] = queue[i + 1]
      BY <1>0, <1>1
    <3>2. FillOf(queue, 1) /\ queue[1].order = o /\ 1 \in DOMAIN queue
      BY <2>1, <3>1 DEF FillOf
    <3>3. ASSUME NEW i \in DOMAIN queue', queue'[i] = x
          PROVE  FALSE
      <4>1. i + 1 \in DOMAIN queue /\ FillOf(queue, i + 1) /\ queue[i + 1].order = o /\ i \in Nat /\ i # 0
        BY <2>1, <3>1, <3>3 DEF FillOf
      <4>2. i + 1 = 1
        BY <3>2, <4>1 DEF FlowInv, QueueInv
      <4>. QED  BY <4>1, <4>2
    <3>4. ~ Waits(queue', o)
      BY <2>1, <3>3 DEF Waits
    <3>5. \A b \in Bids \ {o} : x # [kind |-> "fill", order |-> b]
      BY <2>1
    <3>. QED  BY <1>3, <2>1, <3>2, <3>4, <3>5 DEF FlowInv, QueueInv
  <2>3. PICK f : f = [IdleFrame EXCEPT !.step = "create", !.order = o]
    OBVIOUS
  <2>4. f.step = "create" /\ f.order = o
    BY <2>3 DEF IdleFrame
  <2>5. at'[MainLoop] = f /\ \A u \in Threads \ {MainLoop} : at'[u] = at[u]
    BY <1>0, <1>9, <2>1, <2>3 DEF FillBid, Goto
  <2>6. QueuedSum(queue', orders) = QueuedSum(queue, orders) - orders[o].volume
    <3>1. PICK q : q = queue'
      OBVIOUS
    <3>2. \A b \in Bids \ {o} : QueuedOf(q, orders, b) = QueuedOf(queue, orders, b)
      BY <2>2, <3>1 DEF QueuedOf
    <3>3. QueuedSum(q, orders) = QueuedSum(queue, orders) - QueuedOf(queue, orders, o) + QueuedOf(q, orders, o)
      BY <1>0, <3>2, QueuedChange
    <3>4. QueuedOf(queue, orders, o) = orders[o].volume /\ QueuedOf(q, orders, o) = 0
      BY <2>2, <3>1 DEF QueuedOf
    <3>5. orders[o].volume \in Nat
      BY <1>0 DEF Order
    <3>. QED  BY <3>1, <3>3, <3>4, <3>5, BalanceParts
  <2>7. /\ CreatingSum(at', orders) = CreatingSum(at, orders) + orders[o].volume
        /\ CopyingSum(at') = CopyingSum(at)
    <3>1. PICK fs : fs = at'
      OBVIOUS
    <3>2. /\ CreatingSum(fs, orders) = CreatingSum(at, orders) - CreatingOf(at[MainLoop], orders)
                                         + CreatingOf(fs[MainLoop], orders)
          /\ CopyingSum(fs) = CopyingSum(at) - CopyingOf(at[MainLoop]) + CopyingOf(fs[MainLoop])
      BY <1>0, <2>5, <3>1, FrameChange
    <3>3. /\ CreatingOf(at[MainLoop], orders) = 0 /\ CreatingOf(fs[MainLoop], orders) = orders[o].volume
          /\ CopyingOf(at[MainLoop]) = 0 /\ CopyingOf(fs[MainLoop]) = 0
      BY <1>0, <2>4, <2>5, <3>1 DEF CreatingOf, CopyingOf
    <3>4. orders[o].volume \in Nat
      BY <1>0 DEF Order
    <3>. QED  BY <3>1, <3>2, <3>3, <3>4, BalanceParts
  <2>8. Balance' = Balance
    <3>1. orders[o].volume \in Nat
      BY <1>0 DEF Order
    <3>. QED  BY <1>0, <2>6, <2>7, <3>1, BalanceParts DEF Balance
  <2>9. FlowInv'
    BY <1>0, <1>2, <2>2, <2>4, <2>5 DEF FlowInv, At
  <2>. QED  BY <2>8, <2>9
<1>10. x.kind = "close" \/ FillAsk(x.order) \/ FillBid(x.order)
  BY <1>1 DEF TakeTask
<1>. QED  BY <1>7, <1>8, <1>9, <1>10

\* A crash empties the queue and the frames: what was in them is lost.
LEMMA CrashFlow ==
  ASSUME TypeInv, TypeInv', FlowInv, Crash
  PROVE  FlowInv' /\ Balance' <= Balance
<1>1. queue' = <<>> /\ at' = [t \in Threads |-> IdleFrame] /\ pockets' = pockets /\ orders' = orders
  BY DEF Crash, dbVars
<1>2. \A t \in Threads : at'[t].step = "idle"
  BY <1>1 DEF IdleFrame
<1>3. FlowInv'
  BY <1>1, <1>2 DEF FlowInv, QueueInv, At
<1>4. QueuedSum(queue', orders) = 0
  <2> DEFINE f == [o \in Bids |-> QueuedOf(queue', orders, o)]
  <2>1. \A o \in Bids : f[o] = 0
    BY <1>1 DEF QueuedOf, Waits
  <2>2. SumFunctionOnSet(f, Bids) = 0
    <3> HIDE DEF f
    <3>. QED  BY <2>1, FiniteAssumption, ZeroSum
  <2>. QED  BY <2>2 DEF QueuedSum
<1>5. CreatingSum(at', orders) = 0
  <2> DEFINE f == [t \in Threads |-> CreatingOf(at'[t], orders)]
  <2>1. \A t \in Threads : f[t] = 0
    BY <1>2 DEF CreatingOf
  <2>2. SumFunctionOnSet(f, Threads) = 0
    <3> HIDE DEF f
    <3>. QED  BY <2>1, FiniteAssumption, ZeroSum
  <2>. QED  BY <2>2 DEF CreatingSum
<1>6. CopyingSum(at') = 0
  <2> DEFINE f == [t \in Threads |-> CopyingOf(at'[t])]
  <2>1. \A t \in Threads : f[t] = 0
    BY <1>2 DEF CopyingOf
  <2>2. SumFunctionOnSet(f, Threads) = 0
    <3> HIDE DEF f
    <3>. QED  BY <2>1, FiniteAssumption, ZeroSum
  <2>. QED  BY <2>2 DEF CopyingSum
<1>7. Balance' <= Balance
  BY <1>1, <1>4, <1>5, <1>6, BalanceParts DEF Balance
<1>. QED  BY <1>3, <1>7

LEMMA FlowStep == TypeInv /\ FlowInv /\ Owed /\ [Next]_vars => FlowInv' /\ Owed'
<1> SUFFICES ASSUME TypeInv, FlowInv, Owed, [Next]_vars
             PROVE  FlowInv' /\ Owed'
  OBVIOUS
<1>0. TypeInv'
  BY TypeStep
<1>1. ASSUME FlowInv', Balance' = Balance
      PROVE  FlowInv' /\ Owed'
  BY <1>1 DEF Owed
<1>2. ASSUME NEW t \in Threads, Command(t)
      PROVE  FlowInv' /\ Owed'
  BY <1>1, <1>2, BuyFlow, SellFlow, SellAllFlow, CancelFlow, ToolCloseFlow DEF Command
<1>3. ASSUME NEW t \in Threads, Continue(t)
      PROVE  FlowInv' /\ Owed'
  BY <1>0, <1>1, <1>3, SetReasonFlow, ClosePocketFlow, MarkClosingFlow, OnPocketUpdatedFlow, SellPocketFlow,
     LinkOrderFlow, CleanUpFlow, CreatePocketFlow, OnPocketCreatedFlow, MarkClosedFlow,
     MatchSaleFlow, SplitPocketFlow, SaveCopyFlow, ListTargetsFlow, ArchivePocketFlow,
     OnPocketDeletedFlow, SweepStrategyFlow DEF Continue
<1>4. CASE UNCHANGED vars
  <2>1. queue' = queue /\ CalmPockets /\ CalmOrders /\ CalmFrames
    BY <1>4, CalmSame DEF vars, dbVars, memVars
  <2>. QED  BY <1>1, <2>1, Calm
<1>5. CASE Crash
  <2>1. FlowInv' /\ Balance' <= Balance /\ MayCrash
    BY <1>0, <1>5, CrashFlow DEF Crash
  <2>2. Balance' \in Int /\ Balance \in Int
    <3>1. PICK ps, rows, q, fs : ps = pockets' /\ rows = orders' /\ q = queue' /\ fs = at'
      OBVIOUS
    <3>2. ps \in [PocketIds -> Pocket] /\ rows \in [Orders -> Order] /\ fs \in [Threads -> Frames]
      BY <1>0, <3>1 DEF TypeInv, TypeOK, WellFormed, Frames
    <3>3. /\ PocketSum(ps) \in Nat /\ QueuedSum(q, rows) \in Nat /\ DoneSum(rows) \in Nat
          /\ CreatingSum(fs, rows) \in Nat /\ CopyingSum(fs) \in Nat
      BY <3>2, SumsNat
    <3>. QED  BY <3>1, <3>3, BalanceParts DEF Balance
  <2>. QED  BY <2>1, <2>2 DEF Owed
<1>. QED  BY <1>0, <1>1, <1>2, <1>3, <1>4, <1>5, SignalFlow, ExecuteFlow, TakeTaskFlow DEF Next

LEMMA FlowInit == Init => FlowInv /\ Owed
<1> SUFFICES ASSUME Init
             PROVE  FlowInv /\ Owed
  OBVIOUS
<1>0. /\ pockets = [p \in PocketIds |-> NoRow] /\ queue = <<>> /\ at = [t \in Threads |-> IdleFrame]
      /\ \A o \in Bids : orders[o].state = "none"
  BY DEF Init, Orders
<1>1. FlowInv
  BY <1>0 DEF FlowInv, QueueInv, At, IdleFrame, NoRow
<1>2. PocketSum(pockets) = 0
  <2> DEFINE f == [p \in PocketIds |-> pockets[p].volume]
  <2>1. \A p \in PocketIds : f[p] = 0
    BY <1>0 DEF NoRow
  <2>2. SumFunctionOnSet(f, PocketIds) = 0
    <3> HIDE DEF f
    <3>. QED  BY <2>1, FiniteAssumption, ZeroSum
  <2>. QED  BY <2>2 DEF PocketSum
<1>3. QueuedSum(queue, orders) = 0
  <2> DEFINE f == [o \in Bids |-> QueuedOf(queue, orders, o)]
  <2>1. \A o \in Bids : f[o] = 0
    BY <1>0 DEF QueuedOf, Waits
  <2>2. SumFunctionOnSet(f, Bids) = 0
    <3> HIDE DEF f
    <3>. QED  BY <2>1, FiniteAssumption, ZeroSum
  <2>. QED  BY <2>2 DEF QueuedSum
<1>4. DoneSum(orders) = 0
  <2> DEFINE f == [o \in Bids |-> DoneOf(orders, o)]
  <2>1. \A o \in Bids : f[o] = 0
    BY <1>0 DEF DoneOf
  <2>2. SumFunctionOnSet(f, Bids) = 0
    <3> HIDE DEF f
    <3>. QED  BY <2>1, FiniteAssumption, ZeroSum
  <2>. QED  BY <2>2 DEF DoneSum
<1>5. CreatingSum(at, orders) = 0
  <2> DEFINE f == [t \in Threads |-> CreatingOf(at[t], orders)]
  <2>1. \A t \in Threads : f[t] = 0
    BY <1>0 DEF CreatingOf, IdleFrame
  <2>2. SumFunctionOnSet(f, Threads) = 0
    <3> HIDE DEF f
    <3>. QED  BY <2>1, FiniteAssumption, ZeroSum
  <2>. QED  BY <2>2 DEF CreatingSum
<1>6. CopyingSum(at) = 0
  <2> DEFINE f == [t \in Threads |-> CopyingOf(at[t])]
  <2>1. \A t \in Threads : f[t] = 0
    BY <1>0 DEF CopyingOf, IdleFrame
  <2>2. SumFunctionOnSet(f, Threads) = 0
    <3> HIDE DEF f
    <3>. QED  BY <2>1, FiniteAssumption, ZeroSum
  <2>. QED  BY <2>2 DEF CopyingSum
<1>. QED  BY <1>1, <1>2, <1>3, <1>4, <1>5, <1>6 DEF Owed, Balance

\* The balance is what the properties speak of: each of their sums runs over the
\* rows that count, each of the balance's over all rows, with zeros for the others.
LEMMA BalanceMeaning ==
  ASSUME TypeInv
  PROVE  /\ VolumeOf(PocketIds) \in Nat /\ OnTheWay \in Nat /\ Bought \in Nat
         /\ Balance = VolumeOf(PocketIds) + OnTheWay - Bought
<1>0. /\ orders \in [Orders -> Order] /\ at \in [Threads -> Frames] /\ Bids \subseteq Orders
      /\ \A o \in Bids : orders[o].volume \in Nat
  BY FramesType DEF TypeInv, TypeOK, Orders, Order
<1>1. VolumeOf(PocketIds) = PocketSum(pockets)
  BY DEF VolumeOf, PocketSum
<1>2. Bought = DoneSum(orders)
  <2> DEFINE f == [o \in Bids |-> orders[o].volume]
             g == [o \in Bids |-> DoneOf(orders, o)]
  <2>1. /\ DoneBids \in SUBSET Bids /\ \A o \in DoneBids : f[o] \in Int /\ g[o] = f[o]
        /\ \A o \in Bids \ DoneBids : g[o] = 0
    BY <1>0 DEF DoneBids, DoneOf
  <2>2. SumFunctionOnSet(f, DoneBids) = SumFunctionOnSet(g, Bids)
    <3> HIDE DEF f, g
    <3>. QED  BY <2>1, FiniteAssumption, SumFilter
  <2>. QED  BY <2>2 DEF Bought, OrderVolume, DoneSum
<1>3. OrderVolume(Queued) = QueuedSum(queue, orders)
  <2> DEFINE f == [o \in Bids |-> orders[o].volume]
             g == [o \in Bids |-> QueuedOf(queue, orders, o)]
  <2>1. /\ Queued \in SUBSET Bids /\ \A o \in Queued : f[o] \in Int /\ g[o] = f[o]
        /\ \A o \in Bids \ Queued : g[o] = 0
    BY <1>0 DEF Queued, QueuedOf, Waits
  <2>2. SumFunctionOnSet(f, Queued) = SumFunctionOnSet(g, Bids)
    <3> HIDE DEF f, g
    <3>. QED  BY <2>1, FiniteAssumption, SumFilter
  <2>. QED  BY <2>2 DEF OrderVolume, QueuedSum
<1>4. SumFunctionOnSet([t \in Creating |-> orders[at[t].order].volume], Creating) = CreatingSum(at, orders)
  <2> DEFINE f == [t \in Creating |-> orders[at[t].order].volume]
             g == [t \in Threads |-> CreatingOf(at[t], orders)]
  <2>0. \A t \in Threads : at[t].step = "create" => at[t].order \in Bids
    BY <1>0 DEF Frames
  <2>1. /\ Creating \in SUBSET Threads /\ \A t \in Creating : f[t] \in Int /\ g[t] = f[t]
        /\ \A t \in Threads \ Creating : g[t] = 0
    BY <1>0, <2>0 DEF Creating, CreatingOf, At
  <2>2. SumFunctionOnSet(f, Creating) = SumFunctionOnSet(g, Threads)
    <3> HIDE DEF f, g
    <3>. QED  BY <2>1, FiniteAssumption, SumFilter
  <2>. QED  BY <2>2 DEF CreatingSum
<1>5. SumFunctionOnSet([t \in Threads |-> at[t].rest], Copying) = CopyingSum(at)
  <2> DEFINE f == [t \in Threads |-> at[t].rest]
             g == [t \in Threads |-> CopyingOf(at[t])]
  <2>0. \A t \in Threads : at[t].rest \in Nat
    BY <1>0 DEF Frames, Frame
  <2>1. /\ Copying \in SUBSET Threads /\ \A t \in Copying : f[t] \in Int /\ g[t] = f[t]
        /\ \A t \in Threads \ Copying : g[t] = 0
    BY <2>0 DEF Copying, CopyingOf, At
  <2>2. SumFunctionOnSet(f, Copying) = SumFunctionOnSet(g, Threads)
    <3> HIDE DEF f, g
    <3>. QED  BY <2>1, FiniteAssumption, SumFilter
  <2>. QED  BY <2>2 DEF CopyingSum
<1>6. OnTheWay = QueuedSum(queue, orders) + CreatingSum(at, orders) + CopyingSum(at)
  BY <1>3, <1>4, <1>5 DEF OnTheWay
<1>. QED  BY <1>1, <1>2, <1>6, BalanceParts DEF Balance

\* The main loop creates, splits and closes pockets while tools start sales, sell
\* by hand and cancel: the pockets still hold what was bought, and a crash at any
\* step takes at most a fill away.  (on_order_completed, close_pockets_by_ticker.)
THEOREM BuysAreNotCountedTwice == Spec => []VolumeNotInvented
<1>1. Init => TypeInv /\ FlowInv /\ Owed
  <2>1. Init => TypeInv
    BY TypeInit DEF Init, TypeInv, WellFormed, IdleFrame, PocketSteps, MainSteps
  <2>. QED  BY <2>1, FlowInit
<1>2. TypeInv /\ FlowInv /\ Owed /\ [Next]_vars => (TypeInv /\ FlowInv /\ Owed)'
  BY TypeStep, FlowStep
<1>3. TypeInv /\ Owed => VolumeNotInvented
  BY BalanceMeaning DEF Owed, VolumeNotInvented
<1>. QED  BY <1>1, <1>2, <1>3, PTL DEF Spec

\* Without a crash, no fill is lost either.
THEOREM NoBuyIsLost ==
  ASSUME MayCrash = FALSE
  PROVE  Spec => []VolumeConserved
<1>1. Init => TypeInv /\ FlowInv /\ Owed
  <2>1. Init => TypeInv
    BY TypeInit DEF Init, TypeInv, WellFormed, IdleFrame, PocketSteps, MainSteps
  <2>. QED  BY <2>1, FlowInit
<1>2. TypeInv /\ FlowInv /\ Owed /\ [Next]_vars => (TypeInv /\ FlowInv /\ Owed)'
  BY TypeStep, FlowStep
<1>3. TypeInv /\ Owed => VolumeConserved
  <2> SUFFICES ASSUME TypeInv, Owed
               PROVE  VolumeConserved
    OBVIOUS
  <2>1. Balance = 0
    BY DEF Owed
  <2>2. /\ VolumeOf(PocketIds) \in Nat /\ OnTheWay \in Nat /\ Bought \in Nat
        /\ Balance = VolumeOf(PocketIds) + OnTheWay - Bought
    BY BalanceMeaning
  <2>. QED  BY <2>1, <2>2 DEF VolumeConserved
<1>. QED  BY <1>1, <1>2, <1>3, PTL DEF Spec

----------------------------------------------------------------------------
(* With the main loop as the only thread, without sales by hand and without *)
(* crashes, the free coins always cover the pockets that have no sale yet,  *)
(* a closed pocket was sold, and open pockets and strategies belong         *)
(* together.  A second thread can come between two steps of the first, and  *)
(* a crash cuts off the steps that were to follow; with neither, the order  *)
(* of the steps is enough.                                                  *)

Working == {"reason", "guard", "closing", "updated", "sell", "link", "cleanup", "closed"}
Sold(row, rows) == row.order \in Asks /\ rows[row.order].state = "done"

\* What the only thread knows of the pocket it works on.
FrameInv(f) ==
  /\ f.step \in Working \cup {"idle", "create", "opened"}
  /\ f.then \in {"idle", "guard"} /\ f.todo = {} /\ f.rest = 0
  /\ f.step \in Working => f.pocket \in table
  /\ f.step = "closed" => Sold(pockets[f.pocket], orders)
  /\ f.step \in {"sell", "link"} =>
       pockets[f.pocket].status = "closing" /\ pockets[f.pocket].order = NoOrder
  /\ f.step = "closing" => pockets[f.pocket].status = "active"
  /\ f.step = "opened" => pockets[f.new].status = "active"

RowsInv ==
  /\ table = {p \in PocketIds : pockets[p].status # "none"} /\ loaded = table
  /\ \A p \in PocketIds : pockets[p].status = "closed" => Sold(pockets[p], orders)
  /\ \A p \in PocketIds : pockets[p].status = "active" => pockets[p].order = NoOrder

\* A strategy outlives its pocket, and a pocket waits for its strategy, only
\* between two steps of the task that sees to it.
StrategiesInv(f) ==
  /\ strategies = stratRows
  /\ \A p \in strategies : IsOpen(p) \/ (f.step \in {"updated", "cleanup"} /\ f.pocket = p)
  /\ \A p \in PocketIds : IsOpen(p) => p \in strategies \/ (f.step = "opened" /\ f.new = p)

\* The coins that pockets without a sale, queued fills and a fill being turned
\* into a pocket will need.
HeldOf(ps, f, p) ==
  IF /\ ps[p].status = "active" \/ (ps[p].status = "closing" /\ ps[p].order = NoOrder)
     /\ ~ (f.step = "link" /\ f.pocket = p)
  THEN ps[p].volume ELSE 0
HeldSum(ps, f) == SumFunctionOnSet([p \in PocketIds |-> HeldOf(ps, f, p)], PocketIds)
Reserve == HeldSum(pockets, at[MainLoop]) + QueuedSum(queue, orders)
             + CreatingOf(at[MainLoop], orders)

SoleInv == /\ FrameInv(at[MainLoop]) /\ RowsInv /\ StrategiesInv(at[MainLoop])
           /\ coins >= Reserve

LEMMA HeldNat ==
  ASSUME NEW ps \in [PocketIds -> Pocket], NEW f
  PROVE  HeldSum(ps, f) \in Nat /\ \A p \in PocketIds : HeldOf(ps, f, p) \in Nat
<1> DEFINE h == [p \in PocketIds |-> HeldOf(ps, f, p)]
<1>1. \A p \in PocketIds : HeldOf(ps, f, p) \in Nat
  BY DEF HeldOf, Pocket
<1>2. SumFunctionOnSet(h, PocketIds) \in Nat
  <2>1. \A p \in PocketIds : h[p] \in Nat
    BY <1>1
  <2> HIDE DEF h
  <2>. QED  BY <2>1, FiniteAssumption, SumNat
<1>. QED  BY <1>1, <1>2 DEF HeldSum

LEMMA HeldSame ==
  ASSUME NEW ps \in [PocketIds -> Pocket], NEW f, NEW ps2, NEW f2,
         \A p \in PocketIds : HeldOf(ps2, f2, p) = HeldOf(ps, f, p)
  PROVE  HeldSum(ps2, f2) = HeldSum(ps, f)
<1> DEFINE h == [p \in PocketIds |-> HeldOf(ps, f, p)]
           h2 == [p \in PocketIds |-> HeldOf(ps2, f2, p)]
<1>1. \A p \in PocketIds : h[p] \in Int /\ h[p] = h2[p]
  BY HeldNat
<1>2. SumFunctionOnSet(h, PocketIds) = SumFunctionOnSet(h2, PocketIds)
  <2> HIDE DEF h, h2
  <2>. QED  BY <1>1, FiniteAssumption, SumSame
<1>. QED  BY <1>2 DEF HeldSum

LEMMA HeldChange ==
  ASSUME NEW ps \in [PocketIds -> Pocket], NEW f, NEW ps2 \in [PocketIds -> Pocket], NEW f2,
         NEW p \in PocketIds, \A q \in PocketIds \ {p} : HeldOf(ps2, f2, q) = HeldOf(ps, f, q)
  PROVE  HeldSum(ps2, f2) = HeldSum(ps, f) - HeldOf(ps, f, p) + HeldOf(ps2, f2, p)
<1> DEFINE h == [q \in PocketIds |-> HeldOf(ps, f, q)]
           h2 == [q \in PocketIds |-> HeldOf(ps2, f2, q)]
<1>1. \A q \in PocketIds : h[q] \in Int /\ h2[q] \in Int
  BY HeldNat
<1>2. /\ h[p] = HeldOf(ps, f, p) /\ h2[p] = HeldOf(ps2, f2, p)
      /\ \A q \in PocketIds \ {p} : h[q] = h2[q]
  OBVIOUS
<1>3. SumFunctionOnSet(h2, PocketIds) = SumFunctionOnSet(h, PocketIds) - h[p] + h2[p]
  <2> HIDE DEF h, h2
  <2>. QED  BY <1>1, <1>2, FiniteAssumption, SumChange
<1>. QED  BY <1>2, <1>3 DEF HeldSum

LEMMA ReserveParts ==
  ASSUME TypeInv
  PROVE  /\ HeldSum(pockets, at[MainLoop]) \in Nat /\ QueuedSum(queue, orders) \in Nat
         /\ CreatingOf(at[MainLoop], orders) \in Nat
<1>1. MainLoop \in Threads
  BY PocketsAssumption
<1>. QED  BY <1>1, FramesType, SumsNat, VolumesNat, HeldNat DEF TypeInv, TypeOK

\* A step after which the same coins are needed.
LEMMA SameReserve ==
  ASSUME TypeInv, FlowInv, CalmOrders, queue' = queue,
         \A p \in PocketIds : HeldOf(pockets', at'[MainLoop], p) = HeldOf(pockets, at[MainLoop], p),
         at[MainLoop].step # "create", at'[MainLoop].step # "create"
  PROVE  Reserve' = Reserve
<1>1. QueuedSum(queue', orders') = QueuedSum(queue, orders)
  BY QueuedCalm
<1>2. HeldSum(pockets', at'[MainLoop]) = HeldSum(pockets, at[MainLoop])
  BY HeldSame DEF TypeInv, TypeOK
<1>3. CreatingOf(at[MainLoop], orders) = 0 /\ CreatingOf(at'[MainLoop], orders') = 0
  BY DEF CreatingOf
<1>. QED  BY <1>1, <1>2, <1>3 DEF Reserve

\* Every step the only thread can take.
LEMMA SetReasonSole ==
  ASSUME TypeInv, FlowInv, SoleInv, SetReason(MainLoop)
  PROVE  SoleInv'
<1>0. /\ TypeOK /\ MainLoop \in Threads /\ at[MainLoop] \in Frame
      /\ WellFormed(MainLoop, at[MainLoop], pockets)
  BY PocketsAssumption DEF TypeInv, TypeOK
<1>1. PICK g : g = [at[MainLoop] EXCEPT !.step = "updated", !.then = "guard"]
  OBVIOUS
<1>2. /\ g.step = "updated" /\ g.then = "guard" /\ g.pocket = at[MainLoop].pocket
      /\ g.todo = at[MainLoop].todo /\ g.rest = at[MainLoop].rest
  BY <1>0, <1>1, SMT DEF Frame
<1>3. at'[MainLoop] = g /\ at[MainLoop].step = "reason"
  BY <1>0, <1>1, Moved DEF SetReason, At
<1>4. at[MainLoop].pocket \in table
  BY <1>3 DEF SoleInv, FrameInv, Working
<1>5. pockets' = pockets /\ table' = table
  BY <1>0, <1>4 DEF SetReason, Save, TypeOK
<1>6. UNCHANGED <<stratRows, orders, coins, loaded, strategies, queue>>
  BY DEF SetReason
<1>7. Reserve' = Reserve
  BY <1>2, <1>3, <1>5, <1>6, SameReserve, CalmSame DEF HeldOf
<1>8. FrameInv(g)' /\ RowsInv' /\ StrategiesInv(g)'
  BY <1>2, <1>3, <1>4, <1>5, <1>6 DEF SoleInv, FrameInv, RowsInv, StrategiesInv, Working, IsOpen
<1>. QED  BY <1>3, <1>6, <1>7, <1>8 DEF SoleInv

LEMMA ClosePocketSole ==
  ASSUME TypeInv, FlowInv, SoleInv, ClosePocket(MainLoop)
  PROVE  SoleInv'
<1>0. /\ TypeOK /\ MainLoop \in Threads /\ at[MainLoop] \in Frame
      /\ WellFormed(MainLoop, at[MainLoop], pockets)
  BY PocketsAssumption DEF TypeInv, TypeOK
<1>1. PICK g : g = [at[MainLoop] EXCEPT !.step = "closing"]
  OBVIOUS
<1>2. /\ g.step = "closing" /\ g.then = at[MainLoop].then /\ g.pocket = at[MainLoop].pocket
      /\ g.todo = at[MainLoop].todo /\ g.rest = at[MainLoop].rest
  BY <1>0, <1>1, SMT DEF Frame
<1>3. /\ at[MainLoop].step = "guard" /\ UNCHANGED <<dbVars, loaded, strategies, queue>>
      /\ \/ at'[MainLoop] = g /\ pockets[at[MainLoop].pocket].status = "active"
         \/ at'[MainLoop] = IdleFrame
  BY <1>0, <1>1, IdleFrameType, Moved DEF ClosePocket, At, Return, Closable
<1>4. UNCHANGED <<pockets, table, stratRows, orders, coins>>
  BY <1>3 DEF dbVars
<1>5. IdleFrame.step = "idle" /\ IdleFrame.then = "idle" /\ IdleFrame.todo = {} /\ IdleFrame.rest = 0
  BY DEF IdleFrame
<1>6. Reserve' = Reserve
  BY <1>2, <1>3, <1>4, <1>5, SameReserve, CalmSame DEF HeldOf
<1>7. FrameInv(at[MainLoop])' /\ RowsInv' /\ StrategiesInv(at[MainLoop])'
  BY <1>2, <1>3, <1>4, <1>5 DEF SoleInv, FrameInv, RowsInv, StrategiesInv, Working, IsOpen
<1>. QED  BY <1>4, <1>6, <1>7 DEF SoleInv

LEMMA MarkClosingSole ==
  ASSUME TypeInv, FlowInv, SoleInv, MarkClosing(MainLoop)
  PROVE  SoleInv'
<1>0. /\ TypeOK /\ MainLoop \in Threads /\ at[MainLoop] \in Frame
      /\ WellFormed(MainLoop, at[MainLoop], pockets)
  BY PocketsAssumption DEF TypeInv, TypeOK
<1>1. PICK g : g = [at[MainLoop] EXCEPT !.step = "updated", !.then = "idle"]
  OBVIOUS
<1>2. /\ g.step = "updated" /\ g.then = "idle" /\ g.pocket = at[MainLoop].pocket
      /\ g.todo = at[MainLoop].todo /\ g.rest = at[MainLoop].rest
  BY <1>0, <1>1, SMT DEF Frame
<1>3. PICK p, r : p = at[MainLoop].pocket /\ r = [pockets[p] EXCEPT !.status = "closing"]
  OBVIOUS
<1>4. at'[MainLoop] = g /\ at[MainLoop].step = "closing" /\ Save(p, r)
  BY <1>0, <1>1, <1>3, Moved DEF MarkClosing, At
<1>5. p \in table /\ p \in PocketIds /\ pockets[p].status = "active" /\ pockets[p].order = NoOrder
  BY <1>0, <1>3, <1>4 DEF SoleInv, FrameInv, RowsInv, Working, TypeOK
<1>6. r.status = "closing" /\ r.order = NoOrder /\ r.volume = pockets[p].volume
  BY <1>0, <1>3, <1>5, SMT DEF TypeOK, Pocket
<1>7. /\ pockets'[p] = r /\ \A q \in PocketIds \ {p} : pockets'[q] = pockets[q]
      /\ table' = table /\ UNCHANGED <<stratRows, orders, coins, loaded, strategies, queue>>
  BY <1>0, <1>4, <1>5 DEF Save, TypeOK, MarkClosing
<1>8. Reserve' = Reserve
  <2>1. \A q \in PocketIds : HeldOf(pockets', g, q) = HeldOf(pockets, at[MainLoop], q)
    BY <1>2, <1>4, <1>5, <1>6, <1>7 DEF HeldOf
  <2>. QED  BY <1>2, <1>4, <1>7, <2>1, SameReserve, CalmSame
<1>9. RowsInv'
  BY <1>5, <1>6, <1>7 DEF SoleInv, RowsInv
<1>10. FrameInv(g)'
  BY <1>2, <1>3, <1>4, <1>5, <1>7 DEF SoleInv, FrameInv, Working
<1>11. StrategiesInv(g)'
  <2>1. strategies \subseteq PocketIds /\ \A q \in PocketIds : IsOpen(q) => IsOpen(q)'
    BY <1>0, <1>5, <1>6, <1>7 DEF TypeOK, IsOpen
  <2>2. \A q \in PocketIds : IsOpen(q)' => IsOpen(q)
    BY <1>5, <1>7 DEF IsOpen
  <2>. QED  BY <1>2, <1>4, <1>7, <2>1, <2>2 DEF SoleInv, StrategiesInv
<1>. QED  BY <1>4, <1>7, <1>8, <1>9, <1>10, <1>11 DEF SoleInv

LEMMA OnPocketUpdatedSole ==
  ASSUME TypeInv, FlowInv, SoleInv, OnPocketUpdated(MainLoop)
  PROVE  SoleInv'
<1>0. /\ TypeOK /\ MainLoop \in Threads /\ at[MainLoop] \in Frame
      /\ WellFormed(MainLoop, at[MainLoop], pockets)
  BY PocketsAssumption DEF TypeInv, TypeOK
<1>1. PICK g : g = [at[MainLoop] EXCEPT !.step = IF NeedsSale(at[MainLoop].pocket) THEN "sell" ELSE "cleanup"]
  OBVIOUS
<1>2. /\ g.step = (IF NeedsSale(at[MainLoop].pocket) THEN "sell" ELSE "cleanup")
      /\ g.then = at[MainLoop].then /\ g.pocket = at[MainLoop].pocket
      /\ g.todo = at[MainLoop].todo /\ g.rest = at[MainLoop].rest
  BY <1>0, <1>1, SMT DEF Frame
<1>3. /\ at'[MainLoop] = g /\ at[MainLoop].step = "updated"
      /\ UNCHANGED <<pockets, table, stratRows, orders, coins, loaded, strategies, queue>>
  BY <1>0, <1>1, Moved DEF OnPocketUpdated, At, dbVars
<1>4. Reserve' = Reserve
  BY <1>2, <1>3, SameReserve, CalmSame DEF HeldOf
<1>5. FrameInv(g)' /\ RowsInv'
  BY <1>2, <1>3 DEF SoleInv, FrameInv, RowsInv, Working, NeedsSale
<1>6. StrategiesInv(g)'
  BY <1>2, <1>3 DEF SoleInv, StrategiesInv, IsOpen, NeedsSale
<1>. QED  BY <1>3, <1>4, <1>5, <1>6 DEF SoleInv

LEMMA SellPocketSole ==
  ASSUME TypeInv, FlowInv, SoleInv, SellPocket(MainLoop)
  PROVE  SoleInv'
<1>0. /\ TypeOK /\ MainLoop \in Threads /\ at[MainLoop] \in Frame
      /\ WellFormed(MainLoop, at[MainLoop], pockets)
  BY PocketsAssumption DEF TypeInv, TypeOK
<1>1. CASE Return(MainLoop) /\ UNCHANGED <<orders, coins>>
  <2>1. /\ at'[MainLoop] = IdleFrame /\ at[MainLoop].step = "sell"
        /\ UNCHANGED <<pockets, table, stratRows, orders, coins, loaded, strategies, queue>>
    BY <1>0, <1>1, IdleFrameType, Moved DEF SellPocket, At, Return
  <2>2. IdleFrame.step = "idle" /\ IdleFrame.then = "idle" /\ IdleFrame.todo = {} /\ IdleFrame.rest = 0
    BY DEF IdleFrame
  <2>3. Reserve' = Reserve
    BY <2>1, <2>2, SameReserve, CalmSame DEF HeldOf
  <2>4. FrameInv(IdleFrame)' /\ RowsInv' /\ StrategiesInv(IdleFrame)'
    BY <2>1, <2>2 DEF SoleInv, FrameInv, RowsInv, StrategiesInv, Working, IsOpen
  <2>. QED  BY <2>1, <2>3, <2>4 DEF SoleInv
<1>2. CASE ~ (Return(MainLoop) /\ UNCHANGED <<orders, coins>>)
  <2>1. PICK p, v : p = at[MainLoop].pocket /\ v = pockets[p].volume
    OBVIOUS
  <2>2. PICK o \in Asks : NewOrder(o, v) /\ Goto(MainLoop, [at[MainLoop] EXCEPT !.step = "link", !.order = o])
    BY <1>2, <2>1 DEF SellPocket
  <2>3. PICK g : g = [at[MainLoop] EXCEPT !.step = "link", !.order = o]
    OBVIOUS
  <2>4. /\ g.step = "link" /\ g.then = at[MainLoop].then /\ g.pocket = at[MainLoop].pocket
        /\ g.todo = at[MainLoop].todo /\ g.rest = at[MainLoop].rest
    BY <1>0, <2>3, SMT DEF Frame
  <2>5. /\ at'[MainLoop] = g /\ at[MainLoop].step = "sell" /\ coins >= v /\ coins' = coins - v
        /\ UNCHANGED <<pockets, table, stratRows, loaded, strategies, queue>>
    BY <1>0, <1>2, <2>1, <2>2, <2>3, Moved DEF SellPocket, At, Affordable
  <2>6. CalmOrders
    BY <2>2, CalmAsk DEF Orders
  <2>7. p \in table /\ p \in PocketIds /\ pockets[p].status = "closing" /\ pockets[p].order = NoOrder
    BY <1>0, <2>1, <2>5 DEF SoleInv, FrameInv, Working, TypeOK
  <2>8. HeldSum(pockets', g) = HeldSum(pockets, at[MainLoop]) - v
    <3>1. \A q \in PocketIds \ {p} : HeldOf(pockets, g, q) = HeldOf(pockets, at[MainLoop], q)
      BY <2>1, <2>4, <2>5 DEF HeldOf
    <3>2. HeldOf(pockets, g, p) = 0 /\ HeldOf(pockets, at[MainLoop], p) = v
      BY <2>1, <2>4, <2>5, <2>7 DEF HeldOf
    <3>3. HeldSum(pockets, g) = HeldSum(pockets, at[MainLoop]) - HeldOf(pockets, at[MainLoop], p) + HeldOf(pockets, g, p)
      BY <1>0, <2>7, <3>1, HeldChange DEF TypeOK
    <3>4. v \in Nat
      BY <1>0, <2>1, <2>7 DEF TypeOK, Pocket
    <3>. QED  BY <2>5, <3>2, <3>3, <3>4, ReserveParts
  <2>9. coins' >= Reserve'
    <3>1. QueuedSum(queue', orders') = QueuedSum(queue, orders)
      BY <2>5, <2>6, QueuedCalm
    <3>2. CreatingOf(at[MainLoop], orders) = 0 /\ CreatingOf(g, orders') = 0
      BY <2>4, <2>5 DEF CreatingOf
    <3>3. v \in Nat /\ coins \in Nat
      BY <1>0, <2>1, <2>7 DEF TypeOK, Pocket
    <3>. QED  BY <2>5, <2>8, <3>1, <3>2, <3>3, ReserveParts DEF SoleInv, Reserve
  <2>10. \A q \in PocketIds : Sold(pockets[q], orders) => Sold(pockets[q], orders')
    BY <2>6 DEF Sold, CalmOrders, Orders
  <2>11. FrameInv(g)' /\ RowsInv'
    BY <2>1, <2>4, <2>5, <2>7, <2>10 DEF SoleInv, FrameInv, RowsInv, Working
  <2>12. StrategiesInv(g)'
    BY <2>4, <2>5 DEF SoleInv, StrategiesInv, IsOpen
  <2>. QED  BY <2>5, <2>9, <2>11, <2>12 DEF SoleInv
<1>. QED  BY <1>1, <1>2

LEMMA LinkOrderSole ==
  ASSUME TypeInv, FlowInv, SoleInv, LinkOrder(MainLoop)
  PROVE  SoleInv'
<1>0. /\ TypeOK /\ MainLoop \in Threads /\ at[MainLoop] \in Frame
      /\ WellFormed(MainLoop, at[MainLoop], pockets)
  BY PocketsAssumption DEF TypeInv, TypeOK
<1>1. PICK g : g = [at[MainLoop] EXCEPT !.step = "cleanup"]
  OBVIOUS
<1>2. /\ g.step = "cleanup" /\ g.then = at[MainLoop].then /\ g.pocket = at[MainLoop].pocket
      /\ g.todo = at[MainLoop].todo /\ g.rest = at[MainLoop].rest
  BY <1>0, <1>1, SMT DEF Frame
<1>3. PICK p, r : p = at[MainLoop].pocket /\ r = [pockets[p] EXCEPT !.order = at[MainLoop].order]
  OBVIOUS
<1>4. at'[MainLoop] = g /\ at[MainLoop].step = "link" /\ Save(p, r)
  BY <1>0, <1>1, <1>3, Moved DEF LinkOrder, At
<1>5. /\ p \in table /\ p \in PocketIds /\ pockets[p].status = "closing"
      /\ at[MainLoop].order \in Asks /\ NoOrder \notin Asks
  BY <1>0, <1>3, <1>4, PocketsAssumption DEF SoleInv, FrameInv, Working, TypeOK, WellFormed, Orders
<1>6. r.status = "closing" /\ r.order = at[MainLoop].order /\ r.volume = pockets[p].volume
  BY <1>0, <1>3, <1>5, SMT DEF TypeOK, Pocket
<1>7. /\ pockets'[p] = r /\ \A q \in PocketIds \ {p} : pockets'[q] = pockets[q]
      /\ table' = table /\ UNCHANGED <<stratRows, orders, coins, loaded, strategies, queue>>
  BY <1>0, <1>4, <1>5 DEF Save, TypeOK, LinkOrder
<1>8. Reserve' = Reserve
  <2>1. \A q \in PocketIds : HeldOf(pockets', g, q) = HeldOf(pockets, at[MainLoop], q)
    <3>1. HeldOf(pockets', g, p) = 0
      BY <1>5, <1>6, <1>7 DEF HeldOf
    <3>2. HeldOf(pockets, at[MainLoop], p) = 0
      BY <1>3, <1>4 DEF HeldOf
    <3>3. \A q \in PocketIds \ {p} : HeldOf(pockets', g, q) = HeldOf(pockets, at[MainLoop], q)
      BY <1>2, <1>3, <1>7 DEF HeldOf
    <3>. QED  BY <3>1, <3>2, <3>3
  <2>. QED  BY <1>2, <1>4, <1>7, <2>1, SameReserve, CalmSame
<1>9. RowsInv'
  BY <1>5, <1>6, <1>7 DEF SoleInv, RowsInv
<1>10. FrameInv(g)'
  BY <1>2, <1>3, <1>4, <1>5, <1>7 DEF SoleInv, FrameInv, Working
<1>11. StrategiesInv(g)'
  <2>1. strategies \subseteq PocketIds /\ \A q \in PocketIds : IsOpen(q) => IsOpen(q)'
    BY <1>0, <1>5, <1>6, <1>7 DEF TypeOK, IsOpen
  <2>2. \A q \in PocketIds : IsOpen(q)' => IsOpen(q)
    BY <1>5, <1>7 DEF IsOpen
  <2>. QED  BY <1>2, <1>4, <1>7, <2>1, <2>2 DEF SoleInv, StrategiesInv
<1>. QED  BY <1>4, <1>7, <1>8, <1>9, <1>10, <1>11 DEF SoleInv

LEMMA CleanUpSole ==
  ASSUME TypeInv, FlowInv, SoleInv, CleanUp(MainLoop)
  PROVE  SoleInv'
<1>0. /\ TypeOK /\ MainLoop \in Threads /\ at[MainLoop] \in Frame
      /\ WellFormed(MainLoop, at[MainLoop], pockets)
  BY PocketsAssumption DEF TypeInv, TypeOK
<1>1. PICK g : g = [at[MainLoop] EXCEPT !.step = at[MainLoop].then]
  OBVIOUS
<1>2. /\ g.step = at[MainLoop].then /\ g.then = at[MainLoop].then /\ g.pocket = at[MainLoop].pocket
      /\ g.todo = at[MainLoop].todo /\ g.rest = at[MainLoop].rest
  BY <1>0, <1>1, SMT DEF Frame
<1>3. PICK p : p = at[MainLoop].pocket
  OBVIOUS
<1>4. /\ at[MainLoop].step = "cleanup" /\ UNCHANGED <<pockets, table, orders, coins, loaded, queue>>
      /\ \/ at'[MainLoop] = g /\ at[MainLoop].then # "idle"
         \/ at'[MainLoop] = IdleFrame
  BY <1>0, <1>1, IdleFrameType, Moved DEF CleanUp, At, Return
<1>5. IdleFrame.step = "idle" /\ IdleFrame.then = "idle" /\ IdleFrame.todo = {} /\ IdleFrame.rest = 0
  BY DEF IdleFrame
<1>6. at[MainLoop].then \in {"idle", "guard"} /\ p \in table /\ p \in PocketIds
  BY <1>0, <1>3, <1>4 DEF SoleInv, FrameInv, Working, TypeOK
<1>7. Reserve' = Reserve
  BY <1>2, <1>4, <1>5, <1>6, SameReserve, CalmSame DEF HeldOf
<1>8. FrameInv(at[MainLoop])' /\ RowsInv'
  BY <1>2, <1>3, <1>4, <1>5, <1>6 DEF SoleInv, FrameInv, RowsInv, Working
<1>9. StrategiesInv(at[MainLoop])'
  <2>1. at'[MainLoop].step \in {"idle", "guard"}
    BY <1>2, <1>4, <1>5, <1>6
  <2>2. IF pockets[p].status = "closed" THEN strategies' = strategies \ {p} /\ stratRows' = stratRows \ {p}
        ELSE strategies' = strategies /\ stratRows' = stratRows
    BY <1>3 DEF CleanUp, MustCleanUp, DropStrategies
  <2>3. IsOpen(p) <=> pockets[p].status # "closed"
    BY <1>0, <1>6 DEF IsOpen, SoleInv, RowsInv, TypeOK, Pocket
  <2>4. \A q \in strategies' : IsOpen(q)
    BY <1>3, <1>4, <2>2, <2>3 DEF SoleInv, StrategiesInv
  <2>5. \A q \in PocketIds : IsOpen(q) => q \in strategies'
    BY <1>4, <2>2, <2>3 DEF SoleInv, StrategiesInv
  <2>. QED  BY <1>4, <2>2, <2>4, <2>5 DEF SoleInv, StrategiesInv, IsOpen
<1>. QED  BY <1>4, <1>7, <1>8, <1>9 DEF SoleInv

LEMMA CreatePocketSole ==
  ASSUME TypeInv, FlowInv, SoleInv, CreatePocket(MainLoop)
  PROVE  SoleInv'
<1>0. /\ TypeOK /\ MainLoop \in Threads /\ at[MainLoop] \in Frame
      /\ WellFormed(MainLoop, at[MainLoop], pockets)
  BY PocketsAssumption DEF TypeInv, TypeOK
<1>1. PICK p \in PocketIds, e \in Entries :
        /\ pockets[p].status = "none"
        /\ Save(p, [status |-> "active", volume |-> orders[at[MainLoop].order].volume,
                    entry |-> e, order |-> NoOrder])
        /\ loaded' = loaded \cup {p}
        /\ Goto(MainLoop, [IdleFrame EXCEPT !.step = "opened", !.new = p])
  BY DEF CreatePocket
<1>2. PICK g : g = [IdleFrame EXCEPT !.step = "opened", !.new = p]
  OBVIOUS
<1>3. g.step = "opened" /\ g.then = "idle" /\ g.new = p /\ g.todo = {} /\ g.rest = 0
  BY <1>2 DEF IdleFrame
<1>4. PICK v : v = orders[at[MainLoop].order].volume
  OBVIOUS
<1>5. /\ at'[MainLoop] = g /\ at[MainLoop].step = "create" /\ v \in Nat
      /\ UNCHANGED <<stratRows, orders, coins, strategies, queue>>
  BY <1>0, <1>1, <1>2, <1>4, Moved DEF CreatePocket, At, WellFormed, TypeOK, Orders, Order
<1>6. /\ pockets'[p].status = "active" /\ pockets'[p].order = NoOrder /\ pockets'[p].volume = v
      /\ \A q \in PocketIds \ {p} : pockets'[q] = pockets[q]
      /\ table' = table \cup {p} /\ loaded' = loaded \cup {p}
      /\ pockets' \in [PocketIds -> Pocket]
  <2>1. [status |-> "active", volume |-> v, entry |-> e, order |-> NoOrder] \in Pocket
    BY <1>5, PocketsAssumption DEF Pocket
  <2>. QED  BY <1>0, <1>1, <1>4, <2>1 DEF Save, TypeOK
<1>7. HeldSum(pockets', g) = HeldSum(pockets, at[MainLoop]) + v
  <2>1. PICK ps : ps = pockets'
    OBVIOUS
  <2>2. \A q \in PocketIds \ {p} : HeldOf(ps, g, q) = HeldOf(pockets, at[MainLoop], q)
    BY <1>3, <1>5, <1>6, <2>1 DEF HeldOf
  <2>3. HeldOf(pockets, at[MainLoop], p) = 0 /\ HeldOf(ps, g, p) = v
    BY <1>1, <1>3, <1>6, <2>1 DEF HeldOf
  <2>4. HeldSum(ps, g) = HeldSum(pockets, at[MainLoop]) - HeldOf(pockets, at[MainLoop], p) + HeldOf(ps, g, p)
    BY <1>0, <1>6, <2>1, <2>2, HeldChange DEF TypeOK
  <2>. QED  BY <1>5, <2>1, <2>3, <2>4, ReserveParts
<1>8. Reserve' = Reserve
  <2>1. CreatingOf(at[MainLoop], orders) = v /\ CreatingOf(g, orders') = 0
    BY <1>3, <1>4, <1>5 DEF CreatingOf
  <2>2. QueuedSum(queue', orders') = QueuedSum(queue, orders)
    BY <1>5
  <2>. QED  BY <1>5, <1>7, <2>1, <2>2, ReserveParts DEF Reserve
<1>9. FrameInv(g)'
  BY <1>3, <1>6 DEF FrameInv, Working
<1>10. RowsInv'
  BY <1>1, <1>5, <1>6 DEF SoleInv, RowsInv
<1>11. StrategiesInv(g)'
  <2>1. strategies \subseteq PocketIds /\ \A q \in PocketIds : IsOpen(q) => IsOpen(q)'
    BY <1>0, <1>6 DEF TypeOK, IsOpen
  <2>2. \A q \in PocketIds : IsOpen(q)' => IsOpen(q) \/ q = p
    BY <1>6 DEF IsOpen
  <2>. QED  BY <1>3, <1>5, <2>1, <2>2 DEF SoleInv, StrategiesInv
<1>. QED  BY <1>5, <1>8, <1>9, <1>10, <1>11 DEF SoleInv

LEMMA OnPocketCreatedSole ==
  ASSUME TypeInv, FlowInv, SoleInv, OnPocketCreated(MainLoop)
  PROVE  SoleInv'
<1>0. /\ TypeOK /\ MainLoop \in Threads /\ at[MainLoop] \in Frame
      /\ WellFormed(MainLoop, at[MainLoop], pockets)
  BY PocketsAssumption DEF TypeInv, TypeOK
<1>1. /\ at'[MainLoop] = IdleFrame /\ at[MainLoop].step = "opened"
      /\ UNCHANGED <<pockets, table, orders, coins, loaded, queue>>
      /\ stratRows' = stratRows \cup {at[MainLoop].new} /\ strategies' = strategies \cup {at[MainLoop].new}
  BY <1>0, IdleFrameType, Moved DEF OnPocketCreated, At, Return
<1>2. IdleFrame.step = "idle" /\ IdleFrame.then = "idle" /\ IdleFrame.todo = {} /\ IdleFrame.rest = 0
  BY DEF IdleFrame
<1>3. Reserve' = Reserve
  BY <1>1, <1>2, SameReserve, CalmSame DEF HeldOf
<1>4. FrameInv(IdleFrame)' /\ RowsInv'
  BY <1>1, <1>2 DEF SoleInv, FrameInv, RowsInv, Working
<1>5. StrategiesInv(IdleFrame)'
  BY <1>1 DEF SoleInv, FrameInv, StrategiesInv, IsOpen
<1>. QED  BY <1>1, <1>3, <1>4, <1>5 DEF SoleInv

LEMMA MarkClosedSole ==
  ASSUME TypeInv, FlowInv, SoleInv, MarkClosed(MainLoop)
  PROVE  SoleInv'
<1>0. /\ TypeOK /\ MainLoop \in Threads /\ at[MainLoop] \in Frame
      /\ WellFormed(MainLoop, at[MainLoop], pockets)
  BY PocketsAssumption DEF TypeInv, TypeOK
<1>1. PICK g : g = [at[MainLoop] EXCEPT !.step = "updated",
                       !.then = IF at[MainLoop].todo = {} /\ at[MainLoop].rest = 0 THEN "idle" ELSE "match"]
  OBVIOUS
<1>2. /\ g.step = "updated" /\ g.pocket = at[MainLoop].pocket
      /\ g.then = (IF at[MainLoop].todo = {} /\ at[MainLoop].rest = 0 THEN "idle" ELSE "match")
      /\ g.todo = at[MainLoop].todo /\ g.rest = at[MainLoop].rest
  BY <1>0, <1>1, SMT DEF Frame
<1>3. PICK p, r : p = at[MainLoop].pocket /\ r = [pockets[p] EXCEPT !.status = "closed"]
  OBVIOUS
<1>4. at'[MainLoop] = g /\ at[MainLoop].step = "closed" /\ Save(p, r)
  BY <1>0, <1>1, <1>3, Moved DEF MarkClosed, At
<1>5. /\ p \in table /\ p \in PocketIds /\ Sold(pockets[p], orders) /\ g.then = "idle"
      /\ pockets[p].status # "active" /\ pockets[p].order # NoOrder
  <2>1. p \in table /\ p \in PocketIds /\ Sold(pockets[p], orders) /\ g.then = "idle"
    BY <1>0, <1>2, <1>3, <1>4 DEF SoleInv, FrameInv, Working, TypeOK
  <2>2. pockets[p].order # NoOrder
    BY <2>1, PocketsAssumption DEF Sold, Orders
  <2>. QED  BY <2>1, <2>2 DEF SoleInv, RowsInv
<1>6. r.status = "closed" /\ r.order = pockets[p].order
  BY <1>0, <1>3, <1>5, SMT DEF TypeOK, Pocket
<1>7. /\ pockets'[p] = r /\ \A q \in PocketIds \ {p} : pockets'[q] = pockets[q]
      /\ table' = table /\ UNCHANGED <<stratRows, orders, coins, loaded, strategies, queue>>
  BY <1>0, <1>4, <1>5 DEF Save, TypeOK, MarkClosed
<1>8. Reserve' = Reserve
  <2>1. HeldOf(pockets', g, p) = 0
    BY <1>6, <1>7 DEF HeldOf
  <2>2. HeldOf(pockets, at[MainLoop], p) = 0
    BY <1>5 DEF HeldOf
  <2>3. \A q \in PocketIds \ {p} : HeldOf(pockets', g, q) = HeldOf(pockets, at[MainLoop], q)
    BY <1>2, <1>4, <1>7 DEF HeldOf
  <2>4. \A q \in PocketIds : HeldOf(pockets', g, q) = HeldOf(pockets, at[MainLoop], q)
    BY <2>1, <2>2, <2>3
  <2>. QED  BY <1>2, <1>4, <1>7, <2>4, SameReserve, CalmSame
<1>9. RowsInv'
  <2>1. Sold(r, orders)
    BY <1>5, <1>6 DEF Sold
  <2>. QED  BY <1>5, <1>6, <1>7, <2>1 DEF SoleInv, RowsInv
<1>10. FrameInv(g)'
  BY <1>2, <1>3, <1>4, <1>5, <1>7 DEF SoleInv, FrameInv, Working
<1>11. StrategiesInv(g)'
  <2>1. strategies \subseteq PocketIds /\ \A q \in PocketIds \ {p} : IsOpen(q) => IsOpen(q)'
    BY <1>0, <1>7 DEF TypeOK, IsOpen
  <2>2. \A q \in PocketIds : IsOpen(q)' => IsOpen(q)
    BY <1>6, <1>7 DEF IsOpen
  <2>. QED  BY <1>2, <1>3, <1>4, <1>7, <2>1, <2>2 DEF SoleInv, StrategiesInv
<1>. QED  BY <1>4, <1>7, <1>8, <1>9, <1>10, <1>11 DEF SoleInv

\* Matching, splitting and archiving follow sales by hand only.
LEMMA ManualStepsSole ==
  ASSUME SoleInv
  PROVE  ~ (\/ MatchSale(MainLoop) \/ SplitPocket(MainLoop) \/ SaveCopy(MainLoop)
            \/ ListTargets(MainLoop) \/ ArchivePocket(MainLoop) \/ OnPocketDeleted(MainLoop)
            \/ SweepStrategy(MainLoop))
<1>1. at[MainLoop].step \notin {"match", "split", "copy", "targets", "purge", "purged", "sweep"}
  BY DEF SoleInv, FrameInv, Working
<1>. QED  BY <1>1 DEF MatchSale, SplitPocket, SaveCopy, ListTargets, ArchivePocket, OnPocketDeleted,
                      SweepStrategy, At

\* What leaves pockets, frames and done orders as they are, and frees what it needs.
LEMMA OrdersOnlySole ==
  ASSUME TypeInv, FlowInv, SoleInv, CalmOrders,
         UNCHANGED <<pockets, table, stratRows, loaded, strategies, queue, at>>,
         coins' \in Nat, coins' >= coins
  PROVE  SoleInv'
<1>0. MainLoop \in Threads /\ coins \in Nat /\ TypeOK
  BY PocketsAssumption DEF TypeInv, TypeOK
<1>1. \A row : Sold(row, orders) => Sold(row, orders')
  BY DEF Sold, CalmOrders, Orders
<1>2. FrameInv(at[MainLoop])' /\ RowsInv'
  BY <1>1 DEF SoleInv, FrameInv, RowsInv
<1>3. StrategiesInv(at[MainLoop])'
  BY DEF SoleInv, StrategiesInv, IsOpen
<1>4. Reserve' = Reserve
  <2>1. QueuedSum(queue', orders') = QueuedSum(queue, orders)
    BY QueuedCalm
  <2>2. HeldSum(pockets', at'[MainLoop]) = HeldSum(pockets, at[MainLoop])
    OBVIOUS
  <2>3. CreatingOf(at'[MainLoop], orders') = CreatingOf(at[MainLoop], orders)
    <3>1. at[MainLoop].step = "create" =>
            at[MainLoop].order \in Orders /\ orders[at[MainLoop].order].state = "done"
      BY <1>0, FramesType DEF FlowInv, At, Frames, Orders
    <3>. QED  BY <3>1 DEF CalmOrders, CreatingOf
  <2>. QED  BY <2>1, <2>2, <2>3 DEF Reserve
<1>5. Reserve \in Nat
  BY ReserveParts DEF Reserve
<1>. QED  BY <1>0, <1>2, <1>3, <1>4, <1>5 DEF SoleInv

LEMMA BuySole ==
  ASSUME TypeInv, FlowInv, SoleInv, Buy(MainLoop)
  PROVE  SoleInv'
<1>1. PICK o \in Bids, v \in Volumes : NewOrder(o, v)
  BY DEF Buy
<1>2. CalmOrders
  BY <1>1, CalmAsk DEF Orders
<1>3. coins \in Nat
  BY DEF TypeInv, TypeOK
<1>. QED  BY <1>2, <1>3, OrdersOnlySole DEF Buy, memVars

LEMMA CancelSole ==
  ASSUME TypeInv, FlowInv, SoleInv, Cancel(MainLoop)
  PROVE  SoleInv'
<1>1. CalmOrders
  BY SMT DEF Cancel, CalmOrders, TypeInv, TypeOK, Orders, Order
<1>2. coins' \in Nat /\ coins' >= coins
  BY DEF Cancel, TypeInv, TypeOK, Order
<1>. QED  BY <1>1, <1>2, OrdersOnlySole DEF Cancel, memVars

LEMMA SignalSole ==
  ASSUME TypeInv, FlowInv, SoleInv, NEW p \in PocketIds, Signal(p)
  PROVE  SoleInv'
<1>1. PICK x : x = [kind |-> "close", pocket |-> p]
  OBVIOUS
<1>2. x \in Task /\ x.kind = "close" /\ queue \in Seq(Task) /\ queue' = Append(queue, x)
  BY <1>1 DEF Task, Signal, TypeInv, TypeOK
<1>3. UNCHANGED <<pockets, table, stratRows, orders, coins, loaded, strategies, at>>
  BY DEF Signal, dbVars
<1>4. \A o \in Bids : Waits(queue', o) <=> Waits(queue, o)
  <2>1. \A o \in Bids : x # [kind |-> "fill", order |-> o]
    BY <1>2
  <2>. QED  BY <1>2, <2>1, AppendWaits
<1>5. QueuedSum(queue', orders') = QueuedSum(queue, orders)
  BY <1>3, <1>4, CalmSame, QueuedCalm
<1>6. Reserve' = Reserve
  BY <1>3, <1>5 DEF Reserve
<1>7. FrameInv(at[MainLoop])' /\ RowsInv' /\ StrategiesInv(at[MainLoop])'
  BY <1>3 DEF SoleInv, FrameInv, RowsInv, StrategiesInv, IsOpen
<1>. QED  BY <1>3, <1>6, <1>7 DEF SoleInv

LEMMA ExecuteSole ==
  ASSUME TypeInv, FlowInv, SoleInv, NEW o \in Orders, Execute(o)
  PROVE  SoleInv'
<1>0. /\ TypeOK /\ MainLoop \in Threads /\ orders \in [Orders -> Order] /\ queue \in Seq(Task)
      /\ Bids \subseteq Orders /\ at[MainLoop].step = "idle" /\ orders[o].state = "wait"
      /\ UNCHANGED <<pockets, table, stratRows, loaded, strategies, at>>
  BY PocketsAssumption DEF TypeInv, TypeOK, Orders, Execute, Idle
<1>1. PICK x : x = [kind |-> "fill", order |-> o]
  OBVIOUS
<1>2. x \in Task /\ queue' = Append(queue, x)
  BY <1>1 DEF Task, Execute
<1>3. /\ orders'[o].state = "done" /\ orders'[o].volume = orders[o].volume
      /\ \A b \in Orders : b # o => orders'[b] = orders[b]
      /\ orders' \in [Orders -> Order]
  BY <1>0, SMT DEF Execute, Order
<1>4. ~ Waits(queue, o) /\ \A b : Waits(queue', b) <=> Waits(queue, b) \/ b = o
  <2>1. ~ Waits(queue, o)
    BY <1>0 DEF FlowInv, QueueInv, Waits, FillOf
  <2>2. \A b : x = [kind |-> "fill", order |-> b] <=> b = o
    BY <1>1
  <2>. QED  BY <1>0, <1>2, <2>1, <2>2, AppendWaits
<1>5. \A row : Sold(row, orders) => Sold(row, orders')
  BY <1>0, <1>3 DEF Sold, Orders
<1>6. FrameInv(at[MainLoop])' /\ RowsInv'
  BY <1>0, <1>5 DEF SoleInv, FrameInv, RowsInv
<1>7. StrategiesInv(at[MainLoop])'
  BY <1>0 DEF SoleInv, StrategiesInv, IsOpen
<1>8. \A b \in Bids \ {o} : QueuedOf(queue', orders', b) = QueuedOf(queue, orders, b)
  BY <1>0, <1>3, <1>4 DEF QueuedOf
<1>9. coins' - QueuedSum(queue', orders') = coins - QueuedSum(queue, orders)
  <2>1. CASE o \in Bids
    <3>1. PICK rows, q : rows = orders' /\ q = queue'
      OBVIOUS
    <3>2. QueuedSum(q, rows) = QueuedSum(queue, orders) - QueuedOf(queue, orders, o) + QueuedOf(q, rows, o)
      <4>1. rows \in [Orders -> Order] /\ \A b \in Bids \ {o} : QueuedOf(q, rows, b) = QueuedOf(queue, orders, b)
        BY <1>3, <1>8, <3>1
      <4>. QED  BY <1>0, <2>1, <4>1, QueuedChange
    <3>3. /\ QueuedOf(queue, orders, o) = 0 /\ QueuedOf(q, rows, o) = orders[o].volume
          /\ orders[o].volume \in Nat /\ coins \in Nat /\ coins' = coins + orders[o].volume
      BY <1>0, <1>3, <1>4, <2>1, <3>1 DEF QueuedOf, Order, TypeOK, Execute
    <3>. QED  BY <3>1, <3>2, <3>3, ReserveParts
  <2>2. CASE o \notin Bids
    <3>1. \A b \in Bids : QueuedOf(queue', orders', b) = QueuedOf(queue, orders, b)
      BY <1>8, <2>2
    <3>2. QueuedSum(queue', orders') = QueuedSum(queue, orders)
      BY <1>0, <3>1, QueuedSame
    <3>. QED  BY <2>2, <3>2 DEF Execute
  <2>. QED  BY <2>1, <2>2
<1>10. coins' >= Reserve'
  <2>1. CreatingOf(at'[MainLoop], orders') = 0 /\ CreatingOf(at[MainLoop], orders) = 0
    BY <1>0 DEF CreatingOf
  <2>2. HeldSum(pockets', at'[MainLoop]) = HeldSum(pockets, at[MainLoop])
    BY <1>0
  <2>3. coins \in Nat /\ coins' \in Int /\ QueuedSum(queue', orders') \in Int
    <3>1. PICK rows, q : rows = orders' /\ q = queue'
      OBVIOUS
    <3>2. QueuedSum(q, rows) \in Nat
      BY <1>0, <1>3, <3>1, FramesType, SumsNat DEF TypeOK
    <3>. QED  BY <1>0, <3>1, <3>2 DEF TypeOK, Execute, Order
  <2>. QED  BY <1>9, <2>1, <2>2, <2>3, ReserveParts DEF SoleInv, Reserve
<1>. QED  BY <1>6, <1>7, <1>10 DEF SoleInv

\* A filled sale is always that of a pocket, so a fill never has to be matched.
LEMMA TakeTaskSole ==
  ASSUME TypeInv, FlowInv, SaleInv, SoleInv, Threads = {MainLoop}, TakeTask
  PROVE  SoleInv'
<1>0. /\ TypeOK /\ MainLoop \in Threads /\ at[MainLoop].step = "idle"
      /\ queue \in Seq(Task) /\ queue # <<>> /\ queue' = Tail(queue)
      /\ Bids \subseteq Orders
      /\ UNCHANGED <<pockets, table, stratRows, orders, coins, loaded, strategies>>
  BY PocketsAssumption DEF TypeInv, TypeOK, TakeTask, Idle, dbVars, Orders
<1>1. PICK x : x = Head(queue)
  OBVIOUS
<1>2. x \in Task
  BY <1>0, <1>1
<1>3. /\ 1 \in DOMAIN queue /\ queue[1] = x
      /\ \A o : Waits(queue, o) <=> Waits(queue', o) \/ x = [kind |-> "fill", order |-> o]
  BY <1>0, <1>1, TailWaits
<1>4. RowsInv'
  BY <1>0 DEF SoleInv, RowsInv
<1>5. ASSUME NEW g, at'[MainLoop] = g, g.step \in {"idle", "reason", "closed", "create"},
             FrameInv(g)', CreatingOf(g, orders) \in Nat,
             CreatingOf(g, orders) + QueuedSum(queue', orders) = QueuedSum(queue, orders)
      PROVE  SoleInv'
  <2>1. StrategiesInv(g)'
    BY <1>0, <1>5 DEF SoleInv, StrategiesInv, IsOpen
  <2>2. HeldSum(pockets', g) = HeldSum(pockets, at[MainLoop])
    <3>1. \A p \in PocketIds : HeldOf(pockets', g, p) = HeldOf(pockets, at[MainLoop], p)
      BY <1>0, <1>5 DEF HeldOf
    <3>. QED  BY <1>0, <3>1, HeldSame DEF TypeOK
  <2>3. CreatingOf(at[MainLoop], orders) = 0
    BY <1>0 DEF CreatingOf
  <2>4. QueuedSum(queue', orders) \in Nat
    <3>1. PICK q : q = queue'
      OBVIOUS
    <3>2. QueuedSum(q, orders) \in Nat
      BY <1>0, FramesType, SumsNat DEF TypeOK
    <3>. QED  BY <3>1, <3>2
  <2>5. Reserve' = HeldSum(pockets', g) + QueuedSum(queue', orders) + CreatingOf(g, orders)
    BY <1>0, <1>5 DEF Reserve
  <2>6. Reserve' = Reserve
    BY <1>5, <2>2, <2>3, <2>4, <2>5, ReserveParts DEF Reserve
  <2>. QED  BY <1>0, <1>4, <1>5, <2>1, <2>6 DEF SoleInv
<1>6. ASSUME NEW g, at'[MainLoop] = g, g.step \in {"idle", "reason", "closed"}, FrameInv(g)',
             \A o \in Bids : x # [kind |-> "fill", order |-> o]
      PROVE  SoleInv'
  <2>1. \A o \in Bids : Waits(queue', o) <=> Waits(queue, o)
    BY <1>3, <1>6
  <2>2. QueuedSum(queue', orders') = QueuedSum(queue, orders)
    BY <1>0, <2>1, CalmSame, QueuedCalm
  <2>3. CreatingOf(g, orders) = 0
    BY <1>6 DEF CreatingOf
  <2>. QED  BY <1>0, <1>5, <1>6, <2>2, <2>3, ReserveParts
<1>7. CASE x.kind = "close"
  <2>1. x.pocket \in PocketIds /\ \A o \in Bids : x # [kind |-> "fill", order |-> o]
    BY <1>2, <1>7 DEF Task
  <2>2. PICK g : g = [IdleFrame EXCEPT !.step = "reason", !.pocket = x.pocket]
    OBVIOUS
  <2>3. g.step = "reason" /\ g.then = "idle" /\ g.pocket = x.pocket /\ g.todo = {} /\ g.rest = 0
    BY <2>2 DEF IdleFrame
  <2>4. CASE at' = at
    <3>1. FrameInv(at[MainLoop])'
      BY <1>0, <2>4 DEF SoleInv, FrameInv, Working
    <3>. QED  BY <1>0, <1>6, <2>1, <2>4, <3>1
  <2>5. CASE x.pocket \in loaded /\ Goto(MainLoop, g)
    <3>1. at'[MainLoop] = g
      BY <1>0, <2>5, Moved
    <3>2. FrameInv(g)'
      BY <1>0, <2>3, <2>5 DEF SoleInv, FrameInv, RowsInv, Working
    <3>. QED  BY <1>6, <2>1, <2>3, <3>1, <3>2
  <2>. QED  BY <1>1, <1>7, <2>2, <2>4, <2>5 DEF TakeTask, BeginClose
<1>8. CASE x.kind # "close" /\ FillAsk(x.order)
  <2>1. x.order \in Asks /\ x.kind = "fill" /\ x.order \notin Bids
    BY <1>2, <1>8, PocketsAssumption DEF FillAsk, Task
  <2>2. \A o \in Bids : x # [kind |-> "fill", order |-> o]
    <3>1. ASSUME NEW o \in Bids, x = [kind |-> "fill", order |-> o]
          PROVE  FALSE
      BY <2>1, <3>1
    <3>. QED  BY <3>1
  <2>3. orders[x.order].state = "done"
    BY <1>3, <2>1 DEF FlowInv, QueueInv, FillOf
  <2>4. PICK p \in PocketIds : pockets[p].order = x.order
    BY <1>0, <2>1, <2>3 DEF SaleInv, NoOrphanSale, At
  <2>5. p \in loaded
    <3>1. x.order # NoOrder
      BY <2>1, PocketsAssumption DEF Orders
    <3>. QED  BY <2>4, <3>1 DEF SaleInv, SoleInv, RowsInv
  <2>6. LinkedTo(x.order) # {}
    BY <2>4, <2>5 DEF LinkedTo
  <2>7. \A q \in LinkedTo(x.order) : q \in loaded /\ pockets[q].order = x.order
    BY DEF LinkedTo
  <2>8. PICK q \in LinkedTo(x.order) :
          \/ Goto(MainLoop, [IdleFrame EXCEPT !.step = "closed", !.pocket = q])
          \/ at' = at
    BY <1>8, <2>6 DEF FillAsk
  <2>9. PICK g : g = [IdleFrame EXCEPT !.step = "closed", !.pocket = q]
    OBVIOUS
  <2>10. g.step = "closed" /\ g.then = "idle" /\ g.pocket = q /\ g.todo = {} /\ g.rest = 0
    BY <2>9 DEF IdleFrame
  <2>11. CASE at' = at
    <3>1. FrameInv(at[MainLoop])'
      BY <1>0, <2>11 DEF SoleInv, FrameInv, Working
    <3>. QED  BY <1>0, <1>6, <2>2, <2>11, <3>1
  <2>12. CASE Goto(MainLoop, g)
    <3>1. at'[MainLoop] = g
      BY <1>0, <2>12, Moved
    <3>2. q \in table /\ Sold(pockets[q], orders)
      BY <2>1, <2>3, <2>7 DEF SoleInv, RowsInv, Sold
    <3>3. FrameInv(g)'
      BY <1>0, <2>10, <3>2 DEF FrameInv, Working
    <3>. QED  BY <1>6, <2>2, <2>10, <3>1, <3>3
  <2>. QED  BY <2>8, <2>9, <2>11, <2>12
<1>9. CASE x.kind # "close" /\ FillBid(x.order)
  <2>1. PICK o \in Bids : x = [kind |-> "fill", order |-> o]
    BY <1>2, <1>9 DEF FillBid, Task
  <2>2. x.order = o
    BY <2>1
  <2>3. PICK g : g = [IdleFrame EXCEPT !.step = "create", !.order = o]
    OBVIOUS
  <2>4. g.step = "create" /\ g.order = o /\ g.then = "idle" /\ g.todo = {} /\ g.rest = 0
    BY <2>3 DEF IdleFrame
  <2>5. at'[MainLoop] = g
    BY <1>0, <1>9, <2>2, <2>3, Moved DEF FillBid
  <2>6. Waits(queue, o) /\ ~ Waits(queue', o)
    <3>1. /\ DOMAIN queue = 1..Len(queue) /\ Len(queue) \in Nat /\ Len(queue) > 0
          /\ DOMAIN queue' = 1..(Len(queue) - 1)
          /\ \A i \in 1..(Len(queue) - 1) : queue'[i] = queue[i + 1]
      BY <1>0
    <3>2. FillOf(queue, 1) /\ queue[1].order = o
      BY <1>3, <2>1 DEF FillOf
    <3>3. ASSUME NEW i \in DOMAIN queue', queue'[i] = x
          PROVE  FALSE
      <4>1. i + 1 \in DOMAIN queue /\ FillOf(queue, i + 1) /\ queue[i + 1].order = o /\ i \in Nat /\ i # 0
        BY <2>1, <3>1, <3>3 DEF FillOf
      <4>2. i + 1 = 1
        BY <1>3, <3>2, <4>1 DEF FlowInv, QueueInv
      <4>. QED  BY <4>1, <4>2
    <3>. QED  BY <1>3, <2>1, <3>3 DEF Waits
  <2>7. QueuedSum(queue', orders) = QueuedSum(queue, orders) - orders[o].volume
    <3>1. PICK q : q = queue'
      OBVIOUS
    <3>2. \A b \in Bids \ {o} : QueuedOf(q, orders, b) = QueuedOf(queue, orders, b)
      <4>1. \A b \in Bids \ {o} : x # [kind |-> "fill", order |-> b]
        BY <2>1
      <4>. QED  BY <1>3, <3>1, <4>1 DEF QueuedOf
    <3>3. QueuedSum(q, orders) = QueuedSum(queue, orders) - QueuedOf(queue, orders, o) + QueuedOf(q, orders, o)
      BY <1>0, <3>2, QueuedChange DEF TypeOK
    <3>4. QueuedOf(queue, orders, o) = orders[o].volume /\ QueuedOf(q, orders, o) = 0
      BY <2>6, <3>1 DEF QueuedOf
    <3>5. orders[o].volume \in Nat
      BY <1>0 DEF TypeOK, Order
    <3>. QED  BY <3>1, <3>3, <3>4, <3>5, ReserveParts
  <2>8. CreatingOf(g, orders) = orders[o].volume /\ orders[o].volume \in Nat
    BY <1>0, <2>4 DEF CreatingOf, TypeOK, Order
  <2>9. FrameInv(g)'
    BY <2>4 DEF FrameInv, Working
  <2>. QED  BY <1>5, <2>4, <2>5, <2>7, <2>8, <2>9, ReserveParts
<1>10. x.kind = "close" \/ FillAsk(x.order) \/ FillBid(x.order)
  BY <1>1 DEF TakeTask
<1>. QED  BY <1>7, <1>8, <1>9, <1>10

LEMMA SoleStep ==
  ASSUME Threads = {MainLoop}, ManualSales = FALSE, MayCrash = FALSE
  PROVE  TypeInv /\ FlowInv /\ SaleInv /\ SoleInv /\ [Next]_vars => SoleInv'
<1> SUFFICES ASSUME TypeInv, FlowInv, SaleInv, SoleInv, [Next]_vars
             PROVE  SoleInv'
  OBVIOUS
<1>1. ASSUME Command(MainLoop)
      PROVE  SoleInv'
  BY <1>1, BuySole, CancelSole DEF Command, Sell, SellAll, ToolClose
<1>2. ASSUME Continue(MainLoop)
      PROVE  SoleInv'
  BY <1>2, SetReasonSole, ClosePocketSole, MarkClosingSole, OnPocketUpdatedSole, SellPocketSole,
     LinkOrderSole, CleanUpSole, CreatePocketSole, OnPocketCreatedSole, MarkClosedSole,
     ManualStepsSole DEF Continue
<1>3. CASE UNCHANGED vars
  BY <1>3 DEF vars, dbVars, memVars, SoleInv, FrameInv, RowsInv, StrategiesInv, IsOpen, Reserve
<1>. QED  BY <1>1, <1>2, <1>3, SignalSole, ExecuteSole, TakeTaskSole DEF Next, Crash

LEMMA SoleInit ==
  ASSUME Threads = {MainLoop}
  PROVE  Init => TypeInv /\ FlowInv /\ Owed /\ SaleInv /\ SoleInv
<1> SUFFICES ASSUME Init
             PROVE  TypeInv /\ FlowInv /\ Owed /\ SaleInv /\ SoleInv
  OBVIOUS
<1>1. TypeInv
  BY TypeInit DEF Init, TypeInv, WellFormed, IdleFrame, PocketSteps, MainSteps
<1>2. SaleInv
  BY DEF Init, SaleInv, NoOrphanSale, NoRow, IdleFrame, Orders
<1>3. FrameInv(at[MainLoop]) /\ RowsInv /\ StrategiesInv(at[MainLoop])
  BY DEF Init, FrameInv, RowsInv, StrategiesInv, IsOpen, NoRow, IdleFrame, Working
<1>4. HeldSum(pockets, at[MainLoop]) = 0
  <2> DEFINE h == [p \in PocketIds |-> HeldOf(pockets, at[MainLoop], p)]
  <2>1. \A p \in PocketIds : h[p] = 0
    BY DEF Init, NoRow, HeldOf
  <2>2. SumFunctionOnSet(h, PocketIds) = 0
    <3> HIDE DEF h
    <3>. QED  BY <2>1, FiniteAssumption, ZeroSum
  <2>. QED  BY <2>2 DEF HeldSum
<1>5. QueuedSum(queue, orders) = 0
  <2> DEFINE h == [o \in Bids |-> QueuedOf(queue, orders, o)]
  <2>1. \A o \in Bids : h[o] = 0
    BY DEF Init, QueuedOf, Waits
  <2>2. SumFunctionOnSet(h, Bids) = 0
    <3> HIDE DEF h
    <3>. QED  BY <2>1, FiniteAssumption, ZeroSum
  <2>. QED  BY <2>2 DEF QueuedSum
<1>6. CreatingOf(at[MainLoop], orders) = 0 /\ coins = 0
  BY DEF Init, IdleFrame, CreatingOf
<1>. QED  BY <1>1, <1>2, <1>3, <1>4, <1>5, <1>6, FlowInit DEF SoleInv, Reserve

\* The free coins cover every pocket that has no sale: closing one never raises, in
\* whatever order signals, fills and cancels come; and a pocket is closed by the
\* sale it is linked to, once that is filled.  (on_pocket_updated, create_pocket.)
THEOREM OneThreadAccountsForPockets ==
  ASSUME Threads = {MainLoop}, ManualSales = FALSE, MayCrash = FALSE
  PROVE  Spec => []PocketsAccountedFor
<1>1. TypeInv /\ FlowInv /\ Owed /\ SaleInv /\ SoleInv /\ [Next]_vars
        => (TypeInv /\ FlowInv /\ Owed /\ SaleInv /\ SoleInv)'
  BY TypeStep, FlowStep, SaleStep, SoleStep
<1>2. TypeInv /\ SoleInv => PocketsAccountedFor
  <2> SUFFICES ASSUME TypeInv, SoleInv
               PROVE  PocketsAccountedFor
    OBVIOUS
  <2>1. pockets \in [PocketIds -> Pocket] /\ coins \in Nat
    BY DEF TypeInv, TypeOK
  <2>2. VolumeOf(Unsold) = HeldSum(pockets, at[MainLoop])
    <3> DEFINE f == [p \in PocketIds |-> pockets[p].volume]
               h == [p \in PocketIds |-> HeldOf(pockets, at[MainLoop], p)]
    <3>1. /\ Unsold \in SUBSET PocketIds /\ \A p \in Unsold : f[p] \in Int /\ h[p] = f[p]
          /\ \A p \in PocketIds \ Unsold : h[p] = 0
      BY <2>1 DEF Unsold, HeldOf, At, Pocket
    <3>2. SumFunctionOnSet(f, Unsold) = SumFunctionOnSet(h, PocketIds)
      <4> HIDE DEF f, h
      <4>. QED  BY <3>1, FiniteAssumption, SumFilter
    <3>. QED  BY <3>2 DEF VolumeOf, HeldSum
  <2>3. PocketsAreBacked
    BY <2>1, <2>2, ReserveParts DEF SoleInv, Reserve, PocketsAreBacked
  <2>4. ClosedWasSold
    BY PocketsAssumption DEF SoleInv, RowsInv, Sold, ClosedWasSold, Orders
  <2>. QED  BY <2>3, <2>4 DEF PocketsAccountedFor
<1>. QED  BY <1>1, <1>2, SoleInit, PTL DEF Spec

\* Between two tasks an open pocket has its strategy, in memory and saved, and
\* only an open pocket has one.  (on_pocket_created, on_pocket_updated.)
THEOREM OneThreadKeepsStrategies ==
  ASSUME Threads = {MainLoop}, ManualSales = FALSE, MayCrash = FALSE
  PROVE  Spec => []PocketsHaveStrategies
<1>1. TypeInv /\ FlowInv /\ Owed /\ SaleInv /\ SoleInv /\ [Next]_vars
        => (TypeInv /\ FlowInv /\ Owed /\ SaleInv /\ SoleInv)'
  BY TypeStep, FlowStep, SaleStep, SoleStep
<1>2. TypeInv /\ SoleInv => PocketsHaveStrategies
  BY DEF TypeInv, TypeOK, SoleInv, RowsInv, StrategiesInv, PocketsHaveStrategies, OpenPocketHasStrategy,
         StrategyEndsWithPocket, AllIdle, Idle, InTable, IsOpen
<1>. QED  BY <1>1, <1>2, SoleInit, PTL DEF Spec
=============================================================================
