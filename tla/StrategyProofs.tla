--------------------------- MODULE StrategyProofs ---------------------------
(***************************************************************************)
(* Proofs about Strategies: its types with any number of threads, and with *)
(* the main loop as the only thread, that it implements StrategyLifecycle, *)
(* never saves a lower stop, saves no take profit it has not signalled, and *)
(* loses to a crash no more of a state than the display hides.             *)
(***************************************************************************)
EXTENDS Strategies, FiniteSetTheorems, TLAPS

\* The steps, one by one, for the provers.
LEMMA AllSteps ==
  /\ "idle" \in Steps /\ "tick" \in Steps /\ "get" \in Steps /\ "save" \in Steps
  /\ "start" \in Steps /\ "delete" \in Steps /\ "mark" \in Steps /\ "archive" \in Steps
  BY DEF Steps

\* The frames a step leaves behind are frames.
LEMMA TickUpdate ==
  \A f \in Frame, s \in Steps, u \in Ids, b \in BOOLEAN :
    [f EXCEPT !.step = s, !.id = u, !.signal = b, !.visited = @ \cup {u}] \in Frame
  BY DEF Frame
LEMMA RowUpdate ==
  \A f \in Frame, s \in Steps, r \in Row : [f EXCEPT !.step = s, !.row = r] \in Frame
  BY DEF Frame
LEMMA StepUpdate == \A f \in Frame, s \in Steps : [f EXCEPT !.step = s] \in Frame
  BY DEF Frame
LEMMA StopUpdate ==
  \A f \in Frame, s \in Steps, u \in Ids, r \in Row :
    [f EXCEPT !.step = s, !.id = u, !.row = r, !.todo = @ \ {u}] \in Frame
  BY DEF Frame
LEMMA ArchiveUpdate ==
  \A f \in Frame, s \in Steps, r \in Row :
    [f EXCEPT !.step = s, !.id = NoStrategy, !.row = r] \in Frame
  BY DEF Frame

LEMMA RowTypes == /\ NoRow \in Row /\ Fresh \in State
                  /\ \A b \in BOOLEAN : [status |-> "active", good |-> b, state |-> Fresh] \in Row
  BY DEF NoRow, Row, Fresh, State
LEMMA IdleFrameType == IdleFrame \in Frame
  BY RowTypes, AllSteps DEF Frame, IdleFrame

LEMMA RestoredType == \A m \in State : Restored(m) \in Instance
  BY DEF Restored, Instance, Nothing, Display

\* Frames that begin an operation.
LEMMA BeginTypes ==
  /\ \A p, n \in Nat : [IdleFrame EXCEPT !.step = "tick", !.price = p, !.size = n] \in Frame
  /\ \A ids \in SUBSET Ids, b \in BOOLEAN :
       [IdleFrame EXCEPT !.step = "delete", !.todo = ids, !.stop = b] \in Frame
  /\ \A s \in Ids, r \in Row :
       [IdleFrame EXCEPT !.step = "start", !.id = s, !.row = r] \in Frame
  BY IdleFrameType, AllSteps DEF Frame

----------------------------------------------------------------------------
(* What a tick makes of an instance *)

\* A stop is a natural number, and a higher high has no lower stop.
LEMMA StopFromMonotone ==
  ASSUME NEW high \in Nat, NEW low \in Nat, low <= high
  PROVE  /\ StopFrom(high) \in Nat /\ StopFrom(low) \in Nat
         /\ StopFrom(low) <= StopFrom(high)
<1>1. PICK k \in Nat : k = 100 - Trail
  BY StrategiesAssumption
<1>2. high * k \in Nat /\ low * k \in Nat /\ low * k <= high * k
  BY <1>1
<1>. QED  BY <1>1, <1>2 DEF StopFrom

LEMMA TrailedType ==
  ASSUME NEW m \in State, NEW price \in Nat
  PROVE  Trailed(m, price) \in State
<1>1. PICK stop : stop = StopFrom(price)
  OBVIOUS
<1>2. stop \in Nat
  BY <1>1, StopFromMonotone
<1>3. PICK on : on = (m.activated \/ Activation = 0 \/ ProfitReaches(price, Activation))
  OBVIOUS
<1>4. on \in BOOLEAN
  BY <1>3
<1>5. \/ Trailed(m, price) = m
      \/ Trailed(m, price) =
           [m EXCEPT !.highest = price, !.activated = on, !.stop = IF on THEN stop ELSE @]
  BY <1>1, <1>3 DEF Trailed
<1>. QED  BY <1>2, <1>4, <1>5 DEF State

LEMMA DisplayType ==
  ASSUME NEW m \in State
  PROVE  DisplayOf(m) \in Display
<1>1. \A x \in Nat : Shown(x) \in Int
  BY StrategiesAssumption DEF Shown
<1>2. Shown(IF m.stop # 0 THEN m.stop ELSE 100 * m.highest) \in Int
  BY <1>1 DEF State
<1>. QED  BY <1>2 DEF DisplayOf, Display

LEMMA TickedType ==
  ASSUME NEW i \in Instance, NEW price \in Nat
  PROVE  Ticked(i, price).instance \in Instance /\ Ticked(i, price).signal \in BOOLEAN
<1>1. i.state \in State
  BY DEF Instance
<1>2. PICK m : m = Trailed(i.state, price)
  OBVIOUS
<1>3. m \in State /\ DisplayOf(m) \in Display
  BY <1>1, <1>2, TrailedType, DisplayType
<1>4. Redisplayed(i, m) \in Instance
  BY <1>3 DEF Redisplayed, Instance
<1>5. PICK j : j = [i EXCEPT !.state.tp = TRUE]
  OBVIOUS
<1>8. j \in Instance
  BY <1>5 DEF Instance, State
<1>6. PICK b : b = TrailingHit(m, price)
  OBVIOUS
<1>7. b \in BOOLEAN
  BY <1>3, <1>6 DEF TrailingHit, State
<1>9. PICK k : k = Redisplayed(i, m)
  OBVIOUS
<1>10. PICK r : r = Ticked(i, price)
  OBVIOUS
<1>11. \/ r = [instance |-> i, signal |-> TRUE]
       \/ r = [instance |-> j, signal |-> TRUE]
       \/ r = [instance |-> i, signal |-> FALSE]
       \/ r = [instance |-> k, signal |-> b]
  BY <1>2, <1>5, <1>6, <1>9, <1>10 DEF Ticked
<1>12. \A x : /\ [instance |-> x, signal |-> TRUE].instance = x
              /\ [instance |-> x, signal |-> TRUE].signal = TRUE
              /\ [instance |-> x, signal |-> FALSE].instance = x
              /\ [instance |-> x, signal |-> FALSE].signal = FALSE
              /\ [instance |-> x, signal |-> b].instance = x
              /\ [instance |-> x, signal |-> b].signal = b
  OBVIOUS
<1>13. r.instance \in {i, j, k} /\ r.signal \in BOOLEAN
  BY <1>7, <1>11, <1>12, Zenon
<1>. QED  BY <1>4, <1>8, <1>9, <1>10, <1>13

----------------------------------------------------------------------------
(* Types, with any number of threads *)

\* A step that works on a strategy names it.
IdSteps == {"get", "save", "start", "mark", "archive"}
Named(f) == f.step \in IdSteps => f.id \in Ids

TypeInv == TypeOK /\ \A t \in Threads : Named(at[t])

LEMMA TypeInit == Init => TypeInv
  BY RowTypes, IdleFrameType, RestoredType
     DEF Init, TypeInv, TypeOK, Named, IdSteps, IdleFrame

\* What a step of one thread leaves is well typed if its tables and its new
\* frame are.
LEMMA ThreadStep ==
  ASSUME TypeInv, NEW t \in Threads, NEW f \in Frame, at' = [at EXCEPT ![t] = f], Named(f),
         rows' \in [Ids -> Row], archive' \subseteq Ids, live' \subseteq Ids,
         memory' \in [Ids -> Instance], signals' \subseteq Ids, closing' \subseteq Pockets
  PROVE  TypeInv'
  BY DEF TypeInv, TypeOK, Named

\* A thread's frame, and that the code leaves it idle.
LEMMA FrameOf ==
  ASSUME TypeInv, NEW t \in Threads
  PROVE  at[t] \in Frame /\ Named(at[t]) /\ TypeOK /\ Named(IdleFrame)
  BY DEF TypeInv, TypeOK, Named, IdSteps, IdleFrame

LEMMA VisitType ==
  ASSUME TypeInv, NEW price \in Nat, Visit(price)
  PROVE  TypeInv'
<1>0. MainLoop \in Threads /\ TypeOK
  BY StrategiesAssumption DEF TypeInv
<1>1. PICK n : n = Cardinality(live)
  OBVIOUS
<1>2. n \in Nat
  BY <1>0, <1>1, StrategiesAssumption, FS_Subset, FS_CardinalityType DEF TypeOK
<1>3. PICK f : f = [IdleFrame EXCEPT !.step = "tick", !.price = price, !.size = n]
  OBVIOUS
<1>4. f \in Frame /\ f.step = "tick"
  BY <1>2, <1>3, BeginTypes DEF IdleFrame
<1>5. at' = [at EXCEPT ![MainLoop] = f]
  BY <1>1, <1>3 DEF Visit, Goto
<1>. QED  BY <1>0, <1>4, <1>5, ThreadStep DEF Visit, Named, IdSteps, TypeOK

LEMMA NextStrategyType ==
  ASSUME TypeInv, NEW t \in Threads, NextStrategy(t)
  PROVE  TypeInv'
<1>0. at[t] \in Frame /\ TypeOK /\ Named(IdleFrame)
  BY FrameOf
<1>1. CASE Return(t) /\ UNCHANGED <<memory, signals>>
  BY <1>0, <1>1, IdleFrameType, ThreadStep DEF NextStrategy, Return, Goto, TypeOK
<1>2. ASSUME NEW s \in live, NEW r,
             \/ r = [instance |-> memory[s], signal |-> FALSE]
             \/ r = Ticked(memory[s], at[t].price),
             memory' = [memory EXCEPT ![s] = r.instance],
             signals' = IF r.signal THEN signals \cup {s} ELSE signals,
             NEW step \in {"get", "tick"},
             Goto(t, [at[t] EXCEPT !.step = step, !.id = s, !.signal = r.signal,
                                   !.visited = @ \cup {s}])
      PROVE  TypeInv'
  <2>1. s \in Ids /\ memory[s] \in Instance /\ at[t].price \in Nat
    BY <1>0 DEF TypeOK, Frame
  <2>2. r.instance \in Instance /\ r.signal \in BOOLEAN
    <3>1. PICK i \in Instance, p \in Nat : i = memory[s] /\ p = at[t].price
      BY <2>1
    <3>2. CASE r = [instance |-> i, signal |-> FALSE]
      BY <3>2
    <3>3. CASE r = Ticked(i, p)
      BY <3>3, TickedType
    <3>. QED  BY <1>2, <3>1, <3>2, <3>3
  <2>3. memory' \in [Ids -> Instance] /\ signals' \subseteq Ids
    BY <1>0, <1>2, <2>1, <2>2 DEF TypeOK
  <2>4. PICK b : b = r.signal
    OBVIOUS
  <2>5. PICK f : f = [at[t] EXCEPT !.step = step, !.id = s, !.signal = b,
                                   !.visited = @ \cup {s}]
    OBVIOUS
  <2>6. step \in Steps
    BY AllSteps
  <2>7. f \in Frame
    BY <1>0, <2>1, <2>2, <2>4, <2>5, <2>6, TickUpdate, Zenon
  <2>8. f.id = s
    BY <1>0, <2>5, SMT DEF Frame
  <2>9. at' = [at EXCEPT ![t] = f]
    BY <1>2, <2>4, <2>5 DEF Goto
  <2>. QED  BY <1>0, <2>1, <2>3, <2>7, <2>8, <2>9, ThreadStep DEF NextStrategy, Named, TypeOK
<1>. QED  BY <1>1, <1>2 DEF NextStrategy

\* After _persist_strategy the tick goes on.
LEMMA PersistedType ==
  ASSUME TypeInv, NEW t \in Threads, Persisted(t), at[t].id \in Ids,
         rows' \in [Ids -> Row], UNCHANGED <<archive, live, signals, closing>>
  PROVE  TypeInv'
<1>0. at[t] \in Frame /\ TypeOK
  BY FrameOf
<1>1. PICK b : b = (memory[at[t].id].updated /\ at[t].signal)
  OBVIOUS
<1>2. b \in BOOLEAN
  BY <1>1
<1>3. memory' = [memory EXCEPT ![at[t].id].updated = b]
  BY <1>1 DEF Persisted
<1>4. memory' \in [Ids -> Instance]
  <2>1. PICK i : i = [memory[at[t].id] EXCEPT !.updated = b]
    OBVIOUS
  <2>2. memory[at[t].id] \in Instance
    BY <1>0 DEF TypeOK
  <2>3. i \in Instance
    BY <1>2, <2>1, <2>2 DEF Instance
  <2>4. memory' = [memory EXCEPT ![at[t].id] = i]
    BY <1>3, <2>1
  <2>. QED  BY <1>0, <2>3, <2>4 DEF TypeOK
<1>5. PICK f : f = [at[t] EXCEPT !.step = "tick", !.row = NoRow]
  OBVIOUS
<1>6. f \in Frame
  BY <1>0, <1>5, AllSteps, RowTypes, RowUpdate, Zenon
<1>7. f.step = "tick"
  BY <1>0, <1>5, SMT DEF Frame
<1>8. at' = [at EXCEPT ![t] = f]
  BY <1>5 DEF Persisted, Goto
<1>. QED  BY <1>0, <1>4, <1>6, <1>7, <1>8, ThreadStep DEF Named, IdSteps, TypeOK

LEMMA GetRowType ==
  ASSUME TypeInv, NEW t \in Threads, GetRow(t)
  PROVE  TypeInv'
<1>0. at[t] \in Frame /\ TypeOK /\ at[t].id \in Ids
  BY FrameOf DEF GetRow, At, Named, IdSteps
<1>1. CASE Persisted(t)
  BY <1>0, <1>1, PersistedType DEF GetRow, TypeOK
<1>2. CASE /\ Goto(t, [at[t] EXCEPT !.step = "save", !.row = rows[at[t].id]])
           /\ UNCHANGED memory
  <2>1. PICK r : r = rows[at[t].id]
    OBVIOUS
  <2>2. r \in Row
    BY <1>0, <2>1 DEF TypeOK
  <2>3. PICK f : f = [at[t] EXCEPT !.step = "save", !.row = r]
    OBVIOUS
  <2>4. f \in Frame
    BY <1>0, <2>2, <2>3, AllSteps, RowUpdate, Zenon
  <2>5. f.id = at[t].id
    BY <1>0, <2>3, SMT DEF Frame
  <2>6. at' = [at EXCEPT ![t] = f]
    BY <1>2, <2>1, <2>3 DEF Goto
  <2>. QED  BY <1>0, <1>2, <2>4, <2>5, <2>6, ThreadStep DEF GetRow, Named, TypeOK
<1>. QED  BY <1>1, <1>2 DEF GetRow

LEMMA SaveRowType ==
  ASSUME TypeInv, NEW t \in Threads, SaveRow(t)
  PROVE  TypeInv'
<1>0. at[t] \in Frame /\ TypeOK /\ at[t].id \in Ids
  BY FrameOf DEF SaveRow, At, Named, IdSteps
<1>1. PICK m : m = memory[at[t].id].state
  OBVIOUS
<1>2. PICK r : r = [at[t].row EXCEPT !.state = m]
  OBVIOUS
<1>3. m \in State /\ at[t].row \in Row
  BY <1>0, <1>1 DEF TypeOK, Instance, Frame
<1>4. r \in Row
  BY <1>2, <1>3 DEF Row
<1>5. rows' \in [Ids -> Row]
  BY <1>0, <1>1, <1>2, <1>4 DEF SaveRow, Put, TypeOK
<1>. QED  BY <1>0, <1>5, PersistedType DEF SaveRow

LEMMA CreateRowType ==
  ASSUME TypeInv, NEW t \in Threads, CreateRow(t)
  PROVE  TypeInv'
<1>0. TypeOK
  BY FrameOf
<1>1. PICK s \in Ids, good \in BOOLEAN :
        /\ Put(s, [status |-> "active", good |-> good, state |-> Fresh])
        /\ Goto(t, [IdleFrame EXCEPT !.step = "start", !.id = s,
                                     !.row = [NoRow EXCEPT !.good = good]])
  BY DEF CreateRow
<1>2. rows' \in [Ids -> Row]
  BY <1>0, <1>1, RowTypes DEF Put, TypeOK
<1>3. PICK r : r = [NoRow EXCEPT !.good = good]
  OBVIOUS
<1>4. r \in Row
  BY <1>3, RowTypes DEF Row
<1>5. PICK f : f = [IdleFrame EXCEPT !.step = "start", !.id = s, !.row = r]
  OBVIOUS
<1>6. f \in Frame
  BY <1>4, <1>5, BeginTypes, Zenon
<1>7. f.id = s
  BY <1>5, IdleFrameType, SMT DEF Frame
<1>8. at' = [at EXCEPT ![t] = f]
  BY <1>1, <1>3, <1>5 DEF Goto
<1>. QED  BY <1>0, <1>2, <1>6, <1>7, <1>8, ThreadStep DEF CreateRow, Named, TypeOK

LEMMA StartType ==
  ASSUME TypeInv, NEW t \in Threads, Start(t)
  PROVE  TypeInv'
<1>0. TypeOK /\ at[t].id \in Ids /\ Named(IdleFrame)
  BY FrameOf DEF Start, At, Named, IdSteps
<1>1. live' \subseteq Ids /\ memory' \in [Ids -> Instance]
  BY <1>0, RowTypes, RestoredType DEF Start, TypeOK
<1>. QED  BY <1>0, <1>1, IdleFrameType, ThreadStep DEF Start, Return, Goto, TypeOK

LEMMA DeleteType ==
  ASSUME TypeInv, NEW t \in Threads, NEW ids \in SUBSET Ids, NEW stop \in BOOLEAN,
         Delete(t, ids, stop)
  PROVE  TypeInv'
<1>1. PICK f : f = [IdleFrame EXCEPT !.step = "delete", !.todo = ids, !.stop = stop]
  OBVIOUS
<1>2. f \in Frame
  BY <1>1, BeginTypes, Zenon
<1>3. f.step = "delete"
  BY <1>1, IdleFrameType, SMT DEF Frame
<1>4. at' = [at EXCEPT ![t] = f]
  BY <1>1 DEF Delete, Goto
<1>. QED  BY <1>2, <1>3, <1>4, FrameOf, ThreadStep DEF Delete, Named, IdSteps, TypeOK

LEMMA StopStrategyType ==
  ASSUME TypeInv, NEW t \in Threads, StopStrategy(t)
  PROVE  TypeInv'
<1>0. at[t] \in Frame /\ TypeOK /\ Named(IdleFrame)
  BY FrameOf
<1>1. CASE Return(t) /\ UNCHANGED live
  BY <1>0, <1>1, IdleFrameType, ThreadStep DEF StopStrategy, Return, Goto, TypeOK
<1>2. ASSUME NEW s \in at[t].todo, live' = live \ {s}, NEW step \in {"mark", "archive"},
             Goto(t, [at[t] EXCEPT !.step = step, !.id = s, !.row = rows[s], !.todo = @ \ {s}])
      PROVE  TypeInv'
  <2>1. s \in Ids
    BY <1>0 DEF Frame
  <2>2. PICK r : r = rows[s]
    OBVIOUS
  <2>3. r \in Row /\ live' \subseteq Ids
    BY <1>0, <1>2, <2>1, <2>2 DEF TypeOK
  <2>4. PICK f : f = [at[t] EXCEPT !.step = step, !.id = s, !.row = r, !.todo = @ \ {s}]
    OBVIOUS
  <2>5. step \in Steps
    BY AllSteps
  <2>6. f \in Frame
    BY <1>0, <2>1, <2>3, <2>4, <2>5, StopUpdate, Zenon
  <2>7. f.id = s
    BY <1>0, <2>4, SMT DEF Frame
  <2>8. at' = [at EXCEPT ![t] = f]
    BY <1>2, <2>2, <2>4 DEF Goto
  <2>. QED  BY <1>0, <2>1, <2>3, <2>6, <2>7, <2>8, ThreadStep DEF StopStrategy, Named, TypeOK
<1>. QED  BY <1>1, <1>2 DEF StopStrategy

LEMMA MarkStoppedType ==
  ASSUME TypeInv, NEW t \in Threads, MarkStopped(t)
  PROVE  TypeInv'
<1>0. at[t] \in Frame /\ TypeOK /\ at[t].id \in Ids
  BY FrameOf DEF MarkStopped, At, Named, IdSteps
<1>1. PICK r : r = [at[t].row EXCEPT !.status = "stopped"]
  OBVIOUS
<1>2. r \in Row
  <2>1. at[t].row \in Row
    BY <1>0 DEF Frame
  <2>. QED  BY <1>1, <2>1 DEF Row
<1>3. rows' \in [Ids -> Row]
  BY <1>0, <1>1, <1>2 DEF MarkStopped, Put, TypeOK
<1>4. PICK f : f = [at[t] EXCEPT !.step = "archive"]
  OBVIOUS
<1>5. f \in Frame
  BY <1>0, <1>4, AllSteps, StepUpdate, Zenon
<1>6. f.id = at[t].id
  BY <1>0, <1>4, SMT DEF Frame
<1>7. at' = [at EXCEPT ![t] = f]
  BY <1>4 DEF MarkStopped, Goto
<1>. QED  BY <1>0, <1>3, <1>5, <1>6, <1>7, ThreadStep DEF MarkStopped, Named, TypeOK

LEMMA ArchiveStrategyType ==
  ASSUME TypeInv, NEW t \in Threads, ArchiveStrategy(t)
  PROVE  TypeInv'
<1>0. at[t] \in Frame /\ TypeOK /\ at[t].id \in Ids
  BY FrameOf DEF ArchiveStrategy, At, Named, IdSteps
<1>1. rows' \in [Ids -> Row] /\ archive' \subseteq Ids /\ live' \subseteq Ids
  BY <1>0, RowTypes DEF ArchiveStrategy, Unrow, Put, TypeOK
<1>2. PICK f : f = [at[t] EXCEPT !.step = "delete", !.id = NoStrategy, !.row = NoRow]
  OBVIOUS
<1>3. f \in Frame
  BY <1>0, <1>2, AllSteps, RowTypes, ArchiveUpdate, Zenon
<1>4. f.step = "delete"
  BY <1>0, <1>2, SMT DEF Frame
<1>5. at' = [at EXCEPT ![t] = f]
  BY <1>2 DEF ArchiveStrategy, Goto
<1>. QED  BY <1>0, <1>1, <1>3, <1>4, <1>5, ThreadStep DEF ArchiveStrategy, Named, IdSteps, TypeOK

LEMMA CrashType ==
  ASSUME TypeInv, Crash
  PROVE  TypeInv'
<1>1. TypeOK
  BY DEF TypeInv
<1>2. \A s \in Ids : rows[s].state \in State
  BY <1>1 DEF TypeOK, Row
<1>3. memory' \in [Ids -> Instance]
  BY <1>2, RestoredType DEF Crash
<1>. QED  BY <1>1, <1>3, FrameOf, IdleFrameType DEF Crash, TypeInv, TypeOK, Named, IdSteps, IdleFrame

LEMMA TypeStep == TypeInv /\ [Next]_vars => TypeInv'
<1> SUFFICES ASSUME TypeInv, [Next]_vars
             PROVE  TypeInv'
  OBVIOUS
<1>1. ASSUME NEW t \in Threads, Command(t)
      PROVE  TypeInv'
  <2>1. \A s \in live : {s} \in SUBSET Ids
    BY DEF TypeInv, TypeOK
  <2>2. live \in SUBSET Ids
    BY DEF TypeInv, TypeOK
  <2>3. CASE DeleteByPocket(t)
    BY <2>3, DeleteType DEF DeleteByPocket
  <2>4. CASE DeleteOne(t)
    BY <2>1, <2>4, DeleteType DEF DeleteOne
  <2>5. CASE ArchiveLive(t)
    BY <2>2, <2>5, DeleteType DEF ArchiveLive
  <2>. QED  BY <1>1, <2>3, <2>4, <2>5, CreateRowType DEF Command
<1>2. ASSUME NEW t \in Threads, Continue(t)
      PROVE  TypeInv'
  BY <1>2, NextStrategyType, GetRowType, SaveRowType, StartType, StopStrategyType,
     MarkStoppedType, ArchiveStrategyType DEF Continue
<1>3. CASE OnTick \/ OnOrderbook
  BY <1>3, VisitType, StrategiesAssumption DEF OnTick, OnOrderbook
<1>4. ASSUME NEW s \in Ids, TakeSignal(s)
      PROVE  TypeInv'
  BY <1>4, StrategiesAssumption DEF TakeSignal, TypeInv, TypeOK
<1>5. CASE UNCHANGED vars
  BY <1>5 DEF vars, TypeInv, TypeOK
<1>. QED  BY <1>1, <1>2, <1>3, <1>4, <1>5, CrashType DEF Next

\* Whatever threads interleave and wherever a crash falls, rows, instances and
\* frames keep their shape and no stop is below zero.  (StrategyDTO,
\* DefaultStrategy.)
THEOREM StrategiesTypeOK == Spec => []TypeOK
<1>1. TypeInv => TypeOK
  BY DEF TypeInv
<1>. QED  BY <1>1, TypeInit, TypeStep, PTL DEF Spec

----------------------------------------------------------------------------
(* One thread: the lifecycle.  The row a frame has in its hands is the row  *)
(* in the table, because nobody else writes between a read and its save.    *)

Found(f, tbl) ==
  /\ f.step \in {"save", "mark"} => tbl[f.id].status # "none" /\ f.row = tbl[f.id]
  /\ f.step = "start" => tbl[f.id].status # "none" /\ tbl[f.id].state = Fresh

LifeInv == /\ \A s \in archive : ~ HasRow(s)
           /\ Found(at[MainLoop], rows)

\* The next step finds what it relies on, and strategies take a step of their
\* lifecycle or none.
LifeStep == LifeInv' /\ (Lifecycle!Next \/ UNCHANGED LifecycleStatus)

\* A thread that goes to a frame is there.
LEMMA Moved ==
  ASSUME TypeInv, NEW f, Goto(MainLoop, f)
  PROVE  at'[MainLoop] = f
  BY StrategiesAssumption DEF TypeInv, TypeOK, Goto

LEMMA FoundIdle == \A tbl : Found(IdleFrame, tbl)
  BY DEF Found, IdleFrame

\* A step that writes no row.
LEMMA Keeps ==
  ASSUME LifeInv, UNCHANGED <<rows, archive>>, Found(at'[MainLoop], rows)
  PROVE  LifeStep
  BY DEF LifeStep, LifeInv, LifecycleStatus, HasRow

\* A step that writes one row, of a strategy that is not in the archive then.
LEMMA Writes ==
  ASSUME TypeInv, LifeInv, NEW s \in Ids, NEW r \in Row, Put(s, r), archive' = archive,
         s \notin archive, Found(at'[MainLoop], rows'),
         \/ r.status = rows[s].status
         \/ rows[s].status = "none" /\ r.status = "active"
         \/ rows[s].status = "active" /\ r.status = "stopped"
  PROVE  LifeStep
<1>1. rows \in [Ids -> Row] /\ rows'[s] = r /\ \A u \in Ids \ {s} : rows'[u] = rows[u]
  BY DEF TypeInv, TypeOK, Put
<1>2. \A u \in Ids \ {s} : LifecycleStatus'[u] = LifecycleStatus[u]
  BY <1>1 DEF LifecycleStatus, HasRow
<1>3. LifecycleStatus[s] = rows[s].status /\ LifecycleStatus'[s] = r.status
  BY <1>1 DEF LifecycleStatus
<1>4. LifecycleStatus' = [LifecycleStatus EXCEPT ![s] = r.status]
  BY <1>2, <1>3 DEF LifecycleStatus
<1>5. Lifecycle!Next \/ UNCHANGED LifecycleStatus
  <2>1. CASE r.status = rows[s].status
    BY <1>2, <1>3, <2>1 DEF LifecycleStatus
  <2>2. CASE rows[s].status = "none" /\ r.status = "active"
    BY <1>3, <1>4, <2>2 DEF Lifecycle!Next, Lifecycle!Create, Lifecycle!Become
  <2>3. CASE rows[s].status = "active" /\ r.status = "stopped"
    BY <1>3, <1>4, <2>3 DEF Lifecycle!Next, Lifecycle!Stop, Lifecycle!Become
  <2>. QED  BY <2>1, <2>2, <2>3
<1>6. \A u \in archive' : ~ (rows'[u].status # "none")
  BY <1>1 DEF LifeInv, HasRow, TypeInv, TypeOK
<1>. QED  BY <1>5, <1>6 DEF LifeStep, LifeInv, HasRow

LEMMA NextStrategyLife ==
  ASSUME TypeInv, LifeInv, NextStrategy(MainLoop)
  PROVE  LifeStep
<1>0. at[MainLoop] \in Frame
  BY FrameOf, StrategiesAssumption
<1>1. CASE Return(MainLoop)
  BY <1>1, Moved, FoundIdle, Keeps DEF NextStrategy, Return
<1>2. ASSUME NEW s, NEW b, NEW step \in {"get", "tick"},
             Goto(MainLoop, [at[MainLoop] EXCEPT !.step = step, !.id = s, !.signal = b,
                                                 !.visited = @ \cup {s}])
      PROVE  LifeStep
  <2>1. PICK f : f = [at[MainLoop] EXCEPT !.step = step, !.id = s, !.signal = b,
                                          !.visited = @ \cup {s}]
    OBVIOUS
  <2>2. f.step = step
    BY <1>0, <2>1, SMT DEF Frame
  <2>3. at'[MainLoop] = f
    BY <1>2, <2>1, Moved
  <2>. QED  BY <2>2, <2>3, Keeps DEF Found, NextStrategy
<1>. QED  BY <1>1, <1>2 DEF NextStrategy

LEMMA GetRowLife ==
  ASSUME TypeInv, LifeInv, GetRow(MainLoop)
  PROVE  LifeStep
<1>0. at[MainLoop] \in Frame /\ at[MainLoop].id \in Ids
  BY FrameOf, StrategiesAssumption DEF GetRow, At, Named, IdSteps
<1>1. CASE Persisted(MainLoop)
  <2>1. PICK f : f = [at[MainLoop] EXCEPT !.step = "tick", !.row = NoRow]
    OBVIOUS
  <2>2. f.step = "tick"
    BY <1>0, <2>1, SMT DEF Frame
  <2>3. at'[MainLoop] = f
    BY <1>1, <2>1, Moved DEF Persisted
  <2>. QED  BY <2>2, <2>3, Keeps DEF Found, GetRow
<1>2. CASE /\ HasRow(at[MainLoop].id)
           /\ Goto(MainLoop, [at[MainLoop] EXCEPT !.step = "save", !.row = rows[at[MainLoop].id]])
  <2>1. PICK r : r = rows[at[MainLoop].id]
    OBVIOUS
  <2>2. PICK f : f = [at[MainLoop] EXCEPT !.step = "save", !.row = r]
    OBVIOUS
  <2>3. f.step = "save" /\ f.id = at[MainLoop].id /\ f.row = r
    BY <1>0, <2>2, SMT DEF Frame
  <2>4. at'[MainLoop] = f
    BY <1>2, <2>1, <2>2, Moved
  <2>. QED  BY <1>2, <2>1, <2>3, <2>4, Keeps DEF Found, GetRow, HasRow
<1>. QED  BY <1>1, <1>2 DEF GetRow

LEMMA SaveRowLife ==
  ASSUME TypeInv, LifeInv, SaveRow(MainLoop)
  PROVE  LifeStep
<1>0. /\ at[MainLoop] \in Frame /\ at[MainLoop].id \in Ids /\ TypeOK
      /\ at[MainLoop].step = "save"
  BY FrameOf, StrategiesAssumption DEF SaveRow, At, Named, IdSteps
<1>1. PICK s, m : s = at[MainLoop].id /\ m = memory[s].state
  OBVIOUS
<1>2. PICK r : r = [at[MainLoop].row EXCEPT !.state = m]
  OBVIOUS
<1>3. m \in State /\ at[MainLoop].row \in Row
  BY <1>0, <1>1 DEF TypeOK, Instance, Frame
<1>4. r \in Row /\ r.status = at[MainLoop].row.status
  BY <1>2, <1>3 DEF Row
<1>5. r.status = rows[s].status /\ s \in Ids /\ s \notin archive
  BY <1>0, <1>1, <1>4 DEF LifeInv, Found, HasRow
<1>6. Put(s, r)
  BY <1>1, <1>2 DEF SaveRow
<1>7. PICK f : f = [at[MainLoop] EXCEPT !.step = "tick", !.row = NoRow]
  OBVIOUS
<1>8. f.step = "tick"
  BY <1>0, <1>7, SMT DEF Frame
<1>9. at'[MainLoop] = f
  BY <1>7, Moved DEF SaveRow, Persisted
<1>10. Found(at'[MainLoop], rows')
  BY <1>8, <1>9 DEF Found
<1>. QED  BY <1>4, <1>5, <1>6, <1>10, Writes DEF SaveRow

LEMMA CreateRowLife ==
  ASSUME TypeInv, LifeInv, CreateRow(MainLoop)
  PROVE  LifeStep
<1>0. TypeOK
  BY DEF TypeInv
<1>1. PICK s \in Ids, good \in BOOLEAN :
        /\ ~ HasRow(s) /\ s \notin archive
        /\ Put(s, [status |-> "active", good |-> good, state |-> Fresh])
        /\ Goto(MainLoop, [IdleFrame EXCEPT !.step = "start", !.id = s,
                                            !.row = [NoRow EXCEPT !.good = good]])
  BY DEF CreateRow
<1>2. PICK r : r = [status |-> "active", good |-> good, state |-> Fresh]
  OBVIOUS
<1>3. r \in Row /\ r.status = "active" /\ r.state = Fresh
  BY <1>2, RowTypes
<1>4. PICK n : n = [NoRow EXCEPT !.good = good]
  OBVIOUS
<1>5. PICK f : f = [IdleFrame EXCEPT !.step = "start", !.id = s, !.row = n]
  OBVIOUS
<1>6. f.step = "start" /\ f.id = s
  BY <1>5, IdleFrameType, SMT DEF Frame
<1>7. at'[MainLoop] = f
  BY <1>1, <1>4, <1>5, Moved
<1>8. rows'[s] = r /\ Put(s, r)
  BY <1>0, <1>1, <1>2 DEF Put, TypeOK
<1>9. Found(at'[MainLoop], rows')
  BY <1>3, <1>6, <1>7, <1>8 DEF Found
<1>. QED  BY <1>1, <1>3, <1>8, <1>9, Writes DEF CreateRow, HasRow

LEMMA DeleteLife ==
  ASSUME TypeInv, LifeInv, NEW ids, NEW stop, Delete(MainLoop, ids, stop)
  PROVE  LifeStep
<1>1. PICK f : f = [IdleFrame EXCEPT !.step = "delete", !.todo = ids, !.stop = stop]
  OBVIOUS
<1>2. f.step = "delete"
  BY <1>1, IdleFrameType, SMT DEF Frame
<1>3. at'[MainLoop] = f
  BY <1>1, Moved DEF Delete
<1>. QED  BY <1>2, <1>3, Keeps DEF Found, Delete

LEMMA StopStrategyLife ==
  ASSUME TypeInv, LifeInv, StopStrategy(MainLoop)
  PROVE  LifeStep
<1>0. at[MainLoop] \in Frame
  BY FrameOf, StrategiesAssumption
<1>1. CASE Return(MainLoop)
  BY <1>1, Moved, FoundIdle, Keeps DEF StopStrategy, Return
<1>2. ASSUME NEW s, NEW step \in {"mark", "archive"}, step = "mark" => HasRow(s),
             Goto(MainLoop, [at[MainLoop] EXCEPT !.step = step, !.id = s, !.row = rows[s],
                                                 !.todo = @ \ {s}])
      PROVE  LifeStep
  <2>1. PICK r : r = rows[s]
    OBVIOUS
  <2>2. PICK f : f = [at[MainLoop] EXCEPT !.step = step, !.id = s, !.row = r, !.todo = @ \ {s}]
    OBVIOUS
  <2>3. f.step = step /\ f.id = s /\ f.row = r
    BY <1>0, <2>2, SMT DEF Frame
  <2>4. at'[MainLoop] = f
    BY <1>2, <2>1, <2>2, Moved
  <2>. QED  BY <1>2, <2>1, <2>3, <2>4, Keeps DEF Found, StopStrategy, HasRow
<1>. QED  BY <1>1, <1>2 DEF StopStrategy

LEMMA MarkStoppedLife ==
  ASSUME TypeInv, LifeInv, MarkStopped(MainLoop)
  PROVE  LifeStep
<1>0. /\ at[MainLoop] \in Frame /\ at[MainLoop].id \in Ids /\ TypeOK
      /\ at[MainLoop].step = "mark"
  BY FrameOf, StrategiesAssumption DEF MarkStopped, At, Named, IdSteps
<1>1. PICK s, r : s = at[MainLoop].id /\ r = [at[MainLoop].row EXCEPT !.status = "stopped"]
  OBVIOUS
<1>2. at[MainLoop].row \in Row
  BY <1>0 DEF Frame
<1>3. r \in Row /\ r.status = "stopped"
  BY <1>1, <1>2 DEF Row
<1>4. /\ s \in Ids /\ s \notin archive /\ rows[s] \in Row
      /\ rows[s].status # "none"
  BY <1>0, <1>1 DEF LifeInv, Found, HasRow, TypeOK
<1>5. rows[s].status \in {"active", "stopped"}
  BY <1>4 DEF Row
<1>6. PICK f : f = [at[MainLoop] EXCEPT !.step = "archive"]
  OBVIOUS
<1>7. f.step = "archive"
  BY <1>0, <1>6, SMT DEF Frame
<1>8. at'[MainLoop] = f
  BY <1>6, Moved DEF MarkStopped
<1>9. Found(at'[MainLoop], rows')
  BY <1>7, <1>8 DEF Found
<1>. QED  BY <1>1, <1>3, <1>4, <1>5, <1>9, Writes DEF MarkStopped

LEMMA ArchiveStrategyLife ==
  ASSUME TypeInv, LifeInv, ArchiveStrategy(MainLoop)
  PROVE  LifeStep
<1>0. at[MainLoop] \in Frame /\ at[MainLoop].id \in Ids /\ TypeOK
  BY FrameOf, StrategiesAssumption DEF ArchiveStrategy, At, Named, IdSteps
<1>1. PICK f : f = [at[MainLoop] EXCEPT !.step = "delete", !.id = NoStrategy, !.row = NoRow]
  OBVIOUS
<1>2. f.step = "delete"
  BY <1>0, <1>1, SMT DEF Frame
<1>3. at'[MainLoop] = f
  BY <1>1, Moved DEF ArchiveStrategy
<1>4. Found(f, rows) /\ Found(f, rows')
  BY <1>2 DEF Found
<1>5. CASE UNCHANGED <<rows, archive>>
  BY <1>3, <1>4, <1>5, Keeps
<1>6. ASSUME HasRow(at[MainLoop].id), Unrow(at[MainLoop].id),
             archive' = archive \cup {at[MainLoop].id}
      PROVE  LifeStep
  <2>1. PICK s : s = at[MainLoop].id
    OBVIOUS
  <2>2. /\ s \in Ids /\ s \notin archive /\ rows[s] \in Row
        /\ rows[s].status # "none"
    BY <1>0, <1>6, <2>1 DEF LifeInv, HasRow, TypeOK
  <2>3. rows[s].status \in {"active", "stopped"}
    BY <2>2 DEF Row
  <2>4. rows'[s] = NoRow /\ \A u \in Ids \ {s} : rows'[u] = rows[u]
    BY <1>0, <1>6, <2>1, <2>2 DEF Unrow, Put, TypeOK
  <2>5. /\ LifecycleStatus[s] = rows[s].status /\ LifecycleStatus'[s] = "archived"
        /\ \A u \in Ids \ {s} : LifecycleStatus'[u] = LifecycleStatus[u]
    BY <1>6, <2>1, <2>2, <2>4 DEF LifecycleStatus, HasRow, NoRow
  <2>6. LifecycleStatus' = [LifecycleStatus EXCEPT ![s] = "archived"]
    BY <2>5 DEF LifecycleStatus
  <2>7. Lifecycle!Next
    BY <2>2, <2>3, <2>5, <2>6 DEF Lifecycle!Next, Lifecycle!Archive, Lifecycle!Become
  <2>8. \A u \in archive' : ~ (rows'[u].status # "none")
    BY <1>0, <1>6, <2>1, <2>4 DEF LifeInv, HasRow, NoRow, TypeOK
  <2>. QED  BY <1>3, <1>4, <2>7, <2>8 DEF LifeStep, LifeInv, HasRow
<1>. QED  BY <1>5, <1>6 DEF ArchiveStrategy

LEMMA OneThreadStep ==
  ASSUME Threads = {MainLoop}
  PROVE  TypeInv /\ LifeInv /\ [Next]_vars => LifeStep
<1> SUFFICES ASSUME TypeInv, LifeInv, [Next]_vars
             PROVE  LifeStep
  OBVIOUS
<1>1. ASSUME Command(MainLoop)
      PROVE  LifeStep
  BY <1>1, CreateRowLife, DeleteLife DEF Command, DeleteByPocket, DeleteOne, ArchiveLive
<1>2. ASSUME Continue(MainLoop)
      PROVE  LifeStep
  <2>1. CASE Start(MainLoop)
    BY <2>1, Moved, FoundIdle, Keeps DEF Start, Return
  <2>. QED  BY <1>2, <2>1, NextStrategyLife, GetRowLife, SaveRowLife, StopStrategyLife,
                MarkStoppedLife, ArchiveStrategyLife DEF Continue
<1>3. ASSUME NEW price \in Nat, Visit(price)
      PROVE  LifeStep
  <2>1. PICK n : n = Cardinality(live)
    OBVIOUS
  <2>2. PICK f : f = [IdleFrame EXCEPT !.step = "tick", !.price = price, !.size = n]
    OBVIOUS
  <2>3. f.step = "tick"
    BY <2>2, IdleFrameType, SMT DEF Frame
  <2>4. at'[MainLoop] = f
    BY <1>3, <2>1, <2>2, Moved DEF Visit
  <2>. QED  BY <1>3, <2>3, <2>4, Keeps DEF Visit, Found
<1>4. CASE OnTick \/ OnOrderbook
  BY <1>3, <1>4, StrategiesAssumption DEF OnTick, OnOrderbook
<1>5. ASSUME NEW s \in Ids, TakeSignal(s)
      PROVE  LifeStep
  BY <1>5, Keeps DEF TakeSignal, LifeInv
<1>6. CASE UNCHANGED vars
  BY <1>6, Keeps DEF vars, LifeInv
<1>7. CASE Crash
  BY <1>7, FoundIdle, Keeps, StrategiesAssumption DEF Crash
<1>. QED  BY <1>1, <1>2, <1>4, <1>5, <1>6, <1>7 DEF Next

\* One thread, killed and restarted at will, takes every strategy from active
\* over stopped to archived, and no archived one comes back.  (stop_strategy,
\* archive_strategy and _persist_strategy, which writes a row it has read.)
THEOREM OneThreadKeepsStrategyLifecycle ==
  ASSUME Threads = {MainLoop}
  PROVE  Spec => StrategyLifecycleSpec
<1>1. Init => LifeInv /\ Lifecycle!Init
  BY StrategiesAssumption, FoundIdle
     DEF Init, LifeInv, Lifecycle!Init, LifecycleStatus, HasRow, NoRow
<1>2. TypeInv /\ LifeInv /\ [Next]_vars => LifeInv' /\ [Lifecycle!Next]_LifecycleStatus
  BY OneThreadStep DEF LifeStep
<1>. QED  BY <1>1, <1>2, TypeInit, TypeStep, PTL
          DEF Spec, StrategyLifecycleSpec, Lifecycle!Spec

----------------------------------------------------------------------------
(* One thread: saved stops.  A stop in memory only rises, because it never  *)
(* exceeds what the highest price gives and that only rises; and the saved  *)
(* stop is one that was in memory.                                          *)

Bounded(m) == m.stop <= StopFrom(m.highest)

StopInv == \A s \in Ids : /\ Bounded(memory[s].state) /\ Bounded(rows[s].state)
                          /\ rows[s].state.stop <= memory[s].state.stop

\* Saved stops of active strategies did not fall.
StopsKept ==
  \A s \in Ids : rows[s].status = "active" /\ rows'[s].status = "active"
                   => rows'[s].state.stop >= rows[s].state.stop

LEMMA FreshBounded == Fresh.stop = 0 /\ Bounded(Fresh)
<1>1. Fresh.highest = 0 /\ Fresh.stop = 0
  BY DEF Fresh
<1>. QED  BY <1>1, StopFromMonotone DEF Bounded

LEMMA TickedStop ==
  ASSUME NEW i \in Instance, NEW price \in Nat, Bounded(i.state)
  PROVE  /\ Bounded(Ticked(i, price).instance.state)
         /\ i.state.stop <= Ticked(i, price).instance.state.stop
<1>1. PICK m : m = i.state
  OBVIOUS
<1>2. m \in State /\ Bounded(m)
  BY <1>1 DEF Instance
<1>3. PICK n : n = Trailed(m, price)
  OBVIOUS
<1>4. n \in State
  BY <1>2, <1>3, TrailedType
<1>5. Bounded(n) /\ m.stop <= n.stop
  <2>1. CASE ~ NewHigh(m, price)
    BY <1>2, <1>3, <2>1 DEF Trailed, State
  <2>2. CASE NewHigh(m, price)
    <3>1. price > m.highest /\ m.highest \in Nat /\ m.stop \in Nat
      BY <1>2, <2>2 DEF NewHigh, State
    <3>2. /\ StopFrom(m.highest) \in Nat /\ StopFrom(price) \in Nat
          /\ StopFrom(m.highest) <= StopFrom(price)
      BY <3>1, StopFromMonotone
    <3>3. PICK stop : stop = StopFrom(price)
      OBVIOUS
    <3>4. PICK on : on = (m.activated \/ Activation = 0 \/ ProfitReaches(price, Activation))
      OBVIOUS
    <3>5. n = [m EXCEPT !.highest = price, !.activated = on, !.stop = IF on THEN stop ELSE @]
      BY <1>3, <2>2, <3>3, <3>4 DEF Trailed
    <3>6. n.highest = price /\ n.stop \in {stop, m.stop}
      BY <1>2, <3>5 DEF State
    <3>. QED  BY <1>2, <3>1, <3>2, <3>3, <3>6 DEF Bounded
  <2>. QED  BY <2>1, <2>2
<1>6. PICK j : j = [i EXCEPT !.state.tp = TRUE]
  OBVIOUS
<1>7. j.state.stop = m.stop /\ j.state.highest = m.highest
  BY <1>1, <1>2, <1>6 DEF Instance, State
<1>8. PICK k : k = Redisplayed(i, n)
  OBVIOUS
<1>9. k.state = n
  BY <1>8 DEF Redisplayed
<1>10. Ticked(i, price).instance \in {i, j, k}
  BY <1>1, <1>3, <1>6, <1>8 DEF Ticked
<1>11. Bounded(j.state)
  BY <1>2, <1>7 DEF Bounded
<1>12. m.stop <= m.stop
  BY <1>2 DEF State
<1>. QED  BY <1>1, <1>2, <1>5, <1>7, <1>9, <1>10, <1>11, <1>12

\* Steps that write neither rows nor instances.
LEMMA StopsRest ==
  ASSUME TypeInv, StopInv, UNCHANGED <<rows, memory>>
  PROVE  StopInv' /\ StopsKept
<1>1. \A s \in Ids : rows[s].state.stop \in Nat
  BY DEF TypeInv, TypeOK, Row, State
<1>. QED  BY <1>1 DEF StopInv, StopsKept, Bounded

\* An instance after _persist_strategy has the state it had.
LEMMA PersistedStop ==
  ASSUME TypeInv, NEW t \in Threads, Persisted(t), at[t].id \in Ids
  PROVE  \A s \in Ids : memory'[s].state = memory[s].state
<1>1. PICK b : b = (memory[at[t].id].updated /\ at[t].signal)
  OBVIOUS
<1>2. memory' = [memory EXCEPT ![at[t].id].updated = b]
  BY <1>1 DEF Persisted
<1>3. memory[at[t].id] \in Instance /\ memory \in [Ids -> Instance]
  BY DEF TypeInv, TypeOK
<1>. QED  BY <1>2, <1>3 DEF Instance

LEMMA NextStrategyStop ==
  ASSUME TypeInv, StopInv, NextStrategy(MainLoop)
  PROVE  StopInv' /\ StopsKept
<1>0. at[MainLoop] \in Frame /\ TypeOK
  BY FrameOf, StrategiesAssumption
<1>1. CASE UNCHANGED memory
  BY <1>1, StopsRest DEF NextStrategy
<1>2. ASSUME NEW s \in live, NEW r,
             \/ r = [instance |-> memory[s], signal |-> FALSE]
             \/ r = Ticked(memory[s], at[MainLoop].price),
             memory' = [memory EXCEPT ![s] = r.instance]
      PROVE  StopInv' /\ StopsKept
  <2>1. PICK i \in Instance, p \in Nat : i = memory[s] /\ p = at[MainLoop].price
    BY <1>0 DEF TypeOK, Frame
  <2>2. s \in Ids /\ Bounded(i.state)
    BY <1>0, <2>1 DEF TypeOK, StopInv
  <2>3. i.state.stop \in Nat
    BY DEF Instance, State
  <2>4. Bounded(r.instance.state) /\ i.state.stop <= r.instance.state.stop
        /\ r.instance.state.stop \in Nat
    <3>1. CASE r = [instance |-> i, signal |-> FALSE]
      <4>1. r.instance = i
        BY <3>1
      <4>. QED  BY <2>2, <2>3, <4>1
    <3>2. CASE r = Ticked(i, p)
      BY <2>2, <3>2, TickedStop, TickedType DEF Instance, State
    <3>. QED  BY <1>2, <2>1, <3>1, <3>2
  <2>5. PICK j : j = r.instance
    OBVIOUS
  <2>6. /\ memory'[s].state = j.state
        /\ \A u \in Ids \ {s} : memory'[u].state = memory[u].state
    BY <1>0, <1>2, <2>2, <2>5 DEF TypeOK
  <2>7. rows' = rows /\ \A u \in Ids : rows[u].state.stop \in Nat
    BY <1>0 DEF NextStrategy, TypeOK, Row, State
  <2>8. rows[s].state.stop <= j.state.stop
    BY <2>1, <2>2, <2>3, <2>4, <2>5, <2>7 DEF StopInv
  <2>9. StopInv'
    BY <2>2, <2>4, <2>5, <2>6, <2>7, <2>8 DEF StopInv, Bounded
  <2>. QED  BY <2>7, <2>9 DEF StopsKept
<1>. QED  BY <1>1, <1>2 DEF NextStrategy

\* A row is written; its stop is bounded and not above the one in memory.
LEMMA WritesStop ==
  ASSUME TypeInv, StopInv, NEW s \in Ids, NEW r \in Row, Put(s, r), Bounded(r.state),
         r.state.stop <= memory[s].state.stop,
         rows[s].status = "active" /\ r.status = "active"
           => r.state.stop >= rows[s].state.stop,
         \A u \in Ids : memory'[u].state = memory[u].state
  PROVE  StopInv' /\ StopsKept
<1>1. rows'[s] = r /\ \A u \in Ids \ {s} : rows'[u] = rows[u]
  BY DEF TypeInv, TypeOK, Put
<1>2. \A u \in Ids : rows[u].state.stop \in Nat
  BY DEF TypeInv, TypeOK, Row, State
<1>3. StopInv'
  BY <1>1 DEF StopInv, Bounded
<1>4. StopsKept
  BY <1>1, <1>2 DEF StopsKept
<1>. QED  BY <1>3, <1>4

LEMMA SaveRowStop ==
  ASSUME TypeInv, StopInv, LifeInv, SaveRow(MainLoop)
  PROVE  StopInv' /\ StopsKept
<1>0. /\ at[MainLoop] \in Frame /\ at[MainLoop].id \in Ids /\ TypeOK
      /\ at[MainLoop].step = "save" /\ MainLoop \in Threads
  BY FrameOf, StrategiesAssumption DEF SaveRow, At, Named, IdSteps
<1>1. PICK s, m : s = at[MainLoop].id /\ m = memory[s].state
  OBVIOUS
<1>2. PICK r : r = [at[MainLoop].row EXCEPT !.state = m]
  OBVIOUS
<1>3. m \in State /\ at[MainLoop].row \in Row
  BY <1>0, <1>1 DEF TypeOK, Instance, Frame
<1>4. r \in Row /\ r.state = m /\ m.stop \in Nat
  BY <1>2, <1>3 DEF Row, State
<1>5. Bounded(m) /\ rows[s].state.stop <= m.stop /\ s \in Ids
  BY <1>0, <1>1 DEF StopInv
<1>6. rows[s].state.stop \in Nat
  BY <1>0, <1>5 DEF TypeOK, Row, State
<1>7. r.state.stop <= memory[s].state.stop /\ r.state.stop >= rows[s].state.stop
  BY <1>1, <1>4, <1>5, <1>6
<1>8. Put(s, r)
  BY <1>1, <1>2 DEF SaveRow
<1>9. \A u \in Ids : memory'[u].state = memory[u].state
  BY <1>0, PersistedStop DEF SaveRow
<1>. QED  BY <1>4, <1>5, <1>7, <1>8, <1>9, WritesStop

LEMMA CreateRowStop ==
  ASSUME TypeInv, StopInv, CreateRow(MainLoop)
  PROVE  StopInv' /\ StopsKept
<1>1. PICK s \in Ids, good \in BOOLEAN :
        ~ HasRow(s) /\ Put(s, [status |-> "active", good |-> good, state |-> Fresh])
  BY DEF CreateRow
<1>2. PICK r : r = [status |-> "active", good |-> good, state |-> Fresh]
  OBVIOUS
<1>3. r \in Row /\ r.state = Fresh
  BY <1>2, RowTypes
<1>4. 0 <= memory[s].state.stop
  BY DEF TypeInv, TypeOK, Instance, State
<1>. QED  BY <1>1, <1>2, <1>3, <1>4, FreshBounded, WritesStop DEF CreateRow, HasRow

LEMMA MarkStoppedStop ==
  ASSUME TypeInv, StopInv, LifeInv, MarkStopped(MainLoop)
  PROVE  StopInv' /\ StopsKept
<1>0. /\ at[MainLoop] \in Frame /\ at[MainLoop].id \in Ids /\ TypeOK
      /\ at[MainLoop].step = "mark"
  BY FrameOf, StrategiesAssumption DEF MarkStopped, At, Named, IdSteps
<1>1. PICK s, r : s = at[MainLoop].id /\ r = [at[MainLoop].row EXCEPT !.status = "stopped"]
  OBVIOUS
<1>2. at[MainLoop].row \in Row
  BY <1>0 DEF Frame
<1>3. r \in Row /\ r.status = "stopped" /\ r.state = at[MainLoop].row.state
  BY <1>1, <1>2 DEF Row
<1>4. s \in Ids /\ r.state = rows[s].state
  BY <1>0, <1>1, <1>3 DEF LifeInv, Found
<1>5. Bounded(r.state) /\ r.state.stop <= memory[s].state.stop
  BY <1>4 DEF StopInv
<1>. QED  BY <1>1, <1>3, <1>4, <1>5, WritesStop DEF MarkStopped

LEMMA ArchiveStrategyStop ==
  ASSUME TypeInv, StopInv, ArchiveStrategy(MainLoop)
  PROVE  StopInv' /\ StopsKept
<1>0. at[MainLoop].id \in Ids /\ TypeOK
  BY FrameOf, StrategiesAssumption DEF ArchiveStrategy, At, Named, IdSteps
<1>1. CASE UNCHANGED rows
  BY <1>1, StopsRest DEF ArchiveStrategy
<1>2. CASE Put(at[MainLoop].id, NoRow)
  <2>1. NoRow.state = Fresh /\ NoRow.status = "none" /\ NoRow \in Row
    BY RowTypes DEF NoRow
  <2>2. 0 <= memory[at[MainLoop].id].state.stop
    BY <1>0 DEF TypeOK, Instance, State
  <2>. QED  BY <1>0, <1>2, <2>1, <2>2, FreshBounded, WritesStop DEF ArchiveStrategy
<1>. QED  BY <1>1, <1>2 DEF ArchiveStrategy, Unrow

LEMMA StartStop ==
  ASSUME TypeInv, StopInv, LifeInv, Start(MainLoop)
  PROVE  StopInv' /\ StopsKept
<1>1. CASE UNCHANGED memory
  BY <1>1, StopsRest DEF Start
<1>2. CASE memory' = [memory EXCEPT ![at[MainLoop].id] = Restored(Fresh)]
  <2>1. PICK s : s = at[MainLoop].id
    OBVIOUS
  <2>2. s \in Ids /\ rows[s].state = Fresh /\ TypeOK
    BY <2>1, FrameOf, StrategiesAssumption DEF Start, At, Named, IdSteps, LifeInv, Found
  <2>3. memory'[s].state = Fresh /\ \A u \in Ids \ {s} : memory'[u].state = memory[u].state
    BY <1>2, <2>1, <2>2 DEF TypeOK, Restored
  <2>4. rows' = rows /\ \A u \in Ids : rows[u].state.stop \in Nat
    BY <2>2 DEF Start, TypeOK, Row, State
  <2>5. Fresh.stop <= Fresh.stop
    BY DEF Fresh
  <2>6. StopInv'
    BY <2>2, <2>3, <2>4, <2>5, FreshBounded DEF StopInv, Bounded
  <2>. QED  BY <2>4, <2>6 DEF StopsKept
<1>. QED  BY <1>1, <1>2 DEF Start

LEMMA CrashStop ==
  ASSUME TypeInv, StopInv, Crash
  PROVE  StopInv' /\ StopsKept
<1>1. rows' = rows /\ \A s \in Ids : rows[s].state.stop \in Nat
  BY DEF Crash, TypeInv, TypeOK, Row, State
<1>2. \A s \in Ids : memory'[s].state = rows[s].state
  BY DEF Crash, Restored
<1>3. StopInv'
  BY <1>1, <1>2 DEF StopInv, Bounded
<1>. QED  BY <1>1, <1>3 DEF StopsKept

LEMMA GetRowStop ==
  ASSUME TypeInv, StopInv, GetRow(MainLoop)
  PROVE  StopInv' /\ StopsKept
<1>0. /\ at[MainLoop].id \in Ids /\ MainLoop \in Threads /\ rows' = rows
      /\ \A u \in Ids : rows[u].state.stop \in Nat
  BY FrameOf, StrategiesAssumption DEF GetRow, At, Named, IdSteps, TypeOK, Row, State
<1>1. CASE UNCHANGED memory
  BY <1>0, <1>1, StopsRest
<1>2. CASE Persisted(MainLoop)
  <2>1. \A u \in Ids : memory'[u].state = memory[u].state
    BY <1>0, <1>2, PersistedStop
  <2>2. StopInv'
    BY <1>0, <2>1 DEF StopInv, Bounded
  <2>. QED  BY <1>0, <2>2 DEF StopsKept
<1>. QED  BY <1>1, <1>2 DEF GetRow

LEMMA OneThreadStop ==
  ASSUME Threads = {MainLoop}
  PROVE  TypeInv /\ LifeInv /\ StopInv /\ [Next]_vars => StopInv' /\ StopsKept
<1> SUFFICES ASSUME TypeInv, LifeInv, StopInv, [Next]_vars
             PROVE  StopInv' /\ StopsKept
  OBVIOUS
<1>1. ASSUME Command(MainLoop)
      PROVE  StopInv' /\ StopsKept
  BY <1>1, CreateRowStop, StopsRest DEF Command, DeleteByPocket, DeleteOne, ArchiveLive, Delete
<1>2. ASSUME Continue(MainLoop)
      PROVE  StopInv' /\ StopsKept
  <2>1. CASE StopStrategy(MainLoop)
    BY <2>1, StopsRest DEF StopStrategy
  <2>. QED  BY <1>2, <2>1, NextStrategyStop, GetRowStop, SaveRowStop, StartStop,
                MarkStoppedStop, ArchiveStrategyStop DEF Continue
<1>3. CASE OnTick \/ OnOrderbook
  BY <1>3, StopsRest DEF OnTick, OnOrderbook, Visit
<1>4. ASSUME NEW s \in Ids, TakeSignal(s)
      PROVE  StopInv' /\ StopsKept
  BY <1>4, StopsRest DEF TakeSignal
<1>5. CASE UNCHANGED vars
  BY <1>5, StopsRest DEF vars
<1>. QED  BY <1>1, <1>2, <1>3, <1>4, <1>5, CrashStop DEF Next

\* One thread: over ticks, saves and restarts the saved stop of an active
\* strategy never falls, whatever prices do.  (DefaultStrategy.on_tick,
\* _persist_strategy, restore_state.)
THEOREM OneThreadStopNeverFalls ==
  ASSUME Threads = {MainLoop}
  PROVE  Spec => SavedStopNeverFalls
<1>1. Init => LifeInv /\ StopInv
  <2>1. Init => LifeInv
    BY StrategiesAssumption, FoundIdle DEF Init, LifeInv
  <2>2. Fresh.stop <= Fresh.stop
    BY DEF Fresh
  <2>3. Init => StopInv
    BY <2>2, FreshBounded DEF Init, StopInv, NoRow, Restored
  <2>. QED  BY <2>1, <2>3
<1>2. TypeInv /\ LifeInv /\ [Next]_vars => LifeInv'
  BY OneThreadStep DEF LifeStep
<1>3. TypeInv /\ LifeInv /\ StopInv /\ [Next]_vars
        => /\ StopInv'
           /\ [\A s \in Ids : rows[s].status = "active" /\ rows'[s].status = "active"
                 => rows'[s].state.stop >= rows[s].state.stop]_rows
  BY OneThreadStop DEF StopsKept
<1>. QED  BY <1>1, <1>2, <1>3, TypeInit, TypeStep, PTL DEF Spec, SavedStopNeverFalls

----------------------------------------------------------------------------
(* One thread: take profits.  An instance whose take profit is taken has    *)
(* signalled it since the process began, or was restored from such a row.   *)

Signalled(s) == s \in signals \/ PocketOf[s] \in closing

TakenInv ==
  \A s \in Ids :
    /\ HasRow(s) /\ memory[s].state.tp => rows[s].state.tp \/ Signalled(s)
    /\ ~ HasRow(s) => s \notin live /\ rows[s].state = Fresh
    /\ ~ HasRow(s) /\ s \notin archive => memory[s].state = Fresh

\* A take profit that was not saved as taken and now is was signalled.
TakenKept ==
  \A s \in Ids : rows'[s].state.tp /\ ~ rows[s].state.tp => Signalled(s)

LEMMA TickedTaken ==
  ASSUME NEW i \in Instance, NEW price \in Nat, Ticked(i, price).instance.state.tp
  PROVE  i.state.tp \/ Ticked(i, price).signal
<1>1. i.state \in State
  BY DEF Instance
<1>2. PICK m : m = Trailed(i.state, price)
  OBVIOUS
<1>3. m.tp = i.state.tp
  BY <1>1, <1>2 DEF Trailed, State
<1>4. PICK k : k = Redisplayed(i, m)
  OBVIOUS
<1>5. k.state.tp = i.state.tp
  BY <1>3, <1>4 DEF Redisplayed
<1>. QED  BY <1>2, <1>4, <1>5 DEF Ticked

\* Steps that write no row, change no state and start no strategy.
LEMMA TakenRest ==
  ASSUME TakenInv, UNCHANGED <<rows, archive>>, live' \subseteq live,
         \A s \in Ids : memory'[s].state = memory[s].state /\ (Signalled(s) => Signalled(s)')
  PROVE  TakenInv' /\ TakenKept
  BY DEF TakenInv, TakenKept, HasRow

\* One row is written, with a state that is in memory or was in the row.
LEMMA TakenWrites ==
  ASSUME TypeInv, TakenInv, NEW s \in Ids, NEW r \in Row, Put(s, r), r.status # "none",
         HasRow(s), r.state \in {rows[s].state, memory[s].state},
         \A u \in Ids : memory'[u].state = memory[u].state,
         UNCHANGED <<archive, live, signals, closing>>
  PROVE  TakenInv' /\ TakenKept
<1>1. rows'[s] = r /\ \A u \in Ids \ {s} : rows'[u] = rows[u]
  BY DEF TypeInv, TypeOK, Put
<1>. QED  BY <1>1 DEF TakenInv, TakenKept, HasRow, Signalled

LEMMA NextStrategyTaken ==
  ASSUME TypeInv, TakenInv, NextStrategy(MainLoop)
  PROVE  TakenInv' /\ TakenKept
<1>0. at[MainLoop] \in Frame /\ TypeOK
  BY FrameOf, StrategiesAssumption
<1>1. CASE UNCHANGED <<memory, signals>>
  BY <1>1, TakenRest DEF NextStrategy, Signalled
<1>2. ASSUME NEW s \in live, NEW r,
             \/ r = [instance |-> memory[s], signal |-> FALSE]
             \/ r = Ticked(memory[s], at[MainLoop].price),
             memory' = [memory EXCEPT ![s] = r.instance],
             signals' = IF r.signal THEN signals \cup {s} ELSE signals
      PROVE  TakenInv' /\ TakenKept
  <2>1. PICK i \in Instance, p \in Nat : i = memory[s] /\ p = at[MainLoop].price
    BY <1>0 DEF TypeOK, Frame
  <2>2. r.instance.state.tp => i.state.tp \/ r.signal
    <3>1. CASE r = [instance |-> i, signal |-> FALSE]
      <4>1. r.instance = i
        BY <3>1
      <4>. QED  BY <4>1
    <3>2. CASE r = Ticked(i, p)
      BY <3>2, TickedTaken
    <3>. QED  BY <1>2, <2>1, <3>1, <3>2
  <2>3. PICK j : j = r.instance
    OBVIOUS
  <2>4. s \in Ids /\ HasRow(s)
    BY <1>0 DEF TypeOK, TakenInv
  <2>5. /\ memory'[s].state = j.state
        /\ \A u \in Ids \ {s} : memory'[u].state = memory[u].state
    BY <1>0, <1>2, <2>3, <2>4 DEF TypeOK
  <2>6. /\ \A u \in Ids : Signalled(u) => Signalled(u)'
        /\ j.state.tp => i.state.tp \/ Signalled(s)'
    BY <1>2, <2>2, <2>3 DEF Signalled, NextStrategy
  <2>7. UNCHANGED <<rows, archive, live>>
    BY DEF NextStrategy
  <2>. QED  BY <2>1, <2>4, <2>5, <2>6, <2>7 DEF TakenInv, TakenKept, HasRow
<1>. QED  BY <1>1, <1>2 DEF NextStrategy

LEMMA GetRowTaken ==
  ASSUME TypeInv, TakenInv, GetRow(MainLoop)
  PROVE  TakenInv' /\ TakenKept
<1>0. at[MainLoop].id \in Ids /\ MainLoop \in Threads
  BY FrameOf, StrategiesAssumption DEF GetRow, At, Named, IdSteps
<1>1. \A u \in Ids : memory'[u].state = memory[u].state
  BY <1>0, PersistedStop DEF GetRow
<1>. QED  BY <1>1, TakenRest DEF GetRow, Signalled

LEMMA SaveRowTaken ==
  ASSUME TypeInv, LifeInv, TakenInv, SaveRow(MainLoop)
  PROVE  TakenInv' /\ TakenKept
<1>0. /\ at[MainLoop] \in Frame /\ at[MainLoop].id \in Ids /\ TypeOK
      /\ at[MainLoop].step = "save" /\ MainLoop \in Threads
  BY FrameOf, StrategiesAssumption DEF SaveRow, At, Named, IdSteps
<1>1. PICK s, m : s = at[MainLoop].id /\ m = memory[s].state
  OBVIOUS
<1>2. PICK r : r = [at[MainLoop].row EXCEPT !.state = m]
  OBVIOUS
<1>3. m \in State /\ at[MainLoop].row \in Row
  BY <1>0, <1>1 DEF TypeOK, Instance, Frame
<1>4. r \in Row /\ r.state = m /\ r.status = at[MainLoop].row.status
  BY <1>2, <1>3 DEF Row
<1>5. s \in Ids /\ HasRow(s) /\ r.status # "none"
  BY <1>0, <1>1, <1>4 DEF LifeInv, Found, HasRow
<1>6. Put(s, r)
  BY <1>1, <1>2 DEF SaveRow
<1>7. \A u \in Ids : memory'[u].state = memory[u].state
  BY <1>0, PersistedStop DEF SaveRow
<1>. QED  BY <1>1, <1>4, <1>5, <1>6, <1>7, TakenWrites DEF SaveRow

LEMMA MarkStoppedTaken ==
  ASSUME TypeInv, LifeInv, TakenInv, MarkStopped(MainLoop)
  PROVE  TakenInv' /\ TakenKept
<1>0. /\ at[MainLoop] \in Frame /\ at[MainLoop].id \in Ids
      /\ at[MainLoop].step = "mark"
  BY FrameOf, StrategiesAssumption DEF MarkStopped, At, Named, IdSteps
<1>1. PICK s, r : s = at[MainLoop].id /\ r = [at[MainLoop].row EXCEPT !.status = "stopped"]
  OBVIOUS
<1>2. at[MainLoop].row \in Row
  BY <1>0 DEF Frame
<1>3. r \in Row /\ r.status = "stopped" /\ r.state = at[MainLoop].row.state
  BY <1>1, <1>2 DEF Row
<1>4. s \in Ids /\ HasRow(s) /\ r.state = rows[s].state
  BY <1>0, <1>1, <1>3 DEF LifeInv, Found, HasRow
<1>. QED  BY <1>1, <1>3, <1>4, TakenWrites DEF MarkStopped

LEMMA CreateRowTaken ==
  ASSUME TypeInv, TakenInv, CreateRow(MainLoop)
  PROVE  TakenInv' /\ TakenKept
<1>1. PICK s \in Ids, good \in BOOLEAN :
        /\ ~ HasRow(s) /\ s \notin archive
        /\ Put(s, [status |-> "active", good |-> good, state |-> Fresh])
  BY DEF CreateRow
<1>2. PICK r : r = [status |-> "active", good |-> good, state |-> Fresh]
  OBVIOUS
<1>3. r.status = "active" /\ r.state = Fresh /\ ~ Fresh.tp
  BY <1>2 DEF Fresh
<1>4. rows'[s] = r /\ \A u \in Ids \ {s} : rows'[u] = rows[u]
  BY <1>1, <1>2 DEF Put, TypeInv, TypeOK
<1>5. memory[s].state = Fresh /\ s \notin live
  BY <1>1 DEF TakenInv
<1>. QED  BY <1>3, <1>4, <1>5 DEF CreateRow, TakenInv, TakenKept, HasRow, Signalled

LEMMA ArchiveStrategyTaken ==
  ASSUME TypeInv, TakenInv, ArchiveStrategy(MainLoop)
  PROVE  TakenInv' /\ TakenKept
<1>0. at[MainLoop].id \in Ids /\ TypeOK
  BY FrameOf, StrategiesAssumption DEF ArchiveStrategy, At, Named, IdSteps
<1>1. CASE UNCHANGED <<rows, archive>>
  BY <1>1, TakenRest DEF ArchiveStrategy, Signalled
<1>2. CASE Put(at[MainLoop].id, NoRow) /\ archive' = archive \cup {at[MainLoop].id}
  <2>1. PICK s : s = at[MainLoop].id
    OBVIOUS
  <2>2. NoRow.status = "none" /\ NoRow.state = Fresh /\ ~ Fresh.tp
    BY DEF NoRow, Fresh
  <2>3. rows'[s] = NoRow /\ \A u \in Ids \ {s} : rows'[u] = rows[u]
    BY <1>0, <1>2, <2>1 DEF Put, TypeOK
  <2>4. /\ live' = live \ {s} /\ archive' = archive \cup {s}
        /\ UNCHANGED <<memory, signals, closing>>
    BY <1>2, <2>1 DEF ArchiveStrategy
  <2>. QED  BY <2>2, <2>3, <2>4 DEF TakenInv, TakenKept, HasRow, Signalled
<1>. QED  BY <1>1, <1>2 DEF ArchiveStrategy, Unrow

LEMMA StartTaken ==
  ASSUME TypeInv, LifeInv, TakenInv, Start(MainLoop)
  PROVE  TakenInv' /\ TakenKept
<1>1. PICK s : s = at[MainLoop].id
  OBVIOUS
<1>2. s \in Ids /\ HasRow(s) /\ TypeOK
  BY <1>1, FrameOf, StrategiesAssumption
     DEF Start, At, Named, IdSteps, LifeInv, Found, HasRow
<1>3. CASE UNCHANGED <<live, memory>>
  BY <1>3, TakenRest DEF Start, Signalled
<1>4. CASE live' = live \cup {s} /\ memory' = [memory EXCEPT ![s] = Restored(Fresh)]
  <2>1. /\ memory'[s].state = Fresh /\ ~ Fresh.tp
        /\ \A u \in Ids \ {s} : memory'[u].state = memory[u].state
    BY <1>2, <1>4 DEF TypeOK, Restored, Fresh
  <2>2. UNCHANGED <<rows, archive, signals, closing>>
    BY DEF Start
  <2>. QED  BY <1>2, <1>4, <2>1, <2>2 DEF TakenInv, TakenKept, HasRow, Signalled
<1>. QED  BY <1>1, <1>3, <1>4 DEF Start

LEMMA CrashTaken ==
  ASSUME TypeInv, TakenInv, Crash
  PROVE  TakenInv' /\ TakenKept
<1>1. \A s \in Ids : memory'[s].state = rows[s].state
  BY DEF Crash, Restored
<1>2. live' \subseteq {s \in Ids : HasRow(s)}
  BY DEF Crash, Loadable
<1>3. UNCHANGED <<rows, archive>>
  BY DEF Crash
<1>. QED  BY <1>1, <1>2, <1>3 DEF TakenInv, TakenKept, HasRow

LEMMA OneThreadTaken ==
  ASSUME Threads = {MainLoop}
  PROVE  TypeInv /\ LifeInv /\ TakenInv /\ [Next]_vars => TakenInv' /\ TakenKept
<1> SUFFICES ASSUME TypeInv, LifeInv, TakenInv, [Next]_vars
             PROVE  TakenInv' /\ TakenKept
  OBVIOUS
<1>1. ASSUME Command(MainLoop)
      PROVE  TakenInv' /\ TakenKept
  BY <1>1, CreateRowTaken, TakenRest
     DEF Command, DeleteByPocket, DeleteOne, ArchiveLive, Delete, Signalled
<1>2. ASSUME Continue(MainLoop)
      PROVE  TakenInv' /\ TakenKept
  <2>1. CASE StopStrategy(MainLoop)
    BY <2>1, TakenRest DEF StopStrategy, Signalled
  <2>. QED  BY <1>2, <2>1, NextStrategyTaken, GetRowTaken, SaveRowTaken, StartTaken,
                MarkStoppedTaken, ArchiveStrategyTaken DEF Continue
<1>3. CASE OnTick \/ OnOrderbook
  BY <1>3, TakenRest DEF OnTick, OnOrderbook, Visit, Signalled
<1>4. ASSUME NEW s \in Ids, TakeSignal(s)
      PROVE  TakenInv' /\ TakenKept
  BY <1>4, TakenRest DEF TakeSignal, Signalled
<1>5. CASE UNCHANGED vars
  BY <1>5, TakenRest DEF vars, Signalled
<1>. QED  BY <1>1, <1>2, <1>3, <1>4, <1>5, CrashTaken DEF Next

\* One thread: no take profit is saved as taken before the close of its pocket
\* was queued, over ticks, commands and restarts.  (on_tick, process_signal,
\* _persist_strategy, restore_state.)
THEOREM OneThreadTakenWasSignalled ==
  ASSUME Threads = {MainLoop}
  PROVE  Spec => TakenWasSignalled
<1>1. Init => LifeInv /\ TakenInv
  <2>1. Init => LifeInv
    BY StrategiesAssumption, FoundIdle DEF Init, LifeInv
  <2>2. ~ Fresh.tp
    BY DEF Fresh
  <2>3. Init => TakenInv
    BY <2>2 DEF Init, TakenInv, NoRow, Restored, HasRow
  <2>. QED  BY <2>1, <2>3
<1>2. TypeInv /\ LifeInv /\ [Next]_vars => LifeInv'
  BY OneThreadStep DEF LifeStep
<1>3. TypeInv /\ LifeInv /\ TakenInv /\ [Next]_vars
        => /\ TakenInv'
           /\ [\A s \in Ids : rows'[s].state.tp /\ ~ rows[s].state.tp
                 => s \in signals \/ PocketOf[s] \in closing]_rows
  BY OneThreadTaken DEF TakenKept, Signalled
<1>. QED  BY <1>1, <1>2, <1>3, TypeInit, TypeStep, PTL DEF Spec, TakenWasSignalled

----------------------------------------------------------------------------
(* One thread: what runs is what a restart would run.  The dictionary and   *)
(* the table differ in the strategy that is being started or ended only.    *)

Runnable(r) == r.status # "none" /\ r.good

\* The strategy the dictionary and the table do not agree on.
Between(f) == IF f.step \in {"start", "mark", "archive"} THEN {f.id} ELSE {}

Running(f, tbl, dict) ==
  /\ \A s \in Ids : s \in dict <=> Runnable(tbl[s]) /\ s \notin Between(f)
  /\ f.step = "start" => f.row.good = tbl[f.id].good
  /\ f.step \in {"get", "save"} => f.id \in dict

RunInv == Running(at[MainLoop], rows, live)

\* A step to a frame that neither starts, saves nor ends a strategy, from one
\* that does not start or end one either.
LEMMA RunsOn ==
  ASSUME RunInv, UNCHANGED <<rows, live>>, Between(at[MainLoop]) = {},
         at'[MainLoop].step \in {"idle", "tick", "delete"}
  PROVE  RunInv'
  BY DEF RunInv, Running, Between

LEMMA NextStrategyRuns ==
  ASSUME TypeInv, RunInv, NextStrategy(MainLoop)
  PROVE  RunInv'
<1>0. at[MainLoop] \in Frame /\ Between(at[MainLoop]) = {} /\ UNCHANGED <<rows, live>>
  BY FrameOf, StrategiesAssumption DEF NextStrategy, At, Between
<1>1. CASE Return(MainLoop)
  <2>1. at'[MainLoop].step = "idle"
    BY <1>1, Moved DEF Return, IdleFrame
  <2>. QED  BY <1>0, <2>1, RunsOn
<1>2. ASSUME NEW s \in live, NEW b, NEW step \in {"get", "tick"},
             Goto(MainLoop, [at[MainLoop] EXCEPT !.step = step, !.id = s, !.signal = b,
                                                 !.visited = @ \cup {s}])
      PROVE  RunInv'
  <2>1. PICK f : f = [at[MainLoop] EXCEPT !.step = step, !.id = s, !.signal = b,
                                          !.visited = @ \cup {s}]
    OBVIOUS
  <2>2. f.step = step /\ f.id = s
    BY <1>0, <2>1, SMT DEF Frame
  <2>3. at'[MainLoop] = f
    BY <1>2, <2>1, Moved
  <2>. QED  BY <1>0, <2>2, <2>3 DEF RunInv, Running, Between
<1>. QED  BY <1>1, <1>2 DEF NextStrategy

LEMMA GetRowRuns ==
  ASSUME TypeInv, RunInv, GetRow(MainLoop)
  PROVE  RunInv' /\ at[MainLoop].id \in live /\ HasRow(at[MainLoop].id)
<1>0. /\ at[MainLoop] \in Frame /\ at[MainLoop].id \in Ids /\ at[MainLoop].step = "get"
      /\ UNCHANGED <<rows, live>>
  BY FrameOf, StrategiesAssumption DEF GetRow, At, Named, IdSteps
<1>1. at[MainLoop].id \in live /\ HasRow(at[MainLoop].id)
  BY <1>0 DEF RunInv, Running, Runnable, HasRow
<1>2. PICK r : r = rows[at[MainLoop].id]
  OBVIOUS
<1>3. PICK f : f = [at[MainLoop] EXCEPT !.step = "save", !.row = r]
  OBVIOUS
<1>4. f.step = "save" /\ f.id = at[MainLoop].id
  BY <1>0, <1>3, SMT DEF Frame
<1>5. at'[MainLoop] = f
  BY <1>1, <1>2, <1>3, Moved DEF GetRow
<1>. QED  BY <1>0, <1>1, <1>4, <1>5 DEF RunInv, Running, Between

LEMMA SaveRowRuns ==
  ASSUME TypeInv, LifeInv, RunInv, SaveRow(MainLoop)
  PROVE  RunInv'
<1>0. /\ at[MainLoop] \in Frame /\ at[MainLoop].id \in Ids /\ TypeOK
      /\ at[MainLoop].step = "save" /\ live' = live
  BY FrameOf, StrategiesAssumption DEF SaveRow, At, Named, IdSteps
<1>1. PICK s, m : s = at[MainLoop].id /\ m = memory[s].state
  OBVIOUS
<1>2. PICK r : r = [at[MainLoop].row EXCEPT !.state = m]
  OBVIOUS
<1>3. at[MainLoop].row \in Row /\ at[MainLoop].row = rows[s] /\ s \in Ids
  BY <1>0, <1>1 DEF Frame, LifeInv, Found
<1>4. r.status = rows[s].status /\ r.good = rows[s].good
  BY <1>2, <1>3 DEF Row
<1>5. rows'[s] = r /\ \A u \in Ids \ {s} : rows'[u] = rows[u]
  BY <1>0, <1>1, <1>2, <1>3 DEF SaveRow, Put, TypeOK
<1>6. PICK f : f = [at[MainLoop] EXCEPT !.step = "tick", !.row = NoRow]
  OBVIOUS
<1>7. f.step = "tick"
  BY <1>0, <1>6, SMT DEF Frame
<1>8. at'[MainLoop] = f
  BY <1>6, Moved DEF SaveRow, Persisted
<1>. QED  BY <1>0, <1>4, <1>5, <1>7, <1>8 DEF RunInv, Running, Between, Runnable

LEMMA CreateRowRuns ==
  ASSUME TypeInv, RunInv, CreateRow(MainLoop)
  PROVE  RunInv'
<1>0. TypeOK /\ at[MainLoop].step = "idle" /\ live' = live
  BY DEF TypeInv, CreateRow, Idle, At
<1>1. PICK s \in Ids, good \in BOOLEAN :
        /\ ~ HasRow(s)
        /\ Put(s, [status |-> "active", good |-> good, state |-> Fresh])
        /\ Goto(MainLoop, [IdleFrame EXCEPT !.step = "start", !.id = s,
                                            !.row = [NoRow EXCEPT !.good = good]])
  BY DEF CreateRow
<1>2. PICK r : r = [status |-> "active", good |-> good, state |-> Fresh]
  OBVIOUS
<1>3. r.status = "active" /\ r.good = good
  BY <1>2
<1>4. PICK n : n = [NoRow EXCEPT !.good = good]
  OBVIOUS
<1>5. n.good = good
  BY <1>4, RowTypes DEF Row
<1>6. PICK f : f = [IdleFrame EXCEPT !.step = "start", !.id = s, !.row = n]
  OBVIOUS
<1>7. f.step = "start" /\ f.id = s /\ f.row = n
  BY <1>6, IdleFrameType, SMT DEF Frame
<1>8. at'[MainLoop] = f
  BY <1>1, <1>4, <1>6, Moved
<1>9. rows'[s] = r /\ \A u \in Ids \ {s} : rows'[u] = rows[u]
  BY <1>0, <1>1, <1>2 DEF Put, TypeOK
<1>10. s \notin live
  BY <1>1 DEF RunInv, Running, Runnable, HasRow
<1>. QED  BY <1>0, <1>3, <1>5, <1>7, <1>8, <1>9, <1>10 DEF RunInv, Running, Between, Runnable

LEMMA StartRuns ==
  ASSUME TypeInv, LifeInv, RunInv, Start(MainLoop)
  PROVE  RunInv'
<1>0. /\ at[MainLoop].id \in Ids /\ at[MainLoop].step = "start" /\ rows' = rows
      /\ at[MainLoop].row \in Row
  BY FrameOf, StrategiesAssumption DEF Start, At, Named, IdSteps, Frame
<1>1. at'[MainLoop].step = "idle"
  BY Moved DEF Start, Return, IdleFrame
<1>2. PICK s : s = at[MainLoop].id
  OBVIOUS
<1>3. /\ Runnable(rows[s]) <=> at[MainLoop].row.good
      /\ \A u \in Ids : u \in live <=> Runnable(rows[u]) /\ u # s
  BY <1>0, <1>2 DEF RunInv, Running, Between, Runnable, LifeInv, Found
<1>4. \A u \in Ids : u \in live' <=> Runnable(rows[u])
  BY <1>0, <1>2, <1>3 DEF Start
<1>. QED  BY <1>0, <1>1, <1>4 DEF RunInv, Running, Between

LEMMA DeleteRuns ==
  ASSUME TypeInv, RunInv, NEW ids, NEW stop, Delete(MainLoop, ids, stop)
  PROVE  RunInv'
<1>1. PICK f : f = [IdleFrame EXCEPT !.step = "delete", !.todo = ids, !.stop = stop]
  OBVIOUS
<1>2. f.step = "delete"
  BY <1>1, IdleFrameType, SMT DEF Frame
<1>3. at'[MainLoop] = f
  BY <1>1, Moved DEF Delete
<1>. QED  BY <1>2, <1>3, RunsOn DEF Delete, Idle, At, Between

LEMMA StopStrategyRuns ==
  ASSUME TypeInv, RunInv, StopStrategy(MainLoop)
  PROVE  RunInv'
<1>0. /\ at[MainLoop] \in Frame /\ at[MainLoop].step = "delete" /\ rows' = rows
      /\ Between(at[MainLoop]) = {}
  BY FrameOf, StrategiesAssumption DEF StopStrategy, At, Between
<1>1. CASE Return(MainLoop) /\ UNCHANGED live
  <2>1. at'[MainLoop].step = "idle"
    BY <1>1, Moved DEF Return, IdleFrame
  <2>. QED  BY <1>0, <1>1, <2>1, RunsOn
<1>2. ASSUME NEW s, NEW step \in {"mark", "archive"}, live' = live \ {s},
             Goto(MainLoop, [at[MainLoop] EXCEPT !.step = step, !.id = s, !.row = rows[s],
                                                 !.todo = @ \ {s}])
      PROVE  RunInv'
  <2>1. PICK r : r = rows[s]
    OBVIOUS
  <2>2. PICK f : f = [at[MainLoop] EXCEPT !.step = step, !.id = s, !.row = r, !.todo = @ \ {s}]
    OBVIOUS
  <2>3. f.step = step /\ f.id = s
    BY <1>0, <2>2, SMT DEF Frame
  <2>4. at'[MainLoop] = f
    BY <1>2, <2>1, <2>2, Moved
  <2>. QED  BY <1>0, <1>2, <2>3, <2>4 DEF RunInv, Running, Between
<1>. QED  BY <1>1, <1>2 DEF StopStrategy

LEMMA MarkStoppedRuns ==
  ASSUME TypeInv, LifeInv, RunInv, MarkStopped(MainLoop)
  PROVE  RunInv'
<1>0. /\ at[MainLoop] \in Frame /\ at[MainLoop].id \in Ids /\ TypeOK
      /\ at[MainLoop].step = "mark" /\ live' = live
  BY FrameOf, StrategiesAssumption DEF MarkStopped, At, Named, IdSteps
<1>1. PICK s, r : s = at[MainLoop].id /\ r = [at[MainLoop].row EXCEPT !.status = "stopped"]
  OBVIOUS
<1>2. rows'[s] = r /\ \A u \in Ids \ {s} : rows'[u] = rows[u]
  BY <1>0, <1>1 DEF MarkStopped, Put, TypeOK
<1>3. PICK f : f = [at[MainLoop] EXCEPT !.step = "archive"]
  OBVIOUS
<1>4. f.step = "archive" /\ f.id = s
  BY <1>0, <1>1, <1>3, SMT DEF Frame
<1>5. at'[MainLoop] = f
  BY <1>3, Moved DEF MarkStopped
<1>. QED  BY <1>0, <1>1, <1>2, <1>4, <1>5 DEF RunInv, Running, Between

LEMMA ArchiveStrategyRuns ==
  ASSUME TypeInv, RunInv, ArchiveStrategy(MainLoop)
  PROVE  RunInv'
<1>0. /\ at[MainLoop] \in Frame /\ at[MainLoop].id \in Ids /\ TypeOK
      /\ at[MainLoop].step = "archive"
  BY FrameOf, StrategiesAssumption DEF ArchiveStrategy, At, Named, IdSteps
<1>1. PICK s : s = at[MainLoop].id
  OBVIOUS
<1>2. PICK f : f = [at[MainLoop] EXCEPT !.step = "delete", !.id = NoStrategy, !.row = NoRow]
  OBVIOUS
<1>3. f.step = "delete"
  BY <1>0, <1>2, SMT DEF Frame
<1>4. at'[MainLoop] = f
  BY <1>2, Moved DEF ArchiveStrategy
<1>5. ~ Runnable(rows'[s]) /\ \A u \in Ids \ {s} : rows'[u] = rows[u]
  BY <1>0, <1>1 DEF ArchiveStrategy, Unrow, Put, TypeOK, NoRow, Runnable, HasRow
<1>6. live' = live \ {s}
  BY <1>1 DEF ArchiveStrategy
<1>. QED  BY <1>0, <1>1, <1>3, <1>4, <1>5, <1>6 DEF RunInv, Running, Between

LEMMA CrashRuns ==
  ASSUME TypeInv, Crash
  PROVE  RunInv'
<1>1. at'[MainLoop].step = "idle"
  BY StrategiesAssumption DEF Crash, IdleFrame
<1>2. rows' = rows /\ live' = {s \in Ids : Runnable(rows[s])}
  BY DEF Crash, Loadable, HasRow, Runnable
<1>. QED  BY <1>1, <1>2 DEF RunInv, Running, Between

LEMMA OneThreadRuns ==
  ASSUME Threads = {MainLoop}
  PROVE  TypeInv /\ LifeInv /\ RunInv /\ [Next]_vars => RunInv'
<1> SUFFICES ASSUME TypeInv, LifeInv, RunInv, [Next]_vars
             PROVE  RunInv'
  OBVIOUS
<1>1. ASSUME Command(MainLoop)
      PROVE  RunInv'
  BY <1>1, CreateRowRuns, DeleteRuns DEF Command, DeleteByPocket, DeleteOne, ArchiveLive
<1>2. ASSUME Continue(MainLoop)
      PROVE  RunInv'
  BY <1>2, NextStrategyRuns, GetRowRuns, SaveRowRuns, StartRuns, StopStrategyRuns,
     MarkStoppedRuns, ArchiveStrategyRuns DEF Continue
<1>3. ASSUME NEW price \in Nat, Visit(price)
      PROVE  RunInv'
  <2>1. PICK n : n = Cardinality(live)
    OBVIOUS
  <2>2. PICK f : f = [IdleFrame EXCEPT !.step = "tick", !.price = price, !.size = n]
    OBVIOUS
  <2>3. f.step = "tick"
    BY <2>2, IdleFrameType, SMT DEF Frame
  <2>4. at'[MainLoop] = f
    BY <1>3, <2>1, <2>2, Moved DEF Visit
  <2>. QED  BY <1>3, <2>3, <2>4, RunsOn DEF Visit, Idle, At, Between
<1>4. CASE OnTick \/ OnOrderbook
  BY <1>3, <1>4, StrategiesAssumption DEF OnTick, OnOrderbook
<1>5. ASSUME NEW s \in Ids, TakeSignal(s)
      PROVE  RunInv'
  BY <1>5 DEF TakeSignal, RunInv
<1>6. CASE UNCHANGED vars
  BY <1>6 DEF vars, RunInv
<1>. QED  BY <1>1, <1>2, <1>4, <1>5, <1>6, CrashRuns DEF Next

----------------------------------------------------------------------------
(* One thread: what a crash takes back.  A tick that changes what is shown  *)
(* of a stop, or takes a profit, is followed by a save before the next one; *)
(* so every state is saved as it shows, but the one in the loop's hands.    *)

\* A display is of the state the instance has, or of none yet.
Shows(i) == i.display.label # "Nothing" =>
              /\ i.display.label = DisplayOf(i.state).label
              /\ i.display.value = DisplayOf(i.state).value

\* A saved state differs from one in memory in what is not shown.
Alike(saved, m) == Shown(saved.stop) = Shown(m.stop) /\ saved.tp = m.tp

Saving(f) == IF f.step \in {"get", "save"} THEN {f.id} ELSE {}

SyncInv == /\ \A s \in Ids : Shows(memory[s])
           /\ \A s \in live \ Saving(at[MainLoop]) : Alike(rows[s].state, memory[s].state)

\* What a tick does not save is shown as before.
LEMMA TickedSync ==
  ASSUME NEW i \in Instance, NEW price \in Nat, Shows(i)
  PROVE  /\ Shows(Ticked(i, price).instance)
         /\ ~ MustPersist(Ticked(i, price).instance, Ticked(i, price).signal)
              => Alike(i.state, Ticked(i, price).instance.state)
<1>1. PICK m : m = i.state
  OBVIOUS
<1>2. m \in State
  BY <1>1 DEF Instance
<1>3. PICK n : n = Trailed(m, price)
  OBVIOUS
<1>4. n \in State /\ n.tp = m.tp
  BY <1>2, <1>3, TrailedType DEF Trailed, State
<1>5. PICK j : j = [i EXCEPT !.state.tp = TRUE]
  OBVIOUS
<1>6. /\ j.state.stop = m.stop /\ j.state.highest = m.highest /\ j.display = i.display
  BY <1>1, <1>2, <1>5 DEF Instance, State
<1>7. /\ DisplayOf(j.state).label = DisplayOf(m).label
      /\ DisplayOf(j.state).value = DisplayOf(m).value
  BY <1>6 DEF DisplayOf
<1>8. Shows(j)
  BY <1>1, <1>6, <1>7 DEF Shows
<1>9. PICK k : k = Redisplayed(i, n)
  OBVIOUS
<1>10. /\ k.state = n /\ k.display = DisplayOf(n)
       /\ ~ k.updated => DisplayOf(n) = i.display
  BY <1>9 DEF Redisplayed, Instance
<1>11. Shows(k)
  BY <1>10 DEF Shows
<1>12. ~ k.updated => Shown(m.stop) = Shown(n.stop)
  <2> SUFFICES ASSUME ~ k.updated
               PROVE  Shown(m.stop) = Shown(n.stop)
    OBVIOUS
  <2>1. i.display.label = DisplayOf(n).label /\ i.display.value = DisplayOf(n).value
    BY <1>10
  <2>2. DisplayOf(n).label # "Nothing"
    BY DEF DisplayOf
  <2>3. /\ DisplayOf(m).label = DisplayOf(n).label
        /\ DisplayOf(m).value = DisplayOf(n).value
    BY <1>1, <2>1, <2>2 DEF Shows
  <2>4. (m.stop # 0) <=> (n.stop # 0)
    BY <2>3 DEF DisplayOf
  <2>5. CASE n.stop = 0
    BY <2>4, <2>5
  <2>6. CASE n.stop # 0
    BY <2>3, <2>4, <2>6 DEF DisplayOf
  <2>. QED  BY <2>5, <2>6
<1>13. PICK b : b = TrailingHit(n, price)
  OBVIOUS
<1>14. PICK r : r = Ticked(i, price)
  OBVIOUS
<1>15. \/ r = [instance |-> i, signal |-> TRUE]
       \/ r = [instance |-> j, signal |-> TRUE]
       \/ r = [instance |-> i, signal |-> FALSE]
       \/ r = [instance |-> k, signal |-> b]
  BY <1>1, <1>3, <1>5, <1>9, <1>13, <1>14 DEF Ticked
<1>16. \/ r.signal = TRUE /\ r.instance \in {i, j}
       \/ r.instance = i
       \/ r.instance = k
  BY <1>15
<1>17. Alike(m, m) /\ (~ k.updated => Alike(m, n))
  BY <1>4, <1>12 DEF Alike
<1>18. \/ r.signal = TRUE /\ Shows(r.instance)
       \/ Shows(r.instance) /\ Alike(m, r.instance.state)
       \/ Shows(r.instance) /\ (~ r.instance.updated => Alike(m, r.instance.state))
  BY <1>1, <1>8, <1>10, <1>11, <1>16, <1>17
<1>. QED  BY <1>1, <1>14, <1>18 DEF MustPersist

\* Steps that change neither a state nor a display, and save nothing.
LEMMA SyncRest ==
  ASSUME SyncInv, live' \subseteq live, Saving(at[MainLoop]) \cap live' \subseteq Saving(at'[MainLoop]),
         \A s \in Ids : memory'[s].state = memory[s].state /\ memory'[s].display = memory[s].display,
         \A s \in live' : s \in Ids /\ rows'[s].state = rows[s].state
  PROVE  SyncInv'
  BY DEF SyncInv, Shows

\* After _persist_strategy the instance has the state and the display it had.
LEMMA PersistedSync ==
  ASSUME TypeInv, NEW t \in Threads, Persisted(t), at[t].id \in Ids
  PROVE  \A s \in Ids : /\ memory'[s].state = memory[s].state
                        /\ memory'[s].display = memory[s].display
<1>1. PICK b : b = (memory[at[t].id].updated /\ at[t].signal)
  OBVIOUS
<1>2. memory' = [memory EXCEPT ![at[t].id].updated = b]
  BY <1>1 DEF Persisted
<1>3. memory[at[t].id] \in Instance /\ memory \in [Ids -> Instance]
  BY DEF TypeInv, TypeOK
<1>. QED  BY <1>2, <1>3 DEF Instance

LEMMA NextStrategySync ==
  ASSUME TypeInv, SyncInv, NextStrategy(MainLoop)
  PROVE  SyncInv'
<1>0. /\ at[MainLoop] \in Frame /\ TypeOK /\ at[MainLoop].step = "tick"
      /\ UNCHANGED <<rows, live>> /\ Saving(at[MainLoop]) = {}
  BY FrameOf, StrategiesAssumption DEF NextStrategy, At, Saving
<1>1. CASE UNCHANGED memory
  BY <1>0, <1>1 DEF SyncInv, Shows, TypeOK
<1>2. ASSUME NEW s \in live, NEW r,
             \/ r = [instance |-> memory[s], signal |-> FALSE]
             \/ r = Ticked(memory[s], at[MainLoop].price),
             memory' = [memory EXCEPT ![s] = r.instance],
             Goto(MainLoop, [at[MainLoop] EXCEPT
               !.step = IF MustPersist(r.instance, r.signal) THEN "get" ELSE "tick",
               !.id = s, !.signal = r.signal, !.visited = @ \cup {s}])
      PROVE  SyncInv'
  <2>1. PICK i \in Instance, p \in Nat : i = memory[s] /\ p = at[MainLoop].price
    BY <1>0 DEF TypeOK, Frame
  <2>2. s \in Ids /\ Shows(i) /\ Alike(rows[s].state, i.state)
    BY <1>0, <2>1 DEF TypeOK, SyncInv
  <2>3. PICK j, b : j = r.instance /\ b = r.signal
    OBVIOUS
  <2>4. Shows(j) /\ (~ MustPersist(j, b) => Alike(i.state, j.state))
    <3>1. CASE r = [instance |-> i, signal |-> FALSE]
      <4>1. j = i
        BY <2>3, <3>1
      <4>. QED  BY <2>2, <4>1 DEF Alike
    <3>2. CASE r = Ticked(i, p)
      BY <2>2, <2>3, <3>2, TickedSync
    <3>. QED  BY <1>2, <2>1, <3>1, <3>2
  <2>5. PICK step : step = IF MustPersist(j, b) THEN "get" ELSE "tick"
    OBVIOUS
  <2>6. PICK f : f = [at[MainLoop] EXCEPT !.step = step, !.id = s, !.signal = b,
                                          !.visited = @ \cup {s}]
    OBVIOUS
  <2>7. f.step = step /\ f.id = s
    BY <1>0, <2>6, SMT DEF Frame
  <2>8. at'[MainLoop] = f
    BY <1>2, <2>3, <2>5, <2>6, Moved
  <2>9. s \in Saving(f) \/ Alike(rows[s].state, j.state)
    BY <2>2, <2>4, <2>5, <2>7 DEF Saving, Alike
  <2>10. memory'[s] = j /\ \A u \in Ids \ {s} : memory'[u] = memory[u]
    BY <1>0, <1>2, <2>2, <2>3 DEF TypeOK
  <2>11. \A u \in Ids : Shows(memory'[u])
    BY <2>4, <2>10 DEF SyncInv
  <2>12. \A u \in live \ Saving(f) : Alike(rows[u].state, memory'[u].state)
    BY <1>0, <2>9, <2>10 DEF SyncInv, TypeOK
  <2>. QED  BY <1>0, <2>8, <2>11, <2>12 DEF SyncInv, Shows, Alike
<1>. QED  BY <1>1, <1>2 DEF NextStrategy

LEMMA GetRowSync ==
  ASSUME TypeInv, RunInv, SyncInv, GetRow(MainLoop)
  PROVE  SyncInv'
<1>0. /\ at[MainLoop] \in Frame /\ TypeOK
      /\ at[MainLoop].id \in live /\ HasRow(at[MainLoop].id) /\ UNCHANGED <<rows, live, memory>>
  BY FrameOf, GetRowRuns, StrategiesAssumption DEF GetRow
<1>1. PICK r : r = rows[at[MainLoop].id]
  OBVIOUS
<1>2. PICK f : f = [at[MainLoop] EXCEPT !.step = "save", !.row = r]
  OBVIOUS
<1>3. f.step = "save" /\ f.id = at[MainLoop].id
  BY <1>0, <1>2, SMT DEF Frame
<1>4. at'[MainLoop] = f
  BY <1>0, <1>1, <1>2, Moved DEF GetRow
<1>5. Saving(at[MainLoop]) \subseteq Saving(at'[MainLoop])
  BY <1>3, <1>4 DEF Saving
<1>. QED  BY <1>0, <1>5, SyncRest DEF TypeOK

LEMMA SaveRowSync ==
  ASSUME TypeInv, SyncInv, SaveRow(MainLoop)
  PROVE  SyncInv'
<1>0. /\ at[MainLoop] \in Frame /\ at[MainLoop].id \in Ids /\ TypeOK
      /\ at[MainLoop].step = "save" /\ MainLoop \in Threads /\ live' = live
  BY FrameOf, StrategiesAssumption DEF SaveRow, At, Named, IdSteps
<1>1. PICK s, m : s = at[MainLoop].id /\ m = memory[s].state
  OBVIOUS
<1>2. PICK r : r = [at[MainLoop].row EXCEPT !.state = m]
  OBVIOUS
<1>3. r.state = m
  BY <1>0, <1>2 DEF Frame, Row
<1>4. rows'[s] = r /\ \A u \in Ids \ {s} : rows'[u] = rows[u]
  BY <1>0, <1>1, <1>2 DEF SaveRow, Put, TypeOK
<1>5. \A u \in Ids : /\ memory'[u].state = memory[u].state
                     /\ memory'[u].display = memory[u].display
  BY <1>0, PersistedSync DEF SaveRow
<1>6. \A u \in Ids : Shows(memory[u])'
  BY <1>5 DEF SyncInv, Shows
<1>7. Saving(at[MainLoop]) = {s}
  BY <1>0, <1>1 DEF Saving
<1>8. \A u \in live : Alike(rows'[u].state, memory'[u].state)
  BY <1>0, <1>1, <1>3, <1>4, <1>5, <1>7 DEF SyncInv, Alike, TypeOK
<1>. QED  BY <1>0, <1>6, <1>8 DEF SyncInv

LEMMA CreateRowSync ==
  ASSUME TypeInv, RunInv, SyncInv, CreateRow(MainLoop)
  PROVE  SyncInv'
<1>0. /\ TypeOK /\ Saving(at[MainLoop]) = {} /\ UNCHANGED <<live, memory>>
  BY DEF TypeInv, CreateRow, Idle, At, Saving
<1>1. PICK s \in Ids, good \in BOOLEAN :
        ~ HasRow(s) /\ Put(s, [status |-> "active", good |-> good, state |-> Fresh])
  BY DEF CreateRow
<1>2. PICK r : r = [status |-> "active", good |-> good, state |-> Fresh]
  OBVIOUS
<1>3. \A u \in Ids \ {s} : rows'[u] = rows[u]
  BY <1>0, <1>1, <1>2 DEF Put, TypeOK
<1>4. s \notin live
  BY <1>1 DEF RunInv, Running, Runnable, HasRow
<1>. QED  BY <1>0, <1>3, <1>4, SyncRest DEF TypeOK

LEMMA StartSync ==
  ASSUME TypeInv, LifeInv, SyncInv, Start(MainLoop)
  PROVE  SyncInv'
<1>0. /\ at[MainLoop].id \in Ids /\ TypeOK /\ rows' = rows /\ Saving(at[MainLoop]) = {}
      /\ at[MainLoop].step = "start"
  BY FrameOf, StrategiesAssumption DEF Start, At, Named, IdSteps, Saving
<1>1. CASE UNCHANGED <<live, memory>>
  BY <1>0, <1>1, SyncRest DEF TypeOK
<1>2. CASE /\ live' = live \cup {at[MainLoop].id}
           /\ memory' = [memory EXCEPT ![at[MainLoop].id] = Restored(Fresh)]
  <2>1. PICK s : s = at[MainLoop].id
    OBVIOUS
  <2>2. s \in Ids /\ rows[s].state = Fresh
    BY <1>0, <2>1 DEF LifeInv, Found
  <2>3. /\ memory'[s] = Restored(Fresh) /\ \A u \in Ids \ {s} : memory'[u] = memory[u]
    BY <1>0, <1>2, <2>1 DEF TypeOK
  <2>4. Restored(Fresh).state = Fresh /\ Restored(Fresh).display.label = "Nothing"
    BY DEF Restored, Nothing
  <2>5. \A u \in Ids : Shows(memory'[u])
    BY <2>3, <2>4 DEF SyncInv, Shows
  <2>6. \A u \in live' : Alike(rows[u].state, memory'[u].state)
    BY <1>0, <1>2, <2>1, <2>2, <2>3, <2>4 DEF SyncInv, Alike, TypeOK
  <2>. QED  BY <1>0, <2>5, <2>6 DEF SyncInv, Shows, Alike
<1>. QED  BY <1>1, <1>2 DEF Start

LEMMA StopStrategySync ==
  ASSUME TypeInv, SyncInv, StopStrategy(MainLoop)
  PROVE  SyncInv'
<1>1. /\ Saving(at[MainLoop]) = {} /\ live' \subseteq live /\ UNCHANGED <<rows, memory>>
  BY DEF StopStrategy, At, Saving
<1>. QED  BY <1>1, SyncRest DEF TypeInv, TypeOK

LEMMA MarkStoppedSync ==
  ASSUME TypeInv, LifeInv, SyncInv, MarkStopped(MainLoop)
  PROVE  SyncInv'
<1>0. /\ at[MainLoop] \in Frame /\ at[MainLoop].id \in Ids /\ TypeOK
      /\ at[MainLoop].step = "mark" /\ UNCHANGED <<live, memory>>
      /\ Saving(at[MainLoop]) = {}
  BY FrameOf, StrategiesAssumption DEF MarkStopped, At, Named, IdSteps, Saving
<1>1. PICK s, r : s = at[MainLoop].id /\ r = [at[MainLoop].row EXCEPT !.status = "stopped"]
  OBVIOUS
<1>2. at[MainLoop].row \in Row /\ at[MainLoop].row = rows[s] /\ s \in Ids
  BY <1>0, <1>1 DEF Frame, LifeInv, Found
<1>3. r.state = rows[s].state
  BY <1>1, <1>2 DEF Row
<1>4. rows'[s] = r /\ \A u \in Ids \ {s} : rows'[u] = rows[u]
  BY <1>0, <1>1 DEF MarkStopped, Put, TypeOK
<1>5. \A u \in Ids : rows'[u].state = rows[u].state
  BY <1>3, <1>4
<1>. QED  BY <1>0, <1>5, SyncRest DEF TypeOK

LEMMA ArchiveStrategySync ==
  ASSUME TypeInv, SyncInv, ArchiveStrategy(MainLoop)
  PROVE  SyncInv'
<1>0. /\ at[MainLoop].id \in Ids /\ TypeOK /\ memory' = memory /\ Saving(at[MainLoop]) = {}
  BY FrameOf, StrategiesAssumption DEF ArchiveStrategy, At, Named, IdSteps, Saving
<1>1. PICK s : s = at[MainLoop].id
  OBVIOUS
<1>2. live' = live \ {s} /\ \A u \in Ids \ {s} : rows'[u] = rows[u]
  BY <1>0, <1>1 DEF ArchiveStrategy, Unrow, Put, TypeOK
<1>. QED  BY <1>0, <1>2, SyncRest DEF TypeOK

LEMMA CrashSync ==
  ASSUME TypeInv, Crash
  PROVE  SyncInv'
<1>1. \A s \in Ids : /\ memory'[s].state = rows[s].state
                     /\ memory'[s].display.label = "Nothing"
  BY DEF Crash, Restored, Nothing
<1>2. rows' = rows /\ live' \subseteq Ids
  BY DEF Crash
<1>. QED  BY <1>1, <1>2 DEF SyncInv, Shows, Alike

LEMMA OneThreadSync ==
  ASSUME Threads = {MainLoop}
  PROVE  TypeInv /\ LifeInv /\ RunInv /\ SyncInv /\ [Next]_vars => SyncInv'
<1> SUFFICES ASSUME TypeInv, LifeInv, RunInv, SyncInv, [Next]_vars
             PROVE  SyncInv'
  OBVIOUS
<1>0. TypeOK
  BY DEF TypeInv
<1>1. ASSUME Command(MainLoop)
      PROVE  SyncInv'
  <2>1. ASSUME NEW ids, NEW stop, Delete(MainLoop, ids, stop)
        PROVE  SyncInv'
    BY <1>0, <2>1, SyncRest DEF Delete, Idle, At, Saving, TypeOK
  <2>. QED  BY <1>1, <2>1, CreateRowSync DEF Command, DeleteByPocket, DeleteOne, ArchiveLive
<1>2. ASSUME Continue(MainLoop)
      PROVE  SyncInv'
  BY <1>2, NextStrategySync, GetRowSync, SaveRowSync, StartSync, StopStrategySync,
     MarkStoppedSync, ArchiveStrategySync DEF Continue
<1>3. CASE OnTick \/ OnOrderbook
  BY <1>0, <1>3, SyncRest DEF OnTick, OnOrderbook, Visit, Idle, At, Saving, TypeOK
<1>4. ASSUME NEW s \in Ids, TakeSignal(s)
      PROVE  SyncInv'
  BY <1>4 DEF TakeSignal, SyncInv, Shows, Alike
<1>5. CASE UNCHANGED vars
  BY <1>5 DEF vars, SyncInv, Shows, Alike
<1>. QED  BY <1>1, <1>2, <1>3, <1>4, <1>5, CrashSync DEF Next

\* One thread, killed between any two commits: between operations, a restart
\* goes on with the strategies that run and with their states up to the
\* display's rounding.  (load_strategies, restore_state, is_updated and
\* _persist_strategy.)
THEOREM OneThreadRestartGoesOn ==
  ASSUME Threads = {MainLoop}
  PROVE  Spec => []RestartGoesOn
<1>1. Init => LifeInv /\ RunInv /\ SyncInv
  <2>1. Init => LifeInv
    BY StrategiesAssumption, FoundIdle DEF Init, LifeInv
  <2>2. Init => RunInv
    <3> SUFFICES ASSUME Init
                 PROVE  RunInv
      OBVIOUS
    <3>1. at[MainLoop].step = "idle"
      BY StrategiesAssumption DEF Init, IdleFrame
    <3>2. \A s \in Ids : ~ Runnable(rows[s])
      BY DEF Init, Runnable, NoRow
    <3>. QED  BY <3>1, <3>2 DEF Init, RunInv, Running, Between
  <2>3. Init => SyncInv
    BY DEF Init, SyncInv, Shows, Restored, Nothing
  <2>. QED  BY <2>1, <2>2, <2>3
<1>2. TypeInv /\ LifeInv /\ RunInv /\ SyncInv /\ [Next]_vars => LifeInv' /\ RunInv' /\ SyncInv'
  BY OneThreadStep, OneThreadRuns, OneThreadSync DEF LifeStep
<1>3. TypeInv /\ RunInv /\ SyncInv => RestartGoesOn
  <2> SUFFICES ASSUME TypeInv, RunInv, SyncInv, AllIdle
               PROVE  /\ live = {s \in Ids : HasRow(s) /\ rows[s].good}
                      /\ \A s \in live : /\ Shown(rows[s].state.stop) = Shown(memory[s].state.stop)
                                         /\ rows[s].state.tp = memory[s].state.tp
    BY DEF RestartGoesOn, RowsRun, CrashLosesRounding
  <2>1. Between(at[MainLoop]) = {} /\ Saving(at[MainLoop]) = {}
    BY StrategiesAssumption DEF AllIdle, Idle, At, Between, Saving
  <2>2. live \subseteq Ids
    BY DEF TypeInv, TypeOK
  <2>. QED  BY <2>1, <2>2 DEF RunInv, Running, Runnable, HasRow, SyncInv, Alike
<1>. QED  BY <1>1, <1>2, <1>3, TypeInit, TypeStep, PTL DEF Spec
=============================================================================
