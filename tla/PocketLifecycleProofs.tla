----------------------- MODULE PocketLifecycleProofs ------------------------
(***************************************************************************)
(* With the main loop as the only thread, Pockets implements               *)
(* PocketLifecycle, whatever sales are made by hand and however often the  *)
(* process is killed.  Every save writes a row that is still in its table, *)
(* every change of status comes after the check that allows it, and no     *)
(* other thread gets in between.                                           *)
(***************************************************************************)
EXTENDS PocketProofs

\* What a frame's step relies on, whatever was checked before it.
Relies(f, rows, tbl, ld) ==
  /\ \A p \in ld : p \in tbl \/ (f.step = "purged" /\ f.pocket = p)
  /\ f.step \in {"reason", "guard", "updated", "sell", "link", "cleanup", "split", "copy"} =>
       f.pocket \in tbl
  /\ f.step = "closing" => f.pocket \in tbl /\ rows[f.pocket].status = "active"
  /\ f.step = "closed" => f.pocket \in tbl /\ rows[f.pocket].status \in {"active", "closing"}
  /\ f.step \notin {"purge", "purged", "sweep"} => \A p \in f.todo : p \in tbl
  /\ f.step \in {"purge", "purged"} => \A p \in f.todo : rows[p].status \in {"active", "closing"}

LifeInv == /\ \A p \in table : pockets[p].status # "none"
           /\ Relies(at[MainLoop], pockets, table, loaded)

\* A step of Pockets does what it should: the next step finds what it relies on,
\* and the pockets take a step of their lifecycle or none.
LifeStep == LifeInv' /\ (Lifecycle!Next \/ UNCHANGED LifecycleStatus)

\* A step that writes no pocket.
LEMMA Keeps ==
  ASSUME LifeInv, UNCHANGED <<pockets, table>>, NEW f, at'[MainLoop] = f,
         Relies(f, pockets, table, loaded')
  PROVE  LifeStep
<1>1. UNCHANGED LifecycleStatus
  BY DEF LifecycleStatus
<1>. QED  BY <1>1 DEF LifeStep, LifeInv

\* A save that leaves the status alone.
LEMMA Rewrites ==
  ASSUME TypeOK, LifeInv, NEW p \in table, NEW r, Save(p, r), r.status = pockets[p].status,
         loaded' = loaded, NEW f, at'[MainLoop] = f, Relies(f, pockets, table, loaded)
  PROVE  LifeStep
<1>1. /\ table' = table /\ p \in PocketIds
      /\ \A q \in PocketIds : pockets'[q].status = pockets[q].status
  BY DEF Save, TypeOK
<1>2. UNCHANGED LifecycleStatus
  BY <1>1 DEF LifecycleStatus
<1>3. table \subseteq PocketIds
  BY DEF TypeOK
<1>4. Relies(f, pockets', table, loaded)
  <2>1. f.step \in {"closing", "closed"} => f.pocket \in PocketIds
    BY <1>3 DEF Relies
  <2>2. \A q : pockets'[q].status = pockets[q].status
    BY <1>1 DEF Save, TypeOK
  <2>. QED  BY <2>2 DEF Relies
<1>. QED  BY <1>1, <1>2, <1>3, <1>4 DEF LifeStep, LifeInv

\* A change of one status.
LEMMA Changes ==
  ASSUME TypeOK, NEW p \in PocketIds,
         \A q \in PocketIds \ {p} :
           pockets'[q].status = pockets[q].status /\ (q \in table' <=> q \in table)
  PROVE  LifecycleStatus' = [LifecycleStatus EXCEPT ![p] = LifecycleStatus'[p]]
  BY DEF LifecycleStatus

LEMMA SetReasonLife ==
  ASSUME TypeInv, LifeInv, Threads = {MainLoop}, SetReason(MainLoop)
  PROVE  LifeStep
<1>0. TypeOK /\ MainLoop \in Threads /\ at[MainLoop] \in Frame /\ WellFormed(MainLoop, at[MainLoop], pockets)
  BY DEF TypeInv, TypeOK
<1>1. PICK f : f = [at[MainLoop] EXCEPT !.step = "updated", !.then = "guard"]
  OBVIOUS
<1>2. f.step = "updated" /\ f.pocket = at[MainLoop].pocket /\ f.todo = at[MainLoop].todo
  BY <1>0, <1>1, SMT DEF Frame
<1>3. at'[MainLoop] = f /\ at[MainLoop].step = "reason"
  BY <1>0, <1>1, Moved DEF SetReason, At
<1>4. PICK p : p = at[MainLoop].pocket
  OBVIOUS
<1>5. p \in table /\ Save(p, pockets[p]) /\ loaded' = loaded
  BY <1>3, <1>4 DEF SetReason, LifeInv, Relies
<1>6. Relies(f, pockets, table, loaded)
  BY <1>2, <1>3 DEF LifeInv, Relies
<1>. QED  BY <1>0, <1>3, <1>5, <1>6, Rewrites

LEMMA ClosePocketLife ==
  ASSUME TypeInv, LifeInv, Threads = {MainLoop}, ClosePocket(MainLoop)
  PROVE  LifeStep
<1>0. TypeOK /\ MainLoop \in Threads /\ at[MainLoop] \in Frame /\ WellFormed(MainLoop, at[MainLoop], pockets)
  BY DEF TypeInv, TypeOK
<1>1. PICK f : f = [at[MainLoop] EXCEPT !.step = "closing"]
  OBVIOUS
<1>2. f.step = "closing" /\ f.pocket = at[MainLoop].pocket /\ f.todo = at[MainLoop].todo
  BY <1>0, <1>1, SMT DEF Frame
<1>3. at[MainLoop].step = "guard" /\ UNCHANGED <<pockets, table, loaded>>
  BY DEF ClosePocket, At, dbVars
<1>4. Closable(at[MainLoop].pocket) => Relies(f, pockets, table, loaded)
  BY <1>2, <1>3 DEF LifeInv, Relies, Closable
<1>5. Relies(IdleFrame, pockets, table, loaded)
  BY <1>3 DEF LifeInv, Relies, IdleFrame
<1>6. \/ Closable(at[MainLoop].pocket) /\ at'[MainLoop] = f
      \/ at'[MainLoop] = IdleFrame
  BY <1>0, <1>1, Moved DEF ClosePocket, Return
<1>. QED  BY <1>3, <1>4, <1>5, <1>6, Keeps

LEMMA MarkClosingLife ==
  ASSUME TypeInv, LifeInv, Threads = {MainLoop}, MarkClosing(MainLoop)
  PROVE  LifeStep
<1>0. TypeOK /\ MainLoop \in Threads /\ at[MainLoop] \in Frame /\ WellFormed(MainLoop, at[MainLoop], pockets)
  BY DEF TypeInv, TypeOK
<1>1. PICK f : f = [at[MainLoop] EXCEPT !.step = "updated", !.then = "idle"]
  OBVIOUS
<1>2. f.step = "updated" /\ f.pocket = at[MainLoop].pocket /\ f.todo = at[MainLoop].todo
  BY <1>0, <1>1, SMT DEF Frame
<1>3. at'[MainLoop] = f /\ at[MainLoop].step = "closing"
  BY <1>0, <1>1, Moved DEF MarkClosing, At
<1>4. PICK p, r : p = at[MainLoop].pocket /\ r = [pockets[p] EXCEPT !.status = "closing"]
  OBVIOUS
<1>5. /\ p \in PocketIds /\ pockets[p] \in Pocket /\ p \in table
      /\ pockets[p].status = "active"
  BY <1>0, <1>3, <1>4 DEF LifeInv, Relies, WellFormed, PocketSteps, TypeOK
<1>6. r.status = "closing"
  BY <1>4, <1>5, SMT DEF Pocket
<1>7. Save(p, r) /\ loaded' = loaded
  BY <1>4 DEF MarkClosing
<1>8. /\ table' = table /\ pockets'[p] = r
      /\ \A q \in PocketIds \ {p} : pockets'[q] = pockets[q]
  BY <1>0, <1>5, <1>7 DEF Save, TypeOK
<1>9. LifeInv'
  <2>1. \A q \in table' : pockets'[q].status # "none"
    BY <1>0, <1>6, <1>8 DEF LifeInv, TypeOK
  <2>2. Relies(f, pockets', table, loaded)
    BY <1>2, <1>3, <1>4, <1>5 DEF LifeInv, Relies
  <2>. QED  BY <1>3, <1>7, <1>8, <2>1, <2>2 DEF LifeInv
<1>10. Lifecycle!Close(p)
  <2>1. LifecycleStatus[p] = pockets[p].status /\ LifecycleStatus'[p] = "closing"
    BY <1>5, <1>6, <1>8 DEF LifecycleStatus
  <2>2. LifecycleStatus' = [LifecycleStatus EXCEPT ![p] = LifecycleStatus'[p]]
    BY <1>0, <1>5, <1>8, Changes
  <2>. QED  BY <1>5, <2>1, <2>2 DEF Lifecycle!Close, Lifecycle!Become
<1>. QED  BY <1>5, <1>9, <1>10 DEF LifeStep, Lifecycle!Next

LEMMA MarkClosedLife ==
  ASSUME TypeInv, LifeInv, Threads = {MainLoop}, MarkClosed(MainLoop)
  PROVE  LifeStep
<1>0. TypeOK /\ MainLoop \in Threads /\ at[MainLoop] \in Frame /\ WellFormed(MainLoop, at[MainLoop], pockets)
  BY DEF TypeInv, TypeOK
<1>1. PICK f : f = [at[MainLoop] EXCEPT !.step = "updated",
            !.then = IF at[MainLoop].todo = {} /\ at[MainLoop].rest = 0 THEN "idle" ELSE "match"]
  OBVIOUS
<1>2. f.step = "updated" /\ f.pocket = at[MainLoop].pocket /\ f.todo = at[MainLoop].todo
  BY <1>0, <1>1, SMT DEF Frame
<1>3. at'[MainLoop] = f /\ at[MainLoop].step = "closed"
  BY <1>0, <1>1, Moved DEF MarkClosed, At
<1>4. PICK p, r : p = at[MainLoop].pocket /\ r = [pockets[p] EXCEPT !.status = "closed"]
  OBVIOUS
<1>5. /\ p \in PocketIds /\ pockets[p] \in Pocket /\ p \in table
      /\ pockets[p].status \in {"active", "closing"}
  BY <1>0, <1>3, <1>4 DEF LifeInv, Relies, WellFormed, PocketSteps, TypeOK
<1>6. r.status = "closed"
  BY <1>4, <1>5, SMT DEF Pocket
<1>7. Save(p, r) /\ loaded' = loaded
  BY <1>4 DEF MarkClosed
<1>8. /\ table' = table /\ pockets'[p] = r
      /\ \A q \in PocketIds \ {p} : pockets'[q] = pockets[q]
  BY <1>0, <1>5, <1>7 DEF Save, TypeOK
<1>9. LifeInv'
  <2>1. \A q \in table' : pockets'[q].status # "none"
    BY <1>0, <1>6, <1>8 DEF LifeInv, TypeOK
  <2>2. Relies(f, pockets', table, loaded)
    BY <1>2, <1>3, <1>4, <1>5 DEF LifeInv, Relies
  <2>. QED  BY <1>3, <1>7, <1>8, <2>1, <2>2 DEF LifeInv
<1>10. Lifecycle!Finish(p)
  <2>1. LifecycleStatus[p] = pockets[p].status /\ LifecycleStatus'[p] = "closed"
    BY <1>5, <1>6, <1>8 DEF LifecycleStatus
  <2>2. LifecycleStatus' = [LifecycleStatus EXCEPT ![p] = LifecycleStatus'[p]]
    BY <1>0, <1>5, <1>8, Changes
  <2>. QED  BY <1>5, <2>1, <2>2 DEF Lifecycle!Finish, Lifecycle!Become
<1>. QED  BY <1>5, <1>9, <1>10 DEF LifeStep, Lifecycle!Next

LEMMA OnPocketUpdatedLife ==
  ASSUME TypeInv, LifeInv, Threads = {MainLoop}, OnPocketUpdated(MainLoop)
  PROVE  LifeStep
<1>0. TypeOK /\ MainLoop \in Threads /\ at[MainLoop] \in Frame /\ WellFormed(MainLoop, at[MainLoop], pockets)
  BY DEF TypeInv, TypeOK
<1>1. PICK f : f = [at[MainLoop] EXCEPT !.step = IF NeedsSale(at[MainLoop].pocket) THEN "sell" ELSE "cleanup"]
  OBVIOUS
<1>2. f.step \in {"sell", "cleanup"} /\ f.pocket = at[MainLoop].pocket /\ f.todo = at[MainLoop].todo
  BY <1>0, <1>1, SMT DEF Frame
<1>3. at'[MainLoop] = f /\ at[MainLoop].step = "updated"
  BY <1>0, <1>1, Moved DEF OnPocketUpdated, At
<1>4. UNCHANGED <<pockets, table, loaded>>
  BY DEF OnPocketUpdated, dbVars
<1>5. Relies(f, pockets, table, loaded')
  BY <1>2, <1>3, <1>4 DEF LifeInv, Relies
<1>. QED  BY <1>3, <1>4, <1>5, Keeps

LEMMA SellPocketLife ==
  ASSUME TypeInv, LifeInv, Threads = {MainLoop}, SellPocket(MainLoop)
  PROVE  LifeStep
<1>0. TypeOK /\ MainLoop \in Threads /\ at[MainLoop] \in Frame /\ WellFormed(MainLoop, at[MainLoop], pockets)
  BY DEF TypeInv, TypeOK
<1>1. at[MainLoop].step = "sell" /\ UNCHANGED <<pockets, table, loaded>>
  BY DEF SellPocket, At
<1>2. CASE Return(MainLoop)
  <2>1. at'[MainLoop] = IdleFrame
    BY <1>0, <1>2, IdleFrameType, Moved DEF Return
  <2>2. Relies(IdleFrame, pockets, table, loaded')
    BY <1>1 DEF LifeInv, Relies, IdleFrame
  <2>. QED  BY <1>1, <2>1, <2>2, Keeps
<1>3. CASE ~ Return(MainLoop)
  <2>1. PICK o : Goto(MainLoop, [at[MainLoop] EXCEPT !.step = "link", !.order = o])
    BY <1>3 DEF SellPocket
  <2>2. PICK f : f = [at[MainLoop] EXCEPT !.step = "link", !.order = o]
    OBVIOUS
  <2>3. f.step = "link" /\ f.pocket = at[MainLoop].pocket /\ f.todo = at[MainLoop].todo
    BY <1>0, <2>2, SMT DEF Frame
  <2>4. at'[MainLoop] = f
    BY <1>0, <2>1, <2>2, Moved
  <2>5. Relies(f, pockets, table, loaded')
    BY <1>1, <2>3 DEF LifeInv, Relies
  <2>. QED  BY <1>1, <2>4, <2>5, Keeps
<1>. QED  BY <1>2, <1>3

LEMMA LinkOrderLife ==
  ASSUME TypeInv, LifeInv, Threads = {MainLoop}, LinkOrder(MainLoop)
  PROVE  LifeStep
<1>0. TypeOK /\ MainLoop \in Threads /\ at[MainLoop] \in Frame /\ WellFormed(MainLoop, at[MainLoop], pockets)
  BY DEF TypeInv, TypeOK
<1>1. PICK f : f = [at[MainLoop] EXCEPT !.step = "cleanup"]
  OBVIOUS
<1>2. f.step = "cleanup" /\ f.pocket = at[MainLoop].pocket /\ f.todo = at[MainLoop].todo
  BY <1>0, <1>1, SMT DEF Frame
<1>3. at'[MainLoop] = f /\ at[MainLoop].step = "link"
  BY <1>0, <1>1, Moved DEF LinkOrder, At
<1>4. PICK p, r : p = at[MainLoop].pocket /\ r = [pockets[p] EXCEPT !.order = at[MainLoop].order]
  OBVIOUS
<1>5. p \in table /\ pockets[p] \in Pocket /\ Save(p, r) /\ loaded' = loaded
  BY <1>0, <1>3, <1>4 DEF LinkOrder, LifeInv, Relies, TypeOK
<1>6. r.status = pockets[p].status
  BY <1>4, <1>5, SMT DEF Pocket
<1>7. Relies(f, pockets, table, loaded)
  BY <1>2, <1>3 DEF LifeInv, Relies
<1>. QED  BY <1>0, <1>3, <1>5, <1>6, <1>7, Rewrites

LEMMA SplitPocketLife ==
  ASSUME TypeInv, LifeInv, Threads = {MainLoop}, SplitPocket(MainLoop)
  PROVE  LifeStep
<1>0. TypeOK /\ MainLoop \in Threads /\ at[MainLoop] \in Frame /\ WellFormed(MainLoop, at[MainLoop], pockets)
  BY DEF TypeInv, TypeOK
<1>1. PICK f : f = [at[MainLoop] EXCEPT !.step = "copy", !.order = pockets[at[MainLoop].pocket].order]
  OBVIOUS
<1>2. f.step = "copy" /\ f.pocket = at[MainLoop].pocket /\ f.todo = at[MainLoop].todo
  BY <1>0, <1>1, SMT DEF Frame
<1>3. at'[MainLoop] = f /\ at[MainLoop].step = "split"
  BY <1>0, <1>1, Moved DEF SplitPocket, At
<1>4. PICK p, r : p = at[MainLoop].pocket /\ r = Remaining(p, at[MainLoop].rest)
  OBVIOUS
<1>5. p \in table /\ pockets[p] \in Pocket /\ Save(p, r) /\ loaded' = loaded
  BY <1>0, <1>3, <1>4 DEF SplitPocket, LifeInv, Relies, TypeOK
<1>6. r.status = pockets[p].status
  BY <1>4, <1>5, SMT DEF Pocket, Remaining
<1>7. Relies(f, pockets, table, loaded)
  BY <1>2, <1>3 DEF LifeInv, Relies
<1>. QED  BY <1>0, <1>3, <1>5, <1>6, <1>7, Rewrites

LEMMA CleanUpLife ==
  ASSUME TypeInv, LifeInv, Threads = {MainLoop}, CleanUp(MainLoop)
  PROVE  LifeStep
<1>0. TypeOK /\ MainLoop \in Threads /\ at[MainLoop] \in Frame /\ WellFormed(MainLoop, at[MainLoop], pockets)
  BY DEF TypeInv, TypeOK
<1>1. PICK f : f = [at[MainLoop] EXCEPT !.step = at[MainLoop].then]
  OBVIOUS
<1>2. /\ f.step = at[MainLoop].then /\ at[MainLoop].then \in {"idle", "guard", "match", "opened"}
      /\ f.pocket = at[MainLoop].pocket /\ f.todo = at[MainLoop].todo
  BY <1>0, <1>1, SMT DEF Frame, WellFormed
<1>3. at[MainLoop].step = "cleanup" /\ UNCHANGED <<pockets, table, loaded>>
  BY DEF CleanUp, At
<1>4. at'[MainLoop] = f \/ at'[MainLoop] = IdleFrame
  BY <1>0, <1>1, IdleFrameType, Moved DEF CleanUp, Return
<1>5. Relies(f, pockets, table, loaded') /\ Relies(IdleFrame, pockets, table, loaded')
  <2>1. Relies(f, pockets, table, loaded)
    BY <1>2, <1>3 DEF LifeInv, Relies
  <2>2. Relies(IdleFrame, pockets, table, loaded)
    BY <1>3 DEF LifeInv, Relies, IdleFrame
  <2>. QED  BY <1>3, <2>1, <2>2
<1>. QED  BY <1>3, <1>4, <1>5, Keeps

LEMMA CreatePocketLife ==
  ASSUME TypeInv, LifeInv, Threads = {MainLoop}, CreatePocket(MainLoop)
  PROVE  LifeStep
<1>0. TypeOK /\ MainLoop \in Threads /\ at[MainLoop] \in Frame /\ WellFormed(MainLoop, at[MainLoop], pockets)
  BY DEF TypeInv, TypeOK
<1>1. PICK p \in PocketIds, e \in Entries :
        /\ pockets[p].status = "none"
        /\ Save(p, [status |-> "active", volume |-> orders[at[MainLoop].order].volume,
                    entry |-> e, order |-> NoOrder])
        /\ loaded' = loaded \cup {p}
        /\ Goto(MainLoop, [IdleFrame EXCEPT !.step = "opened", !.new = p])
  BY DEF CreatePocket
<1>2. PICK f : f = [IdleFrame EXCEPT !.step = "opened", !.new = p]
  OBVIOUS
<1>3. f.step = "opened" /\ f.todo = {}
  BY <1>2 DEF IdleFrame
<1>4. at'[MainLoop] = f /\ at[MainLoop].step = "create"
  BY <1>0, <1>1, <1>2, Moved DEF CreatePocket, At
<1>5. /\ table' = table \cup {p} /\ pockets'[p].status = "active"
      /\ \A q \in PocketIds \ {p} : pockets'[q] = pockets[q]
  BY <1>0, <1>1 DEF Save, TypeOK
<1>6. LifeInv'
  <2>1. \A q \in table' : pockets'[q].status # "none"
    BY <1>0, <1>5 DEF LifeInv, TypeOK
  <2>2. Relies(f, pockets', table', loaded')
    BY <1>1, <1>3, <1>4, <1>5 DEF LifeInv, Relies
  <2>. QED  BY <1>4, <2>1, <2>2 DEF LifeInv
<1>7. Lifecycle!Open(p)
  <2>1. LifecycleStatus[p] = "none" /\ LifecycleStatus'[p] = "active"
    BY <1>1, <1>5 DEF LifecycleStatus
  <2>2. LifecycleStatus' = [LifecycleStatus EXCEPT ![p] = LifecycleStatus'[p]]
    BY <1>0, <1>5, Changes
  <2>. QED  BY <2>1, <2>2 DEF Lifecycle!Open, Lifecycle!Become
<1>. QED  BY <1>6, <1>7 DEF LifeStep, Lifecycle!Next

LEMMA SaveCopyLife ==
  ASSUME TypeInv, LifeInv, Threads = {MainLoop}, SaveCopy(MainLoop)
  PROVE  LifeStep
<1>0. TypeOK /\ MainLoop \in Threads /\ at[MainLoop] \in Frame /\ WellFormed(MainLoop, at[MainLoop], pockets)
  BY DEF TypeInv, TypeOK
<1>1. PICK q \in PocketIds :
        /\ pockets[q].status = "none"
        /\ Save(q, [pockets[at[MainLoop].pocket] EXCEPT !.volume = at[MainLoop].rest,
                                                         !.status = "closed",
                                                         !.order = at[MainLoop].order])
        /\ loaded' = loaded \cup {q}
        /\ Goto(MainLoop, [at[MainLoop] EXCEPT !.step = "updated", !.then = "opened",
                                                !.new = q, !.rest = 0])
  BY DEF SaveCopy
<1>2. PICK r, f : /\ r = [pockets[at[MainLoop].pocket] EXCEPT !.volume = at[MainLoop].rest,
                                                              !.status = "closed",
                                                              !.order = at[MainLoop].order]
                  /\ f = [at[MainLoop] EXCEPT !.step = "updated", !.then = "opened",
                                              !.new = q, !.rest = 0]
  OBVIOUS
<1>3. f.step = "updated" /\ f.pocket = at[MainLoop].pocket /\ f.todo = at[MainLoop].todo
  BY <1>0, <1>2, SMT DEF Frame
<1>4. r.status = "closed"
  <2>1. pockets[at[MainLoop].pocket] \in Pocket
    BY <1>0 DEF SaveCopy, At, WellFormed, PocketSteps, TypeOK
  <2>. QED  BY <1>2, <2>1, SMT DEF Pocket
<1>5. Save(q, r) /\ at'[MainLoop] = f /\ at[MainLoop].step = "copy"
  BY <1>0, <1>1, <1>2, Moved DEF SaveCopy, At
<1>6. /\ table' = table \cup {q} /\ pockets'[q].status = "closed"
      /\ \A p \in PocketIds \ {q} : pockets'[p] = pockets[p]
  BY <1>0, <1>4, <1>5 DEF Save, TypeOK
<1>7. LifeInv'
  <2>1. \A p \in table' : pockets'[p].status # "none"
    BY <1>0, <1>6 DEF LifeInv, TypeOK
  <2>2. Relies(f, pockets', table', loaded')
    BY <1>1, <1>3, <1>5, <1>6 DEF LifeInv, Relies
  <2>. QED  BY <1>5, <2>1, <2>2 DEF LifeInv
<1>8. Lifecycle!SplitOff(q)
  <2>1. LifecycleStatus[q] = "none" /\ LifecycleStatus'[q] = "closed"
    BY <1>1, <1>6 DEF LifecycleStatus
  <2>2. LifecycleStatus' = [LifecycleStatus EXCEPT ![q] = LifecycleStatus'[q]]
    BY <1>0, <1>6, Changes
  <2>. QED  BY <2>1, <2>2 DEF Lifecycle!SplitOff, Lifecycle!Become
<1>. QED  BY <1>7, <1>8 DEF LifeStep, Lifecycle!Next

LEMMA OnPocketCreatedLife ==
  ASSUME TypeInv, LifeInv, Threads = {MainLoop}, OnPocketCreated(MainLoop)
  PROVE  LifeStep
<1>0. TypeOK /\ MainLoop \in Threads /\ at[MainLoop] \in Frame /\ WellFormed(MainLoop, at[MainLoop], pockets)
  BY DEF TypeInv, TypeOK
<1>1. at[MainLoop].step = "opened" /\ UNCHANGED <<pockets, table, loaded>>
  BY DEF OnPocketCreated, At
<1>2. at'[MainLoop] = IdleFrame
  BY <1>0, IdleFrameType, Moved DEF OnPocketCreated, Return
<1>3. Relies(IdleFrame, pockets, table, loaded')
  BY <1>1 DEF LifeInv, Relies, IdleFrame
<1>. QED  BY <1>1, <1>2, <1>3, Keeps

LEMMA MatchSaleLife ==
  ASSUME TypeInv, LifeInv, Threads = {MainLoop}, MatchSale(MainLoop)
  PROVE  LifeStep
<1>0. TypeOK /\ MainLoop \in Threads /\ at[MainLoop] \in Frame /\ WellFormed(MainLoop, at[MainLoop], pockets)
  BY DEF TypeInv, TypeOK
<1>1. at[MainLoop].step = "match" /\ UNCHANGED <<pockets, table, loaded>>
  BY DEF MatchSale, At, dbVars
<1>2. CASE Return(MainLoop)
  <2>1. at'[MainLoop] = IdleFrame
    BY <1>0, <1>2, IdleFrameType, Moved DEF Return
  <2>2. Relies(IdleFrame, pockets, table, loaded')
    BY <1>1 DEF LifeInv, Relies, IdleFrame
  <2>. QED  BY <1>1, <2>1, <2>2, Keeps
<1>3. CASE ~ Return(MainLoop)
  <2>1. PICK p \in at[MainLoop].todo :
          Goto(MainLoop, IF at[MainLoop].rest < pockets[p].volume
                  THEN [at[MainLoop] EXCEPT !.step = "split", !.pocket = p, !.todo = {}]
                  ELSE [at[MainLoop] EXCEPT !.step = IF p \in loaded /\ IsOpen(p)
                                                     THEN "closed" ELSE "match",
                                            !.pocket = p, !.todo = @ \ {p},
                                            !.rest = @ - pockets[p].volume])
    BY <1>3 DEF MatchSale
  <2>2. p \in table
    BY <1>1, <2>1 DEF LifeInv, Relies
  <2>3. PICK s, ps, n : /\ s = (IF p \in loaded /\ IsOpen(p) THEN "closed" ELSE "match")
                        /\ ps = at[MainLoop].todo \ {p}
                        /\ n = at[MainLoop].rest - pockets[p].volume
    OBVIOUS
  <2>4. PICK f, g : /\ f = [at[MainLoop] EXCEPT !.step = "split", !.pocket = p, !.todo = {}]
                    /\ g = [at[MainLoop] EXCEPT !.step = s, !.pocket = p, !.todo = ps, !.rest = n]
    OBVIOUS
  <2>5. /\ f.step = "split" /\ f.pocket = p /\ f.todo = {}
        /\ g.step = s /\ g.pocket = p /\ g.todo = ps
    BY <1>0, <2>4, SMT DEF Frame
  <2>6. at'[MainLoop] = f \/ at'[MainLoop] = g
    <3>1. Goto(MainLoop, f) \/ Goto(MainLoop, g)
      BY <2>1, <2>3, <2>4
    <3>. QED  BY <1>0, <3>1, Moved
  <2>7. Relies(f, pockets, table, loaded')
    BY <1>1, <2>2, <2>5 DEF LifeInv, Relies
  <2>8. Relies(g, pockets, table, loaded')
    <3>1. s = "match" \/ (s = "closed" /\ pockets[p].status \in {"active", "closing"})
      BY <2>3 DEF IsOpen
    <3>2. \A q \in ps : q \in table
      BY <1>1, <2>3 DEF LifeInv, Relies
    <3>. QED  BY <1>1, <2>2, <2>5, <3>1, <3>2 DEF LifeInv, Relies
  <2>. QED  BY <1>1, <2>6, <2>7, <2>8, Keeps
<1>. QED  BY <1>2, <1>3

LEMMA ListTargetsLife ==
  ASSUME TypeInv, LifeInv, Threads = {MainLoop}, ListTargets(MainLoop)
  PROVE  LifeStep
<1>0. TypeOK /\ MainLoop \in Threads /\ at[MainLoop] \in Frame /\ WellFormed(MainLoop, at[MainLoop], pockets)
  BY DEF TypeInv, TypeOK
<1>1. PICK ps : ps = TargetsOf
  OBVIOUS
<1>2. PICK f : f = [at[MainLoop] EXCEPT !.step = "purge", !.todo = ps]
  OBVIOUS
<1>3. f.step = "purge" /\ f.todo = ps
  BY <1>0, <1>2, SMT DEF Frame
<1>4. at'[MainLoop] = f /\ at[MainLoop].step = "targets"
  BY <1>0, <1>1, <1>2, Moved DEF ListTargets, At
<1>5. UNCHANGED <<pockets, table, loaded>>
  BY DEF ListTargets, dbVars
<1>6. \A p \in ps : pockets[p].status \in {"active", "closing"}
  <2>1. \A p \in ps : p \in PocketIds /\ p \in table /\ pockets[p].status # "closed"
    BY <1>0, <1>1, <1>4 DEF TargetsOf, LifeInv, Relies, TypeOK
  <2>2. \A p \in PocketIds : pockets[p].status \in {"none", "active", "closing", "closed"}
    BY <1>0 DEF TypeOK, Pocket
  <2>. QED  BY <2>1, <2>2 DEF LifeInv
<1>7. Relies(f, pockets, table, loaded')
  BY <1>3, <1>4, <1>5, <1>6 DEF LifeInv, Relies
<1>. QED  BY <1>4, <1>5, <1>7, Keeps

LEMMA ArchivePocketLife ==
  ASSUME TypeInv, LifeInv, Threads = {MainLoop}, ArchivePocket(MainLoop)
  PROVE  LifeStep
<1>0. TypeOK /\ MainLoop \in Threads /\ at[MainLoop] \in Frame /\ WellFormed(MainLoop, at[MainLoop], pockets)
  BY DEF TypeInv, TypeOK
<1>1. /\ at[MainLoop].step = "purge" /\ UNCHANGED <<pockets, loaded>>
      /\ \A p \in loaded : p \in table
      /\ \A p \in at[MainLoop].todo : pockets[p].status \in {"active", "closing"}
  BY DEF ArchivePocket, At, LifeInv, Relies
<1>2. CASE /\ Goto(MainLoop, [at[MainLoop] EXCEPT !.step = "sweep", !.todo = strategies])
           /\ UNCHANGED table
  <2>1. PICK f : f = [at[MainLoop] EXCEPT !.step = "sweep", !.todo = strategies]
    OBVIOUS
  <2>2. f.step = "sweep"
    BY <1>0, <2>1, SMT DEF Frame
  <2>3. at'[MainLoop] = f
    BY <1>0, <1>2, <2>1, Moved
  <2>4. Relies(f, pockets, table, loaded')
    BY <1>1, <2>2 DEF Relies
  <2>. QED  BY <1>1, <1>2, <2>3, <2>4, Keeps
<1>3. ASSUME NEW p \in at[MainLoop].todo,
             table' = IF p \in loaded THEN table \ {p} ELSE table,
             Goto(MainLoop, [at[MainLoop] EXCEPT !.step = IF p \in loaded THEN "purged" ELSE "purge",
                                                 !.pocket = p, !.todo = @ \ {p}])
      PROVE  LifeStep
  <2>1. PICK s, ps : /\ s = (IF p \in loaded THEN "purged" ELSE "purge")
                     /\ ps = at[MainLoop].todo \ {p}
    OBVIOUS
  <2>2. PICK f : f = [at[MainLoop] EXCEPT !.step = s, !.pocket = p, !.todo = ps]
    OBVIOUS
  <2>3. f.step = s /\ f.pocket = p /\ f.todo = ps
    BY <1>0, <2>2, SMT DEF Frame
  <2>4. at'[MainLoop] = f
    BY <1>0, <1>3, <2>1, <2>2, Moved
  <2>5. CASE p \notin loaded
    <3>1. Relies(f, pockets, table, loaded')
      BY <1>1, <2>1, <2>3, <2>5 DEF Relies
    <3>. QED  BY <1>1, <1>3, <2>4, <2>5, <3>1, Keeps
  <2>6. CASE p \in loaded
    <3>1. /\ p \in PocketIds /\ p \in table /\ table' = table \ {p} /\ s = "purged"
          /\ pockets[p].status \in {"active", "closing"}
      BY <1>0, <1>1, <1>3, <2>1, <2>6 DEF TypeOK
    <3>2. LifeInv'
      <4>1. Relies(f, pockets, table', loaded)
        BY <1>1, <2>1, <2>3, <3>1 DEF Relies
      <4>. QED  BY <1>1, <2>4, <3>1, <4>1 DEF LifeInv
    <3>3. Lifecycle!Archive(p)
      <4>1. LifecycleStatus[p] = pockets[p].status /\ LifecycleStatus'[p] = "archived"
        BY <1>1, <3>1 DEF LifecycleStatus
      <4>2. LifecycleStatus' = [LifecycleStatus EXCEPT ![p] = LifecycleStatus'[p]]
        BY <1>0, <1>1, <3>1, Changes
      <4>. QED  BY <3>1, <4>1, <4>2 DEF Lifecycle!Archive, Lifecycle!Become
    <3>. QED  BY <3>1, <3>2, <3>3 DEF LifeStep, Lifecycle!Next
  <2>. QED  BY <2>5, <2>6
<1>. QED  BY <1>2, <1>3 DEF ArchivePocket

LEMMA OnPocketDeletedLife ==
  ASSUME TypeInv, LifeInv, Threads = {MainLoop}, OnPocketDeleted(MainLoop)
  PROVE  LifeStep
<1>0. TypeOK /\ MainLoop \in Threads /\ at[MainLoop] \in Frame /\ WellFormed(MainLoop, at[MainLoop], pockets)
  BY DEF TypeInv, TypeOK
<1>1. PICK f : f = [at[MainLoop] EXCEPT !.step = "purge"]
  OBVIOUS
<1>2. f.step = "purge" /\ f.todo = at[MainLoop].todo
  BY <1>0, <1>1, SMT DEF Frame
<1>3. at'[MainLoop] = f /\ at[MainLoop].step = "purged"
  BY <1>0, <1>1, Moved DEF OnPocketDeleted, At
<1>4. UNCHANGED <<pockets, table>> /\ loaded' = loaded \ {at[MainLoop].pocket}
  BY DEF OnPocketDeleted
<1>5. Relies(f, pockets, table, loaded')
  BY <1>2, <1>3, <1>4 DEF LifeInv, Relies
<1>. QED  BY <1>3, <1>4, <1>5, Keeps

LEMMA SweepStrategyLife ==
  ASSUME TypeInv, LifeInv, Threads = {MainLoop}, SweepStrategy(MainLoop)
  PROVE  LifeStep
<1>0. TypeOK /\ MainLoop \in Threads /\ at[MainLoop] \in Frame /\ WellFormed(MainLoop, at[MainLoop], pockets)
  BY DEF TypeInv, TypeOK
<1>1. at[MainLoop].step = "sweep" /\ UNCHANGED <<pockets, table, loaded>>
  BY DEF SweepStrategy, At
<1>2. CASE Return(MainLoop)
  <2>1. at'[MainLoop] = IdleFrame
    BY <1>0, <1>2, IdleFrameType, Moved DEF Return
  <2>2. Relies(IdleFrame, pockets, table, loaded')
    BY <1>1 DEF LifeInv, Relies, IdleFrame
  <2>. QED  BY <1>1, <2>1, <2>2, Keeps
<1>3. ASSUME NEW p \in at[MainLoop].todo, Goto(MainLoop, [at[MainLoop] EXCEPT !.todo = @ \ {p}])
      PROVE  LifeStep
  <2>1. PICK ps, f : ps = at[MainLoop].todo \ {p} /\ f = [at[MainLoop] EXCEPT !.todo = ps]
    OBVIOUS
  <2>2. f.step = at[MainLoop].step
    BY <1>0, <2>1, <1>1, SMT DEF Frame
  <2>3. at'[MainLoop] = f
    BY <1>0, <1>3, <2>1, Moved
  <2>4. Relies(f, pockets, table, loaded')
    BY <1>1, <2>2 DEF LifeInv, Relies
  <2>. QED  BY <1>1, <2>3, <2>4, Keeps
<1>. QED  BY <1>2, <1>3 DEF SweepStrategy

LEMMA SellAllLife ==
  ASSUME TypeInv, LifeInv, Threads = {MainLoop}, SellAll(MainLoop)
  PROVE  LifeStep
<1>0. TypeOK /\ MainLoop \in Threads /\ at[MainLoop] \in Frame /\ WellFormed(MainLoop, at[MainLoop], pockets)
  BY DEF TypeInv, TypeOK
<1>1. PICK f : f = [IdleFrame EXCEPT !.step = "targets"]
  OBVIOUS
<1>2. f.step = "targets" /\ f.todo = {}
  BY <1>1 DEF IdleFrame
<1>3. at'[MainLoop] = f /\ at[MainLoop].step = "idle" /\ UNCHANGED <<pockets, table, loaded>>
  BY <1>0, <1>1, Moved DEF SellAll, Idle
<1>4. Relies(f, pockets, table, loaded')
  BY <1>2, <1>3 DEF LifeInv, Relies
<1>. QED  BY <1>3, <1>4, Keeps

LEMMA Rests ==
  ASSUME LifeInv, UNCHANGED <<pockets, table, loaded, at>>
  PROVE  LifeStep
  BY DEF LifeInv, LifeStep, LifecycleStatus

LEMMA TakeTaskLife ==
  ASSUME TypeInv, LifeInv, Threads = {MainLoop}, TakeTask
  PROVE  LifeStep
<1>0. TypeOK /\ MainLoop \in Threads
  BY DEF TypeInv
<1>1. at[MainLoop].step = "idle" /\ UNCHANGED <<pockets, table, loaded>>
  BY DEF TakeTask, Idle, dbVars
<1>2. \A p \in loaded : p \in table
  BY <1>1 DEF LifeInv, Relies
<1> DEFINE task == Head(queue)
<1>3. BeginClose(MainLoop, task.pocket) \/ FillBid(task.order) \/ FillAsk(task.order)
  BY DEF TakeTask
<1>4. ASSUME NEW f, Goto(MainLoop, f), Relies(f, pockets, table, loaded)
      PROVE  LifeStep
  <2>1. at'[MainLoop] = f
    BY <1>0, <1>4, Moved
  <2>. QED  BY <1>1, <1>4, <2>1, Keeps
<1>5. CASE at' = at
  BY <1>1, <1>5, Rests
<1>6. CASE BeginClose(MainLoop, task.pocket)
  <2>1. PICK p, f : p = task.pocket /\ f = [IdleFrame EXCEPT !.step = "reason", !.pocket = p]
    OBVIOUS
  <2>2. f.step = "reason" /\ f.pocket = p /\ f.todo = {}
    BY <2>1 DEF IdleFrame
  <2>3. at' = at \/ (p \in table /\ Goto(MainLoop, f))
    BY <1>2, <1>6, <2>1 DEF BeginClose
  <2>4. p \in table => Relies(f, pockets, table, loaded)
    BY <1>2, <2>2 DEF Relies
  <2>. QED  BY <1>4, <1>5, <2>3, <2>4
<1>7. CASE FillBid(task.order)
  <2>1. PICK f : f = [IdleFrame EXCEPT !.step = "create", !.order = task.order]
    OBVIOUS
  <2>2. f.step = "create" /\ f.todo = {}
    BY <2>1 DEF IdleFrame
  <2>3. Relies(f, pockets, table, loaded)
    BY <1>2, <2>2 DEF Relies
  <2>. QED  BY <1>4, <1>7, <2>1, <2>3 DEF FillBid
<1>8. CASE FillAsk(task.order)
  <2>1. ASSUME NEW p \in LinkedTo(task.order), IsOpen(p),
               Goto(MainLoop, [IdleFrame EXCEPT !.step = "closed", !.pocket = p])
        PROVE  LifeStep
    <3>1. PICK f : f = [IdleFrame EXCEPT !.step = "closed", !.pocket = p]
      OBVIOUS
    <3>2. f.step = "closed" /\ f.pocket = p /\ f.todo = {}
      BY <3>1 DEF IdleFrame
    <3>3. p \in loaded
      BY DEF LinkedTo
    <3>4. Relies(f, pockets, table, loaded)
      BY <1>2, <2>1, <3>2, <3>3 DEF Relies, IsOpen
    <3>. QED  BY <1>4, <2>1, <3>1, <3>4
  <2>2. CASE Goto(MainLoop, [IdleFrame EXCEPT !.step = "match", !.todo = TargetsOf,
                                              !.rest = orders[task.order].volume])
    <3>1. PICK ps, n : ps = TargetsOf /\ n = orders[task.order].volume
      OBVIOUS
    <3>2. PICK f : f = [IdleFrame EXCEPT !.step = "match", !.todo = ps, !.rest = n]
      OBVIOUS
    <3>3. f.step = "match" /\ f.todo = ps
      BY <3>2 DEF IdleFrame
    <3>4. \A p \in ps : p \in table
      BY <1>2, <3>1 DEF TargetsOf
    <3>5. Relies(f, pockets, table, loaded)
      BY <1>2, <3>3, <3>4 DEF Relies
    <3>. QED  BY <1>4, <2>2, <3>1, <3>2, <3>5
  <2>. QED  BY <1>5, <1>8, <2>1, <2>2 DEF FillAsk
<1>. QED  BY <1>3, <1>6, <1>7, <1>8

LEMMA CrashLife ==
  ASSUME TypeInv, LifeInv, Crash
  PROVE  LifeStep
<1>1. UNCHANGED <<pockets, table>> /\ loaded' \subseteq table
  BY DEF Crash, dbVars
<1>2. at'[MainLoop] = IdleFrame
  BY PocketsAssumption DEF Crash
<1>3. Relies(IdleFrame, pockets, table, loaded')
  BY <1>1 DEF Relies, IdleFrame
<1>. QED  BY <1>1, <1>2, <1>3, Keeps

LEMMA OneThreadStep ==
  ASSUME Threads = {MainLoop}
  PROVE  TypeInv /\ LifeInv /\ [Next]_vars => LifeStep
<1> SUFFICES ASSUME TypeInv, LifeInv, [Next]_vars
             PROVE  LifeStep
  OBVIOUS
<1>1. ASSUME Command(MainLoop)
      PROVE  LifeStep
  <2>1. CASE Buy(MainLoop) \/ Sell(MainLoop) \/ Cancel(MainLoop)
    BY <2>1, Rests DEF Buy, Sell, Cancel, memVars
  <2>. QED  BY <1>1, <2>1, SellAllLife DEF Command, ToolClose
<1>2. ASSUME Continue(MainLoop)
      PROVE  LifeStep
  BY <1>2, SetReasonLife, ClosePocketLife, MarkClosingLife, OnPocketUpdatedLife, SellPocketLife,
     LinkOrderLife, CleanUpLife, CreatePocketLife, OnPocketCreatedLife, MarkClosedLife,
     MatchSaleLife, SplitPocketLife, SaveCopyLife, ListTargetsLife, ArchivePocketLife,
     OnPocketDeletedLife, SweepStrategyLife DEF Continue
<1>3. ASSUME NEW p \in PocketIds, Signal(p)
      PROVE  LifeStep
  BY <1>3, Rests DEF Signal, dbVars
<1>4. ASSUME NEW o \in Orders, Execute(o)
      PROVE  LifeStep
  BY <1>4, Rests DEF Execute
<1>5. CASE UNCHANGED vars
  BY <1>5, Rests DEF vars, dbVars, memVars
<1>. QED  BY <1>1, <1>2, <1>3, <1>4, <1>5, TakeTaskLife, CrashLife DEF Next

\* One thread, killed and restarted at will, takes every pocket through the
\* documented lifecycle: no closed pocket is reopened, no archived one comes
\* back, and nothing is closed that is not open.  (PocketManager.)
THEOREM OneThreadKeepsLifecycle ==
  ASSUME Threads = {MainLoop}
  PROVE  Spec => LifecycleSpec
<1>1. Init => TypeInv /\ LifeInv /\ Lifecycle!Init
  <2>1. Init => TypeInv
    BY TypeInit DEF Init, TypeInv, WellFormed, IdleFrame, PocketSteps, MainSteps
  <2>2. Init => LifeInv
    BY DEF Init, LifeInv, Relies, IdleFrame
  <2>3. Init => Lifecycle!Init
    BY DEF Init, Lifecycle!Init, LifecycleStatus, NoRow
  <2>. QED  BY <2>1, <2>2, <2>3
<1>2. TypeInv /\ LifeInv /\ [Next]_vars =>
        /\ (TypeInv /\ LifeInv)'
        /\ [Lifecycle!Next]_LifecycleStatus
  BY TypeStep, OneThreadStep DEF LifeStep
<1>. QED  BY <1>1, <1>2, PTL DEF Spec, LifecycleSpec, Lifecycle!Spec
=============================================================================
