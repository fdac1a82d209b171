----------------------------- MODULE EdgesProofs -----------------------------
(***************************************************************************)
(* The four edges of the system: of any markets and adding threads, any    *)
(* patterns and topics, any stream of bytes and chunks, and any pockets,   *)
(* strategies, orders and viewers.  Each has an inductive invariant of its *)
(* own; the end of the module puts them together.                          *)
(***************************************************************************)
EXTENDS MCEdges, SequenceTheorems, FiniteSetTheorems, TLAPS

-----------------------------------------------------------------------------
(* The feed: a connection that is up has every code, unless requests       *)
(* crossed.  The invariant follows each code of the list to where it is:   *)
(* with a thread that has not yet made its request, in the one request     *)
(* that is still to be sent, or with the server.                           *)

Beyond == {"check", "dump", "send"}
Making == {"update", "check", "dump"}

\* A code that a thread is about to ask for.
InHand(c) == \E t \in Adders : adder[t].step \in Making /\ c \in adder[t].new

Known ==
  /\ text \subseteq codes /\ server \subseteq codes
  /\ \A t \in Adders : adder[t].text \subseteq codes

Entry ==
  /\ \A t \in Adders : adder[t].step \in Beyond => listed
  /\ listed \/ \A c \in codes : InHand(c)

\* At most one request of a connection is still to be sent.
Alone ==
  IsOpen /\ ~overlap =>
    \A t \in Adders : Unsent(t) => loop = "live" /\ \A u \in Adders \ {t} : ~Unsent(u)

InRequest(c) == \E t \in Adders : Unsent(t) /\ c \in adder[t].text
InOpening(c) == loop = "opening" /\ c \in text
WithServer(c) == loop = "live" /\ (\A t \in Adders : ~Unsent(t)) /\ c \in server

Covered ==
  IsOpen /\ ~overlap =>
    \A c \in codes : InHand(c) \/ InRequest(c) \/ InOpening(c) \/ WithServer(c)

FeedInv == FeedTypeOK /\ Known /\ Entry /\ Alone /\ Covered

-----------------------------------------------------------------------------
(* Types.                                                                  *)

Feeds == {"off", "connecting", "opening", "live", "sleep"}

LEMMA Delays ==
  /\ DelayMin \in Nat /\ DelayMax \in Nat /\ MaxLosses \in Nat
  /\ DelayMin >= 1 /\ DelayMin <= DelayMax
  BY FeedAssumption

LEMMA IdleFrame == IdleAdder \in AdderFrame
  BY DEF IdleAdder, AdderFrame, AdderSteps

\* What an adding thread leaves of the rest.
LEMMA AddNewType ==
  ASSUME FeedTypeOK, NEW t \in Adders, NEW c \in Codes, AddNew(t, c)
  PROVE  FeedTypeOK'
<1>1. [step |-> "extend", new |-> {c}, text |-> {}] \in AdderFrame
  BY DEF AdderFrame, AdderSteps
<1> QED BY <1>1 DEF AddNew, FeedTypeOK, feedLoop

LEMMA AddingType ==
  ASSUME FeedTypeOK, NEW t \in Adders, Adding(t)
  PROVE  FeedTypeOK'
<1>1. adder \in [Adders -> AdderFrame] /\ adder[t] \in AdderFrame
  BY DEF FeedTypeOK
<1>2. CASE AddExtend(t)
  <2>1. adder[t].new \subseteq Codes BY <1>1 DEF AdderFrame
  <2>2. [adder[t] EXCEPT !.step = "update"] \in AdderFrame BY <1>1 DEF AdderFrame, AdderSteps
  <2>3. adder' = [adder EXCEPT ![t] = [adder[t] EXCEPT !.step = "update"]]
    BY <1>2 DEF AddExtend, AdderTo
  <2> QED BY <1>1, <1>2, <2>1, <2>2, <2>3 DEF AddExtend, FeedTypeOK, feedLoop
<1>3. CASE AddUpdate(t)
  <2>1. [adder[t] EXCEPT !.step = "check"] \in AdderFrame BY <1>1 DEF AdderFrame, AdderSteps
  <2>2. adder' = [adder EXCEPT ![t] = [adder[t] EXCEPT !.step = "check"]]
    BY <1>3 DEF AddUpdate, AdderTo
  <2> QED BY <1>1, <1>3, <2>1, <2>2 DEF AddUpdate, FeedTypeOK, feedLoop
<1>4. CASE AddCheck(t)
  <2> DEFINE s == IF KeepRunning THEN "dump" ELSE "idle"
  <2>1. s \in AdderSteps BY DEF AdderSteps
  <2> HIDE DEF s
  <2>2. [adder[t] EXCEPT !.step = s] \in AdderFrame BY <1>1, <2>1 DEF AdderFrame
  <2>3. adder' = [adder EXCEPT ![t] = [adder[t] EXCEPT !.step = s]]
    BY <1>4 DEF AddCheck, AdderTo, s
  <2> QED BY <1>1, <1>4, <2>2, <2>3 DEF AddCheck, FeedTypeOK, feedLoop
<1>5. CASE AddDump(t)
  <2> DEFINE g == [adder[t] EXCEPT !.step = "send"]
             f == [g EXCEPT !.text = Request]
  <2>1. Request \subseteq Codes BY DEF Request, FeedTypeOK
  <2>2. g \in AdderFrame BY <1>1 DEF AdderFrame, AdderSteps
  <2> HIDE DEF g
  <2>3. f \in AdderFrame BY <2>1, <2>2 DEF AdderFrame
  <2>4. adder' = [adder EXCEPT ![t] = f] BY <1>1, <1>5 DEF AddDump, g, AdderFrame
  <2> HIDE DEF f
  <2>5. adder' \in [Adders -> AdderFrame] BY <1>1, <2>3, <2>4
  <2>6. overlap' \in BOOLEAN BY <1>5, Zenon DEF AddDump
  <2> QED BY <1>5, <2>5, <2>6 DEF AddDump, FeedTypeOK, feedLoop
<1>6. CASE AddSend(t)
  <2>1. server' \subseteq Codes BY <1>1, <1>6 DEF AddSend, AdderFrame, FeedTypeOK
  <2> QED BY <1>1, <1>6, <2>1, IdleFrame DEF AddSend, FeedTypeOK, feedLoop
<1> QED BY <1>2, <1>3, <1>4, <1>5, <1>6 DEF Adding

\* The thread of the feed.
LEMMA LoopType ==
  ASSUME FeedTypeOK, FeedLoop \/ StartFeed \/ StopFeed \/ Lost
  PROVE  FeedTypeOK'
<1>1. CASE Opened
  <2>1. text' \subseteq Codes BY <1>1 DEF Opened, Request, FeedTypeOK
  <2>2. overlap' \in BOOLEAN BY <1>1, Zenon DEF Opened
  <2>3. delay' \in DelayMin..DelayMax BY <1>1, Delays DEF Opened
  <2> QED BY <1>1, <2>1, <2>2, <2>3 DEF Opened, FeedTypeOK, feedShared
<1>2. CASE OpenSent BY <1>2 DEF OpenSent, FeedTypeOK, feedShared
<1>3. CASE Retry
  <2>1. delay' \in DelayMin..DelayMax BY <1>3, Delays DEF Retry, FeedTypeOK
  <2> QED BY <1>3, <2>1 DEF Retry, FeedTypeOK, feedShared
<1>4. CASE StartFeed
  <2>1. isRunning' \in BOOLEAN BY <1>4, Zenon DEF StartFeed
  <2> QED BY <1>4, <2>1 DEF StartFeed, FeedTypeOK, feedShared
<1>5. CASE StopFeed
  <2>1. isRunning' \in BOOLEAN BY <1>5, Zenon DEF StopFeed
  <2>2. loop' \in Feeds BY <1>5 DEF StopFeed, FeedTypeOK, Feeds
  <2> QED BY <1>5, <2>1, <2>2 DEF StopFeed, FeedTypeOK, feedShared, Feeds
<1>6. CASE Lost
  <2>1. losses' \in 0..MaxLosses BY <1>6, Delays DEF Lost, FeedTypeOK
  <2>2. loop' \in Feeds BY <1>6 DEF Lost, Feeds
  <2> QED BY <1>6, <2>1, <2>2 DEF Lost, FeedTypeOK, feedShared, Feeds
<1> QED BY <1>1, <1>2, <1>3, <1>4, <1>5, <1>6 DEF FeedLoop

-----------------------------------------------------------------------------
(* The thread of the feed and the codes.                                   *)

\* A connection that is not up promises nothing.
LEMMA Closed ==
  ASSUME FeedInv, FeedTypeOK', ~IsOpen', server' = {}, text' \subseteq codes,
         UNCHANGED feedShared
  PROVE  FeedInv'
<1>1. Known' BY DEF FeedInv, Known, feedShared
<1>2. Entry' BY DEF FeedInv, Entry, InHand, feedShared
<1>3. Alone' /\ Covered' BY DEF Alone, Covered
<1> QED BY <1>1, <1>2, <1>3 DEF FeedInv

LEMMA OpenedStep == ASSUME FeedInv, FeedTypeOK', Opened PROVE FeedInv'
<1>1. UNCHANGED <<codes, listed, adder>> /\ text' = Request /\ server' = {} /\ loop' = "opening"
  BY DEF Opened, feedShared
<1>2. Request \subseteq codes BY DEF Request
<1>3. Known' BY <1>1, <1>2 DEF FeedInv, Known
<1>4. Entry' BY <1>1 DEF FeedInv, Entry, InHand
<1>5. ~overlap' => \A t \in Adders : ~Unsent(t) BY DEF Opened
<1>6. Alone' BY <1>1, <1>5 DEF Alone, Unsent
<1>7. Covered'
  <2> SUFFICES ASSUME ~overlap', NEW c \in codes PROVE InHand(c)' \/ InOpening(c)'
    BY <1>1 DEF Covered
  <2>1. CASE listed BY <1>1, <2>1 DEF InOpening, Request
  <2>2. CASE ~listed BY <1>1, <2>2 DEF FeedInv, Entry, InHand
  <2> QED BY <2>1, <2>2
<1> QED BY <1>3, <1>4, <1>6, <1>7 DEF FeedInv

LEMMA OpenSentStep == ASSUME FeedInv, FeedTypeOK', OpenSent PROVE FeedInv'
<1>1. /\ UNCHANGED <<codes, listed, adder, text, overlap>> /\ server' = text
      /\ loop = "opening" /\ loop' = "live"
  BY DEF OpenSent, feedShared
<1>2. Known' BY <1>1 DEF FeedInv, Known
<1>3. Entry' BY <1>1 DEF FeedInv, Entry, InHand
<1>4. ~overlap => \A t \in Adders : ~Unsent(t)
  BY <1>1 DEF FeedInv, Alone, IsOpen
<1>5. Alone' BY <1>1, <1>4 DEF Alone, Unsent
<1>6. Covered'
  <2> SUFFICES ASSUME ~overlap, NEW c \in codes PROVE InHand(c)' \/ WithServer(c)'
    BY <1>1 DEF Covered
  <2>1. InHand(c) \/ InOpening(c)
    BY <1>1, <1>4 DEF FeedInv, Covered, IsOpen, InRequest, WithServer
  <2>2. InHand(c) => InHand(c)' BY <1>1 DEF InHand
  <2>3. InOpening(c) => WithServer(c)' BY <1>1, <1>4 DEF InOpening, WithServer, Unsent
  <2> QED BY <2>1, <2>2, <2>3
<1> QED BY <1>2, <1>3, <1>5, <1>6 DEF FeedInv

LEMMA LoopStep ==
  ASSUME FeedInv, FeedLoop \/ StartFeed \/ StopFeed \/ Lost
  PROVE  FeedInv'
<1>1. FeedTypeOK' BY LoopType DEF FeedInv
<1>2. CASE Opened BY <1>1, <1>2, OpenedStep
<1>3. CASE OpenSent BY <1>1, <1>3, OpenSentStep
<1>4. CASE Retry \/ StartFeed
  <2>1. UNCHANGED <<codes, listed, adder, text, server>> BY <1>4 DEF Retry, StartFeed, feedShared
  <2>2. ~IsOpen' BY <1>4 DEF Retry, StartFeed, IsOpen
  <2>3. Known' BY <2>1 DEF FeedInv, Known
  <2>4. Entry' BY <2>1 DEF FeedInv, Entry, InHand
  <2>5. Alone' /\ Covered' BY <2>2 DEF Alone, Covered
  <2> QED BY <1>1, <2>3, <2>4, <2>5 DEF FeedInv
<1>5. CASE StopFeed \/ Lost
  <2>1. UNCHANGED feedShared /\ server' = {} /\ text' \subseteq codes
    BY <1>5 DEF StopFeed, Lost, FeedInv, Known
  <2>2. ~IsOpen' BY <1>5 DEF StopFeed, Lost, IsOpen, KeepRunning
  <2> QED BY <1>1, <2>1, <2>2, Closed
<1> QED BY <1>2, <1>3, <1>4, <1>5 DEF FeedLoop

-----------------------------------------------------------------------------
(* The threads that add.                                                   *)

\* What a thread makes of its frame and leaves of the others.
LEMMA Frames ==
  ASSUME FeedTypeOK, NEW t \in Adders, NEW f, adder' = [adder EXCEPT ![t] = f]
  PROVE  adder'[t] = f /\ \A u \in Adders \ {t} : adder'[u] = adder[u]
  BY DEF FeedTypeOK

\* A thread moves on with its code in hand, or with none.
LEMMA MovesOn ==
  ASSUME FeedInv, FeedTypeOK', NEW t \in Adders, NEW f,
         adder' = [adder EXCEPT ![t] = f],
         f.step # "send", ~Unsent(t), f.text \subseteq codes,
         f.step \in Beyond => listed',
         adder[t].step \in Making /\ IsOpen => f.step \in Making,
         adder[t].step \in Making /\ ~listed' => f.step \in Making,
         adder[t].step \in Making /\ f.step \in Making => f.new = adder[t].new,
         codes \subseteq codes', \A c \in codes' \ codes : f.step \in Making /\ c \in f.new,
         listed => listed',
         UNCHANGED <<feedLoop, server, overlap>>
  PROVE  FeedInv'
<1>1. adder'[t] = f /\ \A u \in Adders \ {t} : adder'[u] = adder[u]
  BY Frames DEF FeedInv
<1>2. UNCHANGED <<loop, text, server, overlap>> BY DEF feedLoop
<1>3. Known' BY <1>1, <1>2 DEF FeedInv, Known
<1>4. \A c : InHand(c) /\ (IsOpen \/ ~listed') => InHand(c)'
  BY <1>1 DEF InHand
<1>5. \A c \in codes' \ codes : InHand(c)' BY <1>1 DEF InHand
<1>6. Entry'
  <2>1. \A u \in Adders : adder'[u].step \in Beyond => listed'
    BY <1>1 DEF FeedInv, Entry
  <2>2. listed' \/ \A c \in codes' : InHand(c)'
    BY <1>4, <1>5 DEF FeedInv, Entry
  <2> QED BY <2>1, <2>2 DEF Entry
<1>7. \A u \in Adders : Unsent(u)' <=> Unsent(u)
  BY <1>1 DEF Unsent
<1>8. Alone' BY <1>2, <1>7 DEF FeedInv, Alone, IsOpen
<1>9. Covered'
  <2> SUFFICES ASSUME IsOpen, ~overlap, NEW c \in codes'
               PROVE  InHand(c)' \/ InRequest(c)' \/ InOpening(c)' \/ WithServer(c)'
    BY <1>2 DEF Covered, IsOpen
  <2>1. CASE c \notin codes BY <1>5, <2>1
  <2>2. CASE c \in codes
    <3>1. InHand(c) \/ InRequest(c) \/ InOpening(c) \/ WithServer(c)
      BY <2>2 DEF FeedInv, Covered
    <3>2. InHand(c) => InHand(c)' BY <1>4
    <3>3. InRequest(c) => InRequest(c)' BY <1>1 DEF InRequest, Unsent
    <3>4. InOpening(c) => InOpening(c)' BY <1>2 DEF InOpening
    <3>5. WithServer(c) => WithServer(c)' BY <1>2, <1>7 DEF WithServer
    <3> QED BY <3>1, <3>2, <3>3, <3>4, <3>5
  <2> QED BY <2>1, <2>2
<1> QED BY <1>3, <1>6, <1>8, <1>9 DEF FeedInv

\* A frame whose step is set.
LEMMA StepSet ==
  ASSUME FeedInv, NEW t \in Adders, NEW s
  PROVE  LET f == [adder[t] EXCEPT !.step = s]
         IN  f.step = s /\ f.new = adder[t].new /\ f.text = adder[t].text
  BY DEF FeedInv, FeedTypeOK, AdderFrame

LEMMA AddNewStep ==
  ASSUME FeedInv, NEW t \in Adders, NEW c \in Codes, AddNew(t, c)
  PROVE  FeedInv'
<1> DEFINE f == [step |-> "extend", new |-> {c}, text |-> {}]
<1>1. FeedTypeOK' BY AddNewType DEF FeedInv
<1>2. f.step = "extend" /\ f.text = {} OBVIOUS
<1>3. /\ adder' = [adder EXCEPT ![t] = f] /\ adder[t].step = "idle"
      /\ UNCHANGED <<feedLoop, codes, listed, server, overlap>>
  BY DEF AddNew, AdderAt
<1> HIDE DEF f
<1> QED BY <1>1, <1>2, <1>3, MovesOn DEF Beyond, Making, Unsent

LEMMA AddExtendStep ==
  ASSUME FeedInv, NEW t \in Adders, AddExtend(t)
  PROVE  FeedInv'
<1> DEFINE f == [adder[t] EXCEPT !.step = "update"]
<1>1. FeedTypeOK' BY AddingType DEF FeedInv, Adding
<1>2. f.step = "update" /\ f.new = adder[t].new /\ f.text = adder[t].text BY StepSet
<1>3. /\ adder' = [adder EXCEPT ![t] = f] /\ adder[t].step = "extend"
      /\ codes' = codes \cup adder[t].new
      /\ UNCHANGED <<feedLoop, listed, server, overlap>>
  BY DEF AddExtend, AdderAt, AdderTo
<1>4. f.text \subseteq codes BY <1>2 DEF FeedInv, Known
<1> HIDE DEF f
<1> QED BY <1>1, <1>2, <1>3, <1>4, MovesOn DEF Beyond, Making, Unsent

LEMMA AddUpdateStep ==
  ASSUME FeedInv, NEW t \in Adders, AddUpdate(t)
  PROVE  FeedInv'
<1> DEFINE f == [adder[t] EXCEPT !.step = "check"]
<1>1. FeedTypeOK' BY AddingType DEF FeedInv, Adding
<1>2. f.step = "check" /\ f.new = adder[t].new /\ f.text = adder[t].text BY StepSet
<1>3. /\ adder' = [adder EXCEPT ![t] = f] /\ adder[t].step = "update" /\ listed' = TRUE
      /\ UNCHANGED <<feedLoop, codes, server, overlap>>
  BY DEF AddUpdate, AdderAt, AdderTo
<1>4. f.text \subseteq codes BY <1>2 DEF FeedInv, Known
<1> HIDE DEF f
<1> QED BY <1>1, <1>2, <1>3, <1>4, MovesOn DEF Beyond, Making, Unsent

LEMMA AddCheckStep ==
  ASSUME FeedInv, NEW t \in Adders, AddCheck(t)
  PROVE  FeedInv'
<1> DEFINE s == IF KeepRunning THEN "dump" ELSE "idle"
           f == [adder[t] EXCEPT !.step = s]
<1>1. FeedTypeOK' BY AddingType DEF FeedInv, Adding
<1>2. f.step = s /\ f.new = adder[t].new /\ f.text = adder[t].text BY StepSet
<1>3. /\ adder' = [adder EXCEPT ![t] = f] /\ adder[t].step = "check"
      /\ UNCHANGED <<feedLoop, codes, listed, server, overlap>>
  BY DEF AddCheck, AdderAt, AdderTo
<1>4. f.text \subseteq codes BY <1>2 DEF FeedInv, Known
<1>5. s \in {"dump", "idle"} /\ (IsOpen => s = "dump") BY DEF IsOpen, KeepRunning
<1>6. listed BY <1>3 DEF FeedInv, Entry, Beyond
<1> HIDE DEF f, s
<1> QED BY <1>1, <1>2, <1>3, <1>4, <1>5, <1>6, MovesOn DEF Beyond, Making, Unsent

LEMMA AddDumpStep ==
  ASSUME FeedInv, NEW t \in Adders, AddDump(t)
  PROVE  FeedInv'
<1> DEFINE f == [[adder[t] EXCEPT !.step = "send"] EXCEPT !.text = Request]
<1>1. FeedTypeOK' BY AddingType DEF FeedInv, Adding
<1>2. adder[t].step = "dump" /\ listed BY DEF AddDump, AdderAt, FeedInv, Entry, Beyond
<1>3. adder' = [adder EXCEPT ![t] = f] BY DEF AddDump, FeedInv, FeedTypeOK
<1>4. f.step = "send" /\ f.text = codes
  <2> DEFINE g == [adder[t] EXCEPT !.step = "send"]
  <2>1. g.step = "send" /\ g \in AdderFrame BY DEF FeedInv, FeedTypeOK, AdderFrame, AdderSteps
  <2> HIDE DEF g
  <2>2. [g EXCEPT !.text = Request].step = g.step /\ [g EXCEPT !.text = Request].text = Request
    BY <2>1 DEF AdderFrame
  <2> QED BY <1>2, <2>1, <2>2 DEF g, Request
<1> HIDE DEF f
<1>5. UNCHANGED <<codes, listed, loop, text, server>> BY DEF AddDump, feedLoop
<1>6. ~overlap' => ~overlap /\ loop # "opening" /\ \A u \in Adders : ~Unsent(u)
  BY DEF AddDump
<1>7. adder'[t] = f /\ \A u \in Adders \ {t} : adder'[u] = adder[u]
  BY <1>3, Frames DEF FeedInv
<1>8. Known' BY <1>4, <1>5, <1>7 DEF FeedInv, Known
<1>9. Entry' BY <1>2, <1>5, <1>7 DEF FeedInv, Entry
<1>10. Alone' BY <1>5, <1>6, <1>7 DEF Alone, Unsent, IsOpen
<1>11. Covered' BY <1>4, <1>5, <1>7 DEF Covered, InRequest, Unsent
<1> QED BY <1>1, <1>8, <1>9, <1>10, <1>11 DEF FeedInv

LEMMA AddSendStep ==
  ASSUME FeedInv, NEW t \in Adders, AddSend(t)
  PROVE  FeedInv'
<1>1. FeedTypeOK' BY AddingType DEF FeedInv, Adding
<1>2. /\ adder[t].step = "send" /\ adder' = [adder EXCEPT ![t] = IdleAdder]
      /\ server' = (IF IsOpen THEN adder[t].text ELSE server)
      /\ UNCHANGED <<loop, text, codes, listed, overlap>>
  BY DEF AddSend, AdderAt, feedLoop
<1>3. adder'[t] = IdleAdder /\ \A u \in Adders \ {t} : adder'[u] = adder[u]
  BY <1>2, Frames DEF FeedInv
<1>4. IdleAdder.step = "idle" /\ IdleAdder.text = {} BY DEF IdleAdder
<1>5. Known' BY <1>2, <1>3, <1>4 DEF FeedInv, Known
<1>6. \A c : InHand(c) => InHand(c)' BY <1>2, <1>3 DEF InHand, Making
<1>7. Entry' BY <1>2, <1>3, <1>4, <1>6 DEF FeedInv, Entry, Beyond
<1>8. IsOpen /\ ~overlap => loop = "live" /\ \A u \in Adders : ~Unsent(u)'
  BY <1>2, <1>3, <1>4 DEF FeedInv, Alone, Unsent
<1>9. Alone' BY <1>2, <1>8 DEF Alone, IsOpen
<1>10. Covered'
  <2> SUFFICES ASSUME IsOpen, ~overlap, NEW c \in codes
               PROVE  InHand(c)' \/ WithServer(c)'
    BY <1>2 DEF Covered, IsOpen
  <2>1. InHand(c) \/ c \in adder[t].text
    BY <1>2, <1>8 DEF FeedInv, Covered, Alone, InRequest, InOpening, WithServer, Unsent
  <2>2. c \in adder[t].text => WithServer(c)'
    BY <1>2, <1>8 DEF WithServer
  <2> QED BY <1>6, <2>1, <2>2
<1> QED BY <1>1, <1>5, <1>7, <1>9, <1>10 DEF FeedInv

-----------------------------------------------------------------------------
LEMMA InitFeed == FeedInit => FeedInv
<1> SUFFICES ASSUME FeedInit PROVE FeedInv OBVIOUS
<1>1. FeedTypeOK
  <2>1. {listed, isRunning, overlap} \subseteq BOOLEAN BY Zenon DEF FeedInit
  <2>2. delay \in DelayMin..DelayMax /\ losses \in 0..MaxLosses BY Delays DEF FeedInit
  <2>3. adder \in [Adders -> AdderFrame] BY IdleFrame DEF FeedInit
  <2> QED BY <2>1, <2>2, <2>3, FeedAssumption DEF FeedInit, FeedTypeOK
<1>2. \A t \in Adders : adder[t].step = "idle" /\ adder[t].text = {}
  BY DEF FeedInit, IdleAdder
<1>3. Known BY <1>2 DEF FeedInit, Known
<1>4. Entry BY <1>2 DEF FeedInit, Entry, Beyond
<1>5. Alone /\ Covered BY DEF FeedInit, Alone, Covered, IsOpen
<1> QED BY <1>1, <1>3, <1>4, <1>5 DEF FeedInv

LEMMA StepFeed == FeedInv /\ [FeedNext]_feedVars => FeedInv'
<1> SUFFICES ASSUME FeedInv, [FeedNext]_feedVars PROVE FeedInv' OBVIOUS
<1>1. CASE FeedLoop \/ StartFeed \/ StopFeed \/ Lost BY <1>1, LoopStep
<1>2. ASSUME NEW t \in Adders, Adding(t) PROVE FeedInv'
  BY <1>2, AddExtendStep, AddUpdateStep, AddCheckStep, AddDumpStep, AddSendStep DEF Adding
<1>3. ASSUME NEW t \in Adders, NEW c \in Codes, AddNew(t, c) PROVE FeedInv'
  BY <1>3, AddNewStep
<1>4. CASE UNCHANGED feedVars
  BY <1>4 DEF feedVars, FeedInv, FeedTypeOK, Known, Entry, Alone, Covered, InHand, InRequest,
              InOpening, WithServer, Unsent, IsOpen
<1> QED BY <1>1, <1>2, <1>3, <1>4 DEF FeedNext

THEOREM FeedInvariant == FeedSpec => []FeedInv
<1> QED BY InitFeed, StepFeed, PTL DEF FeedSpec

\* The wait between two attempts stays between its bounds, and frames keep their shape.
THEOREM FeedTypeCorrect == FeedSpec => []FeedTypeOK
<1>1. FeedInv => FeedTypeOK BY DEF FeedInv
<1> QED BY <1>1, FeedInvariant, PTL

LEMMA FeedHasAll == FeedInv => Subscribed
  BY DEF FeedInv, Subscribed, Covered, Known, IsOpen, InHand, InRequest, InOpening, WithServer,
         Making, Unsent

\* A connection that is up has every code of the list when nobody is adding one,
\* unless requests crossed.
THEOREM FeedSubscribed == FeedSpec => []Subscribed
<1> QED BY FeedHasAll, FeedInvariant, PTL

-----------------------------------------------------------------------------
(* The messaging client.                                                   *)

\* Nothing is connected before the manager asks, the callback is registered before the
\* subscription is asked for, and from then on a connection that is up has it.
MessagingInv ==
  /\ MessagingTypeOK
  /\ boot = "start" => link = "off"
  /\ boot \in {"subscribe", "done"} => registered
  /\ Listening

\* The length of a sequence of at most Depth levels.
LEMMA Leveled ==
  ASSUME NEW S, NEW p \in UpTo(S)
  PROVE  /\ Len(p) \in 1..Depth /\ p \in [1..Len(p) -> S]
<1>1. Depth \in Nat /\ Depth >= 1
  BY MessagingAssumption
<1>2. PICK n \in 1..Depth : p \in [1..n -> S]
  BY DEF UpTo
<1>3. n \in Nat
  BY <1>1
<1>4. Len(p) = n
  BY <1>2, <1>3
<1>. QED  BY <1>2, <1>4

\* The words of a pattern and of a topic: only the last of a pattern can be a #, and a
\* # matches no level of its own.
LEMMA Worded ==
  ASSUME NEW p \in Patterns, NEW t \in Topics
  PROVE  /\ Len(p) \in Nat \ {0} /\ Len(t) \in Nat \ {0}
         /\ \A i \in 1..Len(p) : p[i] = "#" => i = Len(p)
         /\ \A k \in 1..Len(t) : ~LevelMatches("#", t[k])
<1>1. p \in UpTo(Levels \cup {"+", "#"}) /\ \A i \in 1..Len(p) - 1 : p[i] # "#"
  BY DEF Patterns
<1>2. Len(p) \in 1..Depth /\ Len(t) \in 1..Depth /\ t \in [1..Len(t) -> Levels]
  BY <1>1, Leveled DEF Topics
<1>3. Len(p) \in Nat \ {0} /\ Len(t) \in Nat \ {0}
  BY <1>2, MessagingAssumption
<1>4. \A i \in 1..Len(p) : p[i] = "#" => i = Len(p)
  BY <1>1, <1>3
<1>5. "#" \notin Levels
  BY MessagingAssumption
<1>6. \A k \in 1..Len(t) : t[k] \in Levels
  BY <1>2
<1>. QED  BY <1>3, <1>4, <1>5, <1>6 DEF LevelMatches

\* The two ways to match, told apart by the last word.
LEMMA BothMatch ==
  ASSUME NEW p \in Patterns, NEW t \in Topics
  PROVE  /\ TopicMatches(t, p) => BrokerMatches(t, p)
         /\ BrokerMatches(t, p) =>
              TopicMatches(t, p) \/ (Len(p) = Len(t) + 1 /\ p[Len(p)] = "#")
<1> DEFINE n == Len(p)
           m == Len(t)
<1>1. /\ n \in Nat \ {0} /\ m \in Nat \ {0}
      /\ \A i \in 1..n : p[i] = "#" => i = n
      /\ \A k \in 1..m : ~LevelMatches("#", t[k])
  BY Worded
<1>2. p = <<"#">> => n = 1 /\ p[1] = "#"
  OBVIOUS
<1>3. CASE p[n] = "#"
  <2> DEFINE Above == \A k \in 1..n - 1 : LevelMatches(p[k], t[k])
  <2>1. BrokerMatches(t, p) <=> m >= n - 1 /\ Above
    BY <1>1, <1>3 DEF BrokerMatches
  <2>2. n <= m => ~ (n = m /\ \A k \in 1..n : LevelMatches(p[k], t[k]))
    BY <1>1, <1>3
  <2>3. (\E i \in 1..n : p[i] = "#" /\ \A k \in 1..i - 1 : LevelMatches(p[k], t[k])) <=> Above
    BY <1>1, <1>3
  <2>4. TopicMatches(t, p) <=> p = <<"#">> \/ (n <= m /\ Above)
    BY <2>2, <2>3 DEF TopicMatches
  <2>5. p = <<"#">> => m >= n - 1 /\ Above
    BY <1>1, <1>2
  <2>6. n <= m \/ m = n - 1 \/ ~ (m >= n - 1)
    BY <1>1
  <2> HIDE DEF Above
  <2>. QED  BY <1>1, <1>3, <2>1, <2>4, <2>5, <2>6
<1>4. CASE p[n] # "#"
  <2>1. p # <<"#">> /\ \A i \in 1..n : p[i] # "#"
    BY <1>1, <1>2, <1>4
  <2>2. BrokerMatches(t, p) <=> m = n /\ \A k \in 1..n : LevelMatches(p[k], t[k])
    BY <1>1, <1>4 DEF BrokerMatches
  <2>3. TopicMatches(t, p) <=> n <= m /\ n = m /\ \A k \in 1..n : LevelMatches(p[k], t[k])
    BY <2>1 DEF TopicMatches
  <2>. QED  BY <1>1, <2>2, <2>3
<1>. QED  BY <1>3, <1>4

\* Every pattern agrees with the broker's, at every topic.
LEMMA AllAgree == pattern \in Patterns => PatternAgrees
  BY BothMatch DEF PatternAgrees

\* A link that is not up, and one that is.
LEMMA LinkDown ==
  ASSUME NEW c, c = FALSE, NEW l \in {"off", "connecting"}
  PROVE  c = (l \in {"greeting", "up"})
<1>1. c \in BOOLEAN
  OBVIOUS
<1>2. c <=> l \in {"greeting", "up"}
  OBVIOUS
<1>. QED  BY <1>1, <1>2

LEMMA LinkUp ==
  ASSUME NEW c, c = TRUE, NEW l, l = "greeting"
  PROVE  c = (l \in {"greeting", "up"})
<1>1. c \in BOOLEAN
  OBVIOUS
<1>2. c <=> l \in {"greeting", "up"}
  OBVIOUS
<1>. QED  BY <1>1, <1>2

LEMMA Greets ==
  ASSUME Connected
  PROVE  \/ link' = "greeting" /\ isConnected' = TRUE
         \/ link' = "connecting" /\ isConnected' = FALSE
<1>1. CASE link' = "greeting" /\ isConnected' = TRUE
  BY <1>1
<1>2. CASE isConnected' = FALSE /\ UNCHANGED link
  BY <1>2, Zenon DEF Connected
<1>. QED  BY <1>1, <1>2, Zenon DEF Connected

LEMMA InitMessaging == MessagingInit => MessagingInv
<1>1. 0 \in 0..MaxDrops
  BY MessagingAssumption
<1>2. MessagingInit => isConnected = (link \in {"greeting", "up"})
  BY LinkDown DEF MessagingInit
<1>. QED  BY <1>1, <1>2 DEF MessagingInit, MessagingInv, MessagingTypeOK, Listening

LEMMA StepMessaging == MessagingInv /\ [MessagingNext]_messagingVars => MessagingInv'
<1> SUFFICES ASSUME MessagingInv, [MessagingNext]_messagingVars PROVE MessagingInv'
  OBVIOUS
<1> USE DEF MessagingInv, MessagingTypeOK, Listening
<1>0. MaxDrops \in Nat
  BY MessagingAssumption
<1>1. CASE Connect
  BY <1>1 DEF Connect
<1>2. CASE WaitOver
  BY <1>2 DEF WaitOver
<1>3. CASE Register
  BY <1>3 DEF Register
<1>4. CASE Subscribe
  BY <1>4 DEF Subscribe
<1>5. CASE Connected
  <2>1. drops' \in 0..MaxDrops
    BY <1>0, <1>5 DEF Connected
  <2>2. \/ link' = "greeting" /\ isConnected' = TRUE
        \/ link' = "connecting" /\ isConnected' = FALSE
    BY <1>5, Greets
  <2>3. isConnected' = (link' \in {"greeting", "up"})
    BY <2>2, LinkDown, LinkUp
  <2>. QED  BY <1>5, <2>1, <2>2, <2>3 DEF Connected
<1>6. CASE Resubscribe
  BY <1>6 DEF Resubscribe
<1>7. CASE Dropped
  <2>1. drops' \in 0..MaxDrops
    BY <1>0, <1>7 DEF Dropped
  <2>2. isConnected' = (link' \in {"greeting", "up"})
    BY <1>7, LinkDown DEF Dropped
  <2>. QED  BY <1>7, <2>1, <2>2 DEF Dropped
<1>8. CASE Disconnect
  <2>1. isConnected' = (link' \in {"greeting", "up"})
    BY <1>8, LinkDown DEF Disconnect
  <2>. QED  BY <1>8, <2>1 DEF Disconnect
<1>9. CASE UNCHANGED messagingVars
  BY <1>9 DEF messagingVars
<1>. QED  BY <1>1, <1>2, <1>3, <1>4, <1>5, <1>6, <1>7, <1>8, <1>9
          DEF MessagingNext, Manages, PahoLoop

-----------------------------------------------------------------------------
(* Lines: where they end, and how a stream that is cut at a line end gives  *)
(* the lines of its two halves.                                            *)

Bytes == {"x", "y", "h1", "h2", "v", "nl"}

\* A set of naturals below n that is not empty has a greatest element.
LEMMA Greatest ==
  ASSUME NEW n \in Nat, NEW S, S \subseteq 0..n, S # {}
  PROVE  \E x \in S : \A y \in S : y <= x
<1> DEFINE R == {ss \in Nat \X Nat : ss[1] < ss[2]}
           T == {n - x : x \in S}
<1>1. IsWellFoundedOn(R, Nat)
  BY NatLessThanWellFounded DEF OpToRel
<1>2. T \subseteq Nat /\ T # {}
  <2>1. \A x \in S : x \in 0..n /\ n - x \in Nat
    OBVIOUS
  <2>2. PICK x \in S : TRUE
    OBVIOUS
  <2>3. n - x \in T
    OBVIOUS
  <2>. QED  BY <2>1, <2>3
<1>3. PICK d \in T : \A e \in T : ~ (<<e, d>> \in R)
  <2> HIDE DEF R, T
  <2>. QED  BY <1>1, <1>2, WFMin
<1>4. PICK x \in S : d = n - x
  OBVIOUS
<1>5. ASSUME NEW y \in S, ~ (y <= x)
      PROVE  FALSE
  <2>1. n - y \in T /\ n - y \in Nat /\ n - x \in Nat
    BY <1>2
  <2>2. x \in Nat /\ y \in Nat /\ n - y < n - x
    BY <1>5
  <2>3. <<n - y, n - x>> \in R
    BY <2>1, <2>2
  <2>. QED  BY <1>3, <1>4, <2>1, <2>3
<1>. QED  BY <1>5

LEMMA EndsWithin ==
  ASSUME NEW s \in Seq(Bytes)
  PROVE  /\ Len(s) \in Nat /\ Ends(s) \subseteq 1..Len(s) /\ IsFiniteSet(Ends(s))
         /\ Filled(s) \subseteq Ends(s) /\ IsFiniteSet(Filled(s))
<1>1. Len(s) \in Nat
  BY LenProperties
<1>2. Ends(s) \subseteq 1..Len(s)
  BY DEF Ends
<1>3. IsFiniteSet(1..Len(s))
  BY <1>1, FS_Interval
<1>4. IsFiniteSet(Ends(s))
  BY <1>2, <1>3, FS_Subset
<1>5. Filled(s) \subseteq Ends(s)
  BY DEF Filled
<1>. QED  BY <1>1, <1>2, <1>4, <1>5, FS_Subset

\* The last end before a place is one, or 0, and no other lies between.
LEMMA LastEndIs ==
  ASSUME NEW s \in Seq(Bytes), NEW i \in Nat
  PROVE  /\ LastEnd(s, i) \in {0} \cup {e \in Ends(s) : e < i}
         /\ \A d \in Ends(s) : d < i => d <= LastEnd(s, i)
         /\ LastEnd(s, i) \in 0..Len(s)
<1> DEFINE E == {0} \cup {e \in Ends(s) : e < i}
<1>1. Len(s) \in Nat /\ E \subseteq 0..Len(s) /\ E # {}
  BY EndsWithin
<1>2. \E x \in E : \A y \in E : y <= x
  <2> HIDE DEF E
  <2>. QED  BY <1>1, Greatest
<1>3. LastEnd(s, i) = CHOOSE e \in E : \A d \in E : d <= e
  BY DEF LastEnd
<1>4. LastEnd(s, i) \in E /\ \A d \in E : d <= LastEnd(s, i)
  <2> HIDE DEF E
  <2>. QED  BY <1>2, <1>3
<1>. QED  BY <1>1, <1>4

LEMMA LastEndUnique ==
  ASSUME NEW s \in Seq(Bytes), NEW i \in Nat, NEW o \in {0} \cup {e \in Ends(s) : e < i},
         \A d \in Ends(s) : d < i => d <= o
  PROVE  LastEnd(s, i) = o
<1>1. /\ LastEnd(s, i) \in {0} \cup {e \in Ends(s) : e < i}
      /\ \A d \in Ends(s) : d < i => d <= LastEnd(s, i)
  BY LastEndIs
<1>2. Ends(s) \subseteq Nat \ {0}
  BY EndsWithin
<1>3. LastEnd(s, i) \in Nat /\ o \in Nat
  BY <1>1, <1>2
<1>4. LastEnd(s, i) <= o
  BY <1>1, <1>3
<1>5. o <= LastEnd(s, i)
  BY <1>1, <1>3
<1>. QED  BY <1>3, <1>4, <1>5

\* A part of a stream, byte by byte.
LEMMA PartOf ==
  ASSUME NEW s \in Seq(Bytes), NEW a \in 1..Len(s) + 1, NEW b \in 0..Len(s)
  PROVE  /\ SubSeq(s, a, b) \in Seq(Bytes)
         /\ Len(SubSeq(s, a, b)) = IF a <= b THEN b - a + 1 ELSE 0
         /\ \A i \in 1..b - a + 1 : SubSeq(s, a, b)[i] = s[a + i - 1]
<1>1. Len(s) \in Nat /\ \A i \in 1..Len(s) : s[i] \in Bytes
  BY LenProperties, ElementOfSeq
<1>2. \A i \in a..b : s[i] \in Bytes
  BY <1>1
<1>. QED  BY <1>1, <1>2, SubSeqProperties

LEMMA BeforeIsBytes ==
  ASSUME NEW s \in Seq(Bytes), NEW i \in 1..Len(s)
  PROVE  Before(s, i) \in Seq(Bytes)
<1>1. Len(s) \in Nat
  BY LenProperties
<1>2. LastEnd(s, i) \in 0..Len(s)
  BY <1>1, LastEndIs
<1>3. LastEnd(s, i) + 1 \in 1..Len(s) + 1 /\ i - 1 \in 0..Len(s)
  BY <1>1, <1>2
<1>. QED  BY <1>3, PartOf DEF Before

-----------------------------------------------------------------------------
(* The k-th element of a finite set of naturals.                           *)

Rank(S, i) == Cardinality({j \in S : j <= i})

LEMMA RankRises ==
  ASSUME NEW S, S \subseteq Nat, IsFiniteSet(S), NEW i \in S
  PROVE  /\ Rank(S, i) \in 1..Cardinality(S)
         /\ \A j \in S : i < j => Rank(S, i) < Rank(S, j)
<1> DEFINE Lower(k) == {j \in S : j <= k}
<1>1. \A k : Lower(k) \subseteq S
  OBVIOUS
<1>2. \A k : IsFiniteSet(Lower(k)) /\ Cardinality(Lower(k)) \in Nat /\ Cardinality(Lower(k)) <= Cardinality(S)
  <2> HIDE DEF Lower
  <2>. QED  BY <1>1, FS_Subset, FS_CardinalityType
<1>3. i \in Lower(i) /\ Cardinality(S) \in Nat
  BY FS_CardinalityType
<1>4. Cardinality(Lower(i)) # 0
  <2> HIDE DEF Lower
  <2>. QED  BY <1>2, <1>3, FS_EmptySet
<1>5. ASSUME NEW j \in S, i < j
      PROVE  Cardinality(Lower(i)) < Cardinality(Lower(j))
  <2>1. Lower(i) \subseteq Lower(j) /\ j \in Lower(j) /\ j \notin Lower(i)
    <3>1. i \in Nat /\ j \in Nat
      OBVIOUS
    <3>2. j <= j /\ ~ (j <= i) /\ \A k \in S : k <= i => k <= j
      BY <1>5, <3>1
    <3>. QED  BY <3>2
  <2> HIDE DEF Lower
  <2>2. Cardinality(Lower(i)) <= Cardinality(Lower(j)) /\ Cardinality(Lower(i)) # Cardinality(Lower(j))
    BY <1>2, <2>1, FS_Subset
  <2>. QED  BY <1>2, <2>2
<1>. QED  BY <1>2, <1>3, <1>4, <1>5 DEF Rank

LEMMA RankTells ==
  ASSUME NEW S, S \subseteq Nat, IsFiniteSet(S), NEW i \in S, NEW j \in S,
         Rank(S, i) = Rank(S, j)
  PROVE  i = j
<1>1. Cardinality(S) \in Nat
  BY FS_CardinalityType
<1>2. Rank(S, i) \in 1..Cardinality(S) /\ (i < j => Rank(S, i) < Rank(S, j))
  BY RankRises
<1>3. Rank(S, j) \in 1..Cardinality(S) /\ (j < i => Rank(S, j) < Rank(S, i))
  BY RankRises
<1> HIDE DEF Rank
<1>. QED  BY <1>1, <1>2, <1>3

LEMMA KthUnique ==
  ASSUME NEW S, S \subseteq Nat, IsFiniteSet(S), NEW i \in S, NEW k, Rank(S, i) = k
  PROVE  Kth(S, k) = i
<1>1. Kth(S, k) \in S /\ Rank(S, Kth(S, k)) = k
  BY DEF Kth, Rank
<1>. QED  BY <1>1, RankTells

\* Every rank is taken: ranks tell elements apart, and there are as many.
LEMMA KthIs ==
  ASSUME NEW S, S \subseteq Nat, IsFiniteSet(S), NEW k \in 1..Cardinality(S)
  PROVE  Kth(S, k) \in S /\ Rank(S, Kth(S, k)) = k
<1> DEFINE n == Cardinality(S)
           r == [i \in S |-> Rank(S, i)]
<1>1. n \in Nat /\ IsFiniteSet(1..n) /\ Cardinality(1..n) = n
  <2>1. n \in Nat
    BY FS_CardinalityType
  <2> HIDE DEF n
  <2>. QED  BY <2>1, FS_Interval
<1>2. r \in [S -> 1..n]
  BY RankRises
<1>3. r \in Injection(S, 1..n)
  BY <1>2, RankTells DEF Injection, IsInjective
<1>4. r \in Surjection(S, 1..n)
  <2> HIDE DEF r, n
  <2>. QED  BY <1>1, <1>3, FS_Injection DEF n
<1>5. \E i \in S : r[i] = k
  BY <1>4 DEF Surjection
<1>. QED  BY <1>5 DEF Kth, Rank

LEMMA ShiftedSet ==
  ASSUME NEW S, S \subseteq Nat, IsFiniteSet(S), NEW o \in Nat
  PROVE  /\ IsFiniteSet({o + i : i \in S})
         /\ Cardinality({o + i : i \in S}) = Cardinality(S)
<1> DEFINE T == {o + i : i \in S}
           f == [i \in S |-> o + i]
<1>1. f \in Injection(S, T)
  <2>1. f \in [S -> T]
    OBVIOUS
  <2>2. \A i, j \in S : f[i] = f[j] => i = j
    <3>1. \A i \in S : f[i] = o + i /\ i \in Nat
      OBVIOUS
    <3>. QED  BY <3>1
  <2>3. DOMAIN f = S
    OBVIOUS
  <2> HIDE DEF f, T
  <2>. QED  BY <2>1, <2>2, <2>3 DEF Injection, IsInjective
<1>2. f \in Surjection(S, T)
  BY DEF Surjection
<1>3. ExistsBijection(S, T)
  BY <1>1, <1>2 DEF Bijection, ExistsBijection
<1> HIDE DEF T, f
<1>4. IsFiniteSet(T) /\ Cardinality(T) = Cardinality(S)
  BY <1>3, FS_Bijection
<1>. QED  BY <1>4 DEF T

-----------------------------------------------------------------------------
(* A stream w cut behind a line end o, or not at all: head and tail.        *)

Cut(w, o, h, t) ==
  /\ w \in Seq(Bytes) /\ o \in {0} \cup Ends(w)
  /\ h = SubSeq(w, 1, o) /\ t = SubSeq(w, o + 1, Len(w))

LEMMA CutAt ==
  ASSUME NEW w, NEW o, NEW h, NEW t, Cut(w, o, h, t)
  PROVE  Len(w) \in Nat /\ o \in 0..Len(w) /\ w \in Seq(Bytes)
  BY EndsWithin DEF Cut

LEMMA CutHead ==
  ASSUME NEW w, NEW o, NEW h, NEW t, Cut(w, o, h, t)
  PROVE  h \in Seq(Bytes) /\ Len(h) = o /\ \A i \in 1..o : h[i] = w[i]
<1>1. Len(w) \in Nat /\ o \in 0..Len(w) /\ w \in Seq(Bytes)
  BY CutAt
<1>2. 1 \in 1..Len(w) + 1 /\ h = SubSeq(w, 1, o)
  BY <1>1 DEF Cut
<1>3. /\ h \in Seq(Bytes) /\ Len(h) = (IF 1 <= o THEN o - 1 + 1 ELSE 0)
      /\ \A i \in 1..o - 1 + 1 : h[i] = w[1 + i - 1]
  BY <1>1, <1>2, PartOf
<1>. QED  BY <1>1, <1>3

LEMMA CutRest ==
  ASSUME NEW w, NEW o, NEW h, NEW t, Cut(w, o, h, t)
  PROVE  t \in Seq(Bytes) /\ Len(t) = Len(w) - o /\ \A i \in 1..Len(w) - o : t[i] = w[o + i]
<1>1. Len(w) \in Nat /\ o \in 0..Len(w) /\ w \in Seq(Bytes)
  BY CutAt
<1>2. o + 1 \in 1..Len(w) + 1 /\ Len(w) \in 0..Len(w) /\ t = SubSeq(w, o + 1, Len(w))
  BY <1>1 DEF Cut
<1>3. /\ t \in Seq(Bytes)
      /\ Len(t) = (IF o + 1 <= Len(w) THEN Len(w) - (o + 1) + 1 ELSE 0)
      /\ \A i \in 1..Len(w) - (o + 1) + 1 : t[i] = w[(o + 1) + i - 1]
  BY <1>1, <1>2, PartOf
<1>. QED  BY <1>1, <1>3

LEMMA CutBytes ==
  ASSUME NEW w, NEW o, NEW h, NEW t, Cut(w, o, h, t)
  PROVE  /\ Len(w) \in Nat /\ o \in 0..Len(w) /\ w \in Seq(Bytes)
         /\ h \in Seq(Bytes) /\ Len(h) = o /\ \A i \in 1..o : h[i] = w[i]
         /\ t \in Seq(Bytes) /\ Len(t) = Len(w) - o /\ \A i \in 1..Len(w) - o : t[i] = w[o + i]
<1>1. Len(w) \in Nat /\ o \in 0..Len(w) /\ w \in Seq(Bytes)
  BY CutAt
<1>2. h \in Seq(Bytes) /\ Len(h) = o /\ \A i \in 1..o : h[i] = w[i]
  BY CutHead
<1>3. t \in Seq(Bytes) /\ Len(t) = Len(w) - o /\ \A i \in 1..Len(w) - o : t[i] = w[o + i]
  BY CutRest
<1>. QED  BY <1>1, <1>2, <1>3

LEMMA CutEnds ==
  ASSUME NEW w, NEW o, NEW h, NEW t, Cut(w, o, h, t)
  PROVE  /\ Ends(h) = {e \in Ends(w) : e <= o}
         /\ \A i \in Nat : i \in Ends(t) <=> i >= 1 /\ o + i \in Ends(w)
  BY CutBytes DEF Ends

LEMMA CutLastEnds ==
  ASSUME NEW w, NEW o, NEW h, NEW t, Cut(w, o, h, t)
  PROVE  /\ \A i \in 1..o : LastEnd(h, i) = LastEnd(w, i)
         /\ \A i \in 1..Len(t) + 1 : LastEnd(w, o + i) = o + LastEnd(t, i)
<1>1. /\ Len(w) \in Nat /\ o \in 0..Len(w) /\ w \in Seq(Bytes) /\ o \in {0} \cup Ends(w)
      /\ h \in Seq(Bytes) /\ Len(h) = o /\ t \in Seq(Bytes) /\ Len(t) = Len(w) - o
  BY CutBytes DEF Cut
<1>2. /\ Ends(h) = {e \in Ends(w) : e <= o}
      /\ \A i \in Nat : i \in Ends(t) <=> i >= 1 /\ o + i \in Ends(w)
      /\ Ends(w) \subseteq 1..Len(w) /\ Ends(t) \subseteq 1..Len(t)
  BY <1>1, CutEnds, EndsWithin
<1>3. ASSUME NEW i \in 1..o
      PROVE  LastEnd(h, i) = LastEnd(w, i)
  <2>1. i \in Nat
    BY <1>1
  <2>2. {0} \cup {e \in Ends(h) : e < i} = {0} \cup {e \in Ends(w) : e < i}
    BY <1>1, <1>2, <2>1
  <2>. QED  BY <2>2 DEF LastEnd
<1>4. ASSUME NEW i \in 1..Len(t) + 1
      PROVE  LastEnd(w, o + i) = o + LastEnd(t, i)
  <2>1. i \in Nat /\ o + i \in Nat /\ i >= 1
    BY <1>1
  <2>2. PICK l : l = LastEnd(t, i)
    OBVIOUS
  <2>3. l \in {0} \cup {e \in Ends(t) : e < i} /\ \A d \in Ends(t) : d < i => d <= l
    BY <1>1, <2>1, <2>2, LastEndIs
  <2>4. l \in Nat /\ l < i
    BY <1>1, <1>2, <2>1, <2>3
  <2>5. o + l \in {0} \cup {e \in Ends(w) : e < o + i}
    <3>1. o + l < o + i
      BY <1>1, <2>1, <2>4
    <3>2. CASE l = 0
      BY <1>1, <3>1, <3>2
    <3>3. CASE l \in Ends(t)
      BY <1>2, <2>4, <3>1, <3>3
    <3>. QED  BY <2>3, <3>2, <3>3
  <2>6. ASSUME NEW d \in Ends(w), d < o + i
        PROVE  d <= o + l
    <3>1. d \in 1..Len(w) /\ d \in Nat
      BY <1>1, <1>2
    <3>2. CASE d <= o
      BY <1>1, <2>4, <3>1, <3>2
    <3>3. CASE d > o
      <4>1. d - o \in Nat /\ d - o >= 1 /\ o + (d - o) = d /\ d - o < i
        BY <1>1, <2>1, <2>6, <3>1, <3>3
      <4>2. d - o \in Ends(t)
        BY <1>2, <4>1
      <4>3. d - o <= l
        BY <2>3, <4>1, <4>2
      <4>. QED  BY <1>1, <2>4, <3>1, <4>1, <4>3
    <3>. QED  BY <1>1, <3>1, <3>2, <3>3
  <2>. QED  BY <1>1, <2>1, <2>2, <2>5, <2>6, LastEndUnique
<1>. QED  BY <1>3, <1>4

LEMMA CutBefore ==
  ASSUME NEW w, NEW o, NEW h, NEW t, Cut(w, o, h, t)
  PROVE  /\ \A i \in 1..o : Before(h, i) = Before(w, i)
         /\ \A i \in 1..Len(t) : Before(t, i) = Before(w, o + i)
<1>1. /\ Len(w) \in Nat /\ o \in 0..Len(w) /\ w \in Seq(Bytes)
      /\ h \in Seq(Bytes) /\ Len(h) = o /\ \A i \in 1..o : h[i] = w[i]
      /\ t \in Seq(Bytes) /\ Len(t) = Len(w) - o /\ \A i \in 1..Len(w) - o : t[i] = w[o + i]
  BY CutBytes
<1>2. ASSUME NEW i \in 1..o
      PROVE  Before(h, i) = Before(w, i)
  <2>1. PICK l : l = LastEnd(w, i)
    OBVIOUS
  <2>2. l = LastEnd(h, i) /\ i \in Nat
    BY <1>1, <2>1, CutLastEnds
  <2>3. l \in 0..o
    BY <1>1, <2>2, LastEndIs
  <2>4. /\ l + 1 \in 1..Len(h) + 1 /\ i - 1 \in 0..Len(h)
        /\ l + 1 \in 1..Len(w) + 1 /\ i - 1 \in 0..Len(w)
    BY <1>1, <2>3
  <2>5. PICK a, b : a = SubSeq(h, l + 1, i - 1) /\ b = SubSeq(w, l + 1, i - 1)
    OBVIOUS
  <2>6. /\ a \in Seq(Bytes) /\ Len(a) = (IF l + 1 <= i - 1 THEN (i - 1) - (l + 1) + 1 ELSE 0)
        /\ \A k \in 1..(i - 1) - (l + 1) + 1 : a[k] = h[(l + 1) + k - 1]
    BY <1>1, <2>4, <2>5, PartOf
  <2>7. /\ b \in Seq(Bytes) /\ Len(b) = (IF l + 1 <= i - 1 THEN (i - 1) - (l + 1) + 1 ELSE 0)
        /\ \A k \in 1..(i - 1) - (l + 1) + 1 : b[k] = w[(l + 1) + k - 1]
    BY <1>1, <2>4, <2>5, PartOf
  <2>8. \A k \in 1..Len(a) : a[k] = b[k]
    <3>1. ASSUME NEW k \in 1..Len(a)
          PROVE  a[k] = b[k]
      <4>1. k \in 1..(i - 1) - (l + 1) + 1 /\ (l + 1) + k - 1 \in 1..o
        BY <1>1, <2>3, <2>6, <3>1
      <4>. QED  BY <1>1, <2>6, <2>7, <4>1
    <3>. QED  BY <3>1
  <2>9. a = b
    BY <2>6, <2>7, <2>8, SeqEqual
  <2>. QED  BY <2>1, <2>2, <2>5, <2>9 DEF Before
<1>3. ASSUME NEW i \in 1..Len(t)
      PROVE  Before(t, i) = Before(w, o + i)
  <2>1. PICK l : l = LastEnd(t, i)
    OBVIOUS
  <2>2. LastEnd(w, o + i) = o + l /\ i \in Nat
    BY <1>1, <2>1, CutLastEnds
  <2>3. l \in 0..Len(t)
    BY <1>1, <2>1, <2>2, LastEndIs
  <2>4. /\ l + 1 \in 1..Len(t) + 1 /\ i - 1 \in 0..Len(t)
        /\ (o + l) + 1 \in 1..Len(w) + 1 /\ (o + i) - 1 \in 0..Len(w)
    BY <1>1, <2>3
  <2>5. PICK a, b : a = SubSeq(t, l + 1, i - 1) /\ b = SubSeq(w, (o + l) + 1, (o + i) - 1)
    OBVIOUS
  <2>6. /\ a \in Seq(Bytes) /\ Len(a) = (IF l + 1 <= i - 1 THEN (i - 1) - (l + 1) + 1 ELSE 0)
        /\ \A k \in 1..(i - 1) - (l + 1) + 1 : a[k] = t[(l + 1) + k - 1]
    BY <1>1, <2>4, <2>5, PartOf
  <2>7. /\ b \in Seq(Bytes)
        /\ Len(b) = (IF (o + l) + 1 <= (o + i) - 1 THEN ((o + i) - 1) - ((o + l) + 1) + 1 ELSE 0)
        /\ \A k \in 1..((o + i) - 1) - ((o + l) + 1) + 1 : b[k] = w[((o + l) + 1) + k - 1]
    BY <1>1, <2>4, <2>5, PartOf
  <2>8. /\ Len(a) = (IF l < i - 1 THEN i - 1 - l ELSE 0) /\ Len(b) = Len(a)
        /\ \A k \in 1..i - 1 - l : a[k] = t[l + k] /\ b[k] = w[o + (l + k)]
    BY <1>1, <2>2, <2>3, <2>6, <2>7
  <2>9. \A k \in 1..Len(a) : a[k] = b[k]
    <3>1. ASSUME NEW k \in 1..Len(a)
          PROVE  a[k] = b[k]
      <4>1. k \in 1..i - 1 - l /\ l + k \in 1..Len(w) - o
        BY <1>1, <2>3, <2>8, <3>1
      <4>. QED  BY <1>1, <2>8, <4>1
    <3>. QED  BY <3>1
  <2>10. a = b
    BY <2>6, <2>7, <2>8, <2>9, SeqEqual
  <2>. QED  BY <2>1, <2>2, <2>5, <2>10 DEF Before
<1>. QED  BY <1>2, <1>3

LEMMA CutFilled ==
  ASSUME NEW w, NEW o, NEW h, NEW t, Cut(w, o, h, t)
  PROVE  /\ Filled(w) = Filled(h) \cup {o + i : i \in Filled(t)}
         /\ Filled(h) \subseteq 1..o /\ Filled(t) \subseteq 1..Len(t)
<1>1. /\ Len(w) \in Nat /\ o \in 0..Len(w) /\ w \in Seq(Bytes)
      /\ h \in Seq(Bytes) /\ Len(h) = o /\ t \in Seq(Bytes) /\ Len(t) = Len(w) - o
  BY CutBytes
<1>2. /\ Ends(h) = {e \in Ends(w) : e <= o}
      /\ \A i \in Nat : i \in Ends(t) <=> i >= 1 /\ o + i \in Ends(w)
  BY CutEnds
<1>3. /\ Ends(w) \subseteq 1..Len(w) /\ Ends(h) \subseteq 1..o /\ Ends(t) \subseteq 1..Len(t)
  BY <1>1, EndsWithin
<1>4. /\ \A i \in 1..o : Before(h, i) = Before(w, i)
      /\ \A i \in 1..Len(t) : Before(t, i) = Before(w, o + i)
  BY CutBefore
<1>5. Filled(h) \subseteq 1..o /\ Filled(t) \subseteq 1..Len(t)
  BY <1>3 DEF Filled
<1>6. ASSUME NEW e \in Filled(w)
      PROVE  e \in Filled(h) \cup {o + i : i \in Filled(t)}
  <2>1. e \in Ends(w) /\ Before(w, e) # <<>> /\ e \in Nat /\ e >= 1
    BY <1>3, <1>6 DEF Filled
  <2>2. CASE e <= o
    <3>1. e \in Ends(h) /\ e \in 1..o
      BY <1>1, <1>2, <2>1, <2>2
    <3>. QED  BY <1>4, <2>1, <3>1 DEF Filled
  <2>3. CASE e > o
    <3>1. e - o \in Nat /\ e - o >= 1 /\ o + (e - o) = e
      BY <1>1, <2>1, <2>3
    <3>2. e - o \in Ends(t)
      BY <1>2, <2>1, <3>1
    <3>3. Before(t, e - o) = Before(w, e)
      BY <1>3, <1>4, <3>1, <3>2
    <3>4. e - o \in Filled(t)
      BY <2>1, <3>2, <3>3 DEF Filled
    <3>. QED  BY <3>1, <3>4
  <2>. QED  BY <1>1, <2>1, <2>2, <2>3
<1>7. Filled(h) \subseteq Filled(w)
  BY <1>2, <1>4, <1>5 DEF Filled
<1>8. ASSUME NEW i \in Filled(t)
      PROVE  o + i \in Filled(w)
  <2>1. i \in Ends(t) /\ Before(t, i) # <<>> /\ i \in 1..Len(t) /\ i \in Nat
    BY <1>1, <1>5, <1>8 DEF Filled
  <2>2. o + i \in Ends(w)
    BY <1>2, <2>1
  <2>. QED  BY <1>4, <2>1, <2>2 DEF Filled
<1>. QED  BY <1>5, <1>6, <1>7, <1>8

LEMMA LinesAre ==
  ASSUME NEW s \in Seq(Bytes)
  PROVE  /\ LinesOf(s) \in Seq(Seq(Bytes))
         /\ Len(LinesOf(s)) = Cardinality(Filled(s)) /\ Len(LinesOf(s)) \in Nat
         /\ \A k \in 1..Len(LinesOf(s)) : LinesOf(s)[k] = Before(s, Kth(Filled(s), k))
<1>1. Filled(s) \subseteq Nat /\ IsFiniteSet(Filled(s)) /\ Filled(s) \subseteq 1..Len(s)
  BY EndsWithin
<1>2. PICK n : n = Cardinality(Filled(s))
  OBVIOUS
<1>3. n \in Nat
  BY <1>1, <1>2, FS_CardinalityType
<1>4. \A k \in 1..n : Before(s, Kth(Filled(s), k)) \in Seq(Bytes)
  BY <1>1, <1>2, KthIs, BeforeIsBytes
<1>5. PICK f : f = [k \in 1..n |-> Before(s, Kth(Filled(s), k))]
  OBVIOUS
<1>6. f \in [1..n -> Seq(Bytes)] /\ LinesOf(s) = f
  BY <1>2, <1>4, <1>5 DEF LinesOf
<1>7. f \in Seq(Seq(Bytes)) /\ Len(f) = n
  BY <1>3, <1>6
<1>8. \A k \in 1..n : f[k] = Before(s, Kth(Filled(s), k))
  BY <1>5
<1>. QED  BY <1>2, <1>3, <1>6, <1>7, <1>8

\* The lines of a stream are those of its head and then those of its tail.
LEMMA CutLines ==
  ASSUME NEW w, NEW o, NEW h, NEW t, Cut(w, o, h, t)
  PROVE  LinesOf(w) = LinesOf(h) \o LinesOf(t)
<1>1. /\ Len(w) \in Nat /\ o \in 0..Len(w) /\ o \in Nat /\ w \in Seq(Bytes)
      /\ h \in Seq(Bytes) /\ Len(h) = o /\ t \in Seq(Bytes) /\ Len(t) = Len(w) - o
  BY CutBytes
<1>2. PICK F, A, B, C :
        F = Filled(w) /\ A = Filled(h) /\ B = Filled(t) /\ C = {o + i : i \in B}
  OBVIOUS
<1>3. F = A \cup C /\ A \subseteq 1..o /\ B \subseteq 1..Len(t)
  BY <1>2, CutFilled
<1>4. /\ IsFiniteSet(F) /\ IsFiniteSet(A) /\ IsFiniteSet(B)
      /\ F \subseteq Nat /\ A \subseteq Nat /\ B \subseteq Nat
  BY <1>1, <1>2, EndsWithin
<1>5. IsFiniteSet(C) /\ Cardinality(C) = Cardinality(B)
  BY <1>1, <1>2, <1>4, ShiftedSet
<1>6. \A j \in C : j > o /\ j \in Nat
  BY <1>1, <1>2, <1>3
<1>7. A \cap C = {}
  BY <1>1, <1>3, <1>6
<1>8. PICK a, b : a = Cardinality(A) /\ b = Cardinality(B)
  OBVIOUS
<1>9. a \in Nat /\ b \in Nat /\ Cardinality(F) = a + b
  <2>1. a \in Nat /\ b \in Nat
    BY <1>4, <1>8, FS_CardinalityType
  <2>2. Cardinality(A \cap C) = 0
    BY <1>7, FS_EmptySet
  <2>3. Cardinality(F) = Cardinality(A) + Cardinality(C) - Cardinality(A \cap C)
    BY <1>3, <1>4, <1>5, FS_Union
  <2>. QED  BY <1>5, <1>8, <2>1, <2>2, <2>3
<1>10. ASSUME NEW k \in 1..a
       PROVE  Kth(F, k) = Kth(A, k) /\ Kth(A, k) \in 1..o
  <2>1. PICK i : i = Kth(A, k)
    OBVIOUS
  <2>2. i \in A /\ Rank(A, i) = k
    BY <1>4, <1>8, <2>1, KthIs
  <2>3. i \in Nat /\ i \in 1..o
    BY <1>3, <1>4, <2>2
  <2>4. {j \in F : j <= i} = {j \in A : j <= i}
    BY <1>1, <1>3, <1>4, <1>6, <2>3
  <2>5. Rank(F, i) = k
    BY <2>2, <2>4 DEF Rank
  <2>6. Kth(F, k) = i
    BY <1>3, <1>4, <2>2, <2>5, KthUnique
  <2>. QED  BY <2>1, <2>3, <2>6
<1>11. ASSUME NEW k \in 1..b
       PROVE  Kth(F, a + k) = o + Kth(B, k) /\ Kth(B, k) \in 1..Len(t)
  <2>1. PICK i : i = Kth(B, k)
    OBVIOUS
  <2>2. i \in B /\ Rank(B, i) = k
    BY <1>4, <1>8, <2>1, KthIs
  <2>3. i \in Nat /\ i \in 1..Len(t)
    BY <1>3, <1>4, <2>2
  <2>4. PICK D, E : D = {j \in B : j <= i} /\ E = {o + j : j \in D}
    OBVIOUS
  <2>5. {j \in F : j <= o + i} = A \cup E
    <3>1. \A j \in A : j \in Nat /\ j <= o + i
      BY <1>1, <1>3, <1>4, <2>3
    <3>2. \A j \in B : j \in Nat /\ (o + j <= o + i <=> j <= i)
      BY <1>1, <1>4, <2>3
    <3>3. {j \in C : j <= o + i} = E
      BY <1>2, <2>4, <3>2
    <3>. QED  BY <1>3, <3>1, <3>3
  <2>6. D \subseteq Nat /\ IsFiniteSet(D)
    BY <1>4, <2>4, FS_Subset
  <2>7. IsFiniteSet(E) /\ Cardinality(E) = Cardinality(D)
    BY <1>1, <2>4, <2>6, ShiftedSet
  <2>8. E \subseteq C
    BY <1>2, <2>4
  <2>9. Cardinality(A \cap E) = 0
    <3>1. A \cap E = {}
      BY <1>7, <2>8
    <3>. QED  BY <3>1, FS_EmptySet
  <2>10. Cardinality(D) = k
    BY <2>2, <2>4 DEF Rank
  <2>11. Cardinality(A \cup E) = Cardinality(A) + Cardinality(E) - Cardinality(A \cap E)
    BY <1>4, <2>7, FS_Union
  <2>12. k \in Nat
    BY <1>9
  <2>13. Rank(F, o + i) = a + k
    BY <1>8, <1>9, <2>5, <2>7, <2>9, <2>10, <2>11, <2>12 DEF Rank
  <2>14. o + i \in F
    BY <1>2, <1>3, <2>2
  <2>15. Kth(F, a + k) = o + i
    BY <1>4, <2>13, <2>14, KthUnique
  <2>. QED  BY <2>1, <2>3, <2>15
<1>12. PICK lw, lh, lt : lw = LinesOf(w) /\ lh = LinesOf(h) /\ lt = LinesOf(t)
  OBVIOUS
<1>13. /\ lw \in Seq(Seq(Bytes)) /\ Len(lw) = a + b
       /\ \A k \in 1..a + b : lw[k] = Before(w, Kth(F, k))
  BY <1>1, <1>2, <1>9, <1>12, LinesAre
<1>14. /\ lh \in Seq(Seq(Bytes)) /\ Len(lh) = a
       /\ \A k \in 1..a : lh[k] = Before(h, Kth(A, k))
  BY <1>1, <1>2, <1>8, <1>12, LinesAre
<1>15. /\ lt \in Seq(Seq(Bytes)) /\ Len(lt) = b
       /\ \A k \in 1..b : lt[k] = Before(t, Kth(B, k))
  BY <1>1, <1>2, <1>8, <1>12, LinesAre
<1>16. \A k \in 1..a : lw[k] = lh[k]
  BY <1>9, <1>10, <1>13, <1>14, CutBefore
<1>17. \A k \in 1..b : lw[a + k] = lt[k]
  <2>1. ASSUME NEW k \in 1..b PROVE lw[a + k] = lt[k]
    <3>1. a + k \in 1..a + b
      BY <1>9
    <3>. QED  BY <1>11, <1>13, <1>15, <3>1, CutBefore
  <2>. QED  BY <2>1
<1>18. PICK c : c = lh \o lt
  OBVIOUS
<1>19. /\ c \in Seq(Seq(Bytes)) /\ Len(c) = a + b
       /\ \A k \in 1..a + b : c[k] = IF k <= a THEN lh[k] ELSE lt[k - a]
  BY <1>14, <1>15, <1>18, ConcatProperties
<1>20. \A k \in 1..a + b : lw[k] = c[k]
  <2>1. ASSUME NEW k \in 1..a + b PROVE lw[k] = c[k]
    <3>1. CASE k <= a
      <4>1. k \in 1..a
        BY <1>9, <3>1
      <4>. QED  BY <1>16, <1>19, <3>1, <4>1
    <3>2. CASE ~ (k <= a)
      <4>1. k - a \in 1..b /\ a + (k - a) = k
        BY <1>9, <3>2
      <4>. QED  BY <1>17, <1>19, <3>2, <4>1
    <3>. QED  BY <3>1, <3>2
  <2>. QED  BY <2>1
<1>21. lw = c
  BY <1>13, <1>19, <1>20, SeqEqual
<1>. QED  BY <1>12, <1>18, <1>21

\* Without a line end there are no lines.
LEMMA NoLines ==
  ASSUME NEW s \in Seq(Bytes), Ends(s) = {}
  PROVE  LinesOf(s) = <<>>
<1>1. Filled(s) = {}
  BY DEF Filled
<1>2. Cardinality(Filled(s)) = 0
  BY <1>1, FS_EmptySet
<1>3. LinesOf(s) \in Seq(Seq(Bytes)) /\ Len(LinesOf(s)) = 0
  BY <1>2, LinesAre
<1>. QED  BY <1>3, EmptySeq

\* What is unfinished is what is behind the last line end.
LEMMA UnfinishedIs ==
  ASSUME NEW s \in Seq(Bytes)
  PROVE  \E o \in 0..Len(s), h \in Seq(Bytes) :
           /\ o = LastEnd(s, Len(s) + 1) /\ Cut(s, o, h, Unfinished(s))
           /\ Unfinished(s) \in Seq(Bytes) /\ Ends(Unfinished(s)) = {}
           /\ LinesOf(s) = LinesOf(h)
<1>1. Len(s) \in Nat /\ Len(s) + 1 \in Nat
  BY LenProperties
<1>2. PICK o : o = LastEnd(s, Len(s) + 1)
  OBVIOUS
<1>3. /\ o \in {0} \cup {e \in Ends(s) : e < Len(s) + 1} /\ o \in 0..Len(s)
      /\ \A d \in Ends(s) : d < Len(s) + 1 => d <= o
  BY <1>1, <1>2, LastEndIs
<1>4. PICK h : h = SubSeq(s, 1, o)
  OBVIOUS
<1>5. PICK t : t = Unfinished(s)
  OBVIOUS
<1>6. Cut(s, o, h, t)
  BY <1>2, <1>3, <1>4, <1>5 DEF Cut, Unfinished
<1>7. h \in Seq(Bytes) /\ t \in Seq(Bytes)
  BY <1>6, CutBytes
<1>8. Ends(t) = {}
  <2>1. SUFFICES ASSUME NEW i \in Ends(t) PROVE FALSE
    OBVIOUS
  <2>2. Ends(t) \subseteq 1..Len(t) /\ Len(t) \in Nat
    BY <1>7, EndsWithin
  <2>3. i \in Nat /\ i >= 1
    BY <2>2
  <2>4. o + i \in Ends(s) /\ Ends(s) \subseteq 1..Len(s)
    BY <1>6, <2>3, CutEnds, EndsWithin
  <2>. QED  BY <1>1, <1>3, <2>3, <2>4
<1>9. LinesOf(t) = <<>>
  BY <1>7, <1>8, NoLines
<1>10. LinesOf(s) = LinesOf(h) \o LinesOf(t)
  BY <1>6, CutLines
<1>11. LinesOf(h) \in Seq(Seq(Bytes))
  BY <1>7, LinesAre
<1>12. LinesOf(s) = LinesOf(h)
  BY <1>9, <1>10, <1>11, ConcatEmptySeq
<1>. QED  BY <1>2, <1>3, <1>5, <1>6, <1>7, <1>8, <1>12

LEMMA CutUnfinished ==
  ASSUME NEW w, NEW o, NEW h, NEW t, Cut(w, o, h, t)
  PROVE  Unfinished(w) = Unfinished(t)
<1>1. /\ Len(w) \in Nat /\ o \in 0..Len(w) /\ o \in Nat /\ w \in Seq(Bytes)
      /\ t \in Seq(Bytes) /\ Len(t) = Len(w) - o /\ \A i \in 1..Len(w) - o : t[i] = w[o + i]
  BY CutBytes
<1>2. PICK n, m : n = Len(t) /\ m = Len(w)
  OBVIOUS
<1>3. n \in Nat /\ m \in Nat /\ m = o + n
  BY <1>1, <1>2
<1>4. PICK l : l = LastEnd(t, n + 1)
  OBVIOUS
<1>5. l \in 0..n
  <2>1. n + 1 \in Nat
    BY <1>3
  <2>. QED  BY <1>1, <1>2, <1>4, <2>1, LastEndIs
<1>6. LastEnd(w, m + 1) = o + l
  <2>1. n + 1 \in 1..Len(t) + 1 /\ o + (n + 1) = m + 1
    BY <1>1, <1>2, <1>3
  <2>2. LastEnd(w, o + (n + 1)) = o + LastEnd(t, n + 1)
    BY <2>1, CutLastEnds
  <2>. QED  BY <1>4, <2>1, <2>2
<1>7. PICK a, b : a = SubSeq(t, l + 1, n) /\ b = SubSeq(w, (o + l) + 1, m)
  OBVIOUS
<1>8. /\ l + 1 \in 1..Len(t) + 1 /\ n \in 0..Len(t)
      /\ (o + l) + 1 \in 1..Len(w) + 1 /\ m \in 0..Len(w)
  BY <1>1, <1>2, <1>3, <1>5
<1>9. /\ a \in Seq(Bytes) /\ Len(a) = (IF l + 1 <= n THEN n - (l + 1) + 1 ELSE 0)
      /\ \A k \in 1..n - (l + 1) + 1 : a[k] = t[(l + 1) + k - 1]
  BY <1>1, <1>7, <1>8, PartOf
<1>10. /\ b \in Seq(Bytes) /\ Len(b) = (IF (o + l) + 1 <= m THEN m - ((o + l) + 1) + 1 ELSE 0)
       /\ \A k \in 1..m - ((o + l) + 1) + 1 : b[k] = w[((o + l) + 1) + k - 1]
  BY <1>1, <1>7, <1>8, PartOf
<1>11. /\ Len(a) = n - l /\ Len(b) = n - l
       /\ \A k \in 1..n - l : a[k] = t[l + k] /\ b[k] = w[o + (l + k)]
  BY <1>1, <1>3, <1>5, <1>9, <1>10
<1>12. \A k \in 1..Len(a) : a[k] = b[k]
  <2>1. ASSUME NEW k \in 1..Len(a) PROVE a[k] = b[k]
    <3>1. k \in 1..n - l /\ l + k \in 1..Len(w) - o
      BY <1>1, <1>2, <1>3, <1>5, <1>11
    <3>. QED  BY <1>1, <1>11, <3>1
  <2>. QED  BY <2>1
<1>13. a = b
  BY <1>9, <1>10, <1>11, <1>12, SeqEqual
<1>. QED  BY <1>2, <1>4, <1>6, <1>7, <1>13 DEF Unfinished

\* More of a stream: its lines are those so far and those of what was left and came.
LEMMA Continued ==
  ASSUME NEW p \in Seq(Bytes), NEW c \in Seq(Bytes)
  PROVE  /\ LinesOf(p \o c) = LinesOf(p) \o LinesOf(Unfinished(p) \o c)
         /\ Unfinished(p \o c) = Unfinished(Unfinished(p) \o c)
<1>1. PICK o \in 0..Len(p), h \in Seq(Bytes) :
        /\ o = LastEnd(p, Len(p) + 1) /\ Cut(p, o, h, Unfinished(p))
        /\ Unfinished(p) \in Seq(Bytes) /\ Ends(Unfinished(p)) = {}
        /\ LinesOf(p) = LinesOf(h)
  BY UnfinishedIs
<1>2. PICK r, w, b : r = Unfinished(p) /\ w = p \o c /\ b = r \o c
  OBVIOUS
<1>3. PICK n, m : n = Len(p) /\ m = Len(c)
  OBVIOUS
<1>4. n \in Nat /\ m \in Nat /\ o \in Nat /\ o <= n
  BY <1>1, <1>3, LenProperties
<1>5. /\ w \in Seq(Bytes) /\ Len(w) = n + m
      /\ \A i \in 1..n + m : w[i] = IF i <= n THEN p[i] ELSE c[i - n]
  BY <1>2, <1>3, ConcatProperties
<1>6. /\ r \in Seq(Bytes) /\ Len(r) = n - o /\ \A i \in 1..n - o : r[i] = p[o + i]
      /\ h \in Seq(Bytes) /\ Len(h) = o /\ \A i \in 1..o : h[i] = p[i]
      /\ o \in {0} \cup Ends(p)
  <2>1. Cut(p, o, h, r) /\ Len(p) = n
    BY <1>1, <1>2, <1>3
  <2>2. h \in Seq(Bytes) /\ Len(h) = o /\ \A i \in 1..o : h[i] = p[i]
    BY <2>1, CutHead
  <2>3. r \in Seq(Bytes) /\ Len(r) = Len(p) - o /\ \A i \in 1..Len(p) - o : r[i] = p[o + i]
    BY <2>1, CutRest
  <2>. QED  BY <2>1, <2>2, <2>3 DEF Cut
<1>7. /\ b \in Seq(Bytes) /\ Len(b) = (n - o) + m
      /\ \A i \in 1..(n - o) + m : b[i] = IF i <= n - o THEN r[i] ELSE c[i - (n - o)]
  <2>1. /\ b \in Seq(Bytes) /\ Len(b) = Len(r) + Len(c)
        /\ \A i \in 1..Len(r) + Len(c) : b[i] = IF i <= Len(r) THEN r[i] ELSE c[i - Len(r)]
    BY <1>2, <1>6, ConcatProperties
  <2>. QED  BY <1>3, <1>6, <2>1
<1>8. o \in {0} \cup Ends(w)
  <2>1. ASSUME o \in Ends(p) PROVE o \in Ends(w)
    <3>1. o \in 1..n /\ p[o] = "nl"
      BY <1>3, <2>1 DEF Ends
    <3>2. o \in 1..n + m /\ w[o] = "nl"
      BY <1>4, <1>5, <3>1
    <3>. QED  BY <1>5, <3>2 DEF Ends
  <2>. QED  BY <1>6, <2>1
<1>9. h = SubSeq(w, 1, o)
  <2>1. PICK g : g = SubSeq(w, 1, o)
    OBVIOUS
  <2>2. 1 \in 1..Len(w) + 1 /\ o \in 0..Len(w)
    BY <1>4, <1>5
  <2>3. /\ g \in Seq(Bytes) /\ Len(g) = (IF 1 <= o THEN o - 1 + 1 ELSE 0)
        /\ \A i \in 1..o - 1 + 1 : g[i] = w[1 + i - 1]
    BY <1>5, <2>1, <2>2, PartOf
  <2>4. Len(g) = o /\ \A i \in 1..o : g[i] = h[i]
    <3>1. ASSUME NEW i \in 1..o PROVE g[i] = h[i]
      <4>1. i \in 1..n + m /\ i <= n /\ 1 + i - 1 = i /\ i \in 1..o - 1 + 1
        BY <1>4
      <4>. QED  BY <1>5, <1>6, <2>3, <4>1
    <3>2. Len(g) = o
      BY <1>4, <2>3
    <3>. QED  BY <3>1, <3>2
  <2>5. g = h
    BY <1>6, <2>3, <2>4, SeqEqual
  <2>. QED  BY <2>1, <2>5
<1>10. b = SubSeq(w, o + 1, Len(w))
  <2>1. PICK g : g = SubSeq(w, o + 1, Len(w))
    OBVIOUS
  <2>2. o + 1 \in 1..Len(w) + 1 /\ Len(w) \in 0..Len(w)
    BY <1>4, <1>5
  <2>3. /\ g \in Seq(Bytes)
        /\ Len(g) = (IF o + 1 <= Len(w) THEN Len(w) - (o + 1) + 1 ELSE 0)
        /\ \A i \in 1..Len(w) - (o + 1) + 1 : g[i] = w[(o + 1) + i - 1]
    BY <1>5, <2>1, <2>2, PartOf
  <2>4. Len(g) = (n - o) + m /\ \A i \in 1..(n - o) + m : g[i] = w[o + i]
    BY <1>4, <1>5, <2>3
  <2>5. \A i \in 1..(n - o) + m : g[i] = b[i]
    <3>1. ASSUME NEW i \in 1..(n - o) + m PROVE g[i] = b[i]
      <4>1. i \in Nat /\ o + i \in 1..n + m
        BY <1>4
      <4>2. CASE i <= n - o
        <5>1. o + i <= n /\ i \in 1..n - o
          BY <1>4, <4>1, <4>2
        <5>. QED  BY <1>5, <1>6, <1>7, <2>4, <4>1, <4>2, <5>1
      <4>3. CASE ~ (i <= n - o)
        <5>1. ~ (o + i <= n) /\ (o + i) - n = i - (n - o)
          BY <1>4, <4>1, <4>3
        <5>. QED  BY <1>5, <1>7, <2>4, <4>1, <4>3, <5>1
      <4>. QED  BY <4>2, <4>3
    <3>. QED  BY <3>1
  <2>6. g = b
    BY <1>7, <2>3, <2>4, <2>5, SeqEqual
  <2>. QED  BY <2>1, <2>6
<1>11. Cut(w, o, h, b)
  BY <1>5, <1>8, <1>9, <1>10 DEF Cut
<1>12. LinesOf(w) = LinesOf(h) \o LinesOf(b) /\ Unfinished(w) = Unfinished(b)
  BY <1>11, CutLines, CutUnfinished
<1>. QED  BY <1>1, <1>2, <1>12

-----------------------------------------------------------------------------
(* The socket client.                                                      *)

\* What was handed on begins the lines of the stream, and until something could not
\* be read it is the lines of what was read.
SocketInv ==
  /\ {sock, peer, sockConnected, raised} \subseteq BOOLEAN
  /\ listener \in {"none", "recv", "ended"} /\ read \in 0..Len(Stream)
  /\ rest \in Seq(Bytes) /\ Ends(rest) = {} /\ lines \in Seq(Seq(Bytes))
  /\ \E more \in Seq(Seq(Bytes)) : LinesOf(Stream) = lines \o more
  /\ raised => listener = "ended"
  /\ ~raised => /\ lines = LinesOf(SubSeq(Stream, 1, read))
                /\ rest = Unfinished(SubSeq(Stream, 1, read))
  /\ EndsForAReason

LEMMA StreamIs == Stream \in Seq(Bytes) /\ Len(Stream) \in Nat /\ Chunk \in Nat
<1>1. Stream \in Seq(Bytes) /\ Chunk \in Nat
  BY SocketAssumption DEF Bytes
<1>. QED  BY <1>1, LenProperties

\* The lines handed on are the first of those that are complete, and all of them if
\* they are objects.
LEMMA HandsOn ==
  ASSUME NEW whole \in Seq(Seq(Bytes))
  PROVE  /\ HandedOn(whole) \in Seq(Seq(Bytes))
         /\ \E more \in Seq(Seq(Bytes)) : whole = HandedOn(whole) \o more
         /\ (\A k \in 1..Len(HandedOn(whole)) : IsObject(HandedOn(whole)[k]))
              => HandedOn(whole) = whole
<1>1. Len(whole) \in Nat
  BY LenProperties
<1>2. CASE \A k \in 1..Len(whole) : IsObject(whole[k])
  <2>1. HandedOn(whole) = whole
    BY <1>2 DEF HandedOn
  <2>2. <<>> \in Seq(Seq(Bytes)) /\ whole = whole \o <<>>
    BY EmptySeq, ConcatEmptySeq
  <2>. QED  BY <2>1, <2>2
<1>3. CASE ~ (\A k \in 1..Len(whole) : IsObject(whole[k]))
  <2> DEFINE Odd == {k \in 1..Len(whole) : ~IsObject(whole[k])}
             n == Len(whole)
  <2>1. \E k \in 1..Len(whole) : ~IsObject(whole[k]) /\ \A j \in 1..k - 1 : IsObject(whole[j])
    <3>1. Odd # {} /\ Odd \subseteq 1..n
      BY <1>3
    <3>2. \A x \in {n - k : k \in Odd} : x \in 0..n
      BY <1>1
    <3>3. {n - k : k \in Odd} \subseteq 0..n /\ {n - k : k \in Odd} # {}
      BY <3>1, <3>2
    <3>4. \E x \in {n - k : k \in Odd} : \A y \in {n - k : k \in Odd} : y <= x
      <4> DEFINE T == {n - k : k \in Odd}
      <4>1. T \subseteq 0..n /\ T # {} /\ n \in Nat
        BY <1>1, <3>3
      <4>2. \E x \in T : \A y \in T : y <= x
        <5> HIDE DEF T, n
        <5>. QED  BY <4>1, Greatest
      <4>. QED  BY <4>2
    <3>5. PICK k \in Odd : \A j \in Odd : n - j <= n - k
      BY <3>4
    <3>6. \A j \in 1..k - 1 : IsObject(whole[j])
      <4>1. SUFFICES ASSUME NEW j \in 1..k - 1, ~IsObject(whole[j]) PROVE FALSE
        OBVIOUS
      <4>2. j \in Odd /\ j \in Nat /\ k \in Nat /\ j < k
        BY <1>1, <4>1
      <4>. QED  BY <1>1, <3>5, <4>2
    <3>. QED  BY <3>5, <3>6
  <2>2. PICK k : k = CHOOSE i \in 1..Len(whole) :
                       ~IsObject(whole[i]) /\ \A j \in 1..i - 1 : IsObject(whole[j])
    OBVIOUS
  <2>3. k \in 1..Len(whole) /\ ~IsObject(whole[k])
    BY <2>1, <2>2
  <2>4. PICK g, r : g = SubSeq(whole, 1, k) /\ r = SubSeq(whole, k + 1, Len(whole))
    OBVIOUS
  <2>5. HandedOn(whole) = g
    BY <1>3, <2>2, <2>4 DEF HandedOn
  <2>6. \A i \in 1..Len(whole) : whole[i] \in Seq(Bytes)
    BY ElementOfSeq
  <2>7. g \in Seq(Seq(Bytes)) /\ Len(g) = k /\ g[k] = whole[k]
    <3>1. 1 \in Int /\ k \in Int /\ k >= 1 /\ \A i \in 1..k : whole[i] \in Seq(Bytes)
      BY <1>1, <2>3, <2>6
    <3>2. /\ g \in Seq(Seq(Bytes)) /\ Len(g) = (IF 1 <= k THEN k - 1 + 1 ELSE 0)
          /\ \A i \in 1..k - 1 + 1 : g[i] = whole[1 + i - 1]
      BY <2>4, <3>1, SubSeqProperties
    <3>. QED  BY <3>1, <3>2
  <2>8. r \in Seq(Seq(Bytes))
    <3>1. k + 1 \in Int /\ Len(whole) \in Int /\ \A i \in k + 1..Len(whole) : whole[i] \in Seq(Bytes)
      BY <1>1, <2>3, <2>6
    <3>. QED  BY <2>4, <3>1, SubSeqProperties
  <2>9. whole = g \o r
    <3>1. /\ 1 \in 1..Len(whole) + 1 /\ k \in 1 - 1..Len(whole) /\ Len(whole) \in k..Len(whole)
      BY <1>1, <2>3
    <3>2. g \o r = SubSeq(whole, 1, Len(whole))
      BY <2>4, <3>1, ConcatAdjacentSubSeq
    <3>. QED  BY <3>2, SubSeqFull
  <2>10. ~ (\A i \in 1..Len(g) : IsObject(g[i]))
    <3>1. k \in 1..Len(g)
      BY <2>3, <2>7
    <3>. QED  BY <2>3, <2>7, <3>1
  <2>. QED  BY <2>5, <2>7, <2>8, <2>9, <2>10
<1>. QED  BY <1>2, <1>3

LEMMA InitSocket == SocketInit => SocketInv
<1> SUFFICES ASSUME SocketInit PROVE SocketInv
  OBVIOUS
<1>1. SubSeq(Stream, 1, 0) = <<>> /\ <<>> \in Seq(Bytes) /\ Len(<<>>) = 0
  BY SubSeqEmpty, EmptySeq
<1>2. Ends(<<>>) = {}
  BY <1>1 DEF Ends
<1>3. LinesOf(<<>>) = <<>>
  BY <1>1, <1>2, NoLines
<1>4. Unfinished(<<>>) = <<>>
  <2>1. LastEnd(<<>>, 1) \in 0..0
    BY <1>1, LastEndIs
  <2>. QED  BY <1>1, <2>1, SubSeqEmpty DEF Unfinished
<1>5. LinesOf(Stream) \in Seq(Seq(Bytes)) /\ LinesOf(Stream) = <<>> \o LinesOf(Stream)
  BY StreamIs, LinesAre, ConcatEmptySeq
<1>6. {sock, peer, sockConnected, raised} \subseteq BOOLEAN
  BY Zenon DEF SocketInit
<1>7. read \in 0..Len(Stream) /\ <<>> \in Seq(Seq(Bytes))
  BY StreamIs, EmptySeq DEF SocketInit
<1>. QED  BY <1>1, <1>2, <1>3, <1>4, <1>5, <1>6, <1>7
          DEF SocketInit, SocketInv, EndsForAReason

LEMMA LinesJoin ==
  ASSUME NEW u \in Seq(Seq(Bytes)), NEW v \in Seq(Seq(Bytes)), NEW x \in Seq(Seq(Bytes))
  PROVE  u \o (v \o x) = (u \o v) \o x
<1>1. PICK S : S = Seq(Bytes)
  OBVIOUS
<1>2. u \in Seq(S) /\ v \in Seq(S) /\ x \in Seq(S)
  BY <1>1
<1>3. (u \o v) \o x = u \o (v \o x)
  BY <1>2, ConcatAssociative
<1>. QED  BY <1>3

\* One chunk, of the stream and behind what was left of the last line.
LEMMA ReceivedStep ==
  ASSUME SocketInv, NEW n \in 1..Chunk, Received(n)
  PROVE  SocketInv'
<1>1. Stream \in Seq(Bytes) /\ Len(Stream) \in Nat /\ Chunk \in Nat
  BY StreamIs
<1>2. /\ listener = "recv" /\ sock /\ n <= Len(Stream) - read /\ read' = read + n
      /\ UNCHANGED <<sock, peer>>
  BY DEF Received
<1>3. /\ read \in 0..Len(Stream) /\ rest \in Seq(Bytes) /\ Ends(rest) = {}
      /\ lines \in Seq(Seq(Bytes)) /\ raised = FALSE
      /\ lines = LinesOf(SubSeq(Stream, 1, read)) /\ rest = Unfinished(SubSeq(Stream, 1, read))
      /\ {sock, peer, sockConnected, raised} \subseteq BOOLEAN
  <2>1. ~raised /\ {sock, peer, sockConnected, raised} \subseteq BOOLEAN
    BY <1>2 DEF SocketInv
  <2>2. raised = FALSE
    BY <2>1, Zenon
  <2>. QED  BY <2>1, <2>2 DEF SocketInv
<1>4. PICK p, c, w : /\ p = SubSeq(Stream, 1, read) /\ c = SubSeq(Stream, read + 1, read + n)
                    /\ w = SubSeq(Stream, 1, read + n)
  OBVIOUS
<1>5. PICK z : z = SubSeq(Stream, (read + n) + 1, Len(Stream))
  OBVIOUS
<1>6. read \in Nat /\ n \in Nat /\ n >= 1 /\ read + n <= Len(Stream)
  BY <1>1, <1>2, <1>3
<1>7. p \in Seq(Bytes) /\ c \in Seq(Bytes) /\ w \in Seq(Bytes) /\ z \in Seq(Bytes)
  <2>1. /\ 1 \in 1..Len(Stream) + 1 /\ read \in 0..Len(Stream)
        /\ read + 1 \in 1..Len(Stream) + 1 /\ read + n \in 0..Len(Stream)
        /\ (read + n) + 1 \in 1..Len(Stream) + 1 /\ Len(Stream) \in 0..Len(Stream)
    BY <1>1, <1>6
  <2>. QED  BY <1>1, <1>4, <1>5, <2>1, PartOf
<1>8. w = p \o c /\ Stream = w \o z
  <2>1. /\ 1 \in 1..Len(Stream) + 1 /\ read \in 1 - 1..Len(Stream) /\ read + n \in read..Len(Stream)
        /\ read + n \in 1 - 1..Len(Stream) /\ Len(Stream) \in read + n..Len(Stream)
    BY <1>1, <1>6
  <2>2. p \o c = w
    BY <1>1, <1>4, <2>1, ConcatAdjacentSubSeq
  <2>3. w \o z = SubSeq(Stream, 1, Len(Stream))
    BY <1>1, <1>4, <1>5, <2>1, ConcatAdjacentSubSeq
  <2>. QED  BY <1>1, <2>2, <2>3, SubSeqFull
<1>9. PICK b, whole, handed :
        b = rest \o c /\ whole = LinesOf(b) /\ handed = HandedOn(whole)
  OBVIOUS
<1>10. LinesOf(w) = lines \o whole /\ Unfinished(w) = Unfinished(b) /\ b \in Seq(Bytes)
  <2>1. lines = LinesOf(p) /\ rest = Unfinished(p)
    BY <1>3, <1>4
  <2>2. /\ LinesOf(p \o c) = LinesOf(p) \o LinesOf(Unfinished(p) \o c)
        /\ Unfinished(p \o c) = Unfinished(Unfinished(p) \o c)
    BY <1>7, Continued
  <2>3. b \in Seq(Bytes)
    BY <1>3, <1>7, <1>9, ConcatProperties
  <2>. QED  BY <1>8, <1>9, <2>1, <2>2, <2>3
<1>11. whole \in Seq(Seq(Bytes))
  BY <1>9, <1>10, LinesAre
<1>12. /\ handed \in Seq(Seq(Bytes))
       /\ \E more \in Seq(Seq(Bytes)) : whole = handed \o more
       /\ (\A k \in 1..Len(handed) : IsObject(handed[k])) => handed = whole
  BY <1>9, <1>11, HandsOn
<1>13. PICK undecoded : undecoded = (c[1] = "h2" \/ c[n] = "h1")
  OBVIOUS
<1>14. /\ raised' = (undecoded \/ ~(\A k \in 1..Len(handed) : IsObject(handed[k])))
       /\ listener' = (IF raised' THEN "ended" ELSE "recv") /\ sockConnected' = ~raised'
       /\ IF undecoded THEN UNCHANGED <<rest, lines>>
                       ELSE lines' = lines \o handed /\ rest' = Unfinished(b)
  BY <1>4, <1>9, <1>13 DEF Received
<1>15. raised' \in BOOLEAN /\ sockConnected' \in BOOLEAN
  BY <1>14, Zenon
<1>16. \/ UNCHANGED <<rest, lines>> /\ raised'
       \/ lines' = lines \o handed /\ rest' = Unfinished(b) /\ (raised' \/ handed = whole)
  <2>1. CASE undecoded
    BY <1>14, <2>1, Zenon
  <2>2. CASE ~undecoded
    <3>1. ~raised' => \A k \in 1..Len(handed) : IsObject(handed[k])
      BY <1>14, Zenon
    <3>. QED  BY <1>12, <1>14, <2>2, <3>1
  <2>. QED  BY <2>1, <2>2
<1>17. rest' \in Seq(Bytes) /\ Ends(rest') = {}
  <2>1. Unfinished(b) \in Seq(Bytes) /\ Ends(Unfinished(b)) = {}
    BY <1>10, UnfinishedIs
  <2>. QED  BY <1>3, <1>16, <2>1
<1>18. /\ lines' \in Seq(Seq(Bytes))
       /\ \E more \in Seq(Seq(Bytes)) : LinesOf(Stream) = lines' \o more
  <2>1. CASE lines' = lines
    BY <1>3, <2>1 DEF SocketInv
  <2>2. CASE lines' = lines \o handed
    <3>1. PICK x : x = LinesOf(Unfinished(w) \o z)
      OBVIOUS
    <3>2. Unfinished(w) \in Seq(Bytes)
      BY <1>7, UnfinishedIs
    <3>3. Unfinished(w) \o z \in Seq(Bytes)
      BY <1>7, <3>2, ConcatProperties
    <3>4. x \in Seq(Seq(Bytes))
      BY <3>1, <3>3, LinesAre
    <3>5. LinesOf(Stream) = LinesOf(w) \o x
      BY <1>7, <1>8, <3>1, Continued
    <3>6. PICK y \in Seq(Seq(Bytes)) : whole = handed \o y
      BY <1>12
    <3>7. /\ lines \o handed \in Seq(Seq(Bytes)) /\ y \o x \in Seq(Seq(Bytes))
      BY <1>3, <1>12, <3>4, <3>6, ConcatProperties
    <3>8. lines \o (handed \o y) = (lines \o handed) \o y
      BY <1>3, <1>12, <3>6, LinesJoin
    <3>9. ((lines \o handed) \o y) \o x = (lines \o handed) \o (y \o x)
      BY <3>4, <3>6, <3>7, LinesJoin
    <3>10. LinesOf(Stream) = (lines \o handed) \o (y \o x)
      BY <1>10, <3>5, <3>6, <3>8, <3>9
    <3>. QED  BY <2>2, <3>7, <3>10
  <2>. QED  BY <1>16, <2>1, <2>2
<1>19. ~raised' => lines' = LinesOf(SubSeq(Stream, 1, read')) /\ rest' = Unfinished(SubSeq(Stream, 1, read'))
  BY <1>2, <1>4, <1>10, <1>16
<1>20. read' \in 0..Len(Stream)
  BY <1>1, <1>2, <1>6
<1>21. /\ listener' \in {"none", "recv", "ended"} /\ (raised' => listener' = "ended")
       /\ (listener' = "ended" => raised' /\ ~sockConnected')
  BY <1>14, <1>15, Zenon
<1>22. {sock', peer', sockConnected', raised'} \subseteq BOOLEAN
  BY <1>2, <1>3, <1>15
<1>. QED  BY <1>17, <1>18, <1>19, <1>20, <1>21, <1>22 DEF SocketInv, EndsForAReason

LEMMA StepSocket == SocketInv /\ [SocketNext]_socketVars => SocketInv'
<1> SUFFICES ASSUME SocketInv, [SocketNext]_socketVars PROVE SocketInv'
  OBVIOUS
<1>1. ASSUME NEW n \in 1..Chunk, Received(n) PROVE SocketInv'
  BY <1>1, ReceivedStep
<1>2. CASE SocketConnect
  <2>1. UNCHANGED <<peer, read, rest, lines, raised>> /\ listener = "none"
    BY <1>2 DEF SocketConnect
  <2>2. sock' = TRUE /\ sockConnected' = peer /\ listener' \in {"recv", "none"}
    BY <1>2 DEF SocketConnect
  <2>3. {sock', peer', sockConnected', raised'} \subseteq BOOLEAN
    BY <2>1, <2>2 DEF SocketInv
  <2>. QED  BY <2>1, <2>2, <2>3 DEF SocketInv, EndsForAReason
<1>3. CASE EndOfStream
  <2>1. /\ UNCHANGED <<sock, peer, read, rest, lines, raised>> /\ (~sock \/ ~peer)
        /\ listener' = "ended" /\ sockConnected' = FALSE
    BY <1>3 DEF EndOfStream
  <2>. QED  BY <2>1 DEF SocketInv, EndsForAReason
<1>4. CASE PeerCloses
  <2>1. UNCHANGED <<sock, sockConnected, listener, read, rest, lines, raised>> /\ peer' = FALSE
    BY <1>4 DEF PeerCloses
  <2>. QED  BY <2>1 DEF SocketInv, EndsForAReason
<1>5. CASE SocketDisconnect
  <2>1. /\ UNCHANGED <<peer, listener, read, rest, lines, raised>>
        /\ sock' = FALSE /\ sockConnected' = FALSE
    BY <1>5 DEF SocketDisconnect
  <2>. QED  BY <2>1 DEF SocketInv, EndsForAReason
<1>6. CASE UNCHANGED socketVars
  BY <1>6 DEF socketVars, SocketInv, EndsForAReason
<1>. QED  BY <1>1, <1>2, <1>3, <1>4, <1>5, <1>6 DEF SocketNext, Listens

\* What was handed on is whole lines of the stream, in order.
LEMMA SocketFrames ==
  ASSUME SocketInv
  PROVE  SocketTypeOK /\ Framed /\ EndsForAReason
<1>1. PICK more \in Seq(Seq(Bytes)) : LinesOf(Stream) = lines \o more
  BY DEF SocketInv
<1>2. lines \in Seq(Seq(Bytes)) /\ Len(lines) \in Nat
  BY LenProperties DEF SocketInv
<1>3. lines = SubSeq(LinesOf(Stream), 1, Len(lines))
  <2>1. CASE lines = <<>>
    BY <2>1, EmptySeq, SubSeqEmpty
  <2>2. CASE lines # <<>>
    <3>1. Len(lines) \in Nat \ {0}
      BY <1>2, <2>2, EmptySeq
    <3>2. 1 \in 1..Len(lines) /\ Len(lines) \in 1..Len(lines)
      BY <3>1
    <3>3. SubSeq(lines \o more, 1, Len(lines)) = SubSeq(lines, 1, Len(lines))
      BY <1>1, <1>2, <3>2, SubSeqOfConcat1
    <3>. QED  BY <1>1, <1>2, <3>3, SubSeqFull
  <2>. QED  BY <2>1, <2>2
<1>. QED  BY <1>3 DEF SocketInv, SocketTypeOK, Framed

-----------------------------------------------------------------------------
(* The dashboard: what lies where.                                         *)

Store == [price : Nat, pockets : SUBSET PocketIds, strategies : SUBSET StrategyIds,
          nested : SUBSET StrategyIds, loose : SUBSET StrategyIds,
          orders : SUBSET OrderIds, logs : Seq(Nat)]
View == [price : Nat, logs : Seq(Nat), had : Nat, strategies : SUBSET StrategyIds, on : BOOLEAN]

IsPrice(e, n) == e.kind = "price" /\ e.n = n
IsMessage(e, n) == e.kind = "message" /\ e.n = n
IsPocket(e, p) == e.kind = "pocket" /\ e.id = p
IsRemove(e, s) == e.kind = "remove" /\ e.id = s

MessageIn(seq, n) == \E i \in 1..Len(seq) : IsMessage(seq[i], n)
OnItsWay(n) == MessageIn(told, n) \/ IsMessage(current, n)
Leaving(s) == (\E i \in 1..Len(told) : IsRemove(told[i], s)) \/ IsRemove(current, s)

DashTypes ==
  /\ events \in Seq(Event) /\ told \in Seq(Event) /\ current \in Event \cup {Nothing}
  /\ store \in Store /\ Len(store.logs) <= MaxLogs /\ view \in [Viewers -> View]
  /\ recent \in BOOLEAN
  /\ prices \in 0..MaxPrices /\ messages \in Nat
  /\ store.price <= prices
  /\ \A i \in 1..Len(events) : events[i].kind = "price" => events[i].n <= prices

\* A pocket is announced before its strategies, so none of them is filed loosely.
Filing ==
  /\ \A s \in known \cap StrategyIds : PocketOf[s] \in known \cup {NoPocket}
  /\ \A p \in known \cap PocketIds :
       p \in store.pockets \/ \E i \in 1..Len(events) : IsPocket(events[i], p)
  /\ \A i \in 1..Len(events) : events[i].kind = "strategy" =>
       \/ PocketOf[events[i].id] \in store.pockets \cup {NoPocket}
       \/ \E j \in 1..i - 1 : IsPocket(events[j], PocketOf[events[i].id])
  /\ \A s \in store.loose : PocketOf[s] = NoPocket
  /\ \A s \in store.nested : PocketOf[s] \in store.pockets
  /\ store.nested \cup store.loose \subseteq store.strategies

\* The messages kept are the last of those that were stored, in order, and those after
\* them are queued, in order; so are those on their way to the viewers.
Numbered ==
  /\ \A i, j \in 1..Len(store.logs) : i < j => store.logs[i] < store.logs[j]
  /\ \A i \in 1..Len(store.logs) : store.logs[i] <= messages
  /\ \A i \in 1..Len(store.logs), j \in 1..Len(events) :
       events[j].kind = "message" => store.logs[i] < events[j].n
  /\ \A i \in 1..Len(store.logs), n \in 1..messages : n > store.logs[i] =>
       (\E j \in 1..Len(store.logs) : store.logs[j] = n) \/ MessageIn(events, n)
  /\ \A i \in 1..Len(events) : events[i].kind = "message" =>
       /\ events[i].n <= messages
       /\ \A n \in 1..messages : n > events[i].n =>
            \E j \in 1..Len(events) : i < j /\ IsMessage(events[j], n)
  /\ \A i, j \in 1..Len(events) :
       i < j /\ events[i].kind = "message" /\ events[j].kind = "message" => events[i].n < events[j].n
  /\ current.kind = "message" =>
       \A n \in 1..messages : n > current.n => MessageIn(events, n)
  /\ \A i \in 1..Len(told) : told[i].kind = "message" =>
       \A n \in 1..messages : n > told[i].n =>
         \/ \E j \in 1..Len(told) : i < j /\ IsMessage(told[j], n)
         \/ IsMessage(current, n) \/ MessageIn(events, n)

\* What a viewer does not have of the messages kept is on its way, what comes after one
\* it has is there, on its way or queued, and what it has too much is about to leave.
Viewed ==
  \A v \in Viewers : view[v].on =>
    /\ \A i \in 1..Len(store.logs) :
         (\E j \in 1..Len(view[v].logs) : view[v].logs[j] = store.logs[i]) \/ OnItsWay(store.logs[i])
    /\ \A i \in 1..Len(view[v].logs), n \in 1..messages : n > view[v].logs[i] =>
         \/ \E j \in 1..Len(view[v].logs) : view[v].logs[j] = n
         \/ OnItsWay(n) \/ MessageIn(events, n)
    /\ \A s \in view[v].strategies : s \in store.strategies \/ Leaving(s)

\* The stored price is being told, was dropped, is the last that will be broadcast, or
\* is what every viewer shows.
Priced ==
  \/ IsPrice(current, store.price)
  \/ /\ current.kind # "price"
     /\ \/ dropped = store.price
        \/ \E i \in 1..Len(told) :
             /\ IsPrice(told[i], store.price)
             /\ \A j \in 1..Len(told) : i < j => told[j].kind # "price"
        \/ /\ \A j \in 1..Len(told) : told[j].kind # "price"
           /\ \A v \in Viewers : view[v].on => view[v].price = store.price

\* Messages pass the queue, the dashboard's thread and the event loop in their order.
Sequenced ==
  /\ \A i \in 1..Len(told) : told[i].kind = "message" =>
       /\ told[i].n <= messages
       /\ \A j \in 1..Len(told) : i < j /\ told[j].kind = "message" => told[i].n < told[j].n
       /\ current.kind = "message" => told[i].n < current.n
       /\ \A j \in 1..Len(events) : events[j].kind = "message" => told[i].n < events[j].n
  /\ current.kind = "message" =>
       /\ current.n <= messages
       /\ \A j \in 1..Len(events) : events[j].kind = "message" => current.n < events[j].n

\* Whoever has message m and all before it will get the others; and none again.
Reaches(m) ==
  m <= messages /\ \A n \in 1..messages : n > m => OnItsWay(n) \/ MessageIn(events, n)
Later(m) ==
  /\ \A i \in 1..Len(told) : told[i].kind = "message" => m < told[i].n
  /\ current.kind = "message" => m < current.n
  /\ \A i \in 1..Len(events) : events[i].kind = "message" => m < events[i].n

\* What a viewer has is in order and ends where what comes goes on; once a message was
\* told it gets none twice.
Follows(w) ==
  /\ w.had <= Len(w.logs) /\ InOrder(w)
  /\ Len(w.logs) > 0 =>
       /\ Reaches(w.logs[Len(w.logs)])
       /\ w.had < Len(w.logs) => Later(w.logs[Len(w.logs)])

Following == \A v \in Viewers : view[v].on => Follows(view[v])

DashInv == DashTypes /\ Filing /\ Numbered /\ Viewed /\ Priced /\ Sequenced /\ Following

-----------------------------------------------------------------------------
LEMMA Ids ==
  /\ PocketOf \in [StrategyIds -> PocketIds \cup {NoPocket}] /\ NoPocket \notin PocketIds
  /\ PocketIds \cap StrategyIds = {} /\ PocketIds \cap OrderIds = {}
  /\ StrategyIds \cap OrderIds = {}
  /\ MaxLogs \in Nat /\ MaxPrices \in Nat /\ MaxMessages \in Nat
  BY DashboardAssumption

\* What an event carries, by its kind.
LEMMA Carries ==
  ASSUME NEW e \in Event
  PROVE  /\ e.kind \in {"price", "message", "pocket", "strategy", "remove", "open", "done"}
         /\ e.kind \in {"price", "message"} => e.n \in Nat
         /\ e.kind = "pocket" => e.id \in PocketIds
         /\ e.kind \in {"strategy", "remove"} => e.id \in StrategyIds
         /\ e.kind \in {"open", "done"} => e.id \in OrderIds
  BY DEF Event

LEMMA Events ==
  /\ \A n \in Nat : [kind |-> "price", n |-> n] \in Event /\ [kind |-> "message", n |-> n] \in Event
  /\ \A p \in PocketIds : [kind |-> "pocket", id |-> p] \in Event
  /\ \A s \in StrategyIds : [kind |-> "strategy", id |-> s] \in Event /\ [kind |-> "remove", id |-> s] \in Event
  /\ \A o \in OrderIds : [kind |-> "open", id |-> o] \in Event /\ [kind |-> "done", id |-> o] \in Event
  BY DEF Event

LEMMA NothingIs == Nothing.kind = "none" /\ Nothing \notin Event
  BY DEF Nothing, Event

\* What becomes of a queue.
LEMMA Longer ==
  ASSUME NEW q \in Seq(Event), NEW e \in Event
  PROVE  /\ Append(q, e) \in Seq(Event) /\ Len(q) \in Nat /\ Len(Append(q, e)) = Len(q) + 1
         /\ \A i \in 1..Len(q) : Append(q, e)[i] = q[i]
         /\ Append(q, e)[Len(q) + 1] = e
<1>1. Len(q) \in Nat
  BY LenProperties
<1>. QED  BY <1>1, AppendProperties

LEMMA Shorter ==
  ASSUME NEW q \in Seq(Event), q # <<>>
  PROVE  /\ Tail(q) \in Seq(Event) /\ Len(q) \in Nat /\ Len(q) >= 1 /\ Len(Tail(q)) = Len(q) - 1
         /\ Head(q) = q[1] /\ Head(q) \in Event
         /\ \A i \in 1..Len(q) - 1 : Tail(q)[i] = q[i + 1]
<1>1. Len(q) \in Nat \ {0}
  BY EmptySeq
<1>2. Head(q) = q[1]
  BY <1>1
<1>3. Tail(q) \in Seq(Event) /\ Len(Tail(q)) = Len(q) - 1 /\ Head(q) \in Event
      /\ \A i \in 1..Len(Tail(q)) : Tail(q)[i] = q[i + 1]
  BY HeadTailProperties
<1>. QED  BY <1>1, <1>2, <1>3

\* What the store becomes, field by field.
LEMMA StoreFields ==
  ASSUME NEW t \in Store
  PROVE  /\ t.price \in Nat /\ t.pockets \subseteq PocketIds /\ t.strategies \subseteq StrategyIds
         /\ t.nested \subseteq StrategyIds /\ t.loose \subseteq StrategyIds
         /\ t.orders \subseteq OrderIds /\ t.logs \in Seq(Nat)
  BY DEF Store

LEMMA LatestIs ==
  ASSUME NEW l \in Seq(Nat)
  PROVE  /\ Latest(l) \in Seq(Nat) /\ Len(Latest(l)) <= MaxLogs
         /\ \E d \in Nat : /\ Len(l) = Len(Latest(l)) + d
                           /\ \A i \in 1..Len(Latest(l)) : Latest(l)[i] = l[d + i]
<1>1. Len(l) \in Nat /\ MaxLogs \in Nat /\ \A i \in 1..Len(l) : l[i] \in Nat
  BY LenProperties, ElementOfSeq, Ids
<1>2. CASE Len(l) > MaxLogs
  <2>1. PICK a, b : a = Len(l) - MaxLogs + 1 /\ b = Len(l)
    OBVIOUS
  <2>2. a \in Int /\ b \in Int /\ \A i \in a..b : l[i] \in Nat
    BY <1>1, <1>2, <2>1
  <2>3. PICK t : t = SubSeq(l, a, b)
    OBVIOUS
  <2>4. /\ t \in Seq(Nat) /\ Len(t) = (IF a <= b THEN b - a + 1 ELSE 0)
        /\ \A i \in 1..b - a + 1 : t[i] = l[a + i - 1]
    BY <2>2, <2>3, SubSeqProperties
  <2>5. Latest(l) = t
    BY <1>2, <2>1, <2>3 DEF Latest
  <2>6. Len(t) = MaxLogs /\ a = (Len(l) - MaxLogs) + 1 /\ b - a + 1 = MaxLogs
    BY <1>1, <1>2, <2>1, <2>4
  <2>7. Len(l) - MaxLogs \in Nat
    BY <1>1, <1>2
  <2>8. \A i \in 1..Len(t) : t[i] = l[(Len(l) - MaxLogs) + i]
    <3>1. ASSUME NEW i \in 1..Len(t) PROVE t[i] = l[(Len(l) - MaxLogs) + i]
      <4>1. i \in 1..b - a + 1 /\ a + i - 1 = (Len(l) - MaxLogs) + i
        BY <1>1, <2>6
      <4>. QED  BY <2>4, <4>1
    <3>. QED  BY <3>1
  <2>9. PICK d : d = Len(l) - MaxLogs
    OBVIOUS
  <2>10. d \in Nat /\ Len(l) = Len(t) + d
    BY <1>1, <2>6, <2>7, <2>9
  <2>11. \A i \in 1..Len(t) : t[i] = l[d + i]
    BY <2>8, <2>9
  <2>12. Len(t) <= MaxLogs
    BY <1>1, <2>6
  <2>. QED  BY <2>4, <2>5, <2>10, <2>11, <2>12
<1>3. CASE ~ (Len(l) > MaxLogs)
  <2>1. Latest(l) = l
    BY <1>3 DEF Latest
  <2>2. PICK d : d = 0
    OBVIOUS
  <2>3. d \in Nat /\ Len(l) = Len(l) + d
    BY <1>1, <2>2
  <2>4. \A i \in 1..Len(l) : l[i] = l[d + i]
    BY <1>1, <2>2
  <2>5. Len(l) <= MaxLogs
    BY <1>1, <1>3
  <2>. QED  BY <2>1, <2>3, <2>4, <2>5
<1>. QED  BY <1>2, <1>3

LEMMA StoredIs ==
  ASSUME store \in Store, NEW e \in Event, NEW t, t = Stored(e)
  PROVE  /\ t \in Store
         /\ t.price = IF e.kind = "price" THEN e.n ELSE store.price
         /\ t.logs = IF e.kind = "message" THEN Latest(Append(store.logs, e.n)) ELSE store.logs
         /\ t.pockets = IF e.kind = "pocket" THEN store.pockets \cup {e.id} ELSE store.pockets
         /\ t.strategies = IF e.kind = "strategy" THEN store.strategies \cup {e.id}
                           ELSE IF e.kind = "remove" THEN store.strategies \ {e.id}
                           ELSE store.strategies
         /\ t.nested = IF e.kind = "pocket" THEN store.nested \ Filed(e.id)
                       ELSE IF e.kind = "strategy" /\ PocketOf[e.id] \in store.pockets
                         THEN store.nested \cup {e.id}
                       ELSE IF e.kind = "remove" /\ e.id \in store.strategies /\ PocketOf[e.id] \in store.pockets
                         THEN store.nested \ {e.id}
                       ELSE store.nested
         /\ t.loose = IF e.kind = "strategy" /\ PocketOf[e.id] \notin store.pockets
                        THEN store.loose \cup {e.id}
                      ELSE IF e.kind = "remove" /\ e.id \in store.strategies /\ PocketOf[e.id] \notin store.pockets
                        THEN store.loose \ {e.id}
                      ELSE store.loose
<1> DEFINE l == Latest(Append(store.logs, e.n))
<1>1. /\ store.price \in Nat /\ store.pockets \subseteq PocketIds /\ store.strategies \subseteq StrategyIds
      /\ store.nested \subseteq StrategyIds /\ store.loose \subseteq StrategyIds
      /\ store.orders \subseteq OrderIds /\ store.logs \in Seq(Nat)
  BY StoreFields
<1>2. CASE e.kind = "price"
  <2>1. t = [store EXCEPT !.price = e.n] /\ e.n \in Nat
    BY <1>2, Carries DEF Stored
  <2>. QED  BY <1>2, <2>1 DEF Store
<1>3. CASE e.kind = "message"
  <2>1. t = [store EXCEPT !.logs = l] /\ e.n \in Nat
    BY <1>3, Carries DEF Stored
  <2>2. l \in Seq(Nat)
    BY <1>1, <2>1, AppendProperties, LatestIs
  <2> HIDE DEF l
  <2>. QED  BY <1>3, <2>1, <2>2 DEF Store, l
<1>4. CASE e.kind = "pocket"
  <2>1. /\ t = [store EXCEPT !.pockets = store.pockets \cup {e.id}, !.nested = store.nested \ Filed(e.id)]
        /\ e.id \in PocketIds
    BY <1>4, Carries DEF Stored, Store
  <2>2. PICK a, b : a = store.pockets \cup {e.id} /\ b = store.nested \ Filed(e.id)
    OBVIOUS
  <2>3. a \subseteq PocketIds /\ b \subseteq StrategyIds
    BY <1>1, <2>1, <2>2
  <2>4. t = [store EXCEPT !.pockets = a, !.nested = b]
    BY <2>1, <2>2
  <2>5. /\ t \in Store /\ t.pockets = a /\ t.nested = b /\ t.price = store.price
        /\ t.strategies = store.strategies /\ t.loose = store.loose /\ t.logs = store.logs
        /\ t.orders = store.orders
    BY <2>3, <2>4 DEF Store
  <2>. QED  BY <1>4, <2>2, <2>5
<1>5. CASE e.kind = "strategy"
  <2>1. e.id \in StrategyIds
    BY <1>5, Carries
  <2>2. CASE PocketOf[e.id] \in store.pockets
    <3>1. t = [store EXCEPT !.strategies = store.strategies \cup {e.id}, !.nested = store.nested \cup {e.id}]
      BY <1>5, <2>2 DEF Stored, Store
    <3>2. PICK a, b : a = store.strategies \cup {e.id} /\ b = store.nested \cup {e.id}
      OBVIOUS
    <3>3. a \subseteq StrategyIds /\ b \subseteq StrategyIds
      BY <1>1, <2>1, <3>2
    <3>4. t = [store EXCEPT !.strategies = a, !.nested = b]
      BY <3>1, <3>2
    <3>5. /\ t \in Store /\ t.strategies = a /\ t.nested = b /\ t.price = store.price
          /\ t.pockets = store.pockets /\ t.loose = store.loose /\ t.logs = store.logs
          /\ t.orders = store.orders
      BY <3>3, <3>4 DEF Store
    <3>. QED  BY <1>5, <2>2, <3>2, <3>5
  <2>3. CASE PocketOf[e.id] \notin store.pockets
    <3>1. t = [store EXCEPT !.strategies = store.strategies \cup {e.id}, !.loose = store.loose \cup {e.id}]
      BY <1>5, <2>3 DEF Stored, Store
    <3>2. PICK a, b : a = store.strategies \cup {e.id} /\ b = store.loose \cup {e.id}
      OBVIOUS
    <3>3. a \subseteq StrategyIds /\ b \subseteq StrategyIds
      BY <1>1, <2>1, <3>2
    <3>4. t = [store EXCEPT !.strategies = a, !.loose = b]
      BY <3>1, <3>2
    <3>5. /\ t \in Store /\ t.strategies = a /\ t.loose = b /\ t.price = store.price
          /\ t.pockets = store.pockets /\ t.nested = store.nested /\ t.logs = store.logs
          /\ t.orders = store.orders
      BY <3>3, <3>4 DEF Store
    <3>. QED  BY <1>5, <2>3, <3>2, <3>5
  <2>. QED  BY <2>2, <2>3
<1>6. CASE e.kind = "remove"
  <2>1. CASE e.id \notin store.strategies
    <3>1. t = store
      BY <1>6, <2>1 DEF Stored
    <3>. QED  BY <1>6, <2>1, <3>1
  <2>2. CASE e.id \in store.strategies /\ PocketOf[e.id] \in store.pockets
    <3>1. t = [store EXCEPT !.strategies = store.strategies \ {e.id}, !.nested = store.nested \ {e.id}]
      BY <1>6, <2>2 DEF Stored, Store
    <3>. QED  BY <1>1, <1>6, <2>2, <3>1 DEF Store
  <2>3. CASE e.id \in store.strategies /\ PocketOf[e.id] \notin store.pockets
    <3>1. t = [store EXCEPT !.strategies = store.strategies \ {e.id}, !.loose = store.loose \ {e.id}]
      BY <1>6, <2>3 DEF Stored, Store
    <3>. QED  BY <1>1, <1>6, <2>3, <3>1 DEF Store
  <2>. QED  BY <2>1, <2>2, <2>3
<1>7. CASE e.kind = "open"
  <2>1. t = [store EXCEPT !.orders = store.orders \cup {e.id}] /\ e.id \in OrderIds
    BY <1>7, Carries DEF Stored, Store
  <2>2. PICK a : a = store.orders \cup {e.id}
    OBVIOUS
  <2>3. a \subseteq OrderIds
    BY <1>1, <2>1, <2>2
  <2>4. t = [store EXCEPT !.orders = a]
    BY <2>1, <2>2
  <2>. QED  BY <1>7, <2>3, <2>4 DEF Store
<1>8. CASE e.kind = "done"
  <2>1. t = [store EXCEPT !.orders = store.orders \ {e.id}]
    BY <1>8 DEF Stored, Store
  <2>. QED  BY <1>1, <1>8, <2>1 DEF Store
<1>. QED  BY <1>2, <1>3, <1>4, <1>5, <1>6, <1>7, <1>8, Carries

-----------------------------------------------------------------------------
(* An event is put behind the others.                                      *)

\* What putting an event leaves as it is.
LEMMA PutIs ==
  ASSUME DashTypes, NEW e \in Event, Put(e)
  PROVE  /\ UNCHANGED <<current, store, recent, told, view, dropped>>
         /\ events' \in Seq(Event) /\ Len(events) \in Nat /\ Len(events') = Len(events) + 1
         /\ \A i \in 1..Len(events) : events'[i] = events[i]
         /\ events'[Len(events) + 1] = e
<1>1. events \in Seq(Event) /\ events' = Append(events, e)
  BY DEF Put, DashTypes
<1>2. UNCHANGED <<current, store, recent, told, view, dropped>>
  BY DEF Put
<1>. QED  BY <1>1, <1>2, Longer

LEMMA EventAt ==
  ASSUME DashTypes, NEW i \in 1..Len(events)
  PROVE  events[i] \in Event
  BY ElementOfSeq DEF DashTypes

LEMMA ToldAt ==
  ASSUME DashTypes, NEW i \in 1..Len(told)
  PROVE  told[i] \in Event
  BY ElementOfSeq DEF DashTypes

LEMMA LogAt ==
  ASSUME DashTypes
  PROVE  Len(store.logs) \in Nat /\ \A i \in 1..Len(store.logs) : store.logs[i] \in Nat
<1>1. store.logs \in Seq(Nat)
  BY StoreFields DEF DashTypes
<1>. QED  BY <1>1, LenProperties, ElementOfSeq

LEMMA ViewAt ==
  ASSUME DashTypes, NEW v \in Viewers
  PROVE  /\ view[v] \in View /\ view[v].logs \in Seq(Nat) /\ Len(view[v].logs) \in Nat
         /\ \A i \in 1..Len(view[v].logs) : view[v].logs[i] \in Nat
<1>1. view[v] \in View /\ view[v].logs \in Seq(Nat)
  BY DEF DashTypes, View
<1>. QED  BY <1>1, LenProperties, ElementOfSeq

LEMMA PutTypes ==
  ASSUME DashTypes, NEW e \in Event, Put(e), prices' \in 0..MaxPrices, prices' >= prices,
         messages' \in Nat, e.kind = "price" => e.n <= prices'
  PROVE  DashTypes'
<1>1. /\ UNCHANGED <<current, store, recent, told, view, dropped>>
      /\ events' \in Seq(Event) /\ Len(events) \in Nat /\ Len(events') = Len(events) + 1
      /\ \A i \in 1..Len(events) : events'[i] = events[i]
      /\ events'[Len(events) + 1] = e
  BY PutIs
<1>2. prices \in Nat /\ prices' \in Nat /\ store.price \in Nat
  BY Ids, StoreFields DEF DashTypes
<1>3. store'.price <= prices'
  BY <1>1, <1>2 DEF DashTypes
<1>4. ASSUME NEW i \in 1..Len(events'), events'[i].kind = "price"
      PROVE  events'[i].n <= prices'
  <2>1. CASE i = Len(events) + 1
    BY <1>1, <1>4, <2>1
  <2>2. CASE i \in 1..Len(events)
    <3>1. events'[i] = events[i] /\ events[i].n <= prices
      BY <1>1, <1>4, <2>2 DEF DashTypes
    <3>2. events[i].n \in Nat
      BY <1>1, <1>4, <2>2, EventAt, Carries
    <3>. QED  BY <1>2, <3>1, <3>2
  <2>. QED  BY <1>1, <2>1, <2>2
<1>. QED  BY <1>1, <1>3, <1>4 DEF DashTypes

LEMMA PutFiling ==
  ASSUME DashTypes, Filing, NEW e \in Event, Put(e), known \subseteq known',
         \A p \in (known' \ known) \cap PocketIds : IsPocket(e, p),
         \A s \in (known' \ known) \cap StrategyIds : PocketOf[s] \in known \cup {NoPocket},
         e.kind = "strategy" => PocketOf[e.id] \in known \cup {NoPocket}
  PROVE  Filing'
<1>1. /\ UNCHANGED store /\ Len(events) \in Nat /\ Len(events') = Len(events) + 1
      /\ \A i \in 1..Len(events) : events'[i] = events[i]
      /\ events'[Len(events) + 1] = e
  BY PutIs
<1>2. \A s \in known' \cap StrategyIds : PocketOf[s] \in known' \cup {NoPocket}
  BY DEF Filing
<1>3. ASSUME NEW p \in known' \cap PocketIds
      PROVE  p \in store.pockets \/ \E i \in 1..Len(events') : IsPocket(events'[i], p)
  <2>1. CASE p \notin known
    <3>1. Len(events) + 1 \in 1..Len(events')
      BY <1>1
    <3>. QED  BY <1>1, <2>1, <3>1
  <2>2. CASE p \in known
    <3>1. p \in store.pockets \/ \E i \in 1..Len(events) : IsPocket(events[i], p)
      BY <2>2 DEF Filing
    <3>2. \A i \in 1..Len(events) : i \in 1..Len(events') /\ events'[i] = events[i]
      BY <1>1
    <3>. QED  BY <3>1, <3>2
  <2>. QED  BY <2>1, <2>2
<1>4. ASSUME NEW i \in 1..Len(events'), events'[i].kind = "strategy"
      PROVE  \/ PocketOf[events'[i].id] \in store.pockets \cup {NoPocket}
             \/ \E j \in 1..i - 1 : IsPocket(events'[j], PocketOf[events'[i].id])
  <2>1. CASE i \in 1..Len(events)
    <3>1. events'[i] = events[i] /\ \A j \in 1..i - 1 : events'[j] = events[j]
      BY <1>1, <2>1
    <3>. QED  BY <1>4, <2>1, <3>1 DEF Filing
  <2>2. CASE i = Len(events) + 1
    <3>1. events'[i] = e /\ e.kind = "strategy" /\ i - 1 = Len(events)
      BY <1>1, <1>4, <2>2
    <3>2. PICK p : p = PocketOf[e.id]
      OBVIOUS
    <3>3. p \in known \cup {NoPocket} /\ p \in PocketIds \cup {NoPocket}
      BY <3>1, <3>2, Carries, Ids
    <3>4. CASE p = NoPocket
      BY <3>1, <3>2, <3>4
    <3>5. CASE p \in known \cap PocketIds
      <4>1. p \in store.pockets \/ \E j \in 1..Len(events) : IsPocket(events[j], p)
        BY <3>5 DEF Filing
      <4>. QED  BY <1>1, <3>1, <3>2, <4>1
    <3>. QED  BY <3>3, <3>4, <3>5
  <2>. QED  BY <1>1, <2>1, <2>2
<1>. QED  BY <1>1, <1>2, <1>3, <1>4 DEF Filing

LEMMA PutMore ==
  ASSUME DashTypes, NEW e \in Event, Put(e), NEW n, MessageIn(events, n)
  PROVE  MessageIn(events, n)'
<1>1. /\ Len(events) \in Nat /\ Len(events') = Len(events) + 1
      /\ \A i \in 1..Len(events) : events'[i] = events[i]
  BY PutIs
<1>2. PICK i \in 1..Len(events) : IsMessage(events[i], n)
  BY DEF MessageIn
<1>3. i \in 1..Len(events') /\ events'[i] = events[i]
  BY <1>1
<1>. QED  BY <1>2, <1>3 DEF MessageIn

\* The messages that may be missing are those so far; a new one is put.
Told(e) == \/ e.kind # "message" /\ messages' = messages
           \/ IsMessage(e, messages + 1) /\ messages' = messages + 1

LEMMA PutCovers ==
  ASSUME DashTypes, NEW e \in Event, Put(e), Told(e), NEW n \in 1..messages'
  PROVE  n \in 1..messages \/ MessageIn(events, n)'
<1>1. /\ Len(events) \in Nat /\ Len(events') = Len(events) + 1 /\ events'[Len(events) + 1] = e
  BY PutIs
<1>2. messages \in Nat
  BY DEF DashTypes
<1>3. CASE n \notin 1..messages
  <2>1. n = messages + 1 /\ IsMessage(e, messages + 1)
    BY <1>2, <1>3 DEF Told
  <2>2. Len(events) + 1 \in 1..Len(events')
    BY <1>1
  <2>. QED  BY <1>1, <2>1, <2>2 DEF MessageIn
<1>. QED  BY <1>3

LEMMA PutNumbered ==
  ASSUME DashTypes, Numbered, NEW e \in Event, Put(e), Told(e)
  PROVE  Numbered'
<1>1. /\ UNCHANGED <<current, store, told>>
      /\ Len(events) \in Nat /\ Len(events') = Len(events) + 1
      /\ \A i \in 1..Len(events) : events'[i] = events[i]
      /\ events'[Len(events) + 1] = e
  BY PutIs
<1>2. messages \in Nat /\ messages' \in Nat /\ messages <= messages'
  BY DEF DashTypes, Told
<1>3. Len(store.logs) \in Nat /\ \A i \in 1..Len(store.logs) : store.logs[i] \in Nat
  BY LogAt
<1>4. \A n : MessageIn(events, n) => MessageIn(events, n)'
  BY PutMore
<1>5. \A n \in 1..messages' : n \in 1..messages \/ MessageIn(events, n)'
  BY PutCovers
<1>6. e.kind = "message" => e.n = messages + 1 /\ messages' = messages + 1
  BY DEF Told, IsMessage
<1>7. \A i \in 1..Len(events) : events[i].kind = "message" => events[i].n \in Nat /\ events[i].n <= messages
  BY EventAt, Carries DEF Numbered
<1>8. \A i, j \in 1..Len(store'.logs) : i < j => store'.logs[i] < store'.logs[j]
  BY <1>1 DEF Numbered
<1>9. \A i \in 1..Len(store'.logs) : store'.logs[i] <= messages'
  BY <1>1, <1>2, <1>3 DEF Numbered
<1>10. ASSUME NEW i \in 1..Len(store'.logs), NEW j \in 1..Len(events'), events'[j].kind = "message"
       PROVE  store'.logs[i] < events'[j].n
  <2>1. CASE j \in 1..Len(events)
    BY <1>1, <1>10, <2>1 DEF Numbered
  <2>2. CASE j = Len(events) + 1
    <3>1. events'[j].n = messages + 1 /\ store.logs[i] <= messages /\ store.logs[i] \in Nat
      BY <1>1, <1>3, <1>6, <1>10, <2>2 DEF Numbered
    <3>. QED  BY <1>1, <1>2, <3>1
  <2>. QED  BY <1>1, <2>1, <2>2
<1>11. ASSUME NEW i \in 1..Len(store'.logs), NEW n \in 1..messages', n > store'.logs[i]
       PROVE  (\E j \in 1..Len(store'.logs) : store'.logs[j] = n) \/ MessageIn(events, n)'
  BY <1>1, <1>4, <1>5, <1>11 DEF Numbered
<1>12. ASSUME NEW i \in 1..Len(events'), events'[i].kind = "message"
       PROVE  /\ events'[i].n <= messages'
              /\ \A n \in 1..messages' : n > events'[i].n =>
                   \E j \in 1..Len(events') : i < j /\ IsMessage(events'[j], n)
  <2>1. CASE i \in 1..Len(events)
    <3>1. events'[i] = events[i] /\ events[i].n \in Nat /\ events[i].n <= messages
      BY <1>1, <1>7, <1>12, <2>1
    <3>2. ASSUME NEW n \in 1..messages', n > events'[i].n
          PROVE  \E j \in 1..Len(events') : i < j /\ IsMessage(events'[j], n)
      <4>1. CASE n \in 1..messages
        <5>1. PICK j \in 1..Len(events) : i < j /\ IsMessage(events[j], n)
          BY <1>12, <2>1, <3>1, <3>2, <4>1 DEF Numbered
        <5>2. j \in 1..Len(events') /\ events'[j] = events[j]
          BY <1>1
        <5>. QED  BY <5>1, <5>2
      <4>2. CASE n \notin 1..messages
        <5>1. IsMessage(e, n)
          BY <1>2, <4>2 DEF Told, IsMessage
        <5>2. Len(events) + 1 \in 1..Len(events') /\ i < Len(events) + 1
          BY <1>1, <2>1
        <5>. QED  BY <1>1, <5>1, <5>2
      <4>. QED  BY <4>1, <4>2
    <3>. QED  BY <1>2, <3>1, <3>2
  <2>2. CASE i = Len(events) + 1
    <3>1. events'[i].n = messages + 1 /\ messages' = messages + 1
      BY <1>1, <1>6, <1>12, <2>2
    <3>. QED  BY <1>2, <3>1
  <2>. QED  BY <1>1, <2>1, <2>2
<1>13. ASSUME NEW i \in 1..Len(events'), NEW j \in 1..Len(events'), i < j,
              events'[i].kind = "message", events'[j].kind = "message"
       PROVE  events'[i].n < events'[j].n
  <2>1. i \in 1..Len(events) /\ events'[i] = events[i]
    BY <1>1, <1>13
  <2>2. CASE j \in 1..Len(events)
    BY <1>1, <1>13, <2>1, <2>2 DEF Numbered
  <2>3. CASE j = Len(events) + 1
    BY <1>1, <1>2, <1>6, <1>7, <1>13, <2>1, <2>3
  <2>. QED  BY <1>1, <2>2, <2>3
<1>14. ASSUME current'.kind = "message", NEW n \in 1..messages', n > current'.n
       PROVE  MessageIn(events, n)'
  BY <1>1, <1>4, <1>5, <1>14 DEF Numbered
<1>15. ASSUME NEW i \in 1..Len(told'), told'[i].kind = "message",
              NEW n \in 1..messages', n > told'[i].n
       PROVE  \/ \E j \in 1..Len(told') : i < j /\ IsMessage(told'[j], n)
              \/ IsMessage(current', n) \/ MessageIn(events, n)'
  BY <1>1, <1>4, <1>5, <1>15 DEF Numbered
<1>. QED  BY <1>8, <1>9, <1>10, <1>11, <1>12, <1>13, <1>14, <1>15 DEF Numbered

LEMMA PutViewed ==
  ASSUME DashTypes, Viewed, NEW e \in Event, Put(e), Told(e)
  PROVE  Viewed'
<1>1. UNCHANGED <<current, store, told, view>>
  BY PutIs
<1>2. \A n : MessageIn(events, n) => MessageIn(events, n)'
  BY PutMore
<1>3. \A n \in 1..messages' : n \in 1..messages \/ MessageIn(events, n)'
  BY PutCovers
<1>4. \A n : OnItsWay(n)' <=> OnItsWay(n)
  BY <1>1 DEF OnItsWay, MessageIn
<1>5. \A s : Leaving(s)' <=> Leaving(s)
  BY <1>1 DEF Leaving
<1>. QED  BY <1>1, <1>2, <1>3, <1>4, <1>5 DEF Viewed

\* What comes after m still does when an event is put.
LEMMA PutAfter ==
  ASSUME DashTypes, NEW e \in Event, Put(e), Told(e), NEW m \in Nat, m <= messages,
         \A i \in 1..Len(events) : events[i].kind = "message" => m < events[i].n
  PROVE  \A i \in 1..Len(events') : events'[i].kind = "message" => m < events'[i].n
<1>1. /\ Len(events) \in Nat /\ Len(events') = Len(events) + 1
      /\ \A i \in 1..Len(events) : events'[i] = events[i]
      /\ events'[Len(events) + 1] = e
  BY PutIs
<1>2. messages \in Nat /\ (e.kind = "message" => e.n = messages + 1)
  BY DEF DashTypes, Told, IsMessage
<1>3. e.kind = "message" => m < e.n
  BY <1>2
<1>4. \A i \in 1..Len(events') : i \in 1..Len(events) \/ i = Len(events) + 1
  BY <1>1
<1>. QED  BY <1>1, <1>3, <1>4

\* What is on its way to the viewers has a number.
LEMMA Numbers ==
  ASSUME DashTypes, Sequenced
  PROVE  /\ \A i \in 1..Len(told) : told[i].kind = "message" => told[i].n \in Nat /\ told[i].n <= messages
         /\ current.kind = "message" => current.n \in Nat /\ current.n <= messages
<1>1. current.kind = "message" => current \in Event
  BY NothingIs DEF DashTypes
<1>. QED  BY <1>1, ToldAt, Carries DEF Sequenced

LEMMA PutSequenced ==
  ASSUME DashTypes, Sequenced, NEW e \in Event, Put(e), Told(e)
  PROVE  Sequenced'
<1>1. UNCHANGED <<current, told>> /\ messages \in Nat /\ messages' \in Nat /\ messages <= messages'
  BY PutIs DEF DashTypes, Told
<1>2. ASSUME NEW i \in 1..Len(told), told[i].kind = "message"
      PROVE  /\ told[i].n <= messages'
             /\ \A j \in 1..Len(events') : events'[j].kind = "message" => told[i].n < events'[j].n
  <2>1. PICK m : m = told[i].n
    OBVIOUS
  <2>2. m \in Nat /\ m <= messages
    BY <1>2, <2>1, Numbers
  <2>3. \A j \in 1..Len(events) : events[j].kind = "message" => m < events[j].n
    BY <1>2, <2>1 DEF Sequenced
  <2>4. \A j \in 1..Len(events') : events'[j].kind = "message" => m < events'[j].n
    BY <2>2, <2>3, PutAfter
  <2>. QED  BY <1>1, <2>1, <2>2, <2>4
<1>3. ASSUME current.kind = "message"
      PROVE  /\ current.n <= messages'
             /\ \A j \in 1..Len(events') : events'[j].kind = "message" => current.n < events'[j].n
  <2>1. PICK m : m = current.n
    OBVIOUS
  <2>2. m \in Nat /\ m <= messages
    BY <1>3, <2>1, Numbers
  <2>3. \A j \in 1..Len(events) : events[j].kind = "message" => m < events[j].n
    BY <1>3, <2>1 DEF Sequenced
  <2>4. \A j \in 1..Len(events') : events'[j].kind = "message" => m < events'[j].n
    BY <2>2, <2>3, PutAfter
  <2>. QED  BY <1>1, <2>1, <2>2, <2>4
<1>. QED  BY <1>1, <1>2, <1>3 DEF Sequenced

\* A step that leaves the viewers alone, and neither loses a message nor lets one pass.
LEMMA FollowingKept ==
  ASSUME DashTypes, Following, UNCHANGED view,
         \A m \in Nat : Reaches(m) => Reaches(m)',
         \A m \in Nat : m <= messages /\ Later(m) => Later(m)'
  PROVE  Following'
<1>1. ASSUME NEW v \in Viewers, view[v].on PROVE Follows(view[v])'
  <2>1. PICK w : w = view[v]
    OBVIOUS
  <2>2. Follows(w) /\ Len(w.logs) \in Nat /\ \A i \in 1..Len(w.logs) : w.logs[i] \in Nat
    BY <1>1, <2>1, ViewAt DEF Following
  <2>3. Follows(w)'
    <3>1. ASSUME Len(w.logs) > 0
          PROVE  /\ Reaches(w.logs[Len(w.logs)])'
                 /\ w.had < Len(w.logs) => Later(w.logs[Len(w.logs)])'
      <4>1. PICK m : m = w.logs[Len(w.logs)]
        OBVIOUS
      <4>2. m \in Nat /\ Reaches(m) /\ (w.had < Len(w.logs) => Later(m))
        BY <2>2, <3>1, <4>1 DEF Follows
      <4>3. Reaches(m)' /\ (w.had < Len(w.logs) => Later(m)')
        BY <4>2 DEF Reaches
      <4>. QED  BY <4>1, <4>3
    <3>. QED  BY <2>2, <3>1 DEF Follows, InOrder
  <2>4. view[v]' = w
    BY <2>1
  <2>. QED  BY <2>3, <2>4 DEF Follows, InOrder, Reaches, Later
<1>. QED  BY <1>1 DEF Following

LEMMA PutFollowing ==
  ASSUME DashTypes, Following, NEW e \in Event, Put(e), Told(e)
  PROVE  Following'
<1>1. UNCHANGED <<current, told, view>> /\ messages \in Nat /\ messages <= messages' /\ messages' \in Nat
  BY PutIs DEF DashTypes, Told
<1>2. \A n : OnItsWay(n)' <=> OnItsWay(n)
  BY <1>1 DEF OnItsWay, MessageIn
<1>3. \A m \in Nat : Reaches(m) => Reaches(m)'
  BY <1>1, <1>2, PutMore, PutCovers DEF Reaches
<1>4. ASSUME NEW m \in Nat, m <= messages, Later(m) PROVE Later(m)'
  <2>1. \A i \in 1..Len(events') : events'[i].kind = "message" => m < events'[i].n
    BY <1>4, PutAfter DEF Later
  <2>. QED  BY <1>1, <1>4, <2>1 DEF Later
<1>. QED  BY <1>1, <1>3, <1>4, FollowingKept

LEMMA PutStep ==
  ASSUME DashInv, NEW e \in Event, Put(e), Told(e), prices' \in 0..MaxPrices, prices' >= prices,
         e.kind = "price" => e.n <= prices', known \subseteq known',
         \A p \in (known' \ known) \cap PocketIds : IsPocket(e, p),
         \A s \in (known' \ known) \cap StrategyIds : PocketOf[s] \in known \cup {NoPocket},
         e.kind = "strategy" => PocketOf[e.id] \in known \cup {NoPocket}
  PROVE  DashInv'
<1>1. DashTypes /\ Filing /\ Numbered /\ Viewed /\ Priced /\ Sequenced /\ Following
  BY DEF DashInv
<1>2. messages' \in Nat
  BY <1>1 DEF DashTypes, Told
<1>3. DashTypes' /\ Filing' /\ Numbered' /\ Viewed'
  BY <1>1, <1>2, PutTypes, PutFiling, PutNumbered, PutViewed
<1>4. Priced'
  <2>1. UNCHANGED <<current, store, told, view, dropped>>
    BY <1>1, PutIs
  <2>. QED  BY <1>1, <2>1 DEF Priced
<1>5. Sequenced' /\ Following'
  BY <1>1, PutSequenced, PutFollowing
<1>. QED  BY <1>3, <1>4, <1>5 DEF DashInv

\* Everything a producer does.
LEMMA ProducerStep ==
  ASSUME DashInv,
         \/ PutPrice \/ PutMessage
         \/ \E p \in PocketIds : PutPocket(p) \/ PutPocketAgain(p)
         \/ \E s \in StrategyIds : PutStrategy(s) \/ PutStrategyAgain(s) \/ PutRemove(s)
         \/ \E o \in OrderIds : PutOrder(o) \/ PutOrderDone(o)
  PROVE  DashInv'
<1>1. prices \in Nat /\ prices \in 0..MaxPrices /\ MaxPrices \in Nat /\ messages \in Nat
  BY Ids DEF DashInv, DashTypes
<1>2. CASE PutPrice
  <2>0. PICK m \in Nat : m = prices + 1
    BY <1>1
  <2>1. PICK e : e = [kind |-> "price", n |-> m]
    OBVIOUS
  <2>2. e \in Event /\ e.kind = "price" /\ e.n = prices + 1
    BY <2>0, <2>1, Events
  <2>3. Put(e) /\ prices' = prices + 1 /\ prices < MaxPrices /\ UNCHANGED <<messages, known>>
    BY <1>2, <2>0, <2>1 DEF PutPrice
  <2>4. prices' \in 0..MaxPrices /\ prices' >= prices /\ e.n <= prices'
    BY <1>1, <2>2, <2>3
  <2>5. Told(e)
    BY <2>2, <2>3 DEF Told
  <2>. QED  BY <2>2, <2>3, <2>4, <2>5, PutStep
<1>3. CASE PutMessage
  <2>0. PICK m \in Nat : m = messages + 1
    BY <1>1
  <2>1. PICK e : e = [kind |-> "message", n |-> m]
    OBVIOUS
  <2>2. e \in Event /\ e.kind = "message" /\ e.n = messages + 1
    BY <2>0, <2>1, Events
  <2>3. Put(e) /\ messages' = messages + 1 /\ UNCHANGED <<prices, known>>
    BY <1>3, <2>0, <2>1 DEF PutMessage
  <2>4. prices' \in 0..MaxPrices /\ prices' >= prices
    BY <1>1, <2>3
  <2>5. Told(e)
    BY <2>2, <2>3 DEF Told, IsMessage
  <2>. QED  BY <2>2, <2>3, <2>4, <2>5, PutStep
<1>4. ASSUME NEW p \in PocketIds, PutPocket(p) \/ PutPocketAgain(p) PROVE DashInv'
  <2>1. PICK e : e = [kind |-> "pocket", id |-> p]
    OBVIOUS
  <2>2. e \in Event /\ e.kind = "pocket" /\ IsPocket(e, p)
    BY <2>1, Events DEF IsPocket
  <2>3. Put(e) /\ known \subseteq known' /\ known' \subseteq known \cup {p} /\ UNCHANGED <<prices, messages>>
    BY <1>4, <2>1 DEF PutPocket, PutPocketAgain
  <2>4. prices' \in 0..MaxPrices /\ prices' >= prices
    BY <1>1, <2>3
  <2>5. Told(e)
    BY <2>2, <2>3 DEF Told
  <2>6. p \notin StrategyIds
    BY Ids
  <2>. QED  BY <2>2, <2>3, <2>4, <2>5, <2>6, PutStep
<1>5. ASSUME NEW s \in StrategyIds, PutStrategy(s) \/ PutStrategyAgain(s) PROVE DashInv'
  <2>1. PICK e : e = [kind |-> "strategy", id |-> s]
    OBVIOUS
  <2>2. e \in Event /\ e.kind = "strategy" /\ e.id = s
    BY <2>1, Events
  <2>3. Put(e) /\ known \subseteq known' /\ known' \subseteq known \cup {s} /\ UNCHANGED <<prices, messages>>
    BY <1>5, <2>1 DEF PutStrategy, PutStrategyAgain
  <2>4. prices' \in 0..MaxPrices /\ prices' >= prices
    BY <1>1, <2>3
  <2>5. Told(e)
    BY <2>2, <2>3 DEF Told
  <2>6. s \notin PocketIds
    BY Ids
  <2>7. PocketOf[s] \in known \cup {NoPocket}
    BY <1>5 DEF PutStrategy, PutStrategyAgain, DashInv, Filing
  <2>. QED  BY <2>2, <2>3, <2>4, <2>5, <2>6, <2>7, PutStep
<1>6. ASSUME NEW s \in StrategyIds, PutRemove(s) PROVE DashInv'
  <2>1. PICK e : e = [kind |-> "remove", id |-> s]
    OBVIOUS
  <2>2. e \in Event /\ e.kind = "remove"
    BY <2>1, Events
  <2>3. Put(e) /\ UNCHANGED <<prices, messages, known>>
    BY <1>6, <2>1 DEF PutRemove
  <2>4. prices' \in 0..MaxPrices /\ prices' >= prices
    BY <1>1, <2>3
  <2>5. Told(e)
    BY <2>2, <2>3 DEF Told
  <2>. QED  BY <2>2, <2>3, <2>4, <2>5, PutStep
<1>7. ASSUME NEW o \in OrderIds, PutOrder(o) \/ PutOrderDone(o) PROVE DashInv'
  <2>1. PICK k \in {"open", "done"} : Put([kind |-> k, id |-> o])
    BY <1>7 DEF PutOrder, PutOrderDone
  <2>2. PICK e : e = [kind |-> k, id |-> o]
    OBVIOUS
  <2>3. e \in Event /\ e.kind = k /\ k # "strategy" /\ k # "message" /\ k # "price"
    BY <2>2, Events
  <2>4. Put(e) /\ known \subseteq known' /\ known' \subseteq known \cup {o} /\ UNCHANGED <<prices, messages>>
    BY <1>7, <2>1, <2>2 DEF PutOrder, PutOrderDone
  <2>5. prices' \in 0..MaxPrices /\ prices' >= prices
    BY <1>1, <2>4
  <2>6. Told(e)
    BY <2>3, <2>4 DEF Told
  <2>7. o \notin PocketIds /\ o \notin StrategyIds
    BY Ids
  <2>. QED  BY <2>3, <2>4, <2>5, <2>6, <2>7, PutStep
<1>. QED  BY <1>2, <1>3, <1>4, <1>5, <1>6, <1>7

-----------------------------------------------------------------------------
(* The first event is stored.                                              *)

LEMMA ApplyIs ==
  ASSUME DashTypes, Apply
  PROVE  \E e \in Event :
           /\ current = Nothing /\ current' = e /\ e = events[1]
           /\ Len(events) \in Nat /\ Len(events) >= 1 /\ Len(events') = Len(events) - 1
           /\ events' \in Seq(Event)
           /\ \A i \in 1..Len(events) - 1 : events'[i] = events[i + 1]
           /\ store' = Stored(e)
           /\ UNCHANGED <<recent, told, view, dropped, prices, messages, known>>
<1>1. events \in Seq(Event) /\ events # <<>>
  BY DEF DashTypes, Apply
<1>2. /\ Tail(events) \in Seq(Event) /\ Len(events) \in Nat /\ Len(events) >= 1
      /\ Len(Tail(events)) = Len(events) - 1 /\ Head(events) = events[1] /\ Head(events) \in Event
      /\ \A i \in 1..Len(events) - 1 : Tail(events)[i] = events[i + 1]
  BY <1>1, Shorter
<1>. QED  BY <1>2 DEF Apply, dashProducer

\* The logs after a message: some are dropped at the front and it comes last.
LEMMA NewLogs ==
  ASSUME DashTypes, NEW e \in Event, e.kind = "message", NEW l, l = Latest(Append(store.logs, e.n))
  PROVE  /\ Len(l) \in Nat /\ Len(l) <= MaxLogs
         /\ \E d \in Nat : /\ Len(store.logs) + 1 = Len(l) + d
                           /\ \A i \in 1..Len(l) : d + i <= Len(store.logs) => l[i] = store.logs[d + i]
                           /\ \A i \in 1..Len(l) : d + i = Len(store.logs) + 1 => l[i] = e.n
<1>1. store.logs \in Seq(Nat) /\ e.n \in Nat
  BY StoreFields, Carries DEF DashTypes
<1>2. PICK m : m = Append(store.logs, e.n)
  OBVIOUS
<1>3. /\ m \in Seq(Nat) /\ Len(m) = Len(store.logs) + 1 /\ Len(store.logs) \in Nat
      /\ \A i \in 1..Len(store.logs) : m[i] = store.logs[i]
      /\ m[Len(store.logs) + 1] = e.n
  BY <1>1, <1>2, AppendProperties, LenProperties
<1>4. /\ l \in Seq(Nat) /\ Len(l) <= MaxLogs
      /\ \E d \in Nat : Len(m) = Len(l) + d /\ \A i \in 1..Len(l) : l[i] = m[d + i]
  BY <1>2, <1>3, LatestIs
<1>5. PICK d \in Nat : Len(m) = Len(l) + d /\ \A i \in 1..Len(l) : l[i] = m[d + i]
  BY <1>4
<1>6. Len(l) \in Nat
  BY <1>4, LenProperties
<1>7. \A i \in 1..Len(l) : d + i <= Len(store.logs) => l[i] = store.logs[d + i]
  <2>1. ASSUME NEW i \in 1..Len(l), d + i <= Len(store.logs) PROVE l[i] = store.logs[d + i]
    <3>1. d + i \in 1..Len(store.logs)
      BY <1>3, <1>6, <2>1
    <3>. QED  BY <1>3, <1>5, <3>1
  <2>. QED  BY <2>1
<1>8. \A i \in 1..Len(l) : d + i = Len(store.logs) + 1 => l[i] = e.n
  BY <1>3, <1>5
<1>. QED  BY <1>3, <1>4, <1>5, <1>6, <1>7, <1>8

LEMMA ApplyTypes ==
  ASSUME DashTypes, Apply
  PROVE  DashTypes'
<1>1. PICK e \in Event :
           /\ current = Nothing /\ current' = e /\ e = events[1]
           /\ Len(events) \in Nat /\ Len(events) >= 1 /\ Len(events') = Len(events) - 1
           /\ events' \in Seq(Event)
           /\ \A i \in 1..Len(events) - 1 : events'[i] = events[i + 1]
           /\ store' = Stored(e)
           /\ UNCHANGED <<recent, told, view, dropped, prices, messages, known>>
  BY ApplyIs
<1>2. /\ store' \in Store
      /\ store'.price = (IF e.kind = "price" THEN e.n ELSE store.price)
      /\ store'.logs = (IF e.kind = "message" THEN Latest(Append(store.logs, e.n)) ELSE store.logs)
  BY <1>1, StoredIs DEF DashTypes
<1>3. Len(store'.logs) <= MaxLogs
  BY <1>2, NewLogs DEF DashTypes
<1>4. store'.price <= prices'
  BY <1>1, <1>2 DEF DashTypes
<1>5. ASSUME NEW i \in 1..Len(events'), events'[i].kind = "price"
      PROVE  events'[i].n <= prices'
  <2>1. i + 1 \in 1..Len(events) /\ events'[i] = events[i + 1]
    BY <1>1
  <2>. QED  BY <1>1, <1>5, <2>1 DEF DashTypes
<1>. QED  BY <1>1, <1>2, <1>3, <1>4, <1>5 DEF DashTypes

LEMMA ApplyFiling ==
  ASSUME DashTypes, Filing, Apply
  PROVE  Filing'
<1>1. PICK e \in Event :
           /\ current = Nothing /\ current' = e /\ e = events[1]
           /\ Len(events) \in Nat /\ Len(events) >= 1 /\ Len(events') = Len(events) - 1
           /\ events' \in Seq(Event)
           /\ \A i \in 1..Len(events) - 1 : events'[i] = events[i + 1]
           /\ store' = Stored(e)
           /\ UNCHANGED <<recent, told, view, dropped, prices, messages, known>>
  BY ApplyIs
<1>2. PICK t : t = store'
  OBVIOUS
<1>3. /\ t.pockets = (IF e.kind = "pocket" THEN store.pockets \cup {e.id} ELSE store.pockets)
      /\ t.strategies = (IF e.kind = "strategy" THEN store.strategies \cup {e.id}
                         ELSE IF e.kind = "remove" THEN store.strategies \ {e.id}
                         ELSE store.strategies)
      /\ t.nested = (IF e.kind = "pocket" THEN store.nested \ Filed(e.id)
                     ELSE IF e.kind = "strategy" /\ PocketOf[e.id] \in store.pockets
                       THEN store.nested \cup {e.id}
                     ELSE IF e.kind = "remove" /\ e.id \in store.strategies /\ PocketOf[e.id] \in store.pockets
                       THEN store.nested \ {e.id}
                     ELSE store.nested)
      /\ t.loose = (IF e.kind = "strategy" /\ PocketOf[e.id] \notin store.pockets
                      THEN store.loose \cup {e.id}
                    ELSE IF e.kind = "remove" /\ e.id \in store.strategies /\ PocketOf[e.id] \notin store.pockets
                      THEN store.loose \ {e.id}
                    ELSE store.loose)
  BY <1>1, <1>2, StoredIs DEF DashTypes
<1>4. store.pockets \subseteq t.pockets
  BY <1>3
<1>5. store.pockets \subseteq PocketIds /\ NoPocket \notin PocketIds
  BY StoreFields, Ids DEF DashTypes
<1>6. e.kind = "strategy" => PocketOf[e.id] \in store.pockets \cup {NoPocket}
  <2>1. 1 \in 1..Len(events) /\ 1 - 1 = 0
    BY <1>1
  <2>2. \A j \in 1..0 : FALSE
    OBVIOUS
  <2>. QED  BY <1>1, <2>1, <2>2 DEF Filing
<1>7. \A s \in t.loose : PocketOf[s] = NoPocket
  BY <1>3, <1>6 DEF Filing
<1>8. \A s \in t.nested : PocketOf[s] \in t.pockets
  BY <1>3, <1>4 DEF Filing
<1>9. t.nested \cup t.loose \subseteq t.strategies
  <2>1. \A s \in store.nested : PocketOf[s] \in store.pockets
    BY DEF Filing
  <2>2. \A s \in store.loose : PocketOf[s] = NoPocket
    BY DEF Filing
  <2>3. store.nested \cup store.loose \subseteq store.strategies
    BY DEF Filing
  <2>4. CASE e.kind = "remove"
    <3>1. CASE e.id \notin store.strategies
      BY <1>3, <2>3, <2>4, <3>1
    <3>2. CASE e.id \in store.strategies /\ PocketOf[e.id] \in store.pockets
      <4>1. e.id \notin store.loose
        BY <1>5, <2>2, <3>2
      <4>. QED  BY <1>3, <2>3, <2>4, <3>2, <4>1
    <3>3. CASE e.id \in store.strategies /\ PocketOf[e.id] \notin store.pockets
      <4>1. e.id \notin store.nested
        BY <2>1, <3>3
      <4>. QED  BY <1>3, <2>3, <2>4, <3>3, <4>1
    <3>. QED  BY <3>1, <3>2, <3>3
  <2>5. CASE e.kind = "strategy"
    BY <1>3, <2>3, <2>5
  <2>6. CASE e.kind \notin {"remove", "strategy"}
    BY <1>3, <2>3, <2>6
  <2>. QED  BY <2>4, <2>5, <2>6
<1>11. \A s \in known' \cap StrategyIds : PocketOf[s] \in known' \cup {NoPocket}
  BY <1>1 DEF Filing
<1>12. ASSUME NEW p \in PocketIds, NEW i \in 1..Len(events), IsPocket(events[i], p)
       PROVE  p \in t.pockets \/ (i > 1 /\ i - 1 \in 1..Len(events') /\ events'[i - 1] = events[i])
  <2>1. CASE i = 1
    BY <1>1, <1>3, <1>12, <2>1 DEF IsPocket
  <2>2. CASE i > 1
    <3>1. i - 1 \in 1..Len(events) - 1 /\ (i - 1) + 1 = i
      BY <1>1, <2>2
    <3>. QED  BY <1>1, <2>2, <3>1
  <2>. QED  BY <1>1, <2>1, <2>2
<1>13. ASSUME NEW p \in known' \cap PocketIds
       PROVE  p \in t.pockets \/ \E i \in 1..Len(events') : IsPocket(events'[i], p)
  <2>1. p \in store.pockets \/ \E i \in 1..Len(events) : IsPocket(events[i], p)
    BY <1>1 DEF Filing
  <2>. QED  BY <1>4, <1>12, <2>1
<1>14. ASSUME NEW i \in 1..Len(events'), events'[i].kind = "strategy"
       PROVE  \/ PocketOf[events'[i].id] \in t.pockets \cup {NoPocket}
              \/ \E j \in 1..i - 1 : IsPocket(events'[j], PocketOf[events'[i].id])
  <2>1. i + 1 \in 1..Len(events) /\ events'[i] = events[i + 1] /\ (i + 1) - 1 = i
    BY <1>1
  <2>2. PICK p : p = PocketOf[events'[i].id]
    OBVIOUS
  <2>3. p \in PocketIds \cup {NoPocket}
    BY <1>14, <2>1, <2>2, EventAt, Carries, Ids
  <2>4. p \in store.pockets \cup {NoPocket} \/ \E j \in 1..i : IsPocket(events[j], p)
    BY <1>14, <2>1, <2>2 DEF Filing
  <2>5. CASE p \in store.pockets \cup {NoPocket}
    BY <1>4, <2>2, <2>5
  <2>6. CASE p \in PocketIds /\ \E j \in 1..i : IsPocket(events[j], p)
    <3>1. PICK j \in 1..i : IsPocket(events[j], p)
      BY <2>6
    <3>2. j \in 1..Len(events)
      BY <1>1, <2>1
    <3>3. p \in t.pockets \/ (j > 1 /\ events'[j - 1] = events[j])
      BY <1>12, <2>6, <3>1, <3>2
    <3>4. j > 1 => j - 1 \in 1..i - 1
      BY <1>1, <2>1
    <3>. QED  BY <2>2, <3>1, <3>3, <3>4
  <2>. QED  BY <2>3, <2>4, <2>5, <2>6
<1>. QED  BY <1>2, <1>7, <1>8, <1>9, <1>11, <1>13, <1>14 DEF Filing

\* The first event is now the current one, the others have moved up.
LEMMA ApplyMoves ==
  ASSUME DashTypes, Apply, NEW n, MessageIn(events, n)
  PROVE  IsMessage(current', n) \/ MessageIn(events, n)'
<1>1. PICK e \in Event :
           /\ current = Nothing /\ current' = e /\ e = events[1]
           /\ Len(events) \in Nat /\ Len(events) >= 1 /\ Len(events') = Len(events) - 1
           /\ events' \in Seq(Event)
           /\ \A i \in 1..Len(events) - 1 : events'[i] = events[i + 1]
           /\ store' = Stored(e)
           /\ UNCHANGED <<recent, told, view, dropped, prices, messages, known>>
  BY ApplyIs
<1>2. PICK i \in 1..Len(events) : IsMessage(events[i], n)
  BY DEF MessageIn
<1>3. CASE i = 1
  BY <1>1, <1>2, <1>3
<1>4. CASE i > 1
  <2>1. i - 1 \in 1..Len(events') /\ events'[i - 1] = events[i]
    <3>1. i - 1 \in 1..Len(events) - 1 /\ (i - 1) + 1 = i
      BY <1>1, <1>4
    <3>. QED  BY <1>1, <3>1
  <2>. QED  BY <1>2, <2>1 DEF MessageIn
<1>. QED  BY <1>1, <1>3, <1>4

\* What is behind an event that was not the first is still behind it.
LEMMA ApplyBehind ==
  ASSUME DashTypes, Apply, NEW i \in 1..Len(events), NEW n,
         \E j \in 1..Len(events) : i < j /\ IsMessage(events[j], n)
  PROVE  \E j \in 1..Len(events') : i - 1 < j /\ IsMessage(events'[j], n)
<1>1. PICK e \in Event :
           /\ current = Nothing /\ current' = e /\ e = events[1]
           /\ Len(events) \in Nat /\ Len(events) >= 1 /\ Len(events') = Len(events) - 1
           /\ events' \in Seq(Event)
           /\ \A k \in 1..Len(events) - 1 : events'[k] = events[k + 1]
           /\ store' = Stored(e)
           /\ UNCHANGED <<recent, told, view, dropped, prices, messages, known>>
  BY ApplyIs
<1>2. PICK j \in 1..Len(events) : i < j /\ IsMessage(events[j], n)
  OBVIOUS
<1>3. j - 1 \in 1..Len(events') /\ i - 1 < j - 1 /\ j - 1 \in 1..Len(events) - 1 /\ (j - 1) + 1 = j
  BY <1>1, <1>2
<1>4. IsMessage(events'[j - 1], n)
  BY <1>1, <1>2, <1>3
<1>. QED  BY <1>3, <1>4

\* The logs after the step, whatever was stored.
LEMMA ApplyLogs ==
  ASSUME DashTypes, Numbered, Apply
  PROVE  /\ Len(store'.logs) \in Nat
         /\ \A i \in 1..Len(store'.logs) :
              \/ \E k \in 1..Len(store.logs) : store'.logs[i] = store.logs[k]
              \/ IsMessage(current', store'.logs[i])
         /\ \A i, j \in 1..Len(store'.logs) : i < j => store'.logs[i] < store'.logs[j]
         /\ \A n : \A i \in 1..Len(store'.logs) : (\E k \in 1..Len(store.logs) : store.logs[k] = n)
              /\ n > store'.logs[i] => \E k \in 1..Len(store'.logs) : store'.logs[k] = n
         /\ \A n : \A i \in 1..Len(store'.logs) : IsMessage(current', n)
              => \E k \in 1..Len(store'.logs) : store'.logs[k] = n
<1>1. PICK e \in Event :
           /\ current = Nothing /\ current' = e /\ e = events[1]
           /\ Len(events) \in Nat /\ Len(events) >= 1 /\ Len(events') = Len(events) - 1
           /\ events' \in Seq(Event)
           /\ \A i \in 1..Len(events) - 1 : events'[i] = events[i + 1]
           /\ store' = Stored(e)
           /\ UNCHANGED <<recent, told, view, dropped, prices, messages, known>>
  BY ApplyIs
<1>2. PICK l, o : l = store'.logs /\ o = store.logs
  OBVIOUS
<1>3. l = IF e.kind = "message" THEN Latest(Append(o, e.n)) ELSE o
  BY <1>1, <1>2, StoredIs DEF DashTypes
<1>4. Len(o) \in Nat /\ \A i \in 1..Len(o) : o[i] \in Nat
  BY <1>2, LogAt
<1>5. \A i, j \in 1..Len(o) : i < j => o[i] < o[j]
  BY <1>2 DEF Numbered
<1>6. CASE e.kind # "message"
  <2>1. l = o
    BY <1>3, <1>6
  <2>. QED  BY <1>1, <1>2, <1>4, <1>5, <1>6, <2>1 DEF IsMessage
<1>7. CASE e.kind = "message"
  <2>1. l = Latest(Append(o, e.n)) /\ e.n \in Nat
    BY <1>3, <1>7, Carries
  <2>2. /\ Len(l) \in Nat
        /\ \E d \in Nat : /\ Len(o) + 1 = Len(l) + d
                          /\ \A i \in 1..Len(l) : d + i <= Len(o) => l[i] = o[d + i]
                          /\ \A i \in 1..Len(l) : d + i = Len(o) + 1 => l[i] = e.n
    BY <1>2, <1>7, <2>1, NewLogs
  <2>3. PICK d \in Nat : /\ Len(o) + 1 = Len(l) + d
                         /\ \A i \in 1..Len(l) : d + i <= Len(o) => l[i] = o[d + i]
                         /\ \A i \in 1..Len(l) : d + i = Len(o) + 1 => l[i] = e.n
    BY <2>2, Zenon
  <2>4. \A k \in 1..Len(o) : o[k] < e.n
    <3>1. 1 \in 1..Len(events)
      BY <1>1
    <3>. QED  BY <1>1, <1>2, <1>7, <3>1 DEF Numbered
  <2>5. \A i \in 1..Len(l) : d + i \in 1..Len(o) \/ d + i = Len(o) + 1
    BY <1>4, <2>2, <2>3
  <2>6. \A i \in 1..Len(l) : \/ \E k \in 1..Len(o) : l[i] = o[k]
                            \/ IsMessage(e, l[i])
    <3>1. ASSUME NEW i \in 1..Len(l)
          PROVE  (\E k \in 1..Len(o) : l[i] = o[k]) \/ IsMessage(e, l[i])
      <4>1. CASE d + i \in 1..Len(o)
        <5>1. d + i <= Len(o)
          BY <1>4, <4>1
        <5>. QED  BY <2>3, <4>1, <5>1
      <4>2. CASE d + i = Len(o) + 1
        BY <1>7, <2>3, <4>2 DEF IsMessage
      <4>. QED  BY <2>5, <4>1, <4>2
    <3>. QED  BY <3>1
  <2>7. ASSUME NEW i \in 1..Len(l), NEW j \in 1..Len(l), i < j
        PROVE  l[i] < l[j]
    <3>1. d + i < d + j /\ d + i <= Len(o) /\ d + i \in 1..Len(o)
      BY <1>4, <2>2, <2>3, <2>7
    <3>2. l[i] = o[d + i]
      BY <2>3, <3>1
    <3>3. CASE d + j \in 1..Len(o)
      <4>1. d + j <= Len(o)
        BY <1>4, <3>3
      <4>2. l[j] = o[d + j]
        BY <2>3, <4>1
      <4>. QED  BY <1>5, <3>1, <3>2, <3>3, <4>2
    <3>4. CASE d + j = Len(o) + 1
      BY <2>3, <2>4, <3>1, <3>2, <3>4
    <3>. QED  BY <2>5, <3>3, <3>4
  <2>8. ASSUME NEW i \in 1..Len(l), NEW k \in 1..Len(o), o[k] > l[i]
        PROVE  \E m \in 1..Len(l) : l[m] = o[k]
    <3>1. d + i \in 1..Len(o)
      <4>1. CASE d + i = Len(o) + 1
        <5>1. l[i] = e.n /\ o[k] < e.n /\ o[k] \in Nat
          BY <1>4, <2>3, <2>4, <4>1
        <5>. QED  BY <2>1, <2>8, <5>1
      <4>. QED  BY <2>5, <4>1
    <3>2. d + i <= Len(o) /\ l[i] = o[d + i]
      <4>1. d + i <= Len(o)
        BY <1>4, <3>1
      <4>. QED  BY <2>3, <4>1
    <3>3. k > d + i
      <4>1. SUFFICES ASSUME ~ (k > d + i) PROVE FALSE
        OBVIOUS
      <4>2. k = d + i \/ k < d + i
        BY <1>4, <3>1, <4>1
      <4>3. o[k] \in Nat /\ o[d + i] \in Nat
        BY <1>4, <3>1
      <4>4. k < d + i => o[k] < o[d + i]
        BY <1>5, <3>1
      <4>. QED  BY <2>8, <3>2, <4>2, <4>3, <4>4
    <3>4. k - d \in 1..Len(l) /\ d + (k - d) = k /\ k <= Len(o)
      BY <1>4, <2>2, <2>3, <3>1, <3>3
    <3>5. l[k - d] = o[k]
      BY <2>3, <3>4
    <3>. QED  BY <3>4, <3>5
  <2>9. ASSUME NEW i \in 1..Len(l) PROVE \E m \in 1..Len(l) : l[m] = e.n
    <3>1. Len(l) \in 1..Len(l) /\ d + Len(l) = Len(o) + 1
      BY <1>4, <2>2, <2>3
    <3>. QED  BY <2>3, <3>1
  <2>10. \A n : \A i \in 1..Len(l) : (\E k \in 1..Len(o) : o[k] = n) /\ n > l[i]
           => \E k \in 1..Len(l) : l[k] = n
    BY <2>8
  <2>11. \A n : \A i \in 1..Len(l) : IsMessage(e, n) => \E k \in 1..Len(l) : l[k] = n
    BY <2>9 DEF IsMessage
  <2>. QED  BY <1>1, <1>2, <2>2, <2>6, <2>7, <2>10, <2>11
<1>. QED  BY <1>6, <1>7

LEMMA ApplyNumbered ==
  ASSUME DashTypes, Numbered, Apply
  PROVE  Numbered'
<1>1. PICK e \in Event :
           /\ current = Nothing /\ current' = e /\ e = events[1]
           /\ Len(events) \in Nat /\ Len(events) >= 1 /\ Len(events') = Len(events) - 1
           /\ events' \in Seq(Event)
           /\ \A i \in 1..Len(events) - 1 : events'[i] = events[i + 1]
           /\ store' = Stored(e)
           /\ UNCHANGED <<recent, told, view, dropped, prices, messages, known>>
  BY ApplyIs
<1>2. PICK l : l = store'.logs
  OBVIOUS
<1>3. /\ \A i \in 1..Len(l) : (\E k \in 1..Len(store.logs) : l[i] = store.logs[k]) \/ IsMessage(e, l[i])
      /\ \A i, j \in 1..Len(l) : i < j => l[i] < l[j]
      /\ \A n : \A i \in 1..Len(l) : (\E k \in 1..Len(store.logs) : store.logs[k] = n)
           /\ n > l[i] => \E k \in 1..Len(l) : l[k] = n
      /\ \A n : \A i \in 1..Len(l) : IsMessage(e, n) => \E k \in 1..Len(l) : l[k] = n
  BY <1>1, <1>2, ApplyLogs
<1>4. \A n : MessageIn(events, n) => IsMessage(e, n) \/ MessageIn(events, n)'
  BY <1>1, ApplyMoves
<1>5. 1 \in 1..Len(events) /\ events[1] = e
  BY <1>1
<1>6. e.kind = "message" => /\ e.n <= messages
                           /\ \A n \in 1..messages : n > e.n => MessageIn(events, n)'
  <2>1. SUFFICES ASSUME e.kind = "message"
                 PROVE  /\ e.n <= messages
                        /\ \A n \in 1..messages : n > e.n => MessageIn(events, n)'
    OBVIOUS
  <2>2. ASSUME NEW n \in 1..messages, n > e.n PROVE MessageIn(events, n)'
    <3>1. \E j \in 1..Len(events) : 1 < j /\ IsMessage(events[j], n)
      BY <1>5, <2>1, <2>2 DEF Numbered
    <3>2. \E j \in 1..Len(events') : 1 - 1 < j /\ IsMessage(events'[j], n)
      BY <1>5, <3>1, ApplyBehind
    <3>. QED  BY <3>2 DEF MessageIn
  <2>. QED  BY <1>5, <2>1, <2>2 DEF Numbered
<1>7. ASSUME NEW i \in 1..Len(l) PROVE l[i] <= messages
  BY <1>3, <1>6 DEF Numbered, IsMessage
<1>8. \A i \in 1..Len(events') : i + 1 \in 1..Len(events) /\ events'[i] = events[i + 1] /\ 1 < i + 1 /\ (i + 1) - 1 = i
  BY <1>1
<1>9. ASSUME NEW i \in 1..Len(l), NEW j \in 1..Len(events'), events'[j].kind = "message"
      PROVE  l[i] < events'[j].n
  <2>1. ASSUME NEW k \in 1..Len(store.logs) PROVE store.logs[k] < events'[j].n
    <3>1. j + 1 \in 1..Len(events) /\ events'[j] = events[j + 1] /\ events[j + 1].kind = "message"
      BY <1>8, <1>9
    <3>2. \A m \in 1..Len(events) : events[m].kind = "message" => store.logs[k] < events[m].n
      BY DEF Numbered
    <3>. QED  BY <3>1, <3>2
  <2>2. ASSUME IsMessage(e, l[i]) PROVE l[i] < events'[j].n
    <3>1. e.kind = "message" /\ e.n = l[i]
      BY <2>2 DEF IsMessage
    <3>. QED  BY <1>5, <1>8, <1>9, <3>1 DEF Numbered
  <2>. QED  BY <1>3, <2>1, <2>2
<1>10. ASSUME NEW i \in 1..Len(l), NEW n \in 1..messages, n > l[i]
       PROVE  (\E k \in 1..Len(l) : l[k] = n) \/ MessageIn(events, n)'
  <2>1. ASSUME NEW k \in 1..Len(store.logs), l[i] = store.logs[k]
        PROVE  (\E m \in 1..Len(l) : l[m] = n) \/ MessageIn(events, n)'
    <3>1. (\E m \in 1..Len(store.logs) : store.logs[m] = n) \/ MessageIn(events, n)
      BY <1>10, <2>1 DEF Numbered
    <3>. QED  BY <1>3, <1>4, <1>10, <3>1
  <2>2. ASSUME IsMessage(e, l[i]) PROVE MessageIn(events, n)'
    BY <1>6, <1>10, <2>2 DEF IsMessage
  <2>. QED  BY <1>3, <2>1, <2>2
<1>11. ASSUME NEW i \in 1..Len(events'), events'[i].kind = "message"
       PROVE  /\ events'[i].n <= messages
              /\ \A n \in 1..messages : n > events'[i].n =>
                   \E j \in 1..Len(events') : i < j /\ IsMessage(events'[j], n)
  <2>1. i + 1 \in 1..Len(events) /\ events'[i] = events[i + 1] /\ (i + 1) - 1 = i
    BY <1>8
  <2>2. ASSUME NEW n \in 1..messages, n > events'[i].n
        PROVE  \E j \in 1..Len(events') : i < j /\ IsMessage(events'[j], n)
    <3>1. \E j \in 1..Len(events) : i + 1 < j /\ IsMessage(events[j], n)
      BY <1>11, <2>1, <2>2 DEF Numbered
    <3>2. \E j \in 1..Len(events') : (i + 1) - 1 < j /\ IsMessage(events'[j], n)
      BY <2>1, <3>1, ApplyBehind
    <3>. QED  BY <2>1, <3>2
  <2>. QED  BY <1>11, <2>1, <2>2 DEF Numbered
<1>12. ASSUME NEW i \in 1..Len(events'), NEW j \in 1..Len(events'), i < j,
              events'[i].kind = "message", events'[j].kind = "message"
       PROVE  events'[i].n < events'[j].n
  <2>1. i + 1 < j + 1
    BY <1>1, <1>12
  <2>. QED  BY <1>8, <1>12, <2>1 DEF Numbered
<1>13. ASSUME NEW i \in 1..Len(told), told[i].kind = "message", NEW n \in 1..messages, n > told[i].n
       PROVE  \/ \E j \in 1..Len(told) : i < j /\ IsMessage(told[j], n)
              \/ IsMessage(e, n) \/ MessageIn(events, n)'
  <2>1. ~IsMessage(current, n)
    BY <1>1, NothingIs DEF IsMessage
  <2>. QED  BY <1>4, <1>13, <2>1 DEF Numbered
<1>14. messages' = messages /\ told' = told /\ current' = e
  BY <1>1
<1>. QED  BY <1>2, <1>3, <1>6, <1>7, <1>9, <1>10, <1>11, <1>12, <1>13, <1>14 DEF Numbered

LEMMA ApplyViewed ==
  ASSUME DashTypes, Numbered, Viewed, Apply
  PROVE  Viewed'
<1>1. PICK e \in Event :
           /\ current = Nothing /\ current' = e /\ e = events[1]
           /\ Len(events) \in Nat /\ Len(events) >= 1 /\ Len(events') = Len(events) - 1
           /\ events' \in Seq(Event)
           /\ \A i \in 1..Len(events) - 1 : events'[i] = events[i + 1]
           /\ store' = Stored(e)
           /\ UNCHANGED <<recent, told, view, dropped, prices, messages, known>>
  BY ApplyIs
<1>2. \A n : OnItsWay(n) => OnItsWay(n)'
  <2>1. \A n : ~IsMessage(current, n)
    BY <1>1, NothingIs DEF IsMessage
  <2>. QED  BY <1>1, <2>1 DEF OnItsWay, MessageIn
<1>3. \A s : Leaving(s) => Leaving(s)'
  <2>1. \A s : ~IsRemove(current, s)
    BY <1>1, NothingIs DEF IsRemove
  <2>. QED  BY <1>1, <2>1 DEF Leaving
<1>4. \A n : IsMessage(e, n) => OnItsWay(n)'
  BY <1>1 DEF OnItsWay
<1>5. \A n : MessageIn(events, n) => OnItsWay(n)' \/ MessageIn(events, n)'
  BY <1>1, <1>4, ApplyMoves
<1>6. \A i \in 1..Len(store'.logs) :
        (\E k \in 1..Len(store.logs) : store'.logs[i] = store.logs[k]) \/ IsMessage(e, store'.logs[i])
  BY <1>1, ApplyLogs
<1>7. \A s \in store.strategies : s \in store'.strategies \/ Leaving(s)'
  <2>1. store'.strategies = IF e.kind = "strategy" THEN store.strategies \cup {e.id}
                           ELSE IF e.kind = "remove" THEN store.strategies \ {e.id}
                           ELSE store.strategies
    BY <1>1, StoredIs DEF DashTypes
  <2>2. \A s : IsRemove(e, s) => Leaving(s)'
    BY <1>1 DEF Leaving
  <2>. QED  BY <2>1, <2>2 DEF IsRemove
<1>8. ASSUME NEW v \in Viewers, view[v].on, NEW i \in 1..Len(store'.logs)
      PROVE  \/ \E j \in 1..Len(view[v].logs) : view[v].logs[j] = store'.logs[i]
             \/ OnItsWay(store.logs[i])'
  <2>1. PICK n : n = store'.logs[i]
    OBVIOUS
  <2>2. (\E j \in 1..Len(view[v].logs) : view[v].logs[j] = n) \/ OnItsWay(n)'
    BY <1>2, <1>4, <1>6, <1>8, <2>1 DEF Viewed
  <2>. QED  BY <2>1, <2>2
<1>9. ASSUME NEW v \in Viewers, view[v].on, NEW i \in 1..Len(view[v].logs),
             NEW n \in 1..messages, n > view[v].logs[i]
      PROVE  \/ \E j \in 1..Len(view[v].logs) : view[v].logs[j] = n
             \/ OnItsWay(n)' \/ MessageIn(events, n)'
  BY <1>2, <1>5, <1>9 DEF Viewed
<1>10. ASSUME NEW v \in Viewers, view[v].on, NEW s \in view[v].strategies
       PROVE  s \in store'.strategies \/ Leaving(s)'
  BY <1>3, <1>7, <1>10 DEF Viewed
<1>11. view' = view /\ messages' = messages
  BY <1>1
<1>. QED  BY <1>8, <1>9, <1>10, <1>11 DEF Viewed

LEMMA ApplyPriced ==
  ASSUME DashTypes, Priced, Apply
  PROVE  Priced'
<1>1. PICK e \in Event :
           /\ current = Nothing /\ current' = e /\ e = events[1]
           /\ Len(events) \in Nat /\ Len(events) >= 1 /\ Len(events') = Len(events) - 1
           /\ events' \in Seq(Event)
           /\ \A i \in 1..Len(events) - 1 : events'[i] = events[i + 1]
           /\ store' = Stored(e)
           /\ UNCHANGED <<recent, told, view, dropped, prices, messages, known>>
  BY ApplyIs
<1>2. store'.price = IF e.kind = "price" THEN e.n ELSE store.price
  BY <1>1, StoredIs DEF DashTypes
<1>3. CASE e.kind = "price"
  BY <1>1, <1>2, <1>3 DEF Priced, IsPrice
<1>4. CASE e.kind # "price"
  BY <1>1, <1>2, <1>4, NothingIs DEF Priced, IsPrice
<1>. QED  BY <1>3, <1>4

LEMMA ApplyOrder ==
  ASSUME DashTypes, Numbered, Sequenced, Following, Apply
  PROVE  Sequenced' /\ Following'
<1>1. PICK e \in Event :
           /\ current = Nothing /\ current' = e /\ e = events[1]
           /\ Len(events) \in Nat /\ Len(events) >= 1 /\ Len(events') = Len(events) - 1
           /\ events' \in Seq(Event)
           /\ \A i \in 1..Len(events) - 1 : events'[i] = events[i + 1]
           /\ store' = Stored(e)
           /\ UNCHANGED <<recent, told, view, dropped, prices, messages, known>>
  BY ApplyIs
<1>2. 1 \in 1..Len(events)
  BY <1>1
<1>3. \A j \in 1..Len(events') : j + 1 \in 1..Len(events) /\ events'[j] = events[j + 1] /\ 1 < j + 1
  BY <1>1
<1>4. \A m : (\A j \in 1..Len(events) : events[j].kind = "message" => m < events[j].n) =>
          /\ current'.kind = "message" => m < current'.n
          /\ \A j \in 1..Len(events') : events'[j].kind = "message" => m < events'[j].n
  BY <1>1, <1>2, <1>3
<1>5. current'.kind = "message" =>
        /\ current'.n <= messages
        /\ \A j \in 1..Len(events') : events'[j].kind = "message" => current'.n < events'[j].n
  BY <1>1, <1>2, <1>3 DEF Numbered
<1>6. Sequenced'
  BY <1>1, <1>4, <1>5 DEF Sequenced
<1>7. \A n : OnItsWay(n) => OnItsWay(n)'
  <2>1. \A n : ~IsMessage(current, n)
    BY <1>1, NothingIs DEF IsMessage
  <2>. QED  BY <1>1, <2>1 DEF OnItsWay, MessageIn
<1>8. \A n : MessageIn(events, n) => OnItsWay(n)' \/ MessageIn(events, n)'
  BY ApplyMoves DEF OnItsWay
<1>9. \A m \in Nat : Reaches(m) => Reaches(m)'
  BY <1>1, <1>7, <1>8 DEF Reaches
<1>10. \A m \in Nat : m <= messages /\ Later(m) => Later(m)'
  BY <1>1, <1>4 DEF Later
<1>. QED  BY <1>1, <1>6, <1>9, <1>10, FollowingKept

LEMMA ApplyStep == ASSUME DashInv, Apply PROVE DashInv'
  BY ApplyTypes, ApplyFiling, ApplyNumbered, ApplyViewed, ApplyPriced, ApplyOrder DEF DashInv

-----------------------------------------------------------------------------
(* The current event is told, or dropped.                                  *)

LEMMA NotifyIs ==
  ASSUME DashTypes, Notify
  PROVE  /\ current \in Event /\ current' = Nothing /\ Len(told) \in Nat
         /\ UNCHANGED <<events, store, view, prices, messages, known>>
         /\ \/ current.kind = "price" /\ dropped' = current.n /\ UNCHANGED <<recent, told>>
            \/ /\ told' \in Seq(Event) /\ Len(told') = Len(told) + 1
               /\ \A i \in 1..Len(told) : told'[i] = told[i]
               /\ told'[Len(told) + 1] = current
               /\ dropped' = dropped /\ recent' \in BOOLEAN
<1>1. current \in Event /\ current' = Nothing /\ told \in Seq(Event) /\ Len(told) \in Nat
  BY LenProperties DEF DashTypes, Notify
<1>2. UNCHANGED <<events, store, view, prices, messages, known>>
  BY DEF Notify, dashProducer
<1>3. CASE current.kind = "price" /\ recent
  BY <1>1, <1>2, <1>3 DEF Notify
<1>4. CASE ~ (current.kind = "price" /\ recent)
  <2>1. told' = Append(told, current) /\ dropped' = dropped /\ recent' = (recent \/ current.kind = "price")
    BY <1>4 DEF Notify
  <2>2. recent' \in BOOLEAN
    BY <2>1, Zenon
  <2>. QED  BY <1>1, <1>2, <2>1, <2>2, Longer
<1>. QED  BY <1>3, <1>4

\* What was on its way to the viewers still is.
LEMMA NotifyMoves ==
  ASSUME DashTypes, Notify
  PROVE  /\ \A n : OnItsWay(n) => OnItsWay(n)'
         /\ \A s : Leaving(s) => Leaving(s)'
<1>1. /\ Len(told) \in Nat
      /\ \/ current.kind = "price" /\ UNCHANGED told
         \/ /\ Len(told') = Len(told) + 1
            /\ \A i \in 1..Len(told) : told'[i] = told[i]
            /\ told'[Len(told) + 1] = current
  BY NotifyIs
<1>2. CASE current.kind = "price" /\ UNCHANGED told
  BY <1>2 DEF OnItsWay, Leaving, MessageIn, IsMessage, IsRemove
<1>3. CASE /\ Len(told') = Len(told) + 1
           /\ \A i \in 1..Len(told) : told'[i] = told[i]
           /\ told'[Len(told) + 1] = current
  <2>1. Len(told) + 1 \in 1..Len(told') /\ \A i \in 1..Len(told) : i \in 1..Len(told')
    BY <1>1, <1>3
  <2>2. ASSUME NEW n, OnItsWay(n) PROVE MessageIn(told, n)'
    BY <1>3, <2>1, <2>2 DEF OnItsWay, MessageIn
  <2>3. ASSUME NEW s, Leaving(s) PROVE \E i \in 1..Len(told') : IsRemove(told'[i], s)
    BY <1>3, <2>1, <2>3 DEF Leaving
  <2>. QED  BY <2>2, <2>3 DEF OnItsWay, Leaving
<1>. QED  BY <1>1, <1>2, <1>3

LEMMA NotifyNumbered ==
  ASSUME DashTypes, Numbered, Notify
  PROVE  Numbered'
<1>1. /\ current \in Event /\ current' = Nothing /\ Len(told) \in Nat
      /\ UNCHANGED <<events, store, messages>>
      /\ \/ current.kind = "price" /\ UNCHANGED told
         \/ /\ Len(told') = Len(told) + 1
            /\ \A i \in 1..Len(told) : told'[i] = told[i]
            /\ told'[Len(told) + 1] = current
  BY NotifyIs
<1>2. \A n : MessageIn(events, n)' <=> MessageIn(events, n)
  BY <1>1 DEF MessageIn
<1>3. current'.kind # "message"
  BY <1>1, NothingIs
<1>4. ASSUME NEW i \in 1..Len(told'), told'[i].kind = "message", NEW n \in 1..messages, n > told'[i].n
      PROVE  (\E j \in 1..Len(told') : i < j /\ IsMessage(told'[j], n)) \/ MessageIn(events, n)
  <2>1. CASE current.kind = "price" /\ UNCHANGED told
    <3>1. ~IsMessage(current, n)
      BY <2>1 DEF IsMessage
    <3>. QED  BY <1>4, <2>1, <3>1 DEF Numbered
  <2>2. CASE /\ Len(told') = Len(told) + 1
             /\ \A k \in 1..Len(told) : told'[k] = told[k]
             /\ told'[Len(told) + 1] = current
    <3>1. CASE i = Len(told) + 1
      BY <1>4, <2>2, <3>1 DEF Numbered
    <3>2. CASE i \in 1..Len(told)
      <4>1. told'[i] = told[i] /\ i < Len(told) + 1 /\ Len(told) + 1 \in 1..Len(told')
        BY <1>1, <2>2, <3>2
      <4>2. \/ \E j \in 1..Len(told) : i < j /\ IsMessage(told[j], n)
            \/ IsMessage(current, n) \/ MessageIn(events, n)
        BY <1>4, <3>2, <4>1 DEF Numbered
      <4>3. \A j \in 1..Len(told) : j \in 1..Len(told') /\ told'[j] = told[j]
        BY <1>1, <2>2
      <4>. QED  BY <2>2, <4>1, <4>2, <4>3
    <3>. QED  BY <1>1, <2>2, <3>1, <3>2
  <2>. QED  BY <1>1, <2>1, <2>2
<1>. QED  BY <1>1, <1>2, <1>3, <1>4 DEF Numbered

LEMMA NotifyPriced ==
  ASSUME DashTypes, Priced, Notify
  PROVE  Priced'
<1>1. /\ current \in Event /\ current' = Nothing /\ Len(told) \in Nat
      /\ UNCHANGED <<store, view>>
      /\ \/ current.kind = "price" /\ dropped' = current.n /\ UNCHANGED told
         \/ /\ Len(told') = Len(told) + 1
            /\ \A i \in 1..Len(told) : told'[i] = told[i]
            /\ told'[Len(told) + 1] = current
            /\ dropped' = dropped
  BY NotifyIs
<1>2. current'.kind # "price"
  BY <1>1, NothingIs
<1>3. CASE current.kind = "price" /\ dropped' = current.n /\ UNCHANGED told
  BY <1>1, <1>2, <1>3 DEF Priced, IsPrice
<1>4. CASE /\ Len(told') = Len(told) + 1
           /\ \A i \in 1..Len(told) : told'[i] = told[i]
           /\ told'[Len(told) + 1] = current
           /\ dropped' = dropped
  <2>1. Len(told) + 1 \in 1..Len(told') /\ \A i \in 1..Len(told') : i = Len(told) + 1 \/ i \in 1..Len(told)
    BY <1>1, <1>4
  <2>2. CASE IsPrice(current, store.price)
    <3>1. \A j \in 1..Len(told') : ~ (Len(told) + 1 < j)
      BY <1>1, <1>4
    <3>. QED  BY <1>1, <1>2, <1>4, <2>1, <2>2, <3>1 DEF Priced
  <2>3. CASE current.kind # "price" /\ dropped = store.price
    BY <1>1, <1>2, <1>4, <2>3 DEF Priced
  <2>4. CASE /\ current.kind # "price"
             /\ \E i \in 1..Len(told) :
                  /\ IsPrice(told[i], store.price)
                  /\ \A j \in 1..Len(told) : i < j => told[j].kind # "price"
    <3>1. PICK i \in 1..Len(told) :
                  /\ IsPrice(told[i], store.price)
                  /\ \A j \in 1..Len(told) : i < j => told[j].kind # "price"
      BY <2>4
    <3>2. i \in 1..Len(told') /\ told'[i] = told[i]
      BY <1>1, <1>4
    <3>3. \A j \in 1..Len(told') : i < j => told'[j].kind # "price"
      BY <1>4, <2>1, <2>4, <3>1
    <3>. QED  BY <1>1, <1>2, <3>1, <3>2, <3>3 DEF Priced
  <2>5. CASE /\ current.kind # "price"
             /\ \A j \in 1..Len(told) : told[j].kind # "price"
             /\ \A v \in Viewers : view[v].on => view[v].price = store.price
    <3>1. \A j \in 1..Len(told') : told'[j].kind # "price"
      BY <1>4, <2>1, <2>5
    <3>. QED  BY <1>1, <1>2, <2>5, <3>1 DEF Priced
  <2>. QED  BY <2>2, <2>3, <2>4, <2>5 DEF Priced
<1>. QED  BY <1>1, <1>3, <1>4

LEMMA NotifyOrder ==
  ASSUME DashTypes, Sequenced, Following, Notify
  PROVE  Sequenced' /\ Following'
<1>1. /\ current \in Event /\ current' = Nothing /\ Len(told) \in Nat
      /\ UNCHANGED <<events, view, messages>>
      /\ \/ current.kind = "price" /\ UNCHANGED told
         \/ /\ Len(told') = Len(told) + 1
            /\ \A i \in 1..Len(told) : told'[i] = told[i]
            /\ told'[Len(told) + 1] = current
  BY NotifyIs
<1>2. current'.kind # "message"
  BY <1>1, NothingIs
<1>3. \A i \in 1..Len(told') : told'[i].kind = "message" =>
        \/ i \in 1..Len(told) /\ told'[i] = told[i]
        \/ i = Len(told) + 1 /\ told'[i] = current
  BY <1>1
<1>4. \A i, j \in 1..Len(told') : i < j => i \in 1..Len(told) \/ current.kind = "price"
  BY <1>1
<1>5. Sequenced'
  <2>1. ASSUME NEW i \in 1..Len(told'), told'[i].kind = "message"
        PROVE  /\ told'[i].n <= messages
               /\ \A j \in 1..Len(events) : events[j].kind = "message" => told'[i].n < events[j].n
    BY <1>3, <2>1 DEF Sequenced
  <2>2. ASSUME NEW i \in 1..Len(told'), NEW j \in 1..Len(told'), i < j,
               told'[i].kind = "message", told'[j].kind = "message"
        PROVE  told'[i].n < told'[j].n
    <3>1. i # Len(told) + 1 \/ UNCHANGED told
      BY <1>1, <2>2
    <3>2. i \in 1..Len(told) /\ told'[i] = told[i]
      BY <1>1, <1>3, <2>2, <3>1
    <3>. QED  BY <1>3, <2>2, <3>2 DEF Sequenced
  <2>. QED  BY <1>1, <1>2, <2>1, <2>2 DEF Sequenced
<1>6. \A n : MessageIn(events, n)' <=> MessageIn(events, n)
  BY <1>1 DEF MessageIn
<1>7. \A m \in Nat : Reaches(m) => Reaches(m)'
  BY <1>1, <1>6, NotifyMoves DEF Reaches
<1>8. \A m \in Nat : m <= messages /\ Later(m) => Later(m)'
  BY <1>1, <1>2, <1>3 DEF Later
<1>. QED  BY <1>1, <1>5, <1>7, <1>8, FollowingKept

LEMMA NotifyStep == ASSUME DashInv, Notify PROVE DashInv'
<1>1. DashTypes /\ Filing /\ Numbered /\ Viewed /\ Priced /\ Sequenced /\ Following
  BY DEF DashInv
<1>2. /\ current' = Nothing /\ UNCHANGED <<events, store, view, prices, messages, known>>
      /\ told' \in Seq(Event) /\ recent' \in BOOLEAN
  BY <1>1, NotifyIs DEF DashTypes
<1>3. DashTypes'
  BY <1>1, <1>2 DEF DashTypes
<1>4. Filing'
  BY <1>1, <1>2 DEF Filing
<1>5. \A n : MessageIn(events, n)' <=> MessageIn(events, n)
  BY <1>2 DEF MessageIn
<1>6. Viewed'
  BY <1>1, <1>2, <1>5, NotifyMoves DEF Viewed
<1>. QED  BY <1>1, <1>3, <1>4, <1>6, NotifyNumbered, NotifyPriced, NotifyOrder DEF DashInv

-----------------------------------------------------------------------------
(* Viewers.                                                                *)

\* A snapshot is the beginning of what follows it.
LEMMA SnapshotFollows ==
  ASSUME DashTypes, Numbered, NEW w, w.logs = store.logs, w.had = Len(store.logs)
  PROVE  Follows(w)
<1>1. PICK l : l = store.logs
  OBVIOUS
<1>2. Len(l) \in Nat /\ (\A i \in 1..Len(l) : l[i] \in Nat) /\ messages \in Nat
  BY <1>1, LogAt DEF DashTypes
<1>3. /\ \A i, j \in 1..Len(l) : i < j => l[i] < l[j]
      /\ \A i \in 1..Len(l) : l[i] <= messages
      /\ \A i \in 1..Len(l), j \in 1..Len(events) : events[j].kind = "message" => l[i] < events[j].n
      /\ \A i \in 1..Len(l), n \in 1..messages : n > l[i] =>
           (\E j \in 1..Len(l) : l[j] = n) \/ MessageIn(events, n)
  BY <1>1 DEF Numbered
<1>4. \A i \in 1..Len(l) : \A n : MessageIn(events, n) => l[i] < n
  BY <1>3 DEF MessageIn, IsMessage
<1>5. ASSUME NEW i \in 1..Len(l) - 1 PROVE l[i + 1] = l[i] + 1
  <2>1. i \in 1..Len(l) /\ i + 1 \in 1..Len(l) /\ i < i + 1
    BY <1>2
  <2>2. PICK a, b : a = l[i] /\ b = l[i + 1]
    OBVIOUS
  <2>3. a \in Nat /\ b \in Nat /\ a < b /\ b <= messages
    BY <1>2, <1>3, <2>1, <2>2
  <2>4. ASSUME a + 1 < b PROVE FALSE
    <3>1. PICK n : n = a + 1
      OBVIOUS
    <3>2. n \in 1..messages /\ a < n /\ n < b
      BY <1>2, <2>3, <2>4, <3>1
    <3>3. ~MessageIn(events, n)
      BY <1>4, <2>1, <2>2, <2>3, <3>2
    <3>4. PICK j \in 1..Len(l) : l[j] = n
      BY <1>3, <2>1, <2>2, <3>2, <3>3
    <3>5. j < i \/ j = i \/ j = i + 1 \/ i + 1 < j
      BY <2>1
    <3>6. CASE j < i
      <4>1. n < a
        BY <1>3, <2>1, <2>2, <3>4, <3>6
      <4>. QED  BY <2>3, <3>2, <4>1
    <3>7. CASE i + 1 < j
      <4>1. b < n
        BY <1>3, <2>1, <2>2, <3>4, <3>7
      <4>. QED  BY <2>3, <3>2, <4>1
    <3>. QED  BY <2>2, <2>3, <3>2, <3>4, <3>5, <3>6, <3>7
  <2>. QED  BY <2>2, <2>3, <2>4
<1>6. ASSUME Len(l) > 0 PROVE Reaches(l[Len(l)])
  <2>1. Len(l) \in 1..Len(l)
    BY <1>2, <1>6
  <2>2. ASSUME NEW n \in 1..messages, n > l[Len(l)] PROVE MessageIn(events, n)
    <3>1. ASSUME NEW j \in 1..Len(l), l[j] = n PROVE FALSE
      <4>1. j < Len(l) \/ j = Len(l)
        BY <1>2
      <4>2. j < Len(l) => l[j] < l[Len(l)]
        BY <1>3, <2>1
      <4>. QED  BY <1>2, <2>1, <2>2, <3>1, <4>1, <4>2
    <3>. QED  BY <1>3, <2>1, <2>2, <3>1
  <2>. QED  BY <1>3, <2>1, <2>2 DEF Reaches
<1>7. w.logs = l /\ w.had = Len(l)
  BY <1>1
<1>8. InOrder(w)
  BY <1>5, <1>7 DEF InOrder
<1>. QED  BY <1>2, <1>6, <1>7, <1>8 DEF Follows

LEMMA ViewerStep ==
  ASSUME DashInv, NEW v \in Viewers, ViewerComes(v) \/ ViewerGoes(v)
  PROVE  DashInv'
<1>1. DashTypes /\ Filing /\ Numbered /\ Viewed /\ Priced /\ Sequenced /\ Following
  BY DEF DashInv
<1>2. UNCHANGED <<events, current, store, recent, told, dropped, prices, messages, known>>
  BY DEF ViewerComes, ViewerGoes, dashProducer
<1>3. PICK w : /\ view' = [view EXCEPT ![v] = w]
              /\ \/ /\ w.on = TRUE /\ w.price = store.price /\ w.logs = store.logs
                    /\ w.strategies = store.strategies /\ w \in View /\ w.had = Len(store.logs)
                 \/ w.on = FALSE /\ w \in View
  <2>1. CASE ViewerComes(v)
    <3>1. /\ store.price \in Nat /\ store.logs \in Seq(Nat) /\ store.strategies \subseteq StrategyIds
          /\ Len(store.logs) \in Nat
      BY <1>1, StoreFields, LogAt DEF DashTypes
    <3>2. PICK w : w = [price |-> store.price, logs |-> store.logs, had |-> Len(store.logs),
                        strategies |-> store.strategies, on |-> TRUE]
      OBVIOUS
    <3>3. w \in View /\ w.on = TRUE /\ w.price = store.price /\ w.logs = store.logs
          /\ w.strategies = store.strategies /\ w.had = Len(store.logs)
      BY <3>1, <3>2 DEF View
    <3>. QED  BY <2>1, <3>2, <3>3 DEF ViewerComes
  <2>2. CASE ViewerGoes(v)
    <3>1. <<>> \in Seq(Nat)
      BY EmptySeq
    <3>2. NoView \in View /\ NoView.on = FALSE
      BY <3>1 DEF NoView, View
    <3>. QED  BY <2>2, <3>2 DEF ViewerGoes
  <2>. QED  BY <2>1, <2>2
<1>4. /\ view' \in [Viewers -> View] /\ view'[v] = w
      /\ \A u \in Viewers \ {v} : view'[u] = view[u]
  BY <1>1, <1>3 DEF DashTypes
<1>5. DashTypes'
  BY <1>1, <1>2, <1>4 DEF DashTypes
<1>6. Filing'
  BY <1>1, <1>2 DEF Filing
<1>7. \A n : (MessageIn(events, n)' <=> MessageIn(events, n)) /\ (OnItsWay(n)' <=> OnItsWay(n))
  BY <1>2 DEF MessageIn, OnItsWay
<1>8. \A s : Leaving(s)' <=> Leaving(s)
  BY <1>2 DEF Leaving
<1>9. Numbered'
  BY <1>1, <1>2, <1>7 DEF Numbered
<1>10. Viewed'
  <2>1. ASSUME NEW u \in Viewers, view'[u].on, NEW i \in 1..Len(store.logs)
        PROVE  (\E j \in 1..Len(view'[u].logs) : view'[u].logs[j] = store.logs[i]) \/ OnItsWay(store.logs[i])
    BY <1>1, <1>3, <1>4, <2>1 DEF Viewed
  <2>2. ASSUME NEW u \in Viewers, view'[u].on, NEW i \in 1..Len(view'[u].logs), NEW n \in 1..messages,
               n > view'[u].logs[i]
        PROVE  (\E j \in 1..Len(view'[u].logs) : view'[u].logs[j] = n) \/ OnItsWay(n) \/ MessageIn(events, n)
    <3>1. CASE u # v
      <4>1. view'[u] = view[u]
        BY <1>4, <3>1
      <4>. QED  BY <1>1, <2>2, <4>1 DEF Viewed
    <3>2. CASE u = v
      <4>1. view'[u].logs = store.logs
        BY <1>3, <1>4, <2>2, <3>2
      <4>. QED  BY <1>1, <2>2, <4>1 DEF Numbered
    <3>. QED  BY <3>1, <3>2
  <2>3. ASSUME NEW u \in Viewers, view'[u].on, NEW s \in view'[u].strategies
        PROVE  s \in store.strategies \/ Leaving(s)
    BY <1>1, <1>3, <1>4, <2>3 DEF Viewed
  <2>. QED  BY <1>2, <1>7, <1>8, <2>1, <2>2, <2>3 DEF Viewed
<1>11. Priced'
  <2>1. ASSUME \A u \in Viewers : view[u].on => view[u].price = store.price
        PROVE  \A u \in Viewers : view'[u].on => view'[u].price = store.price
    BY <1>3, <1>4, <2>1
  <2>. QED  BY <1>1, <1>2, <2>1 DEF Priced
<1>12. Sequenced'
  BY <1>1, <1>2 DEF Sequenced
<1>13. Following'
  <2>1. ASSUME NEW u \in Viewers, view'[u].on PROVE Follows(view[u]')
    <3>1. CASE u # v
      BY <1>1, <1>4, <2>1, <3>1 DEF Following
    <3>2. CASE u = v
      <4>1. w.logs = store.logs /\ w.had = Len(store.logs)
        BY <1>3, <1>4, <2>1, <3>2
      <4>. QED  BY <1>1, <1>4, <3>2, <4>1, SnapshotFollows
    <3>. QED  BY <3>1, <3>2
  <2>2. \A m : (Reaches(m)' <=> Reaches(m)) /\ (Later(m)' <=> Later(m))
    BY <1>2, <1>7 DEF Reaches, Later
  <2>3. ASSUME NEW u \in Viewers, view'[u].on PROVE Follows(view[u])'
    BY <2>1, <2>2, <2>3 DEF Follows, InOrder
  <2>. QED  BY <2>3 DEF Following
<1>. QED  BY <1>5, <1>6, <1>9, <1>10, <1>11, <1>12, <1>13 DEF DashInv

-----------------------------------------------------------------------------
(* The clock, and a broadcast.                                             *)

LEMMA ElapseStep == ASSUME DashInv, Elapse PROVE DashInv'
<1>1. DashTypes /\ Filing /\ Numbered /\ Viewed /\ Priced /\ Sequenced /\ Following
  BY DEF DashInv
<1>2. /\ UNCHANGED <<events, current, store, told, view, dropped, prices, messages, known>>
      /\ recent' = FALSE
  BY DEF Elapse, dashProducer
<1>3. DashTypes'
  BY <1>1, <1>2 DEF DashTypes
<1>4. Filing'
  BY <1>1, <1>2 DEF Filing
<1>5. \A n : (MessageIn(events, n)' <=> MessageIn(events, n)) /\ (OnItsWay(n)' <=> OnItsWay(n))
  BY <1>2 DEF MessageIn, OnItsWay
<1>6. \A s : Leaving(s)' <=> Leaving(s)
  BY <1>2 DEF Leaving
<1>7. Numbered'
  BY <1>1, <1>2, <1>5 DEF Numbered
<1>8. Viewed'
  BY <1>1, <1>2, <1>5, <1>6 DEF Viewed
<1>9. Priced'
  BY <1>1, <1>2 DEF Priced
<1>10. Sequenced'
  BY <1>1, <1>2 DEF Sequenced
<1>11. Following'
  <2>1. \A m : (Reaches(m)' <=> Reaches(m)) /\ (Later(m)' <=> Later(m))
    BY <1>2, <1>5 DEF Reaches, Later
  <2>. QED  BY <1>1, <1>2, <2>1, FollowingKept
<1>. QED  BY <1>3, <1>4, <1>7, <1>8, <1>9, <1>10, <1>11 DEF DashInv

\* What an event makes of what a viewer has.
LEMMA ShownIs ==
  ASSUME NEW w \in View, NEW e \in Event, NEW t, t = Shown(w, e)
  PROVE  /\ t \in View /\ t.on = w.on /\ t.had = w.had
         /\ t.price = IF w.on /\ e.kind = "price" THEN e.n ELSE w.price
         /\ t.logs = IF w.on /\ e.kind = "message" THEN Append(w.logs, e.n) ELSE w.logs
         /\ t.strategies = IF w.on /\ e.kind = "remove" THEN w.strategies \ {e.id} ELSE w.strategies
<1>1. /\ w.price \in Nat /\ w.logs \in Seq(Nat) /\ w.strategies \subseteq StrategyIds
      /\ w.on \in BOOLEAN /\ w.had \in Nat
  BY DEF View
<1>2. CASE ~w.on
  <2>1. t = w
    BY <1>2 DEF Shown
  <2>. QED  BY <1>2, <2>1
<1>3. CASE w.on /\ e.kind = "price"
  <2>1. e.n \in Nat /\ t = [w EXCEPT !.price = e.n]
    BY <1>3, Carries DEF Shown
  <2>. QED  BY <1>3, <2>1 DEF View
<1>4. CASE w.on /\ e.kind = "message"
  <2>1. PICK l : l = Append(w.logs, e.n)
    OBVIOUS
  <2>2. l \in Seq(Nat)
    BY <1>1, <1>4, <2>1, Carries, AppendProperties
  <2>3. t = [w EXCEPT !.logs = l]
    BY <1>4, <2>1 DEF Shown, View
  <2>. QED  BY <1>4, <2>1, <2>2, <2>3 DEF View
<1>5. CASE w.on /\ e.kind = "remove"
  <2>1. PICK d : d = w.strategies \ {e.id}
    OBVIOUS
  <2>2. d \subseteq StrategyIds
    BY <1>1, <2>1
  <2>3. t = [w EXCEPT !.strategies = d]
    BY <1>5, <2>1 DEF Shown, View
  <2>. QED  BY <1>5, <2>1, <2>2, <2>3 DEF View
<1>6. CASE w.on /\ e.kind \notin {"price", "message", "remove"}
  <2>1. t = w
    BY <1>6 DEF Shown
  <2>. QED  BY <1>6, <2>1
<1>. QED  BY <1>2, <1>3, <1>4, <1>5, <1>6

LEMMA BroadcastIs ==
  ASSUME DashTypes, Broadcast
  PROVE  \E e \in Event :
           /\ e = told[1] /\ Len(told) \in Nat /\ Len(told) >= 1 /\ Len(told') = Len(told) - 1
           /\ told' \in Seq(Event)
           /\ \A i \in 1..Len(told) - 1 : told'[i] = told[i + 1]
           /\ view' \in [Viewers -> View]
           /\ \A v \in Viewers :
                /\ view'[v].on = view[v].on /\ view'[v].had = view[v].had
                /\ view'[v].price = IF view[v].on /\ e.kind = "price" THEN e.n ELSE view[v].price
                /\ view'[v].logs = IF view[v].on /\ e.kind = "message"
                                     THEN Append(view[v].logs, e.n) ELSE view[v].logs
                /\ view'[v].strategies = IF view[v].on /\ e.kind = "remove"
                                           THEN view[v].strategies \ {e.id} ELSE view[v].strategies
           /\ UNCHANGED <<events, current, store, recent, dropped, prices, messages, known>>
<1>1. told \in Seq(Event) /\ told # <<>> /\ told' = Tail(told) /\ view \in [Viewers -> View]
  BY DEF DashTypes, Broadcast
<1>2. PICK e : e = Head(told)
  OBVIOUS
<1>3. /\ e \in Event /\ e = told[1] /\ Len(told) \in Nat /\ Len(told) >= 1
      /\ Len(told') = Len(told) - 1 /\ told' \in Seq(Event)
      /\ \A i \in 1..Len(told) - 1 : told'[i] = told[i + 1]
  BY <1>1, <1>2, Shorter
<1>4. view' = IF Serialisable(e) THEN [v \in Viewers |-> Shown(view[v], e)] ELSE view
  BY <1>2 DEF Broadcast
<1>5. UNCHANGED <<events, current, store, recent, dropped, prices, messages, known>>
  BY DEF Broadcast, dashProducer
<1>6. ASSUME NEW v \in Viewers
      PROVE  /\ view'[v] \in View /\ view'[v].on = view[v].on /\ view'[v].had = view[v].had
             /\ view'[v].price = IF view[v].on /\ e.kind = "price" THEN e.n ELSE view[v].price
             /\ view'[v].logs = IF view[v].on /\ e.kind = "message"
                                  THEN Append(view[v].logs, e.n) ELSE view[v].logs
             /\ view'[v].strategies = IF view[v].on /\ e.kind = "remove"
                                        THEN view[v].strategies \ {e.id} ELSE view[v].strategies
  <2>1. view[v] \in View
    BY <1>1
  <2>2. CASE Serialisable(e)
    <3>1. PICK w, t : w = view[v] /\ t = view'[v]
      OBVIOUS
    <3>2. t = Shown(w, e) /\ w \in View /\ e \in Event
      BY <1>3, <1>4, <2>1, <2>2, <3>1
    <3>3. /\ t \in View /\ t.on = w.on /\ t.had = w.had
          /\ t.price = IF w.on /\ e.kind = "price" THEN e.n ELSE w.price
          /\ t.logs = IF w.on /\ e.kind = "message" THEN Append(w.logs, e.n) ELSE w.logs
          /\ t.strategies = IF w.on /\ e.kind = "remove" THEN w.strategies \ {e.id} ELSE w.strategies
      BY <3>2, ShownIs
    <3>. QED  BY <3>1, <3>3
  <2>3. CASE ~Serialisable(e)
    <3>1. view'[v] = view[v] /\ e.kind \notin {"price", "message", "remove"}
      BY <1>4, <2>3 DEF Serialisable
    <3>. QED  BY <2>1, <3>1
  <2>. QED  BY <2>2, <2>3
<1>7. view' \in [Viewers -> View]
  <2>1. CASE Serialisable(e)
    <3>1. view' = [v \in Viewers |-> Shown(view[v], e)]
      BY <1>4, <2>1
    <3>2. \A v \in Viewers : Shown(view[v], e) \in View
      BY <1>6, <3>1
    <3>. QED  BY <3>1, <3>2
  <2>2. CASE ~Serialisable(e)
    BY <1>1, <1>4, <2>2
  <2>. QED  BY <2>1, <2>2
<1>. QED  BY <1>3, <1>5, <1>6, <1>7

\* What was on its way arrives, or still is on its way.
LEMMA BroadcastMoves ==
  ASSUME DashTypes, Broadcast
  PROVE  /\ \A n, i : i \in 1..Len(told) /\ IsMessage(told[i], n) =>
              \/ i = 1
              \/ i - 1 \in 1..Len(told') /\ IsMessage(told'[i - 1], n)
         /\ \A n : OnItsWay(n) => IsMessage(told[1], n) \/ OnItsWay(n)'
         /\ \A s : Leaving(s) => IsRemove(told[1], s) \/ Leaving(s)'
<1>1. /\ Len(told) \in Nat /\ Len(told) >= 1 /\ Len(told') = Len(told) - 1
      /\ \A i \in 1..Len(told) - 1 : told'[i] = told[i + 1]
      /\ current' = current
  BY BroadcastIs
<1>2. \A i \in 1..Len(told) : i = 1 \/ (i - 1 \in 1..Len(told') /\ told'[i - 1] = told[i])
  <2>1. ASSUME NEW i \in 1..Len(told), i # 1 PROVE i - 1 \in 1..Len(told') /\ told'[i - 1] = told[i]
    <3>1. i - 1 \in 1..Len(told) - 1 /\ (i - 1) + 1 = i
      BY <1>1, <2>1
    <3>. QED  BY <1>1, <3>1
  <2>. QED  BY <2>1
<1>3. \A n, i : i \in 1..Len(told) /\ IsMessage(told[i], n) =>
         \/ i = 1
         \/ i - 1 \in 1..Len(told') /\ IsMessage(told'[i - 1], n)
  BY <1>2
<1>4. ASSUME NEW n, OnItsWay(n) PROVE IsMessage(told[1], n) \/ OnItsWay(n)'
  BY <1>1, <1>3, <1>4 DEF OnItsWay, MessageIn
<1>5. ASSUME NEW s, Leaving(s) PROVE IsRemove(told[1], s) \/ Leaving(s)'
  BY <1>1, <1>2, <1>5 DEF Leaving
<1>. QED  BY <1>3, <1>4, <1>5

LEMMA BroadcastNumbered ==
  ASSUME DashTypes, Numbered, Broadcast
  PROVE  Numbered'
<1>1. /\ Len(told) \in Nat /\ Len(told) >= 1 /\ Len(told') = Len(told) - 1
      /\ \A i \in 1..Len(told) - 1 : told'[i] = told[i + 1]
      /\ UNCHANGED <<events, current, store, messages>>
  BY BroadcastIs
<1>2. \A n : MessageIn(events, n)' <=> MessageIn(events, n)
  BY <1>1 DEF MessageIn
<1>3. ASSUME NEW i \in 1..Len(told'), told'[i].kind = "message", NEW n \in 1..messages, n > told'[i].n
      PROVE  \/ \E j \in 1..Len(told') : i < j /\ IsMessage(told'[j], n)
             \/ IsMessage(current, n) \/ MessageIn(events, n)
  <2>1. i + 1 \in 1..Len(told) /\ told'[i] = told[i + 1]
    BY <1>1
  <2>2. \/ \E j \in 1..Len(told) : i + 1 < j /\ IsMessage(told[j], n)
        \/ IsMessage(current, n) \/ MessageIn(events, n)
    BY <1>3, <2>1 DEF Numbered
  <2>3. ASSUME NEW j \in 1..Len(told), i + 1 < j, IsMessage(told[j], n)
        PROVE  \E k \in 1..Len(told') : i < k /\ IsMessage(told'[k], n)
    <3>1. j # 1 /\ i < j - 1
      BY <1>1, <2>3
    <3>2. j - 1 \in 1..Len(told') /\ IsMessage(told'[j - 1], n)
      BY <2>3, <3>1, BroadcastMoves
    <3>. QED  BY <3>1, <3>2
  <2>. QED  BY <2>2, <2>3
<1>. QED  BY <1>1, <1>2, <1>3 DEF Numbered

LEMMA BroadcastViewed ==
  ASSUME DashTypes, Numbered, Viewed, Broadcast
  PROVE  Viewed'
<1>1. PICK e \in Event :
           /\ e = told[1] /\ Len(told) \in Nat /\ Len(told) >= 1
           /\ \A v \in Viewers :
                /\ view'[v].on = view[v].on /\ view'[v].had = view[v].had
                /\ view'[v].logs = IF view[v].on /\ e.kind = "message"
                                     THEN Append(view[v].logs, e.n) ELSE view[v].logs
                /\ view'[v].strategies = IF view[v].on /\ e.kind = "remove"
                                           THEN view[v].strategies \ {e.id} ELSE view[v].strategies
           /\ UNCHANGED <<events, current, store, messages>>
  BY BroadcastIs
<1>2. \A n : MessageIn(events, n)' <=> MessageIn(events, n)
  BY <1>1 DEF MessageIn
<1>3. /\ \A n : OnItsWay(n) => IsMessage(e, n) \/ OnItsWay(n)'
      /\ \A s : Leaving(s) => IsRemove(e, s) \/ Leaving(s)'
  BY <1>1, BroadcastMoves
\* A viewer keeps what it had, and has the message.
<1>4. ASSUME NEW v \in Viewers, view'[v].on
      PROVE  /\ view[v].on
             /\ \A j \in 1..Len(view[v].logs) :
                  \E k \in 1..Len(view'[v].logs) : view'[v].logs[k] = view[v].logs[j]
             /\ \A n : IsMessage(e, n) => \E k \in 1..Len(view'[v].logs) : view'[v].logs[k] = n
             /\ \A k \in 1..Len(view'[v].logs) :
                  \/ \E j \in 1..Len(view[v].logs) : view'[v].logs[k] = view[v].logs[j]
                  \/ IsMessage(e, view'[v].logs[k])
  <2>1. view[v].on /\ view[v].logs \in Seq(Nat)
    BY <1>1, <1>4 DEF DashTypes, View
  <2>2. CASE e.kind = "message"
    <3>1. view'[v].logs = Append(view[v].logs, e.n) /\ e.n \in Nat
      BY <1>1, <2>1, <2>2, Carries
    <3>2. PICK l, t : l = view[v].logs /\ t = view'[v].logs
      OBVIOUS
    <3>3. /\ Len(l) \in Nat /\ Len(t) = Len(l) + 1 /\ t[Len(l) + 1] = e.n
          /\ \A i \in 1..Len(l) : t[i] = l[i]
      BY <2>1, <3>1, <3>2, AppendProperties, LenProperties
    <3>4. Len(l) + 1 \in 1..Len(t) /\ \A i \in 1..Len(l) : i \in 1..Len(t)
      BY <3>3
    <3>5. \A k \in 1..Len(t) : k = Len(l) + 1 \/ k \in 1..Len(l)
      BY <3>3
    <3>6. \A j \in 1..Len(l) : \E k \in 1..Len(t) : t[k] = l[j]
      BY <3>3, <3>4
    <3>7. \A n : IsMessage(e, n) => \E k \in 1..Len(t) : t[k] = n
      BY <3>3, <3>4 DEF IsMessage
    <3>8. \A k \in 1..Len(t) : (\E j \in 1..Len(l) : t[k] = l[j]) \/ IsMessage(e, t[k])
      BY <2>2, <3>3, <3>5 DEF IsMessage
    <3>. QED  BY <2>1, <3>2, <3>6, <3>7, <3>8
  <2>3. CASE e.kind # "message"
    <3>1. view'[v].logs = view[v].logs
      BY <1>1, <2>3
    <3>2. \A n : ~IsMessage(e, n)
      BY <2>3 DEF IsMessage
    <3>. QED  BY <2>1, <3>1, <3>2
  <2>. QED  BY <2>2, <2>3
<1>5. ASSUME NEW v \in Viewers, view'[v].on, NEW i \in 1..Len(store.logs)
      PROVE  (\E j \in 1..Len(view'[v].logs) : view'[v].logs[j] = store.logs[i]) \/ OnItsWay(store.logs[i])'
  <2>1. PICK n : n = store.logs[i]
    OBVIOUS
  <2>2. (\E j \in 1..Len(view[v].logs) : view[v].logs[j] = n) \/ OnItsWay(n)
    BY <1>4, <1>5, <2>1 DEF Viewed
  <2>3. (\E j \in 1..Len(view'[v].logs) : view'[v].logs[j] = n) \/ OnItsWay(n)'
    <3>1. CASE \E j \in 1..Len(view[v].logs) : view[v].logs[j] = n
      BY <1>4, <1>5, <3>1
    <3>2. CASE OnItsWay(n)
      <4>1. IsMessage(e, n) \/ OnItsWay(n)'
        BY <1>3, <3>2
      <4>. QED  BY <1>4, <1>5, <4>1
    <3>. QED  BY <2>2, <3>1, <3>2
  <2>4. store'.logs[i] = n
    BY <1>1, <2>1
  <2>. QED  BY <1>1, <2>1, <2>3, <2>4
<1>6. ASSUME NEW v \in Viewers, view'[v].on, NEW i \in 1..Len(view'[v].logs),
             NEW n \in 1..messages, n > view'[v].logs[i]
      PROVE  \/ \E j \in 1..Len(view'[v].logs) : view'[v].logs[j] = n
             \/ OnItsWay(n)' \/ MessageIn(events, n)
  <2>1. CASE \E j \in 1..Len(view[v].logs) : view'[v].logs[i] = view[v].logs[j]
    <3>1. \/ \E j \in 1..Len(view[v].logs) : view[v].logs[j] = n
          \/ OnItsWay(n) \/ MessageIn(events, n)
      BY <1>4, <1>6, <2>1 DEF Viewed
    <3>2. CASE \E j \in 1..Len(view[v].logs) : view[v].logs[j] = n
      <4>1. \A j \in 1..Len(view[v].logs) :
              \E k \in 1..Len(view'[v].logs) : view'[v].logs[k] = view[v].logs[j]
        BY <1>4, <1>6
      <4>. QED  BY <3>2, <4>1
    <3>3. CASE OnItsWay(n)
      <4>1. IsMessage(e, n) \/ OnItsWay(n)'
        BY <1>3, <3>3
      <4>. QED  BY <1>4, <1>6, <4>1
    <3>. QED  BY <3>1, <3>2, <3>3
  <2>2. CASE IsMessage(e, view'[v].logs[i])
    <3>1. 1 \in 1..Len(told) /\ told[1].kind = "message" /\ n > told[1].n
      BY <1>1, <1>6, <2>2 DEF IsMessage
    <3>2. \/ \E j \in 1..Len(told) : 1 < j /\ IsMessage(told[j], n)
          \/ IsMessage(current, n) \/ MessageIn(events, n)
      BY <1>6, <3>1 DEF Numbered
    <3>3. ASSUME NEW j \in 1..Len(told), 1 < j, IsMessage(told[j], n) PROVE OnItsWay(n)'
      <4>1. j # 1
        BY <1>1, <3>3
      <4>2. \A m, k : k \in 1..Len(told) /\ IsMessage(told[k], m) =>
              (k = 1 \/ (k - 1 \in 1..Len(told') /\ IsMessage(told'[k - 1], m)))
        BY BroadcastMoves
      <4>3. j - 1 \in 1..Len(told') /\ IsMessage(told'[j - 1], n)
        BY <3>3, <4>1, <4>2
      <4>. QED  BY <4>3 DEF OnItsWay, MessageIn
    <3>4. IsMessage(current, n) => OnItsWay(n)'
      BY <1>1 DEF OnItsWay
    <3>. QED  BY <3>2, <3>3, <3>4
  <2>. QED  BY <1>4, <1>6, <2>1, <2>2
<1>7. ASSUME NEW v \in Viewers, view'[v].on, NEW s \in view'[v].strategies
      PROVE  s \in store.strategies \/ Leaving(s)'
  <2>1. s \in view[v].strategies /\ ~IsRemove(e, s) /\ view[v].on
    BY <1>1, <1>4, <1>7 DEF IsRemove
  <2>. QED  BY <1>3, <2>1 DEF Viewed
<1>. QED  BY <1>1, <1>2, <1>5, <1>6, <1>7 DEF Viewed

LEMMA BroadcastPriced ==
  ASSUME DashTypes, Priced, Broadcast
  PROVE  Priced'
<1>1. PICK e \in Event :
           /\ e = told[1] /\ Len(told) \in Nat /\ Len(told) >= 1 /\ Len(told') = Len(told) - 1
           /\ \A i \in 1..Len(told) - 1 : told'[i] = told[i + 1]
           /\ \A v \in Viewers :
                /\ view'[v].on = view[v].on /\ view'[v].had = view[v].had
                /\ view'[v].price = IF view[v].on /\ e.kind = "price" THEN e.n ELSE view[v].price
           /\ UNCHANGED <<current, store, dropped>>
  BY BroadcastIs
<1>2. ASSUME NEW i \in 1..Len(told') PROVE i + 1 \in 1..Len(told) /\ told'[i] = told[i + 1]
  BY <1>1
<1>3. CASE IsPrice(current, store.price) \/ (current.kind # "price" /\ dropped = store.price)
  BY <1>1, <1>3 DEF Priced
<1>4. CASE /\ current.kind # "price"
           /\ \E i \in 1..Len(told) :
                /\ IsPrice(told[i], store.price)
                /\ \A j \in 1..Len(told) : i < j => told[j].kind # "price"
  <2>1. PICK i \in 1..Len(told) :
                /\ IsPrice(told[i], store.price)
                /\ \A j \in 1..Len(told) : i < j => told[j].kind # "price"
    BY <1>4
  <2>2. \A j \in 1..Len(told') : i - 1 < j => told'[j].kind # "price"
    <3>1. ASSUME NEW j \in 1..Len(told'), i - 1 < j PROVE told'[j].kind # "price"
      <4>1. i < j + 1
        BY <1>1, <3>1
      <4>. QED  BY <1>2, <2>1, <4>1
    <3>. QED  BY <3>1
  <2>3. CASE i = 1
    <3>1. \A j \in 1..Len(told') : told'[j].kind # "price"
      BY <1>1, <2>2, <2>3
    <3>2. \A v \in Viewers : view'[v].on => view'[v].price = store.price
      BY <1>1, <2>1, <2>3 DEF IsPrice
    <3>. QED  BY <1>1, <1>4, <3>1, <3>2 DEF Priced
  <2>4. CASE i # 1
    <3>1. i - 1 \in 1..Len(told') /\ told'[i - 1] = told[i]
      <4>1. i - 1 \in 1..Len(told') /\ (i - 1) + 1 = i
        BY <1>1, <2>4
      <4>. QED  BY <1>2, <4>1
    <3>. QED  BY <1>1, <1>4, <2>1, <2>2, <3>1 DEF Priced
  <2>. QED  BY <2>3, <2>4
<1>5. CASE /\ current.kind # "price"
           /\ \A j \in 1..Len(told) : told[j].kind # "price"
           /\ \A v \in Viewers : view[v].on => view[v].price = store.price
  <2>1. e.kind # "price"
    BY <1>1, <1>5
  <2>2. \A j \in 1..Len(told') : told'[j].kind # "price"
    BY <1>2, <1>5
  <2>. QED  BY <1>1, <1>5, <2>1, <2>2 DEF Priced
<1>. QED  BY <1>3, <1>4, <1>5 DEF Priced

LEMMA BroadcastSequenced ==
  ASSUME DashTypes, Sequenced, Broadcast
  PROVE  Sequenced'
<1>1. /\ Len(told) \in Nat /\ Len(told) >= 1 /\ Len(told') = Len(told) - 1
      /\ \A i \in 1..Len(told) - 1 : told'[i] = told[i + 1]
      /\ UNCHANGED <<events, current, messages>>
  BY BroadcastIs
<1>2. \A i \in 1..Len(told') : i + 1 \in 1..Len(told) /\ told'[i] = told[i + 1]
  BY <1>1
<1>3. \A i, j \in 1..Len(told') : i < j => i + 1 < j + 1
  BY <1>1
<1>. QED  BY <1>1, <1>2, <1>3 DEF Sequenced

\* The message that is sent goes on where the viewer's messages end, or comes again
\* to a viewer that had none but those of its snapshot.
LEMMA Continues ==
  ASSUME DashTypes, Numbered, Sequenced, NEW l \in Seq(Nat), NEW had \in Nat, NEW t \in Seq(Nat),
         NEW w, w.logs = l, w.had = had, Follows(w),
         told # <<>>, told[1].kind = "message", t = Append(l, told[1].n),
         NEW u, u.logs = t, u.had = had
  PROVE  had <= Len(t) /\ InOrder(u)
<1>1. Len(told) \in Nat \ {0} /\ Len(l) \in Nat /\ messages \in Nat
  BY EmptySeq, LenProperties DEF DashTypes
<1>2. 1 \in 1..Len(told)
  BY <1>1
<1>3. PICK n : n = told[1].n
  OBVIOUS
<1>4. n \in Nat /\ n <= messages
  BY <1>2, <1>3, Numbers
<1>5. /\ Len(t) = Len(l) + 1 /\ t[Len(l) + 1] = n
      /\ \A i \in 1..Len(l) : t[i] = l[i] /\ l[i] \in Nat
  BY <1>3, AppendProperties, ElementOfSeq
<1>6. had <= Len(l) /\ \A i \in 1..Len(l) - 1 :
        IF i = had THEN l[i + 1] <= l[i] + 1 ELSE l[i + 1] = l[i] + 1
  BY DEF Follows, InOrder
<1>7. ASSUME Len(l) > 0
      PROVE  IF Len(l) = had THEN n <= l[Len(l)] + 1 ELSE n = l[Len(l)] + 1
  <2>1. PICK m : m = l[Len(l)]
    OBVIOUS
  <2>2. Len(l) \in 1..Len(l) /\ m \in Nat
    BY <1>1, <1>5, <1>7, <2>1
  <2>3. Reaches(m) /\ (had < Len(l) => Later(m))
    BY <1>7, <2>1 DEF Follows
  <2>4. n <= m + 1
    <3>1. SUFFICES ASSUME n > m + 1 PROVE FALSE
      BY <1>4, <2>2
    <3>2. PICK k : k = m + 1
      OBVIOUS
    <3>3. k \in 1..messages /\ k > m /\ k < n
      BY <1>1, <1>4, <2>2, <3>1, <3>2
    <3>4. OnItsWay(k) \/ MessageIn(events, k)
      BY <2>3, <3>3 DEF Reaches
    <3>5. ASSUME NEW i \in 1..Len(told), IsMessage(told[i], k) PROVE FALSE
      <4>1. i = 1 \/ 1 < i
        BY <1>1
      <4>2. CASE i = 1
        BY <1>3, <3>3, <3>5, <4>2, <1>4 DEF IsMessage
      <4>3. CASE 1 < i
        <5>1. told[1].n < told[i].n /\ told[i].n = k
          BY <1>2, <3>5, <4>3 DEF Sequenced, IsMessage
        <5>. QED  BY <1>3, <1>4, <3>3, <5>1
      <4>. QED  BY <4>1, <4>2, <4>3
    <3>6. ~IsMessage(current, k)
      <4>1. IsMessage(current, k) => n < k
        BY <1>2, <1>3 DEF Sequenced, IsMessage
      <4>. QED  BY <1>4, <3>3, <4>1
    <3>7. ~MessageIn(events, k)
      <4>1. MessageIn(events, k) => n < k
        BY <1>2, <1>3 DEF Sequenced, MessageIn, IsMessage
      <4>. QED  BY <1>4, <3>3, <4>1
    <3>. QED  BY <3>4, <3>5, <3>6, <3>7 DEF OnItsWay, MessageIn
  <2>5. had < Len(l) => m < n
    BY <1>2, <1>3, <2>3 DEF Later
  <2>. QED  BY <1>1, <1>4, <1>6, <2>1, <2>2, <2>4, <2>5
<1>8. ASSUME NEW i \in 1..Len(t) - 1
      PROVE  IF i = had THEN t[i + 1] <= t[i] + 1 ELSE t[i + 1] = t[i] + 1
  <2>1. CASE i = Len(l)
    <3>1. Len(l) > 0 /\ t[i] = l[Len(l)] /\ t[i + 1] = n
      BY <1>5, <1>8, <2>1
    <3>. QED  BY <1>7, <2>1, <3>1
  <2>2. CASE i # Len(l)
    <3>1. i \in 1..Len(l) - 1 /\ i \in 1..Len(l) /\ i + 1 \in 1..Len(l)
      BY <1>1, <1>5, <1>8, <2>2
    <3>2. t[i] = l[i] /\ t[i + 1] = l[i + 1]
      BY <1>5, <3>1
    <3>. QED  BY <1>6, <3>1, <3>2
  <2>. QED  BY <2>1, <2>2
<1>9. had <= Len(t)
  BY <1>1, <1>5, <1>6
<1>. QED  BY <1>8, <1>9 DEF InOrder

LEMMA BroadcastFollowing ==
  ASSUME DashTypes, Numbered, Sequenced, Following, Broadcast
  PROVE  Following'
<1>1. PICK e \in Event :
           /\ e = told[1] /\ Len(told) \in Nat /\ Len(told) >= 1 /\ Len(told') = Len(told) - 1
           /\ \A i \in 1..Len(told) - 1 : told'[i] = told[i + 1]
           /\ view' \in [Viewers -> View]
           /\ \A v \in Viewers :
                /\ view'[v].on = view[v].on /\ view'[v].had = view[v].had
                /\ view'[v].logs = IF view[v].on /\ e.kind = "message"
                                     THEN Append(view[v].logs, e.n) ELSE view[v].logs
           /\ UNCHANGED <<events, current, messages>>
  BY BroadcastIs
<1>2. 1 \in 1..Len(told) /\ told # <<>> /\ messages \in Nat
  BY <1>1 DEF DashTypes, Broadcast
<1>3. \A i \in 1..Len(told') : i + 1 \in 1..Len(told) /\ told'[i] = told[i + 1] /\ 1 < i + 1
  BY <1>1
<1>4. \A n : MessageIn(events, n)' <=> MessageIn(events, n)
  BY <1>1 DEF MessageIn
<1>5. \A m : Later(m) => Later(m)'
  BY <1>1, <1>3 DEF Later
<1>6. CASE e.kind = "message"
  <2>1. PICK n : n = e.n
    OBVIOUS
  <2>2. n \in Nat /\ n <= messages
    BY <1>1, <1>2, <1>6, <2>1, Numbers
  <2>3. Later(n)'
    BY <1>1, <1>2, <1>3, <1>6, <2>1 DEF Later, Sequenced
  <2>4. Reaches(n)'
    <3>1. ASSUME NEW k \in 1..messages, k > n PROVE OnItsWay(k)' \/ MessageIn(events, k)'
      <4>1. \/ \E j \in 1..Len(told) : 1 < j /\ IsMessage(told[j], k)
            \/ IsMessage(current, k) \/ MessageIn(events, k)
        BY <1>1, <1>2, <1>6, <2>1, <3>1 DEF Numbered
      <4>2. ASSUME NEW j \in 1..Len(told), 1 < j, IsMessage(told[j], k) PROVE MessageIn(told, k)'
        <5>1. j - 1 \in 1..Len(told') /\ j - 1 \in 1..Len(told) - 1 /\ (j - 1) + 1 = j
          BY <1>1, <4>2
        <5>2. told'[j - 1] = told[j]
          BY <1>1, <5>1
        <5>. QED  BY <4>2, <5>1, <5>2 DEF MessageIn
      <4>3. IsMessage(current, k) => IsMessage(current, k)'
        BY <1>1 DEF IsMessage
      <4>. QED  BY <1>4, <4>1, <4>2, <4>3 DEF OnItsWay
    <3>. QED  BY <1>1, <2>2, <3>1 DEF Reaches
  <2>5. ASSUME NEW v \in Viewers, view'[v].on PROVE Follows(view[v])'
    <3>1. PICK w, u : w = view[v] /\ u = view'[v]
      OBVIOUS
    <3>2. /\ w.logs \in Seq(Nat) /\ w.had \in Nat /\ u.logs \in Seq(Nat) /\ u.had = w.had
          /\ u.logs = Append(w.logs, n) /\ Follows(w)
      BY <1>1, <1>6, <2>1, <2>5, <3>1 DEF DashTypes, View, Following
    <3>3. u.had <= Len(u.logs) /\ InOrder(u)
      BY <1>1, <1>2, <1>6, <2>1, <3>2, Continues
    <3>4. Len(u.logs) = Len(w.logs) + 1 /\ u.logs[Len(w.logs) + 1] = n
      BY <2>2, <3>2, AppendProperties
    <3>5. u.logs[Len(u.logs)] = n
      BY <3>4
    <3>6. Follows(u)'
      BY <2>3, <2>4, <3>3, <3>5 DEF Follows, InOrder
    <3>7. view[v]' = u
      BY <3>1
    <3>. QED  BY <3>6, <3>7 DEF Follows, InOrder, Reaches, Later
  <2>. QED  BY <2>5 DEF Following
<1>7. CASE e.kind # "message"
  <2>1. \A n : OnItsWay(n) => OnItsWay(n)'
    <3>1. \A n : ~IsMessage(told[1], n)
      BY <1>1, <1>7 DEF IsMessage
    <3>. QED  BY <3>1, BroadcastMoves
  <2>2. \A m : Reaches(m) => Reaches(m)'
    BY <1>1, <1>4, <2>1 DEF Reaches
  <2>3. ASSUME NEW v \in Viewers, view'[v].on PROVE Follows(view[v])'
    <3>1. PICK w, u : w = view[v] /\ u = view'[v]
      OBVIOUS
    <3>2. u.logs = w.logs /\ u.had = w.had /\ Follows(w)
      BY <1>1, <1>7, <2>3, <3>1 DEF Following
    <3>3. Follows(u)'
      BY <1>5, <2>2, <3>2 DEF Follows, InOrder
    <3>4. view[v]' = u
      BY <3>1
    <3>. QED  BY <3>3, <3>4 DEF Follows, InOrder, Reaches, Later
  <2>. QED  BY <2>3 DEF Following
<1>. QED  BY <1>6, <1>7

LEMMA BroadcastStep == ASSUME DashInv, Broadcast PROVE DashInv'
<1>1. DashTypes /\ Filing /\ Numbered /\ Viewed /\ Priced /\ Sequenced /\ Following
  BY DEF DashInv
<1>2. /\ UNCHANGED <<events, current, store, recent, dropped, prices, messages, known>>
      /\ told' \in Seq(Event) /\ view' \in [Viewers -> View]
  BY <1>1, BroadcastIs
<1>3. DashTypes'
  BY <1>1, <1>2 DEF DashTypes
<1>4. Filing'
  BY <1>1, <1>2 DEF Filing
<1>5. Sequenced' /\ Following'
  BY <1>1, BroadcastSequenced, BroadcastFollowing
<1>. QED  BY <1>1, <1>3, <1>4, <1>5, BroadcastNumbered, BroadcastViewed, BroadcastPriced DEF DashInv

-----------------------------------------------------------------------------
(* The invariant holds, and what it says of the viewers.                   *)

LEMMA InitDash == DashInit => DashInv
<1>. SUFFICES ASSUME DashInit PROVE DashInv
  OBVIOUS
<1>1. /\ events = <<>> /\ current = Nothing /\ recent = FALSE /\ told = <<>> /\ dropped = 0
      /\ store = [price |-> 0, pockets |-> {}, strategies |-> {}, nested |-> {}, loose |-> {},
                  orders |-> {}, logs |-> <<>>]
      /\ view = [v \in Viewers |-> NoView]
      /\ prices = 0 /\ messages = 0 /\ known = {}
  BY DEF DashInit
<1>2. <<>> \in Seq(Event) /\ <<>> \in Seq(Nat) /\ Len(<<>>) = 0
  BY EmptySeq
<1>3. store \in Store
  BY <1>1, <1>2 DEF Store
<1>4. NoView \in View /\ NoView.on = FALSE
  BY <1>2 DEF NoView, View
<1>5. view \in [Viewers -> View] /\ \A v \in Viewers : ~view[v].on
  BY <1>1, <1>4
<1>6. DashTypes
  <2>1. store.logs = <<>> /\ store.price = 0
    BY <1>1
  <2>2. MaxLogs \in Nat /\ MaxPrices \in Nat /\ prices \in 0..MaxPrices
    BY <1>1, Ids
  <2>3. Len(store.logs) <= MaxLogs /\ store.price <= prices
    BY <1>1, <1>2, <2>1, <2>2
  <2>4. 1..Len(events) = {}
    BY <1>1, <1>2
  <2>. QED  BY <1>1, <1>2, <1>3, <1>5, <2>2, <2>3, <2>4 DEF DashTypes
<1>7. 1..Len(events) = {} /\ 1..Len(told) = {} /\ 1..Len(store.logs) = {}
  BY <1>1, <1>2
<1>8. current.kind = "none"
  BY <1>1, NothingIs
<1>9. Filing
  BY <1>1, <1>7 DEF Filing
<1>10. Numbered
  BY <1>7, <1>8 DEF Numbered
<1>11. Viewed
  BY <1>5 DEF Viewed
<1>12. Priced
  BY <1>5, <1>7, <1>8 DEF Priced
<1>13. Sequenced /\ Following
  BY <1>5, <1>7, <1>8 DEF Sequenced, Following
<1>. QED  BY <1>6, <1>9, <1>10, <1>11, <1>12, <1>13 DEF DashInv

LEMMA StillDash == ASSUME DashInv, UNCHANGED dashVars PROVE DashInv'
<1>1. DashTypes /\ Filing /\ Numbered /\ Viewed /\ Priced /\ Sequenced /\ Following
  BY DEF DashInv
<1>2. UNCHANGED <<events, current, store, recent, told, view, dropped, prices, messages, known>>
  BY DEF dashVars
<1>3. DashTypes' /\ Filing' /\ Numbered' /\ Viewed' /\ Priced'
  BY <1>1, <1>2 DEF DashTypes, Filing, Numbered, Viewed, Priced, MessageIn, OnItsWay, Leaving
<1>4. Sequenced' /\ Following'
  BY <1>1, <1>2 DEF Sequenced, Following, Follows, InOrder, Reaches, Later, MessageIn, OnItsWay
<1>. QED  BY <1>3, <1>4 DEF DashInv

LEMMA StepDash == ASSUME DashInv, [DashNext]_dashVars PROVE DashInv'
<1>1. CASE Apply
  BY <1>1, ApplyStep
<1>2. CASE Notify
  BY <1>2, NotifyStep
<1>3. CASE Broadcast
  BY <1>3, BroadcastStep
<1>4. CASE Elapse
  BY <1>4, ElapseStep
<1>5. CASE \/ PutPrice \/ PutMessage
           \/ \E p \in PocketIds : PutPocket(p) \/ PutPocketAgain(p)
           \/ \E s \in StrategyIds : PutStrategy(s) \/ PutStrategyAgain(s) \/ PutRemove(s)
           \/ \E o \in OrderIds : PutOrder(o) \/ PutOrderDone(o)
  BY <1>5, ProducerStep
<1>6. CASE \E v \in Viewers : ViewerComes(v) \/ ViewerGoes(v)
  BY <1>6, ViewerStep
<1>7. CASE UNCHANGED dashVars
  BY <1>7, StillDash
<1>. QED  BY <1>1, <1>2, <1>3, <1>4, <1>5, <1>6, <1>7 DEF DashNext, DashThreads

LEMMA DashSees == ASSUME DashInv PROVE DashTypeOK /\ FiledIsListed /\ ViewersHaveAll /\ PriceIsLatest
<1>1. DashTypes /\ Filing /\ Viewed /\ Priced /\ Numbered /\ Following
  BY DEF DashInv
<1>2. DashTypeOK
  <2>1. SetOf(events) \subseteq Event /\ SetOf(told) \subseteq Event
    BY <1>1, ElementOfSeq DEF DashTypes, SetOf
  <2>2. /\ store.price \in Nat /\ store.pockets \subseteq PocketIds
        /\ store.strategies \subseteq StrategyIds /\ store.orders \subseteq OrderIds
    BY <1>1, StoreFields DEF DashTypes
  <2>3. store.price \in 0..MaxPrices
    BY <1>1, <2>2, Ids DEF DashTypes
  <2>. QED  BY <1>1, <2>1, <2>2, <2>3 DEF DashTypeOK, DashTypes
<1>3. FiledIsListed
  <2>1. store.pockets \subseteq PocketIds
    BY <1>1, StoreFields DEF DashTypes
  <2>2. store.nested \cap store.loose = {}
    BY <1>1, <2>1, Ids DEF Filing
  <2>. QED  BY <1>1, <2>2 DEF FiledIsListed, Filing
<1>4. ASSUME AtRest
      PROVE  /\ events = <<>> /\ told = <<>> /\ current.kind = "none"
             /\ 1..Len(events) = {} /\ 1..Len(told) = {}
             /\ \A n : ~MessageIn(events, n) /\ ~OnItsWay(n)
             /\ \A s : ~Leaving(s)
  <2>1. events = <<>> /\ told = <<>> /\ current.kind = "none"
    BY <1>4, NothingIs DEF AtRest
  <2>2. 1..Len(events) = {} /\ 1..Len(told) = {}
    BY <2>1
  <2>. QED  BY <2>1, <2>2 DEF MessageIn, OnItsWay, Leaving, IsMessage, IsRemove
<1>5. ViewersHaveAll
  <2>1. ASSUME AtRest, NEW v \in Viewers, view[v].on
        PROVE  /\ SetOf(store.logs) \subseteq SetOf(view[v].logs)
               /\ \A n \in SetOf(view[v].logs) : n < messages => n + 1 \in SetOf(view[v].logs)
               /\ view[v].strategies \subseteq store.strategies
    <3>1. SetOf(store.logs) \subseteq SetOf(view[v].logs)
      BY <1>1, <1>4, <2>1 DEF Viewed, SetOf
    <3>2. ASSUME NEW n \in SetOf(view[v].logs), n < messages PROVE n + 1 \in SetOf(view[v].logs)
      <4>1. view[v].logs \in Seq(Nat) /\ messages \in Nat
        BY <1>1 DEF DashTypes, View
      <4>2. PICK i \in 1..Len(view[v].logs) : n = view[v].logs[i]
        BY <3>2 DEF SetOf
      <4>3. n \in Nat
        <5>1. PICK l : l = view[v].logs
          OBVIOUS
        <5>2. l \in Seq(Nat) /\ i \in 1..Len(l) /\ n = l[i]
          BY <4>1, <4>2, <5>1
        <5>. QED  BY <5>2, ElementOfSeq
      <4>4. n + 1 \in 1..messages /\ n + 1 > view[v].logs[i]
        <5>1. n + 1 \in 1..messages
          BY <3>2, <4>1, <4>3
        <5>2. n + 1 > n
          BY <4>3
        <5>. QED  BY <4>2, <5>1, <5>2
      <4>. QED  BY <1>1, <1>4, <2>1, <4>2, <4>4 DEF Viewed, SetOf
    <3>3. view[v].strategies \subseteq store.strategies
      BY <1>1, <1>4, <2>1 DEF Viewed
    <3>. QED  BY <3>1, <3>2, <3>3
  <2>2. ASSUME NEW v \in Viewers, view[v].on PROVE InOrder(view[v])
    BY <1>1, <2>2 DEF Following, Follows
  <2>. QED  BY <2>1, <2>2 DEF ViewersHaveAll
<1>6. PriceIsLatest
  <2>1. ASSUME AtRest, NEW v \in Viewers, view[v].on
        PROVE  view[v].price = store.price \/ dropped = store.price
    BY <1>1, <1>4, <2>1 DEF Priced, IsPrice
  <2>. QED  BY <2>1 DEF PriceIsLatest
<1>. QED  BY <1>2, <1>3, <1>5, <1>6

-----------------------------------------------------------------------------
(* The four edges together: a step of one leaves the others as they are.   *)

EdgesInv == FeedInv /\ MessagingInv /\ SocketInv /\ DashInv

LEMMA InitEdges == EdgesInit => EdgesInv
  BY InitFeed, InitMessaging, InitSocket, InitDash DEF EdgesInit, EdgesInv

LEMMA StepEdges == EdgesInv /\ [EdgesNext]_edgesVars => EdgesInv'
<1> SUFFICES ASSUME EdgesInv, [EdgesNext]_edgesVars PROVE EdgesInv'
  OBVIOUS
<1>1. /\ [FeedNext]_feedVars /\ [MessagingNext]_messagingVars
      /\ [SocketNext]_socketVars /\ [DashNext]_dashVars
  BY DEF EdgesNext, edgesVars, FeedPart, MessagingPart, SocketPart, DashPart
<1>2. FeedInv' /\ MessagingInv'
  BY <1>1, StepFeed, StepMessaging DEF EdgesInv
<1>3. SocketInv' /\ DashInv'
  BY <1>1, StepSocket, StepDash DEF EdgesInv
<1>. QED  BY <1>2, <1>3 DEF EdgesInv

\* The four inductive invariants hold of the system's four edges.
THEOREM EdgesInvariant == EdgesSpec => []EdgesInv
<1>. QED  BY InitEdges, StepEdges, PTL DEF EdgesSpec

\* Frames, connections, queues and views keep their shape, the feed's wait stays between
\* its bounds, no more bytes are buffered than were read, and no more messages are kept
\* than _MAX_LOGS.
THEOREM EdgesTypeCorrect == EdgesSpec => []EdgesTypeOK
<1>1. EdgesInv => FeedTypeOK /\ MessagingTypeOK
  BY DEF EdgesInv, FeedInv, MessagingInv
<1>2. EdgesInv => SocketTypeOK /\ DashTypeOK
  BY SocketFrames, DashSees DEF EdgesInv
<1>3. EdgesInv => EdgesTypeOK
  BY <1>1, <1>2 DEF EdgesTypeOK
<1>. QED  BY <1>3, EdgesInvariant, PTL

\* The feed's own property, of the composition: a connection that is up has every code
\* of the list when nobody is adding one, unless requests crossed.
THEOREM EdgesSubscribed == EdgesSpec => []Subscribed
<1>1. EdgesInv => Subscribed
  BY FeedHasAll DEF EdgesInv
<1>. QED  BY <1>1, EdgesInvariant, PTL

\* No client mishears: once the manager has subscribed, a connection that is up is
\* listened on, whatever fell between; topics are matched exactly as a broker matches
\* them; and however the stream is cut into chunks, also within a character, the lines
\* handed on are the lines of the stream, in order and complete, until it is closed or
\* cannot be decoded.
THEOREM ClientsHearRight == EdgesSpec => []ClientsHear
<1>1. EdgesInv => Listening /\ PatternAgrees
  BY AllAgree DEF EdgesInv, MessagingInv, MessagingTypeOK
<1>2. EdgesInv => Framed /\ EndsForAReason
  BY SocketFrames DEF EdgesInv
<1>3. EdgesInv => ClientsHear
  BY <1>1, <1>2 DEF ClientsHear
<1>. QED  BY <1>3, EdgesInvariant, PTL

\* The copies the dashboard keeps of a strategy agree; a viewer that came at any time
\* gets the messages in order; and once nothing is queued it has every message kept,
\* without a gap, shows no strategy that was removed, and shows the latest price unless
\* that very price was dropped.
THEOREM ViewersSeeAll == EdgesSpec => []ViewersSee
<1>1. EdgesInv => ViewersSee
  BY DashSees DEF EdgesInv, ViewersSee
<1>. QED  BY <1>1, EdgesInvariant, PTL
=============================================================================
