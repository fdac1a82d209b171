-------------------------------- MODULE Feed --------------------------------
(***************************************************************************)
(* The websocket feed of upbit/upbit_websocket.py: one thread connects,    *)
(* subscribes and reconnects, and any thread adds a market to the list     *)
(* (the main loop for a new strategy, the MCP server's for a buy).  They   *)
(* share the list of codes and the request built from it, without a lock.  *)
(*                                                                         *)
(* A request that is sent replaces the subscription of the connection.     *)
(* The list is in the request itself, so a request is as new as the list   *)
(* when it is turned into text, once it has an entry for it at all.        *)
(***************************************************************************)
EXTENDS Integers, FiniteSets

CONSTANTS Codes, Initial,      \* markets; those of the assets at the start
          Adders,              \* threads that add subscriptions
          DelayMin, DelayMax,  \* seconds between two attempts
          MaxLosses            \* bound on the connections that fail or break

ASSUME FeedAssumption ==
  /\ IsFiniteSet(Codes) /\ Initial \subseteq Codes
  /\ {DelayMin, DelayMax, MaxLosses} \subseteq Nat
  /\ DelayMin \in 1..DelayMax

VARIABLES codes,      \* UpbitWebSocket.codes
          listed,     \* whether the request has an entry for the list
          isRunning,
          loop,       \* where _run_forever is
          delay,      \* reconnect_delay
          text,       \* the request on_open is about to send
          server,     \* what the server has for this connection
          adder,      \* thread -> its frame
          losses,
          overlap     \* a request of this connection was made while another,
                      \* made before it, was still to be sent

feedVars == <<codes, listed, isRunning, loop, delay, text, server, adder, losses, overlap>>

AdderSteps == {"idle", "extend", "update", "check", "dump", "send"}
AdderFrame == [step : AdderSteps, new : SUBSET Codes, text : SUBSET Codes]
IdleAdder == [step |-> "idle", new |-> {}, text |-> {}]

FeedInit ==
  /\ codes = Initial /\ listed = (Initial # {})
  /\ isRunning = FALSE /\ loop = "off" /\ delay = DelayMin
  /\ text = {} /\ server = {}
  /\ adder = [t \in Adders |-> IdleAdder]
  /\ losses = 0 /\ overlap = FALSE

Request == IF listed THEN codes ELSE {}
Unsent(t) == adder[t].step = "send"
IsOpen == loop \in {"opening", "live"}

\* WebSocketApp.keep_running: from run_forever on until the connection is closed.
KeepRunning == loop \in {"connecting", "opening", "live"}

-----------------------------------------------------------------------------
(* The thread of the feed.                                                 *)

feedShared == <<codes, listed, adder>>

StartFeed ==
  /\ ~isRunning /\ loop = "off"
  /\ isRunning' = TRUE /\ loop' = "connecting"
  /\ UNCHANGED <<feedShared, delay, text, server, losses, overlap>>

\* _on_open, up to ws.send.
Opened ==
  /\ loop = "connecting" /\ loop' = "opening"
  /\ delay' = DelayMin /\ text' = Request /\ server' = {}
  /\ overlap' = \E t \in Adders : Unsent(t)
  /\ UNCHANGED <<feedShared, isRunning, losses>>

OpenSent ==
  /\ loop = "opening" /\ loop' = "live" /\ server' = text
  /\ UNCHANGED <<feedShared, isRunning, delay, text, losses, overlap>>

\* The connection breaks or cannot be made; run_forever returns or raises.
Lost ==
  /\ KeepRunning /\ losses < MaxLosses /\ losses' = losses + 1
  /\ loop' = IF isRunning THEN "sleep" ELSE "off"
  /\ server' = {}
  /\ UNCHANGED <<feedShared, isRunning, delay, text, overlap>>

\* MUTANT of Retry: the loop ends with the connection.
RetryNot == loop = "sleep" /\ UNCHANGED feedVars

\* MUTANT of Retry: the wait doubles without a limit.
RetryLater ==
  /\ loop = "sleep" /\ loop' = IF isRunning THEN "connecting" ELSE "off"
  /\ delay' = 2 * delay
  /\ UNCHANGED <<feedShared, isRunning, text, server, losses, overlap>>

\* The wait is over; the next one is twice as long, up to the maximum.
Retry ==
  /\ loop = "sleep" /\ loop' = IF isRunning THEN "connecting" ELSE "off"
  /\ delay' = IF 2 * delay > DelayMax THEN DelayMax ELSE 2 * delay
  /\ UNCHANGED <<feedShared, isRunning, text, server, losses, overlap>>

\* stop(), at the end of the process: a connection is closed, a wait is not cut.
StopFeed ==
  /\ isRunning /\ isRunning' = FALSE
  /\ loop' = IF KeepRunning THEN "off" ELSE loop
  /\ server' = {}
  /\ UNCHANGED <<feedShared, delay, text, losses, overlap>>

-----------------------------------------------------------------------------
(* add_subscription, in any thread.                                        *)

AdderAt(t, step) == adder[t].step = step
AdderTo(t, step) == adder' = [adder EXCEPT ![t].step = step]
feedLoop == <<isRunning, loop, delay, text, losses>>

\* Codes that are in the list already are passed.
AddNew(t, c) ==
  /\ AdderAt(t, "idle") /\ c \notin codes
  /\ adder' = [adder EXCEPT ![t] = [step |-> "extend", new |-> {c}, text |-> {}]]
  /\ UNCHANGED <<feedLoop, codes, listed, server, overlap>>

AddExtend(t) ==
  /\ AdderAt(t, "extend") /\ AdderTo(t, "update")
  /\ codes' = codes \cup adder[t].new
  /\ UNCHANGED <<feedLoop, listed, server, overlap>>

\* MUTANT of AddUpdate: the request of an empty list is left as it was.
AddUpdateNot(t) ==
  /\ AdderAt(t, "update") /\ AdderTo(t, "check")
  /\ UNCHANGED <<feedLoop, codes, listed, server, overlap>>

AddUpdate(t) ==
  /\ AdderAt(t, "update") /\ AdderTo(t, "check") /\ listed' = TRUE
  /\ UNCHANGED <<feedLoop, codes, server, overlap>>

AddCheck(t) ==
  /\ AdderAt(t, "check") /\ AdderTo(t, IF KeepRunning THEN "dump" ELSE "idle")
  /\ UNCHANGED <<feedLoop, codes, listed, server, overlap>>

AddDump(t) ==
  /\ AdderAt(t, "dump")
  /\ adder' = [adder EXCEPT ![t].step = "send", ![t].text = Request]
  /\ overlap' = (overlap \/ loop = "opening" \/ \E u \in Adders : Unsent(u))
  /\ UNCHANGED <<feedLoop, codes, listed, server>>

\* ws.send raises while there is no connection: the caller's command fails, but
\* its code stays in the list.
AddSend(t) ==
  /\ AdderAt(t, "send") /\ adder' = [adder EXCEPT ![t] = IdleAdder]
  /\ server' = IF IsOpen THEN adder[t].text ELSE server
  /\ UNCHANGED <<feedLoop, codes, listed, overlap>>

-----------------------------------------------------------------------------
FeedLoop == Opened \/ OpenSent \/ Retry
Adding(t) == AddExtend(t) \/ AddUpdate(t) \/ AddCheck(t) \/ AddDump(t) \/ AddSend(t)

FeedNext ==
  \/ FeedLoop \/ StartFeed \/ StopFeed \/ Lost
  \/ \E t \in Adders : Adding(t) \/ \E c \in Codes : AddNew(t, c)

\* The threads run and a wait ends; the server answers as long as MaxLosses says.
FeedFairness == WF_feedVars(FeedLoop) /\ \A t \in Adders : WF_feedVars(Adding(t))

FeedSpec == FeedInit /\ [][FeedNext]_feedVars /\ FeedFairness

-----------------------------------------------------------------------------
FeedTypeOK ==
  /\ codes \subseteq Codes /\ text \subseteq Codes /\ server \subseteq Codes
  /\ {listed, isRunning, overlap} \subseteq BOOLEAN
  /\ loop \in {"off", "connecting", "opening", "live", "sleep"}
  /\ delay \in DelayMin..DelayMax /\ losses \in 0..MaxLosses
  /\ adder \in [Adders -> AdderFrame]

\* When a connection is up and nobody is in the middle of adding a code, the
\* server has every code of the list: whether it was added before the connection,
\* while it was being opened, or to an empty list.  Excepted is a connection on
\* which two requests were made one after the other and may have been sent the
\* other way round: the older one then stands.
Subscribed ==
  loop = "live" /\ (\A t \in Adders : adder[t].step = "idle") =>
    server = codes \/ overlap

\* A code in the list is asked for in the end, after lost connections too, and
\* also when the call that added it failed; but for requests out of order.
InForce ==
  \A c \in Codes : c \in codes /\ isRunning ~> c \in server \/ overlap \/ ~isRunning
=============================================================================
