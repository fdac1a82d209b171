----------------------------- MODULE Messaging ------------------------------
(***************************************************************************)
(* The MQTT client of messaging/adapters/mqtt_adapter.py and the manager's *)
(* use of it at the start (src/main.py).  The manager's thread connects,   *)
(* waits five seconds and subscribes to the commands; paho's thread        *)
(* connects, reconnects and subscribes again to what is registered.        *)
(*                                                                         *)
(* The session is a clean one: with the connection the broker forgets the  *)
(* subscription.  paho and the broker are external.                        *)
(***************************************************************************)
EXTENDS Naturals, Sequences

CONSTANTS Levels,      \* the words of a topic
          Depth,       \* bound on the levels of a topic and of a pattern
          MaxDrops     \* bound on the connections that break

ASSUME MessagingAssumption ==
  /\ Levels # {} /\ {"#", "+"} \cap Levels = {}
  /\ Depth \in Nat \ {0} /\ MaxDrops \in Nat

VARIABLES link,         \* paho's thread and its connection
          isConnected,
          registered,   \* whether the callback is in message_callbacks
          broker,       \* what the broker delivers of the pattern: "no", "qos0", "qos1"
          boot,         \* where Manager.init is
          drops,
          pattern       \* what the manager subscribes to

messagingVars == <<link, isConnected, registered, broker, boot, drops, pattern>>

-----------------------------------------------------------------------------
(* Topics and patterns, as sequences of levels.                            *)

UpTo(S) == UNION {[1..n -> S] : n \in 1..Depth}
Topics == UpTo(Levels)

\* A # may only come last.
Patterns == {p \in UpTo(Levels \cup {"+", "#"}) : \A i \in 1..Len(p) - 1 : p[i] # "#"}

LevelMatches(word, level) == word = "+" \/ word = level

\* _topic_matches, of both adapters.
TopicMatches(topic, p) ==
  \/ p = <<"#">>
  \/ /\ Len(p) <= Len(topic)
     /\ \/ \E i \in 1..Len(p) : p[i] = "#" /\ \A k \in 1..i - 1 : LevelMatches(p[k], topic[k])
        \/ Len(p) = Len(topic) /\ \A k \in 1..Len(p) : LevelMatches(p[k], topic[k])

\* What a broker delivers: a # stands for any number of levels, none included.
BrokerMatches(topic, p) ==
  LET fixed == IF p[Len(p)] = "#" THEN Len(p) - 1 ELSE Len(p) IN
  /\ IF fixed < Len(p) THEN Len(topic) >= fixed ELSE Len(topic) = fixed
  /\ \A k \in 1..fixed : LevelMatches(p[k], topic[k])

-----------------------------------------------------------------------------
MessagingInit ==
  /\ link = "off" /\ isConnected = FALSE /\ registered = FALSE
  /\ broker = "no" /\ boot = "start" /\ drops = 0
  /\ pattern \in Patterns

\* connect(), up to the wait: without a TCP connection nothing is started.
Connect ==
  /\ boot = "start"
  /\ \/ boot' = "waiting" /\ link' = "connecting"
     \/ boot' = "deaf" /\ UNCHANGED link
  /\ UNCHANGED <<isConnected, registered, broker, drops, pattern>>

\* The wait of connect() is over; the manager subscribes only if it succeeded.
WaitOver ==
  /\ boot = "waiting"
  /\ boot' = IF isConnected THEN "register" ELSE "deaf"
  /\ UNCHANGED <<link, isConnected, registered, broker, drops, pattern>>

Register ==
  /\ boot = "register" /\ boot' = "subscribe" /\ registered' = TRUE
  /\ UNCHANGED <<link, isConnected, broker, drops, pattern>>

\* client.subscribe; without a connection it only returns an error.
Subscribe ==
  /\ boot = "subscribe" /\ boot' = "done"
  /\ broker' = IF link \in {"greeting", "up"} THEN "qos1" ELSE broker
  /\ UNCHANGED <<link, isConnected, registered, drops, pattern>>

\* _on_connect, up to the callbacks; or the broker refuses, and paho tries again.
Connected ==
  /\ link = "connecting"
  /\ \/ link' = "greeting" /\ isConnected' = TRUE
     \/ isConnected' = FALSE /\ drops < MaxDrops /\ UNCHANGED link
  /\ drops' = IF isConnected' THEN drops ELSE drops + 1
  /\ UNCHANGED <<registered, broker, boot, pattern>>

\* MUTANT of Resubscribe: a new connection takes the old subscription for granted.
ResubscribeNot ==
  /\ link = "greeting" /\ link' = "up"
  /\ UNCHANGED <<isConnected, registered, broker, boot, drops, pattern>>

\* The rest of _on_connect; subscribing again asks for quality 0.
Resubscribe ==
  /\ link = "greeting" /\ link' = "up"
  /\ broker' = IF registered THEN "qos0" ELSE broker
  /\ UNCHANGED <<isConnected, registered, boot, drops, pattern>>

\* _on_disconnect.
Dropped ==
  /\ link \in {"greeting", "up"} /\ drops < MaxDrops /\ drops' = drops + 1
  /\ link' = "connecting" /\ isConnected' = FALSE /\ broker' = "no"
  /\ UNCHANGED <<registered, boot, pattern>>

\* Manager.stop: the thread is stopped, then the connection is ended.
Disconnect ==
  /\ boot \in {"done", "deaf"} /\ boot' = "stopped"
  /\ link' = "off" /\ isConnected' = FALSE /\ broker' = "no"
  /\ UNCHANGED <<registered, drops, pattern>>

Manages == Connect \/ WaitOver \/ Register \/ Subscribe
PahoLoop == Connected \/ Resubscribe
MessagingNext == Manages \/ PahoLoop \/ Dropped \/ Disconnect

\* Both threads run; the broker answers in the end.
MessagingSpec ==
  /\ MessagingInit /\ [][MessagingNext]_messagingVars
  /\ WF_messagingVars(Manages) /\ WF_messagingVars(PahoLoop)

-----------------------------------------------------------------------------
MessagingTypeOK ==
  /\ link \in {"off", "connecting", "greeting", "up"}
  /\ isConnected = (link \in {"greeting", "up"}) /\ registered \in BOOLEAN
  /\ broker \in {"no", "qos0", "qos1"}
  /\ boot \in {"start", "waiting", "register", "subscribe", "done", "deaf", "stopped"}
  /\ drops \in 0..MaxDrops /\ pattern \in Patterns

\* Once the manager has subscribed, a connection that is up has the subscription,
\* however the drop of one and the opening of the next fall between the two steps
\* of subscribe.  (A manager that gave up after five seconds has none for ever.)
Listening == boot = "done" /\ link = "up" => broker # "no"

\* A manager that has come to subscribe gets its commands in the end.
ListensInTheEnd == registered ~> (broker # "no" \/ boot = "stopped")

\* The adapter passes on exactly what the broker sends for its pattern, except the
\* level above a #: a broker sends trading/command for trading/command/# too.
PatternAgrees ==
  \A t \in Topics :
    IF pattern = Append(t, "#") \/ (Len(pattern) = Len(t) + 1 /\ pattern[Len(pattern)] = "#")
      THEN TopicMatches(t, pattern) => BrokerMatches(t, pattern)
      ELSE TopicMatches(t, pattern) <=> BrokerMatches(t, pattern)
=============================================================================
