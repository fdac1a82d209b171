------------------------------ MODULE MCEdges ------------------------------
(* The four edges of the system share no state; each behaviour is of one.   *)
EXTENDS Feed, Messaging, Socket, Dashboard

VARIABLE part

edgesVars == <<part, feedVars, messagingVars, socketVars, dashVars>>

TheStream == <<"x", "nl", "h1", "h2", "y", "nl", "nl", "x", "y", "nl", "v", "nl", "y">>
ThePocketOf == [s \in StrategyIds |-> IF s = "s1" THEN "p1" ELSE NoPocket]

EdgesInit ==
  /\ part \in {"feed", "messaging", "socket", "dashboard"}
  /\ FeedInit /\ MessagingInit /\ SocketInit /\ DashInit
  /\ part = "messaging" \/ pattern = <<"#">>

FeedPart == part = "feed" /\ UNCHANGED <<part, messagingVars, socketVars, dashVars>>
MessagingPart == part = "messaging" /\ UNCHANGED <<part, feedVars, socketVars, dashVars>>
SocketPart == part = "socket" /\ UNCHANGED <<part, feedVars, messagingVars, dashVars>>
DashPart == part = "dashboard" /\ UNCHANGED <<part, feedVars, messagingVars, socketVars>>

EdgesNext ==
  \/ FeedPart /\ FeedNext
  \/ MessagingPart /\ MessagingNext
  \/ SocketPart /\ SocketNext
  \/ DashPart /\ DashNext

EdgesSpec ==
  /\ EdgesInit /\ [][EdgesNext]_edgesVars
  /\ WF_edgesVars(FeedPart /\ FeedLoop)
  /\ \A t \in Adders : WF_edgesVars(FeedPart /\ Adding(t))
  /\ WF_edgesVars(MessagingPart /\ Manages) /\ WF_edgesVars(MessagingPart /\ PahoLoop)
  /\ WF_edgesVars(SocketPart /\ Listens)

\* Types, and the bounds of the feed's wait, of the messages kept and of buffers.
EdgesTypeOK == FeedTypeOK /\ MessagingTypeOK /\ SocketTypeOK /\ DashTypeOK

\* No client mishears: commands are listened for, topics are matched as a broker
\* matches them, and lines are those of the stream until the listener has a reason to end.
ClientsHear == Listening /\ PatternAgrees /\ Framed /\ EndsForAReason

\* What is sent to either client comes through in the end.
ComesThrough == ListensInTheEnd /\ AllLinesCome

\* The copies the dashboard keeps agree, and viewers miss nothing that can be sent.
ViewersSee == FiledIsListed /\ ViewersHaveAll /\ PriceIsLatest
=============================================================================
