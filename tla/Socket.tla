------------------------------- MODULE Socket -------------------------------
(***************************************************************************)
(* The local socket client of messaging/adapters/socket_adapter.py: JSON   *)
(* lines over a stream, read in chunks by a thread of its own, without a   *)
(* reconnect.  The broker's end of the stream is external.                 *)
(*                                                                         *)
(* The stream is a sequence of bytes: "nl" ends a line, "h1" and "h2" are  *)
(* the two bytes of one character, "v" a JSON value that is no object, the *)
(* others a character each.                                                *)
(***************************************************************************)
EXTENDS Integers, Sequences, FiniteSets

CONSTANTS Stream,      \* what the broker sends
          Chunk        \* the most that recv returns

ASSUME SocketAssumption ==
  /\ Stream \in Seq({"x", "y", "h1", "h2", "v", "nl"})
  /\ \A i \in 1..Len(Stream) : Stream[i] = "h2" <=> (i > 1 /\ Stream[i - 1] = "h1")
  /\ Chunk \in Nat \ {0}

VARIABLES sock,        \* whether self.sock is set
          peer,        \* whether the broker's end is open
          sockConnected,
          listener,    \* the listening thread: "none", "recv", "ended"
          read,        \* bytes read
          rest,        \* buffer: what is left of an unfinished line
          lines,       \* lines passed to _process_message
          raised       \* whether a chunk could not be decoded or a line be read

socketVars == <<sock, peer, sockConnected, listener, read, rest, lines, raised>>

SocketInit ==
  /\ sock = FALSE /\ peer = TRUE /\ sockConnected = FALSE /\ listener = "none"
  /\ read = 0 /\ rest = <<>> /\ lines = <<>> /\ raised = FALSE

\* The places of the line ends in s; the last of them before i, or 0.
Ends(s) == {i \in 1..Len(s) : s[i] = "nl"}
LastEnd(s, i) ==
  LET earlier == {0} \cup {e \in Ends(s) : e < i}
  IN  CHOOSE e \in earlier : \A d \in earlier : d <= e

\* The lines of s in order, blank ones skipped, and what comes behind the last.
Before(s, i) == SubSeq(s, LastEnd(s, i) + 1, i - 1)
Filled(s) == {i \in Ends(s) : Before(s, i) # <<>>}
Kth(S, k) == CHOOSE i \in S : Cardinality({j \in S : j <= i}) = k
LinesOf(s) == [k \in 1..Cardinality(Filled(s)) |-> Before(s, Kth(Filled(s), k))]
Unfinished(s) == SubSeq(s, LastEnd(s, Len(s) + 1) + 1, Len(s))

\* self.sock is assigned before connect() of it may raise, and stays when it does.
SocketConnect ==
  /\ listener = "none" /\ ~sock
  /\ sock' = TRUE /\ sockConnected' = peer
  /\ listener' = IF peer THEN "recv" ELSE "none"
  /\ UNCHANGED <<peer, read, rest, lines, raised>>

IsObject(line) == "v" \notin {line[i] : i \in 1..Len(line)}

\* The lines up to the first that is no object.
HandedOn(whole) ==
  IF \A k \in 1..Len(whole) : IsObject(whole[k]) THEN whole
  ELSE SubSeq(whole, 1, CHOOSE k \in 1..Len(whole) :
                ~IsObject(whole[k]) /\ \A j \in 1..k - 1 : IsObject(whole[j]))

\* MUTANT of Received: what is left of a line is thrown away.
ReceivedWhole(n) ==
  LET chunk == SubSeq(Stream, read + 1, read + n) IN
  /\ listener = "recv" /\ sock /\ n <= Len(Stream) - read
  /\ chunk[1] # "h2" /\ chunk[n] # "h1"
  /\ lines' = lines \o LinesOf(chunk) /\ rest' = Unfinished(chunk) /\ read' = read + n
  /\ UNCHANGED <<sock, peer, sockConnected, listener, raised>>

\* One recv of n bytes: the lines that are complete are handed on.  A chunk that
\* ends inside a character cannot be decoded, and a line that is JSON but no object
\* raises too: the listener ends.
Received(n) ==
  LET chunk == SubSeq(Stream, read + 1, read + n)
      buffer == rest \o chunk
      undecoded == chunk[1] = "h2" \/ chunk[n] = "h1"
      handed == HandedOn(LinesOf(buffer))
  IN  /\ listener = "recv" /\ sock /\ n <= Len(Stream) - read
      /\ read' = read + n
      /\ raised' = (undecoded \/ ~(\A k \in 1..Len(handed) : IsObject(handed[k])))
      /\ listener' = (IF raised' THEN "ended" ELSE "recv") /\ sockConnected' = ~raised'
      /\ IF undecoded THEN UNCHANGED <<rest, lines>>
                      ELSE lines' = lines \o handed /\ rest' = Unfinished(buffer)
      /\ UNCHANGED <<sock, peer>>

\* The broker closes: recv returns nothing once all is read, and the listener ends.
PeerCloses ==
  /\ peer /\ peer' = FALSE
  /\ UNCHANGED <<sock, sockConnected, listener, read, rest, lines, raised>>

EndOfStream ==
  /\ listener = "recv" /\ (~sock \/ (~peer /\ read = Len(Stream)))
  /\ listener' = "ended" /\ sockConnected' = FALSE
  /\ UNCHANGED <<sock, peer, read, rest, lines, raised>>

\* disconnect(), in the manager's thread.
SocketDisconnect ==
  /\ sock /\ sock' = FALSE /\ sockConnected' = FALSE
  /\ UNCHANGED <<peer, listener, read, rest, lines, raised>>

Listens == EndOfStream \/ \E n \in 1..Chunk : Received(n)

SocketNext == SocketConnect \/ Listens \/ PeerCloses \/ SocketDisconnect

\* The listening thread runs.
SocketSpec == SocketInit /\ [][SocketNext]_socketVars /\ WF_socketVars(Listens)

-----------------------------------------------------------------------------
SocketTypeOK ==
  /\ {sock, peer, sockConnected, raised} \subseteq BOOLEAN
  /\ listener \in {"none", "recv", "ended"} /\ read \in 0..Len(Stream)
  /\ Ends(rest) = {}

\* However the stream is cut into chunks, the lines handed on are its lines, whole
\* and in order, and nothing of an unfinished line is lost; also what was handed on
\* before the listener broke down.
Framed ==
  /\ lines = SubSeq(LinesOf(Stream), 1, Len(lines))
  /\ ~raised => /\ lines = LinesOf(SubSeq(Stream, 1, read))
                /\ rest = Unfinished(SubSeq(Stream, 1, read))

\* The listener ends only because the broker closed, the manager disconnected, or it
\* met what it cannot read; and then the client says it is not connected.
EndsForAReason ==
  listener = "ended" => ~sockConnected /\ (~peer \/ ~sock \/ raised)

\* Once connected, every line the broker sends is handed on, unless the listener ends.
AllLinesCome == sockConnected ~> (lines = LinesOf(Stream) \/ listener = "ended")
=============================================================================
