-------------------------------- MODULE Http --------------------------------
(***************************************************************************)
(* ThreeGppHttpClient and ThreeGppHttpServer over one TCP connection, which*)
(* is external: two streams in order, up and down, with room for TxRoom    *)
(* bytes of the server and RxRoom bytes that a stopped client leaves       *)
(* unread, that may break once.  A request is one packet; a header reaches *)
(* the client with at least one byte of its object.                        *)
(*                                                                         *)
(* fatal is the NS_FATAL_ERROR or NS_ASSERT that ends the program, if any. *)
(***************************************************************************)
EXTENDS Integers, Sequences, FiniteSets, SequencesExt, Totals

CONSTANTS
  ObjectSizes, MaxEmbedded,       \* bytes of an object; embedded objects of a page
  HeaderSize, SizeModulus,        \* of ThreeGppHttpHeader; 2^32
  TxRoom, RxRoom, MaxPages        \* bounds

HttpAssumption ==
  /\ ObjectSizes \subseteq Nat \ {0} /\ ObjectSizes # {} /\ MaxEmbedded \in Nat
  /\ HeaderSize \in Nat \ {0} /\ SizeModulus \in Nat /\ TxRoom \in Nat /\ TxRoom < SizeModulus
  /\ TxRoom > HeaderSize /\ RxRoom \in Nat /\ MaxPages \in Nat

ASSUME HttpAssumption

VARIABLES
  m_state, m_objectBytesToBeReceived, m_embeddedObjectsToBeRequested,
  scheduled,    \* the client's events: "RequestMain", "RequestEmbedded", "Parse"
  m_txBuffer,   \* the server's entry of the connection, or NotFound
  serves,       \* the server's ServeNew events, the last being nextServe
  serverRuns, link, up, down, unread, fatal,
  toTell,       \* ends that have not heard yet that the link broke
  pages,        \* bound
  quiet         \* history: nobody closed, nothing broke and no Send failed

clientVars == <<m_state, m_objectBytesToBeReceived, m_embeddedObjectsToBeRequested, scheduled>>
serverVars == <<m_txBuffer, serves, serverRuns>>
httpVars == <<clientVars, serverVars, link, up, down, unread, fatal, toTell, pages, quiet>>

NotFound == [size |-> 0, isClosing |-> FALSE, hasTxedPart |-> FALSE, known |-> FALSE]
Fin == -1       \* in down; otherwise 0 is a byte and n > 0 the header of an object of n bytes

HttpInit ==
  /\ m_state = "NOT_STARTED" /\ m_objectBytesToBeReceived = 0
  /\ m_embeddedObjectsToBeRequested = 0 /\ scheduled = {}
  /\ m_txBuffer = NotFound /\ serves = <<>> /\ serverRuns = TRUE
  /\ link = "none" /\ up = <<>> /\ down = <<>> /\ unread = 0 /\ toTell = {}
  /\ fatal = "none" /\ pages = 0 /\ quiet = TRUE

Expecting == {"EXPECTING_MAIN_OBJECT", "EXPECTING_EMBEDDED_OBJECT"}
Connected == link \in {"half", "open"}
Bytes(stream) == Total([i \in DOMAIN stream |-> IF stream[i] > 0 THEN HeaderSize ELSE 1])

----------------------------------------------------------------------------
(* The client.                                                             *)

StartHttpClient ==
  /\ m_state = "NOT_STARTED" /\ m_state' = "CONNECTING" /\ link' = "opening"
  /\ UNCHANGED <<m_objectBytesToBeReceived, m_embeddedObjectsToBeRequested, scheduled,
                 serverVars, up, down, unread, fatal, toTell, pages, quiet>>

StopHttpClient ==
  /\ m_state \notin {"NOT_STARTED", "STOPPED"} /\ m_state' = "STOPPED" /\ scheduled' = {}
  /\ up' = IF Connected THEN Append(up, "FIN") ELSE up
  /\ link' = IF link = "opening" THEN "none" ELSE link
  /\ quiet' = FALSE
  /\ UNCHANGED <<m_objectBytesToBeReceived, m_embeddedObjectsToBeRequested,
                 serverVars, down, unread, fatal, toTell, pages>>

ConnectionSucceeded ==
  /\ link = "opening" /\ serverRuns /\ link' = "half"
  /\ IF m_state = "CONNECTING"
     THEN scheduled' = scheduled \cup {"RequestMain"} /\ UNCHANGED fatal
     ELSE fatal' = "state" /\ UNCHANGED scheduled
  /\ UNCHANGED <<m_state, m_objectBytesToBeReceived, m_embeddedObjectsToBeRequested,
                 serverVars, up, down, unread, toTell, pages, quiet>>

\* ConnectionFailedCallback only writes to the log.
ConnectionFailed ==
  /\ link = "opening" /\ link' = "none" /\ quiet' = FALSE
  /\ UNCHANGED <<clientVars, serverVars, up, down, unread, fatal, toTell, pages>>

\* Sends the request and switches to the state that expects the object; a Send
\* that fails leaves everything as it was.
Request(kind, states, next, embedded) ==
  /\ IF m_state \notin states
     THEN fatal' = "state" /\ UNCHANGED <<m_state, m_embeddedObjectsToBeRequested, up, quiet>>
     ELSE \/ /\ up' = IF Connected THEN Append(up, kind) ELSE up
             /\ m_state' = next
             /\ m_embeddedObjectsToBeRequested' = m_embeddedObjectsToBeRequested - embedded
             /\ fatal' = IF m_objectBytesToBeReceived > 0 THEN "not received" ELSE fatal
             /\ UNCHANGED quiet
          \/ quiet' = FALSE /\ UNCHANGED <<m_state, m_embeddedObjectsToBeRequested, up, fatal>>
  /\ UNCHANGED <<m_objectBytesToBeReceived, serverVars, link, down, unread, toTell>>

RequestMainObject ==
  /\ "RequestMain" \in scheduled /\ scheduled' = scheduled \ {"RequestMain"}
  /\ pages < MaxPages /\ pages' = pages + 1
  /\ Request("MAIN", {"CONNECTING", "READING"}, "EXPECTING_MAIN_OBJECT", 0)

RequestEmbeddedObject ==
  /\ "RequestEmbedded" \in scheduled /\ scheduled' = scheduled \ {"RequestEmbedded"}
  /\ m_embeddedObjectsToBeRequested > 0
  /\ Request("EMBEDDED", {"CONNECTING", "PARSING_MAIN_OBJECT", "EXPECTING_EMBEDDED_OBJECT"},
             "EXPECTING_EMBEDDED_OBJECT", 1)
  /\ UNCHANGED pages

\* Bytes still to be received once the packet has been taken.
Remaining_NoHeader(packet) ==
  LET expected == IF m_objectBytesToBeReceived = 0 THEN Head(packet) ELSE m_objectBytesToBeReceived
      content == Bytes(packet)
  IN IF expected < content THEN 0 ELSE expected - content
Remaining(packet) ==
  LET first == m_objectBytesToBeReceived = 0
      expected == IF first THEN Head(packet) ELSE m_objectBytesToBeReceived
      content == Bytes(IF first THEN Tail(packet) ELSE packet)
  IN IF expected < content THEN 0 ELSE expected - content

EnterReadingTime == m_state' = "READING" /\ scheduled' = scheduled \cup {"RequestMain"}

AfterObject_ReadsAtOnce ==
  IF m_state = "EXPECTING_MAIN_OBJECT"
  THEN m_state' = "PARSING_MAIN_OBJECT" /\ scheduled' = scheduled \cup {"Parse", "RequestEmbedded"}
  ELSE EnterReadingTime
AfterObject ==
  IF m_state = "EXPECTING_MAIN_OBJECT"
  THEN m_state' = "PARSING_MAIN_OBJECT" /\ scheduled' = scheduled \cup {"Parse"}
  ELSE IF m_embeddedObjectsToBeRequested > 0
       THEN scheduled' = scheduled \cup {"RequestEmbedded"} /\ UNCHANGED m_state
       ELSE EnterReadingTime

ClientReceivedData == \E n \in 1 .. Len(down) :
  LET packet == SubSeq(down, 1, n)
  IN /\ m_state # "STOPPED" /\ Fin \notin ToSet(packet) /\ (packet[1] > 0 => n > 1)
     /\ down' = SubSeq(down, n + 1, Len(down))
     /\ IF m_state \notin Expecting
        THEN fatal' = "state" /\ UNCHANGED <<m_state, m_objectBytesToBeReceived, scheduled>>
        ELSE /\ m_objectBytesToBeReceived' = Remaining(packet)
             /\ IF Remaining(packet) > 0 THEN UNCHANGED <<m_state, scheduled>> ELSE AfterObject
             /\ UNCHANGED fatal
     /\ UNCHANGED <<m_embeddedObjectsToBeRequested, serverVars, link, up, unread, toTell, pages, quiet>>

\* The socket of a stopped client takes what it has room for.
LeftUnread ==
  /\ m_state = "STOPPED" /\ down # <<>> /\ Head(down) # Fin
  /\ unread + Bytes(<<Head(down)>>) <= RxRoom
  /\ unread' = unread + Bytes(<<Head(down)>>) /\ down' = Tail(down)
  /\ UNCHANGED <<clientVars, serverVars, link, up, fatal, toTell, pages, quiet>>

ParseMainObject == \E n \in 0 .. MaxEmbedded :
  /\ "Parse" \in scheduled
  /\ IF m_state # "PARSING_MAIN_OBJECT"
     THEN fatal' = "state" /\ scheduled' = scheduled \ {"Parse"}
          /\ UNCHANGED <<m_state, m_embeddedObjectsToBeRequested>>
     ELSE /\ m_embeddedObjectsToBeRequested' = n
          /\ scheduled' = (scheduled \ {"Parse"}) \cup {IF n > 0 THEN "RequestEmbedded" ELSE "RequestMain"}
          /\ m_state' = IF n > 0 THEN m_state ELSE "READING"
          /\ UNCHANGED fatal
  /\ UNCHANGED <<m_objectBytesToBeReceived, serverVars, link, up, down, unread, toTell, pages, quiet>>

\* NormalCloseCallback and ErrorCloseCallback cancel the events, and no more.
ClientClosed ==
  /\ \/ down # <<>> /\ Head(down) = Fin /\ down' = Tail(down) /\ UNCHANGED toTell
     \/ "client" \in toTell /\ toTell' = toTell \ {"client"} /\ UNCHANGED down
  /\ scheduled' = {} /\ quiet' = FALSE
  /\ UNCHANGED <<m_state, m_objectBytesToBeReceived, m_embeddedObjectsToBeRequested,
                 serverVars, link, up, unread, fatal, pages>>

----------------------------------------------------------------------------
(* The server.                                                             *)

NewConnectionCreated ==
  /\ link = "half" /\ serverRuns /\ link' = "open"
  /\ m_txBuffer' = [NotFound EXCEPT !.known = TRUE]
  /\ UNCHANGED <<clientVars, serves, serverRuns, up, down, unread, fatal, toTell, pages, quiet>>

\* The entry is erased and nextServe cancelled, by RemoveSocket or CloseSocket,
\* and the server's stream ended.
Erase_KeepsServe(stream, events) ==
  /\ m_txBuffer' = NotFound /\ serves' = events
  /\ down' = IF Connected THEN Append(stream, Fin) ELSE stream
  /\ quiet' = FALSE
Erase(stream, events) ==
  /\ m_txBuffer' = NotFound
  /\ serves' = IF events = <<>> THEN events ELSE Front(events)
  /\ down' = IF Connected THEN Append(stream, Fin) ELSE stream
  /\ quiet' = FALSE

Keep(entry, stream, events) ==
  m_txBuffer' = entry /\ serves' = events /\ down' = stream /\ UNCHANGED quiet

ServerReceivedData ==
  /\ m_txBuffer.known /\ up # <<>> /\ Head(up) # "FIN"
  /\ up' = Tail(up) /\ serves' = Append(serves, Head(up))
  /\ UNCHANGED <<clientVars, m_txBuffer, serverRuns, link, down, unread, fatal, toTell, pages, quiet>>

Depleted_SentTwice(entry, amount) == [entry EXCEPT !.size = @ - amount]
Depleted_Packet(entry, amount) ==
  [entry EXCEPT !.size = @ - amount - (IF entry.hasTxedPart THEN 0 ELSE HeaderSize), !.hasTxedPart = TRUE]
Depleted(entry, amount) == [entry EXCEPT !.size = @ - amount, !.hasTxedPart = TRUE]

DepleteBufferSize_Stays(entry, amount, stream, events) ==
  Keep(Depleted(entry, amount), stream, events)
DepleteBufferSize(entry, amount, stream, events) ==
  IF entry.isClosing /\ entry.size = amount THEN Erase(stream, events)
  ELSE Keep(Depleted(entry, amount), stream, events)

\* The room left after the header is a difference of unsigned numbers.
ContentSize(entry, room) ==
  LET left == (room - HeaderSize) % SizeModulus
  IN IF entry.size < left THEN entry.size ELSE left

\* room is what GetTxAvailable says; a Send of more fails.
ServeFromTxBuffer(entry, events) == \E room \in 0 .. TxRoom - Bytes(down) :
  LET content == ContentSize(entry, room)
      packet == (IF entry.hasTxedPart THEN <<>> ELSE <<entry.size>>) \o [i \in 1 .. content |-> 0]
  IN IF content = 0 \/ Bytes(packet) > room THEN Keep(entry, down, events)
     ELSE DepleteBufferSize(entry, content, IF Connected THEN down \o packet ELSE down, events)

\* ServeNewMainObject and ServeNewEmbeddedObject, with WriteNewObject.
ServeNewObject == \E i \in DOMAIN serves, objectSize \in ObjectSizes :
  /\ IF m_txBuffer.known /\ m_txBuffer.size = 0
     THEN /\ ServeFromTxBuffer([m_txBuffer EXCEPT !.size = objectSize, !.hasTxedPart = FALSE],
                               RemoveAt(serves, i))
          /\ UNCHANGED fatal
     ELSE /\ fatal' = IF m_txBuffer.known THEN "not sent" ELSE "not found"
          /\ Keep(m_txBuffer, down, RemoveAt(serves, i))
  /\ UNCHANGED <<clientVars, serverRuns, link, up, unread, toTell, pages>>

\* TCP has room again.  After the buffer was served the entry is looked up for
\* the log, though DepleteBufferSize may have closed the socket and erased it:
\* in a build with logs and assertions the program ends there ("closed"), in
\* one without them it goes on.
SendCallback ==
  /\ m_txBuffer.size > 0
  /\ ServeFromTxBuffer(m_txBuffer, serves)
  /\ fatal' \in IF m_txBuffer'.known THEN {fatal} ELSE {fatal, "closed"}
  /\ UNCHANGED <<clientVars, serverRuns, link, up, unread, toTell, pages>>

ClosedByPeer ==
  IF m_txBuffer.size = 0 THEN Erase(down, serves)
  ELSE Keep([m_txBuffer EXCEPT !.isClosing = TRUE], down, serves)

ServerNormalClose ==
  /\ m_txBuffer.known /\ up # <<>> /\ Head(up) = "FIN" /\ up' = Tail(up)
  /\ ClosedByPeer
  /\ UNCHANGED <<clientVars, serverRuns, link, unread, fatal, toTell, pages>>

ServerErrorClose ==
  /\ "server" \in toTell /\ toTell' = toTell \ {"server"}
  /\ IF m_txBuffer.known THEN Erase(down, serves) ELSE Keep(m_txBuffer, down, serves)
  /\ UNCHANGED <<clientVars, serverRuns, link, up, unread, fatal, pages>>

\* CloseAllSockets.
StopHttpServer ==
  /\ serverRuns /\ serverRuns' = FALSE
  /\ IF m_txBuffer.known THEN Erase(down, serves) ELSE Keep(m_txBuffer, down, serves)
  /\ UNCHANGED <<clientVars, link, up, unread, fatal, toTell, pages>>

----------------------------------------------------------------------------
BreakLink ==
  /\ Connected /\ link' = "broken" /\ toTell' = {"client", "server"}
  /\ up' = <<>> /\ down' = <<>> /\ quiet' = FALSE
  /\ UNCHANGED <<clientVars, serverVars, unread, fatal, pages>>

HttpNext == fatal = "none" /\
  \/ StartHttpClient \/ StopHttpClient \/ ConnectionSucceeded \/ ConnectionFailed
  \/ RequestMainObject \/ RequestEmbeddedObject \/ ClientReceivedData \/ LeftUnread
  \/ ParseMainObject \/ ClientClosed \/ NewConnectionCreated \/ ServerReceivedData
  \/ ServeNewObject \/ SendCallback \/ ServerNormalClose \/ ServerErrorClose
  \/ StopHttpServer \/ BreakLink

HttpSpec == HttpInit /\ [][HttpNext]_httpVars

----------------------------------------------------------------------------
(* Properties.                                                             *)

\* Types; the embedded objects still to be requested are never fewer than none.
HttpTypeOK ==
  /\ m_embeddedObjectsToBeRequested \in 0 .. MaxEmbedded
  /\ m_objectBytesToBeReceived \in 0 .. SizeModulus /\ m_txBuffer.size \in Nat
  /\ unread <= RxRoom /\ Bytes(SelectSeq(down, LAMBDA x : x # Fin)) <= TxRoom

\* Whatever closes, stops or breaks, no callback of the client comes in a state
\* that does not expect it, no object is written over another, and none for a
\* connection whose entry is erased: nextServe is cancelled with it.  There is
\* one way to end the program, the look-up at the end of SendCallback, and only
\* a client that has stopped opens it, when the server has just handed the last
\* bytes to the socket that waited to be closed.
NoInvalidState == fatal = "none" \/ (fatal = "closed" /\ m_state = "STOPPED")

ObjectUnderWay == m_txBuffer.size > 0 \/ \E i \in DOMAIN down : down[i] # Fin
Undertakings ==
  Cardinality(scheduled) + Len(up) + Len(serves) + (IF ObjectUnderWay THEN 1 ELSE 0)

\* As long as nobody closes, exactly one thing is going on: an event of the
\* client, a request on its way, an object being made, or an object being
\* sent.  So the two never overlap, and never wait for each other.
OneThingAtATime == quiet /\ Connected => Undertakings = 1

\* Of the object that the client is receiving, what it lacks is on its way or
\* waits in the server's buffer.
ObjectInTransit ==
  quiet /\ m_objectBytesToBeReceived > 0 =>
    m_objectBytesToBeReceived = Bytes(down) + m_txBuffer.size

\* A socket that is to be closed when its buffer is empty has a buffer that
\* is not: it will be closed.
ClosingHasMore == m_txBuffer.isClosing => m_txBuffer.size > 0

\* Client, connection and server agree on the object that is asked for or sent.
PagesComplete == NoInvalidState /\ OneThingAtATime /\ ObjectInTransit /\ ClosingHasMore
=============================================================================
