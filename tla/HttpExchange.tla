---------------------------- MODULE HttpExchange ----------------------------
(***************************************************************************)
(* Requests and responses over one connection: net/http/Message, Protocol  *)
(* and Session at both of its ends, net/core/Endpoint and ProtocolHandler  *)
(* between them.                                                           *)
(*                                                                         *)
(* A byte is a message and a position in it.  A message is a start line, a *)
(* header line unless it is a response without a body, the empty line, and *)
(* the body: every message the code builds itself has one header at most.  *)
(* A line is one byte of text, CR and LF.                                  *)
(*                                                                         *)
(* A handler is one step, but for the loops of the protocol, which take a  *)
(* step for each turn.  `doing` is the loop under way: the ends share no   *)
(* memory and a handler of an end keeps its buffers to itself, so a loop   *)
(* runs to its end before anything else is done.                           *)
(***************************************************************************)
EXTENDS Integers, Sequences, SequencesExt, FiniteSetsExt

CONSTANTS
  Resource,     \* what the client asks for, each once
  BodySize,     \* [Resource -> Nat]: 0 for what the server does not have
  BufferSize,   \* OODLES_NET_BUFFER_SIZE
  Outstanding,  \* how many requests the client sends ahead of their responses
  WholeWrites,  \* the kernel takes all that a write offers it
  WholeHeaders  \* a read that starts a message has all of its headers

ASSUME ResourceAssumption == IsFiniteSet(Resource) /\ BodySize \in [Resource -> Nat]
ASSUME BufferAssumption == BufferSize \in Nat \ {0} /\ Outstanding \in Nat \ {0}
ASSUME NetworkAssumption == WholeWrites \in BOOLEAN /\ WholeHeaders \in BOOLEAN

VARIABLES
  outbound,     \* Protocol::outbound_messages of each end
  buffered,     \* Protocol::buffered_messages
  transferred,  \* Protocol::transferred
  fds,          \* Protocol::response_fds; a descriptor is the resource it is for
  written,      \* of each message: body_offset, buffered and what was read of its file
  obuf,         \* Endpoint::outbound, from the consumer's pointer on
  flight,       \* of the write under way: how much it offers, and how much was taken
  wire,         \* what the kernel took and the other end has not read
  incoming,     \* Protocol::incoming
  inbound,      \* Protocol::inbound_messages
  asked,        \* the requests made
  doing,        \* the loop under way, at which end, and the bytes it has still to read
  answers,      \* of each resource: what its descriptor got, once a response was handled
  fault         \* a call that never returns, a write behind the buffer, a throw

sendVars == <<outbound, buffered, transferred, written, obuf, flight>>
recvVars == <<incoming, inbound>>
userVars == <<asked, answers>>
vars == <<sendVars, fds, wire, recvVars, userVars, doing, fault>>

End == {"client", "server"}
Other(e) == IF e = "client" THEN "server" ELSE "client"

-----------------------------------------------------------------------------
(* Messages and their bytes *)

Message == {"request", "response"} \X Resource
Body(m) == IF m[1] = "response" THEN BodySize[m[2]] ELSE 0
HasHeader(m) == m[1] = "request" \/ Body(m) > 0

StartSize == 3
HeaderSize == 3
EndSize == 2
HeadSize(m) == StartSize + (IF HasHeader(m) THEN HeaderSize ELSE 0) + EndSize
Size(m) == HeadSize(m) + Body(m)

Byte == [of : Message, at : 1 .. Max({Size(m) : m \in Message})]
Bytes(m, from, to) == [k \in 1 .. to - from + 1 |-> [of |-> m, at |-> from + k - 1]]

LineEnds(m) == {StartSize, HeadSize(m)} \cup (IF HasHeader(m) THEN {StartSize + HeaderSize} ELSE {})
IsLF(b) == b.at \in LineEnds(b.of)
IsCR(b) == b.at + 1 \in LineEnds(b.of)

None == <<"none">>                 \* no descriptor (-1), no start line
ASSUME DescriptorAssumption == None \notin Resource
NoMessage == [fd |-> <<"no message">>]   \* NULL
Nothing == [what |-> "nothing"]
Loop(what, e) == [what |-> what, end |-> e]
Fresh(fd) == [fd |-> fd, start |-> None, length |-> 0, offset |-> 0, buffered |-> 0, body |-> << >>]

-----------------------------------------------------------------------------
Init ==
  /\ outbound = [e \in End |-> << >>] /\ buffered = [e \in End |-> << >>]
  /\ transferred = [e \in End |-> 0]
  /\ fds = [e \in End |-> << >>]
  /\ written = [m \in Message |-> [offset |-> 0, buffered |-> 0, read |-> 0]]
  /\ obuf = [e \in End |-> << >>] /\ wire = [e \in End |-> << >>]
  /\ flight = [e \in End |-> [offered |-> 0, taken |-> 0]]
  /\ incoming = [e \in End |-> NoMessage] /\ inbound = [e \in End |-> << >>]
  /\ asked = {} /\ answers = << >>
  /\ doing = Nothing
  /\ fault = "none"

-----------------------------------------------------------------------------
(* Message::to_buffer *)

\* write_headers: how many bytes it claims to have written into room for max.  The start
\* line is whole or not there at all; the header is compared with all of max, not with
\* what the start line left of it.
HeadWritten(m, max) ==
  CASE max < StartSize -> 0
    [] HasHeader(m) /\ HeaderSize + EndSize > max -> StartSize
    [] OTHER -> HeadSize(m)

\* pending(), mode Outbound: until the headers are counted in `buffered` it asks for too
\* much, and gets what the file still has.
PendingOut(m, w) == IF Body(m) = 0 THEN 0 ELSE Body(m) - (w.buffered - w.offset)

ToBuffer(m, max) ==
  LET h == IF written[m].offset > 0 THEN 0 ELSE HeadWritten(m, max)
      w == [written[m] EXCEPT !.offset = IF @ > 0 THEN @ ELSE h]
      n == IF h > max THEN 0 ELSE Min({PendingOut(m, w), max - h, Body(m) - w.read})
  IN  [head |-> h, body |-> n,
       after |-> [offset |-> w.offset, buffered |-> w.buffered + h + n, read |-> w.read + n]]

CompleteOut(m, w) == w.offset > 0 /\ PendingOut(m, w) = 0

-----------------------------------------------------------------------------
(* Sending: Protocol::push_message, ProtocolHandler::transfer_data, Endpoint::async_send *)

\* (A version that does not transfer.)
PushMessageIdle(e, m, fd) ==
  /\ outbound' = [outbound EXCEPT ![e] = Append(@, m)]
  /\ fds' = [fds EXCEPT ![e] = Append(@, fd)]
  /\ doing' = Nothing
PushMessage(e, m, fd) ==
  /\ outbound' = [outbound EXCEPT ![e] = Append(@, m)]
  /\ fds' = [fds EXCEPT ![e] = Append(@, fd)]
  /\ doing' = IF buffered[e] = << >> THEN Loop("fill", e) ELSE Nothing

\* A turn of Protocol::message2buffer.  A message that is not complete although there is
\* room is tried again, as it was.
Message2Buffer(e) ==
  /\ fault = "none" /\ doing = Loop("fill", e)
  /\ outbound[e] # << >> /\ Len(obuf[e]) < BufferSize
  /\ \E m \in {Head(outbound[e])}, max \in {BufferSize - Len(obuf[e])} :
     \E t \in {ToBuffer(m, max)} :
       /\ written' = [written EXCEPT ![m] = t.after]
       /\ obuf' = [obuf EXCEPT ![e] =
                     @ \o Bytes(m, 1, t.head)
                       \o Bytes(m, HeadSize(m) + t.after.read - t.body + 1, HeadSize(m) + t.after.read)]
       /\ IF CompleteOut(m, t.after)
          THEN /\ buffered' = [buffered EXCEPT ![e] = Append(@, m)]
               /\ outbound' = [outbound EXCEPT ![e] = Tail(@)]
          ELSE UNCHANGED <<buffered, outbound>>
       /\ fault' = CASE t.head > max -> "overrun"
                     [] t.head + t.body = 0 /\ ~CompleteOut(m, t.after) -> "spin"
                     [] OTHER -> "none"
  /\ UNCHANGED <<transferred, flight, fds, wire, recvVars, userVars, doing>>

\* What is in the buffer is offered to the kernel, unless a write is under way.
AsyncSend(e) ==
  flight' = IF flight[e].offered > 0 THEN flight
            ELSE [flight EXCEPT ![e].offered = Len(obuf[e])]

FilledUp(e) ==
  /\ fault = "none" /\ doing = Loop("fill", e)
  /\ outbound[e] = << >> \/ Len(obuf[e]) = BufferSize
  /\ AsyncSend(e)
  /\ doing' = Nothing
  /\ UNCHANGED <<outbound, buffered, transferred, written, obuf, fds, wire, recvVars, userVars, fault>>

\* The kernel takes some or all of what it was offered.
Transmit(e) ==
  /\ fault = "none" /\ doing = Nothing
  /\ flight[e].offered > 0 /\ flight[e].taken = 0
  /\ \E n \in IF WholeWrites THEN {flight[e].offered} ELSE 1 .. flight[e].offered :
       /\ wire' = [wire EXCEPT ![e] = @ \o SubSeq(obuf[e], 1, n)]
       /\ flight' = [flight EXCEPT ![e].taken = n]
  /\ UNCHANGED <<outbound, buffered, transferred, written, obuf, fds, recvVars, userVars, doing, fault>>

\* Endpoint::raw_send_callback: the bytes taken are consumed, and bytes_transferred counts them.
SendCallback(e) ==
  /\ fault = "none" /\ doing = Nothing
  /\ flight[e].taken > 0
  /\ obuf' = [obuf EXCEPT ![e] = SubSeq(@, flight[e].taken + 1, Len(@))]
  /\ transferred' = [transferred EXCEPT ![e] = @ + flight[e].taken]
  /\ flight' = [flight EXCEPT ![e] = [offered |-> 0, taken |-> 0]]
  /\ doing' = Loop("confirm", e)
  /\ UNCHANGED <<outbound, buffered, written, fds, wire, recvVars, userVars, fault>>

\* A turn of bytes_transferred: a message all of whose bytes are counted is deleted.  With
\* less than that the loop goes on as it was, and so for ever.
BytesTransferred(e) ==
  /\ fault = "none" /\ doing = Loop("confirm", e)
  /\ transferred[e] > 0 /\ buffered[e] # << >>
  /\ LET size == Size(Head(buffered[e]))
     IN  IF transferred[e] >= size
         THEN /\ buffered' = [buffered EXCEPT ![e] = Tail(@)]
              /\ transferred' = [transferred EXCEPT ![e] = @ - size]
              /\ UNCHANGED fault
         ELSE fault' = "spin" /\ UNCHANGED <<buffered, transferred>>
  /\ UNCHANGED <<outbound, written, obuf, flight, fds, wire, recvVars, userVars, doing>>

\* transfer_data(n) at the end of the callback: what is left is sent, or more is buffered.
Confirmed(e) ==
  /\ fault = "none" /\ doing = Loop("confirm", e)
  /\ transferred[e] = 0 \/ buffered[e] = << >>
  /\ IF obuf[e] # << >>
     THEN AsyncSend(e) /\ doing' = Nothing
     ELSE doing' = Loop("fill", e) /\ UNCHANGED flight
  /\ UNCHANGED <<outbound, buffered, transferred, written, obuf, fds, wire, recvVars, userVars, fault>>

-----------------------------------------------------------------------------
(* Message::from_buffer *)

\* pending(), mode Inbound: 0 for a request and for a response without content-length.
\* The count of what was buffered wraps, and the result is then more than any buffer holds.
PendingIn(c) ==
  LET n == IF c.start # None /\ c.start[1] = "response" THEN c.length ELSE 0
      left == n - (c.buffered - c.offset)
  IN  IF n = 0 THEN 0 ELSE IF left < 0 THEN BufferSize + 1 ELSE left

CompleteIn(c) == c.offset > 0 /\ PendingIn(c) = 0

\* read_headers on what was read.  `before` says whether the bytes in front of the buffer,
\* which it looks at for lines that end in the first three, look like the end of a line.
\* The first line of every read is taken for the start line; only another one that says
\* content-length is found.
CRat(buf, i, before) == IF i < 1 THEN before ELSE IsCR(buf[i])
LFat(buf, i, before) == IF i < 1 THEN before ELSE IsLF(buf[i])

ReadHeaders(c, buf, before) ==
  LET ends == {i \in DOMAIN buf : IsLF(buf[i])}
      last == {i \in ends : /\ CRat(buf, i - 1, before)
                            /\ LFat(buf, i - 2, before) /\ CRat(buf, i - 3, before)}
      first == IF ends = {} THEN 0 ELSE Min(ends)
      lines == {i \in ends \ {first} : last = {} \/ i < Min(last)}
      sized == {i \in lines : buf[i].of[1] = "response" /\ buf[i].at = StartSize + HeaderSize}
  IN  [fd |-> c.fd,
       start |-> IF first = StartSize /\ buf[first].at = StartSize THEN buf[first].of ELSE c.start,
       length |-> IF sized = {} THEN c.length ELSE Body(buf[Min(sized)].of),
       offset |-> IF last = {} THEN 0 ELSE Min(last),
       buffered |-> c.buffered, body |-> c.body]

HeadersBroken(buf, before) == \E i \in DOMAIN buf : IsLF(buf[i]) /\ ~CRat(buf, i - 1, before)

\* read_body asks pending() before the headers just read are counted.
BodyTaken(c, max) == IF c.fd = None THEN 0 ELSE Min({PendingIn(c), max})

\* The headers first, unless they were received, and what follows of the body.
AfterHeaders(c, buf, before) == IF c.offset > 0 THEN c ELSE ReadHeaders(c, buf, before)
HeadUsed(c, r, buf) ==
  CASE c.offset > 0 -> 0
    [] c.offset = 0 /\ r.offset > 0 -> r.offset
    [] OTHER -> Len(buf)
FromBuffer(r, h, buf) ==
  LET n == IF h < Len(buf) THEN BodyTaken(r, Len(buf) - h) ELSE 0
  IN  [used |-> h + n,
       after |-> [fd |-> r.fd, start |-> r.start, length |-> r.length, offset |-> r.offset,
                  buffered |-> r.buffered + h + n, body |-> r.body \o SubSeq(buf, h + 1, h + n)]]

\* Protocol::response_fd
\* (A version that takes the last one.)
NewestFd(q) == IF q = << >> THEN None ELSE q[Len(q)]
ResponseFd(q) == IF q = << >> THEN None ELSE Head(q)

\* A turn of Protocol::buffer2message: a message is begun where there is none, and gets what
\* it takes.  A message that takes nothing is asked again, for ever.
Incoming(e) == IF incoming[e] = NoMessage THEN Fresh(ResponseFd(fds[e])) ELSE incoming[e]

Buffer2Message(e) ==
  /\ fault = "none" /\ doing.what = "parse" /\ doing.end = e /\ doing.rest # << >>
  /\ fds' = IF incoming[e] = NoMessage /\ fds[e] # << >> THEN [fds EXCEPT ![e] = Tail(@)] ELSE fds
  /\ \E r \in {AfterHeaders(Incoming(e), doing.rest, doing.before)} :
     \E f \in {FromBuffer(r, HeadUsed(Incoming(e), r, doing.rest), doing.rest)} :
       /\ doing' = [doing EXCEPT !.rest = SubSeq(@, f.used + 1, Len(@))]
       /\ IF CompleteIn(f.after)
          THEN /\ inbound' = [inbound EXCEPT ![e] = Append(@, f.after)]
               /\ incoming' = [incoming EXCEPT ![e] = NoMessage]
          ELSE incoming' = [incoming EXCEPT ![e] = f.after] /\ UNCHANGED inbound
       /\ fault' = CASE Incoming(e).offset = 0 /\ HeadersBroken(doing.rest, doing.before) -> "header"
                     [] f.used = 0 /\ ~CompleteIn(f.after) -> "spin"
                     [] OTHER -> "none"
  /\ UNCHANGED <<sendVars, wire, userVars>>

Parsed(e) ==
  /\ doing.what = "parse" /\ doing.end = e /\ doing.rest = << >>
  /\ doing' = Nothing
  /\ UNCHANGED <<sendVars, fds, wire, recvVars, userVars, fault>>

\* Endpoint::raw_recv_callback with what arrived at end e.  With WholeHeaders the other
\* reads do not happen.
ReadsTheHead(e, n) ==
  LET heads == {i \in 1 .. n : wire[Other(e)][i].at = 1}
      whole(i) == i + HeadSize(wire[Other(e)][i].of) - 1 <= n
  IN  \A i \in heads : whole(i)

Receive(e) ==
  /\ fault = "none" /\ doing = Nothing
  /\ \E n \in 1 .. Min({Len(wire[Other(e)]), BufferSize}), before \in BOOLEAN :
       /\ WholeHeaders => ReadsTheHead(e, n) /\ ~before
       /\ doing' = [what |-> "parse", end |-> e, rest |-> SubSeq(wire[Other(e)], 1, n),
                    before |-> before]
       /\ wire' = [wire EXCEPT ![Other(e)] = SubSeq(@, n + 1, Len(@))]
  /\ UNCHANGED <<sendVars, fds, recvVars, userVars, fault>>

-----------------------------------------------------------------------------
(* The sessions: send_request, and handle_messages a message at a time *)

SendRequest(r) ==
  /\ fault = "none" /\ doing = Nothing
  /\ r \notin asked
  /\ Cardinality(asked \ DOMAIN answers) < Outstanding
  /\ asked' = asked \cup {r}
  /\ PushMessage("client", <<"request", r>>, r)
  /\ UNCHANGED <<buffered, transferred, written, obuf, flight, wire, recvVars, answers, fault>>

\* The server's session answers with send_response.  A request whose start line was lost
\* would be answered with 404; it is not followed further.
HandleRequest ==
  /\ fault = "none" /\ doing = Nothing
  /\ inbound["server"] # << >>
  /\ LET start == Head(inbound["server"]).start
     IN  IF start = None
         THEN fault' = "header" /\ UNCHANGED <<outbound, fds, doing>>
         ELSE PushMessage("server", <<"response", start[2]>>, None) /\ UNCHANGED fault
  /\ inbound' = [inbound EXCEPT !["server"] = Tail(@)]
  /\ UNCHANGED <<buffered, transferred, written, obuf, flight, wire, incoming, userVars>>

HandleResponse ==
  /\ fault = "none" /\ doing = Nothing
  /\ inbound["client"] # << >>
  /\ LET m == Head(inbound["client"])
     IN  answers' = [r \in DOMAIN answers \cup ({m.fd} \ {None}) |->
                       IF r = m.fd THEN [start |-> m.start, body |-> m.body] ELSE answers[r]]
  /\ inbound' = [inbound EXCEPT !["client"] = Tail(@)]
  /\ UNCHANGED <<sendVars, fds, wire, incoming, asked, doing, fault>>

Turn(e) ==
  \/ Message2Buffer(e) \/ FilledUp(e)
  \/ BytesTransferred(e) \/ Confirmed(e)
  \/ Buffer2Message(e) \/ Parsed(e)

Next ==
  \/ \E e \in End : Turn(e) \/ Transmit(e) \/ SendCallback(e) \/ Receive(e)
  \/ \E r \in Resource : SendRequest(r)
  \/ HandleRequest \/ HandleResponse

\* The kernel moves bytes and the Dispatcher's threads run what is ready.
Fairness ==
  /\ \A e \in End : WF_vars(Turn(e)) /\ WF_vars(Transmit(e)) /\ WF_vars(SendCallback(e)) /\ WF_vars(Receive(e))
  /\ WF_vars(HandleRequest) /\ WF_vars(HandleResponse)

Spec == Init /\ [][Next]_vars /\ Fairness

-----------------------------------------------------------------------------
(* Properties *)

Answer(r) ==
  LET m == <<"response", r>> IN [start |-> m, body |-> Bytes(m, HeadSize(m) + 1, Size(m))]

\* A response whose body took the beginning of the next one, which had come in the same
\* read: it counts its headers as if they were still to come (Message.cpp:206, 244), and
\* it never gets whole again.
Overread(c) == c # NoMessage /\ c.fd # None /\ IsStrictPrefix(Answer(c.fd).body, c.body)

\* A request's descriptor waits in the queue, is with the message being read or with one
\* that was read and not handled, or was answered: no two messages ever write to the same
\* file and none is forgotten, whatever the network does to the bytes
\* (http/Protocol.cpp:34-35, 125-136, 142-153).
Waiting == Range(fds["client"])
Read == IF incoming["client"] = NoMessage THEN {} ELSE {incoming["client"].fd} \ {None}
Handed == {inbound["client"][k].fd : k \in DOMAIN inbound["client"]} \ {None}
EachDescriptorOnce ==
  /\ asked = Waiting \cup Read \cup Handed \cup DOMAIN answers
  /\ Read \cap (Waiting \cup Handed \cup DOMAIN answers) = {}
  /\ Waiting \cap (Handed \cup DOMAIN answers) = {} /\ Handed \cap DOMAIN answers = {}
  /\ \A j, k \in DOMAIN fds["client"] : fds["client"][j] = fds["client"][k] => j = k
  /\ \A j, k \in DOMAIN inbound["client"] :
       inbound["client"][j].fd = inbound["client"][k].fd => j = k \/ inbound["client"][k].fd = None

\* What a descriptor got is the body of the response to its own request, all of it in
\* order, and nothing else, however many requests the client has out: a message takes the
\* next descriptor when it is begun, with the bytes of several responses in one read and
\* those of one in several (http/Protocol.cpp:112-153).  So it is with the one being read,
\* as far as it goes, unless it took of the next one, which takes two requests at a time.
\* And no loop of the protocol goes on for ever, no byte goes behind the buffer and no
\* header is refused.
BodyIsItsOwn ==
  /\ fault = "none" /\ EachDescriptorOnce
  /\ \A r \in DOMAIN answers : answers[r] = Answer(r)
  /\ LET c == incoming["client"]
     IN  c # NoMessage =>
           /\ c.start = Answer(c.fd).start
           /\ \/ IsPrefix(c.body, Answer(c.fd).body)
              \/ Overread(c) /\ Cardinality(asked \ DOMAIN answers) > 1

\* Every request is answered, unless a response takes of the next one: then nothing is
\* handed to the client's session any more.
EveryRequestAnswered ==
  \A r \in Resource : r \in asked ~> r \in DOMAIN answers \/ Overread(incoming["client"])
=============================================================================
