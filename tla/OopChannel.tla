------------------------------ MODULE OopChannel ------------------------------
(***************************************************************************)
(* One direction of a connection between two endpoints that speak OOP:     *)
(* net/oop/Protocol.cpp and Serialiser.hpp (queues of messages, what goes  *)
(* into a buffer and comes out of one), net/core/ProtocolHandler.cpp       *)
(* (transfer_data, receive_data), Endpoint.cpp (the asynchronous           *)
(* operations, their guards and callbacks) and Buffer.hpp, which is        *)
(* boost::asio::streambuf.                                                 *)
(*                                                                         *)
(* The handlers of an end run one after the other (the dispatcher may have *)
(* more threads than one, Dispatcher.hpp:16, which are left out here): a   *)
(* handler is a step, or, for a read, some steps during which no other of  *)
(* that end starts.                                                        *)
(* The write under way is not a handler: the kernel takes bytes from the   *)
(* buffer at any time between the call and its callback.                   *)
(***************************************************************************)
EXTENDS Integers, Sequences, SequencesExt

CONSTANTS
  Message,      \* each is pushed once at most
  BodySize,     \* [Message -> length of the serialised message]
  HeaderSize,   \* Message::Header::header_size, 6 in the code
  BufferSize,   \* NBS, the capacity of a Buffer
  Patient,      \* nothing is pushed while a message is in the buffer in part
  WholeHeaders  \* no read ends inside of a header

ASSUME SizeAssumption ==
  /\ HeaderSize \in Nat \ {0}
  /\ BodySize \in [Message -> Nat \ {0}]
  /\ BufferSize \in Nat /\ BufferSize >= HeaderSize
ASSUME ConductAssumption == Patient \in BOOLEAN /\ WholeHeaders \in BOOLEAN

VARIABLES
  pushed,       \* what push_message was called with, in order
  outbound,     \* Protocol::outbound_messages
  front,        \* of its first message: is its header in the buffer, and how many
                \* bytes of its body are (header.processed and the stream's tellg)
  buffered,     \* Protocol::buffered_messages
  transferred,  \* Protocol::transferred
  buf,          \* Endpoint::outbound, the streambuf: its bytes and two pointers
  flight,       \* the write under way, which send_guard stands for
  freed,        \* messages deleted, in order
  line,         \* every byte the kernel ever took
  read,         \* how many of them reached Endpoint::inbound ...
  parsed,       \* ... and how many were consumed there
  parsing,      \* buffer2message is in its loop
  incoming,     \* Protocol::incoming, as the bytes it has
  inbound,      \* Protocol::inbound_messages, as the bytes of each
  calls,        \* calls of handle_messages that are posted
  handled,      \* what handle_message was called with, in order
  open,         \* the socket is open
  fault         \* what left the defined behaviour of the program

queueVars == <<outbound, front, buffered>>
sendVars == <<queueVars, transferred, buf, freed>>
recvVars == <<read, parsed, parsing, incoming, inbound, calls, handled>>
vars == <<pushed, sendVars, flight, line, recvVars, open, fault>>

Size(m) == HeaderSize + BodySize[m]
Bytes(m) == [i \in 1..Size(m) |-> <<m, i>>]
Nothing == [header |-> FALSE, body |-> 0]
NoFlight == [at |-> 0, n |-> 0, sent |-> 0]
Lesser(a, b) == IF a < b THEN a ELSE b

\* The bytes of several messages, one after the other.
Stream(ms) == FlattenSeq([k \in DOMAIN ms |-> Bytes(ms[k])])

Init ==
  /\ pushed = << >> /\ outbound = << >> /\ buffered = << >> /\ freed = << >>
  /\ front = Nothing /\ transferred = 0
  /\ buf = [mem |-> [i \in 1..BufferSize |-> "unset"], get |-> 0, put |-> 0]
  /\ flight = NoFlight /\ line = << >>
  /\ read = 0 /\ parsed = 0 /\ parsing = FALSE /\ incoming = << >>
  /\ inbound = << >> /\ calls = 0 /\ handled = << >>
  /\ open = TRUE /\ fault = "none"

-------------------------------------------------------------------------------
(* The buffer *)

Held(b) == b.put - b.get

\* streambuf::reserve, for all the room there is: what is held moves to the front.
Prepare(b) ==
  [mem |-> [i \in 1..BufferSize |-> IF i <= Held(b) THEN b.mem[b.get + i] ELSE b.mem[i]],
   get |-> 0, put |-> Held(b)]

Commit(b, bytes) ==
  [mem |-> [i \in 1..BufferSize |->
              IF i \in b.put + 1 .. b.put + Len(bytes) THEN bytes[i - b.put] ELSE b.mem[i]],
   get |-> b.get, put |-> b.put + Len(bytes)]

\* (A version that forgets the last byte sent.)
ConsumeLess(b, n) == [b EXCEPT !.get = @ + n - 1]
Consume(b, n) == [b EXCEPT !.get = @ + n]

-------------------------------------------------------------------------------
(* The sender *)

\* Serialiser::to_buffer.  Without room for the header the body goes out alone.
Serialised(m, done, room) ==
  LET head == IF ~done.header /\ room >= HeaderSize THEN HeaderSize ELSE 0
      body == Lesser(room - head, BodySize[m] - done.body)
  IN SubSeq(Bytes(m), 1, head)
       \o SubSeq(Bytes(m), HeaderSize + done.body + 1, HeaderSize + done.body + body)

\* What message2buffer writes for a queue: of one message only, because it stops when
\* there is room left after it.
Written(queue, done, b) ==
  IF queue = << >> THEN << >> ELSE Serialised(Head(queue), done, BufferSize - Held(b))

\* message2buffer on what prepare_buffer returned; a message that ends exactly with the
\* buffer sends it to the front of what may be an empty queue.
Message2Buffer(queue, waiting, b) ==
  LET bytes == Written(queue, front, b)
      header == front.header \/ (bytes # << >> /\ bytes[1][2] = 1)
      body == front.body + Cardinality({i \in DOMAIN bytes : bytes[i][2] > HeaderSize})
      whole == queue # << >> /\ body = BodySize[Head(queue)]
  IN /\ buf' = Commit(Prepare(b), bytes)
     /\ outbound' = IF whole THEN Tail(queue) ELSE queue
     /\ buffered' = IF whole THEN Append(waiting, Head(queue)) ELSE waiting
     /\ front' = IF whole THEN Nothing ELSE [header |-> header, body |-> body]
     /\ fault' = IF whole /\ Held(buf') = BufferSize /\ outbound' = << >>
                 THEN "front of empty queue" ELSE fault

\* Endpoint::async_send from the front of the buffer, if no write is under way.
AsyncSend(fl, at, n) == flight' = IF fl # NoFlight \/ n = 0 THEN fl ELSE [at |-> at, n |-> n, sent |-> 0]

\* ProtocolHandler::transfer_data(0); a full buffer is left alone.
TransferNew(queue, waiting, b, fl) ==
  IF ~open \/ Held(b) = BufferSize
  THEN /\ outbound' = queue /\ buffered' = waiting /\ buf' = b /\ flight' = fl
       /\ UNCHANGED <<front, fault>>
  ELSE /\ Message2Buffer(queue, waiting, b)
       /\ AsyncSend(fl, buf'.get, IF Written(queue, front, b) = << >> THEN 0 ELSE Held(buf'))

PushMessage(m) ==
  /\ fault = "none"
  /\ m \notin Range(pushed)
  /\ Patient => front = Nothing
  /\ pushed' = Append(pushed, m)
  /\ IF buffered = << >>
     THEN TransferNew(Append(outbound, m), buffered, buf, flight)
     ELSE outbound' = Append(outbound, m) /\ UNCHANGED <<front, buffered, buf, flight, fault>>
  /\ UNCHANGED <<transferred, freed, line, recvVars, open>>

\* The kernel takes k bytes from where the write was told to, as they are by now.
Transmit(k) ==
  /\ fault = "none" /\ open
  /\ flight.sent = 0 /\ k \in 1..flight.n
  /\ line' = line \o SubSeq(buf.mem, flight.at + 1, flight.at + k)
  /\ flight' = [flight EXCEPT !.sent = k]
  /\ UNCHANGED <<pushed, sendVars, recvVars, open, fault>>

\* Protocol::bytes_transferred: how many of the buffered messages are out in full.
\* (A version that takes a message for sent when its last byte is not.)
SentEarly(total) ==
  CHOOSE k \in 0..Len(buffered) :
    /\ Len(Stream(SubSeq(buffered, 1, k))) <= total + 1
    /\ k < Len(buffered) => Len(Stream(SubSeq(buffered, 1, k + 1))) > total + 1
Sent(total) ==
  CHOOSE k \in 0..Len(buffered) :
    /\ Len(Stream(SubSeq(buffered, 1, k))) <= total
    /\ k < Len(buffered) => Len(Stream(SubSeq(buffered, 1, k + 1))) > total

\* Endpoint::raw_send_callback.
\* (A version that waits for the next push when it has emptied the buffer.)
RawSendCallbackOnly ==
  /\ fault = "none" /\ open
  /\ flight.sent > 0
  /\ LET left == Consume(buf, flight.sent)
         total == transferred + flight.sent
         out == SubSeq(buffered, 1, Sent(total))
     IN /\ transferred' = total - Len(Stream(out))
        /\ freed' = freed \o out
        /\ buffered' = SubSeq(buffered, Len(out) + 1, Len(buffered))
        /\ buf' = left /\ AsyncSend(NoFlight, left.get, Held(left))
        /\ UNCHANGED <<outbound, front, fault>>
  /\ UNCHANGED <<pushed, line, recvVars, open>>
RawSendCallback ==
  /\ fault = "none" /\ open
  /\ flight.sent > 0
  /\ LET left == Consume(buf, flight.sent)
         total == transferred + flight.sent
         out == SubSeq(buffered, 1, Sent(total))
         waiting == SubSeq(buffered, Len(out) + 1, Len(buffered))
     IN /\ transferred' = total - Len(Stream(out))
        /\ freed' = freed \o out
        /\ IF Held(left) = 0
           THEN TransferNew(outbound, waiting, left, NoFlight)
           ELSE /\ buffered' = waiting /\ buf' = left
                /\ AsyncSend(NoFlight, left.get, Held(left))
                /\ UNCHANGED <<outbound, front, fault>>
  /\ UNCHANGED <<pushed, line, recvVars, open>>

\* Endpoint::stop, at either end, or an error of the connection: what is under way is
\* aborted, and no transfer starts again.
Stop ==
  /\ fault = "none" /\ open
  /\ open' = FALSE /\ flight' = NoFlight
  /\ UNCHANGED <<pushed, sendVars, line, recvVars, fault>>

-------------------------------------------------------------------------------
(* The receiver *)

\* Endpoint::raw_recv_callback up to its call of buffer2message.
RawRecvCallback(k) ==
  /\ fault = "none" /\ ~parsing
  /\ k \in 1 .. Lesser(Len(line) - read, BufferSize - (read - parsed))
  /\ WholeHeaders => incoming # << >> \/ read + k - parsed >= HeaderSize
  /\ read' = read + k
  /\ parsing' = TRUE
  /\ UNCHANGED <<pushed, sendVars, flight, line, parsed, incoming, inbound, calls, handled, open, fault>>

\* buffer2message goes on after a message when another header is there.
\* (A version that goes on while there is a byte.)
AnotherByte(left) == left > 0
Another(left) == left >= HeaderSize

\* buffer2header finds a header in these bytes.
IsHeader(bytes) == \E m \in Message : bytes = SubSeq(Bytes(m), 1, HeaderSize)

\* A turn of the loop of buffer2message; after the last the bytes used are consumed, a
\* call of handle_messages is posted and the next read starts.
ParseOne ==
  LET max == read - parsed
      start == incoming = << >>
      header == SubSeq(line, parsed + 1, parsed + HeaderSize)
      m == IF start THEN header[1][1] ELSE incoming[1][1]
      take == IF start THEN Lesser(max, Size(m)) ELSE Lesser(max, Size(m) - Len(incoming))
      got == incoming \o SubSeq(line, parsed + 1, parsed + take)
      whole == Len(got) = Size(m)
      on == whole /\ Another(max - take)
  IN /\ fault = "none" /\ parsing
     /\ IF start /\ (max < HeaderSize \/ ~IsHeader(header))
        THEN /\ fault' = "no header"
             /\ UNCHANGED <<parsed, parsing, incoming, inbound, calls>>
        ELSE /\ parsed' = parsed + take
             /\ incoming' = IF whole THEN << >> ELSE got
             /\ inbound' = IF whole THEN Append(inbound, got) ELSE inbound
             /\ parsing' = on
             /\ calls' = IF on THEN calls ELSE calls + 1
             /\ UNCHANGED fault
     /\ UNCHANGED <<pushed, sendVars, flight, line, read, handled, open>>

\* Session::handle_messages: all that pop_message can reconstruct.
\* (A version that does not take what it handles off the queue.)
HandleAgain ==
  /\ fault = "none" /\ ~parsing
  /\ calls > 0
  /\ calls' = calls - 1
  /\ handled' = handled \o [k \in DOMAIN inbound |-> inbound[k][1][1]]
  /\ UNCHANGED <<pushed, sendVars, flight, line, read, parsed, parsing, incoming, inbound, open, fault>>
HandleMessages ==
  /\ fault = "none" /\ ~parsing
  /\ calls > 0
  /\ calls' = calls - 1
  /\ IF \A k \in DOMAIN inbound : \E m \in Message : inbound[k] = Bytes(m)
     THEN /\ inbound' = << >>
          /\ handled' = handled \o [k \in DOMAIN inbound |-> inbound[k][1][1]]
          /\ UNCHANGED fault
     ELSE fault' = "reconstruct" /\ UNCHANGED <<inbound, handled>>
  /\ UNCHANGED <<pushed, sendVars, flight, line, read, parsed, parsing, incoming, open>>

-------------------------------------------------------------------------------
Sending == RawSendCallback \/ \E k \in 1..BufferSize : Transmit(k)
Receiving == ParseOne \/ \E k \in 1..BufferSize : RawRecvCallback(k)

Next ==
  \/ \E m \in Message : PushMessage(m)
  \/ Sending \/ Stop
  \/ Receiving \/ HandleMessages

Spec == Init /\ [][Next]_vars

\* The kernel moves what it can, and the io_services run their handlers.
Fairness == WF_vars(Sending) /\ WF_vars(Receiving) /\ WF_vars(HandleMessages)

FairSpec == Spec /\ Fairness

-------------------------------------------------------------------------------
(* Properties *)

Channel == INSTANCE MessageChannel

\* Messages are handled once, whole and in the order in which they were pushed, however
\* the writes and the reads cut them (Protocol.cpp, both directions).
InOrder == Channel!Spec

\* The wire carries the bytes of the messages pushed, in order, none twice and none
\* missing: "until all data is sent" (ProtocolHandler.hpp:79-82).
StreamIntact == IsPrefix(line, Stream(pushed))

\* A message is deleted when its last byte is out, not before and not later than the
\* callback that says so: "Delete all fully-transferred outbound messages"
\* (Protocol.cpp:58-60).
FreedWhenSent ==
  open =>
    /\ Len(line) = Len(Stream(freed)) + transferred + flight.sent
    /\ transferred >= 0
    /\ buffered # << >> => transferred < Size(Head(buffered))
    /\ freed \o buffered \o outbound = pushed

\* The last message of the queue is in the buffer, and ends exactly where the buffer does.
\* As a message starts in an empty buffer, it is a multiple of its capacity.
EndsWithBuffer ==
  /\ buffered # << >> /\ outbound = << >>
  /\ \E c \in 1..Size(Head(buffered)) : Size(Head(buffered)) = c * BufferSize

\* The loop is at a header of which only a part was read.
HeaderCut == incoming = << >> /\ read - parsed < HeaderSize

\* The loops leave the data they have in two places only.  message2buffer goes to the front
\* of an empty queue behind a last message that ends with the buffer (Protocol.cpp:94-109),
\* buffer2message takes for a header what is none where a read ended inside of one, but
\* does not get there by a turn of its own (127-145).  What it received can always be
\* reconstructed.
FaultsKnown ==
  [][/\ fault' # fault => \/ fault' = "front of empty queue" /\ EndsWithBuffer'
                          \/ fault' = "no header" /\ HeaderCut
     /\ parsing /\ parsing' /\ ~HeaderCut => ~HeaderCut']_vars

\* While the connection lasts, and neither loop left its data, what is pushed gets to the
\* other end.
Delivered ==
  \A m \in Message : m \in Range(pushed) ~> m \in Range(handled) \/ ~open \/ fault # "none"
===============================================================================
