-------------------------- MODULE OopChannel_proofs --------------------------
(***************************************************************************)
(* Proofs about one direction of an OOP connection (OopChannel.tla), for   *)
(* any messages, sizes of their bodies, header and buffer:                 *)
(*                                                                         *)
(*   StreamStaysIntact     the wire carries what was pushed, in order,     *)
(*   FreedWhenSentAlways   a message is deleted when its last byte is out, *)
(*   HandledInOrder        the protocol implements MessageChannel,         *)
(*   FaultsAreKnown        where the loops leave the data they have.       *)
(*                                                                         *)
(* All are about a sender that is Patient: without that the bytes of a     *)
(* write under way move (OopChannel_moved.cfg finds it).  Reads may end    *)
(* anywhere: inside of a header too, which the loop of buffer2message      *)
(* cannot cope with.                                                       *)
(*                                                                         *)
(* The bytes sent are a stream: FlattenSeq over the messages.  Its length  *)
(* and its bytes are found by growing it by a message at a time (Grows),   *)
(* by induction over the stages.                                           *)
(***************************************************************************)
EXTENDS OopChannel, Lemmas

-------------------------------------------------------------------------------
(* The invariant of the sender.  What is in the buffer is one message, or  *)
(* part of one: the first that is not freed.                               *)

\* How much of the first message in the queue is in the buffer,
Part(f) == IF f.header THEN HeaderSize + f.body ELSE 0

\* ... and of the one that is in the buffer now, whole or in part.
Done == IF buffered # << >> THEN Size(Head(buffered)) ELSE Part(front)

\* The message that is going out.
Current == pushed[Len(freed) + 1]

ByteOf == {<<m, i>> : m \in Message, i \in Nat}

\* s is a prefix of t.
Agrees(s, t) == Len(s) <= Len(t) /\ \A i \in 1..Len(s) : s[i] = t[i]

IsBuffer(b) ==
  /\ b = [mem |-> b.mem, get |-> b.get, put |-> b.put]
  /\ b.get \in Nat /\ b.put \in Nat
SenderTypes ==
  /\ pushed \in Seq(Message) /\ outbound \in Seq(Message)
  /\ buffered \in Seq(Message) /\ freed \in Seq(Message)
  /\ front \in [header : BOOLEAN, body : Nat]
  /\ transferred \in Nat
  /\ IsBuffer(buf)
  /\ flight \in [at : Nat, n : Nat, sent : Nat]
  /\ line \in Seq(ByteOf)
  /\ open \in BOOLEAN

\* At most one message waits for its last byte to go out.
Waiting == freed \o buffered \o outbound = pushed /\ Len(buffered) <= 1

\* Some of the first message is in the buffer, but not all of it.
FrontFits ==
  \/ front = Nothing
  \/ /\ front.header /\ buffered = << >> /\ outbound # << >>
     /\ front.body < BodySize[Head(outbound)]

\* The buffer holds what was written there and is not out.
RoomUsed ==
  /\ Held(buf) = Done - transferred
  /\ Done > 0 => Held(buf) > 0
  /\ Held(buf) >= 0 /\ buf.put <= BufferSize

\* The buffer holds the next bytes of the message, and the write under way is of them all.
InPlace == \A i \in 1..Held(buf) : buf.mem[buf.get + i] = <<Current, transferred + i>>
Writing ==
  IF Held(buf) = 0 THEN flight = NoFlight
  ELSE flight.at = buf.get /\ flight.n = Held(buf) /\ flight.sent <= flight.n

\* The line has the messages freed, and of this one what went out.
LineIsShort == Len(line) = Len(Stream(freed)) + transferred + flight.sent
SenderState == Waiting /\ FrontFits /\ RoomUsed /\ InPlace /\ Writing /\ LineIsShort
SenderInv ==
  /\ SenderTypes
  /\ Agrees(line, Stream(pushed))
  /\ ~open => flight = NoFlight
  /\ open => SenderState

\* Whole buffers of a message went out before this one.
Aligned == open => \E q \in Nat : Part(front) = q * BufferSize

-------------------------------------------------------------------------------
(* The invariant of the receiver.  It is at message Received + 1, of which it *)
(* has a part, at the right place of the line.                                *)

\* k bytes of m behind the first n.
Piece(m, n, k) == [i \in 1..k |-> <<m, n + i>>]

\* How many messages the receiver has in full.
Received == Len(handled) + Len(inbound)

\* Where message n + 1 starts in the stream.
Off(n) == Len(Stream(SubSeq(pushed, 1, n)))

ReceiverTypes ==
  /\ read \in Nat /\ parsed \in Nat /\ parsing \in BOOLEAN /\ calls \in Nat
  /\ handled \in Seq(Message) /\ inbound \in Seq(Seq(ByteOf)) /\ incoming \in Seq(ByteOf)

\* What was received in full are the messages that follow those handled.
InboundWhole == \A k \in 1..Len(inbound) : inbound[k] = Piece(pushed[Len(handled) + k], 0, Size(pushed[Len(handled) + k]))

\* Part of a message has at least its header, and is all that was there to read.
IncomingPart ==
  incoming # << >> =>
    /\ Received < Len(pushed)
    /\ HeaderSize <= Len(incoming) /\ Len(incoming) < Size(pushed[Received + 1])
    /\ incoming = Piece(pushed[Received + 1], 0, Len(incoming))
    /\ ~parsing => parsed = read

\* Another turn of the loop finds something.
Parsed ==
  /\ parsed = Off(Received) + Len(incoming) /\ parsed <= read /\ read <= Len(line)
  /\ parsing => parsed < read
ReceiverInv ==
  /\ ReceiverTypes
  /\ Received <= Len(pushed)
  /\ \A k \in 1..Len(handled) : handled[k] = pushed[k]
  /\ InboundWhole /\ IncomingPart /\ Parsed

-------------------------------------------------------------------------------
(* Streams of messages *)

LEMMA BytesType ==
  ASSUME NEW m \in Message
  PROVE  /\ Size(m) \in Nat /\ Size(m) > HeaderSize /\ Size(m) = HeaderSize + BodySize[m]
         /\ Bytes(m) \in Seq(ByteOf) /\ Len(Bytes(m)) = Size(m)
         /\ \A i \in 1..Size(m) : Bytes(m)[i] = <<m, i>>
<1>1. Size(m) \in Nat /\ Size(m) > HeaderSize /\ Size(m) = HeaderSize + BodySize[m]
  BY SizeAssumption DEF Size
<1>2. Bytes(m) \in [1..Size(m) -> ByteOf]
  BY <1>1 DEF Bytes, ByteOf
<1> QED
  BY <1>1, <1>2 DEF Bytes

\* Two pieces one after the other: the operator \o by a name, which keeps the provers from looking inside of it.
Cat(s, t) == s \o t

LEMMA Joined ==
  ASSUME NEW s \in Seq(ByteOf), NEW t \in Seq(ByteOf)
  PROVE  /\ Cat(s, t) \in Seq(ByteOf) /\ Len(Cat(s, t)) = Len(s) + Len(t)
         /\ \A i \in 1..Len(s) : Cat(s, t)[i] = s[i]
         /\ \A i \in 1..Len(t) : Cat(s, t)[Len(s) + i] = t[i]
         /\ s = << >> => Cat(s, t) = t
BY DEF Cat

LEMMA Equal ==
  ASSUME NEW S, NEW s \in Seq(S), NEW t \in Seq(S), Len(s) = Len(t),
         \A i \in 1..Len(s) : s[i] = t[i]
  PROVE  s = t
OBVIOUS

Flat(f, seqs) == f = [i \in 1..Len(seqs) |-> IF i = 1 THEN seqs[i] ELSE Cat(f[i - 1], seqs[i])]

LEMMA FlattenDef ==
  ASSUME NEW seqs
  PROVE  FlattenSeq(seqs) = IF Len(seqs) = 0 THEN seqs ELSE (CHOOSE f : Flat(f, seqs))[Len(seqs)]
BY DEF FlattenSeq, Flat, Cat

\* F grows to the stream of p one message at a time.
Grows(F, p) ==
  /\ F \in [0..Len(p) -> Seq(ByteOf)]
  /\ F[0] = << >>
  /\ \A i \in 1..Len(p) : F[i] = Cat(F[i - 1], Bytes(p[i]))

LEMMA GrowthExists ==
  ASSUME NEW p \in Seq(Message)
  PROVE  \E F : Grows(F, p)
<1> DEFINE X == Seq(ByteOf)
           before == [n \in Nat |-> IF n = 0 THEN 0 ELSE n - 1]
           nil == << >>
           step == [ns \in Nat \X X |-> IF ns[1] \in 1..Len(p) THEN Cat(ns[2], Bytes(p[ns[1]])) ELSE nil]
<1>1. nil \in X
  OBVIOUS
<1>2. step \in [Nat \X X -> X]
  <2>1. ASSUME NEW n \in 1..Len(p), NEW s \in X PROVE Cat(s, Bytes(p[n])) \in X
    <3>1. p[n] \in Message
      OBVIOUS
    <3> QED
      BY <3>1, BytesType, Joined
  <2> HIDE DEF X
  <2> QED
    BY <1>1, <2>1
<1>3. before \in [Nat -> Nat] /\ \A n \in Nat \ {0} : before[n] = n - 1
  OBVIOUS
<1>4. \A n \in 1..Len(p), s \in X : step[n, s] = Cat(s, Bytes(p[n]))
  <2> SUFFICES ASSUME NEW n \in 1..Len(p), NEW s \in X PROVE step[n, s] = Cat(s, Bytes(p[n]))
    OBVIOUS
  <2> HIDE DEF X
  <2>1. <<n, s>> \in Nat \X X /\ <<n, s>>[1] = n /\ <<n, s>>[2] = s
    OBVIOUS
  <2>2. step[<<n, s>>] = Cat(s, Bytes(p[n]))
    BY <2>1
  <2> QED
    BY <2>2
<1> HIDE DEF X, before, step, nil
<1>5. Recursion(X, nil, before, step)
  BY <1>1, <1>2, <1>3 DEF Recursion
<1>6. PICK F : Solves(F, X, nil, before, step)
  BY <1>5, RecursionExists
<1> DEFINE G == [n \in 0..Len(p) |-> F[n]]
<1>7. Len(p) \in Nat
  OBVIOUS
<1>8. \A n \in Nat : F[n] \in X
  BY <1>6 DEF Solves
<1>9. \A n \in 0..Len(p) : G[n] \in X
  BY <1>7, <1>8
<1>10. ASSUME NEW i \in 1..Len(p) PROVE G[i] = Cat(G[i - 1], Bytes(p[i]))
  <2>1. i \in Nat \ {0} /\ i \in 0..Len(p) /\ i - 1 \in 0..Len(p) /\ i - 1 \in Nat
    BY <1>7
  <2>2. F[i] = step[i, F[before[i]]]
    BY <1>6, <2>1 DEF Solves
  <2> QED
    BY <1>3, <1>4, <1>8, <2>1, <2>2
<1>11. G[0] = nil
  <2>1. F[0] = nil
    BY <1>6 DEF Solves
  <2>2. 0 \in 0..Len(p)
    BY <1>7
  <2> QED
    BY <2>1, <2>2
<1>12. G \in [0..Len(p) -> X]
  BY <1>9
<1> HIDE DEF G
<1>13. Grows(G, p)
  BY <1>10, <1>11, <1>12 DEF Grows, X, nil
<1> QED
  BY <1>13

\* Two such functions agree where both are defined.
LEMMA GrowthAgrees ==
  ASSUME NEW p \in Seq(Message), NEW q \in Seq(Message), Len(q) <= Len(p),
         \A i \in 1..Len(q) : q[i] = p[i],
         NEW F, NEW G, Grows(F, p), Grows(G, q)
  PROVE  \A n \in 0..Len(q) : G[n] = F[n]
<1> DEFINE S == {n \in Nat : n <= Len(q) => G[n] = F[n]}
<1>1. ASSUME NEW n \in Nat, \A m \in 0..n - 1 : m \in S PROVE n \in S
  <2>1. CASE n = 0
    BY <2>1 DEF Grows
  <2>2. CASE n # 0 /\ n <= Len(q)
    <3>1. n \in 1..Len(q) /\ n \in 1..Len(p) /\ n - 1 \in 0..n - 1 /\ n - 1 <= Len(q)
      BY <2>2
    <3>2. G[n - 1] = F[n - 1]
      BY <1>1, <3>1
    <3> QED
      BY <3>1, <3>2 DEF Grows
  <2> QED
    BY <2>1, <2>2
<1> HIDE DEF S
<1>2. Nat \subseteq S
  BY <1>1, StrongInduction
<1> QED
  BY <1>2 DEF S

LEMMA StreamIsGrown ==
  ASSUME NEW p \in Seq(Message), NEW F, Grows(F, p)
  PROVE  Stream(p) = F[Len(p)]
<1> DEFINE seqs == [k \in DOMAIN p |-> Bytes(p[k])]
<1>1. Len(p) \in Nat /\ DOMAIN p = 1..Len(p)
  OBVIOUS
<1>2. seqs \in Seq(Seq(ByteOf)) /\ Len(seqs) = Len(p) /\ \A k \in 1..Len(p) : seqs[k] = Bytes(p[k])
  <2>1. \A k \in 1..Len(p) : Bytes(p[k]) \in Seq(ByteOf)
    BY BytesType
  <2>2. seqs \in [1..Len(p) -> Seq(ByteOf)]
    BY <1>1, <2>1
  <2> QED
    BY <1>1, <2>2
<1>3. Stream(p) = FlattenSeq(seqs)
  BY DEF Stream
<1> HIDE DEF seqs
<1>4. CASE Len(p) = 0
  <2>1. FlattenSeq(seqs) = seqs
    BY <1>2, <1>4, FlattenDef
  <2>2. seqs = << >>
    BY <1>2, <1>4
  <2> QED
    BY <1>3, <1>4, <2>1, <2>2 DEF Grows
<1>5. CASE Len(p) # 0
  <2> DEFINE f == CHOOSE f : Flat(f, seqs)
             g == [i \in 1..Len(p) |-> F[i]]
  <2>1. Flat(g, seqs)
    <3>1. ASSUME NEW i \in 1..Len(p) PROVE F[i] = IF i = 1 THEN seqs[i] ELSE Cat(g[i - 1], seqs[i])
      <4>1. F[i] = Cat(F[i - 1], seqs[i])
        BY <1>2 DEF Grows
      <4>2. CASE i = 1
        <5>1. F[0] = << >> /\ seqs[1] \in Seq(ByteOf)
          BY <1>2, <4>2 DEF Grows
        <5>2. Cat(<< >>, seqs[1]) = seqs[1]
          BY <5>1 DEF Cat
        <5>3. F[1] = Cat(F[0], seqs[1])
          BY <4>1, <4>2
        <5> HIDE DEF g, f
        <5>4. F[1] = seqs[1]
          BY <5>1, <5>2, <5>3
        <5> QED
          BY <4>2, <5>4
      <4>3. CASE i # 1
        <5>1. i - 1 \in 1..Len(p)
          BY <4>3
        <5> QED
          BY <4>1, <4>3, <5>1
      <4> QED
        BY <4>2, <4>3
    <3> QED
      BY <1>2, <3>1 DEF Flat
  <2>2. Flat(f, seqs)
    BY <2>1
  <2>3. FlattenSeq(seqs) = f[Len(p)]
    BY <1>2, <1>5, FlattenDef
  <2> HIDE DEF f
  <2> DEFINE S == {n \in Nat : n \in 1..Len(p) => f[n] = F[n]}
  <2>4. ASSUME NEW n \in Nat, \A m \in 0..n - 1 : m \in S PROVE n \in S
    <3>1. CASE n \in 1..Len(p)
      <4>1. f[n] = IF n = 1 THEN seqs[n] ELSE Cat(f[n - 1], seqs[n])
        BY <1>2, <2>2, <3>1 DEF Flat
      <4>2. g[n] = IF n = 1 THEN seqs[n] ELSE Cat(g[n - 1], seqs[n])
        BY <1>2, <2>1, <3>1 DEF Flat
      <4>3. CASE n # 1
        <5>1. n - 1 \in 0..n - 1 /\ n - 1 \in 1..Len(p)
          BY <3>1, <4>3
        <5>2. f[n - 1] = F[n - 1]
          BY <2>4, <5>1
        <5> QED
          BY <3>1, <4>1, <4>2, <4>3, <5>1, <5>2
      <4>4. CASE n = 1
        BY <3>1, <4>1, <4>2, <4>4
      <4> QED
        BY <4>3, <4>4
    <3> QED
      BY <3>1
  <2> HIDE DEF S
  <2>5. Nat \subseteq S
    BY <2>4, StrongInduction
  <2>6. f[Len(p)] = F[Len(p)]
    BY <1>1, <1>5, <2>5 DEF S
  <2> QED
    BY <1>3, <2>3, <2>6
<1> QED
  BY <1>4, <1>5

LEMMA PrefixOf ==
  ASSUME NEW p \in Seq(Message), NEW n \in 0..Len(p)
  PROVE  /\ SubSeq(p, 1, n) \in Seq(Message) /\ Len(SubSeq(p, 1, n)) = n
         /\ \A i \in 1..n : SubSeq(p, 1, n)[i] = p[i]
OBVIOUS

\* The stream of the first n is the n-th stage of the stream of all.
LEMMA StreamStage ==
  ASSUME NEW p \in Seq(Message), NEW F, Grows(F, p), NEW n \in 0..Len(p)
  PROVE  Stream(SubSeq(p, 1, n)) = F[n]
<1> DEFINE q == SubSeq(p, 1, n)
<1>1. q \in Seq(Message) /\ Len(q) = n /\ \A i \in 1..n : q[i] = p[i]
  BY PrefixOf
<1> HIDE DEF q
<1>2. PICK G : Grows(G, q)
  BY <1>1, GrowthExists
<1>3. Stream(q) = G[n]
  BY <1>1, <1>2, StreamIsGrown
<1>4. G[n] = F[n]
  <2>1. Len(q) <= Len(p) /\ n \in 0..Len(q)
    BY <1>1
  <2> QED
    BY <1>1, <1>2, <2>1, GrowthAgrees
<1> QED
  BY <1>3, <1>4 DEF q

LEMMA StreamEmpty == Stream(<< >>) = << >> /\ Stream(<< >>) \in Seq(ByteOf) /\ Len(Stream(<< >>)) = 0
<1> DEFINE p == << >>
<1>1. p \in Seq(Message) /\ Len(p) = 0
  OBVIOUS
<1> HIDE DEF p
<1>2. PICK F : Grows(F, p)
  BY <1>1, GrowthExists
<1>3. Stream(p) = F[0]
  BY <1>1, <1>2, StreamIsGrown
<1>4. F[0] = << >>
  BY <1>2 DEF Grows
<1>5. Stream(p) = << >>
  BY <1>3, <1>4
<1>6. << >> \in Seq(ByteOf) /\ Len(<< >>) = 0
  OBVIOUS
<1> QED
  BY <1>5, <1>6 DEF p

LEMMA StreamType ==
  ASSUME NEW p \in Seq(Message)
  PROVE  Stream(p) \in Seq(ByteOf) /\ Len(Stream(p)) \in Nat
<1>1. PICK F : Grows(F, p)
  BY GrowthExists
<1>2. Len(p) \in 0..Len(p)
  OBVIOUS
<1>3. Stream(p) = F[Len(p)] /\ F[Len(p)] \in Seq(ByteOf)
  BY <1>1, <1>2, StreamIsGrown DEF Grows
<1> QED
  BY <1>3

\* The bytes of message n + 1 come behind those of the first n.
LEMMA StreamStep ==
  ASSUME NEW p \in Seq(Message), NEW n \in 0..Len(p) - 1
  PROVE  /\ p[n + 1] \in Message
         /\ Stream(SubSeq(p, 1, n + 1)) = Cat(Stream(SubSeq(p, 1, n)), Bytes(p[n + 1]))
         /\ Len(Stream(SubSeq(p, 1, n + 1))) = Len(Stream(SubSeq(p, 1, n))) + Size(p[n + 1])
<1>1. PICK F : Grows(F, p)
  BY GrowthExists
<1>2. n \in 0..Len(p) /\ n + 1 \in 0..Len(p) /\ n + 1 \in 1..Len(p) /\ (n + 1) - 1 = n
  OBVIOUS
<1>3. p[n + 1] \in Message
  BY <1>2
<1>4. F[n + 1] = Cat(F[n], Bytes(p[n + 1])) /\ F[n] \in Seq(ByteOf)
  BY <1>1, <1>2 DEF Grows
<1>5. Len(F[n + 1]) = Len(F[n]) + Size(p[n + 1])
  <2>1. Bytes(p[n + 1]) \in Seq(ByteOf)
    BY <1>3, BytesType
  <2>2. Len(Bytes(p[n + 1])) = Size(p[n + 1])
    BY <1>3, BytesType
  <2>3. Len(F[n + 1]) = Len(F[n]) + Len(Bytes(p[n + 1]))
    BY <1>4, <2>1, Joined
  <2> QED
    BY <2>2, <2>3
<1> QED
  BY <1>1, <1>2, <1>3, <1>4, <1>5, StreamStage

\* The stream of the first n is the beginning of the stream of all.
LEMMA StreamBegins ==
  ASSUME NEW p \in Seq(Message), NEW n \in 0..Len(p)
  PROVE  Agrees(Stream(SubSeq(p, 1, n)), Stream(p))
<1>1. PICK F : Grows(F, p)
  BY GrowthExists
<1> DEFINE S == {k \in Nat : k \in n..Len(p) => Agrees(F[n], F[k])}
<1>2. \A k \in 0..Len(p) : F[k] \in Seq(ByteOf)
  BY <1>1 DEF Grows
<1>3. ASSUME NEW k \in Nat, \A m \in 0..k - 1 : m \in S PROVE k \in S
  <2>1. CASE k = n
    <3>1. Len(F[n]) \in Nat
      BY <1>2
    <3> QED
      BY <2>1, <3>1 DEF Agrees
  <2>2. CASE k \in n..Len(p) /\ k # n
    <3>1. k - 1 \in 0..k - 1 /\ k - 1 \in n..Len(p) /\ k \in 1..Len(p) /\ k - 1 \in 0..Len(p)
      BY <2>2
    <3>2. Agrees(F[n], F[k - 1])
      BY <1>3, <3>1
    <3>3. F[k] = Cat(F[k - 1], Bytes(p[k])) /\ p[k] \in Message
      <4>1. F[k] = Cat(F[k - 1], Bytes(p[k]))
        BY <1>1, <3>1 DEF Grows
      <4> QED
        BY <3>1, <4>1
    <3>4. F[k - 1] \in Seq(ByteOf) /\ F[n] \in Seq(ByteOf) /\ Bytes(p[k]) \in Seq(ByteOf)
      BY <1>2, <3>1, <3>3, BytesType
    <3>5. /\ Cat(F[k - 1], Bytes(p[k])) \in Seq(ByteOf)
          /\ Len(Cat(F[k - 1], Bytes(p[k]))) = Len(F[k - 1]) + Len(Bytes(p[k]))
          /\ \A i \in 1..Len(F[k - 1]) : Cat(F[k - 1], Bytes(p[k]))[i] = F[k - 1][i]
      <4> HIDE DEF S
      <4> QED
        BY <3>4, Joined
    <3>6. Agrees(F[n], Cat(F[k - 1], Bytes(p[k])))
      <4> DEFINE c == Cat(F[k - 1], Bytes(p[k]))
      <4>1. Len(c) = Len(F[k - 1]) + Len(Bytes(p[k])) /\ \A i \in 1..Len(F[k - 1]) : c[i] = F[k - 1][i]
        BY <3>5
      <4>2. /\ Len(F[n]) \in Nat /\ Len(F[k - 1]) \in Nat /\ Len(Bytes(p[k])) \in Nat
            /\ Len(c) \in Nat
        <5>1. c \in Seq(ByteOf)
          BY <3>5
        <5> HIDE DEF c
        <5> QED
          BY <3>4, <5>1
      <4> HIDE DEF S, c
      <4>3. Len(F[n]) <= Len(F[k - 1]) /\ \A i \in 1..Len(F[n]) : F[n][i] = F[k - 1][i]
        BY <3>2 DEF Agrees
      <4> DEFINE a == Len(F[n])
                 b == Len(F[k - 1])
      <4>4. a <= Len(c)
        <5>1. Len(c) = b + Len(Bytes(p[k])) /\ a <= b /\ a \in Nat /\ b \in Nat
          BY <4>1, <4>2, <4>3
        <5> HIDE DEF a, b
        <5> QED
          BY <4>2, <5>1
      <4>5. ASSUME NEW i \in 1..a PROVE F[n][i] = c[i]
        <5>1. i \in 1..b
          BY <4>2, <4>3
        <5> QED
          BY <4>1, <4>3, <5>1
      <4>6. Agrees(F[n], c)
        BY <4>4, <4>5 DEF Agrees
      <4> QED
        BY <4>6 DEF c
    <3> QED
      BY <3>3, <3>6
  <2> QED
    BY <2>1, <2>2
<1> HIDE DEF S
<1>4. Nat \subseteq S
  BY <1>3, StrongInduction
<1>5. Agrees(F[n], F[Len(p)])
  BY <1>4 DEF S
<1> QED
  BY <1>1, <1>5, StreamStage, StreamIsGrown

\* Where the bytes of message n + 1 are.
LEMMA Passage ==
  ASSUME NEW p \in Seq(Message), NEW n \in 0..Len(p) - 1
  PROVE  LET s == Len(Stream(SubSeq(p, 1, n)))
         IN /\ s \in Nat
            /\ s + Size(p[n + 1]) <= Len(Stream(p))
            /\ \A j \in 1..Size(p[n + 1]) : Stream(p)[s + j] = <<p[n + 1], j>>
<1> DEFINE a == Stream(SubSeq(p, 1, n))
           b == Stream(SubSeq(p, 1, n + 1))
           m == p[n + 1]
<1>1. n \in 0..Len(p) /\ n + 1 \in 0..Len(p)
  OBVIOUS
<1>2. a \in Seq(ByteOf)
  BY <1>1, PrefixOf, StreamType
<1>3. m \in Message /\ b = Cat(a, Bytes(m)) /\ Len(b) = Len(a) + Size(m)
  BY StreamStep
<1>4. Agrees(b, Stream(p))
  BY <1>1, StreamBegins
<1> HIDE DEF a, b, m
<1>5. Size(m) \in Nat /\ Bytes(m) \in Seq(ByteOf) /\ Len(Bytes(m)) = Size(m)
      /\ \A i \in 1..Size(m) : Bytes(m)[i] = <<m, i>>
  BY <1>3, BytesType
<1>6. \A j \in 1..Size(m) : b[Len(a) + j] = <<m, j>>
  <2>1. \A j \in 1..Len(Bytes(m)) : Cat(a, Bytes(m))[Len(a) + j] = Bytes(m)[j]
    BY <1>2, <1>5, Joined
  <2>2. b = Cat(a, Bytes(m))
    BY <1>3
  <2> QED
    BY <1>5, <2>1, <2>2
<1>7. Len(a) \in Nat /\ Len(b) <= Len(Stream(p))
  BY <1>2, <1>4 DEF Agrees
<1>8. ASSUME NEW j \in 1..Size(m) PROVE Stream(p)[Len(a) + j] = <<m, j>>
  <2>1. Len(a) + j \in 1..Len(b)
    BY <1>3, <1>5, <1>7
  <2> QED
    BY <1>4, <1>6, <2>1 DEF Agrees
<1> QED
  BY <1>3, <1>7, <1>8 DEF a, m

\* A push makes the stream longer.
LEMMA StreamAppend ==
  ASSUME NEW p \in Seq(Message), NEW m \in Message
  PROVE  /\ Append(p, m) \in Seq(Message)
         /\ Agrees(Stream(p), Stream(Append(p, m)))
<1>1. Append(p, m) \in Seq(Message) /\ SubSeq(Append(p, m), 1, Len(p)) = p
      /\ Len(p) \in 0..Len(Append(p, m))
  OBVIOUS
<1> QED
  BY <1>1, StreamBegins

-------------------------------------------------------------------------------
(* What goes into the buffer *)

LEMMA PieceType ==
  ASSUME NEW m \in Message, NEW n \in Nat, NEW k \in Nat
  PROVE  /\ Piece(m, n, k) \in Seq(ByteOf) /\ Len(Piece(m, n, k)) = k /\ DOMAIN Piece(m, n, k) = 1..k
         /\ \A i \in 1..k : Piece(m, n, k)[i] = <<m, n + i>>
<1>1. \A i \in 1..k : <<m, n + i>> \in ByteOf
  BY DEF ByteOf
<1>2. Piece(m, n, k) \in [1..k -> ByteOf]
  BY <1>1 DEF Piece
<1>3. Piece(m, n, k) \in Seq(ByteOf)
  BY <1>2
<1> QED
  BY <1>2, <1>3 DEF Piece

LEMMA PieceOfBytes ==
  ASSUME NEW m \in Message, NEW a \in Nat, NEW b \in Nat, a <= b, b <= Size(m)
  PROVE  SubSeq(Bytes(m), a + 1, b) = Piece(m, a, b - a)
<1>1. Bytes(m) \in Seq(ByteOf) /\ Len(Bytes(m)) = Size(m) /\ \A i \in 1..Size(m) : Bytes(m)[i] = <<m, i>>
  BY BytesType
<1>2. Size(m) \in Nat
  BY BytesType
<1>3. SubSeq(Bytes(m), a + 1, b) = [i \in 1..b - a |-> Bytes(m)[i + (a + 1) - 1]]
  <2>1. (1 + b) - (a + 1) = b - a
    OBVIOUS
  <2> QED
    BY <1>1, <1>2, <2>1
<1>4. \A i \in 1..b - a : Bytes(m)[i + (a + 1) - 1] = <<m, a + i>>
  <2>1. ASSUME NEW i \in 1..b - a PROVE Bytes(m)[i + (a + 1) - 1] = <<m, a + i>>
    <3>1. a + i \in 1..Size(m) /\ i + (a + 1) - 1 = a + i
      BY <1>2
    <3> QED
      BY <1>1, <3>1
  <2> QED
    BY <2>1
<1> QED
  BY <1>3, <1>4 DEF Piece

LEMMA PiecesJoined ==
  ASSUME NEW m \in Message, NEW n \in Nat, NEW k \in Nat, NEW j \in Nat
  PROVE  Cat(Piece(m, n, k), Piece(m, n + k, j)) = Piece(m, n, k + j)
<1> DEFINE s == Piece(m, n, k)
           t == Piece(m, n + k, j)
           u == Piece(m, n, k + j)
<1>0. n + k \in Nat /\ k + j \in Nat
  OBVIOUS
<1>1. s \in Seq(ByteOf) /\ t \in Seq(ByteOf) /\ u \in Seq(ByteOf)
  BY <1>0, PieceType
<1>2. Len(s) = k /\ Len(t) = j /\ Len(u) = k + j
  BY <1>0, PieceType
<1>3. /\ \A i \in 1..k : s[i] = <<m, n + i>>
      /\ \A i \in 1..j : t[i] = <<m, (n + k) + i>>
      /\ \A i \in 1..k + j : u[i] = <<m, n + i>>
  BY <1>0, PieceType
<1> HIDE DEF s, t, u
<1>4. ASSUME NEW i \in 1..k + j PROVE (s \o t)[i] = u[i]
  <2>1. CASE i \in 1..k
    <3>1. (s \o t)[i] = s[i]
      BY <1>1, <1>2, <2>1
    <3> QED
      BY <1>3, <2>1, <3>1
  <2>2. CASE i \notin 1..k
    <3>1. i - k \in 1..j /\ (n + k) + (i - k) = n + i
      BY <2>2
    <3>2. t[i - k] = <<m, n + i>>
      BY <1>3, <3>1
    <3>3. \A x \in 1..j : (s \o t)[k + x] = t[x]
      BY <1>1, <1>2, Joined DEF Cat
    <3>4. (s \o t)[k + (i - k)] = t[i - k]
      BY <3>1, <3>3
    <3>5. k + (i - k) = i
      OBVIOUS
    <3>6. (s \o t)[i] = t[i - k]
      BY <3>4, <3>5
    <3> QED
      BY <1>3, <3>2, <3>6
  <2> QED
    BY <2>1, <2>2
<1>5. s \o t \in Seq(ByteOf) /\ Len(s \o t) = k + j
  <2>1. Cat(s, t) \in Seq(ByteOf) /\ Len(Cat(s, t)) = Len(s) + Len(t)
    BY <1>1, Joined
  <2> QED
    BY <1>2, <2>1 DEF Cat
<1>6. s \o t = u
  BY <1>1, <1>2, <1>4, <1>5, Equal
<1> QED
  BY <1>6 DEF Cat, s, t, u

Room(m, f) == Lesser(BufferSize, Size(m) - Part(f))

\* A message of which some, but not all, is in the buffer already; or nothing is.
Begun(f, m) == f = Nothing \/ (f.header /\ f.body < BodySize[m])

LEMMA RoomBounds ==
  ASSUME NEW m \in Message, NEW f \in [header : BOOLEAN, body : Nat], Begun(f, m)
  PROVE  /\ Part(f) \in Nat /\ Part(f) < Size(m)
         /\ Part(f) # 0 => Part(f) >= HeaderSize
         /\ f.header <=> Part(f) # 0
         /\ Room(m, f) \in 1..BufferSize /\ Room(m, f) <= Size(m) - Part(f)
         /\ Part(f) = 0 => Room(m, f) >= HeaderSize
         /\ Room(m, f) < Size(m) - Part(f) => Room(m, f) = BufferSize
<1>1. Size(m) \in Nat /\ BodySize[m] \in Nat \ {0} /\ Size(m) = HeaderSize + BodySize[m]
  BY SizeAssumption, BytesType
<1>2. HeaderSize \in Nat \ {0} /\ BufferSize \in Nat /\ BufferSize >= HeaderSize
  BY SizeAssumption
<1>3. CASE f = Nothing
  <2>1. Part(f) = 0 /\ f.header = FALSE
    BY <1>3 DEF Part, Nothing
  <2> QED
    BY <1>1, <1>2, <2>1 DEF Room, Lesser
<1>4. CASE f.header /\ f.body < BodySize[m]
  <2>1. Part(f) = HeaderSize + f.body /\ f.body \in Nat
    BY <1>4 DEF Part
  <2> QED
    BY <1>1, <1>2, <1>4, <2>1 DEF Room, Lesser
<1> QED
  BY <1>3, <1>4 DEF Begun

LEMMA SerialisedIs ==
  ASSUME NEW m \in Message, NEW f \in [header : BOOLEAN, body : Nat], Begun(f, m)
  PROVE  Serialised(m, f, BufferSize) = Piece(m, Part(f), Room(m, f))
<1> DEFINE head == IF ~f.header /\ BufferSize >= HeaderSize THEN HeaderSize ELSE 0
           body == Lesser(BufferSize - head, BodySize[m] - f.body)
           from == HeaderSize + f.body
<1>1. Serialised(m, f, BufferSize) = Cat(SubSeq(Bytes(m), 0 + 1, head), SubSeq(Bytes(m), from + 1, from + body))
  BY DEF Serialised, Cat
<1>2. Size(m) \in Nat /\ BodySize[m] \in Nat \ {0} /\ Size(m) = HeaderSize + BodySize[m]
  BY SizeAssumption, BytesType
<1>3. HeaderSize \in Nat \ {0} /\ BufferSize \in Nat /\ BufferSize >= HeaderSize
  BY SizeAssumption
<1>4. f.body \in Nat /\ f.header \in BOOLEAN
  OBVIOUS
<1>5. CASE f = Nothing
  <2>1. ~f.header /\ f.body = 0 /\ Part(f) = 0
    BY <1>5 DEF Nothing, Part
  <2>2. head = HeaderSize /\ from = HeaderSize
    BY <1>3, <2>1
  <2>3. body \in Nat /\ HeaderSize + body <= Size(m) /\ HeaderSize + body = Room(m, f)
    BY <1>2, <1>3, <2>1, <2>2 DEF Lesser, Room
  <2> HIDE DEF head, body, from
  <2>4. SubSeq(Bytes(m), 0 + 1, head) = Piece(m, 0, HeaderSize)
    <3>1. HeaderSize \in Nat /\ HeaderSize <= Size(m) /\ HeaderSize - 0 = HeaderSize
      BY <1>2, <1>3
    <3> QED
      BY <2>2, <3>1, PieceOfBytes
  <2>5. SubSeq(Bytes(m), from + 1, from + body) = Piece(m, HeaderSize, body)
    <3>1. HeaderSize \in Nat /\ HeaderSize + body \in Nat /\ HeaderSize <= HeaderSize + body
          /\ (HeaderSize + body) - HeaderSize = body
      BY <1>3, <2>3
    <3> QED
      BY <2>2, <2>3, <3>1, PieceOfBytes
  <2>6. Cat(Piece(m, 0, HeaderSize), Piece(m, 0 + HeaderSize, body)) = Piece(m, 0, HeaderSize + body)
    BY <1>3, <2>3, PiecesJoined
  <2>7. 0 + HeaderSize = HeaderSize
    BY <1>3
  <2> QED
    BY <1>1, <2>1, <2>3, <2>4, <2>5, <2>6, <2>7
<1>6. CASE f.header /\ f.body < BodySize[m]
  <2>1. Part(f) = from /\ from \in Nat /\ head = 0
    BY <1>3, <1>4, <1>6 DEF Part
  <2>2. body \in Nat /\ from + body <= Size(m) /\ body = Room(m, f)
    BY <1>2, <1>3, <1>4, <1>6, <2>1 DEF Lesser, Room
  <2> HIDE DEF head, body, from
  <2>3. SubSeq(Bytes(m), 0 + 1, head) = Piece(m, 0, 0)
    <3>1. 0 - 0 = 0 /\ 0 <= Size(m)
      BY <1>2
    <3> QED
      BY <2>1, <3>1, PieceOfBytes
  <2>4. SubSeq(Bytes(m), from + 1, from + body) = Piece(m, from, body)
    <3>1. from \in Nat /\ from + body \in Nat /\ from <= from + body /\ from + body <= Size(m)
      BY <2>1, <2>2
    <3>2. SubSeq(Bytes(m), from + 1, from + body) = Piece(m, from, (from + body) - from)
      BY <3>1, PieceOfBytes
    <3>3. (from + body) - from = body
      BY <2>1, <2>2
    <3> QED
      BY <3>2, <3>3
  <2>5. Piece(m, 0, 0) = << >>
    BY DEF Piece
  <2>6. Cat(<< >>, Piece(m, from, body)) = Piece(m, from, body)
    <3>1. Piece(m, from, body) \in Seq(ByteOf)
      BY <2>1, <2>2, PieceType
    <3> QED
      BY <3>1 DEF Cat
  <2> QED
    BY <1>1, <2>1, <2>2, <2>3, <2>4, <2>5, <2>6
<1> QED
  BY <1>5, <1>6 DEF Begun

\* The bytes that message2buffer counts for the body.
BodyBytes(bytes) == {i \in DOMAIN bytes : bytes[i][2] > HeaderSize}

LEMMA BodyWritten ==
  ASSUME NEW m \in Message, NEW f \in [header : BOOLEAN, body : Nat], Begun(f, m)
  PROVE  f.body + Cardinality(BodyBytes(Piece(m, Part(f), Room(m, f)))) = Part(f) + Room(m, f) - HeaderSize
<1> DEFINE n == Part(f)
           k == Room(m, f)
           bytes == Piece(m, n, k)
<1>1. n \in Nat /\ k \in Nat /\ (n = 0 => k >= HeaderSize) /\ (n # 0 => n >= HeaderSize) /\ (f.header <=> n # 0)
  BY RoomBounds
<1>2. HeaderSize \in Nat \ {0}
  BY SizeAssumption
<1>3. DOMAIN bytes = 1..k /\ \A i \in 1..k : bytes[i] = <<m, n + i>>
  BY <1>1, PieceType
<1>4. \A i \in 1..k : bytes[i][2] = n + i
  BY <1>3
<1>5. f.body \in Nat
  OBVIOUS
<1>6. n = IF f.header THEN HeaderSize + f.body ELSE 0
  BY DEF Part
<1>7. f.header = FALSE => f.body = 0
  BY DEF Begun, Nothing
<1> HIDE DEF n, k, bytes
<1>8. BodyBytes(bytes) = {i \in 1..k : n + i > HeaderSize}
  BY <1>3, <1>4 DEF BodyBytes
<1>9. CASE n = 0
  <2>1. BodyBytes(bytes) = HeaderSize + 1 .. k
    BY <1>1, <1>2, <1>8, <1>9
  <2>2. HeaderSize + 1 \in Int /\ k \in Int
    BY <1>1, <1>2
  <2>3. Cardinality(HeaderSize + 1 .. k) = IF HeaderSize + 1 > k THEN 0 ELSE k - (HeaderSize + 1) + 1
    BY <2>2, FS_Interval
  <2>4. Cardinality(HeaderSize + 1 .. k) = k - HeaderSize
    BY <1>1, <1>2, <1>9, <2>3
  <2>5. f.body = 0
    BY <1>1, <1>7, <1>9
  <2>6. f.body + Cardinality(BodyBytes(bytes)) = n + k - HeaderSize
    BY <1>1, <1>2, <1>9, <2>1, <2>4, <2>5
  <2> QED
    BY <2>6 DEF n, k, bytes
<1>10. CASE n # 0
  <2>1. BodyBytes(bytes) = 1..k
    BY <1>1, <1>2, <1>8, <1>10
  <2>2. Cardinality(1..k) = k
    BY <1>1, FS_Interval
  <2>3. n = HeaderSize + f.body
    BY <1>1, <1>6, <1>10
  <2>4. f.body + Cardinality(BodyBytes(bytes)) = n + k - HeaderSize
    BY <1>1, <1>2, <1>5, <2>1, <2>2, <2>3
  <2> QED
    BY <2>4 DEF n, k, bytes
<1> QED
  BY <1>9, <1>10

LEMMA Committed ==
  ASSUME NEW b, b.get \in Nat, b.put \in Nat, Held(b) = 0, NEW bytes, Len(bytes) \in 0..BufferSize
  PROVE  LET c == Commit(Prepare(b), bytes)
         IN /\ IsBuffer(c) /\ c.get = 0 /\ c.put = Len(bytes)
            /\ \A i \in 1..Len(bytes) : c.mem[i] = bytes[i]
<1> DEFINE p == Prepare(b)
           c == Commit(p, bytes)
<1>1. p.get = 0 /\ p.put = 0
  BY DEF Prepare
<1> HIDE DEF p
<1>2. c.get = 0 /\ c.put = Len(bytes)
  BY <1>1 DEF Commit
<1>3. IsBuffer(c)
  <2>1. c = [mem |-> c.mem, get |-> c.get, put |-> c.put]
    BY DEF Commit
  <2> HIDE DEF c
  <2> QED
    BY <1>2, <2>1 DEF IsBuffer
<1>4. ASSUME NEW i \in 1..Len(bytes) PROVE c.mem[i] = bytes[i]
  <2>1. i \in 1..BufferSize /\ i \in p.put + 1 .. p.put + Len(bytes) /\ i - p.put = i
    BY <1>1, SizeAssumption
  <2> QED
    BY <2>1 DEF Commit
<1> QED
  BY <1>2, <1>3, <1>4 DEF p

\* What a transfer into an empty buffer does, given the queue q it is called with.
TransferredNone ==
  /\ outbound' = << >> /\ buffered' = << >> /\ front' = Nothing
  /\ IsBuffer(buf') /\ buf'.get = 0 /\ buf'.put = 0 /\ flight' = NoFlight /\ fault' = fault
TransferredSome(q, m, n, k) ==
  /\ IsBuffer(buf') /\ buf'.get = 0 /\ buf'.put = k
  /\ \A i \in 1..k : buf'.mem[i] = <<m, n + i>>
  /\ flight' = [at |-> 0, n |-> k, sent |-> 0]
  /\ n + k = Size(m) => /\ outbound' = Tail(q) /\ buffered' = <<m>> /\ front' = Nothing
                        /\ fault' = IF k = BufferSize /\ Tail(q) = << >> THEN "front of empty queue" ELSE fault
  /\ n + k # Size(m) => /\ outbound' = q /\ buffered' = << >>
                        /\ front' = [header |-> TRUE, body |-> n + k - HeaderSize]
                        /\ fault' = fault

LEMMA Transferring ==
  ASSUME NEW q \in Seq(Message), NEW b, b.get \in Nat, b.put \in Nat, Held(b) = 0, open,
         front \in [header : BOOLEAN, body : Nat],
         front = Nothing \/ (q # << >> /\ Begun(front, Head(q))),
         TransferNew(q, << >>, b, NoFlight)
  PROVE  /\ q = << >> => TransferredNone
         /\ q # << >> => TransferredSome(q, Head(q), Part(front), Room(Head(q), front))
<1>1. HeaderSize \in Nat \ {0} /\ BufferSize \in Nat \ {0}
  BY SizeAssumption
<1>2. Held(b) # BufferSize
  BY <1>1
<1> DEFINE bytes == Written(q, front, b)
<1>3. /\ Message2Buffer(q, << >>, b)
      /\ AsyncSend(NoFlight, buf'.get, IF bytes = << >> THEN 0 ELSE Held(buf'))
  BY <1>2 DEF TransferNew
<1> DEFINE header == front.header \/ (bytes # << >> /\ bytes[1][2] = 1)
           body == front.body + Cardinality(BodyBytes(bytes))
           whole == q # << >> /\ body = BodySize[Head(q)]
<1>4. /\ buf' = Commit(Prepare(b), bytes)
      /\ outbound' = IF whole THEN Tail(q) ELSE q
      /\ buffered' = IF whole THEN Append(<< >>, Head(q)) ELSE << >>
      /\ front' = IF whole THEN Nothing ELSE [header |-> header, body |-> body]
      /\ fault' = IF whole /\ Held(buf') = BufferSize /\ outbound' = << >>
                  THEN "front of empty queue" ELSE fault
  BY <1>3 DEF Message2Buffer, BodyBytes
<1> HIDE DEF bytes
<1>5. CASE q = << >>
  <2>1. bytes = << >>
    BY <1>5 DEF bytes, Written
  <2>2. ~whole
    BY <1>5
  <2>3. Len(bytes) = 0 /\ BodyBytes(bytes) = {}
    BY <2>1 DEF BodyBytes
  <2>4. Cardinality(BodyBytes(bytes)) = 0
    BY <2>3, FS_EmptySet
  <2>5. front = Nothing /\ front.header = FALSE /\ front.body = 0
    BY <1>5 DEF Nothing
  <2>6. header = FALSE /\ body = 0
    BY <2>1, <2>4, <2>5
  <2>7. IsBuffer(buf') /\ buf'.get = 0 /\ buf'.put = 0
    <3>1. Len(bytes) \in 0..BufferSize
      BY <1>1, <2>3
    <3> QED
      BY <1>4, <2>3, <3>1, Committed
  <2>8. flight' = NoFlight
    BY <1>3, <2>1 DEF AsyncSend
  <2> HIDE DEF header, body, whole
  <2>9. outbound' = << >> /\ buffered' = << >> /\ fault' = fault
    BY <1>4, <1>5, <2>2
  <2>10. front' = Nothing
    BY <1>4, <2>2, <2>6 DEF Nothing
  <2> QED
    BY <1>5, <2>7, <2>8, <2>9, <2>10 DEF TransferredNone
<1>6. CASE q # << >>
  <2> DEFINE m == Head(q)
             n == Part(front)
             k == Room(m, front)
  <2>1. m \in Message
    BY <1>6
  <2>2. Begun(front, m)
    BY <1>6 DEF Begun
  <2>3. n \in Nat /\ k \in 1..BufferSize /\ k \in Nat /\ (front.header <=> n # 0)
    BY <1>1, <2>1, <2>2, RoomBounds
  <2>4. bytes = Piece(m, n, k)
    <3>1. BufferSize - Held(b) = BufferSize
      BY <1>1
    <3>2. bytes = Serialised(m, front, BufferSize)
      BY <1>6, <3>1 DEF bytes, Written
    <3> QED
      BY <2>1, <2>2, <3>2, SerialisedIs
  <2>5. Len(bytes) = k /\ \A i \in 1..k : bytes[i] = <<m, n + i>>
    BY <2>1, <2>3, <2>4, PieceType
  <2>6. body = n + k - HeaderSize
    BY <2>1, <2>2, <2>4, BodyWritten
  <2>7. BodySize[m] \in Nat \ {0} /\ Size(m) = HeaderSize + BodySize[m]
    BY <2>1, SizeAssumption, BytesType
  <2> HIDE DEF m, n, k, body
  <2>8. whole <=> n + k = Size(m)
    BY <1>1, <1>6, <2>3, <2>6, <2>7 DEF m
  <2>9. 1 \in 1..k /\ bytes # << >>
    <3>1. Len(bytes) # 0
      BY <2>3, <2>5
    <3>2. Len(<< >>) = 0
      OBVIOUS
    <3> QED
      BY <2>3, <3>1, <3>2
  <2>10. header = TRUE
    <3>1. CASE n = 0
      <4>1. bytes[1] = <<m, n + 1>>
        BY <2>5, <2>9
      <4>2. bytes[1][2] = 1
        BY <3>1, <4>1
      <4> QED
        BY <2>9, <4>2
    <3>2. CASE n # 0
      BY <2>3, <3>2
    <3> QED
      BY <3>1, <3>2
  <2> HIDE DEF whole, header
  <2>11. IsBuffer(buf') /\ buf'.get = 0 /\ buf'.put = k /\ \A i \in 1..k : buf'.mem[i] = bytes[i]
    <3>1. Len(bytes) \in 0..BufferSize
      BY <1>1, <2>3, <2>5
    <3> DEFINE c == Commit(Prepare(b), bytes)
    <3>2. IsBuffer(c) /\ c.get = 0 /\ c.put = Len(bytes) /\ \A i \in 1..Len(bytes) : c.mem[i] = bytes[i]
      BY <3>1, Committed
    <3>3. buf' = c
      BY <1>4
    <3> HIDE DEF c
    <3> QED
      BY <2>5, <3>2, <3>3
  <2>12. Held(buf') = k
    BY <2>3, <2>11 DEF Held
  <2>13. flight' = [at |-> 0, n |-> k, sent |-> 0]
    BY <1>3, <2>3, <2>9, <2>11, <2>12 DEF AsyncSend
  <2>14. \A i \in 1..k : buf'.mem[i] = <<m, n + i>>
    BY <2>5, <2>11
  <2>15. ASSUME n + k = Size(m)
         PROVE  /\ outbound' = Tail(q) /\ buffered' = <<m>> /\ front' = Nothing
                /\ fault' = IF k = BufferSize /\ Tail(q) = << >> THEN "front of empty queue" ELSE fault
    <3>1. whole
      BY <2>8, <2>15
    <3>2. Append(<< >>, Head(q)) = <<m>>
      BY DEF m
    <3> QED
      BY <1>4, <2>12, <3>1, <3>2
  <2>16. ASSUME n + k # Size(m)
         PROVE  /\ outbound' = q /\ buffered' = << >>
                /\ front' = [header |-> TRUE, body |-> n + k - HeaderSize]
                /\ fault' = fault
    <3>1. ~whole
      BY <2>8, <2>16
    <3> QED
      BY <1>4, <2>6, <2>10, <3>1
  <2>17. TransferredSome(q, m, n, k)
    BY <2>11, <2>13, <2>14, <2>15, <2>16 DEF TransferredSome
  <2> QED
    BY <1>6, <2>17 DEF m, n, k
<1> QED
  BY <1>5, <1>6

-------------------------------------------------------------------------------
(* The sender *)

LEMMA Regrouped ==
  ASSUME NEW s \in Seq(Message), NEW t \in Seq(Message), NEW u \in Seq(Message)
  PROVE  (s \o t) \o u = s \o (t \o u)
OBVIOUS

\* The messages w are those of s and then those of q, or those of s, then b, then q.
Followed(s, q, w) == s \o q = w
Arranged(s, b, q, w) == s \o b \o q = w

\* The first of q taken from it or not, and put in between.
LEMMA FollowedBy ==
  ASSUME NEW s \in Seq(Message), NEW q \in Seq(Message), NEW w, Followed(s, q, w)
  PROVE  /\ Arranged(s, << >>, q, w)
         /\ q # << >> => Arranged(s, <<Head(q)>>, Tail(q), w)
<1>1. Arranged(s, << >>, q, w)
  <2>1. s \o << >> = s
    OBVIOUS
  <2> QED
    BY <2>1 DEF Followed, Arranged
<1>2. CASE q # << >>
  <2> DEFINE one == <<Head(q)>>
             others == Tail(q)
  <2>1. one \in Seq(Message) /\ others \in Seq(Message)
    BY <1>2
  <2>2. one \o others = q
    BY <1>2
  <2> HIDE DEF one, others
  <2>3. (s \o one) \o others = s \o (one \o others)
    BY <2>1, Regrouped
  <2>4. (s \o one) \o others = w
    BY <2>2, <2>3 DEF Followed
  <2> QED
    BY <1>1, <2>4 DEF one, others, Arranged
<1> QED
  BY <1>1, <1>2

LEMMA FollowedFirst ==
  ASSUME NEW s \in Seq(Message), NEW q \in Seq(Message), NEW w, Followed(s, q, w), q # << >>
  PROVE  w[Len(s) + 1] = Head(q)
<1>1. (s \o q)[Len(s) + 1] = q[1] /\ Head(q) = q[1]
  OBVIOUS
<1> QED
  BY <1>1 DEF Followed

LEMMA TransferKeeps ==
  ASSUME NEW q \in Seq(Message), NEW b, b.get \in Nat, b.put \in Nat, Held(b) = 0, open,
         front \in [header : BOOLEAN, body : Nat],
         front = Nothing \/ (q # << >> /\ Begun(front, Head(q))),
         TransferNew(q, << >>, b, NoFlight),
         pushed' \in Seq(Message), freed' \in Seq(Message), Followed(freed', q, pushed'),
         transferred' = Part(front), Len(line') = Len(Stream(freed')) + Part(front)
  PROVE  /\ outbound' \in Seq(Message) /\ buffered' \in Seq(Message)
         /\ front' \in [header : BOOLEAN, body : Nat]
         /\ IsBuffer(buf')
         /\ flight' \in [at : Nat, n : Nat, sent : Nat]
         /\ SenderState'
<1>1. HeaderSize \in Nat \ {0} /\ BufferSize \in Nat \ {0}
  BY SizeAssumption
<1>2. Len(Stream(freed')) \in Nat
  BY StreamType
<1>3. CASE q = << >>
  <2>1. TransferredNone
    BY <1>3, Transferring
  <2>2. front = Nothing /\ Part(front) = 0 /\ Part(Nothing) = 0
    BY <1>3 DEF Part, Nothing
  <2>3. Waiting'
    <3>1. Arranged(freed', << >>, q, pushed')
      BY FollowedBy
    <3>2. outbound' = q /\ buffered' = << >>
      BY <1>3, <2>1 DEF TransferredNone
    <3>3. Len(buffered') <= 1
      BY <3>2
    <3>4. Arranged(freed', buffered', outbound', pushed')
      BY <3>1, <3>2
    <3> QED
      BY <3>3, <3>4, Zenon DEF Waiting, Arranged
  <2>4. FrontFits'
    BY <2>1 DEF FrontFits, TransferredNone
  <2>5. Done' = 0 /\ Held(buf') = 0
    BY <2>1, <2>2 DEF Done, Held, TransferredNone
  <2>6. RoomUsed'
    BY <1>1, <2>1, <2>2, <2>5 DEF RoomUsed, TransferredNone
  <2>7. InPlace'
    BY <2>5 DEF InPlace
  <2>8. Writing'
    BY <2>1, <2>5 DEF Writing, TransferredNone
  <2>9. LineIsShort'
    BY <1>2, <2>1, <2>2 DEF LineIsShort, TransferredNone, NoFlight
  <2>10. SenderState'
    BY <2>3, <2>4, <2>6, <2>7, <2>8, <2>9 DEF SenderState
  <2>11. NoFlight \in [at : Nat, n : Nat, sent : Nat] /\ Nothing \in [header : BOOLEAN, body : Nat]
    BY DEF NoFlight, Nothing
  <2> QED
    BY <2>1, <2>10, <2>11 DEF TransferredNone
<1>4. CASE q # << >>
  <2> DEFINE m == Head(q)
             n == Part(front)
             k == Room(m, front)
  <2>1. m \in Message /\ Begun(front, m)
    BY <1>4 DEF Begun
  <2>2. TransferredSome(q, m, n, k)
    BY <1>4, Transferring
  <2>3. /\ n \in Nat /\ n < Size(m) /\ k \in Nat \ {0}
        /\ k \in 1..BufferSize /\ k <= Size(m) - n
        /\ n = 0 => k >= HeaderSize
        /\ n # 0 => n >= HeaderSize
    BY <1>1, <2>1, RoomBounds
  <2>4. Size(m) \in Nat /\ BodySize[m] \in Nat \ {0} /\ Size(m) = HeaderSize + BodySize[m]
    BY <2>1, SizeAssumption, BytesType
  <2>5. pushed'[Len(freed') + 1] = m
    BY <1>4, FollowedFirst
  <2>6. Tail(q) \in Seq(Message) /\ <<m>> \in Seq(Message)
    BY <1>4, <2>1
  <2> HIDE DEF m, n, k
  <2>7. Held(buf') = k /\ IsBuffer(buf') /\ buf'.get = 0 /\ buf'.put = k
    <3>1. IsBuffer(buf') /\ buf'.get = 0 /\ buf'.put = k
      BY <2>2 DEF TransferredSome
    <3>2. Held(buf') = buf'.put - buf'.get
      BY DEF Held
    <3> QED
      BY <2>3, <3>1, <3>2
  <2>8. /\ flight' = [at |-> 0, n |-> k, sent |-> 0]
        /\ flight' \in [at : Nat, n : Nat, sent : Nat]
    BY <2>2, <2>3 DEF TransferredSome
  <2>9. InPlace'
    <3>1. \A i \in 1..k : buf'.mem[i] = <<m, n + i>>
      BY <2>2 DEF TransferredSome
    <3>2. ASSUME NEW i \in 1..Held(buf') PROVE buf'.mem[buf'.get + i] = <<Current', transferred' + i>>
      <4>1. i \in 1..k /\ buf'.get + i = i
        BY <2>3, <2>7
      <4>2. Current' = m /\ transferred' = n
        BY <2>5 DEF Current, n
      <4> QED
        BY <3>1, <4>1, <4>2
    <3> QED
      BY <3>2 DEF InPlace
  <2>10. Writing'
    BY <2>3, <2>7, <2>8 DEF Writing
  <2>11. LineIsShort'
    <3>1. flight'.sent = 0 /\ transferred' = n /\ Len(line') = Len(Stream(freed')) + n
      BY <2>8 DEF n
    <3> QED
      BY <1>2, <2>3, <3>1 DEF LineIsShort
  <2>12. CASE n + k = Size(m)
    <3>1. outbound' = Tail(q) /\ buffered' = <<m>> /\ front' = Nothing
      BY <2>2, <2>12 DEF TransferredSome
    <3>2. <<m>> # << >> /\ Head(<<m>>) = m /\ Len(<<m>>) = 1
      OBVIOUS
    <3>3. Waiting'
      <4>1. Arranged(freed', <<m>>, Tail(q), pushed')
        BY <1>4, FollowedBy DEF m
      <4>2. Arranged(freed', buffered', outbound', pushed')
        BY <3>1, <4>1
      <4>3. Len(buffered') <= 1
        BY <3>1, <3>2
      <4> QED
        BY <4>2, <4>3, Zenon DEF Waiting, Arranged
    <3>4. FrontFits'
      BY <3>1 DEF FrontFits
    <3>5. Done' = n + k
      BY <2>12, <3>1, <3>2 DEF Done
    <3>6. RoomUsed'
      <4>1. transferred' = n
        BY DEF n
      <4> QED
        BY <2>3, <2>7, <3>5, <4>1 DEF RoomUsed
    <3>7. SenderState'
      BY <2>9, <2>10, <2>11, <3>3, <3>4, <3>6 DEF SenderState
    <3>8. Nothing \in [header : BOOLEAN, body : Nat]
      BY DEF Nothing
    <3> QED
      BY <2>3, <2>6, <2>7, <2>8, <3>1, <3>7, <3>8
  <2>13. CASE n + k # Size(m)
    <3>1. outbound' = q /\ buffered' = << >> /\ front' = [header |-> TRUE, body |-> n + k - HeaderSize]
      BY <2>2, <2>13 DEF TransferredSome
    <3>2. n + k - HeaderSize \in Nat /\ n + k - HeaderSize < BodySize[m]
      <4> DEFINE size == BodySize[m]
      <4>1. size \in Nat /\ Size(m) = HeaderSize + size
        BY <2>4
      <4> HIDE DEF size
      <4>2. n + k < HeaderSize + size
        BY <1>1, <2>3, <2>13, <4>1
      <4>3. n + k >= HeaderSize
        BY <1>1, <2>3
      <4>4. n + k - HeaderSize \in Nat /\ n + k - HeaderSize < size
        BY <1>1, <2>3, <4>1, <4>2, <4>3
      <4> QED
        BY <4>4 DEF size
    <3>3. Waiting'
      <4>1. Arranged(freed', << >>, q, pushed')
        BY FollowedBy
      <4>2. Arranged(freed', buffered', outbound', pushed')
        BY <3>1, <4>1
      <4>3. Len(buffered') <= 1
        BY <3>1
      <4> QED
        BY <4>2, <4>3, Zenon DEF Waiting, Arranged
    <3>4. FrontFits'
      BY <1>4, <3>1, <3>2 DEF FrontFits, m
    <3>5. Done' = n + k
      BY <1>1, <2>3, <3>1, <3>2 DEF Done, Part
    <3>6. RoomUsed'
      <4>1. transferred' = n
        BY DEF n
      <4> QED
        BY <2>3, <2>7, <3>5, <4>1 DEF RoomUsed
    <3>7. SenderState'
      BY <2>9, <2>10, <2>11, <3>3, <3>4, <3>6 DEF SenderState
    <3>8. front' \in [header : BOOLEAN, body : Nat]
      BY <3>1, <3>2
    <3> QED
      BY <2>3, <2>7, <2>8, <3>1, <3>7, <3>8
  <2> QED
    BY <2>12, <2>13
<1> QED
  BY <1>3, <1>4

LEMMA Slice ==
  ASSUME NEW s, NEW a \in Nat, NEW k \in Nat
  PROVE  SubSeq(s, a + 1, a + k) = [i \in 1..k |-> s[a + i]]
<1>1. SubSeq(s, a + 1, a + k) = [i \in 1..((1 + (a + k)) - (a + 1)) |-> s[i + (a + 1) - 1]]
  OBVIOUS
<1>2. (1 + (a + k)) - (a + 1) = k /\ \A i \in 1..k : i + (a + 1) - 1 = a + i
  OBVIOUS
<1> QED
  BY <1>1, <1>2

LEMMA AppendedLast ==
  ASSUME NEW S, NEW s \in Seq(S), NEW t \in Seq(S), NEW x \in S
  PROVE  s \o Append(t, x) = Append(s \o t, x)
OBVIOUS

\* A message at the end.
LEMMA WithLast ==
  ASSUME NEW S, NEW s \in Seq(S), NEW x \in S
  PROVE  /\ s \o <<x>> \in Seq(S) /\ Len(s \o <<x>>) = Len(s) + 1
         /\ (s \o <<x>>)[Len(s) + 1] = x
         /\ SubSeq(s \o <<x>>, 1, Len(s)) = s
         /\ SubSeq(s \o <<x>>, 1, Len(s) + 1) = s \o <<x>>
<1> DEFINE p == s \o <<x>>
<1>1. p \in Seq(S) /\ Len(p) = Len(s) + 1 /\ p[Len(s) + 1] = x
  OBVIOUS
<1>2. Len(s) \in Nat
  OBVIOUS
<1>3. SubSeq(p, 1, Len(s)) = s
  OBVIOUS
<1> HIDE DEF p
<1>4. SubSeq(p, 1, Len(p)) = p
  BY <1>1
<1> QED
  BY <1>1, <1>3, <1>4 DEF p

\* The message the bytes in the buffer are of.
LEMMA CurrentIs ==
  ASSUME SenderTypes, SenderState, Done > 0
  PROVE  /\ Len(freed) \in 0..Len(pushed) - 1
         /\ Current \in Message /\ Done <= Size(Current) /\ Done \in Nat
         /\ buffered # << >> => Current = Head(buffered) /\ Done = Size(Current)
         /\ SubSeq(pushed, 1, Len(freed)) = freed
<1>1. /\ pushed \in Seq(Message) /\ freed \in Seq(Message)
      /\ buffered \in Seq(Message) /\ outbound \in Seq(Message)
      /\ front \in [header : BOOLEAN, body : Nat]
  BY DEF SenderTypes
<1>2. freed \o buffered \o outbound = pushed
  BY DEF SenderState, Waiting
<1> DEFINE rest == buffered \o outbound
<1>3. rest \in Seq(Message) /\ freed \o rest = pushed
  <2>0. freed \in Seq(Message) /\ buffered \in Seq(Message) /\ outbound \in Seq(Message)
    BY <1>1
  <2>1. (freed \o buffered) \o outbound = freed \o rest
    BY <2>0, Regrouped, Zenon
  <2> QED
    BY <1>1, <1>2, <2>1
<1>4. \/ buffered # << >> /\ rest # << >> /\ Head(rest) = Head(buffered) /\ Done = Size(Head(buffered))
      \/ /\ buffered = << >> /\ rest # << >> /\ Head(rest) = Head(outbound) /\ Done = Part(front)
         /\ Begun(front, Head(outbound))
  <2>1. CASE buffered # << >>
    BY <1>1, <2>1 DEF Done
  <2>2. CASE buffered = << >>
    <3>1. Done = Part(front)
      BY <2>2 DEF Done
    <3>2. front # Nothing
      BY <3>1 DEF Part, Nothing
    <3>3. outbound # << >> /\ Begun(front, Head(outbound))
      BY <3>2 DEF SenderState, FrontFits, Begun
    <3>4. rest = outbound
      BY <1>1, <2>2
    <3> QED
      BY <2>2, <3>1, <3>3, <3>4
  <2> QED
    BY <2>1, <2>2
<1> HIDE DEF rest
<1>5. Len(freed) \in Nat /\ Len(rest) \in Nat \ {0} /\ rest[1] = Head(rest) /\ Head(rest) \in Message
  BY <1>1, <1>3, <1>4
<1>6. Len(pushed) = Len(freed) + Len(rest) /\ pushed[Len(freed) + 1] = rest[1]
  <2>1. Len(freed \o rest) = Len(freed) + Len(rest) /\ (freed \o rest)[Len(freed) + 1] = rest[1]
    BY <1>1, <1>3, <1>5
  <2> QED
    BY <1>3, <2>1
<1>7. Len(freed) \in 0..Len(pushed) - 1
  BY <1>5, <1>6
<1>8. Current = Head(rest) /\ Current \in Message
  BY <1>5, <1>6 DEF Current
<1>9. SubSeq(pushed, 1, Len(freed)) = freed
  BY <1>1, <1>3
<1>10. Done <= Size(Current) /\ Done \in Nat /\ (buffered # << >> => Current = Head(buffered) /\ Done = Size(Current))
  <2>1. CASE buffered # << >>
    BY <1>4, <1>8, <2>1, BytesType
  <2>2. CASE buffered = << >>
    <3>1. Current = Head(outbound) /\ Done = Part(front) /\ Begun(front, Current)
      BY <1>4, <1>8, <2>2
    <3>2. Part(front) \in Nat /\ Part(front) < Size(Current) /\ Size(Current) \in Nat
      BY <1>1, <1>8, <3>1, RoomBounds, BytesType
    <3> QED
      BY <2>2, <3>1, <3>2
  <2> QED
    BY <2>1, <2>2
<1> QED
  BY <1>7, <1>8, <1>9, <1>10

LEMMA AgreesTransitive ==
  ASSUME NEW s \in Seq(ByteOf), NEW t \in Seq(ByteOf), NEW u \in Seq(ByteOf), Agrees(s, t), Agrees(t, u)
  PROVE  Agrees(s, u)
BY DEF Agrees

LEMMA SenderInit == Init => SenderInv
<1> SUFFICES ASSUME Init PROVE SenderInv
  OBVIOUS
<1>1. Stream(<< >>) \in Seq(ByteOf) /\ Len(Stream(<< >>)) = 0
  BY StreamEmpty
<1>2. Held(buf) = 0 /\ buf.get = 0 /\ buf.put = 0
  BY DEF Init, Held
<1>3. Part(Nothing) = 0 /\ Nothing \in [header : BOOLEAN, body : Nat] /\ NoFlight \in [at : Nat, n : Nat, sent : Nat] /\ NoFlight.sent = 0
  BY DEF Part, Nothing, NoFlight
<1>4. Done = 0
  BY <1>3 DEF Init, Done
<1>5. SenderTypes
  <2>1. IsBuffer(buf)
    BY DEF Init, IsBuffer
  <2> QED
    BY <1>3, <2>1 DEF Init, SenderTypes
<1>6. Waiting
  BY DEF Init, Waiting
<1>7. FrontFits
  BY DEF Init, FrontFits
<1>8. RoomUsed
  BY <1>2, <1>4, SizeAssumption DEF Init, RoomUsed
<1>9. InPlace
  BY <1>2 DEF InPlace
<1>10. Writing
  BY <1>2 DEF Init, Writing
<1>11. LineIsShort
  <2>1. Len(<< >>) = 0
    OBVIOUS
  <2> QED
    BY <1>1, <1>3, <2>1 DEF Init, LineIsShort
<1>12. Agrees(line, Stream(pushed))
  BY <1>1 DEF Init, Agrees
<1>13. flight = NoFlight
  BY DEF Init
<1> QED
  BY <1>5, <1>6, <1>7, <1>8, <1>9, <1>10, <1>11, <1>12, <1>13 DEF SenderInv, SenderState

LEMMA PushKeeps ==
  ASSUME Patient, SenderInv, NEW m \in Message, PushMessage(m)
  PROVE  SenderInv'
<1>1. SenderTypes /\ Agrees(line, Stream(pushed))
  BY DEF SenderInv
<1>2. /\ pushed \in Seq(Message) /\ freed \in Seq(Message) /\ line \in Seq(ByteOf)
      /\ buffered \in Seq(Message) /\ outbound \in Seq(Message)
      /\ front \in [header : BOOLEAN, body : Nat]
      /\ transferred \in Nat /\ IsBuffer(buf) /\ buf.get \in Nat /\ buf.put \in Nat
      /\ flight \in [at : Nat, n : Nat, sent : Nat] /\ open \in BOOLEAN
  BY <1>1 DEF SenderTypes, IsBuffer
<1> DEFINE q == Append(outbound, m)
<1>3. front = Nothing /\ Part(front) = 0
  BY DEF PushMessage, Nothing, Part
<1>4. /\ pushed' = Append(pushed, m)
      /\ UNCHANGED <<transferred, freed, line, open>>
  BY DEF PushMessage, recvVars
<1>5. pushed' \in Seq(Message) /\ Agrees(Stream(pushed), Stream(pushed')) /\ q \in Seq(Message)
  BY <1>2, <1>4, StreamAppend
<1>6. Agrees(line', Stream(pushed'))
  <2>1. Stream(pushed) \in Seq(ByteOf) /\ Stream(pushed') \in Seq(ByteOf)
    BY <1>2, <1>5, StreamType
  <2> QED
    BY <1>1, <1>2, <1>4, <1>5, <2>1, AgreesTransitive
<1>8. CASE open
  <2>1. SenderState
    BY <1>8 DEF SenderInv
  <2>2. freed \o buffered \o outbound = pushed
    BY <2>1 DEF SenderState, Waiting
  <2>3. CASE buffered = << >>
    <3>1. Done = 0
      BY <1>3, <2>3 DEF Done
    <3>2. Held(buf) = 0 /\ transferred = 0
      <4>1. Held(buf) = Done - transferred /\ Held(buf) >= 0
        BY <2>1 DEF SenderState, RoomUsed
      <4> QED
        BY <1>2, <3>1, <4>1
    <3>3. flight = NoFlight
      BY <2>1, <3>2 DEF SenderState, Writing
    <3>4. TransferNew(q, << >>, buf, NoFlight)
      BY <2>3, <3>3 DEF PushMessage
    <3>5. freed \o q = pushed'
      <4>1. freed \in Seq(Message) /\ outbound \in Seq(Message)
        BY <1>2
      <4>2. freed \o outbound = pushed
        <5>1. freed \o << >> = freed
          BY <4>1
        <5> QED
          BY <2>2, <2>3, <5>1
      <4>3. freed \o Append(outbound, m) = Append(freed \o outbound, m)
        BY <4>1, AppendedLast
      <4> QED
        BY <1>4, <4>2, <4>3
    <3>6. Len(line) = Len(Stream(freed)) + 0
      <4>1. Len(Stream(freed)) \in Nat
        BY <1>2, StreamType
      <4> QED
        BY <2>1, <3>2, <3>3, <4>1 DEF SenderState, LineIsShort, NoFlight
    <3>7. /\ freed' \in Seq(Message) /\ Followed(freed', q, pushed')
          /\ transferred' = Part(front) /\ Len(line') = Len(Stream(freed')) + Part(front)
      BY <1>2, <1>3, <1>4, <3>2, <3>5, <3>6 DEF Followed
    <3> HIDE DEF q
    <3>8. /\ outbound' \in Seq(Message) /\ buffered' \in Seq(Message)
          /\ front' \in [header : BOOLEAN, body : Nat]
          /\ IsBuffer(buf')
          /\ flight' \in [at : Nat, n : Nat, sent : Nat]
          /\ SenderState'
      BY <1>2, <1>3, <1>5, <1>8, <3>2, <3>4, <3>7, TransferKeeps
    <3>9. SenderTypes'
      BY <1>2, <1>4, <1>5, <3>8 DEF SenderTypes
    <3> QED
      BY <1>4, <1>6, <1>8, <3>8, <3>9 DEF SenderInv
  <2>4. CASE buffered # << >>
    <3>1. outbound' = q /\ UNCHANGED <<front, buffered, buf, flight>>
      BY <2>4 DEF PushMessage
    <3>2. freed \o buffered \o q = pushed'
      <4> DEFINE c == freed \o buffered
      <4>1. c \in Seq(Message)
        BY <1>2
      <4> HIDE DEF c
      <4>2. c \o Append(outbound, m) = Append(c \o outbound, m)
        <5>1. outbound \in Seq(Message)
          BY <1>2
        <5> QED
          BY <4>1, <5>1, AppendedLast
      <4> QED
        BY <1>4, <2>2, <4>2 DEF c
    <3>3. Waiting'
      BY <1>4, <2>1, <3>1, <3>2 DEF SenderState, Waiting
    <3>4. FrontFits'
      BY <1>3, <3>1 DEF FrontFits
    <3>5. Done' = Done /\ Held(buf') = Held(buf)
      BY <3>1 DEF Done
    <3>6. RoomUsed'
      BY <1>4, <2>1, <3>1, <3>5 DEF SenderState, RoomUsed
    <3>7. Current' = Current
      <4>1. Len(freed) + 1 \in 1..Len(pushed)
        <5>1. Len(freed) \in Nat /\ Len(buffered) \in Nat \ {0} /\ Len(outbound) \in Nat
          BY <1>2, <2>4
        <5>2. Len(pushed) = Len(freed) + Len(buffered) + Len(outbound)
          BY <1>2, <2>2
        <5> QED
          BY <5>1, <5>2
      <4>2. Append(pushed, m)[Len(freed) + 1] = pushed[Len(freed) + 1]
        BY <1>2, <4>1
      <4> QED
        BY <1>4, <4>2 DEF Current
    <3>8. InPlace'
      BY <1>4, <2>1, <3>1, <3>5, <3>7 DEF SenderState, InPlace
    <3>9. Writing' /\ LineIsShort'
      BY <1>4, <2>1, <3>1, <3>5 DEF SenderState, Writing, LineIsShort
    <3>10. SenderState'
      BY <3>3, <3>4, <3>6, <3>8, <3>9 DEF SenderState
    <3>11. SenderTypes'
      BY <1>2, <1>4, <1>5, <3>1 DEF SenderTypes
    <3> QED
      BY <1>4, <1>6, <1>8, <3>10, <3>11 DEF SenderInv
  <2> QED
    BY <2>3, <2>4
<1>9. CASE ~open
  <2>1. outbound' = q /\ UNCHANGED <<front, buffered, buf, flight>>
    BY <1>9 DEF PushMessage, TransferNew
  <2>2. SenderTypes'
    BY <1>2, <1>4, <1>5, <2>1 DEF SenderTypes
  <2> QED
    BY <1>4, <1>6, <1>9, <2>1, <2>2 DEF SenderInv
<1> QED
  BY <1>2, <1>8, <1>9

LEMMA TransmitKeeps ==
  ASSUME SenderInv, NEW k \in 1..BufferSize, Transmit(k)
  PROVE  SenderInv'
<1>1. SenderTypes /\ Agrees(line, Stream(pushed)) /\ open /\ SenderState
  BY DEF SenderInv, Transmit
<1>2. /\ pushed \in Seq(Message) /\ freed \in Seq(Message) /\ line \in Seq(ByteOf)
      /\ transferred \in Nat /\ IsBuffer(buf) /\ buf.get \in Nat /\ buf.put \in Nat
      /\ flight \in [at : Nat, n : Nat, sent : Nat]
  BY <1>1 DEF SenderTypes, IsBuffer
<1>3. k \in Nat \ {0}
  BY SizeAssumption
<1>4. /\ line' = line \o SubSeq(buf.mem, flight.at + 1, flight.at + k)
      /\ flight' = [flight EXCEPT !.sent = k]
      /\ flight.sent = 0 /\ k <= flight.n
      /\ UNCHANGED <<pushed, transferred, buf, freed, outbound, front, buffered, open>>
  BY <1>2 DEF Transmit, sendVars, queueVars
<1>5. Held(buf) # 0
  BY <1>1, <1>2, <1>3, <1>4 DEF SenderState, Writing, NoFlight
<1>6. flight.at = buf.get /\ flight.n = Held(buf)
  BY <1>1, <1>5 DEF SenderState, Writing
<1>7. Held(buf) = Done - transferred /\ Held(buf) \in Int /\ Held(buf) >= k
  <2>1. Held(buf) \in Int
    BY <1>2 DEF Held
  <2> QED
    BY <1>1, <1>2, <1>3, <1>4, <1>6, <2>1 DEF SenderState, RoomUsed
<1>8. Done > 0 /\ Done \in Nat
  <2>1. buffered \in Seq(Message) /\ front \in [header : BOOLEAN, body : Nat]
    BY <1>1 DEF SenderTypes, IsBuffer
  <2>2. Done \in Nat
    <3>1. CASE buffered # << >>
      <4>1. Head(buffered) \in Message
        BY <2>1, <3>1
      <4> QED
        BY <3>1, <4>1, BytesType DEF Done
    <3>2. CASE buffered = << >>
      BY <2>1, <3>2, SizeAssumption DEF Done, Part
    <3> QED
      BY <3>1, <3>2
  <2> QED
    BY <1>2, <1>3, <1>7, <2>2
<1>9. /\ Len(freed) \in 0..Len(pushed) - 1 /\ Current \in Message /\ Done <= Size(Current)
      /\ SubSeq(pushed, 1, Len(freed)) = freed
  BY <1>1, <1>8, CurrentIs
<1> DEFINE taken == SubSeq(buf.mem, flight.at + 1, flight.at + k)
<1>10. taken = Piece(Current, transferred, k)
  <2>1. flight.at \in Nat /\ k \in Nat
    BY <1>2, <1>3
  <2>2. taken = [i \in 1..k |-> buf.mem[flight.at + i]]
    <3> DEFINE mem == buf.mem
               at == flight.at
    <3>1. at \in Nat /\ k \in Nat
      BY <2>1
    <3> HIDE DEF mem, at
    <3>2. SubSeq(mem, at + 1, at + k) = [i \in 1..k |-> mem[at + i]]
      BY <3>1, Slice
    <3> QED
      BY <3>2 DEF mem, at
  <2>3. ASSUME NEW i \in 1..k PROVE buf.mem[flight.at + i] = <<Current, transferred + i>>
    <3>1. i \in 1..Held(buf) /\ flight.at + i = buf.get + i
      BY <1>2, <1>3, <1>6, <1>7
    <3> QED
      BY <1>1, <3>1 DEF SenderState, InPlace
  <2> HIDE DEF taken
  <2> QED
    BY <2>2, <2>3 DEF Piece
<1> HIDE DEF taken
<1>11. /\ taken \in Seq(ByteOf) /\ Len(taken) = k
       /\ \A i \in 1..k : taken[i] = <<Current, transferred + i>>
  <2>1. k \in Nat /\ transferred \in Nat /\ Current \in Message
    BY <1>2, <1>3, <1>9
  <2> QED
    BY <1>10, <2>1, PieceType
<1>12. line' = Cat(line, taken)
  BY <1>4 DEF Cat, taken
<1>13. /\ line' \in Seq(ByteOf) /\ Len(line') = Len(line) + k
       /\ \A i \in 1..Len(line) : line'[i] = line[i]
       /\ \A i \in 1..k : line'[Len(line) + i] = taken[i]
  <2>1. /\ Cat(line, taken) \in Seq(ByteOf) /\ Len(Cat(line, taken)) = Len(line) + Len(taken)
        /\ \A i \in 1..Len(line) : Cat(line, taken)[i] = line[i]
        /\ \A i \in 1..Len(taken) : Cat(line, taken)[Len(line) + i] = taken[i]
    BY <1>2, <1>11, Joined
  <2> QED
    BY <1>11, <1>12, <2>1
<1> DEFINE s == Len(Stream(freed))
<1>14. Len(line) \in Nat /\ s \in Nat /\ Len(line) = s + transferred
  <2>1. Len(line) \in Nat /\ s \in Nat
    BY <1>2, StreamType
  <2>2. Len(line) = s + transferred + flight.sent
    BY <1>1 DEF SenderState, LineIsShort
  <2> HIDE DEF s
  <2> QED
    BY <1>2, <1>4, <2>1, <2>2
<1>15. /\ s + Size(Current) <= Len(Stream(pushed))
       /\ \A j \in 1..Size(Current) : Stream(pushed)[s + j] = <<Current, j>>
  <2>1. Len(freed) \in 0..Len(pushed) - 1 /\ SubSeq(pushed, 1, Len(freed)) = freed
    BY <1>9
  <2>2. pushed \in Seq(Message)
    BY <1>2
  <2> QED
    BY <2>1, <2>2, Passage DEF Current
<1>16. Size(Current) \in Nat
  BY <1>9, BytesType
<1>17. Len(Stream(pushed)) \in Nat
  BY <1>2, StreamType
<1> HIDE DEF s
<1>18. Agrees(line', Stream(pushed))
  <2>1. Len(line') <= Len(Stream(pushed))
    <3>1. Len(line') = s + transferred + k
      BY <1>2, <1>3, <1>13, <1>14
    <3>2. transferred + k <= Size(Current)
      <4>1. Done \in Nat /\ Done <= Size(Current) /\ Done - transferred >= k
        BY <1>7, <1>8, <1>9
      <4> QED
        BY <1>2, <1>3, <1>16, <4>1
    <3>3. s \in Nat /\ transferred \in Nat /\ k \in Nat
      BY <1>2, <1>3, <1>14
    <3>4. s + Size(Current) <= Len(Stream(pushed))
      BY <1>15
    <3> QED
      BY <1>16, <1>17, <3>1, <3>2, <3>3, <3>4
  <2>2. ASSUME NEW i \in 1..Len(line') PROVE line'[i] = Stream(pushed)[i]
    <3>1. CASE i <= Len(line)
      BY <1>1, <1>13, <1>14, <3>1 DEF Agrees
    <3>2. CASE i > Len(line)
      <4> DEFINE j == i - Len(line)
      <4>1. i \in Int /\ j \in 1..k /\ Len(line) + j = i
        BY <1>3, <1>13, <1>14, <3>2
      <4>2. transferred + j \in 1..Size(Current) /\ s + (transferred + j) = i
        <5>1. transferred \in Nat /\ k \in Nat /\ Done \in Nat /\ s \in Nat /\ Size(Current) \in Nat
          BY <1>2, <1>3, <1>8, <1>14, <1>16
        <5>2. Done - transferred >= k /\ Done <= Size(Current) /\ Len(line) = s + transferred
          BY <1>7, <1>9, <1>14
        <5> HIDE DEF j
        <5> QED
          BY <4>1, <5>1, <5>2
      <4> HIDE DEF j
      <4>3. line'[i] = taken[j]
        BY <1>13, <4>1
      <4>4. taken[j] = <<Current, transferred + j>>
        BY <1>11, <4>1
      <4>5. Stream(pushed)[s + (transferred + j)] = <<Current, transferred + j>>
        BY <1>15, <4>2
      <4> QED
        BY <4>2, <4>3, <4>4, <4>5
    <3> QED
      BY <1>13, <1>14, <3>1, <3>2
  <2> QED
    BY <2>1, <2>2 DEF Agrees
<1>19. flight'.at = flight.at /\ flight'.n = flight.n /\ flight'.sent = k
       /\ flight' \in [at : Nat, n : Nat, sent : Nat]
  BY <1>2, <1>3, <1>4
<1>20. Waiting' /\ FrontFits'
  BY <1>1, <1>4 DEF SenderState, Waiting, FrontFits
<1>21. Done' = Done /\ Held(buf') = Held(buf) /\ Current' = Current
  BY <1>4 DEF Done, Current
<1>22. RoomUsed' /\ InPlace'
  BY <1>1, <1>4, <1>21 DEF SenderState, RoomUsed, InPlace
<1>23. Writing'
  BY <1>3, <1>4, <1>5, <1>6, <1>19, <1>21 DEF Writing
<1>24. LineIsShort'
  BY <1>2, <1>3, <1>4, <1>13, <1>14, <1>19 DEF LineIsShort, s
<1>25. SenderState'
  BY <1>20, <1>22, <1>23, <1>24 DEF SenderState
<1>26. SenderTypes'
  BY <1>1, <1>4, <1>13, <1>19 DEF SenderTypes
<1> QED
  BY <1>1, <1>4, <1>18, <1>25, <1>26 DEF SenderInv

\* Which of the buffered messages are out: the one there is, when its last byte is.
LEMMA SentIs ==
  ASSUME buffered \in Seq(Message), Len(buffered) <= 1, NEW total \in Nat
  PROVE  Sent(total) = IF buffered # << >> /\ Size(Head(buffered)) <= total THEN 1 ELSE 0
<1> DEFINE P(k) == /\ Len(Stream(SubSeq(buffered, 1, k))) <= total
                   /\ k < Len(buffered) => Len(Stream(SubSeq(buffered, 1, k + 1))) > total
           v == IF buffered # << >> /\ Size(Head(buffered)) <= total THEN 1 ELSE 0
<1>1. Len(Stream(SubSeq(buffered, 1, 0))) = 0
  <2>1. SubSeq(buffered, 1, 0) = << >>
    OBVIOUS
  <2> QED
    BY <2>1, StreamEmpty
<1>2. Sent(total) = CHOOSE k \in 0..Len(buffered) : P(k)
  BY DEF Sent
<1>3. CASE buffered = << >>
  <2>1. Len(buffered) = 0 /\ v = 0
    BY <1>3
  <2>2. P(0)
    BY <1>1, <2>1
  <2> HIDE DEF P, v
  <2>3. \A k \in 0..Len(buffered) : k = 0
    BY <2>1
  <2>4. 0 \in 0..Len(buffered)
    BY <2>1
  <2>5. Sent(total) = 0
    BY <1>2, <2>2, <2>3, <2>4
  <2> QED
    BY <2>1, <2>5 DEF v
<1>4. CASE buffered # << >>
  <2> DEFINE z == Size(Head(buffered))
  <2>1. Len(buffered) = 1 /\ 0 \in 0..Len(buffered) - 1 /\ Head(buffered) \in Message /\ Head(buffered) = buffered[0 + 1]
    <3>1. Len(buffered) \in Nat \ {0}
      BY <1>4
    <3>2. Len(buffered) = 1
      BY <3>1
    <3> QED
      BY <1>4, <3>2
  <2>2. Len(Stream(SubSeq(buffered, 1, 0 + 1))) = Len(Stream(SubSeq(buffered, 1, 0))) + Size(buffered[0 + 1])
    BY <2>1, StreamStep
  <2>3. z \in Nat
    BY <2>1, BytesType
  <2>4. Len(Stream(SubSeq(buffered, 1, 0 + 1))) = z
    BY <1>1, <2>1, <2>2, <2>3
  <2>5. 0 + 1 = 1
    OBVIOUS
  <2>6. P(0) <=> ~ (z <= total)
    BY <1>1, <2>1, <2>3, <2>4
  <2>7. P(1) <=> z <= total
    BY <2>1, <2>4, <2>5
  <2> HIDE DEF P, z
  <2>8. \A k \in 0..Len(buffered) : k = 0 \/ k = 1
    BY <2>1
  <2>9. 0 \in 0..Len(buffered) /\ 1 \in 0..Len(buffered)
    BY <2>1
  <2>10. CASE z <= total
    <3>1. Sent(total) = 1
      BY <1>2, <2>6, <2>7, <2>8, <2>9, <2>10
    <3> QED
      BY <1>4, <2>10, <3>1 DEF z
  <2>11. CASE ~ (z <= total)
    <3>1. Sent(total) = 0
      BY <1>2, <2>6, <2>7, <2>8, <2>9, <2>11
    <3> QED
      BY <1>4, <2>11, <3>1 DEF z
  <2> QED
    BY <2>10, <2>11
<1> QED
  BY <1>3, <1>4

\* What the callback finds, and what it leaves of the buffer.
LEMMA CallbackFinds ==
  ASSUME SenderInv, RawSendCallback
  PROVE  LET left == Consume(buf, flight.sent)
         IN /\ open /\ SenderTypes /\ SenderState
            /\ flight.sent \in Nat \ {0} /\ flight.sent <= Held(buf)
            /\ Done \in Nat /\ Done > 0 /\ Held(buf) = Done - transferred
            /\ left.get = buf.get + flight.sent /\ left.put = buf.put /\ left.mem = buf.mem
            /\ IsBuffer(left) /\ left.get \in Nat /\ left.put \in Nat
            /\ Held(left) = Done - (transferred + flight.sent) /\ Held(left) \in Nat
<1>1. open /\ SenderTypes /\ SenderState /\ flight.sent > 0
  BY DEF SenderInv, RawSendCallback
<1>2. /\ flight.sent \in Nat \ {0} /\ transferred \in Nat /\ IsBuffer(buf) /\ buf.get \in Nat /\ buf.put \in Nat
  BY <1>1 DEF SenderTypes, IsBuffer
<1>3. flight.sent <= Held(buf)
  BY <1>1, <1>2 DEF SenderState, Writing, NoFlight
<1>4. Held(buf) = Done - transferred /\ Held(buf) = buf.put - buf.get
  BY <1>1 DEF SenderState, RoomUsed, Held
<1>5. Done \in Nat
  <2>1. buffered \in Seq(Message) /\ front \in [header : BOOLEAN, body : Nat]
    BY <1>1 DEF SenderTypes, IsBuffer
  <2>2. CASE buffered # << >>
    <3>1. Head(buffered) \in Message
      BY <2>1, <2>2
    <3> QED
      BY <2>2, <3>1, BytesType DEF Done
  <2>3. CASE buffered = << >>
    BY <2>1, <2>3, SizeAssumption DEF Done, Part
  <2> QED
    BY <2>2, <2>3
<1>6. Done > 0
  BY <1>2, <1>3, <1>4, <1>5
<1> DEFINE left == Consume(buf, flight.sent)
<1>7. left.get = buf.get + flight.sent /\ left.put = buf.put /\ left.mem = buf.mem
  <2>1. buf = [mem |-> buf.mem, get |-> buf.get, put |-> buf.put]
    BY <1>1 DEF SenderTypes, IsBuffer
  <2> QED
    BY <2>1 DEF Consume
<1>8. Held(left) = left.put - left.get
  BY DEF Held
<1>9. IsBuffer(left) /\ left.get \in Nat /\ left.put \in Nat
  <2>1. left = [mem |-> buf.mem, get |-> buf.get + flight.sent, put |-> buf.put]
    <3>1. buf = [mem |-> buf.mem, get |-> buf.get, put |-> buf.put]
      BY <1>1 DEF SenderTypes, IsBuffer
    <3> QED
      BY <3>1 DEF Consume
  <2>2. left.get \in Nat /\ left.put \in Nat
    BY <1>2, <1>7
  <2> QED
    BY <2>1, <2>2 DEF IsBuffer
<1>10. Held(left) = Done - (transferred + flight.sent) /\ Held(left) \in Nat
  BY <1>2, <1>3, <1>4, <1>5, <1>7, <1>8
<1> QED
  BY <1>1, <1>2, <1>3, <1>4, <1>5, <1>6, <1>7, <1>9, <1>10

\* More is in the buffer: the next write is of that.
LEMMA CallbackMore ==
  ASSUME SenderInv, RawSendCallback, Held(Consume(buf, flight.sent)) # 0
  PROVE  SenderInv'
<1> DEFINE left == Consume(buf, flight.sent)
           total == transferred + flight.sent
           out == SubSeq(buffered, 1, Sent(total))
           waiting == SubSeq(buffered, Len(out) + 1, Len(buffered))
<1>1. /\ open /\ SenderTypes /\ SenderState
      /\ flight.sent \in Nat \ {0} /\ flight.sent <= Held(buf)
      /\ Done \in Nat /\ Done > 0 /\ Held(buf) = Done - transferred
      /\ left.get = buf.get + flight.sent /\ left.put = buf.put /\ left.mem = buf.mem
      /\ IsBuffer(left) /\ left.get \in Nat /\ left.put \in Nat
      /\ Held(left) = Done - total /\ Held(left) \in Nat
  BY CallbackFinds
<1>2. /\ pushed \in Seq(Message) /\ freed \in Seq(Message) /\ line \in Seq(ByteOf)
      /\ buffered \in Seq(Message) /\ outbound \in Seq(Message)
      /\ front \in [header : BOOLEAN, body : Nat]
      /\ transferred \in Nat /\ IsBuffer(buf) /\ buf.get \in Nat /\ buf.put \in Nat
  BY <1>1 DEF SenderTypes, IsBuffer
<1>3. /\ transferred' = total - Len(Stream(out)) /\ freed' = freed \o out
      /\ buffered' = waiting /\ buf' = left
      /\ AsyncSend(NoFlight, left.get, Held(left))
      /\ UNCHANGED <<pushed, outbound, front, line, open>>
  BY DEF RawSendCallback
<1>4. Len(buffered) <= 1
  BY <1>1 DEF SenderState, Waiting
<1>5. total \in Nat /\ Held(left) # 0
  <2>1. flight.sent \in Nat
    BY <1>1
  <2>2. transferred \in Nat
    BY <1>2
  <2>3. total \in Nat
    BY <2>1, <2>2
  <2> HIDE DEF total
  <2> QED
    BY <2>3
<1> HIDE DEF left, total
<1>6. Sent(total) = 0
  <2>1. CASE buffered # << >>
    <3>1. Done = Size(Head(buffered))
      BY <2>1 DEF Done
    <3>2. ~ (Size(Head(buffered)) <= total)
      BY <1>1, <1>5, <3>1
    <3> QED
      BY <1>2, <1>4, <1>5, <3>2, SentIs
  <2>2. CASE buffered = << >>
    BY <1>2, <1>4, <1>5, <2>2, SentIs
  <2> QED
    BY <2>1, <2>2
<1>7. out = << >> /\ Len(out) = 0
  BY <1>2, <1>6
<1>8. waiting = buffered /\ freed \o out = freed
  <2>1. 0 + 1 = 1 /\ SubSeq(buffered, 1, Len(buffered)) = buffered /\ freed \o << >> = freed
    BY <1>2
  <2> QED
    BY <1>7, <2>1
<1>9. Len(Stream(out)) = 0
  BY <1>7, StreamEmpty
<1>10. transferred' = total /\ freed' = freed /\ buffered' = buffered
  <2> HIDE DEF out, waiting
  <2> QED
    BY <1>3, <1>5, <1>8, <1>9
<1>11. flight' = [at |-> left.get, n |-> Held(left), sent |-> 0]
  BY <1>3, <1>5 DEF AsyncSend
<1>12. Waiting' /\ FrontFits'
  BY <1>1, <1>3, <1>10 DEF SenderState, Waiting, FrontFits
<1>13. Done' = Done /\ Held(buf') = Held(left) /\ Current' = Current
  BY <1>3, <1>10 DEF Done, Current
<1>14. RoomUsed'
  <2>1. buf'.put <= BufferSize
    BY <1>1, <1>3 DEF SenderState, RoomUsed
  <2> QED
    BY <1>1, <1>5, <1>10, <1>13, <2>1 DEF RoomUsed
<1>15. InPlace'
  <2>1. ASSUME NEW i \in 1..Held(left) PROVE left.mem[left.get + i] = <<Current, total + i>>
    <3> DEFINE j == flight.sent + i
    <3>1. j \in 1..Held(buf) /\ left.get + i = buf.get + j /\ total + i = transferred + j
      <4>1. Held(left) = Held(buf) - flight.sent /\ Held(buf) \in Int /\ flight.sent \in Nat
        <5>1. Held(left) = Done - total /\ Held(buf) = Done - transferred /\ total = transferred + flight.sent
          BY <1>1 DEF total
        <5>2. Done \in Nat /\ flight.sent \in Nat /\ transferred \in Nat
          BY <1>1, <1>2
        <5> QED
          BY <5>1, <5>2
      <4>2. left.get = buf.get + flight.sent /\ buf.get \in Nat /\ transferred \in Nat
        BY <1>1, <1>2
      <4>3. i \in Nat \ {0} /\ i <= Held(left)
        BY <1>1
      <4> QED
        BY <4>1, <4>2, <4>3 DEF total
    <3> HIDE DEF j
    <3>2. buf.mem[buf.get + j] = <<Current, transferred + j>>
      BY <1>1, <3>1 DEF SenderState, InPlace
    <3> QED
      BY <1>1, <3>1, <3>2
  <2> QED
    BY <1>3, <1>10, <1>13, <2>1 DEF InPlace
<1>16. Writing'
  BY <1>1, <1>3, <1>5, <1>11, <1>13 DEF Writing
<1>17. LineIsShort'
  <2>1. Len(line) = Len(Stream(freed)) + transferred + flight.sent
    BY <1>1 DEF SenderState, LineIsShort
  <2>2. Len(Stream(freed)) \in Nat
    BY <1>2, StreamType
  <2>3. Len(line) = Len(Stream(freed)) + total + 0
    <3>1. transferred \in Nat /\ flight.sent \in Nat /\ total = transferred + flight.sent
      BY <1>1, <1>2 DEF total
    <3> QED
      BY <2>1, <2>2, <3>1
  <2> QED
    BY <1>3, <1>10, <1>11, <2>3 DEF LineIsShort
<1>18. SenderState'
  BY <1>12, <1>14, <1>15, <1>16, <1>17 DEF SenderState
<1>19. flight' \in [at : Nat, n : Nat, sent : Nat]
  BY <1>1, <1>11
<1>20. SenderTypes'
  BY <1>1, <1>2, <1>3, <1>5, <1>10, <1>19 DEF SenderTypes
<1>21. Agrees(line', Stream(pushed'))
  BY <1>3 DEF SenderInv
<1> QED
  BY <1>1, <1>3, <1>18, <1>20, <1>21 DEF SenderInv

\* The buffer is empty: what was in it is out, and the next piece goes in.
LEMMA CallbackLast ==
  ASSUME SenderInv, RawSendCallback, Held(Consume(buf, flight.sent)) = 0
  PROVE  /\ SenderInv'
         /\ \E q \in Seq(Message) : \E b :
              /\ b.get \in Nat /\ b.put \in Nat /\ Held(b) = 0 /\ open
              /\ front = Nothing \/ (q # << >> /\ Begun(front, Head(q)))
              /\ TransferNew(q, << >>, b, NoFlight)
<1> DEFINE left == Consume(buf, flight.sent)
           total == transferred + flight.sent
           out == SubSeq(buffered, 1, Sent(total))
           waiting == SubSeq(buffered, Len(out) + 1, Len(buffered))
<1>1. /\ open /\ SenderTypes /\ SenderState
      /\ flight.sent \in Nat \ {0} /\ flight.sent <= Held(buf)
      /\ Done \in Nat /\ Done > 0 /\ Held(buf) = Done - transferred
      /\ IsBuffer(left) /\ left.get \in Nat /\ left.put \in Nat
      /\ Held(left) = Done - total /\ Held(left) \in Nat
  BY CallbackFinds
<1>2. /\ pushed \in Seq(Message) /\ freed \in Seq(Message) /\ line \in Seq(ByteOf)
      /\ buffered \in Seq(Message) /\ outbound \in Seq(Message)
      /\ front \in [header : BOOLEAN, body : Nat]
      /\ transferred \in Nat
  BY <1>1 DEF SenderTypes, IsBuffer
<1>3. /\ transferred' = total - Len(Stream(out)) /\ freed' = freed \o out
      /\ TransferNew(outbound, waiting, left, NoFlight)
      /\ UNCHANGED <<pushed, line, open>>
  BY DEF RawSendCallback
<1>4. Len(buffered) <= 1 /\ freed \o buffered \o outbound = pushed
  BY <1>1 DEF SenderState, Waiting
<1>5. total \in Nat /\ total = Done /\ Held(left) = 0
  <2>1. Held(left) = 0
    OBVIOUS
  <2>2. flight.sent \in Nat /\ Done \in Nat /\ Held(left) = Done - total
    BY <1>1
  <2> HIDE DEF left
  <2>3. total \in Nat
    BY <1>2, <2>2
  <2> HIDE DEF total
  <2> QED
    BY <2>1, <2>2, <2>3
<1>6. Len(line) = Len(Stream(freed)) + total /\ Len(Stream(freed)) \in Nat
  <2>1. Len(line) = Len(Stream(freed)) + transferred + flight.sent
    BY <1>1 DEF SenderState, LineIsShort
  <2>2. Len(Stream(freed)) \in Nat
    BY <1>2, StreamType
  <2> QED
    BY <1>1, <1>2, <2>1, <2>2
<1> HIDE DEF left, total
<1>7. /\ waiting = << >> /\ freed' \in Seq(Message) /\ freed' \o outbound = pushed
      /\ transferred' = Part(front) /\ Len(line) = Len(Stream(freed')) + Part(front)
      /\ front = Nothing \/ (outbound # << >> /\ Begun(front, Head(outbound)))
  <2>1. CASE buffered # << >>
    <3> DEFINE m == Head(buffered)
    <3>1. m \in Message /\ Len(buffered) = 1 /\ buffered = <<m>>
      <4>1. Len(buffered) \in Nat \ {0} /\ m \in Message /\ m = buffered[1]
        BY <1>2, <2>1
      <4>2. Len(buffered) <= 1
        BY <1>4
      <4> HIDE DEF m
      <4>3. Len(buffered) = 1
        <5> DEFINE l == Len(buffered)
        <5>1. l \in Nat \ {0} /\ l <= 1
          BY <4>1, <4>2
        <5> HIDE DEF l
        <5>2. l = 1
          BY <5>1
        <5> QED
          BY <5>2 DEF l
      <4> QED
        BY <1>2, <4>1, <4>3
    <3>2. Done = Size(m) /\ Size(m) \in Nat
      BY <2>1, <3>1, BytesType DEF Done
    <3>3. Sent(total) = 1
      BY <1>2, <1>4, <1>5, <2>1, <3>2, SentIs
    <3>4. SubSeq(buffered, 1, 1) = buffered /\ SubSeq(buffered, 1 + 1, 1) = << >>
      BY <1>2, <3>1
    <3>5. out = buffered /\ waiting = << >>
      BY <3>1, <3>3, <3>4
    <3>6. front = Nothing /\ Part(front) = 0
      BY <1>1, <2>1 DEF SenderState, FrontFits, Part, Nothing
    <3>7. Len(Stream(buffered)) = Size(m)
      <4>1. 0 \in 0..Len(buffered) - 1 /\ buffered[0 + 1] = m /\ SubSeq(buffered, 1, 0 + 1) = buffered
            /\ SubSeq(buffered, 1, 0) = << >>
        BY <1>2, <3>1
      <4>2. Len(Stream(SubSeq(buffered, 1, 0 + 1))) = Len(Stream(SubSeq(buffered, 1, 0))) + Size(buffered[0 + 1])
        BY <1>2, <4>1, StreamStep
      <4>3. Len(Stream(buffered)) = 0 + Size(m)
        BY <4>1, <4>2, StreamEmpty
      <4> HIDE DEF m
      <4> QED
        BY <3>2, <4>3
    <3>8. transferred' = 0
      <4> HIDE DEF out, waiting, m
      <4> QED
        BY <1>3, <1>5, <3>2, <3>5, <3>7
    <3>9. freed' = freed \o buffered
      <4> HIDE DEF out, waiting, m
      <4> QED
        BY <1>3, <3>5
    <3>10. freed \o buffered \in Seq(Message)
      BY <1>2
    <3>11. Len(Stream(freed \o buffered)) = Len(Stream(freed)) + Size(m)
      <4> DEFINE p == freed \o <<m>>
      <4>1. /\ p \in Seq(Message) /\ Len(p) = Len(freed) + 1 /\ p[Len(freed) + 1] = m
            /\ SubSeq(p, 1, Len(freed)) = freed /\ SubSeq(p, 1, Len(freed) + 1) = p
        BY <1>2, <3>1, WithLast
      <4> HIDE DEF p
      <4>2. Len(freed) \in 0..Len(p) - 1
        <5>1. Len(freed) \in Nat
          BY <1>2
        <5> QED
          BY <4>1, <5>1
      <4>3. Len(Stream(SubSeq(p, 1, Len(freed) + 1))) = Len(Stream(SubSeq(p, 1, Len(freed)))) + Size(p[Len(freed) + 1])
        BY <4>1, <4>2, StreamStep
      <4>4. freed \o buffered = p
        BY <3>1 DEF p
      <4> QED
        BY <4>1, <4>3, <4>4
    <3> HIDE DEF out, waiting, m
    <3>12. Len(line) = Len(Stream(freed')) + Part(front)
      <4>1. Len(Stream(freed')) = Len(line)
        BY <1>5, <1>6, <3>2, <3>9, <3>11
      <4>2. Len(line) \in Nat
        BY <1>2
      <4> QED
        BY <3>6, <4>1, <4>2
    <3> QED
      BY <1>4, <3>5, <3>6, <3>8, <3>9, <3>10, <3>12
  <2>2. CASE buffered = << >>
    <3>1. Sent(total) = 0
      BY <1>2, <1>4, <1>5, <2>2, SentIs
    <3>2. SubSeq(<< >>, 1, 0) = << >> /\ SubSeq(<< >>, 0 + 1, 0) = << >> /\ Len(<< >>) = 0
      OBVIOUS
    <3>3. out = << >> /\ waiting = << >>
      BY <2>2, <3>1, <3>2
    <3>4. Done = Part(front)
      BY <2>2 DEF Done
    <3>5. front # Nothing
      BY <1>1, <3>4 DEF Part, Nothing
    <3>6. outbound # << >> /\ Begun(front, Head(outbound))
      BY <1>1, <3>5 DEF SenderState, FrontFits, Begun
    <3> HIDE DEF out, waiting
    <3>7. transferred' = Part(front)
      BY <1>3, <1>5, <3>3, <3>4, StreamEmpty
    <3>8. freed' = freed /\ freed \o outbound = pushed
      <4>1. freed \o << >> = freed
        BY <1>2
      <4> QED
        BY <1>3, <1>4, <2>2, <3>3, <4>1
    <3> QED
      BY <1>2, <1>5, <1>6, <3>3, <3>4, <3>6, <3>7, <3>8
  <2> QED
    BY <2>1, <2>2
<1> HIDE DEF waiting, out
<1>8. TransferNew(outbound, << >>, left, NoFlight)
  BY <1>3, <1>7
<1>9. /\ pushed' \in Seq(Message) /\ Followed(freed', outbound, pushed')
      /\ Len(line') = Len(Stream(freed')) + Part(front)
  BY <1>2, <1>3, <1>7 DEF Followed
<1>10. /\ outbound' \in Seq(Message) /\ buffered' \in Seq(Message)
       /\ front' \in [header : BOOLEAN, body : Nat]
       /\ IsBuffer(buf')
       /\ flight' \in [at : Nat, n : Nat, sent : Nat]
       /\ SenderState'
  BY <1>1, <1>2, <1>5, <1>7, <1>8, <1>9, TransferKeeps
<1>11. transferred' \in Nat
  <2>1. CASE front = Nothing
    BY <1>7, <2>1 DEF Part, Nothing
  <2>2. CASE front # Nothing
    <3>1. Head(outbound) \in Message
      BY <1>2, <1>7, <2>2
    <3> QED
      BY <1>2, <1>7, <2>2, <3>1, RoomBounds
  <2> QED
    BY <2>1, <2>2
<1>12. SenderTypes'
  BY <1>1, <1>2, <1>3, <1>7, <1>9, <1>10, <1>11 DEF SenderTypes
<1>13. Agrees(line', Stream(pushed'))
  BY <1>3 DEF SenderInv
<1>14. SenderInv'
  BY <1>1, <1>3, <1>10, <1>12, <1>13 DEF SenderInv
<1> QED
  BY <1>1, <1>2, <1>5, <1>7, <1>8, <1>14

-------------------------------------------------------------------------------
(* What follows of the sender *)

LEMMA SenderStep == ASSUME Patient, SenderInv, [Next]_vars PROVE SenderInv'
<1>1. CASE \E m \in Message : PushMessage(m)
  BY <1>1, PushKeeps
<1>2. CASE RawSendCallback
  BY <1>2, CallbackMore, CallbackLast
<1>3. CASE \E k \in 1..BufferSize : Transmit(k)
  BY <1>3, TransmitKeeps
<1>4. CASE Stop
  <2>1. open' = FALSE /\ flight' = NoFlight /\ NoFlight \in [at : Nat, n : Nat, sent : Nat]
    BY <1>4 DEF Stop, NoFlight
  <2>2. UNCHANGED <<pushed, outbound, front, buffered, transferred, buf, freed, line>>
    BY <1>4 DEF Stop, sendVars, queueVars
  <2>3. SenderTypes'
    BY <2>1, <2>2 DEF SenderInv, SenderTypes
  <2> QED
    BY <2>1, <2>2, <2>3 DEF SenderInv
<1>5. CASE Receiving \/ HandleMessages \/ UNCHANGED vars
  <2>1. UNCHANGED <<pushed, outbound, front, buffered, transferred, buf, freed, flight, line, open>>
    BY <1>5 DEF Receiving, ParseOne, RawRecvCallback, HandleMessages, vars, sendVars, queueVars
  <2>2. SenderTypes'
    BY <2>1 DEF SenderInv, SenderTypes
  <2>3. Done' = Done /\ Current' = Current
    BY <2>1 DEF Done, Current
  <2>4. SenderState => SenderState'
    BY <2>1, <2>3 DEF SenderState, Waiting, FrontFits, RoomUsed, InPlace, Writing, LineIsShort
  <2> QED
    BY <2>1, <2>2, <2>4 DEF SenderInv
<1> QED
  BY <1>1, <1>2, <1>3, <1>4, <1>5 DEF Next, Sending

LEMMA SenderAlways == ASSUME Patient PROVE Spec => []SenderInv
<1>1. Init => SenderInv
  BY SenderInit
<1>2. SenderInv /\ [Next]_vars => SenderInv'
  BY SenderStep
<1> QED
  BY <1>1, <1>2, PTL DEF Spec

LEMMA AgreesIsPrefix ==
  ASSUME NEW S, NEW s \in Seq(S), NEW t \in Seq(S), Agrees(s, t)
  PROVE  IsPrefix(s, t)
<1>1. SubSeq(s, 1, Len(s)) = SubSeq(t, 1, Len(s))
  BY DEF Agrees
<1> QED
  BY <1>1 DEF IsPrefix, Agrees

\* The wire carries the bytes of the messages pushed, in order, none twice and none
\* missing, as long as nothing is pushed while a message is in the buffer in part.
THEOREM StreamStaysIntact == ASSUME Patient PROVE Spec => []StreamIntact
<1>1. SenderInv => StreamIntact
  <2> SUFFICES ASSUME SenderInv PROVE IsPrefix(line, Stream(pushed))
    BY DEF StreamIntact
  <2>1. line \in Seq(ByteOf) /\ pushed \in Seq(Message)
    BY DEF SenderInv, SenderTypes
  <2>2. Stream(pushed) \in Seq(ByteOf)
    BY <2>1, StreamType
  <2> QED
    BY <2>1, <2>2, AgreesIsPrefix DEF SenderInv
<1> QED
  BY <1>1, SenderAlways, PTL

\* A message is deleted when its last byte is out, not before and not later than the
\* callback that says so (Protocol::bytes_transferred).
THEOREM FreedWhenSentAlways == ASSUME Patient PROVE Spec => []FreedWhenSent
<1>1. SenderInv => FreedWhenSent
  <2> SUFFICES ASSUME SenderInv, open PROVE FreedWhenSent
    BY DEF FreedWhenSent
  <2>1. SenderState /\ transferred \in Nat /\ buffered \in Seq(Message) /\ IsBuffer(buf)
    BY DEF SenderInv, SenderTypes
  <2>2. Len(line) = Len(Stream(freed)) + transferred + flight.sent /\ freed \o buffered \o outbound = pushed
    BY <2>1 DEF SenderState, LineIsShort, Waiting
  <2>3. ASSUME buffered # << >> PROVE transferred < Size(Head(buffered))
    <3>1. Head(buffered) \in Message
      BY <2>1, <2>3
    <3>2. Done = Size(Head(buffered)) /\ Done \in Nat /\ Done > 0
      BY <2>3, <3>1, BytesType, SizeAssumption DEF Done
    <3>3. Held(buf) > 0 /\ Held(buf) = Done - transferred
      BY <2>1, <3>2 DEF SenderState, RoomUsed
    <3> QED
      BY <2>1, <3>2, <3>3
  <2> QED
    BY <2>1, <2>2, <2>3 DEF FreedWhenSent
<1> QED
  BY <1>1, SenderAlways, PTL

-------------------------------------------------------------------------------
(* The receiver *)

LEMMA Offsets ==
  ASSUME pushed \in Seq(Message)
  PROVE  /\ Off(0) = 0 /\ Off(Len(pushed)) = Len(Stream(pushed))
         /\ \A n \in 0..Len(pushed) : Off(n) \in Nat
         /\ \A n \in 0..Len(pushed) - 1 : /\ pushed[n + 1] \in Message
                                          /\ Off(n + 1) = Off(n) + Size(pushed[n + 1])
<1>1. Off(0) = 0
  <2>1. SubSeq(pushed, 1, 0) = << >>
    OBVIOUS
  <2> QED
    BY <2>1, StreamEmpty DEF Off
<1>2. Off(Len(pushed)) = Len(Stream(pushed))
  <2>1. SubSeq(pushed, 1, Len(pushed)) = pushed
    OBVIOUS
  <2> QED
    BY <2>1 DEF Off
<1>3. ASSUME NEW n \in 0..Len(pushed) PROVE Off(n) \in Nat
  BY PrefixOf, StreamType DEF Off
<1>4. ASSUME NEW n \in 0..Len(pushed) - 1
      PROVE  pushed[n + 1] \in Message /\ Off(n + 1) = Off(n) + Size(pushed[n + 1])
  BY StreamStep DEF Off
<1> QED
  BY <1>1, <1>2, <1>3, <1>4

\* What the line holds of message n + 1.
LEMMA CutOfLine ==
  ASSUME SenderInv, NEW n \in 0..Len(pushed) - 1, NEW a \in Nat, NEW k \in Nat,
         a + k <= Size(pushed[n + 1]), Off(n) + a + k <= Len(line)
  PROVE  SubSeq(line, (Off(n) + a) + 1, (Off(n) + a) + k) = Piece(pushed[n + 1], a, k)
<1> DEFINE m == pushed[n + 1]
           o == Off(n)
<1>1. pushed \in Seq(Message) /\ line \in Seq(ByteOf) /\ Agrees(line, Stream(pushed))
  BY DEF SenderInv, SenderTypes
<1>2. n \in 0..Len(pushed) /\ Len(line) \in Nat
  BY <1>1
<1>3. m \in Message /\ o \in Nat
  BY <1>1, <1>2, Offsets
<1>4. \A j \in 1..Size(m) : Stream(pushed)[o + j] = <<m, j>>
  BY <1>1, Passage DEF Off
<1>5. Size(m) \in Nat /\ a + k <= Size(m) /\ o + a + k <= Len(line)
  BY <1>3, BytesType
<1> HIDE DEF m, o
<1>6. o + a \in Nat
  BY <1>3
<1>7. SubSeq(line, (o + a) + 1, (o + a) + k) = [i \in 1..k |-> line[(o + a) + i]]
  <2> DEFINE x == o + a
  <2>1. x \in Nat
    BY <1>6
  <2> HIDE DEF x
  <2>2. SubSeq(line, x + 1, x + k) = [i \in 1..k |-> line[x + i]]
    BY <2>1, Slice
  <2> QED
    BY <2>2 DEF x
<1>8. ASSUME NEW i \in 1..k PROVE line[(o + a) + i] = <<m, a + i>>
  <2>1. a + i \in 1..Size(m) /\ (o + a) + i = o + (a + i) /\ (o + a) + i \in 1..Len(line)
    BY <1>2, <1>3, <1>5
  <2> QED
    BY <1>1, <1>4, <2>1 DEF Agrees
<1> QED
  BY <1>7, <1>8 DEF Piece, m, o

LEMMA ReceiverInit == Init => ReceiverInv
<1> SUFFICES ASSUME Init PROVE ReceiverInv
  OBVIOUS
<1>1. pushed \in Seq(Message) /\ Len(pushed) = 0 /\ Len(handled) = 0 /\ Len(inbound) = 0 /\ Len(incoming) = 0 /\ Len(line) = 0
  BY DEF Init
<1>2. Received = 0
  BY <1>1 DEF Received
<1>3. Off(0) = 0
  BY <1>1, Offsets
<1>4. ReceiverTypes
  <2>1. << >> \in Seq(Message) /\ << >> \in Seq(Seq(ByteOf)) /\ << >> \in Seq(ByteOf)
    OBVIOUS
  <2> QED
    BY <2>1 DEF Init, ReceiverTypes
<1>5. InboundWhole
  BY <1>1 DEF InboundWhole
<1>6. IncomingPart
  BY DEF Init, IncomingPart
<1>7. Parsed
  BY <1>1, <1>2, <1>3 DEF Init, Parsed
<1> QED
  BY <1>1, <1>2, <1>4, <1>5, <1>6, <1>7 DEF ReceiverInv

\* The sender adds to what was pushed and to the line.
LEMMA SenderSpares ==
  ASSUME SenderInv, SenderInv', ReceiverInv, UNCHANGED recvVars,
         Agrees(pushed, pushed'), Len(line') >= Len(line)
  PROVE  ReceiverInv'
<1>1. /\ pushed \in Seq(Message) /\ pushed' \in Seq(Message) /\ Len(pushed) \in Nat /\ Len(pushed') \in Nat
      /\ Len(line) \in Nat /\ Len(line') \in Nat
  <2>1. pushed \in Seq(Message) /\ line \in Seq(ByteOf)
    BY DEF SenderInv, SenderTypes
  <2>2. pushed' \in Seq(Message) /\ line' \in Seq(ByteOf)
    BY DEF SenderInv, SenderTypes
  <2>3. Len(pushed) \in Nat /\ Len(line) \in Nat
    BY <2>1
  <2>4. Len(pushed') \in Nat /\ Len(line') \in Nat
    BY <2>2
  <2> QED
    BY <2>1, <2>2, <2>3, <2>4
<1>2. UNCHANGED <<read, parsed, parsing, incoming, inbound, calls, handled>>
  BY DEF recvVars
<1>3. ReceiverTypes /\ Received <= Len(pushed) /\ InboundWhole /\ IncomingPart /\ Parsed
      /\ \A k \in 1..Len(handled) : handled[k] = pushed[k]
  BY DEF ReceiverInv
<1>4. ReceiverTypes'
  BY <1>2, <1>3 DEF ReceiverTypes
<1>5. Len(handled) \in Nat /\ Len(inbound) \in Nat /\ Received = Len(handled) + Len(inbound) /\ Received \in Nat
  <2>1. Len(handled) \in Nat /\ Len(inbound) \in Nat
    BY <1>3 DEF ReceiverTypes
  <2> QED
    BY <2>1 DEF Received
<1>6. Received' = Received
  BY <1>2 DEF Received
<1>7. Len(pushed) <= Len(pushed') /\ \A k \in 1..Len(pushed) : pushed'[k] = pushed[k]
  BY DEF Agrees
<1>8. Received' <= Len(pushed')
  BY <1>1, <1>3, <1>5, <1>6, <1>7
<1>9. \A k \in 1..Len(handled') : handled'[k] = pushed'[k]
  <2>1. \A k \in 1..Len(handled) : k \in 1..Len(pushed)
    BY <1>1, <1>3, <1>5
  <2> QED
    BY <1>2, <1>3, <1>7, <2>1
<1>10. InboundWhole'
  <2>1. ASSUME NEW k \in 1..Len(inbound) PROVE pushed'[Len(handled) + k] = pushed[Len(handled) + k]
    <3>1. Len(handled) + k \in 1..Len(pushed)
      BY <1>1, <1>3, <1>5
    <3> QED
      BY <1>7, <3>1
  <2> QED
    BY <1>2, <1>3, <2>1 DEF InboundWhole
<1>11. IncomingPart'
  <2>1. ASSUME incoming # << >> PROVE pushed'[Received + 1] = pushed[Received + 1] /\ Received < Len(pushed')
    <3>1. Received < Len(pushed)
      BY <1>3, <2>1 DEF IncomingPart
    <3>2. Received + 1 \in 1..Len(pushed)
      BY <1>1, <1>5, <3>1
    <3> QED
      BY <1>1, <1>5, <1>7, <3>1, <3>2
  <2> QED
    BY <1>2, <1>3, <1>6, <2>1 DEF IncomingPart
<1>12. Parsed'
  <2>1. SubSeq(pushed', 1, Received) = SubSeq(pushed, 1, Received)
    <3> DEFINE a == SubSeq(pushed', 1, Received)
               b == SubSeq(pushed, 1, Received)
    <3>1. Received \in 0..Len(pushed) /\ Received \in 0..Len(pushed')
      BY <1>1, <1>3, <1>5, <1>7
    <3>2. a \in Seq(Message) /\ Len(a) = Received /\ \A i \in 1..Received : a[i] = pushed'[i]
      BY <1>1, <3>1, PrefixOf
    <3>3. b \in Seq(Message) /\ Len(b) = Received /\ \A i \in 1..Received : b[i] = pushed[i]
      BY <1>1, <3>1, PrefixOf
    <3>4. \A i \in 1..Received : i \in 1..Len(pushed)
      BY <1>1, <3>1
    <3> HIDE DEF a, b
    <3>5. \A i \in 1..Received : a[i] = b[i]
      BY <1>7, <3>2, <3>3, <3>4
    <3>6. a = b
      BY <3>2, <3>3, <3>5, Equal
    <3> QED
      BY <3>6 DEF a, b
  <2>2. Off(Received)' = Off(Received)
    BY <1>6, <2>1 DEF Off
  <2>3. read' <= Len(line')
    BY <1>1, <1>2, <1>3 DEF Parsed, ReceiverTypes
  <2> QED
    BY <1>2, <1>3, <2>2, <2>3 DEF Parsed
<1> QED
  BY <1>4, <1>8, <1>9, <1>10, <1>11, <1>12 DEF ReceiverInv

LEMMA ReadKeeps ==
  ASSUME SenderInv, ReceiverInv, NEW k \in 1..BufferSize, RawRecvCallback(k)
  PROVE  ReceiverInv'
<1>1. ReceiverTypes /\ IncomingPart /\ Parsed /\ InboundWhole /\ Received <= Len(pushed)
      /\ \A i \in 1..Len(handled) : handled[i] = pushed[i]
  BY DEF ReceiverInv
<1>2. /\ read' = read + k /\ parsing' = TRUE /\ ~parsing
      /\ k \in 1 .. Lesser(Len(line) - read, BufferSize - (read - parsed))
      /\ UNCHANGED <<pushed, line, parsed, incoming, inbound, calls, handled>>
  BY DEF RawRecvCallback, sendVars
<1>3. read \in Nat /\ parsed \in Nat /\ Len(line) \in Nat /\ k \in Nat \ {0} /\ BufferSize \in Nat /\ HeaderSize \in Nat
  <2>1. line \in Seq(ByteOf)
    BY DEF SenderInv, SenderTypes
  <2>2. read \in Nat /\ parsed \in Nat
    BY <1>1 DEF ReceiverTypes
  <2>3. k \in Nat \ {0} /\ BufferSize \in Nat /\ HeaderSize \in Nat
    BY SizeAssumption
  <2>4. Len(line) \in Nat
    BY <2>1
  <2> QED
    BY <2>2, <2>3, <2>4
<1>4. read + k <= Len(line)
  BY <1>2, <1>3 DEF Lesser
<1>5. ReceiverTypes'
  BY <1>1, <1>2, <1>3 DEF ReceiverTypes
<1>6. Received' = Received /\ Off(Received)' = Off(Received)
  BY <1>2 DEF Received, Off
<1>7. InboundWhole' /\ IncomingPart'
  BY <1>1, <1>2, <1>6 DEF InboundWhole, IncomingPart
<1>8. Parsed'
  <2>1. parsed <= read /\ parsed = Off(Received) + Len(incoming)
    BY <1>1 DEF Parsed
  <2>2. parsed < read + k /\ parsed <= read + k
    BY <1>2, <1>3, <2>1
  <2> QED
    BY <1>2, <1>4, <1>6, <2>1, <2>2 DEF Parsed
<1> QED
  BY <1>1, <1>2, <1>5, <1>6, <1>7, <1>8 DEF ReceiverInv

\* A turn of the loop of buffer2message takes the next bytes of the message it is at.
Turn(n, a, k) ==
  /\ parsed' = parsed + k
  /\ a + k = Size(pushed[n + 1]) =>
       /\ incoming' = << >> /\ inbound' = Append(inbound, Piece(pushed[n + 1], 0, a + k))
       /\ parsing' => read - parsed - k >= HeaderSize
  /\ a + k # Size(pushed[n + 1]) =>
       /\ incoming' = Piece(pushed[n + 1], 0, a + k) /\ inbound' = inbound
       /\ parsing' = FALSE /\ k = read - parsed

LEMMA ParseTurns ==
  ASSUME SenderInv, ReceiverInv, ParseOne, ~HeaderCut
  PROVE  /\ Received \in 0..Len(pushed) - 1
         /\ LET a == Len(incoming)
                m == pushed[Received + 1]
                k == Lesser(read - parsed, Size(m) - a)
            IN /\ m \in Message /\ a \in Nat /\ k \in Nat \ {0} /\ Size(m) \in Nat
               /\ a + k <= Size(m) /\ a + k >= HeaderSize /\ k <= read - parsed
               /\ Turn(Received, a, k)
               /\ fault' = fault /\ parsing' \in BOOLEAN /\ calls' \in Nat
<1> DEFINE a == Len(incoming)
           m == pushed[Received + 1]
           k == Lesser(read - parsed, Size(m) - a)
           max == read - parsed
<1>1. ReceiverTypes /\ IncomingPart /\ Parsed /\ Received <= Len(pushed) /\ parsing
  BY DEF ReceiverInv, ParseOne
<1>2. /\ pushed \in Seq(Message) /\ line \in Seq(ByteOf) /\ Agrees(line, Stream(pushed))
      /\ handled \in Seq(Message) /\ inbound \in Seq(Seq(ByteOf)) /\ incoming \in Seq(ByteOf)
      /\ read \in Nat /\ parsed \in Nat /\ parsing \in BOOLEAN /\ calls \in Nat
  BY <1>1 DEF SenderInv, SenderTypes, ReceiverTypes
<1>3. a \in Nat /\ Received \in Nat /\ Len(pushed) \in Nat /\ Len(line) \in Nat /\ HeaderSize \in Nat \ {0}
  <2>1. a \in Nat /\ Len(handled) \in Nat /\ Len(inbound) \in Nat /\ Len(pushed) \in Nat /\ Len(line) \in Nat
    BY <1>2
  <2> QED
    BY <2>1, SizeAssumption DEF Received
<1>4. parsed = Off(Received) + a /\ parsed < read /\ read <= Len(line) /\ (incoming = << >> => max >= HeaderSize)
  <2>1. parsed = Off(Received) + a /\ parsed < read /\ read <= Len(line)
    BY <1>1 DEF Parsed
  <2>2. incoming = << >> => max >= HeaderSize
    BY <1>2, <1>3 DEF HeaderCut
  <2> QED
    BY <2>1, <2>2
<1>5. max \in Nat \ {0}
  BY <1>2, <1>4
<1>6. Received \in 0..Len(pushed) - 1
  <2>1. CASE incoming # << >>
    <3>1. Received < Len(pushed)
      BY <1>1, <2>1 DEF IncomingPart
    <3> QED
      BY <1>3, <3>1
  <2>2. CASE incoming = << >>
    <3>1. a = 0
      BY <2>2
    <3>2. Len(line) <= Len(Stream(pushed)) /\ Off(Len(pushed)) = Len(Stream(pushed)) /\ Off(Len(pushed)) \in Nat
      <4>1. Len(pushed) \in 0..Len(pushed)
        BY <1>3
      <4> QED
        BY <1>2, <4>1, Offsets DEF Agrees
    <3>3. parsed < Off(Len(pushed))
      BY <1>2, <1>3, <1>4, <3>2
    <3>4. Received # Len(pushed)
      <4>1. CASE Received = Len(pushed)
        <5>1. Off(Received) = Off(Len(pushed))
          BY <4>1
        <5> HIDE DEF a
        <5>2. parsed = Off(Len(pushed))
          BY <1>2, <1>4, <3>1, <3>2, <5>1
        <5> QED
          BY <1>2, <3>3, <5>2
      <4> QED
        BY <4>1
    <3>5. Received <= Len(pushed)
      BY <1>1
    <3> QED
      BY <1>3, <3>4, <3>5
  <2> QED
    BY <2>1, <2>2
<1>7. m \in Message /\ Off(Received) \in Nat
  <2>1. Received \in 0..Len(pushed)
    BY <1>3, <1>6
  <2> QED
    BY <1>2, <1>6, <2>1, Offsets
<1>8. Size(m) \in Nat /\ Size(m) > HeaderSize
  BY <1>7, BytesType
<1>9. a < Size(m) /\ (incoming # << >> => a >= HeaderSize /\ incoming = Piece(m, 0, a)) /\ (incoming = << >> => a = 0)
  <2>1. CASE incoming # << >>
    BY <1>1, <2>1 DEF IncomingPart
  <2>2. CASE incoming = << >>
    <3>1. a = 0
      BY <2>2
    <3> QED
      BY <1>3, <1>8, <2>2, <3>1
  <2> QED
    BY <2>1, <2>2
<1> DEFINE header == SubSeq(line, parsed + 1, parsed + HeaderSize)
<1>10. ASSUME incoming = << >> PROVE header = Piece(m, 0, HeaderSize) /\ IsHeader(header) /\ header[1][1] = m
  <2>1. a = 0 /\ Off(Received) + 0 = parsed /\ (Off(Received) + 0) + 1 = parsed + 1
        /\ (Off(Received) + 0) + HeaderSize = parsed + HeaderSize
    <3>1. a = 0
      BY <1>9, <1>10
    <3> HIDE DEF a
    <3> QED
      BY <1>2, <1>3, <1>4, <1>7, <3>1
  <2>2. 0 + HeaderSize <= Size(m) /\ Off(Received) + 0 + HeaderSize <= Len(line) /\ 0 \in Nat /\ HeaderSize \in Nat
    <3>1. parsed + HeaderSize <= read
      BY <1>2, <1>3, <1>4, <1>10
    <3> QED
      BY <1>2, <1>3, <1>4, <1>8, <2>1, <3>1
  <2>3. SubSeq(line, (Off(Received) + 0) + 1, (Off(Received) + 0) + HeaderSize) = Piece(m, 0, HeaderSize)
    BY <1>6, <2>2, CutOfLine
  <2>4. header = Piece(m, 0, HeaderSize)
    BY <2>1, <2>3
  <2>5. SubSeq(Bytes(m), 0 + 1, HeaderSize) = Piece(m, 0, HeaderSize - 0)
    BY <1>3, <1>7, <1>8, <2>2, PieceOfBytes
  <2>6. HeaderSize - 0 = HeaderSize /\ 0 + 1 = 1
    BY <1>3
  <2> HIDE DEF header, m
  <2>7. SubSeq(Bytes(m), 1, HeaderSize) = Piece(m, 0, HeaderSize)
    BY <2>5, <2>6
  <2>8. IsHeader(header)
    BY <1>7, <2>4, <2>7 DEF IsHeader
  <2>9. header[1] = <<m, 0 + 1>>
    <3>1. 1 \in 1..HeaderSize /\ 0 \in Nat /\ HeaderSize \in Nat
      BY <1>3
    <3> QED
      BY <1>7, <2>4, <3>1, PieceType
  <2> QED
    BY <2>4, <2>8, <2>9
<1>11. ASSUME incoming # << >> PROVE incoming[1][1] = m
  <2>1. incoming = Piece(m, 0, a) /\ 1 \in 1..a /\ 0 \in Nat
    BY <1>3, <1>9, <1>11
  <2> HIDE DEF m, a
  <2>2. incoming[1] = <<m, 0 + 1>>
    <3>1. a \in Nat
      BY <1>3
    <3>2. \A i \in 1..a : Piece(m, 0, a)[i] = <<m, 0 + i>>
      BY <1>7, <2>1, <3>1, PieceType
    <3> QED
      BY <2>1, <3>2
  <2> QED
    BY <2>2
<1> HIDE DEF m, header
<1>12. k \in Nat \ {0} /\ k <= max /\ k <= Size(m) - a /\ (k # Size(m) - a => k = max)
  BY <1>3, <1>5, <1>8, <1>9 DEF Lesser
<1>13. a + k <= Size(m) /\ a + k >= HeaderSize
  <2>1. CASE incoming # << >>
    BY <1>3, <1>8, <1>9, <1>12, <2>1
  <2>2. CASE incoming = << >>
    <3>1. a = 0 /\ max >= HeaderSize
      BY <1>4, <1>9, <2>2
    <3> HIDE DEF a
    <3>2. k >= HeaderSize
      BY <1>3, <1>5, <1>8, <3>1 DEF Lesser
    <3> HIDE DEF k
    <3> QED
      BY <1>3, <1>8, <1>12, <3>1, <3>2
  <2> QED
    BY <2>1, <2>2
<1> DEFINE got == incoming \o SubSeq(line, parsed + 1, parsed + k)
<1>14. got = Piece(m, 0, a + k) /\ Len(got) = a + k
  <2>1. Off(Received) + a + k <= Len(line)
    <3>1. k <= read - parsed
      BY <1>12
    <3> HIDE DEF k, a
    <3> QED
      BY <1>2, <1>3, <1>4, <1>7, <1>12, <3>1
  <2> HIDE DEF k
  <2>2. SubSeq(line, (Off(Received) + a) + 1, (Off(Received) + a) + k) = Piece(m, a, k)
    <3>1. a \in Nat /\ k \in Nat /\ a + k <= Size(pushed[Received + 1])
      BY <1>3, <1>12, <1>13 DEF m
    <3> HIDE DEF a
    <3> QED
      BY <1>6, <2>1, <3>1, CutOfLine DEF m
  <2>3. SubSeq(line, parsed + 1, parsed + k) = Piece(m, a, k)
    BY <1>4, <2>2
  <2>4. incoming = Piece(m, 0, a)
    <3>1. CASE incoming # << >>
      BY <1>9, <3>1
    <3>2. CASE incoming = << >>
      <4>1. a = 0
        BY <1>9, <3>2
      <4>2. Piece(m, 0, 0) = << >>
        BY DEF Piece
      <4> HIDE DEF a
      <4> QED
        BY <3>2, <4>1, <4>2
    <3> QED
      BY <3>1, <3>2
  <2> HIDE DEF a
  <2>5. 0 + a = a /\ a + k \in Nat
    BY <1>3, <1>12
  <2>6. Cat(Piece(m, 0, a), Piece(m, 0 + a, k)) = Piece(m, 0, a + k)
    BY <1>3, <1>7, <1>12, PiecesJoined
  <2>7. got = Piece(m, 0, a + k)
    BY <2>3, <2>4, <2>5, <2>6 DEF Cat
  <2>8. 0 \in Nat
    OBVIOUS
  <2>9. Len(Piece(m, 0, a + k)) = a + k
    BY <1>7, <2>5, <2>8, PieceType
  <2> HIDE DEF got
  <2> QED
    BY <2>7, <2>9
<1> DEFINE whole == Len(got) = Size(m)
           on == whole /\ Another(max - k)
<1>15. /\ parsed' = parsed + k
       /\ incoming' = IF whole THEN << >> ELSE got
       /\ inbound' = IF whole THEN Append(inbound, got) ELSE inbound
       /\ parsing' = on
       /\ calls' = IF on THEN calls ELSE calls + 1
       /\ fault' = fault
  <2> DEFINE start == incoming = << >>
             m1 == IF start THEN header[1][1] ELSE incoming[1][1]
             take == IF start THEN Lesser(max, Size(m1)) ELSE Lesser(max, Size(m1) - Len(incoming))
  <2>1. m1 = m
    BY <1>10, <1>11
  <2>2. ~ (start /\ (max < HeaderSize \/ ~IsHeader(header)))
    BY <1>3, <1>4, <1>5, <1>10
  <2>3. take = k
    <3>1. CASE start
      <4>1. a = 0 /\ Size(m) - 0 = Size(m)
        BY <1>8, <1>9, <3>1
      <4> HIDE DEF a, m1
      <4> QED
        BY <2>1, <3>1, <4>1
    <3>2. CASE ~start
      BY <2>1, <3>2
    <3> QED
      BY <3>1, <3>2
  <2>4. LET g == incoming \o SubSeq(line, parsed + 1, parsed + take)
            w == Len(g) = Size(m1)
            o == w /\ Another(max - take)
        IN /\ parsed' = parsed + take
           /\ incoming' = IF w THEN << >> ELSE g
           /\ inbound' = IF w THEN Append(inbound, g) ELSE inbound
           /\ parsing' = o
           /\ calls' = IF o THEN calls ELSE calls + 1
           /\ fault' = fault
    BY <2>2 DEF ParseOne, header
  <2> HIDE DEF m1, take, k
  <2> QED
    BY <2>1, <2>3, <2>4
<1> HIDE DEF a, k, got, max
<1>16. whole <=> a + k = Size(m)
  BY <1>14
<1>17. Turn(Received, a, k)
  <2>1. ASSUME a + k = Size(m)
        PROVE  /\ incoming' = << >> /\ inbound' = Append(inbound, Piece(m, 0, a + k))
               /\ parsing' => read - parsed - k >= HeaderSize
    BY <1>14, <1>15, <1>16, <2>1 DEF Another, max
  <2>2. ASSUME a + k # Size(m)
        PROVE  /\ incoming' = Piece(m, 0, a + k) /\ inbound' = inbound
               /\ parsing' = FALSE /\ k = read - parsed
    <3>1. k = max
      BY <1>3, <1>8, <1>12, <2>2
    <3> QED
      BY <1>14, <1>15, <1>16, <2>2, <3>1 DEF max
  <2> QED
    BY <1>15, <2>1, <2>2 DEF Turn, m
<1>18. parsing' \in BOOLEAN /\ calls' \in Nat
  BY <1>2, <1>15
<1> QED
  BY <1>3, <1>6, <1>7, <1>8, <1>12, <1>13, <1>15, <1>17, <1>18 DEF a, k, m, max

\* A message received in full is one more; a part of one is all that was there to read.
LEMMA ParseKeeps ==
  ASSUME SenderInv, ReceiverInv, ParseOne, ~HeaderCut
  PROVE  ReceiverInv'
<1> DEFINE a == Len(incoming)
           m == pushed[Received + 1]
           k == Lesser(read - parsed, Size(m) - a)
           n == Received
<1>1. ReceiverTypes /\ InboundWhole /\ Parsed /\ n <= Len(pushed)
      /\ \A i \in 1..Len(handled) : handled[i] = pushed[i]
  BY DEF ReceiverInv
<1>2. /\ n \in 0..Len(pushed) - 1
      /\ m \in Message /\ a \in Nat /\ k \in Nat \ {0} /\ Size(m) \in Nat
      /\ a + k <= Size(m) /\ a + k >= HeaderSize /\ k <= read - parsed
      /\ Turn(n, a, k) /\ parsing' \in BOOLEAN /\ calls' \in Nat
  BY ParseTurns
<1> HIDE DEF k
<1>3. UNCHANGED <<pushed, line, read, handled>>
  BY DEF ParseOne
<1>4. /\ pushed \in Seq(Message) /\ handled \in Seq(Message) /\ inbound \in Seq(Seq(ByteOf))
      /\ read \in Nat /\ parsed \in Nat
  BY <1>1 DEF SenderInv, SenderTypes, ReceiverTypes
<1>5. Len(handled) \in Nat /\ Len(inbound) \in Nat /\ Len(pushed) \in Nat /\ n = Len(handled) + Len(inbound) /\ n \in Nat
  BY <1>4 DEF Received
<1>6. HeaderSize \in Nat \ {0}
  BY SizeAssumption
<1>7. parsed = Off(n) + a /\ read <= Len(line)
  BY <1>1 DEF Parsed
<1>8. Off(n) \in Nat /\ Off(n + 1) = Off(n) + Size(m)
  <2>1. n \in 0..Len(pushed)
    BY <1>2, <1>5
  <2> QED
    BY <1>2, <1>4, <2>1, Offsets
<1>9. Turn(n, a, k) /\ parsed' = parsed + k /\ parsed' \in Nat /\ parsed' <= read
  <2>1. Turn(n, a, k) /\ parsed' = parsed + k
    BY <1>2 DEF Turn
  <2> HIDE DEF a, m, n
  <2> QED
    BY <1>2, <1>4, <2>1
<1>11. \A i \in 1..Len(handled') : handled'[i] = pushed'[i]
  BY <1>1, <1>3
<1>12. CASE a + k = Size(m)
  <2> DEFINE new == Piece(m, 0, a + k)
  <2>1. /\ incoming' = << >> /\ inbound' = Append(inbound, new)
        /\ parsing' => read - parsed - k >= HeaderSize
    BY <1>9, <1>12 DEF Turn
  <2>2. new \in Seq(ByteOf)
    <3>1. a + k \in Nat /\ 0 \in Nat
      BY <1>2
    <3> QED
      BY <1>2, <3>1, PieceType
  <2>3. new = Piece(m, 0, Size(m))
    BY <1>12
  <2> HIDE DEF new
  <2>4. inbound' \in Seq(Seq(ByteOf)) /\ Len(inbound') = Len(inbound) + 1
        /\ (\A i \in 1..Len(inbound) : inbound'[i] = inbound[i]) /\ inbound'[Len(inbound) + 1] = new
    BY <1>4, <2>1, <2>2
  <2>5. Received' = n + 1
    <3>1. Received' = Len(handled') + Len(inbound')
      BY DEF Received
    <3> QED
      BY <1>3, <1>5, <2>4, <3>1
  <2>6. incoming' \in Seq(ByteOf) /\ Len(incoming') = 0
    BY <2>1
  <2>7. ReceiverTypes'
    BY <1>2, <1>3, <1>4, <1>9, <2>4, <2>6 DEF ReceiverTypes
  <2>8. Received' <= Len(pushed')
    BY <1>2, <1>3, <1>5, <2>5
  <2>9. InboundWhole'
    <3>1. ASSUME NEW i \in 1..Len(inbound')
          PROVE  inbound'[i] = Piece(pushed[Len(handled) + i], 0, Size(pushed[Len(handled) + i]))
      <4>1. CASE i \in 1..Len(inbound)
        BY <1>1, <2>4, <4>1 DEF InboundWhole
      <4>2. CASE i \notin 1..Len(inbound)
        <5>0. i \in 1..Len(inbound) + 1
          BY <2>4
        <5>1. i = Len(inbound) + 1
          BY <1>5, <4>2, <5>0
        <5>2. Len(handled) + i = n + 1
          BY <1>5, <5>1
        <5> QED
          BY <2>3, <2>4, <5>1, <5>2
      <4> QED
        BY <4>1, <4>2
    <3> QED
      BY <1>3, <3>1 DEF InboundWhole
  <2>10. IncomingPart'
    BY <2>1 DEF IncomingPart
  <2>11. Parsed'
    <3>1. Off(Received)' = Off(n + 1)
      BY <1>3, <2>5 DEF Off
    <3>2. parsed' = Off(n + 1) + Len(incoming')
      <4> HIDE DEF a, m, n
      <4> QED
        BY <1>2, <1>7, <1>8, <1>9, <1>12, <2>6
    <3>3. parsing' => read - parsed' >= HeaderSize
      <4> HIDE DEF a, m, n
      <4> QED
        BY <1>2, <1>4, <1>9, <2>1
    <3>4. parsing' => parsed' < read
      BY <1>4, <1>6, <1>9, <3>3
    <3> QED
      BY <1>3, <1>7, <1>9, <3>1, <3>2, <3>3, <3>4 DEF Parsed
  <2> QED
    BY <1>11, <2>7, <2>8, <2>9, <2>10, <2>11 DEF ReceiverInv
<1>13. CASE a + k # Size(m)
  <2> DEFINE part == Piece(m, 0, a + k)
  <2>1. /\ incoming' = part /\ inbound' = inbound
        /\ parsing' = FALSE /\ k = read - parsed
    BY <1>9, <1>13 DEF Turn
  <2>2. part \in Seq(ByteOf) /\ Len(part) = a + k
    <3>1. a + k \in Nat /\ 0 \in Nat
      BY <1>2
    <3> QED
      BY <1>2, <3>1, PieceType
  <2>3. a + k < Size(m)
    <3> HIDE DEF a, m
    <3> QED
      BY <1>2, <1>13
  <2>4. Received' = n
    BY <1>3, <2>1 DEF Received
  <2>5. ReceiverTypes'
    <3> HIDE DEF part
    <3> QED
      BY <1>2, <1>3, <1>4, <1>9, <2>1, <2>2 DEF ReceiverTypes
  <2>6. InboundWhole'
    BY <1>1, <1>3, <2>1 DEF InboundWhole
  <2>7. Len(incoming') = a + k /\ incoming' = Piece(m, 0, Len(incoming'))
    <3>1. Len(incoming') = a + k
      BY <2>1, <2>2
    <3> QED
      BY <2>1, <3>1
  <2>8. parsed' = read
    <3> HIDE DEF a, m, n
    <3> QED
      BY <1>2, <1>4, <1>9, <2>1
  <2>9. IncomingPart'
    <3>1. n < Len(pushed)
      BY <1>2, <1>5
    <3>2. HeaderSize <= Len(incoming') /\ Len(incoming') < Size(m)
      BY <1>2, <2>3, <2>7
    <3>3. pushed'[Received' + 1] = m /\ Received' < Len(pushed')
      BY <1>3, <2>4, <3>1
    <3> HIDE DEF a, m, n
    <3> QED
      BY <1>3, <2>7, <2>8, <3>2, <3>3 DEF IncomingPart
  <2>10. Parsed'
    <3>1. Off(Received)' = Off(n)
      BY <1>3, <2>4 DEF Off
    <3>2. parsed' = Off(n) + Len(incoming')
      <4> HIDE DEF a, m, n
      <4> QED
        BY <1>2, <1>7, <1>8, <1>9, <2>7
    <3> QED
      BY <1>3, <1>7, <1>9, <2>1, <3>1, <3>2 DEF Parsed
  <2>11. Received' <= Len(pushed')
    BY <1>1, <1>3, <2>4
  <2> QED
    BY <1>11, <2>5, <2>6, <2>9, <2>10, <2>11 DEF ReceiverInv
<1> QED
  BY <1>12, <1>13

\* Where a header was cut, the loop goes on behind what was read.
LEMMA ParseCut ==
  ASSUME SenderInv, ReceiverInv, ParseOne, HeaderCut
  PROVE  fault' = "no header" /\ UNCHANGED <<pushed, line, recvVars>> /\ HeaderCut'
<1>1. fault' = "no header" /\ UNCHANGED <<pushed, line, read, handled, parsed, parsing, incoming, inbound, calls>>
  BY DEF ParseOne, HeaderCut
<1> QED
  BY <1>1 DEF HeaderCut, recvVars

\* What is handled are the messages that follow those handled before.
Handling ==
  /\ fault' = fault
  /\ inbound' = << >>
  /\ Len(handled') = Received
  /\ handled' \in Seq(Message)
  /\ \A i \in 1..Received : handled'[i] = pushed[i]

LEMMA JoinedIn ==
  ASSUME NEW S, NEW s \in Seq(S), NEW t \in Seq(S)
  PROVE  Cat(s, t) \in Seq(S) /\ Len(Cat(s, t)) = Len(s) + Len(t)
BY DEF Cat

LEMMA HandleTakes ==
  ASSUME SenderInv, ReceiverInv, HandleMessages
  PROVE  Handling
<1> DEFINE mine == [k \in DOMAIN inbound |-> inbound[k][1][1]]
<1>1. ReceiverTypes /\ InboundWhole /\ Received <= Len(pushed)
      /\ \A i \in 1..Len(handled) : handled[i] = pushed[i]
  BY DEF ReceiverInv
<1>2. pushed \in Seq(Message) /\ handled \in Seq(Message) /\ inbound \in Seq(Seq(ByteOf))
  BY <1>1 DEF SenderInv, SenderTypes, ReceiverTypes
<1>3. Len(handled) \in Nat /\ Len(inbound) \in Nat /\ Len(pushed) \in Nat /\ Received = Len(handled) + Len(inbound)
      /\ DOMAIN inbound = 1..Len(inbound)
  BY <1>2 DEF Received
<1>4. ASSUME NEW k \in 1..Len(inbound)
      PROVE  /\ pushed[Len(handled) + k] \in Message
             /\ inbound[k] = Bytes(pushed[Len(handled) + k])
             /\ inbound[k][1][1] = pushed[Len(handled) + k]
  <2> DEFINE m == pushed[Len(handled) + k]
  <2>1. Len(handled) + k \in 1..Len(pushed)
    BY <1>1, <1>3
  <2>2. m \in Message
    BY <1>2, <2>1
  <2>3. inbound[k] = Piece(m, 0, Size(m))
    BY <1>1 DEF InboundWhole
  <2> HIDE DEF m
  <2>4. Size(m) \in Nat /\ Size(m) > HeaderSize /\ HeaderSize \in Nat \ {0}
    BY <2>2, BytesType, SizeAssumption
  <2>5. Piece(m, 0, Size(m)) = Bytes(m)
    <3>1. \A i \in 1..Size(m) : <<m, 0 + i>> = <<m, i>>
      OBVIOUS
    <3> QED
      BY <3>1 DEF Piece, Bytes
  <2>6. inbound[k][1] = <<m, 0 + 1>>
    <3>1. 1 \in 1..Size(m) /\ 0 \in Nat /\ Size(m) \in Nat
      BY <2>4
    <3>2. \A i \in 1..Size(m) : Piece(m, 0, Size(m))[i] = <<m, 0 + i>>
      BY <2>2, <3>1, PieceType
    <3> QED
      BY <2>3, <3>1, <3>2
  <2>7. inbound[k][1][1] = m
    BY <2>6
  <2> QED
    BY <2>2, <2>3, <2>5, <2>7 DEF m
<1>5. \A k \in DOMAIN inbound : \E m \in Message : inbound[k] = Bytes(m)
  BY <1>3, <1>4
<1>6. inbound' = << >> /\ handled' = Cat(handled, mine) /\ fault' = fault
  BY <1>5 DEF HandleMessages, Cat
<1>7. mine \in Seq(Message) /\ Len(mine) = Len(inbound) /\ \A k \in 1..Len(inbound) : mine[k] = pushed[Len(handled) + k]
  <2>1. mine = [k \in 1..Len(inbound) |-> inbound[k][1][1]]
    BY <1>3
  <2>2. \A k \in 1..Len(inbound) : inbound[k][1][1] \in Message
    BY <1>4
  <2> QED
    BY <1>3, <1>4, <2>1, <2>2
<1> HIDE DEF mine
<1>8. handled' \in Seq(Message) /\ Len(handled') = Received
  <2>1. Cat(handled, mine) \in Seq(Message) /\ Len(Cat(handled, mine)) = Len(handled) + Len(mine)
    BY <1>2, <1>7, JoinedIn
  <2> QED
    BY <1>3, <1>6, <1>7, <2>1
<1>9. ASSUME NEW i \in 1..Received PROVE handled'[i] = pushed[i]
  <2>1. CASE i \in 1..Len(handled)
    <3>1. handled'[i] = handled[i]
      BY <1>2, <1>6, <1>7, <2>1 DEF Cat
    <3> QED
      BY <1>1, <2>1, <3>1
  <2>2. CASE i \notin 1..Len(handled)
    <3>1. i - Len(handled) \in 1..Len(inbound) /\ Len(handled) + (i - Len(handled)) = i
      BY <1>3, <2>2
    <3>2. handled'[i] = mine[i - Len(handled)]
      BY <1>2, <1>3, <1>6, <1>7, <2>2 DEF Cat
    <3> QED
      BY <1>7, <3>1, <3>2
  <2> QED
    BY <2>1, <2>2
<1> QED
  BY <1>6, <1>8, <1>9 DEF Handling

LEMMA HandleKeeps ==
  ASSUME SenderInv, ReceiverInv, HandleMessages
  PROVE  ReceiverInv'
<1>1. /\ ReceiverTypes /\ IncomingPart /\ Parsed /\ Received <= Len(pushed)
      /\ Handling
  BY HandleTakes DEF ReceiverInv
<1>2. /\ UNCHANGED <<pushed, line, read, parsed, parsing, incoming>>
      /\ calls' = calls - 1 /\ calls > 0
  BY DEF HandleMessages, sendVars
<1>3. Received' = Received
  <2>1. handled' \in Seq(Message) /\ Len(handled') = Received /\ Len(inbound') = 0
    BY <1>1 DEF Handling
  <2>2. Received' = Len(handled') + Len(inbound')
    BY DEF Received
  <2> QED
    BY <2>1, <2>2
<1>4. ReceiverTypes'
  <2>1. calls' \in Nat
    BY <1>1, <1>2 DEF ReceiverTypes
  <2>2. inbound' \in Seq(Seq(ByteOf)) /\ handled' \in Seq(Message)
    BY <1>1 DEF Handling
  <2> QED
    BY <1>1, <1>2, <2>1, <2>2 DEF ReceiverTypes
<1>5. \A i \in 1..Len(handled') : handled'[i] = pushed'[i]
  BY <1>1, <1>2 DEF Handling
<1>6. InboundWhole'
  <2>1. Len(inbound') = 0
    BY <1>1 DEF Handling
  <2> QED
    BY <2>1 DEF InboundWhole
<1>7. IncomingPart'
  BY <1>1, <1>2, <1>3 DEF IncomingPart
<1>8. Parsed'
  <2>1. Off(Received)' = Off(Received)
    BY <1>2, <1>3 DEF Off
  <2> QED
    BY <1>1, <1>2, <2>1 DEF Parsed
<1> QED
  BY <1>1, <1>2, <1>3, <1>4, <1>5, <1>6, <1>7, <1>8 DEF ReceiverInv

\* A step of the sender, at most, changes what the receiver sees.
LEMMA SenderAdds ==
  ASSUME Patient, SenderInv, [Next]_vars
  PROVE  /\ Agrees(pushed, pushed') /\ Len(line') >= Len(line)
         /\ \/ UNCHANGED recvVars
            \/ ParseOne \/ HandleMessages \/ \E k \in 1..BufferSize : RawRecvCallback(k)
<1>1. pushed \in Seq(Message) /\ line \in Seq(ByteOf) /\ Len(line) \in Nat /\ Len(pushed) \in Nat
  BY DEF SenderInv, SenderTypes
<1>2. Agrees(pushed, pushed)
  BY <1>1 DEF Agrees
<1>3. CASE \E m \in Message : PushMessage(m)
  <2>1. PICK m \in Message : PushMessage(m)
    BY <1>3
  <2>2. pushed' = Append(pushed, m) /\ UNCHANGED <<line, recvVars>>
    BY <2>1 DEF PushMessage
  <2>3. Agrees(pushed, Append(pushed, m))
    BY <1>1 DEF Agrees
  <2> QED
    BY <1>1, <2>2, <2>3
<1>4. CASE \E k \in 1..BufferSize : Transmit(k)
  <2>1. PICK k \in 1..BufferSize : Transmit(k)
    BY <1>4
  <2>2. UNCHANGED <<pushed, recvVars>> /\ SenderInv'
    BY <2>1, TransmitKeeps DEF Transmit
  <2>3. Len(line') >= Len(line)
    <3>1. open /\ flight.sent = 0 /\ flight' = [flight EXCEPT !.sent = k] /\ UNCHANGED <<freed, transferred, open>>
      BY <2>1 DEF Transmit, sendVars
    <3>2. /\ flight \in [at : Nat, n : Nat, sent : Nat] /\ freed \in Seq(Message)
          /\ LineIsShort /\ LineIsShort' /\ transferred \in Nat /\ k \in Nat
      BY <2>2, <3>1, SizeAssumption DEF SenderInv, SenderTypes, SenderState
    <3>3. flight'.sent = k /\ Len(Stream(freed)) \in Nat
      BY <3>1, <3>2, StreamType
    <3>4. Len(line) = Len(Stream(freed)) + transferred + 0
      BY <3>1, <3>2 DEF LineIsShort
    <3>5. Len(line') = Len(Stream(freed)) + transferred + k
      BY <3>1, <3>2, <3>3 DEF LineIsShort
    <3> QED
      BY <3>2, <3>3, <3>4, <3>5
  <2> QED
    BY <1>2, <2>2, <2>3
<1>5. CASE RawSendCallback \/ Stop \/ UNCHANGED vars
  <2>1. UNCHANGED <<pushed, line, recvVars>>
    BY <1>5 DEF RawSendCallback, Stop, vars
  <2> QED
    BY <1>1, <1>2, <2>1
<1>6. CASE Receiving \/ HandleMessages
  <2>1. UNCHANGED <<pushed, line>>
    BY <1>6 DEF Receiving, ParseOne, RawRecvCallback, HandleMessages
  <2> QED
    BY <1>1, <1>2, <1>6, <2>1 DEF Receiving
<1> QED
  BY <1>3, <1>4, <1>5, <1>6 DEF Next, Sending

LEMMA ReceiverStep ==
  ASSUME Patient, SenderInv, ReceiverInv, [Next]_vars
  PROVE  ReceiverInv'
<1>1. SenderInv'
  BY SenderStep
<1>2. CASE UNCHANGED recvVars
  BY <1>1, <1>2, SenderAdds, SenderSpares
<1>3. CASE ParseOne /\ HeaderCut
  <2>1. UNCHANGED <<pushed, line, recvVars>>
    BY <1>3, ParseCut
  <2>2. Len(pushed) \in Nat /\ Len(line) \in Nat
    BY DEF SenderInv, SenderTypes
  <2>3. Agrees(pushed, pushed') /\ Len(line') >= Len(line)
    BY <2>1, <2>2 DEF Agrees
  <2> QED
    BY <1>1, <2>1, <2>3, SenderSpares
<1>4. CASE (ParseOne /\ ~HeaderCut) \/ HandleMessages \/ \E k \in 1..BufferSize : RawRecvCallback(k)
  BY <1>4, ParseKeeps, HandleKeeps, ReadKeeps
<1> QED
  BY <1>2, <1>3, <1>4, SenderAdds

LEMMA ReceiverAlways == ASSUME Patient PROVE Spec => [](SenderInv /\ ReceiverInv)
<1>1. Init => ReceiverInv
  BY ReceiverInit
<1>2. SenderInv /\ ReceiverInv /\ [Next]_vars => ReceiverInv'
  BY ReceiverStep
<1> QED
  BY <1>1, <1>2, SenderAlways, PTL DEF Spec

\* A step of the program is one of the abstract channel, or none.
LEMMA ChannelStep ==
  ASSUME Patient, SenderInv, ReceiverInv, [Next]_vars
  PROVE  [Channel!Next]_<<pushed, handled>>
<1>1. pushed \in Seq(Message) /\ handled \in Seq(Message)
  BY DEF SenderInv, SenderTypes, ReceiverInv, ReceiverTypes
<1>2. CASE \E m \in Message : PushMessage(m)
  <2>1. PICK m \in Message : PushMessage(m)
    BY <1>2
  <2>2. Channel!Push(m)
    BY <2>1 DEF PushMessage, recvVars, Channel!Push
  <2> QED
    BY <2>2 DEF Channel!Next
<1>3. CASE HandleMessages
  <2>1. Handling /\ pushed' = pushed
    BY <1>3, HandleTakes DEF HandleMessages
  <2>2. Len(handled) \in Nat /\ Len(inbound) \in Nat /\ Received = Len(handled) + Len(inbound)
        /\ Received <= Len(pushed) /\ Len(pushed) \in Nat
        /\ \A i \in 1..Len(handled) : handled[i] = pushed[i]
    BY <1>1 DEF Received, ReceiverInv, ReceiverTypes
  <2>3. handled' \in Seq(Message) /\ Len(handled') = Received /\ \A i \in 1..Received : handled'[i] = pushed[i]
    BY <2>1 DEF Handling
  <2>4. Agrees(handled, handled')
    BY <2>2, <2>3 DEF Agrees
  <2>5. Agrees(handled', pushed)
    BY <2>2, <2>3 DEF Agrees
  <2>6. IsPrefix(handled, handled') /\ IsPrefix(handled', pushed)
    BY <1>1, <2>3, <2>4, <2>5, AgreesIsPrefix
  <2>7. Channel!IsPrefix(handled, handled') /\ Channel!IsPrefix(handled', pushed)
    BY <2>6 DEF IsPrefix, Channel!IsPrefix
  <2>8. Channel!Handle
    BY <2>1, <2>3, <2>7 DEF Channel!Handle
  <2> QED
    BY <2>8 DEF Channel!Next
<1>4. CASE Sending \/ Stop \/ Receiving \/ UNCHANGED vars
  <2>1. UNCHANGED <<pushed, handled>>
    BY <1>4 DEF Sending, RawSendCallback, Transmit, Stop, Receiving, ParseOne, RawRecvCallback, recvVars, vars
  <2> QED
    BY <2>1
<1> QED
  BY <1>2, <1>3, <1>4 DEF Next

\* Messages are handled once, whole and in the order in which they were pushed, however
\* the writes and the reads cut them: the protocol implements the abstract channel, as
\* long as no message is pushed while one is in the buffer in part.
THEOREM HandledInOrder == ASSUME Patient PROVE Spec => InOrder
<1>1. Init => Channel!Init
  BY DEF Init, Channel!Init
<1>2. SenderInv /\ ReceiverInv /\ [Next]_vars => [Channel!Next]_<<pushed, handled>>
  BY ChannelStep
<1> QED
  BY <1>1, <1>2, ReceiverAlways, PTL DEF Spec, InOrder, Channel!Spec

-------------------------------------------------------------------------------
(* Where the loops leave what they have *)

\* What a step may do to fault.
FaultKnown ==
  fault' # fault => \/ fault' = "front of empty queue" /\ EndsWithBuffer'
                    \/ fault' = "no header" /\ HeaderCut

LEMMA OfOne ==
  ASSUME NEW x
  PROVE  <<x>> # << >> /\ Head(<<x>>) = x
<1>1. <<x>> \in Seq({x}) /\ Len(<<x>>) = 1 /\ <<x>>[1] = x
  OBVIOUS
<1>2. Len(<< >>) = 0
  OBVIOUS
<1>3. <<x>> # << >>
  BY <1>1, <1>2
<1> QED
  BY <1>1, <1>3

LEMMA AtLeast ==
  ASSUME NEW n \in Nat, NEW c \in Nat, n >= 1
  PROVE  c * n >= c
<1>1. n - 1 \in Nat /\ (n - 1) + 1 = n
  OBVIOUS
<1>2. c * (n - 1) \in Nat
  BY <1>1
<1>3. c * ((n - 1) + 1) = c * (n - 1) + c
  BY <1>1
<1> QED
  BY <1>1, <1>2, <1>3

LEMMA TransferAligned ==
  ASSUME NEW q \in Seq(Message), NEW b, b.get \in Nat, b.put \in Nat, Held(b) = 0, open,
         front \in [header : BOOLEAN, body : Nat],
         front = Nothing \/ (q # << >> /\ Begun(front, Head(q))),
         TransferNew(q, << >>, b, NoFlight),
         NEW c \in Nat, Part(front) = c * BufferSize
  PROVE  /\ FaultKnown
         /\ \E d \in Nat : Part(front') = d * BufferSize
<1>1. HeaderSize \in Nat \ {0} /\ BufferSize \in Nat \ {0}
  BY SizeAssumption
<1>2. Part(Nothing) = 0 * BufferSize
  BY <1>1 DEF Part, Nothing
<1>3. CASE q = << >>
  <2>1. front' = Nothing /\ fault' = fault
    BY <1>3, Transferring DEF TransferredNone
  <2> QED
    BY <1>2, <2>1 DEF FaultKnown
<1>4. CASE q # << >>
  <2> DEFINE m == Head(q)
             n == Part(front)
             k == Room(m, front)
  <2>1. m \in Message
    BY <1>4
  <2>2. Begun(front, m)
    BY DEF Begun
  <2>3. TransferredSome(q, m, n, k)
    BY <1>4, Transferring
  <2> HIDE DEF m
  <2>4. /\ n \in Nat /\ n < Size(m) /\ k \in 1..BufferSize /\ k <= Size(m) - n
        /\ k < Size(m) - n => k = BufferSize
    BY <2>1, <2>2, RoomBounds
  <2>5. Size(m) \in Nat
    BY <2>1, BytesType
  <2>6. n = c * BufferSize /\ c + 1 \in Nat
    OBVIOUS
  <2> HIDE DEF n, k
  <2>7. n + BufferSize = (c + 1) * BufferSize
    BY <1>1, <2>6
  <2>8. CASE n + k = Size(m)
    <3>1. /\ front' = Nothing /\ buffered' = <<m>> /\ outbound' = Tail(q)
          /\ fault' = IF k = BufferSize /\ Tail(q) = << >> THEN "front of empty queue" ELSE fault
      BY <2>3, <2>8 DEF TransferredSome
    <3>2. ASSUME k = BufferSize, Tail(q) = << >> PROVE EndsWithBuffer'
      <4>1. Size(m) = (c + 1) * BufferSize
        BY <2>7, <2>8, <3>2
      <4>0. c + 1 \in 1..Size(m)
        BY <1>1, <2>5, <2>6, <4>1, AtLeast
      <4>2. buffered' # << >> /\ Head(buffered') = m
        <5>1. buffered' = <<m>>
          BY <3>1
        <5>2. <<m>> # << >> /\ Head(<<m>>) = m
          BY OfOne
        <5> QED
          BY <5>1, <5>2
      <4>3. outbound' = << >>
        BY <3>1, <3>2
      <4> QED
        BY <4>0, <4>1, <4>2, <4>3 DEF EndsWithBuffer
    <3>3. FaultKnown
      <4>1. CASE k = BufferSize /\ Tail(q) = << >>
        BY <3>1, <3>2, <4>1 DEF FaultKnown
      <4>2. CASE ~(k = BufferSize /\ Tail(q) = << >>)
        <5>1. fault' = fault
          BY <3>1, <4>2
        <5> QED
          BY <5>1 DEF FaultKnown
      <4> QED
        BY <4>1, <4>2
    <3>4. Part(front') = 0 * BufferSize /\ 0 \in Nat
      BY <1>2, <3>1
    <3> QED
      BY <3>3, <3>4
  <2>9. CASE n + k # Size(m)
    <3>1. k = BufferSize
      <4>1. n \in Nat /\ k \in Nat /\ Size(m) \in Nat /\ k <= Size(m) - n
        BY <1>1, <2>4, <2>5
      <4>2. k < Size(m) - n
        BY <2>9, <4>1
      <4> QED
        BY <2>4, <4>2
    <3>2. front' = [header |-> TRUE, body |-> n + k - HeaderSize] /\ fault' = fault
      BY <2>3, <2>9 DEF TransferredSome
    <3>3. Part(front') = HeaderSize + (n + k - HeaderSize)
      BY <3>2 DEF Part
    <3>4. Part(front') = (c + 1) * BufferSize
      BY <1>1, <2>4, <2>7, <3>1, <3>3
    <3> QED
      BY <2>6, <3>2, <3>4 DEF FaultKnown
  <2> QED
    BY <2>8, <2>9
<1> QED
  BY <1>3, <1>4

LEMMA FaultStep ==
  ASSUME Patient, SenderInv, ReceiverInv, Aligned, Next
  PROVE  Aligned' /\ FaultKnown
<1>1. SenderTypes /\ BufferSize \in Nat
  BY SizeAssumption DEF SenderInv
<1>2. CASE \E m \in Message : PushMessage(m)
  <2>1. PICK m \in Message : PushMessage(m)
    BY <1>2
  <2> DEFINE q == Append(outbound, m)
  <2>2. front = Nothing /\ open' = open /\ Part(front) = 0
    BY <2>1 DEF PushMessage, Nothing, Part
  <2>3. CASE buffered # << >> \/ ~open
    <3>1. front' = front /\ fault' = fault
      BY <2>1, <2>3 DEF PushMessage, TransferNew
    <3> QED
      BY <2>2, <3>1 DEF Aligned, FaultKnown
  <2>4. CASE buffered = << >> /\ open
    <3>1. SenderState /\ q \in Seq(Message) /\ buf.get \in Nat /\ buf.put \in Nat /\ transferred \in Nat
          /\ front \in [header : BOOLEAN, body : Nat]
      BY <1>1, <2>4 DEF SenderInv, SenderTypes, IsBuffer
    <3>2. Done = 0
      BY <2>2, <2>4 DEF Done
    <3>3. Held(buf) = 0
      <4>1. Held(buf) = Done - transferred /\ Held(buf) >= 0
        BY <3>1 DEF SenderState, RoomUsed
      <4> QED
        BY <3>1, <3>2, <4>1
    <3>4. flight = NoFlight
      BY <3>1, <3>3 DEF SenderState, Writing
    <3>5. TransferNew(q, << >>, buf, NoFlight)
      BY <2>1, <2>4, <3>4 DEF PushMessage
    <3>6. PICK c \in Nat : Part(front) = c * BufferSize
      BY <2>4 DEF Aligned
    <3> HIDE DEF q
    <3>7. /\ FaultKnown
          /\ \E d \in Nat : Part(front') = d * BufferSize
      BY <2>2, <2>4, <3>1, <3>3, <3>5, <3>6, TransferAligned
    <3> QED
      BY <3>7 DEF Aligned, FaultKnown
  <2> QED
    BY <2>3, <2>4
<1>3. CASE RawSendCallback
  <2>1. open /\ open' = open
    BY <1>3 DEF RawSendCallback
  <2>2. CASE Held(Consume(buf, flight.sent)) = 0
    <3> DEFINE Transfers(q, b) ==
                 /\ b.get \in Nat /\ b.put \in Nat /\ Held(b) = 0 /\ open
                 /\ front = Nothing \/ (q # << >> /\ Begun(front, Head(q)))
                 /\ TransferNew(q, << >>, b, NoFlight)
    <3>0. PICK q \in Seq(Message) : \E b : Transfers(q, b)
      BY <1>3, <2>2, CallbackLast
    <3>1. PICK b : Transfers(q, b)
      BY <3>0
    <3>2. front \in [header : BOOLEAN, body : Nat]
      BY <1>1 DEF SenderTypes
    <3>3. PICK c \in Nat : Part(front) = c * BufferSize
      BY <2>1 DEF Aligned
    <3>4. /\ FaultKnown
          /\ \E d \in Nat : Part(front') = d * BufferSize
      BY <3>1, <3>2, <3>3, TransferAligned
    <3> QED
      BY <3>4 DEF Aligned, FaultKnown
  <2>3. CASE Held(Consume(buf, flight.sent)) # 0
    <3>1. front' = front /\ fault' = fault
      BY <1>3, <2>3 DEF RawSendCallback
    <3> QED
      BY <2>1, <3>1 DEF Aligned, FaultKnown
  <2> QED
    BY <2>2, <2>3
<1>4. CASE ParseOne
  <2>1. front' = front /\ open' = open
    BY <1>4 DEF ParseOne, sendVars, queueVars
  <2>2. fault' = fault \/ (fault' = "no header" /\ HeaderCut)
    BY <1>4, ParseTurns, ParseCut
  <2> QED
    BY <2>1, <2>2 DEF Aligned, FaultKnown
<1>5. CASE HandleMessages
  <2>1. fault' = fault
    BY <1>5, HandleTakes DEF Handling
  <2>2. front' = front /\ open' = open
    BY <1>5 DEF HandleMessages, sendVars, queueVars
  <2> QED
    BY <2>1, <2>2 DEF Aligned, FaultKnown
<1>6. CASE Stop
  <2>1. open' = FALSE /\ fault' = fault
    BY <1>6 DEF Stop
  <2> QED
    BY <2>1 DEF Aligned, FaultKnown
<1>7. CASE \E k \in 1..BufferSize : Transmit(k) \/ RawRecvCallback(k)
  <2>1. front' = front /\ open' = open /\ fault' = fault
    BY <1>7 DEF Transmit, RawRecvCallback, sendVars, queueVars
  <2> QED
    BY <2>1 DEF Aligned, FaultKnown
<1> QED
  BY <1>2, <1>3, <1>4, <1>5, <1>6, <1>7 DEF Next, Sending, Receiving

\* After a fault nothing moves.
\* A turn of the loop of buffer2message leaves no part of a header to the next.
LEMMA LoopStep ==
  ASSUME SenderInv, ReceiverInv, Next, parsing, parsing', ~HeaderCut
  PROVE  ~HeaderCut'
<1>1. CASE ParseOne
  <2> DEFINE a == Len(incoming)
             m == pushed[Received + 1]
             k == Lesser(read - parsed, Size(m) - a)
  <2>1. Turn(Received, a, k) /\ k \in Nat
    BY <1>1, ParseTurns
  <2> HIDE DEF k
  <2>2. a + k = Size(pushed[Received + 1])
    BY <2>1 DEF Turn
  <2>3. parsed' = parsed + k /\ read - parsed - k >= HeaderSize /\ read' = read
    BY <1>1, <2>1, <2>2 DEF Turn, ParseOne
  <2>4. read \in Nat /\ parsed \in Nat /\ HeaderSize \in Nat
    BY SizeAssumption DEF ReceiverInv, ReceiverTypes
  <2>5. read' - parsed' >= HeaderSize
    BY <2>1, <2>3, <2>4
  <2> QED
    BY <2>3, <2>4, <2>5 DEF HeaderCut
<1>2. CASE ~ParseOne
  <2>1. UNCHANGED <<incoming, read, parsed>>
    BY <1>2 DEF Next, Sending, Receiving, PushMessage, Transmit, RawSendCallback, Stop, RawRecvCallback,
                HandleMessages, recvVars
  <2> QED
    BY <2>1 DEF HeaderCut
<1> QED
  BY <1>1, <1>2

\* However the writes and the reads are cut, the sender's loop leaves its queue only behind
\* a last message that ends with the buffer, the receiver's loop its bytes only where a
\* read ended inside of a header, which no turn of the loop leads to, and all that was
\* received can be reconstructed, when nothing is pushed while a message is in the buffer
\* in part.
THEOREM FaultsAreKnown == ASSUME Patient PROVE Spec => FaultsKnown
<1>1. Init => Aligned
  <2> SUFFICES ASSUME Init PROVE Aligned
    OBVIOUS
  <2>1. front = Nothing
    BY DEF Init
  <2>2. 0 \in Nat /\ Part(front) = 0 * BufferSize
    BY <2>1, SizeAssumption DEF Part, Nothing
  <2> QED
    BY <2>1, <2>2 DEF Aligned
<1>2. SenderInv /\ ReceiverInv /\ Aligned /\ [Next]_vars => Aligned'
  <2> SUFFICES ASSUME SenderInv, ReceiverInv, Aligned, [Next]_vars PROVE Aligned'
    OBVIOUS
  <2>1. CASE Next
    BY <2>1, FaultStep
  <2>2. CASE UNCHANGED vars
    BY <2>2 DEF vars, sendVars, queueVars, Aligned
  <2> QED
    BY <2>1, <2>2
<1>3. SenderInv /\ ReceiverInv /\ Aligned /\ [Next]_vars
        => [/\ fault' # fault => \/ fault' = "front of empty queue" /\ EndsWithBuffer'
                                 \/ fault' = "no header" /\ HeaderCut
            /\ parsing /\ parsing' /\ ~HeaderCut => ~HeaderCut']_vars
  BY FaultStep, LoopStep DEF FaultKnown
<1> QED
  BY <1>1, <1>2, <1>3, ReceiverAlways, PTL DEF Spec, FaultsKnown
===============================================================================
