-------------------------- MODULE HttpExchange_proofs --------------------------
(***************************************************************************)
(* A proof about the descriptors of an HTTP client (HttpExchange.tla), for *)
(* any resources and sizes of their bodies, any buffer, any number of      *)
(* requests out at a time, and writes and reads that are cut anywhere:     *)
(*                                                                         *)
(*   DescriptorsKept   each is in one place, and none is lost.             *)
(*                                                                         *)
(* What a message takes from the bytes it is given does not matter to it:  *)
(* a descriptor moves from the queue to the message when one is begun, and *)
(* with the message to the session.                                        *)
(***************************************************************************)
EXTENDS HttpExchange, TLAPS

\* The client's queues are sequences, and the ends keep their parts.
Queues ==
  /\ fds["client"] \in Seq(Resource)
  /\ \E S : inbound["client"] \in Seq(S)
  /\ fds = [e \in End |-> fds[e]] /\ inbound = [e \in End |-> inbound[e]]
  /\ incoming = [e \in End |-> incoming[e]]
DescriptorInv == Queues /\ EachDescriptorOnce

-------------------------------------------------------------------------------
(* Sequences *)

LEMMA Appended ==
  ASSUME NEW S, NEW s \in Seq(S), NEW x
  PROVE  /\ Append(s, x) \in Seq(S \cup {x}) /\ DOMAIN Append(s, x) = DOMAIN s \cup {Len(s) + 1}
         /\ \A k \in DOMAIN s : Append(s, x)[k] = s[k]
         /\ Append(s, x)[Len(s) + 1] = x /\ Len(s) + 1 \notin DOMAIN s
<1>1. s \in Seq(S \cup {x}) /\ x \in S \cup {x} /\ Len(s) \in Nat /\ DOMAIN s = 1 .. Len(s)
  OBVIOUS
<1>2. /\ Append(s, x) \in Seq(S \cup {x}) /\ Len(Append(s, x)) = Len(s) + 1
      /\ \A k \in 1 .. Len(s) : Append(s, x)[k] = s[k]
      /\ Append(s, x)[Len(s) + 1] = x
  BY <1>1
<1>3. DOMAIN Append(s, x) = 1 .. Len(s) + 1
  BY <1>2
<1> QED
  BY <1>1, <1>2, <1>3

LEMMA Popped ==
  ASSUME NEW S, NEW s \in Seq(S), s # << >>
  PROVE  /\ Tail(s) \in Seq(S) /\ 1 \in DOMAIN s /\ Head(s) = s[1] /\ Head(s) \in S
         /\ \A k \in DOMAIN Tail(s) : k + 1 \in DOMAIN s /\ k + 1 # 1 /\ Tail(s)[k] = s[k + 1] /\ k \in Nat
         /\ \A k \in DOMAIN s : k # 1 => k - 1 \in DOMAIN Tail(s) /\ Tail(s)[k - 1] = s[k]
<1>1. /\ Len(s) \in Nat \ {0} /\ DOMAIN s = 1 .. Len(s) /\ Head(s) = s[1] /\ Head(s) \in S
      /\ Tail(s) \in Seq(S) /\ Len(Tail(s)) = Len(s) - 1 /\ DOMAIN Tail(s) = 1 .. Len(s) - 1
  OBVIOUS
<1>2. \A k \in 1 .. Len(s) - 1 : Tail(s)[k] = s[k + 1]
  OBVIOUS
<1>3. \A k \in 1 .. Len(s) - 1 : k \in Nat /\ k + 1 \in 1 .. Len(s) /\ k + 1 # 1
  BY <1>1
<1>4. \A k \in 1 .. Len(s) : k # 1 => k - 1 \in 1 .. Len(s) - 1 /\ (k - 1) + 1 = k
  BY <1>1
<1> QED
  BY <1>1, <1>2, <1>3, <1>4

LEMMA Dequeued ==
  ASSUME NEW S, NEW s \in Seq(S), s # << >>, \A j, k \in DOMAIN s : s[j] = s[k] => j = k
  PROVE  /\ Range(Tail(s)) = Range(s) \ {Head(s)} /\ Head(s) \in Range(s)
         /\ \A j, k \in DOMAIN Tail(s) : Tail(s)[j] = Tail(s)[k] => j = k
<1> DEFINE t == Tail(s)
<1>1. /\ 1 \in DOMAIN s /\ Head(s) = s[1]
      /\ \A k \in DOMAIN t : k + 1 \in DOMAIN s /\ k + 1 # 1 /\ t[k] = s[k + 1] /\ k \in Nat
      /\ \A k \in DOMAIN s : k # 1 => k - 1 \in DOMAIN t /\ t[k - 1] = s[k]
  BY Popped
<1> HIDE DEF t
<1>2. \A j, k \in DOMAIN t : t[j] = t[k] => j = k
  <2> SUFFICES ASSUME NEW j \in DOMAIN t, NEW k \in DOMAIN t, t[j] = t[k] PROVE j = k
    OBVIOUS
  <2>1. j + 1 = k + 1 /\ j \in Nat /\ k \in Nat
    BY <1>1
  <2> QED
    BY <2>1
<1>3. Range(t) \subseteq Range(s) \ {Head(s)}
  <2> SUFFICES ASSUME NEW k \in DOMAIN t PROVE t[k] \in Range(s) \ {Head(s)}
    BY DEF Range
  <2>1. k + 1 \in DOMAIN s /\ k + 1 # 1 /\ t[k] = s[k + 1]
    BY <1>1
  <2>2. s[k + 1] # s[1]
    BY <1>1, <2>1
  <2> QED
    BY <1>1, <2>1, <2>2 DEF Range
<1>4. Range(s) \ {Head(s)} \subseteq Range(t)
  <2> SUFFICES ASSUME NEW x \in Range(s), x # Head(s) PROVE x \in Range(t)
    OBVIOUS
  <2>1. PICK k \in DOMAIN s : x = s[k]
    BY DEF Range
  <2>2. k - 1 \in DOMAIN t /\ t[k - 1] = x
    BY <1>1, <2>1
  <2> QED
    BY <2>2 DEF Range
<1> QED
  BY <1>1, <1>2, <1>3, <1>4 DEF Range, t

\* A descriptor that is taken from the queue, and one that goes on with its message.
LEMMA Moves ==
  ASSUME NEW W, NEW R, NEW H, NEW A, NEW x, NEW none, R \subseteq {x}, x = none \/ x \in W \cup R,
         none \notin W \cup R \cup H,
         R \cap (W \cup H \cup A) = {}, W \cap (H \cup A) = {}, H \cap A = {}
  PROVE  /\ W \cup R \cup H \cup A = (W \ {x}) \cup ({x} \ {none}) \cup H \cup A
         /\ ({x} \ {none}) \cap ((W \ {x}) \cup H \cup A) = {}
         /\ (W \ {x}) \cap (H \cup ({x} \ {none}) \cup A) = {}
         /\ (H \cup ({x} \ {none})) \cap A = {}
OBVIOUS

-------------------------------------------------------------------------------
(* The steps *)

\* What a message got leaves it its descriptor.
LEMMA KeepsItsDescriptor ==
  ASSUME NEW c, NEW buf, NEW before, NEW h, NEW r, r = AfterHeaders(c, buf, before)
  PROVE  FromBuffer(r, h, buf).after.fd = c.fd /\ FromBuffer(r, h, buf).after # NoMessage
<1>1. r.fd = c.fd
  BY DEF AfterHeaders, ReadHeaders
<1>2. FromBuffer(r, h, buf).after.fd = r.fd
  BY DEF FromBuffer
<1>3. "body" \in DOMAIN FromBuffer(r, h, buf).after
  BY DEF FromBuffer
<1>4. "body" \notin DOMAIN NoMessage
  BY DEF NoMessage
<1> QED
  BY <1>1, <1>2, <1>3, <1>4

\* The descriptors of the client are kept by what leaves its parts alone.
LEMMA ClientKept ==
  ASSUME DescriptorInv, Queues', fds'["client"] = fds["client"], incoming'["client"] = incoming["client"],
         inbound'["client"] = inbound["client"], asked' = asked, answers' = answers
  PROVE  DescriptorInv'
BY DEF DescriptorInv, EachDescriptorOnce, Waiting, Read, Handed

LEMMA SendKeeps ==
  ASSUME DescriptorInv, NEW r \in Resource, SendRequest(r)
  PROVE  DescriptorInv'
<1> DEFINE q == fds["client"]
<1>1. /\ r \notin asked /\ asked' = asked \cup {r} /\ UNCHANGED <<incoming, inbound, answers>>
      /\ fds' = [fds EXCEPT !["client"] = Append(q, r)] /\ q \in Seq(Resource) /\ "client" \in End
  BY DEF SendRequest, PushMessage, recvVars, DescriptorInv, Queues, End
<1>2. fds'["client"] = Append(q, r) /\ fds' = [e \in End |-> fds'[e]]
  BY <1>1 DEF DescriptorInv, Queues
<1>3. /\ Append(q, r) \in Seq(Resource \cup {r}) /\ DOMAIN Append(q, r) = DOMAIN q \cup {Len(q) + 1}
      /\ \A k \in DOMAIN q : Append(q, r)[k] = q[k]
      /\ Append(q, r)[Len(q) + 1] = r /\ Len(q) + 1 \notin DOMAIN q
  BY <1>1, Appended
<1>4. Resource \cup {r} = Resource
  OBVIOUS
<1>5. Queues'
  BY <1>1, <1>2, <1>3, <1>4 DEF DescriptorInv, Queues
<1> HIDE DEF q
<1>6. Waiting' = Waiting \cup {r}
  BY <1>2, <1>3 DEF Waiting, Range, q
<1>7. Read' = Read /\ Handed' = Handed
  BY <1>1 DEF Read, Handed
<1>8. r \notin Waiting \cup Read \cup Handed \cup DOMAIN answers
  BY <1>1 DEF DescriptorInv, EachDescriptorOnce
<1>9. \A j, k \in DOMAIN fds'["client"] : fds'["client"][j] = fds'["client"][k] => j = k
  <2>1. \A k \in DOMAIN q : q[k] # r
    BY <1>8 DEF Waiting, Range, q
  <2> QED
    BY <1>2, <1>3, <2>1 DEF DescriptorInv, EachDescriptorOnce, q
<1>10. EachDescriptorOnce'
  BY <1>1, <1>6, <1>7, <1>8, <1>9 DEF DescriptorInv, EachDescriptorOnce
<1> QED
  BY <1>5, <1>10 DEF DescriptorInv

\* The server's descriptors are none of the client's.
LEMMA RequestKeeps ==
  ASSUME DescriptorInv, HandleRequest
  PROVE  DescriptorInv'
<1>1. /\ UNCHANGED <<incoming, asked, answers>>
      /\ inbound' = [inbound EXCEPT !["server"] = Tail(inbound["server"])]
      /\ fds' = fds \/ \E x : fds' = [fds EXCEPT !["server"] = x]
  BY DEF HandleRequest, PushMessage, userVars
<1>2. "client" # "server" /\ "client" \in End
  BY DEF End
<1>3. fds'["client"] = fds["client"] /\ inbound'["client"] = inbound["client"]
  BY <1>1, <1>2 DEF DescriptorInv, Queues
<1>4. fds' = [e \in End |-> fds'[e]] /\ inbound' = [e \in End |-> inbound'[e]]
  BY <1>1 DEF DescriptorInv, Queues
<1>5. Queues'
  BY <1>1, <1>3, <1>4 DEF DescriptorInv, Queues
<1> QED
  BY <1>1, <1>3, <1>5, ClientKept

LEMMA ResponseKeeps ==
  ASSUME DescriptorInv, HandleResponse
  PROVE  DescriptorInv'
<1> DEFINE q == inbound["client"]
           m == Head(q)
<1>1. /\ q # << >> /\ inbound' = [inbound EXCEPT !["client"] = Tail(q)]
      /\ UNCHANGED <<fds, incoming, asked>>
      /\ DOMAIN answers' = DOMAIN answers \cup ({m.fd} \ {None})
      /\ "client" \in End
  BY DEF HandleResponse, End
<1>2. PICK S : q \in Seq(S)
  BY DEF DescriptorInv, Queues
<1>3. /\ Tail(q) \in Seq(S) /\ 1 \in DOMAIN q /\ m = q[1]
      /\ \A k \in DOMAIN Tail(q) : k + 1 \in DOMAIN q /\ k + 1 # 1 /\ Tail(q)[k] = q[k + 1] /\ k \in Nat
      /\ \A k \in DOMAIN q : k # 1 => k - 1 \in DOMAIN Tail(q) /\ Tail(q)[k - 1] = q[k]
  BY <1>1, <1>2, Popped
<1>4. inbound'["client"] = Tail(q) /\ inbound' = [e \in End |-> inbound'[e]]
  BY <1>1 DEF DescriptorInv, Queues
<1>5. Queues'
  BY <1>1, <1>3, <1>4 DEF DescriptorInv, Queues
<1> DEFINE t == Tail(q)
<1> HIDE DEF q, m, t
<1>6. /\ \A j, k \in DOMAIN q : q[j].fd = q[k].fd => j = k \/ q[k].fd = None
      /\ Handed = {q[k].fd : k \in DOMAIN q} \ {None} /\ Handed' = {t[k].fd : k \in DOMAIN t} \ {None}
  BY <1>4 DEF DescriptorInv, EachDescriptorOnce, Handed, q, t
<1>7. /\ \A k \in DOMAIN t : k + 1 \in DOMAIN q /\ k + 1 # 1 /\ t[k] = q[k + 1] /\ k \in Nat
      /\ \A k \in DOMAIN q : k # 1 => k - 1 \in DOMAIN t /\ t[k - 1] = q[k]
      /\ 1 \in DOMAIN q /\ m = q[1]
  BY <1>3 DEF t
<1>8. Handed = Handed' \cup ({m.fd} \ {None})
  BY <1>6, <1>7
<1>9. m.fd \notin Handed'
  BY <1>6, <1>7
<1>10. \A j, k \in DOMAIN t : t[j].fd = t[k].fd => j = k \/ t[k].fd = None
  BY <1>6, <1>7
<1>11. Waiting' = Waiting /\ Read' = Read
  BY <1>1 DEF Waiting, Read
<1>12. EachDescriptorOnce'
  BY <1>1, <1>4, <1>8, <1>9, <1>10, <1>11 DEF DescriptorInv, EachDescriptorOnce, t
<1> QED
  BY <1>5, <1>12 DEF DescriptorInv

\* A message that is begun takes the oldest descriptor there is, and one that is read whole
\* carries it on.
Taken == Incoming("client").fd

LEMMA BegunTakes ==
  ASSUME DescriptorInv,
         fds' = IF incoming["client"] = NoMessage /\ fds["client"] # << >>
                THEN [fds EXCEPT !["client"] = Tail(fds["client"])] ELSE fds
  PROVE  /\ fds'["client"] \in Seq(Resource)
         /\ Waiting' = Waiting \ {Taken} /\ Read \subseteq {Taken}
         /\ Taken = None \/ Taken \in Waiting \cup Read
         /\ \A j, k \in DOMAIN fds'["client"] : fds'["client"][j] = fds'["client"][k] => j = k
<1> DEFINE p == fds["client"]
           q == fds'["client"]
<1>1. /\ p \in Seq(Resource) /\ "client" \in End /\ fds' = [e \in End |-> fds'[e]]
      /\ \A j, k \in DOMAIN p : p[j] = p[k] => j = k
  BY DEF DescriptorInv, Queues, EachDescriptorOnce, End
<1>2. Waiting = Range(p) /\ Waiting' = Range(q)
  BY DEF Waiting
<1>3. CASE incoming["client"] # NoMessage
  <2>1. q = p /\ Taken = incoming["client"].fd /\ Read = {Taken} \ {None}
    BY <1>3 DEF Taken, Incoming, Read
  <2>2. Taken = None \/ Taken \in Read
    BY <2>1
  <2>3. Taken \notin Waiting
    <3>1. None \notin Resource /\ Waiting \subseteq Resource
      BY <1>1, <1>2, DescriptorAssumption DEF Range
    <3> QED
      BY <2>2, <3>1 DEF DescriptorInv, EachDescriptorOnce
  <2> QED
    BY <1>1, <1>2, <2>1, <2>2, <2>3
<1>4. CASE incoming["client"] = NoMessage /\ p = << >>
  <2>1. q = p /\ Taken = None /\ Read = {}
    BY <1>4 DEF Taken, Incoming, Read, Fresh, ResponseFd
  <2>2. Waiting = {} /\ Waiting' = {}
    BY <1>2, <1>4, <2>1 DEF Range
  <2> QED
    BY <1>1, <2>1, <2>2
<1>5. CASE incoming["client"] = NoMessage /\ p # << >>
  <2>1. q = Tail(p) /\ Taken = Head(p) /\ Read = {}
    <3>1. q = Tail(p)
      BY <1>1, <1>5 DEF DescriptorInv, Queues
    <3>2. Taken = Head(p) /\ Read = {}
      BY <1>5 DEF Taken, Incoming, Read, Fresh, ResponseFd
    <3> QED
      BY <3>1, <3>2
  <2>2. Tail(p) \in Seq(Resource)
    BY <1>1, <1>5, Popped
  <2>3. /\ Range(Tail(p)) = Range(p) \ {Head(p)} /\ Head(p) \in Range(p)
        /\ \A j, k \in DOMAIN Tail(p) : Tail(p)[j] = Tail(p)[k] => j = k
    BY <1>1, <1>5, Dequeued
  <2> HIDE DEF p
  <2> QED
    BY <1>1, <1>2, <2>1, <2>2, <2>3
<1> QED
  BY <1>3, <1>4, <1>5

LEMMA ParseKeeps ==
  ASSUME DescriptorInv, NEW e \in End, Buffer2Message(e)
  PROVE  DescriptorInv'
<1> DEFINE r == AfterHeaders(Incoming(e), doing.rest, doing.before)
           got == FromBuffer(r, HeadUsed(Incoming(e), r, doing.rest), doing.rest).after
<1>1. /\ fds' = IF incoming[e] = NoMessage /\ fds[e] # << >> THEN [fds EXCEPT ![e] = Tail(fds[e])] ELSE fds
      /\ \/ /\ inbound' = [inbound EXCEPT ![e] = Append(inbound[e], got)]
            /\ incoming' = [incoming EXCEPT ![e] = NoMessage]
         \/ incoming' = [incoming EXCEPT ![e] = got] /\ UNCHANGED inbound
      /\ UNCHANGED <<asked, answers>>
  BY DEF Buffer2Message, userVars
<1>2. got.fd = Incoming(e).fd /\ got # NoMessage
  <2>1. \A h : FromBuffer(r, h, doing.rest).after.fd = Incoming(e).fd /\ FromBuffer(r, h, doing.rest).after # NoMessage
    BY KeepsItsDescriptor
  <2> QED
    BY <2>1
<1> HIDE DEF got, r
<1>3. /\ fds = [d \in End |-> fds[d]] /\ inbound = [d \in End |-> inbound[d]]
      /\ incoming = [d \in End |-> incoming[d]] /\ "client" \in End
      /\ fds' = [d \in End |-> fds'[d]] /\ inbound' = [d \in End |-> inbound'[d]]
      /\ incoming' = [d \in End |-> incoming'[d]]
  BY <1>1 DEF DescriptorInv, Queues, End
<1>4. CASE e # "client"
  <2>1. /\ fds'["client"] = fds["client"] /\ incoming'["client"] = incoming["client"]
        /\ inbound'["client"] = inbound["client"]
    BY <1>1, <1>3, <1>4
  <2>2. Queues'
    BY <1>3, <2>1 DEF DescriptorInv, Queues
  <2> QED
    BY <1>1, <2>1, <2>2, ClientKept
<1>5. CASE e = "client"
  <2>2. /\ fds'["client"] \in Seq(Resource)
        /\ Waiting' = Waiting \ {Taken} /\ Read \subseteq {Taken}
        /\ Taken = None \/ Taken \in Waiting \cup Read
        /\ \A j, k \in DOMAIN fds'["client"] : fds'["client"][j] = fds'["client"][k] => j = k
    <3>1. fds' = IF incoming["client"] = NoMessage /\ fds["client"] # << >>
                 THEN [fds EXCEPT !["client"] = Tail(fds["client"])] ELSE fds
      BY <1>1, <1>5
    <3> QED
      BY <3>1, BegunTakes
  <2>3. /\ asked = Waiting' \cup ({Taken} \ {None}) \cup Handed \cup DOMAIN answers
        /\ ({Taken} \ {None}) \cap (Waiting' \cup Handed \cup DOMAIN answers) = {}
        /\ Waiting' \cap (Handed \cup ({Taken} \ {None}) \cup DOMAIN answers) = {}
        /\ (Handed \cup ({Taken} \ {None})) \cap DOMAIN answers = {}
    <3>1. None \notin Waiting \cup Read \cup Handed
      <4>1. None \notin Resource /\ Waiting \subseteq Resource
        BY DescriptorAssumption DEF DescriptorInv, Queues, Waiting, Range
      <4> QED
        BY <4>1 DEF Read, Handed
    <3> QED
      BY <2>2, <3>1, Moves DEF DescriptorInv, EachDescriptorOnce
  <2>4. got.fd = Taken
    BY <1>2, <1>5 DEF Taken
  <2>5. CASE incoming' = [incoming EXCEPT !["client"] = got] /\ UNCHANGED inbound
    <3>1. incoming'["client"] = got
      BY <1>3, <2>5
    <3>2. Read' = {Taken} \ {None} /\ Handed' = Handed
      BY <1>2, <2>4, <2>5, <3>1 DEF Read, Handed
    <3>3. Queues'
      BY <1>3, <2>2, <2>5 DEF DescriptorInv, Queues
    <3>4. EachDescriptorOnce'
      <4>1. /\ asked' = Waiting' \cup Read' \cup Handed' \cup DOMAIN answers'
            /\ Read' \cap (Waiting' \cup Handed' \cup DOMAIN answers') = {}
            /\ Waiting' \cap (Handed' \cup DOMAIN answers') = {} /\ Handed' \cap DOMAIN answers' = {}
        BY <1>1, <2>3, <3>2
      <4> QED
        BY <2>2, <2>5, <4>1 DEF DescriptorInv, EachDescriptorOnce
    <3> QED
      BY <3>3, <3>4 DEF DescriptorInv
  <2>6. CASE /\ inbound' = [inbound EXCEPT !["client"] = Append(inbound["client"], got)]
             /\ incoming' = [incoming EXCEPT !["client"] = NoMessage]
    <3> DEFINE s == inbound["client"]
               t == Append(s, got)
    <3>1. incoming'["client"] = NoMessage /\ inbound'["client"] = t
      BY <1>3, <2>6
    <3>2. PICK S : s \in Seq(S)
      BY DEF DescriptorInv, Queues
    <3>3. /\ t \in Seq(S \cup {got}) /\ DOMAIN t = DOMAIN s \cup {Len(s) + 1}
          /\ \A k \in DOMAIN s : t[k] = s[k]
          /\ t[Len(s) + 1] = got /\ Len(s) + 1 \notin DOMAIN s
      BY <3>2, Appended
    <3>4. Queues'
      BY <1>3, <2>2, <3>1, <3>3 DEF Queues
    <3> HIDE DEF s, t
    <3>5. /\ Handed = {s[k].fd : k \in DOMAIN s} \ {None} /\ Handed' = {t[k].fd : k \in DOMAIN t} \ {None}
          /\ \A j, k \in DOMAIN s : s[j].fd = s[k].fd => j = k \/ s[k].fd = None
      BY <3>1 DEF Handed, DescriptorInv, EachDescriptorOnce, s
    <3>6. Handed' = Handed \cup ({Taken} \ {None}) /\ Read' = {}
      <4>1. Read' = {}
        BY <3>1 DEF Read
      <4> QED
        BY <2>4, <3>3, <3>5, <4>1
    <3>7. Taken = None \/ Taken \notin Handed
      BY <2>2 DEF DescriptorInv, EachDescriptorOnce
    <3>8. \A j, k \in DOMAIN t : t[j].fd = t[k].fd => j = k \/ t[k].fd = None
      <4>1. \A k \in DOMAIN s : s[k].fd = Taken => Taken = None
        BY <3>5, <3>7
      <4> QED
        BY <2>4, <3>3, <3>5, <4>1
    <3>9. EachDescriptorOnce'
      <4>1. /\ asked' = Waiting' \cup Read' \cup Handed' \cup DOMAIN answers'
            /\ Read' \cap (Waiting' \cup Handed' \cup DOMAIN answers') = {}
            /\ Waiting' \cap (Handed' \cup DOMAIN answers') = {} /\ Handed' \cap DOMAIN answers' = {}
        BY <1>1, <2>3, <3>6
      <4> QED
        BY <2>2, <3>1, <3>8, <4>1 DEF EachDescriptorOnce
    <3> QED
      BY <3>4, <3>9 DEF DescriptorInv
  <2> QED
    BY <1>1, <1>5, <2>5, <2>6
<1> QED
  BY <1>4, <1>5

-------------------------------------------------------------------------------
(* The theorem *)

LEMMA BeginsWithDescriptors == Init => DescriptorInv
<1> SUFFICES ASSUME Init PROVE DescriptorInv
  OBVIOUS
<1>1. /\ "client" \in End /\ asked = {} /\ answers = << >>
      /\ fds["client"] = << >> /\ inbound["client"] = << >> /\ incoming["client"] = NoMessage
  BY DEF Init, End
<1>2. << >> \in Seq(Resource) /\ << >> \in Seq({})
  OBVIOUS
<1>3. Queues
  BY <1>1, <1>2 DEF Init, Queues
<1>4. Waiting = {} /\ Read = {} /\ Handed = {} /\ DOMAIN answers = {}
  BY <1>1 DEF Waiting, Read, Handed, Range
<1> QED
  BY <1>1, <1>3, <1>4 DEF DescriptorInv, EachDescriptorOnce

LEMMA StepKeepsDescriptors == DescriptorInv /\ [Next]_vars => DescriptorInv'
<1> SUFFICES ASSUME DescriptorInv, [Next]_vars PROVE DescriptorInv'
  OBVIOUS
<1>1. ASSUME UNCHANGED <<fds, incoming, inbound, asked, answers>> PROVE DescriptorInv'
  <2>1. Queues'
    BY <1>1 DEF DescriptorInv, Queues
  <2> QED
    BY <1>1, <2>1, ClientKept
<1>2. CASE UNCHANGED vars
  BY <1>1, <1>2 DEF vars, recvVars, userVars
<1>3. ASSUME NEW e \in End, Turn(e) PROVE DescriptorInv'
  <2>1. CASE Message2Buffer(e) \/ FilledUp(e) \/ BytesTransferred(e) \/ Confirmed(e)
    BY <1>1, <2>1 DEF Message2Buffer, FilledUp, BytesTransferred, Confirmed, recvVars, userVars
  <2>2. CASE Parsed(e)
    BY <1>1, <2>2 DEF Parsed, recvVars, userVars
  <2> QED
    BY <1>3, <2>1, <2>2, ParseKeeps DEF Turn
<1>4. ASSUME NEW e \in End, Transmit(e) \/ SendCallback(e) \/ Receive(e) PROVE DescriptorInv'
  BY <1>1, <1>4 DEF Transmit, SendCallback, Receive, recvVars, userVars
<1>5. ASSUME NEW r \in Resource, SendRequest(r) PROVE DescriptorInv'
  BY <1>5, SendKeeps
<1>6. ASSUME HandleRequest \/ HandleResponse PROVE DescriptorInv'
  BY <1>6, RequestKeeps, ResponseKeeps
<1> QED
  BY <1>2, <1>3, <1>4, <1>5, <1>6 DEF Next

\* Every request's descriptor waits, is with one message or was answered, for any number of
\* requests out at a time: a message takes the oldest one when it is begun and keeps it
\* (http/Protocol.cpp:34-35, 125-136, 142-153), also where the parser loses its way.
THEOREM DescriptorsKept == Spec => []EachDescriptorOnce
<1>1. DescriptorInv => EachDescriptorOnce
  BY DEF DescriptorInv
<1> QED
  BY <1>1, BeginsWithDescriptors, StepKeepsDescriptors, PTL DEF Spec

===============================================================================
