--------------------------- MODULE Connection_proofs ---------------------------
(***************************************************************************)
(* Theorems about Connection, for every number of crawlers, addresses and  *)
(* threads of a crawler, and whatever of Conduct happens.                  *)
(***************************************************************************)
EXTENDS Connection, FiniteSetTheorems, TLAPS

Past == {"open", "left", "failed"}
Phase == {"resolving", "connecting", "connected"} \cup Past
Incoming == {"INVALID_ID", "REGISTER_CRAWLER", "END_CRAWL"}
Outgoing == {"INVALID_ID", "BEGIN_CRAWL"}

TypeOK ==
  /\ phase \in [Crawler -> Phase]
  /\ backlog \in Seq(Crawler) /\ listening \in BOOLEAN
  /\ socket \in [Crawler -> {"none", "open", "closed"}]
  /\ reset \in [Crawler -> BOOLEAN]
  /\ toSched \in [Crawler -> Seq({"REGISTER_CRAWLER", "END_CRAWL"})]
  /\ inbox \in [Crawler -> Seq({"REGISTER_CRAWLER", "END_CRAWL"})]
  /\ toCrawl \in [Crawler -> Seq(Batches)]
  /\ handler \in [Crawler -> {"idle", "queued", "session"}]
  /\ registered \in [Crawler -> {"no", "queued", "session"}]
  /\ context \in [Crawler -> [in : Incoming, out : Outgoing]]
  /\ crawlContext \in [Crawler -> [in : Outgoing, out : Incoming]]
  /\ owed \in [Crawler -> Nat]
  /\ fault \in {"none", "ReadError", "DialogError"}

\* The initial states have their types.
LEMMA InitTypes == Init => TypeOK
BY DEF Init, TypeOK, Phase, Incoming, Outgoing, NoDialog

\* A message that comes or goes changes one side of a session's msg_context.
LEMMA ContextTypes ==
  ASSUME NEW S, NEW T, NEW f \in [Crawler -> [in : S, out : T]], NEW c \in Crawler
  PROVE  /\ \A m \in S : [f EXCEPT ![c].in = m] \in [Crawler -> [in : S, out : T]]
         /\ \A m \in T : [f EXCEPT ![c].out = m] \in [Crawler -> [in : S, out : T]]
OBVIOUS

\* Every step of every action keeps the types.
LEMMA Types == TypeOK /\ [Next]_vars => TypeOK'
<1> SUFFICES ASSUME TypeOK, [Next]_vars PROVE TypeOK'
  OBVIOUS
<1> USE DEF Phase, Past, Incoming, Outgoing
<1>1. CASE Accept
  <2>1. Head(backlog) \in Crawler /\ Tail(backlog) \in Seq(Crawler)
    BY <1>1 DEF Accept, TypeOK
  <2> QED
    BY <1>1, <2>1 DEF Accept, StartEndpoint, TypeOK, clientVars
<1>2. CASE AcceptFails
  <2>1. reset' \in [Crawler -> BOOLEAN]
    <3> DEFINE Dropped(c) == reset[c] \/ \E k \in DOMAIN backlog : backlog[k] = c
    <3>1. \A c \in Crawler : Dropped(c) \in BOOLEAN
      BY DEF TypeOK
    <3>2. reset' = [c \in Crawler |-> Dropped(c)]
      BY <1>2 DEF AcceptFails
    <3> HIDE DEF Dropped
    <3> QED
      BY <3>1, <3>2
  <2>2. backlog' \in Seq(Crawler) /\ listening' \in BOOLEAN
    <3>1. backlog' = << >>
      BY <1>2 DEF AcceptFails
    <3>2. listening' = FALSE
      BY <1>2 DEF AcceptFails
    <3>3. << >> \in Seq(Crawler) /\ FALSE \in BOOLEAN
      OBVIOUS
    <3> QED
      BY <3>1, <3>2, <3>3
  <2> QED
    BY <1>2, <2>1, <2>2 DEF AcceptFails, TypeOK, clientVars
<1>3. ASSUME NEW c \in Crawler, Connecting(c) PROVE TypeOK'
  <2>1. CASE Resolved(c)
    BY <2>1 DEF Resolved, TypeOK, serverVars
  <2>2. CASE NotResolved(c)
    BY <2>2 DEF NotResolved, TypeOK, serverVars
  <2>3. CASE Handshake(c)
    BY <2>3 DEF Handshake, TypeOK, serverVars
  <2>4. CASE Connected(c)
    <3>1. crawlContext' \in [Crawler -> [in : Outgoing, out : Incoming]]
      BY <2>4, ContextTypes DEF Connected, SendToSched, TypeOK
    <3> QED
      BY <2>4, <3>1 DEF Connected, SendToSched, TypeOK, serverVars
  <2>5. CASE Refused(c)
    BY <2>5 DEF Refused, NextAddress, TypeOK, serverVars
  <2>6. CASE CrawlerReset(c)
    BY <2>6 DEF CrawlerReset, TypeOK, serverVars
  <2> QED
    BY <1>3, <2>1, <2>2, <2>3, <2>4, <2>5, <2>6 DEF Connecting
<1>4. ASSUME NEW c \in Crawler, Leave(c) PROVE TypeOK'
  BY <1>4 DEF Leave, TypeOK, serverVars
<1>5. ASSUME NEW c \in Crawler, HandleBegin(c) PROVE TypeOK'
  <2>1. toCrawl' \in [Crawler -> Seq(Batches)]
    BY <1>5 DEF HandleBegin, TypeOK
  <2>2. crawlContext' \in [Crawler -> [in : Outgoing, out : Incoming]]
    <3>1. crawlContext \in [Crawler -> [in : Outgoing, out : Incoming]] /\ "BEGIN_CRAWL" \in Outgoing
      BY DEF TypeOK
    <3>2. [crawlContext EXCEPT ![c].in = "BEGIN_CRAWL"] \in [Crawler -> [in : Outgoing, out : Incoming]]
      BY <3>1, ContextTypes
    <3> QED
      BY <1>5, <3>1, <3>2 DEF HandleBegin
  <2>3. owed' \in [Crawler -> Nat]
    <3>1. owed' = owed \/ owed' = [owed EXCEPT ![c] = @ + 1]
      BY <1>5 DEF HandleBegin
    <3>2. owed \in [Crawler -> Nat]
      BY DEF TypeOK
    <3> QED
      BY <3>1, <3>2
  <2>4. phase' \in [Crawler -> Phase]
    <3>1. phase' = phase \/ phase' = [phase EXCEPT ![c] = "failed"]
      BY <1>5 DEF HandleBegin
    <3> QED
      BY <3>1 DEF TypeOK
  <2> QED
    BY <1>5, <2>1, <2>2, <2>3, <2>4 DEF HandleBegin, TypeOK, serverVars
<1>6. ASSUME NEW c \in Crawler, EndCrawl(c) PROVE TypeOK'
  <2>1. crawlContext' \in [Crawler -> [in : Outgoing, out : Incoming]]
    BY <1>6, ContextTypes DEF EndCrawl, SendToSched, TypeOK
  <2>2. owed' \in [Crawler -> Nat]
    BY <1>6 DEF EndCrawl, TypeOK
  <2>3. toSched' \in [Crawler -> Seq({"REGISTER_CRAWLER", "END_CRAWL"})]
    BY <1>6 DEF EndCrawl, SendToSched, TypeOK
  <2> QED
    BY <1>6, <2>1, <2>2, <2>3 DEF EndCrawl, SendToSched, TypeOK, serverVars
<1>7. ASSUME NEW c \in Crawler, Receive(c) PROVE TypeOK'
  <2>1. /\ Head(toSched[c]) \in {"REGISTER_CRAWLER", "END_CRAWL"}
        /\ Tail(toSched[c]) \in Seq({"REGISTER_CRAWLER", "END_CRAWL"})
    BY <1>7 DEF Receive, TypeOK
  <2> QED
    BY <1>7, <2>1 DEF Receive, TypeOK, clientVars
<1>8. ASSUME NEW c \in Crawler, ReceiveError(c) PROVE TypeOK'
  BY <1>8 DEF ReceiveError, Error, TypeOK, clientVars
<1>9. ASSUME NEW c \in Crawler, Handling(c) PROVE TypeOK'
  <2>1. inbox[c] # << >> => Tail(inbox[c]) \in Seq({"REGISTER_CRAWLER", "END_CRAWL"})
    BY DEF TypeOK
  <2>2. CASE HandleRegister(c)
    BY <2>1, <2>2 DEF HandleRegister, Popped, Reject, TypeOK, clientVars
  <2>3. CASE SetSession(c)
    BY <2>3 DEF SetSession, TypeOK, clientVars
  <2>4. CASE RegisterHandled(c)
    <3>1. context' \in [Crawler -> [in : Incoming, out : Outgoing]]
      BY <2>4, ContextTypes DEF RegisterHandled, TypeOK
    <3> QED
      BY <2>4, <3>1 DEF RegisterHandled, TypeOK, clientVars
  <2>5. CASE HandleEnd(c)
    <3>1. context \in [Crawler -> [in : Incoming, out : Outgoing]] /\ "END_CRAWL" \in Incoming
      BY DEF TypeOK
    <3>2. [context EXCEPT ![c].in = "END_CRAWL"] \in [Crawler -> [in : Incoming, out : Outgoing]]
      BY <3>1, ContextTypes
    <3>3. context' \in [Crawler -> [in : Incoming, out : Outgoing]]
      BY <2>5, <3>1, <3>2 DEF HandleEnd
    <3> QED
      BY <2>1, <2>5, <3>3 DEF HandleEnd, Popped, Reject, TypeOK, clientVars
  <2> QED
    BY <1>9, <2>2, <2>3, <2>4, <2>5 DEF Handling
<1>10. ASSUME NEW c \in Crawler, NEW n \in Batches, BeginCrawl(c, n) PROVE TypeOK'
  <2>1. context' \in [Crawler -> [in : Incoming, out : Outgoing]]
    BY <1>10, ContextTypes DEF BeginCrawl, TypeOK
  <2>2. toCrawl' \in [Crawler -> Seq(Batches)]
    <3>1. toCrawl' = toCrawl \/ toCrawl' = [toCrawl EXCEPT ![c] = Append(@, n)]
      BY <1>10 DEF BeginCrawl
    <3>2. toCrawl \in [Crawler -> Seq(Batches)]
      BY DEF TypeOK
    <3>3. Append(toCrawl[c], n) \in Seq(Batches)
      BY <3>2
    <3> QED
      BY <3>1, <3>2, <3>3
  <2>3. reset' \in [Crawler -> BOOLEAN]
    <3>1. reset' = reset \/ reset' = [reset EXCEPT ![c] = TRUE]
      BY <1>10 DEF BeginCrawl
    <3> QED
      BY <3>1 DEF TypeOK
  <2> QED
    BY <1>10, <2>1, <2>2, <2>3 DEF BeginCrawl, TypeOK, clientVars
<1>11. CASE UNCHANGED vars
  BY <1>11 DEF vars, clientVars, serverVars, TypeOK
<1> QED
  BY <1>1, <1>2, <1>3, <1>4, <1>5, <1>6, <1>7, <1>8, <1>9, <1>10, <1>11 DEF Next

-------------------------------------------------------------------------------
(* A crawler that is idle when it leaves *)

\* A connection the kernel holds for the scheduler is of a crawler that connected and
\* was not accepted, and there is one of each.
BacklogApart ==
  /\ \A j, k \in DOMAIN backlog : backlog[j] = backlog[k] => j = k
  /\ \A k \in DOMAIN backlog : socket[backlog[k]] = "none"
  /\ \A k \in DOMAIN backlog : phase[backlog[k]] \notin {"resolving", "connecting"}
  /\ \A c \in Crawler : phase[c] \in {"resolving", "connecting"} => socket[c] = "none"

\* Only the loss of the acceptor and a BEGIN_CRAWL on its way reset a connection.
ResetsExplained ==
  \A c \in Crawler :
    /\ toCrawl[c] # << >> => context[c].out = "BEGIN_CRAWL"
    /\ reset[c] => \/ socket[c] = "none" /\ ~listening
                  \/ context[c].out = "BEGIN_CRAWL"

LeaveInv == TypeOK /\ BacklogApart /\ ResetsExplained /\ IdleLeaveIsHarmless

\* The invariant of leaving holds at the start.
LEMMA InitLeave == Init => LeaveInv
<1> SUFFICES ASSUME Init PROVE LeaveInv
  OBVIOUS
<1>1. TypeOK
  BY InitTypes
<1>2. BacklogApart
  BY DEF Init, BacklogApart
<1>3. ResetsExplained
  BY DEF Init, ResetsExplained
<1>4. IdleLeaveIsHarmless
  BY DEF Init, IdleLeaveIsHarmless
<1> QED
  BY <1>1, <1>2, <1>3, <1>4 DEF LeaveInv

\* The backlog stays apart: only Handshake adds to it, and Accept takes its head.
LEMMA BacklogStep == TypeOK /\ BacklogApart /\ [Next]_vars => BacklogApart'
<1> SUFFICES ASSUME TypeOK, BacklogApart, [Next]_vars PROVE BacklogApart'
  OBVIOUS
<1>1. CASE Accept
  <2> DEFINE h == Head(backlog)
  <2>1. /\ backlog \in Seq(Crawler) /\ backlog # << >>
        /\ backlog' = Tail(backlog) /\ phase' = phase
        /\ socket' = [socket EXCEPT ![h] = "open"] /\ socket \in [Crawler -> {"none", "open", "closed"}]
    BY <1>1 DEF Accept, StartEndpoint, TypeOK, clientVars
  <2>2. /\ 1 \in DOMAIN backlog /\ h = backlog[1]
        /\ \A k \in DOMAIN backlog' : k + 1 \in DOMAIN backlog /\ k + 1 # 1 /\ backlog'[k] = backlog[k + 1]
    BY <2>1
  <2>3. \A k \in DOMAIN backlog' : backlog'[k] # h /\ backlog'[k] \in Crawler
    BY <2>1, <2>2 DEF BacklogApart
  <2>4. \A j, k \in DOMAIN backlog' : backlog'[j] = backlog'[k] => j = k
    <3> SUFFICES ASSUME NEW j \in DOMAIN backlog', NEW k \in DOMAIN backlog', backlog'[j] = backlog'[k]
                 PROVE  j = k
      OBVIOUS
    <3>1. j + 1 = k + 1
      BY <2>2 DEF BacklogApart
    <3>2. j \in Nat /\ k \in Nat
      BY <2>1
    <3> QED
      BY <3>1, <3>2
  <2>5. \A k \in DOMAIN backlog' : socket'[backlog'[k]] = "none"
    BY <2>1, <2>2, <2>3 DEF BacklogApart
  <2>6. \A k \in DOMAIN backlog' : phase'[backlog'[k]] \notin {"resolving", "connecting"}
    BY <2>1, <2>2 DEF BacklogApart
  <2>7. \A c \in Crawler : phase'[c] \in {"resolving", "connecting"} => socket'[c] = "none"
    BY <2>1, <2>2 DEF BacklogApart
  <2> QED
    BY <2>4, <2>5, <2>6, <2>7 DEF BacklogApart
<1>2. CASE AcceptFails
  <2>1. backlog' = << >> /\ socket' = socket /\ phase' = phase
    BY <1>2 DEF AcceptFails, clientVars
  <2> QED
    BY <2>1 DEF BacklogApart
<1>3. ASSUME NEW c \in Crawler, Handshake(c) PROVE BacklogApart'
  <2>1. /\ backlog \in Seq(Crawler) /\ backlog' = Append(backlog, c) /\ socket' = socket
        /\ phase[c] = "connecting" /\ phase' = [phase EXCEPT ![c] = "connected"]
        /\ phase \in [Crawler -> Phase]
    BY <1>3 DEF Handshake, TypeOK, serverVars
  <2>2. /\ \A k \in DOMAIN backlog : backlog'[k] = backlog[k] /\ backlog[k] # c
        /\ backlog'[Len(backlog) + 1] = c
        /\ DOMAIN backlog' = DOMAIN backlog \cup {Len(backlog) + 1}
    BY <2>1 DEF BacklogApart
  <2>3. phase'[c] = "connected" /\ \A d \in Crawler \ {c} : phase'[d] = phase[d]
    BY <2>1
  <2>4. \A j, k \in DOMAIN backlog' : backlog'[j] = backlog'[k] => j = k
    BY <2>2 DEF BacklogApart
  <2>5. socket[c] = "none"
    BY <2>1 DEF BacklogApart
  <2>6. \A k \in DOMAIN backlog' : socket'[backlog'[k]] = "none"
    BY <2>1, <2>2, <2>5 DEF BacklogApart
  <2>7. \A k \in DOMAIN backlog : backlog[k] \in Crawler \ {c}
    BY <2>1, <2>2
  <2>8. \A k \in DOMAIN backlog' : phase'[backlog'[k]] \notin {"resolving", "connecting"}
    BY <2>2, <2>3, <2>7 DEF BacklogApart
  <2>9. \A d \in Crawler : phase'[d] \in {"resolving", "connecting"} => socket'[d] = "none"
    BY <2>1, <2>3 DEF BacklogApart
  <2> QED
    BY <2>4, <2>6, <2>8, <2>9 DEF BacklogApart
<1>4. ASSUME NEW c \in Crawler, ReceiveError(c) PROVE BacklogApart'
  <2>1. /\ backlog' = backlog /\ phase' = phase /\ socket[c] = "open"
        /\ socket' = [socket EXCEPT ![c] = "closed"]
        /\ CrawlerGone(c) /\ socket \in [Crawler -> {"none", "open", "closed"}] /\ backlog \in Seq(Crawler)
    BY <1>4 DEF ReceiveError, clientVars, TypeOK
  <2>2. \A k \in DOMAIN backlog : backlog[k] \in Crawler \ {c}
    BY <2>1 DEF BacklogApart
  <2> QED
    BY <2>1, <2>2 DEF BacklogApart, CrawlerGone
<1>5. ASSUME backlog' = backlog, socket' = socket,
             \A d \in Crawler : phase'[d] \in {"resolving", "connecting"} => phase[d] \in {"resolving", "connecting"}
      PROVE  BacklogApart'
  <2>1. \A k \in DOMAIN backlog : backlog[k] \in Crawler
    BY DEF TypeOK
  <2> QED
    BY <1>5, <2>1 DEF BacklogApart
<1>6. ASSUME NEW c \in Crawler, Resolved(c) PROVE BacklogApart'
  BY <1>5, <1>6 DEF Resolved, serverVars, TypeOK
<1>7. ASSUME NEW c \in Crawler, NotResolved(c) PROVE BacklogApart'
  BY <1>5, <1>7 DEF NotResolved, serverVars, TypeOK
<1>8. ASSUME NEW c \in Crawler, Connected(c) PROVE BacklogApart'
  BY <1>5, <1>8 DEF Connected, serverVars, TypeOK
<1>9. ASSUME NEW c \in Crawler, Refused(c) PROVE BacklogApart'
  BY <1>5, <1>9 DEF Refused, NextAddress, serverVars, TypeOK
<1>10. ASSUME NEW c \in Crawler, CrawlerReset(c) PROVE BacklogApart'
  BY <1>5, <1>10 DEF CrawlerReset, serverVars, TypeOK
<1>11. ASSUME NEW c \in Crawler, Leave(c) PROVE BacklogApart'
  BY <1>5, <1>11 DEF Leave, serverVars, TypeOK
<1>12. ASSUME NEW c \in Crawler, HandleBegin(c) PROVE BacklogApart'
  <2>1. /\ backlog' = backlog /\ socket' = socket
        /\ phase' = phase \/ phase' = [phase EXCEPT ![c] = "failed"]
    BY <1>12 DEF HandleBegin, serverVars
  <2> QED
    BY <1>5, <2>1 DEF TypeOK
<1>13. ASSUME NEW c \in Crawler,
              \/ EndCrawl(c) \/ Receive(c) \/ Handling(c)
              \/ \E n \in Batches : BeginCrawl(c, n)
       PROVE  BacklogApart'
  <2>1. backlog' = backlog /\ socket' = socket /\ phase' = phase
    BY <1>13 DEF EndCrawl, Receive, Handling, HandleRegister, SetSession, RegisterHandled,
                 HandleEnd, BeginCrawl, clientVars, serverVars
  <2> QED
    BY <1>5, <2>1
<1>14. CASE UNCHANGED vars
  BY <1>5, <1>14 DEF vars, clientVars, serverVars
<1> QED
  BY <1>1, <1>2, <1>3, <1>4, <1>6, <1>7, <1>8, <1>9, <1>10, <1>11, <1>12, <1>13, <1>14 DEF Next, Connecting

\* What resets a connection stays explained.
LEMMA ResetStep == TypeOK /\ BacklogApart /\ ResetsExplained /\ [Next]_vars => ResetsExplained'
<1> SUFFICES ASSUME TypeOK, BacklogApart, ResetsExplained, [Next]_vars PROVE ResetsExplained'
  OBVIOUS
\* A step that leaves the sockets, the resets and the messages alone, and sends nothing.
<1>1. ASSUME toCrawl' = toCrawl, reset' = reset, socket' = socket, listening' = listening,
             \A d \in Crawler : context'[d].out = context[d].out
      PROVE  ResetsExplained'
  BY <1>1 DEF ResetsExplained
<1>2. CASE Accept
  <2>1. /\ listening /\ backlog # << >> /\ backlog \in Seq(Crawler)
        /\ socket' = [socket EXCEPT ![Head(backlog)] = "open"]
        /\ socket \in [Crawler -> {"none", "open", "closed"}]
        /\ toCrawl' = toCrawl /\ reset' = reset /\ context' = context
    BY <1>2 DEF Accept, StartEndpoint, TypeOK
  <2> QED
    BY <2>1 DEF ResetsExplained
<1>3. CASE AcceptFails
  <2>1. /\ listening' = FALSE /\ toCrawl' = toCrawl /\ context' = context /\ socket' = socket
        /\ \A c \in Crawler : reset'[c] <=> reset[c] \/ \E k \in DOMAIN backlog : backlog[k] = c
    BY <1>3 DEF AcceptFails, clientVars
  <2>2. ASSUME NEW c \in Crawler, reset'[c]
        PROVE  (socket[c] = "none" /\ listening' = FALSE) \/ context[c].out = "BEGIN_CRAWL"
    <3>1. CASE reset[c]
      BY <2>1, <3>1 DEF ResetsExplained
    <3>2. CASE \E k \in DOMAIN backlog : backlog[k] = c
      BY <2>1, <3>2 DEF BacklogApart
    <3> QED
      BY <2>1, <2>2, <3>1, <3>2
  <2> QED
    BY <2>1, <2>2 DEF ResetsExplained
<1>4. ASSUME NEW c \in Crawler, Connecting(c) PROVE ResetsExplained'
  <2>1. toCrawl' = toCrawl /\ reset' = reset /\ socket' = socket /\ listening' = listening /\ context' = context
    BY <1>4 DEF Connecting, Resolved, NotResolved, Handshake, Connected, Refused, CrawlerReset, serverVars
  <2> QED
    BY <1>1, <2>1
<1>5. ASSUME NEW c \in Crawler, Leave(c) PROVE ResetsExplained'
  <2>1. /\ toCrawl' = toCrawl /\ socket' = socket /\ listening' = listening /\ context' = context
        /\ reset' = [reset EXCEPT ![c] = toCrawl[c] # << >>] /\ reset \in [Crawler -> BOOLEAN]
    BY <1>5 DEF Leave, serverVars, TypeOK
  <2>2. reset'[c] => context[c].out = "BEGIN_CRAWL"
    BY <2>1 DEF ResetsExplained
  <2>3. \A d \in Crawler \ {c} : reset'[d] = reset[d]
    BY <2>1
  <2> QED
    BY <2>1, <2>2, <2>3 DEF ResetsExplained
<1>6. ASSUME NEW c \in Crawler, HandleBegin(c) PROVE ResetsExplained'
  <2>1. /\ toCrawl[c] # << >> /\ toCrawl' = [toCrawl EXCEPT ![c] = Tail(@)]
        /\ reset' = reset /\ socket' = socket /\ listening' = listening /\ context' = context
        /\ toCrawl \in [Crawler -> Seq(Batches)]
    BY <1>6 DEF HandleBegin, serverVars, TypeOK
  <2> QED
    BY <2>1 DEF ResetsExplained
<1>7. ASSUME NEW c \in Crawler, EndCrawl(c) PROVE ResetsExplained'
  <2>1. toCrawl' = toCrawl /\ reset' = reset /\ socket' = socket /\ listening' = listening /\ context' = context
    BY <1>7 DEF EndCrawl, serverVars
  <2> QED
    BY <1>1, <2>1
<1>8. ASSUME NEW c \in Crawler, Receive(c) PROVE ResetsExplained'
  <2>1. toCrawl' = toCrawl /\ reset' = reset /\ socket' = socket /\ listening' = listening /\ context' = context
    BY <1>8 DEF Receive
  <2> QED
    BY <1>1, <2>1
<1>9. ASSUME NEW c \in Crawler, ReceiveError(c) PROVE ResetsExplained'
  <2>1. /\ toCrawl' = toCrawl /\ reset' = reset /\ listening' = listening /\ context' = context
        /\ socket[c] = "open" /\ socket' = [socket EXCEPT ![c] = "closed"]
        /\ socket \in [Crawler -> {"none", "open", "closed"}]
    BY <1>9 DEF ReceiveError, TypeOK
  <2> QED
    BY <2>1 DEF ResetsExplained
<1>10. ASSUME NEW c \in Crawler, Handling(c) PROVE ResetsExplained'
  <2>1. toCrawl' = toCrawl /\ reset' = reset /\ socket' = socket /\ listening' = listening
    BY <1>10 DEF Handling, HandleRegister, SetSession, RegisterHandled, HandleEnd
  <2>2. \/ context' = context
        \/ context' = [context EXCEPT ![c].in = "REGISTER_CRAWLER"]
        \/ context' = [context EXCEPT ![c].in = "END_CRAWL"]
    BY <1>10 DEF Handling, HandleRegister, SetSession, RegisterHandled, HandleEnd
  <2>3. context \in [Crawler -> [in : Incoming, out : Outgoing]]
    BY DEF TypeOK
  <2>4. \A d \in Crawler : context'[d].out = context[d].out
    BY <2>2, <2>3
  <2> QED
    BY <1>1, <2>1, <2>4
<1>11. ASSUME NEW c \in Crawler, NEW n \in Batches, BeginCrawl(c, n) PROVE ResetsExplained'
  <2>1. /\ socket' = socket /\ listening' = listening
        /\ context' = [context EXCEPT ![c].out = "BEGIN_CRAWL"]
    BY <1>11 DEF BeginCrawl
  <2>2. context \in [Crawler -> [in : Incoming, out : Outgoing]]
    BY DEF TypeOK
  <2>3. context'[c].out = "BEGIN_CRAWL" /\ \A d \in Crawler \ {c} : context'[d] = context[d]
    BY <2>1, <2>2
  <2>4. /\ reset' = reset \/ reset' = [reset EXCEPT ![c] = TRUE]
        /\ toCrawl' = toCrawl \/ toCrawl' = [toCrawl EXCEPT ![c] = Append(@, n)]
    BY <1>11 DEF BeginCrawl
  <2>5. \A d \in Crawler \ {c} : reset'[d] = reset[d] /\ toCrawl'[d] = toCrawl[d]
    BY <2>4 DEF TypeOK
  <2> QED
    BY <2>1, <2>3, <2>5 DEF ResetsExplained
<1>12. CASE UNCHANGED vars
  BY <1>1, <1>12 DEF vars, clientVars, serverVars
<1> QED
  BY <1>2, <1>3, <1>4, <1>5, <1>6, <1>7, <1>8, <1>9, <1>10, <1>11, <1>12 DEF Next

\* Nothing happens once an exception has ended the scheduler, and ReceiveError raises
\* ReadError for a connection that was reset only.
LEMMA LeaveStep == LeaveInv /\ [Next]_vars => LeaveInv'
<1> SUFFICES ASSUME LeaveInv, [Next]_vars PROVE LeaveInv'
  OBVIOUS
<1>1. TypeOK' /\ BacklogApart' /\ ResetsExplained'
  BY Types, BacklogStep, ResetStep DEF LeaveInv
<1>2. CASE fault' # "ReadError"
  BY <1>1, <1>2 DEF LeaveInv, IdleLeaveIsHarmless
<1>3. CASE fault # "none"
  <2>1. UNCHANGED vars
    BY <1>3 DEF Next, Accept, AcceptFails, Connecting, Resolved, NotResolved, Handshake, Connected, Refused,
                CrawlerReset, Leave, HandleBegin, EndCrawl, Receive, ReceiveError, Handling, HandleRegister,
                SetSession, RegisterHandled, HandleEnd, Popped, BeginCrawl
  <2>2. phase' = phase /\ context' = context /\ fault' = fault
    BY <2>1 DEF vars, clientVars, serverVars
  <2>3. IdleLeaveIsHarmless'
    BY <2>2 DEF LeaveInv, IdleLeaveIsHarmless, CrawlerGone
  <2> QED
    BY <1>1, <2>3 DEF LeaveInv
<1>4. CASE fault = "none" /\ fault' = "ReadError"
  <2>1. PICK c \in Crawler : ReceiveError(c)
    BY <1>4 DEF Next, Accept, AcceptFails, Connecting, Resolved, NotResolved, Handshake, Connected, Refused,
                CrawlerReset, Leave, HandleBegin, EndCrawl, Receive, Handling, HandleRegister,
                SetSession, RegisterHandled, HandleEnd, Popped, Reject, BeginCrawl, vars, serverVars
  <2>2. reset[c] /\ socket[c] = "open" /\ CrawlerGone(c) /\ phase' = phase /\ context' = context
    BY <1>4, <2>1 DEF ReceiveError, Error, clientVars
  <2>3. context[c].out = "BEGIN_CRAWL"
    BY <2>2 DEF LeaveInv, ResetsExplained
  <2>4. IdleLeaveIsHarmless'
    BY <2>2, <2>3 DEF IdleLeaveIsHarmless, CrawlerGone
  <2> QED
    BY <1>1, <2>4 DEF LeaveInv
<1> QED
  BY <1>2, <1>3, <1>4

\* A crawler that leaves before it was given pages does the scheduler no harm, whatever
\* the number of threads (net/core/Endpoint.cpp:204-209, net/core/Dispatcher.cpp:19).
THEOREM IdleLeaveNeverHarms == Spec => []IdleLeaveIsHarmless
<1>1. LeaveInv => IdleLeaveIsHarmless
  BY DEF LeaveInv
<1> QED
  BY InitLeave, LeaveStep, <1>1, PTL DEF Spec

-------------------------------------------------------------------------------
(* The dialog, on one thread of the scheduler *)

\* What is between the two sessions of a crawler: nothing yet, its registration on the
\* way, its registration being handled, or its registration behind them.
Quiet(c) == context[c] = NoDialog /\ toCrawl[c] = << >> /\ owed[c] = 0
Before(c) ==
  /\ Quiet(c) /\ phase[c] \in {"resolving", "connecting", "connected", "failed"}
  /\ toSched[c] = << >> /\ inbox[c] = << >>
  /\ handler[c] = "idle" /\ registered[c] = "no"
Sent(c) ==
  /\ Quiet(c) /\ phase[c] \in Past
  /\ \/ toSched[c] = <<"REGISTER_CRAWLER">> /\ inbox[c] = << >>
     \/ toSched[c] = << >> /\ inbox[c] = <<"REGISTER_CRAWLER">>
  /\ handler[c] = "idle" /\ registered[c] = "no"
During(c) ==
  /\ Quiet(c) /\ phase[c] \in Past /\ toSched[c] = << >> /\ inbox[c] = << >>
  /\ handler[c] \in {"queued", "session"} /\ registered[c] = handler[c]
After(c) ==
  /\ phase[c] \in Past
  /\ toSched[c] \in Seq({"END_CRAWL"}) /\ inbox[c] \in Seq({"END_CRAWL"})
  /\ context[c].in \in {"REGISTER_CRAWLER", "END_CRAWL"}
  /\ handler[c] = "idle" /\ registered[c] = "session"

Stage(c) ==
  /\ Before(c) \/ Sent(c) \/ During(c) \/ After(c)
  /\ phase[c] = "open" => crawlContext[c].out \in {"REGISTER_CRAWLER", "END_CRAWL"}

DialogInv == TypeOK /\ fault # "DialogError" /\ \A c \in Crawler : Stage(c)

\* While a handler is under way the one thread is taken.
LEMMA OneThread ==
  ASSUME SchedThreads = 1, SchedThreadFree, NEW c \in Crawler
  PROVE  handler[c] = "idle"
<1> DEFINE Busy == {d \in Crawler : handler[d] # "idle"}
<1>1. IsFiniteSet(Crawler)
  BY ConnectionAssumption
<1>2. IsFiniteSet(Busy)
  BY <1>1, FS_Subset
<1>3. Cardinality(Busy) \in Nat /\ Cardinality(Busy) < 1
  BY <1>2, FS_CardinalityType DEF SchedThreadFree
<1>4. Cardinality(Busy) = 0
  BY <1>3
<1>5. Busy = {}
  BY <1>2, <1>4, FS_EmptySet
<1> QED
  BY <1>5

\* A step that touches nothing of a crawler leaves it in its stage.
Same(c) ==
  /\ phase'[c] = phase[c] /\ crawlContext'[c] = crawlContext[c] /\ owed'[c] = owed[c]
  /\ toSched'[c] = toSched[c] /\ toCrawl'[c] = toCrawl[c] /\ inbox'[c] = inbox[c]
  /\ handler'[c] = handler[c] /\ registered'[c] = registered[c] /\ context'[c] = context[c]

LEMMA SameStage == ASSUME NEW c \in Crawler, Stage(c), Same(c) PROVE Stage(c)'
BY DEF Stage, Same, Before, Sent, During, After, Quiet

\* At the start there is nothing between the sessions yet.
LEMMA InitDialog == Init => DialogInv
<1> SUFFICES ASSUME Init PROVE DialogInv
  OBVIOUS
<1>1. TypeOK
  BY InitTypes
<1>2. \A c \in Crawler : Stage(c)
  BY DEF Init, Stage, Before, Quiet
<1> QED
  BY <1>1, <1>2 DEF Init, DialogInv

\* Every step of every action takes each crawler to a stage, and none is rejected.
LEMMA DialogStep ==
  ASSUME SchedThreads = 1, DialogInv, [Next]_vars
  PROVE  DialogInv'
<1>1. TypeOK /\ TypeOK' /\ fault # "DialogError" /\ \A d \in Crawler : Stage(d)
  BY Types DEF DialogInv
<1> USE DEF Phase, Past
\* What is left to show of a step that touches one crawler only.
<1>2. ASSUME NEW c \in Crawler, Stage(c)', \A d \in Crawler \ {c} : Same(d)
      PROVE  \A d \in Crawler : Stage(d)'
  BY <1>1, <1>2, SameStage
<1>3. ASSUME phase' = phase, crawlContext' = crawlContext, owed' = owed, toSched' = toSched,
             toCrawl' = toCrawl, inbox' = inbox, handler' = handler, registered' = registered,
             context' = context
      PROVE  \A d \in Crawler : Stage(d)'
  BY <1>1, <1>3, SameStage DEF Same
<1>4. ASSUME Accept
      PROVE  (\A d \in Crawler : Stage(d)') /\ fault' # "DialogError"
  BY <1>1, <1>3, <1>4 DEF Accept, clientVars
<1>5. ASSUME AcceptFails
      PROVE  (\A d \in Crawler : Stage(d)') /\ fault' # "DialogError"
  BY <1>1, <1>3, <1>5 DEF AcceptFails, clientVars
<1>6. ASSUME NEW c \in Crawler, ReceiveError(c)
      PROVE  (\A d \in Crawler : Stage(d)') /\ fault' # "DialogError"
  BY <1>1, <1>3, <1>6 DEF ReceiveError, Error, clientVars
<1>7. ASSUME UNCHANGED vars
      PROVE  (\A d \in Crawler : Stage(d)') /\ fault' # "DialogError"
  BY <1>1, <1>3, <1>7 DEF vars, clientVars, serverVars
\* A client that goes on or gives up, with nothing but its phase changed.
<1>8. ASSUME NEW c \in Crawler, NEW p, phase' = [phase EXCEPT ![c] = p],
             UNCHANGED <<crawlContext, owed, serverVars, toSched, toCrawl>>,
             phase[c] \in Past => p \in Past \ {"open"},
             p \in {"resolving", "connecting", "connected", "failed", "left"},
             p = "left" => phase[c] = "open"
      PROVE  (\A d \in Crawler : Stage(d)') /\ fault' # "DialogError"
  <2>1. \A d \in Crawler \ {c} : Same(d)
    BY <1>1, <1>8 DEF Same, TypeOK, serverVars
  <2>2. phase'[c] = p
    BY <1>1, <1>8 DEF TypeOK
  <2>3. Stage(c)'
    <3>1. /\ toSched' = toSched /\ toCrawl' = toCrawl /\ inbox' = inbox /\ handler' = handler
          /\ registered' = registered /\ context' = context /\ owed' = owed
      BY <1>8 DEF serverVars
    <3>2. Before(c) => (Before(c) \/ p = "left")'
      BY <1>8, <2>2, <3>1 DEF Before, Quiet
    <3>3. Sent(c) => Sent(c)'
      BY <1>8, <2>2, <3>1 DEF Sent, Quiet
    <3>4. During(c) => During(c)'
      BY <1>8, <2>2, <3>1 DEF During, Quiet
    <3>5. After(c) => After(c)'
      BY <1>8, <2>2, <3>1 DEF After
    <3>6. Before(c) /\ p = "left" => FALSE
      BY <1>8 DEF Before
    <3>7. phase'[c] # "open"
      BY <1>8, <2>2
    <3> QED
      BY <1>1, <3>2, <3>3, <3>4, <3>5, <3>6, <3>7 DEF Stage
  <2> QED
    BY <1>1, <1>2, <1>8, <2>1, <2>3 DEF serverVars
<1>9. ASSUME NEW c \in Crawler, Connecting(c)
      PROVE  (\A d \in Crawler : Stage(d)') /\ fault' # "DialogError"
  <2>1. CASE Resolved(c)
    BY <1>8, <2>1 DEF Resolved
  <2>2. CASE NotResolved(c)
    BY <1>8, <2>2 DEF NotResolved
  <2>3. CASE Handshake(c)
    BY <1>8, <2>3 DEF Handshake
  <2>4. CASE CrawlerReset(c)
    BY <1>8, <2>4 DEF CrawlerReset
  <2>5. CASE Refused(c)
    <3>1. CASE phase' = phase
      BY <1>1, <1>3, <2>5, <3>1 DEF Refused, serverVars
    <3>2. CASE phase' = [phase EXCEPT ![c] = "failed"]
      BY <1>8, <2>5, <3>2 DEF Refused
    <3> QED
      BY <2>5, <3>1, <3>2 DEF Refused, NextAddress
  <2>6. CASE Connected(c)
    <3>1. /\ phase[c] = "connected" /\ phase' = [phase EXCEPT ![c] = "open"]
          /\ crawlContext' = [crawlContext EXCEPT ![c].out = "REGISTER_CRAWLER"]
          /\ toSched' = [toSched EXCEPT ![c] = Append(@, "REGISTER_CRAWLER")]
          /\ owed' = owed /\ toCrawl' = toCrawl /\ inbox' = inbox /\ handler' = handler
          /\ registered' = registered /\ context' = context /\ fault' = fault
      BY <2>6 DEF Connected, SendToSched, serverVars
    <3>2. \A d \in Crawler \ {c} : Same(d)
      BY <1>1, <3>1 DEF Same, TypeOK
    <3>3. /\ phase'[c] = "open" /\ crawlContext'[c].out = "REGISTER_CRAWLER"
          /\ toSched'[c] = Append(toSched[c], "REGISTER_CRAWLER")
      BY <1>1, <3>1 DEF TypeOK
    <3>4. Before(c)
      BY <1>1, <3>1 DEF Stage, Before, Sent, During, After
    <3>5. Sent(c)'
      BY <3>1, <3>3, <3>4 DEF Before, Sent, Quiet
    <3> QED
      BY <1>1, <1>2, <3>1, <3>2, <3>3, <3>5 DEF Stage
  <2> QED
    BY <1>9, <2>1, <2>2, <2>3, <2>4, <2>5, <2>6 DEF Connecting
<1>10. ASSUME NEW c \in Crawler, Leave(c)
       PROVE  (\A d \in Crawler : Stage(d)') /\ fault' # "DialogError"
  BY <1>8, <1>10 DEF Leave
<1>11. ASSUME NEW c \in Crawler, HandleBegin(c)
       PROVE  (\A d \in Crawler : Stage(d)') /\ fault' # "DialogError"
  <2>1. /\ toCrawl[c] # << >> /\ toCrawl' = [toCrawl EXCEPT ![c] = Tail(@)] /\ phase[c] = "open"
        /\ toSched' = toSched /\ inbox' = inbox /\ handler' = handler /\ fault' = fault
        /\ registered' = registered /\ context' = context
    BY <1>11 DEF HandleBegin, serverVars
  <2>2. /\ phase' = phase \/ phase' = [phase EXCEPT ![c] = "failed"]
        /\ owed' = owed \/ owed' = [owed EXCEPT ![c] = @ + 1]
        /\ crawlContext' = crawlContext \/ crawlContext' = [crawlContext EXCEPT ![c].in = "BEGIN_CRAWL"]
    BY <1>11 DEF HandleBegin
  <2>3. \A d \in Crawler \ {c} : Same(d)
    BY <1>1, <2>1, <2>2 DEF Same, TypeOK
  <2>4. phase'[c] \in {"open", "failed"} /\ crawlContext'[c].out = crawlContext[c].out
    BY <1>1, <2>1, <2>2 DEF TypeOK
  <2>5. After(c)
    BY <1>1, <2>1 DEF Stage, Before, Sent, During, Quiet
  <2>6. After(c)'
    BY <2>1, <2>4, <2>5 DEF After
  <2>7. crawlContext[c].out \in {"REGISTER_CRAWLER", "END_CRAWL"}
    BY <1>1, <2>1 DEF Stage
  <2> QED
    BY <1>1, <1>2, <2>1, <2>3, <2>4, <2>6, <2>7 DEF Stage
<1>12. ASSUME NEW c \in Crawler, EndCrawl(c)
       PROVE  (\A d \in Crawler : Stage(d)') /\ fault' # "DialogError"
  <2>1. /\ phase[c] = "open" /\ owed[c] > 0 /\ owed' = [owed EXCEPT ![c] = @ - 1]
        /\ crawlContext' = [crawlContext EXCEPT ![c].out = "END_CRAWL"]
        /\ toSched' = [toSched EXCEPT ![c] = Append(@, "END_CRAWL")]
        /\ phase' = phase /\ toCrawl' = toCrawl /\ inbox' = inbox /\ handler' = handler
        /\ registered' = registered /\ context' = context /\ fault' = fault
    BY <1>12 DEF EndCrawl, SendToSched, serverVars
  <2>2. \A d \in Crawler \ {c} : Same(d)
    BY <1>1, <2>1 DEF Same, TypeOK
  <2>3. crawlContext'[c].out = "END_CRAWL" /\ toSched'[c] = Append(toSched[c], "END_CRAWL")
    BY <1>1, <2>1 DEF TypeOK
  <2>4. After(c)
    BY <1>1, <2>1 DEF Stage, Before, Sent, During, Quiet
  <2>5. Append(toSched[c], "END_CRAWL") \in Seq({"END_CRAWL"})
    BY <2>4 DEF After
  <2>6. After(c)'
    BY <2>1, <2>3, <2>4, <2>5 DEF After
  <2> QED
    BY <1>1, <1>2, <2>1, <2>2, <2>3, <2>6 DEF Stage
<1>13. ASSUME NEW c \in Crawler, Receive(c)
       PROVE  (\A d \in Crawler : Stage(d)') /\ fault' # "DialogError"
  <2>1. /\ SchedThreadFree /\ toSched[c] # << >>
        /\ inbox' = [inbox EXCEPT ![c] = Append(@, Head(toSched[c]))]
        /\ toSched' = [toSched EXCEPT ![c] = Tail(@)]
        /\ phase' = phase /\ crawlContext' = crawlContext /\ owed' = owed /\ toCrawl' = toCrawl
        /\ handler' = handler /\ registered' = registered /\ context' = context /\ fault' = fault
    BY <1>13 DEF Receive, clientVars
  <2>2. \A d \in Crawler \ {c} : Same(d)
    BY <1>1, <2>1 DEF Same, TypeOK
  <2>3. inbox'[c] = Append(inbox[c], Head(toSched[c])) /\ toSched'[c] = Tail(toSched[c])
    BY <1>1, <2>1 DEF TypeOK
  <2>4. Sent(c) \/ After(c)
    BY <1>1, <2>1 DEF Stage, Before, During
  <2>5. CASE Sent(c)
    <3>1. toSched[c] = <<"REGISTER_CRAWLER">> /\ inbox[c] = << >>
      BY <2>1, <2>5 DEF Sent
    <3>2. toSched'[c] = << >> /\ inbox'[c] = <<"REGISTER_CRAWLER">>
      BY <2>3, <3>1
    <3>3. Sent(c)'
      BY <2>1, <2>5, <3>2 DEF Sent, Quiet
    <3> QED
      BY <1>1, <1>2, <2>1, <2>2, <3>3 DEF Stage
  <2>6. CASE After(c)
    <3>1. /\ Head(toSched[c]) = "END_CRAWL" /\ Tail(toSched[c]) \in Seq({"END_CRAWL"})
          /\ inbox[c] \in Seq({"END_CRAWL"})
      BY <2>1, <2>6 DEF After
    <3>2. Append(inbox[c], Head(toSched[c])) \in Seq({"END_CRAWL"})
      BY <3>1
    <3>3. After(c)'
      BY <2>1, <2>3, <2>6, <3>1, <3>2 DEF After
    <3> QED
      BY <1>1, <1>2, <2>1, <2>2, <3>3 DEF Stage
  <2> QED
    BY <2>4, <2>5, <2>6
<1>14. ASSUME NEW c \in Crawler, HandleRegister(c)
       PROVE  (\A d \in Crawler : Stage(d)') /\ fault' # "DialogError"
  <2>1. /\ SchedThreadFree /\ inbox[c] # << >> /\ Head(inbox[c]) = "REGISTER_CRAWLER"
        /\ inbox' = [inbox EXCEPT ![c] = Tail(@)]
        /\ phase' = phase /\ crawlContext' = crawlContext /\ owed' = owed /\ toCrawl' = toCrawl
        /\ toSched' = toSched /\ context' = context
    BY <1>14 DEF HandleRegister, Popped, clientVars
  <2>2. Sent(c)
    <3>1. ~ After(c)
      BY <2>1 DEF After
    <3> QED
      BY <1>1, <2>1, <3>1 DEF Stage, Before, During
  <2>3. toSched[c] = << >> /\ inbox[c] = <<"REGISTER_CRAWLER">> /\ context[c] = NoDialog
    BY <2>1, <2>2 DEF Sent, Quiet
  <2>4. /\ registered' = [registered EXCEPT ![c] = "queued"]
        /\ handler' = [handler EXCEPT ![c] = "queued"] /\ fault' = fault
    BY <1>14, <2>3 DEF HandleRegister, SchedAccepts
  <2>5. \A d \in Crawler \ {c} : Same(d)
    BY <1>1, <2>1, <2>4 DEF Same, TypeOK
  <2>6. inbox'[c] = << >> /\ registered'[c] = "queued" /\ handler'[c] = "queued"
    BY <1>1, <2>1, <2>3, <2>4 DEF TypeOK
  <2>7. During(c)'
    BY <2>1, <2>2, <2>3, <2>6 DEF During, Sent, Quiet
  <2> QED
    BY <1>1, <1>2, <2>1, <2>4, <2>5, <2>7 DEF Stage
<1>15. ASSUME NEW c \in Crawler, SetSession(c)
       PROVE  (\A d \in Crawler : Stage(d)') /\ fault' # "DialogError"
  <2>1. /\ handler[c] = "queued" /\ registered' = [registered EXCEPT ![c] = "session"]
        /\ handler' = [handler EXCEPT ![c] = "session"]
        /\ phase' = phase /\ crawlContext' = crawlContext /\ owed' = owed /\ toCrawl' = toCrawl
        /\ toSched' = toSched /\ inbox' = inbox /\ context' = context /\ fault' = fault
    BY <1>15 DEF SetSession, clientVars
  <2>2. \A d \in Crawler \ {c} : Same(d)
    BY <1>1, <2>1 DEF Same, TypeOK
  <2>3. registered'[c] = "session" /\ handler'[c] = "session"
    BY <1>1, <2>1 DEF TypeOK
  <2>4. During(c)
    BY <1>1, <2>1 DEF Stage, Before, Sent, After
  <2>5. During(c)'
    BY <2>1, <2>3, <2>4 DEF During, Quiet
  <2> QED
    BY <1>1, <1>2, <2>1, <2>2, <2>5 DEF Stage
<1>16. ASSUME NEW c \in Crawler, RegisterHandled(c)
       PROVE  (\A d \in Crawler : Stage(d)') /\ fault' # "DialogError"
  <2>1. /\ handler[c] = "session" /\ context' = [context EXCEPT ![c].in = "REGISTER_CRAWLER"]
        /\ handler' = [handler EXCEPT ![c] = "idle"]
        /\ phase' = phase /\ crawlContext' = crawlContext /\ owed' = owed /\ toCrawl' = toCrawl
        /\ toSched' = toSched /\ inbox' = inbox /\ registered' = registered /\ fault' = fault
    BY <1>16 DEF RegisterHandled, clientVars
  <2>2. \A d \in Crawler \ {c} : Same(d)
    BY <1>1, <2>1 DEF Same, TypeOK
  <2>3. context'[c].in = "REGISTER_CRAWLER" /\ handler'[c] = "idle"
    BY <1>1, <2>1 DEF TypeOK
  <2>4. During(c)
    BY <1>1, <2>1 DEF Stage, Before, Sent, After
  <2>5. << >> \in Seq({"END_CRAWL"})
    OBVIOUS
  <2>6. After(c)'
    BY <2>1, <2>3, <2>4, <2>5 DEF During, After
  <2> QED
    BY <1>1, <1>2, <2>1, <2>2, <2>6 DEF Stage
<1>17. ASSUME NEW c \in Crawler, HandleEnd(c)
       PROVE  (\A d \in Crawler : Stage(d)') /\ fault' # "DialogError"
  <2>1. /\ inbox[c] # << >> /\ Head(inbox[c]) = "END_CRAWL"
        /\ inbox' = [inbox EXCEPT ![c] = Tail(@)]
        /\ phase' = phase /\ crawlContext' = crawlContext /\ owed' = owed /\ toCrawl' = toCrawl
        /\ toSched' = toSched /\ registered' = registered /\ handler' = handler
    BY <1>17 DEF HandleEnd, Popped, clientVars
  <2>2. After(c)
    <3>1. ~ Sent(c)
      BY <2>1 DEF Sent
    <3> QED
      BY <1>1, <2>1, <3>1 DEF Stage, Before, During
  <2>3. context \in [Crawler -> [in : Incoming, out : Outgoing]]
    BY <1>1 DEF TypeOK
  <2>4. SchedAccepts("END_CRAWL", context[c])
    BY <2>2, <2>3 DEF After, SchedAccepts, Outgoing
  <2>5. context' = [context EXCEPT ![c].in = "END_CRAWL"] /\ fault' = fault
    BY <1>17, <2>4 DEF HandleEnd
  <2>6. \A d \in Crawler \ {c} : Same(d)
    BY <1>1, <2>1, <2>5 DEF Same, TypeOK
  <2>7. context'[c].in = "END_CRAWL"
    BY <2>3, <2>5
  <2>8. inbox'[c] \in Seq({"END_CRAWL"})
    <3>1. inbox'[c] = Tail(inbox[c])
      BY <1>1, <2>1 DEF TypeOK
    <3> QED
      BY <2>1, <2>2, <3>1 DEF After
  <2>9. After(c)'
    BY <2>1, <2>2, <2>7, <2>8 DEF After
  <2> QED
    BY <1>1, <1>2, <2>1, <2>5, <2>6, <2>9 DEF Stage
<1>18. ASSUME NEW c \in Crawler, NEW n \in Batches, BeginCrawl(c, n)
       PROVE  (\A d \in Crawler : Stage(d)') /\ fault' # "DialogError"
  <2>1. /\ SchedThreadFree /\ registered[c] = "session"
        /\ context' = [context EXCEPT ![c].out = "BEGIN_CRAWL"]
        /\ phase' = phase /\ crawlContext' = crawlContext /\ owed' = owed /\ toSched' = toSched
        /\ inbox' = inbox /\ registered' = registered /\ handler' = handler /\ fault' = fault
    BY <1>18 DEF BeginCrawl, clientVars
  <2>2. toCrawl' = toCrawl \/ toCrawl' = [toCrawl EXCEPT ![c] = Append(@, n)]
    BY <1>18 DEF BeginCrawl
  <2>3. \A d \in Crawler \ {c} : Same(d)
    BY <1>1, <2>1, <2>2 DEF Same, TypeOK
  <2>4. context'[c].in = context[c].in
    BY <1>1, <2>1 DEF TypeOK
  <2>5. handler[c] = "idle"
    BY <2>1, OneThread
  <2>6. After(c)
    BY <1>1, <2>1, <2>5 DEF Stage, Before, Sent, During
  <2>7. After(c)'
    BY <2>1, <2>4, <2>6 DEF After
  <2> QED
    BY <1>1, <1>2, <2>1, <2>3, <2>7 DEF Stage
<1>19. (\A d \in Crawler : Stage(d)') /\ fault' # "DialogError"
  BY <1>1, <1>4, <1>5, <1>6, <1>7, <1>9, <1>10, <1>11, <1>12, <1>13, <1>14, <1>15, <1>16, <1>17, <1>18
     DEF Next, Handling
<1> QED
  BY <1>1, <1>19 DEF DialogInv

\* Two sessions that follow the dialog never fall out of it while the scheduler has one
\* thread (crawl/Session.cpp:93-128, sched/Session.cpp:111-171).
THEOREM DialogKeptByOneThread == Spec /\ SchedThreads = 1 => []DialogHolds
<1> SUFFICES ASSUME SchedThreads = 1 PROVE Spec => []DialogHolds
  OBVIOUS
<1>1. DialogInv /\ [Next]_vars => DialogInv'
  BY DialogStep
<1>2. DialogInv => DialogHolds
  <2> SUFFICES ASSUME DialogInv PROVE DialogHolds
    OBVIOUS
  <2>1. \A c \in Crawler : phase[c] = "open" => CrawlAccepts(crawlContext[c])
    BY DEF DialogInv, Stage, TypeOK, CrawlAccepts, Outgoing
  <2> QED
    BY <2>1 DEF DialogInv, DialogHolds
<1> QED
  BY InitDialog, <1>1, <1>2, PTL DEF Spec
===============================================================================
