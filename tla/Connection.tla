------------------------------- MODULE Connection -------------------------------
(***************************************************************************)
(* The life of a connection between a crawler and the scheduler, and the   *)
(* dialog the two sessions have over it: net/core/Client.cpp resolves and  *)
(* connects, net/core/Server.cpp accepts, net/core/Endpoint.cpp starts,    *)
(* reads and stops, crawl/Session.cpp and sched/Session.cpp check each     *)
(* message against the one before it.  Every callback runs on a thread of  *)
(* its process's Dispatcher.  How bytes become messages is OopChannel's    *)
(* subject; here a message travels whole.                                  *)
(***************************************************************************)
EXTENDS Naturals, Sequences, FiniteSets

CONSTANTS
  Crawler,       \* crawler processes, each under a name of its own
  Addresses,     \* what the scheduler's host name resolves to, in number
  SchedThreads,  \* threads of the scheduler's Dispatcher
  CrawlThreads,  \* and of a crawler's
  Batches,       \* numbers of URLs in a BEGIN_CRAWL
  MaxBegins,     \* bound on the BEGIN_CRAWL messages of a connection
  Conduct        \* what may go wrong, see below

\* "unresolved" the host name may be unknown
\* "refused"    an address may refuse the connection
\* "exhausted"  the scheduler may run out of descriptors for accept
\* "leave"      a crawler may be told to stop by a signal
ASSUME ConnectionAssumption ==
  /\ IsFiniteSet(Crawler) /\ Batches \subseteq Nat /\ MaxBegins \in Nat
  /\ {Addresses, SchedThreads, CrawlThreads} \subseteq Nat \ {0}
  /\ Conduct \subseteq {"unresolved", "refused", "exhausted", "leave"}

VARIABLES
  phase,      \* the crawler's client: what it does or how it ended
  tries,      \* addresses its resolver::iterator has left
  listening,  \* the scheduler's acceptor is open, with an accept registered
  backlog,    \* connections the scheduler's kernel completed and no one accepted
  socket,     \* the scheduler's endpoint of each crawler: none, open, closed
  reset,      \* the connection was reset, not closed in order
  toSched, toCrawl,  \* messages on their way
  inbox,      \* messages the scheduler has read and posted handle_messages for
  handler,    \* where the RegisterCrawler handler is
  registered, \* crawlers the scheduler's queue holds, with their session or without
  context,    \* msg_context of the scheduler's session
  crawlContext, \* msg_context of the crawler's session
  begins,     \* BEGIN_CRAWL messages sent so far
  owed,       \* BEGIN_CRAWL messages the crawler got and did not answer yet
  stuck,      \* handlers of the crawler that loop over their URLs
  fault       \* the exception that ended the scheduler

clientVars == <<phase, tries, crawlContext, owed, stuck>>
serverVars == <<listening, socket, inbox, handler, registered, context, begins, fault>>
vars == <<clientVars, serverVars, backlog, reset, toSched, toCrawl>>

NoDialog == [in |-> "INVALID_ID", out |-> "INVALID_ID"]

Init ==
  /\ phase = [c \in Crawler |-> "resolving"]
  /\ tries = [c \in Crawler |-> Addresses]
  /\ listening = TRUE
  /\ backlog = << >>
  /\ socket = [c \in Crawler |-> "none"]
  /\ reset = [c \in Crawler |-> FALSE]
  /\ toSched = [c \in Crawler |-> << >>] /\ toCrawl = [c \in Crawler |-> << >>]
  /\ inbox = [c \in Crawler |-> << >>]
  /\ handler = [c \in Crawler |-> "idle"]
  /\ registered = [c \in Crawler |-> "no"]
  /\ context = [c \in Crawler |-> NoDialog]
  /\ crawlContext = [c \in Crawler |-> NoDialog]
  /\ begins = [c \in Crawler |-> 0]
  /\ owed = [c \in Crawler |-> 0] /\ stuck = [c \in Crawler |-> 0]
  /\ fault = "none"

-------------------------------------------------------------------------------
(* The dialog *)

\* sched/Session.cpp continue_dialog: what may come, by the last message either way.
\* (A version that takes one END_CRAWL only.)
SchedAcceptsOnce(m, d) ==
  CASE m = "REGISTER_CRAWLER" -> d = NoDialog
    [] m = "END_CRAWL" -> d.in = "REGISTER_CRAWLER" /\ d.out = "BEGIN_CRAWL"
SchedAccepts(m, d) ==
  CASE m = "REGISTER_CRAWLER" -> d = NoDialog
    [] m = "END_CRAWL" -> /\ d.in \in {"END_CRAWL", "REGISTER_CRAWLER"}
                          /\ d.out \in {"INVALID_ID", "BEGIN_CRAWL"}

\* crawl/Session.cpp continue_dialog.
CrawlAccepts(d) ==
  /\ d.in \in {"INVALID_ID", "BEGIN_CRAWL"}
  /\ d.out \in {"END_CRAWL", "REGISTER_CRAWLER"}

\* A handler that is under way has a thread of the pool; any other callback needs one.
SchedThreadFree == Cardinality({c \in Crawler : handler[c] # "idle"}) < SchedThreads
CrawlThreadFree(c) == stuck[c] < CrawlThreads

CrawlerGone(c) == phase[c] \in {"left", "failed"}

-------------------------------------------------------------------------------
(* The crawler: net/core/Client.cpp *)

Resolved(c) ==
  /\ fault = "none" /\ phase[c] = "resolving"
  /\ phase' = [phase EXCEPT ![c] = "connecting"]
  /\ UNCHANGED <<tries, crawlContext, owed, stuck, serverVars, backlog, reset, toSched, toCrawl>>

\* resolver_callback throws DNSFailure, which nothing catches.
NotResolved(c) ==
  /\ fault = "none" /\ phase[c] = "resolving" /\ "unresolved" \in Conduct
  /\ phase' = [phase EXCEPT ![c] = "failed"]
  /\ UNCHANGED <<tries, crawlContext, owed, stuck, serverVars, backlog, reset, toSched, toCrawl>>

\* The scheduler's kernel takes the connection for a listening socket.
Handshake(c) ==
  /\ fault = "none" /\ phase[c] = "connecting" /\ listening
  /\ phase' = [phase EXCEPT ![c] = "connected"]
  /\ backlog' = Append(backlog, c)
  /\ UNCHANGED <<tries, crawlContext, owed, stuck, serverVars, reset, toSched, toCrawl>>

\* Session::send: the message becomes the outbound context and goes out.
SendToSched(c, m) ==
  /\ crawlContext' = [crawlContext EXCEPT ![c].out = m]
  /\ toSched' = [toSched EXCEPT ![c] = Append(@, m)]

\* connect_callback, success: detach_client, Endpoint::start, and the session registers.
Connected(c) ==
  /\ fault = "none" /\ phase[c] = "connected"
  /\ phase' = [phase EXCEPT ![c] = "open"]
  /\ SendToSched(c, "REGISTER_CRAWLER")
  /\ UNCHANGED <<tries, owed, stuck, serverVars, backlog, reset, toCrawl>>

\* connect_callback, error: the next address, or OpenError when there is none.
\* (A version that gives the last address up without a word.)
NextAddressSilent(c) == tries' = [tries EXCEPT ![c] = @ - 1] /\ UNCHANGED phase
NextAddress(c) ==
  /\ tries' = [tries EXCEPT ![c] = @ - 1]
  /\ phase' = IF tries[c] = 1 THEN [phase EXCEPT ![c] = "failed"] ELSE phase
Refused(c) ==
  /\ fault = "none" /\ phase[c] = "connecting" /\ tries[c] > 0
  /\ "refused" \in Conduct \/ ~listening
  /\ NextAddress(c)
  /\ UNCHANGED <<crawlContext, owed, stuck, serverVars, backlog, reset, toSched, toCrawl>>

\* A signal: stop_crawling stops the dispatcher, main returns when its threads are
\* joined, which a handler in its loop never is.  The kernel resets a connection closed
\* with input unread, and closes it in order otherwise.
Leave(c) ==
  /\ fault = "none" /\ "leave" \in Conduct
  /\ phase[c] = "open" /\ stuck[c] = 0
  /\ phase' = [phase EXCEPT ![c] = "left"]
  /\ reset' = [reset EXCEPT ![c] = toCrawl[c] # << >>]
  /\ UNCHANGED <<tries, crawlContext, owed, stuck, serverVars, backlog, toSched, toCrawl>>

\* The connection is reset under the crawler: raw_recv_callback throws ReadError.
CrawlerReset(c) ==
  /\ fault = "none" /\ phase[c] \in {"connected", "open"} /\ reset[c]
  /\ phase' = [phase EXCEPT ![c] = "failed"]
  /\ UNCHANGED <<tries, crawlContext, owed, stuck, serverVars, backlog, reset, toSched, toCrawl>>

-------------------------------------------------------------------------------
(* The crawler: crawl/Session.cpp *)

\* raw_recv_callback and handle_message of a BEGIN_CRAWL.  The loop over its URLs never
\* advances its iterator: with a URL in it, the handler does not return, and does not
\* reach the assignment of msg_context.
HandleBegin(c) ==
  /\ fault = "none" /\ phase[c] = "open" /\ CrawlThreadFree(c) /\ toCrawl[c] # << >>
  /\ toCrawl' = [toCrawl EXCEPT ![c] = Tail(@)]
  /\ IF CrawlAccepts(crawlContext[c])
     THEN /\ owed' = [owed EXCEPT ![c] = @ + 1]
          /\ IF Head(toCrawl[c]) = 0
             THEN crawlContext' = [crawlContext EXCEPT ![c].in = "BEGIN_CRAWL"]
                  /\ UNCHANGED stuck
             ELSE stuck' = [stuck EXCEPT ![c] = @ + 1] /\ UNCHANGED crawlContext
          /\ UNCHANGED phase
     ELSE phase' = [phase EXCEPT ![c] = "failed"] /\ UNCHANGED <<crawlContext, owed, stuck>>
  /\ UNCHANGED <<tries, serverVars, backlog, reset, toSched>>

\* end_crawl, called by whatever crawls the pages: no source file does yet.
EndCrawl(c) ==
  /\ fault = "none" /\ phase[c] = "open" /\ owed[c] > 0
  /\ owed' = [owed EXCEPT ![c] = @ - 1]
  /\ SendToSched(c, "END_CRAWL")
  /\ UNCHANGED <<phase, tries, stuck, serverVars, backlog, reset, toCrawl>>

-------------------------------------------------------------------------------
(* The scheduler: net/core/Server.cpp and net/core/Endpoint.cpp *)

\* Endpoint::start: the session is linked to the context, the protocol starts reading.
StartEndpoint(c) == socket' = [socket EXCEPT ![c] = "open"]

\* acceptor_callback, success: the endpoint starts, the next accept is registered.
Accept ==
  /\ fault = "none" /\ listening /\ SchedThreadFree /\ backlog # << >>
  /\ StartEndpoint(Head(backlog))
  /\ backlog' = Tail(backlog)
  /\ UNCHANGED <<clientVars, listening, inbox, handler, registered, context, begins, fault,
                 reset, toSched, toCrawl>>

\* acceptor_callback, error: the acceptor is closed for good, and the kernel resets
\* what it had in its backlog.
AcceptFails ==
  /\ fault = "none" /\ listening /\ SchedThreadFree /\ "exhausted" \in Conduct
  /\ listening' = FALSE
  /\ backlog' = << >>
  /\ reset' = [c \in Crawler |-> reset[c] \/ \E k \in DOMAIN backlog : backlog[k] = c]
  /\ UNCHANGED <<clientVars, socket, inbox, handler, registered, context, begins, fault,
                 toSched, toCrawl>>

\* raw_recv_callback, success: handle_messages is posted for what came.
Receive(c) ==
  /\ fault = "none" /\ socket[c] = "open" /\ SchedThreadFree /\ toSched[c] # << >>
  /\ inbox' = [inbox EXCEPT ![c] = Append(@, Head(toSched[c]))]
  /\ toSched' = [toSched EXCEPT ![c] = Tail(@)]
  /\ UNCHANGED <<clientVars, listening, socket, handler, registered, context, begins, fault,
                 backlog, reset, toCrawl>>

\* raw_recv_callback, error: the socket is closed; anything but the end of the stream
\* is thrown, on a thread of the pool where nothing catches it.
\* (A version that throws in either case.)
ErrorAlways(c) == "ReadError"
Error(c) == IF reset[c] THEN "ReadError" ELSE "none"
\* (A version that takes the end of the stream for an operation that was aborted.)
ReceiveErrorAborted(c) ==
  /\ fault = "none" /\ socket[c] = "open" /\ SchedThreadFree
  /\ CrawlerGone(c) /\ reset[c]
  /\ socket' = [socket EXCEPT ![c] = "closed"]
  /\ fault' = "ReadError"
  /\ UNCHANGED <<clientVars, listening, inbox, handler, registered, context, begins,
                 backlog, reset, toSched, toCrawl>>
ReceiveError(c) ==
  /\ fault = "none" /\ socket[c] = "open" /\ SchedThreadFree
  /\ CrawlerGone(c) /\ (reset[c] \/ toSched[c] = << >>)
  /\ socket' = [socket EXCEPT ![c] = "closed"]
  /\ fault' = Error(c)
  /\ UNCHANGED <<clientVars, listening, inbox, handler, registered, context, begins,
                 backlog, reset, toSched, toCrawl>>

-------------------------------------------------------------------------------
(* The scheduler: sched/Session.cpp *)

\* handle_messages pops a message no other thread has popped.
Popped(c, m) ==
  /\ fault = "none" /\ SchedThreadFree
  /\ inbox[c] # << >> /\ Head(inbox[c]) = m
  /\ inbox' = [inbox EXCEPT ![c] = Tail(@)]

Reject == fault' = "DialogError"

\* REGISTER_CRAWLER: the crawler is created and pushed on the queue ...
HandleRegister(c) ==
  /\ Popped(c, "REGISTER_CRAWLER")
  /\ IF SchedAccepts("REGISTER_CRAWLER", context[c])
     THEN /\ registered' = [registered EXCEPT ![c] = "queued"]
          /\ handler' = [handler EXCEPT ![c] = "queued"]
          /\ UNCHANGED fault
     ELSE Reject /\ UNCHANGED <<registered, handler>>
  /\ UNCHANGED <<clientVars, listening, socket, context, begins,
                 backlog, reset, toSched, toCrawl>>

\* ... is given its session ...
SetSession(c) ==
  /\ fault = "none" /\ handler[c] = "queued"
  /\ registered' = [registered EXCEPT ![c] = "session"]
  /\ handler' = [handler EXCEPT ![c] = "session"]
  /\ UNCHANGED <<clientVars, listening, socket, inbox, context, begins, fault,
                 backlog, reset, toSched, toCrawl>>

\* ... and the message becomes the session's inbound context.
RegisterHandled(c) ==
  /\ fault = "none" /\ handler[c] = "session"
  /\ context' = [context EXCEPT ![c].in = "REGISTER_CRAWLER"]
  /\ handler' = [handler EXCEPT ![c] = "idle"]
  /\ UNCHANGED <<clientVars, listening, socket, inbox, registered, begins, fault,
                 backlog, reset, toSched, toCrawl>>

\* END_CRAWL: the update is deferred (DeferredUpdate models what becomes of it).
HandleEnd(c) ==
  /\ Popped(c, "END_CRAWL")
  /\ IF SchedAccepts("END_CRAWL", context[c])
     THEN context' = [context EXCEPT ![c].in = "END_CRAWL"] /\ UNCHANGED fault
     ELSE Reject /\ UNCHANGED context
  /\ UNCHANGED <<clientVars, listening, socket, handler, registered, begins,
                 backlog, reset, toSched, toCrawl>>

\* Scheduler::run sends a BEGIN_CRAWL to a crawler that has a session that is online.
\* What is sent to a process that is gone makes its kernel reset the connection.
BeginCrawl(c, n) ==
  /\ fault = "none" /\ SchedThreadFree
  /\ registered[c] = "session" /\ socket[c] = "open" /\ begins[c] < MaxBegins
  /\ begins' = [begins EXCEPT ![c] = @ + 1]
  /\ context' = [context EXCEPT ![c].out = "BEGIN_CRAWL"]
  /\ IF CrawlerGone(c)
     THEN reset' = [reset EXCEPT ![c] = TRUE] /\ UNCHANGED toCrawl
     ELSE toCrawl' = [toCrawl EXCEPT ![c] = Append(@, n)] /\ UNCHANGED reset
  /\ UNCHANGED <<clientVars, listening, socket, inbox, handler, registered, fault,
                 backlog, toSched>>

-------------------------------------------------------------------------------
Connecting(c) == Resolved(c) \/ NotResolved(c) \/ Handshake(c) \/ Connected(c) \/ Refused(c) \/ CrawlerReset(c)
Handling(c) == HandleRegister(c) \/ SetSession(c) \/ RegisterHandled(c) \/ HandleEnd(c)

Next ==
  \/ Accept \/ AcceptFails
  \/ \E c \in Crawler :
       \/ Connecting(c) \/ Leave(c) \/ HandleBegin(c) \/ EndCrawl(c)
       \/ Receive(c) \/ ReceiveError(c) \/ Handling(c)
       \/ \E n \in Batches : BeginCrawl(c, n)

\* The kernels deliver, and the threads of a pool run what is posted.  Nothing makes the
\* scheduler begin a crawl, a crawler end one, or anyone leave.
Fairness ==
  /\ WF_vars(Accept)
  /\ \A c \in Crawler :
       WF_vars(Connecting(c)) /\ WF_vars(Receive(c)) /\ WF_vars(ReceiveError(c)) /\ WF_vars(Handling(c))

Spec == Init /\ [][Next]_vars /\ Fairness

-------------------------------------------------------------------------------
(* Properties *)

\* Two sessions that follow the dialog never fall out of it: what one may send, given
\* what it sent and received, the other accepts, however messages cross
\* (crawl/Session.cpp:93-128, sched/Session.cpp:111-171).
DialogHolds ==
  /\ fault # "DialogError"
  /\ \A c \in Crawler : phase[c] = "open" /\ toCrawl[c] # << >> => CrawlAccepts(crawlContext[c])

\* A crawler that leaves before it was given pages does the scheduler no harm; only one
\* whose last BEGIN_CRAWL crosses its leaving resets the connection, and then the
\* scheduler ends with it (Endpoint.cpp:204-209, Dispatcher.cpp:19).
IdleLeaveIsHarmless ==
  fault = "ReadError" => \E c \in Crawler : CrawlerGone(c) /\ context[c].out = "BEGIN_CRAWL"

\* Every crawler that starts is registered in the end, or ended itself, or it has seen
\* the scheduler end: none waits for an answer that does not come (Server.cpp:140-154,
\* Client.cpp:129-147, crawl/Context.cpp:14-21).
EveryoneRegisters ==
  \A c \in Crawler :
    phase[c] = "resolving" ~> registered[c] = "session" \/ CrawlerGone(c) \/ fault # "none"

\* The scheduler notices that a crawler has gone: its session does not stay online, and
\* so its rank drops below every crawler's that is there (Endpoint.cpp:204,
\* sched/Crawler.cpp:57-80).
GoneIsNoticed ==
  \A c \in Crawler : CrawlerGone(c) ~> socket[c] # "open" \/ fault # "none"
=============================================================================
