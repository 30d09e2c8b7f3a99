----------------------------- MODULE DeferredUpdate -----------------------------
(***************************************************************************)
(* How an END_CRAWL message travels from the session that received it to   *)
(* the tree and to its end: sched/Session.cpp (handle_message, the         *)
(* EndCrawl handler and the GarbageCollector), sched/DeferredUpdate.cpp    *)
(* (defer, update) and the events of utility/ that tie them together.      *)
(*                                                                         *)
(* All of it runs on the Dispatcher's threads.  An actor that has started  *)
(* keeps its thread to the end; with one thread handlers therefore exclude *)
(* each other, with more they interleave at the steps below.  Each call on *)
(* the list of updates is taken as one step, although nothing protects it. *)
(***************************************************************************)
EXTENDS Integers, Sequences, FiniteSets

CONSTANTS
  Session,    \* the sessions of connected crawlers, each with a GarbageCollector
  Message,    \* the END_CRAWL messages that arrive
  SenderOf,   \* [Message -> Session]
  Address,    \* where the list of updates can put its nodes
  Threads,    \* threads of the Dispatcher: hardware_concurrency() in the code
  Task        \* the DispatcherTask, as an actor

ASSUME SenderAssumption == SenderOf \in [Message -> Session]
ASSUME ThreadAssumption == Threads \in Nat \ {0}
ASSUME MessageAssumption == IsFiniteSet(Message) /\ Task \notin Message

VARIABLES
  stage,    \* of each message: received, then what its handler does next
  updates,  \* DeferredUpdate::updates: the message, the node's address, and the
            \* subscribers of the Update, which is an Event
  events,   \* Subscriber::events of each session's GarbageCollector
  garbage,  \* GarbageCollector::garbage of each session
  posted,   \* calls of GarbageCollector::receive the io_service has still to make
  walk,     \* the iterator m of update(), as a position; 0 outside of update()
  clearing, \* update() has left its loop and will clear the list
  applied,  \* messages whose contents reached the Scheduler
  freed,    \* messages deleted
  fault     \* the assertion or the call without a list node that failed

listVars == <<updates, events>>
taskVars == <<walk, clearing, applied>>
vars == <<stage, listVars, garbage, posted, taskVars, freed, fault>>

-------------------------------------------------------------------------------
TypeOK ==
  /\ stage \in [Message -> {"received", "subscribe", "trash", "handled"}]
  /\ updates \in Seq([of : Message, at : Address, to : SUBSET Session])
  /\ events \in [Session -> SUBSET Address]
  /\ garbage \in [Session -> SUBSET Message]
  /\ posted \subseteq Session \X Message
  /\ walk \in Nat /\ clearing \in BOOLEAN
  /\ applied \subseteq Message /\ freed \subseteq Message
  /\ fault \in {"none", "back", "receive"}

Init ==
  /\ stage = [m \in Message |-> "received"]
  /\ updates = << >>
  /\ events = [s \in Session |-> {}]
  /\ garbage = [s \in Session |-> {}]
  /\ posted = {} /\ walk = 0 /\ clearing = FALSE
  /\ applied = {} /\ freed = {}
  /\ fault = "none"

\* The actors that have a thread.
Busy ==
  {m \in Message : stage[m] \in {"subscribe", "trash"}} \cup (IF walk > 0 THEN {Task} ELSE {})
ThreadFree == Cardinality(Busy) < Threads

-------------------------------------------------------------------------------
(* The handler of a message: sched/Session.cpp:65-74 and 192-206 *)

\* DeferredUpdate::defer, first call: push_back.  The node goes where there is room,
\* an address an earlier node had included.
PushBack(m) ==
  /\ fault = "none" /\ ThreadFree
  /\ stage[m] = "received"
  /\ \E a \in Address \ {updates[k].at : k \in DOMAIN updates} :
       updates' = Append(updates, [of |-> m, at |-> a, to |-> {}])
  /\ stage' = [stage EXCEPT ![m] = "subscribe"]
  /\ UNCHANGED <<events, garbage, posted, taskVars, freed, fault>>

\* Subscriber::subscribe_to: an event is known by its address, and unsubscribe_from
\* never forgets one.
Subscribe(s, k) ==
  IF updates[k].at \in events[s] THEN UNCHANGED listVars
  ELSE /\ events' = [events EXCEPT ![s] = @ \cup {updates[k].at}]
       /\ updates' = [updates EXCEPT ![k].to = @ \cup {s}]

\* defer, second call: the last update in the list, whosoever it is by then, gets this
\* session's GarbageCollector as a subscriber.
AddSubscriber(m) ==
  /\ fault = "none"
  /\ stage[m] = "subscribe"
  /\ IF updates = << >>
     THEN fault' = "back" /\ UNCHANGED listVars
     ELSE Subscribe(SenderOf[m], Len(updates)) /\ UNCHANGED fault
  /\ stage' = [stage EXCEPT ![m] = "trash"]
  /\ UNCHANGED <<garbage, posted, taskVars, freed>>

\* GarbageCollector::trash, once continue_dialog has returned the message's key.
\* (A version that frees the message at once.)
TrashAtOnce(m) ==
  /\ fault = "none"
  /\ stage[m] = "trash"
  /\ freed' = freed \cup {m}
  /\ stage' = [stage EXCEPT ![m] = "handled"]
  /\ UNCHANGED <<listVars, garbage, posted, taskVars, fault>>
Trash(m) ==
  /\ fault = "none"
  /\ stage[m] = "trash"
  /\ garbage' = [garbage EXCEPT ![SenderOf[m]] = @ \cup {m}]
  /\ stage' = [stage EXCEPT ![m] = "handled"]
  /\ UNCHANGED <<listVars, posted, taskVars, freed, fault>>

\* GarbageCollector::receive: the event names the message by its key.
Receive(s, m) ==
  /\ fault = "none" /\ ThreadFree
  /\ <<s, m>> \in posted
  /\ posted' = posted \ {<<s, m>>}
  /\ IF m \in garbage[s]
     THEN /\ garbage' = [garbage EXCEPT ![s] = @ \ {m}]
          /\ freed' = freed \cup {m}
          /\ UNCHANGED fault
     ELSE fault' = "receive" /\ UNCHANGED <<garbage, freed>>
  /\ UNCHANGED <<stage, listVars, taskVars>>

-------------------------------------------------------------------------------
(* The task: DeferredUpdate::update *)

StartWalk ==
  /\ fault = "none" /\ ThreadFree
  /\ walk = 0
  /\ walk' = 1
  /\ UNCHANGED <<stage, listVars, garbage, posted, clearing, applied, freed, fault>>

\* An update goes to the Scheduler and is then published to its subscribers.
\* (A version that publishes nothing.)
PublishNothing(update) == UNCHANGED posted
Publish(update) == posted' = posted \cup (update.to \X {update.of})

ApplyNext ==
  /\ fault = "none"
  /\ walk \in DOMAIN updates /\ ~clearing
  /\ applied' = applied \cup {updates[walk].of}
  /\ Publish(updates[walk])
  /\ walk' = walk + 1
  /\ UNCHANGED <<stage, listVars, garbage, clearing, freed, fault>>

EndWalk ==
  /\ fault = "none"
  /\ walk = Len(updates) + 1 /\ ~clearing
  /\ clearing' = TRUE
  /\ UNCHANGED <<stage, listVars, garbage, posted, walk, applied, freed, fault>>

\* updates.clear(), which destroys what is in the list by now.
\* (A version that clears the list as soon as update() starts.)
ClearAnyTime ==
  /\ fault = "none" /\ walk > 0
  /\ updates' = << >>
  /\ walk' = 0 /\ clearing' = FALSE
  /\ UNCHANGED <<stage, events, garbage, posted, applied, freed, fault>>
Clear ==
  /\ fault = "none" /\ clearing
  /\ updates' = << >>
  /\ walk' = 0 /\ clearing' = FALSE
  /\ UNCHANGED <<stage, events, garbage, posted, applied, freed, fault>>

-------------------------------------------------------------------------------
Updating == StartWalk \/ ApplyNext \/ EndWalk \/ Clear
Handling(m) == PushBack(m) \/ AddSubscriber(m) \/ Trash(m)

Next ==
  \/ Updating
  \/ \E m \in Message : Handling(m)
  \/ \E s \in Session, m \in Message : Receive(s, m)

Spec == Init /\ [][Next]_vars

\* The io_service runs whatever was posted to it in time: a handler that has started,
\* the task and the one its timer starts, a call of receive.  A thread is free again
\* and again, not always, when the task comes back with each interval.
Fairness ==
  /\ WF_vars(Updating)
  /\ \A m \in Message :
       /\ WF_vars(AddSubscriber(m) \/ Trash(m))
       /\ SF_vars(\E s \in Session : Receive(s, m))

FairSpec == Spec /\ Fairness

-------------------------------------------------------------------------------
(* Properties *)

\* A message whose handler put it in the list is in the list until the Scheduler has
\* its contents: update() clears only what it has applied (DeferredUpdate.cpp:18, 61).
NothingLost ==
  \A m \in Message : stage[m] # "received" =>
    m \in applied \/ \E k \in DOMAIN updates : updates[k].of = m

\* An update that is still to be applied refers to a message that is still there:
\* Deferable holds references into it (DeferredUpdate.hpp:22-33).
NoDanglingUpdate ==
  \A k \in DOMAIN updates : updates[k].of \in freed => k < walk

\* The collector knows every message it is told about, and there is an update to
\* subscribe to (sched/Session.cpp:41, DeferredUpdate.cpp:19).
NoFault == fault = "none"

\* Once its session's collector has subscribed to its update, a message is freed.
SubscribedIsFreed ==
  \A m \in Message :
    (\E k \in DOMAIN updates : updates[k].of = m /\ updates[k].to # {}) ~> m \in freed

\* "We delete later, upon the garbage collector receive()" (sched/Session.cpp:205): each
\* message handled is deleted in time.
HandledIsFreed == \A m \in Message : stage[m] = "handled" ~> m \in freed
===============================================================================
