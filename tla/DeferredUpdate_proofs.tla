------------------------- MODULE DeferredUpdate_proofs -------------------------
(***************************************************************************)
(* What the deferral keeps on any number of threads, for every set of      *)
(* sessions and messages and wherever the list puts its nodes: no update   *)
(* refers to a deleted message before it is applied, and a message is lost *)
(* in one way only, by the clear() that destroys what was pushed behind    *)
(* the walk.  WalkInv, which says what is applied and what is still to be, *)
(* is inductive.                                                           *)
(***************************************************************************)
EXTENDS DeferredUpdate, TLAPS

\* What the walk has passed is applied, what is ahead of it is not.
Walk ==
  /\ walk <= Len(updates) + 1
  /\ \A k \in DOMAIN updates : k < walk <=> updates[k].of \in applied

\* A message is in the list once, from its handler's first step on.
Listed ==
  /\ \A k \in DOMAIN updates : stage[updates[k].of] # "received"
  /\ \A j, k \in DOMAIN updates : updates[j].of = updates[k].of => j = k

\* Only what was applied is published and freed.
Settled ==
  /\ \A m \in applied : stage[m] # "received"
  /\ \A n \in posted : n[2] \in applied
  /\ freed \subseteq applied

WalkInv == TypeOK /\ Walk /\ Listed /\ Settled

\* clear() destroys updates the walk has not reached.
ClearsUnapplied == Clear /\ \E k \in DOMAIN updates : k >= walk

-------------------------------------------------------------------------------
\* What a well-typed list of updates holds.
LEMMA ListType ==
  ASSUME TypeOK
  PROVE  /\ Len(updates) \in Nat /\ DOMAIN updates = 1..Len(updates)
         /\ updates # << >> => Len(updates) \in DOMAIN updates
         /\ \A k \in DOMAIN updates : /\ updates[k].of \in Message /\ updates[k].at \in Address
                                     /\ updates[k].to \subseteq Session
<1> DEFINE R == [of : Message, at : Address, to : SUBSET Session]
<1>1. updates \in Seq(R)
  BY DEF TypeOK
<1> HIDE DEF R
<1>2. /\ Len(updates) \in Nat /\ DOMAIN updates = 1..Len(updates)
      /\ updates # << >> => Len(updates) \in DOMAIN updates
      /\ \A k \in DOMAIN updates : updates[k] \in R
  BY <1>1
<1> QED
  BY <1>2 DEF R

\* An empty list of updates is one.
LEMMA EmptyList == << >> \in Seq([of : Message, at : Address, to : SUBSET Session])
<1> DEFINE R == [of : Message, at : Address, to : SUBSET Session]
<1> HIDE DEF R
<1>1. << >> \in Seq(R)
  OBVIOUS
<1> QED
  BY <1>1 DEF R

\* The invariant holds at the start.
LEMMA InitWalk == Init => WalkInv
<1> SUFFICES ASSUME Init PROVE WalkInv
  OBVIOUS
<1>1. TypeOK
  BY EmptyList DEF Init, TypeOK
<1>2. Walk /\ Listed /\ Settled
  BY DEF Init, Walk, Listed, Settled
<1> QED
  BY <1>1, <1>2 DEF WalkInv

\* defer's push_back keeps the invariant: the new update is ahead of the walk.
LEMMA PushBackWalk ==
  ASSUME WalkInv, NEW m \in Message, PushBack(m)
  PROVE  WalkInv' /\ (NothingLost => NothingLost')
<1> USE DEF taskVars
<1>0. TypeOK /\ Walk /\ Listed /\ Settled
  BY DEF WalkInv
<1>1. PICK a \in Address : updates' = Append(updates, [of |-> m, at |-> a, to |-> {}])
  BY DEF PushBack
<1>2. /\ stage[m] = "received" /\ stage' = [stage EXCEPT ![m] = "subscribe"]
      /\ UNCHANGED <<events, garbage, posted, walk, clearing, applied, freed, fault>>
  BY DEF PushBack
<1> DEFINE R == [of : Message, at : Address, to : SUBSET Session]
           new == [of |-> m, at |-> a, to |-> {}]
           last == Len(updates) + 1
<1>3. new \in R /\ new.of = m /\ updates \in Seq(R)
  BY <1>0 DEF TypeOK
<1> HIDE DEF new, R
<1>4. updates' = Append(updates, new)
  BY <1>1 DEF new
<1>5. /\ updates' \in Seq(R) /\ Len(updates') = last
      /\ DOMAIN updates' = DOMAIN updates \cup {last} /\ last \notin DOMAIN updates
      /\ updates'[last] = new /\ \A k \in DOMAIN updates : updates'[k] = updates[k]
      /\ Len(updates) \in Nat
  BY <1>3, <1>4
<1>6. /\ stage' \in [Message -> {"received", "subscribe", "trash", "handled"}]
      /\ stage'[m] = "subscribe" /\ \A l \in Message \ {m} : stage'[l] = stage[l]
  BY <1>0, <1>2 DEF TypeOK
<1>7. TypeOK'
  BY <1>0, <1>2, <1>5, <1>6 DEF TypeOK, R
<1>8. \A k \in DOMAIN updates : updates[k].of \in Message /\ updates[k].of # m
  BY <1>0, <1>2, ListType DEF Listed
<1>9. m \notin applied
  BY <1>0, <1>2 DEF Settled
<1>10. walk <= last /\ walk \in Nat /\ last \in Nat
  BY <1>0, <1>5 DEF Walk, TypeOK
<1>11. Walk'
  BY <1>0, <1>2, <1>3, <1>5, <1>9, <1>10 DEF Walk
<1> HIDE DEF last
<1>12. Listed'
  BY <1>0, <1>2, <1>3, <1>5, <1>6, <1>8 DEF Listed
<1>13. Settled'
  BY <1>0, <1>2, <1>6 DEF Settled, TypeOK
<1>14. NothingLost => NothingLost'
  BY <1>2, <1>3, <1>5, <1>6 DEF NothingLost
<1> QED
  BY <1>7, <1>11, <1>12, <1>13, <1>14 DEF WalkInv

\* A new subscriber of the last update, whosoever it is, changes none of it.
LEMMA AddSubscriberWalk ==
  ASSUME WalkInv, NEW m \in Message, AddSubscriber(m)
  PROVE  WalkInv' /\ (NothingLost => NothingLost')
<1> USE DEF taskVars, listVars
<1>0. TypeOK /\ Walk /\ Listed /\ Settled
  BY DEF WalkInv
<1> DEFINE s == SenderOf[m]
           last == Len(updates)
           R == [of : Message, at : Address, to : SUBSET Session]
<1>1. /\ stage[m] = "subscribe" /\ stage' = [stage EXCEPT ![m] = "trash"] /\ s \in Session
      /\ UNCHANGED <<garbage, posted, walk, clearing, applied, freed>>
  BY SenderAssumption DEF AddSubscriber
<1>2. /\ stage' \in [Message -> {"received", "subscribe", "trash", "handled"}]
      /\ \A l \in Message : (stage'[l] = "received") = (stage[l] = "received")
  BY <1>0, <1>1 DEF TypeOK
<1>3. /\ events' \in [Session -> SUBSET Address] /\ updates' \in Seq(R)
      /\ Len(updates') = Len(updates) /\ DOMAIN updates' = DOMAIN updates
      /\ \A k \in DOMAIN updates : updates'[k].of = updates[k].of
      /\ fault' \in {"none", "back", "receive"}
  <2>1. updates \in Seq(R) /\ events \in [Session -> SUBSET Address] /\ fault \in {"none", "back", "receive"}
    BY <1>0 DEF TypeOK
  <2>2. CASE UNCHANGED listVars
    BY <2>1, <2>2 DEF AddSubscriber
  <2>3. CASE ~UNCHANGED listVars
    <3>1. /\ updates # << >> /\ UNCHANGED fault
          /\ events' = [events EXCEPT ![s] = @ \cup {updates[last].at}]
          /\ updates' = [updates EXCEPT ![last].to = @ \cup {s}]
      BY <2>3 DEF AddSubscriber, Subscribe
    <3>2. last \in DOMAIN updates /\ updates[last].at \in Address
      BY <1>0, <3>1, ListType
    <3>2a. updates[last] \in R
      <4> HIDE DEF R
      <4> QED
        BY <2>1, <3>2
    <3> DEFINE entry == [updates[last] EXCEPT !.to = @ \cup {s}]
    <3>3. entry \in R /\ entry.of = updates[last].of
      BY <1>1, <3>2a
    <3>4. updates' = [updates EXCEPT ![last] = entry]
      BY <3>1
    <3> HIDE DEF entry, R, s, last
    <3>5. /\ updates' \in Seq(R) /\ Len(updates') = Len(updates)
          /\ DOMAIN updates' = DOMAIN updates
          /\ \A k \in DOMAIN updates : updates'[k] = IF k = last THEN entry ELSE updates[k]
      BY <2>1, <3>2, <3>3, <3>4
    <3>6. events' \in [Session -> SUBSET Address]
      BY <1>1, <2>1, <3>1, <3>2
    <3> QED
      BY <2>1, <3>1, <3>3, <3>5, <3>6
  <2> QED
    BY <2>2, <2>3
<1>4. TypeOK'
  BY <1>0, <1>1, <1>2, <1>3 DEF TypeOK
<1>5. \A k \in DOMAIN updates : updates[k].of \in Message
  BY <1>0, ListType
<1>6. Walk'
  BY <1>0, <1>1, <1>3 DEF Walk
<1>7. Listed'
  BY <1>0, <1>2, <1>3, <1>5 DEF Listed
<1>8. Settled'
  BY <1>0, <1>1, <1>2 DEF Settled, TypeOK
<1>9. NothingLost => NothingLost'
  BY <1>1, <1>2, <1>3 DEF NothingLost
<1> QED
  BY <1>4, <1>6, <1>7, <1>8, <1>9 DEF WalkInv

\* trash leaves the list alone, and receive frees what was applied.
LEMMA CollectWalk ==
  ASSUME WalkInv, NEW m \in Message, Trash(m) \/ \E s \in Session : Receive(s, m)
  PROVE  WalkInv' /\ (NothingLost => NothingLost')
<1> USE DEF taskVars, listVars
<1>0. TypeOK /\ Walk /\ Listed /\ Settled
  BY DEF WalkInv
<1>1. CASE Trash(m)
  <2>1. /\ stage[m] = "trash" /\ stage' = [stage EXCEPT ![m] = "handled"]
        /\ garbage' = [garbage EXCEPT ![SenderOf[m]] = @ \cup {m}]
        /\ UNCHANGED <<updates, events, posted, walk, clearing, applied, freed, fault>>
        /\ SenderOf[m] \in Session
    BY <1>1, SenderAssumption DEF Trash
  <2>2. /\ stage' \in [Message -> {"received", "subscribe", "trash", "handled"}]
        /\ \A l \in Message : (stage'[l] = "received") = (stage[l] = "received")
    BY <1>0, <2>1 DEF TypeOK
  <2>3. TypeOK'
    BY <1>0, <2>1, <2>2 DEF TypeOK
  <2>4. \A k \in DOMAIN updates : updates[k].of \in Message
    BY <1>0, ListType
  <2>5. Walk' /\ Listed' /\ Settled'
    BY <1>0, <2>1, <2>2, <2>4 DEF Walk, Listed, Settled, TypeOK
  <2>6. NothingLost => NothingLost'
    BY <2>1, <2>2 DEF NothingLost
  <2> QED
    BY <2>3, <2>5, <2>6 DEF WalkInv
<1>2. CASE \E s \in Session : Receive(s, m)
  <2>1. PICK s \in Session : Receive(s, m)
    BY <1>2
  <2>2. /\ <<s, m>> \in posted /\ posted' = posted \ {<<s, m>>}
        /\ freed' \in {freed, freed \cup {m}}
        /\ garbage' \in {garbage, [garbage EXCEPT ![s] = @ \ {m}]}
        /\ fault' \in {fault, "receive"}
        /\ UNCHANGED <<stage, updates, events, walk, clearing, applied>>
    BY <2>1 DEF Receive
  <2>3. m \in applied
    BY <1>0, <2>2 DEF Settled
  <2>4. TypeOK'
    BY <1>0, <2>2 DEF TypeOK
  <2>5. Walk' /\ Listed' /\ Settled' /\ (NothingLost => NothingLost')
    BY <1>0, <2>2, <2>3 DEF Walk, Listed, Settled, NothingLost
  <2> QED
    BY <2>4, <2>5 DEF WalkInv
<1> QED
  BY <1>1, <1>2

\* update keeps the invariant, and loses a message only when it clears more than it walked.
LEMMA UpdatingWalk ==
  ASSUME WalkInv, Updating
  PROVE  WalkInv' /\ ((NothingLost => NothingLost') \/ ClearsUnapplied)
<1> USE DEF taskVars, listVars
<1>0. TypeOK /\ Walk /\ Listed /\ Settled
  BY DEF WalkInv
<1>a. /\ Len(updates) \in Nat /\ DOMAIN updates = 1..Len(updates) /\ walk \in Nat
      /\ \A k \in DOMAIN updates : updates[k].of \in Message /\ updates[k].to \subseteq Session
  BY <1>0, ListType DEF TypeOK
<1>1. CASE StartWalk
  <2>1. /\ walk = 0 /\ walk' = 1
        /\ UNCHANGED <<stage, updates, events, garbage, posted, clearing, applied, freed, fault>>
    BY <1>1 DEF StartWalk
  <2>2. TypeOK' /\ Listed' /\ Settled' /\ (NothingLost => NothingLost')
    BY <1>0, <2>1 DEF TypeOK, Listed, Settled, NothingLost
  <2>3. Walk'
    BY <1>0, <1>a, <2>1 DEF Walk
  <2> QED
    BY <2>2, <2>3 DEF WalkInv
<1>2. CASE ApplyNext
  <2> DEFINE u == updates[walk]
  <2>1. /\ walk \in DOMAIN updates /\ walk' = walk + 1
        /\ applied' = applied \cup {u.of} /\ posted' = posted \cup (u.to \X {u.of})
        /\ UNCHANGED <<stage, updates, events, garbage, clearing, freed, fault>>
    BY <1>2 DEF ApplyNext, Publish
  <2>2. u.of \in Message /\ u.to \subseteq Session /\ stage[u.of] # "received"
    BY <1>0, <1>a, <2>1 DEF Listed
  <2>3. TypeOK'
    BY <1>0, <2>1, <2>2 DEF TypeOK
  <2>4. \A k \in DOMAIN updates : (k < walk') <=> (k < walk \/ k = walk)
    BY <1>a, <2>1
  <2>5. walk' <= Len(updates) + 1
    BY <1>a, <2>1
  <2>6. \A k \in DOMAIN updates : updates[k].of = u.of <=> k = walk
    BY <1>0, <2>1 DEF Listed
  <2> HIDE DEF u
  <2>7. Walk'
    BY <1>0, <2>1, <2>4, <2>5, <2>6 DEF Walk
  <2>8. Listed' /\ (NothingLost => NothingLost')
    BY <1>0, <2>1 DEF Listed, NothingLost
  <2>9. Settled'
    BY <1>0, <2>1, <2>2 DEF Settled
  <2> QED
    BY <2>3, <2>7, <2>8, <2>9 DEF WalkInv
<1>3. CASE EndWalk
  BY <1>0, <1>3 DEF EndWalk, WalkInv, TypeOK, Walk, Listed, Settled, NothingLost
<1>4. CASE Clear
  <2>1. /\ updates' = << >> /\ walk' = 0 /\ clearing' = FALSE
        /\ UNCHANGED <<stage, events, garbage, posted, applied, freed, fault>>
    BY <1>4 DEF Clear
  <2>2. TypeOK'
    BY <1>0, <2>1, EmptyList DEF TypeOK
  <2>3. Walk' /\ Listed' /\ Settled'
    BY <1>0, <2>1 DEF Walk, Listed, Settled
  <2>4. ASSUME ~ClearsUnapplied PROVE NothingLost => NothingLost'
    <3>1. \A k \in DOMAIN updates : updates[k].of \in applied
      BY <1>0, <1>4, <1>a, <2>4 DEF ClearsUnapplied, Walk
    <3> QED
      BY <2>1, <3>1 DEF NothingLost
  <2> QED
    BY <2>2, <2>3, <2>4 DEF WalkInv
<1> QED
  BY <1>1, <1>2, <1>3, <1>4 DEF Updating

\* Every step keeps the invariant, and one kind of step only loses a message.
LEMMA NextWalk ==
  WalkInv /\ [Next]_vars => WalkInv' /\ ((NothingLost => NothingLost') \/ ClearsUnapplied)
<1> SUFFICES ASSUME WalkInv, [Next]_vars
             PROVE  WalkInv' /\ ((NothingLost => NothingLost') \/ ClearsUnapplied)
  OBVIOUS
<1>1. CASE Next
  BY <1>1, PushBackWalk, AddSubscriberWalk, CollectWalk, UpdatingWalk DEF Next, Handling
<1>2. CASE UNCHANGED vars
  BY <1>2 DEF vars, listVars, taskVars, WalkInv, TypeOK, Walk, Listed, Settled, NothingLost
<1> QED
  BY <1>1, <1>2

\* On any number of threads the walk is what separates the applied from the rest.
THEOREM WalkInvariance == Spec => []WalkInv
<1>1. Init => WalkInv
  BY InitWalk
<1>2. WalkInv /\ [Next]_vars => WalkInv'
  BY NextWalk
<1> QED
  BY <1>1, <1>2, PTL DEF Spec

\* On any number of threads a Deferable still to be applied refers to a message that is
\* there: the collector is told of it no sooner (DeferredUpdate.cpp:53-61).
THEOREM NoDangling == Spec => []NoDanglingUpdate
<1>1. WalkInv => NoDanglingUpdate
  BY DEF WalkInv, Walk, Settled, NoDanglingUpdate
<1> QED
  BY <1>1, WalkInvariance, PTL

\* On any number of threads, the one step that loses a message is a clear() that finds
\* updates pushed since its loop ended (DeferredUpdate.cpp:61).
THEOREM LostOnlyByClear == Spec => [][(NothingLost => NothingLost') \/ ClearsUnapplied]_vars
<1>1. WalkInv /\ [Next]_vars => [(NothingLost => NothingLost') \/ ClearsUnapplied]_vars
  BY NextWalk
<1> QED
  BY <1>1, WalkInvariance, PTL DEF Spec
===============================================================================
