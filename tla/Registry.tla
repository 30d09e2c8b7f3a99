------------------------------- MODULE Registry -------------------------------
(***************************************************************************)
(* net/oop/Factory, the prototypes from which messages are made, found by  *)
(* their id through utility/BitSet: a prototype stands in the registry     *)
(* where its id stands among the ids enrolled, which the BitSet counts     *)
(* word by word.  A word is the set of its bits that are 1.                *)
(***************************************************************************)
EXTENDS Integers, Sequences, FiniteSets

CONSTANTS
  MaxId,     \* MAX_MESSAGE_ID
  WordBits,  \* BITS_PER_VALUE, 32 in the code
  AnyOrder,  \* whether ids may be enrolled in any order; Messages.cpp has them ascend
  Null

RegistryAssumption ==
  MaxId \in Nat /\ WordBits \in Nat \ {0} /\ AnyOrder \in BOOLEAN

VARIABLES
  set,       \* BitSet::set, its words
  registry,  \* Factory::registry, of prototypes; a prototype is its id
  enrolled   \* the ids enrolled so far

vars == <<set, registry, enrolled>>

-------------------------------------------------------------------------------
(* utility/BitSet.cpp *)

Word(value) == value \div WordBits
Bit(value) == value % WordBits

PopulationCount(word) == Cardinality(word)

\* The bits below the limit: the others are shifted out at the top of the word, for
\* which a shift by all of its width would not do.
ShiftLeft(word, n) == {b + n : b \in word} \cap 0..WordBits - 1
PopulationCountBelow(word, limit) ==
  IF limit = 0 THEN 0 ELSE PopulationCount(ShiftLeft(word, WordBits - limit))

HasValue(value) == value <= MaxId /\ Bit(value) \in set[Word(value)]

\* (A version that counts in the value's own word only.)
IndexInWord(value) ==
  IF HasValue(value) THEN PopulationCountBelow(set[Word(value)], Bit(value)) ELSE -1

\* The bits that are 1 in the words before the one.
BitsBefore[w \in 0..Word(MaxId)] ==
  IF w = 0 THEN 0 ELSE BitsBefore[w - 1] + PopulationCount(set[w - 1])
IndexOf(value) ==
  IF HasValue(value)
  THEN BitsBefore[Word(value)] + PopulationCountBelow(set[Word(value)], Bit(value))
  ELSE -1

-------------------------------------------------------------------------------
(* net/oop/Factory.cpp *)

Init ==
  /\ set = [w \in 0..Word(MaxId) |-> {}]
  /\ registry = << >>
  /\ enrolled = {}

\* enroll makes room for one more at the end and puts the prototype where its id
\* stands, over the one that may be there.
Enroll(id) ==
  /\ AnyOrder \/ \A e \in enrolled : e < id
  /\ ~HasValue(id)
  /\ set' = [set EXCEPT ![Word(id)] = @ \cup {Bit(id)}]
  /\ registry' = [Append(registry, Null) EXCEPT ![IndexOf(id)' + 1] = id]
  /\ enrolled' = enrolled \cup {id}

Next == \E id \in 0..MaxId : Enroll(id)

Spec == Init /\ [][Next]_vars

\* create: the prototype's id, Null when there is none.
Create(id) == IF IndexOf(id) = -1 THEN Null ELSE registry[IndexOf(id) + 1]

-------------------------------------------------------------------------------
(* Properties *)

\* An id that was enrolled makes a message of its own kind, any other makes none: the
\* place of a prototype, which follows from the bits set below its id, is still its
\* place when other ids have been enrolled (Factory.cpp:30-64, BitSet.cpp:25-130).
CreatesItsOwn ==
  \A id \in 0..MaxId + 1 : Create(id) = IF id \in enrolled THEN id ELSE Null
=============================================================================
