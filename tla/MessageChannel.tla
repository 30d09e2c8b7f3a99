---------------------------- MODULE MessageChannel ----------------------------
(***************************************************************************)
(* What the OOP protocol promises in one direction of a connection: the    *)
(* messages pushed at one end are handled at the other, each once, in the  *)
(* order of the pushes.                                                    *)
(***************************************************************************)
EXTENDS Sequences, SequencesExt

CONSTANT Message

VARIABLES pushed, handled

Init == pushed = << >> /\ handled = << >>

Push(m) == pushed' = Append(pushed, m) /\ UNCHANGED handled

\* One call of handle_messages may handle several.
Handle ==
  /\ handled' \in Seq(Message)
  /\ IsPrefix(handled, handled') /\ IsPrefix(handled', pushed)
  /\ UNCHANGED pushed

Next == Handle \/ \E m \in Message : Push(m)

Spec == Init /\ [][Next]_<<pushed, handled>>
===============================================================================
