----------------------------- MODULE MCOopChannel -----------------------------
(***************************************************************************)
(* A message that fits a buffer of 5 bytes, one that ends with it and one  *)
(* that takes two of them.                                                 *)
(***************************************************************************)
EXTENDS OopChannel

CONSTANTS small, exact, large

\* With headers of 2 bytes they take 3, 5 and 6.
Bodies == [m \in Message |-> CASE m = small -> 1 [] m = exact -> 3 [] m = large -> 4]
===============================================================================
