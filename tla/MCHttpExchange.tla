--------------------------- MODULE MCHttpExchange ---------------------------
(* A page that is not there, one that fits the buffer, one that takes two. *)
EXTENDS HttpExchange, TLC

CONSTANTS missing, small, large
Pages == {missing, small, large}
Bodies == missing :> 0 @@ small :> 1 @@ large :> 11
=============================================================================
