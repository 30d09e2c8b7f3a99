---------------------------- MODULE MCDeferredUpdate ----------------------------
(***************************************************************************)
(* Three reports of two crawlers, or two of one.                           *)
(***************************************************************************)
EXTENDS DeferredUpdate, TLC

CONSTANTS s1, s2, m1, m2, m3

TwoSessions == m1 :> s1 @@ m2 :> s1 @@ m3 :> s2
OneSession == m1 :> s1 @@ m2 :> s1
===============================================================================
