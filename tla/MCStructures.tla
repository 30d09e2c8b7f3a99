----------------------------- MODULE MCStructures -----------------------------
(***************************************************************************)
(* Small instances of the data structures.  The queue has crawlers with    *)
(* ranks that tie; the ids fill two words and begin a third.               *)
(***************************************************************************)
EXTENDS Structures, TLC

CONSTANTS A, B, C   \* labels of the URL tree

(* URLs of every combination of parts; the words of a part are alike, as only the *)
(* delimiters matter.  No part holds a delimiter.                                 *)
a == <<"a">>
Dot == <<".">>
Words == {<< >>, a}
Address == <<<<"1">>, <<"1">>, <<"1">>, <<"1">>>>
Plain ==
  [scheme : {a}, username : {<< >>}, password : {<< >>},
   domain : {<<a>>, <<a, a>>, Address}, ip : {FALSE}, port : Words,
   path : {<< >>, <<a>>, <<a, a>>, <<a, Dot, a>>, <<a, Dot \o Dot>>, <<a, a, Dot \o Dot, Dot \o Dot, a>>},
   page : Words]
Login(p) == [p EXCEPT !.username = a, !.password = a]
Bare(p) == [p EXCEPT !.scheme = << >>]
Parts ==
  {[p EXCEPT !.ip = (p.domain = Address)] :
     p \in Plain \cup {Login(p) : p \in Plain} \cup {Bare(p) : p \in {b \in Plain : Len(b.domain) > 1}}}
Queries == {<< >>, << <<a, <<"b">>>> >>, << <<a, <<"b">>>>, <<<<"b">>, a>> >>}
MCInputs ==
  {u \in [attributes : Parts, query : Queries, anchor : {<< >>}] :
     u.attributes.page = << >> => u.query = << >>}
\* They can all be read again.
ASSUME \A u \in MCInputs : Parser!Readable(u)

(* Domains and paths of none to a few parts; any bound above them shows where a *)
(* size_t wraps.                                                                *)
MCShapes == [domain : 1..4, path : 0..3, page : BOOLEAN, ip : BOOLEAN]

(* Five pages, one of them on the way to another.  The first crawler takes three, which *)
(* are all of them or not, the second none and the last one more.                       *)
MCTrailUrls == {<<A>>, <<A, A>>, <<B, B, A>>, <<B, B, B>>, <<C>>}
MCUnits == <<3, 0, 1>>

(* Two pages next to each other, and one apart from them. *)
Aged == << <<A, A>>, <<A, B>>, <<B, A, A>> >>
MCAgedUrls == {Aged[1], Aged[2], Aged[3]}
MCEpoch == Aged[1] :> 2 @@ Aged[2] :> 4 @@ Aged[3] :> 6
=============================================================================
