------------------------------- MODULE UrlParser -------------------------------
(***************************************************************************)
(* url/Parser.cpp reads a URL from left to right, one state for each part, *)
(* and url/URL.cpp writes it again.  A character is a letter, a digit or   *)
(* one of the delimiters the parser looks for.  Positions count from 1,    *)
(* and the position after the last character stands for string::npos.      *)
(***************************************************************************)
EXTENDS Naturals, Sequences, FiniteSets, FiniteSetsExt

CONSTANTS
  Inputs   \* the URLs to parse: records of their parts, see Written

VARIABLES
  input,       \* the parts of the URL
  url,         \* its characters
  i,           \* local i of parse
  state,       \* local s of parse, and Normalise and Done after its loop
  attributes,  \* Attributes, without the query
  query,       \* local query_string, a set of pairs; NoQuery is NULL
  item,        \* local i of normalise, a position in the path
  last,        \* local j of normalise, the end of the path when it began
  fault

vars == <<input, url, i, state, attributes, query, item, last, fault>>

NoQuery == "none"
Empty == << >>

-------------------------------------------------------------------------------
(* url/URL.cpp *)

\* The parts of a sequence with a delimiter after each but the last, and after each.
Between(parts, d) ==
  LET f[k \in 0..Len(parts)] ==
        IF k = 0 THEN Empty ELSE f[k - 1] \o (IF k = 1 THEN Empty ELSE d) \o parts[k]
  IN  f[Len(parts)]
AfterEach(parts, d) == IF parts = Empty THEN Empty ELSE Between(parts, d) \o d

\* to_stream, host and resource.
Printed(a) ==
  (IF a.scheme = Empty THEN Empty ELSE a.scheme \o <<":", "/", "/">>)
  \o (IF a.username = Empty THEN Empty
      ELSE a.username \o (IF a.password = Empty THEN Empty ELSE <<":">> \o a.password) \o <<"@">>)
  \o Between(a.domain, <<".">>)
  \o (IF a.port = Empty THEN Empty ELSE <<":">> \o a.port)
  \o <<"/">> \o AfterEach(a.path, <<"/">>) \o a.page

\* How a URL is written that has a query or an anchor as well, as the rule before
\* Parser::parse has it.
Written(u) ==
  Printed(u.attributes)
  \o (IF u.query = Empty THEN Empty
      ELSE <<"?">> \o Between([k \in DOMAIN u.query |-> u.query[k][1] \o <<"=">> \o u.query[k][2]], <<"&">>))
  \o (IF u.anchor = Empty THEN Empty ELSE <<"#">> \o u.anchor)

-------------------------------------------------------------------------------
(* url/Parser.cpp *)

\* find_first_of from a position on, and find_last_of up to one; 0 for no last one.
FirstOf(chars, from) == Min({k \in from..Len(url) : url[k] \in chars} \cup {Len(url) + 1})
LastOf(chars, to) ==
  Max({k \in 1..Len(url) : k <= to /\ url[k] \in chars} \cup {0})

\* The characters from one position up to, not including, another, cut at a delimiter.
Chars(from, to) == [k \in 1..(to - from) |-> url[from + k - 1]]
CutAt(from, to, d) ==
  LET cuts == {k \in from..to - 1 : url[k] = d}
      ends[k \in from - 1..to - 1] ==   \* the delimiters up to k, in order
        IF k < from THEN Empty ELSE IF k \in cuts THEN Append(ends[k - 1], k) ELSE ends[k - 1]
      at == <<from - 1>> \o ends[to - 1] \o <<to>>
  IN  [n \in 1..Cardinality(cuts) + 1 |-> Chars(at[n] + 1, at[n + 1])]

Init ==
  /\ input \in Inputs
  /\ url = Written(input)
  /\ i = 1
  /\ state = IF FirstOf({":", "/"}, 1) > FirstOf({"."}, 1) THEN "Domain" ELSE "Scheme"
  /\ attributes = [scheme |-> Empty, username |-> Empty, password |-> Empty, domain |-> Empty,
                   ip |-> FALSE, port |-> Empty, path |-> Empty, page |-> Empty]
  /\ query = NoQuery
  /\ item = 0 /\ last = 0
  /\ fault = "none"

\* One turn of parse's loop in a state that takes a character at a time: it belongs to
\* the part, or it is the delimiter that ends it.
Take(part, end, next) ==
  /\ IF url[i] = end
     THEN state' = next /\ UNCHANGED attributes
     ELSE attributes' = [attributes EXCEPT ![part] = Append(@, url[i])] /\ UNCHANGED state
  /\ i' = i + 1
  /\ UNCHANGED <<input, url, query, item, last, fault>>

In(s) == fault = "none" /\ state = s /\ i <= Len(url)

\* tokenise_scheme: the two slashes are skipped, and an @ before the next slash means
\* that a user name comes first.
\* (A version that takes the second of the two for that slash.)
AfterSchemeEarly == IF LastOf({"@"}, FirstOf({"/"}, i + 2)) # 0 THEN "Username" ELSE "Domain"
AfterScheme ==
  IF LastOf({"@"}, FirstOf({"/"}, i + 3)) # 0 THEN "Username" ELSE "Domain"
Scheme ==
  /\ In("Scheme")
  /\ IF url[i] = ":"
     THEN i' = i + 3 /\ state' = AfterScheme /\ UNCHANGED attributes
     ELSE i' = i + 1 /\ attributes' = [attributes EXCEPT !.scheme = Append(@, url[i])]
          /\ UNCHANGED state
  /\ UNCHANGED <<input, url, query, item, last, fault>>

Username == In("Username") /\ Take("username", ":", "Password")
Password == In("Password") /\ Take("password", "@", "Domain")
Port == In("Port") /\ Take("port", "/", "Path")
Page == In("Page") /\ Take("page", "?", "Query")

\* tokenise_domain: up to the slash, or to the colon of a port; four numbers are an
\* address.
Number(w) == w # Empty /\ \A k \in DOMAIN w : w[k] = "1"
Address(parts) ==
  /\ Number(parts[Len(parts)])
  /\ Cardinality({k \in 1..Len(parts) - 1 : Number(parts[k])}) = 3
DomainEnd ==
  \E slash \in {FirstOf({"/"}, i)} : \E colon \in {LastOf({":"}, slash)} :
    LET end == IF colon > i THEN colon ELSE slash
        parts == CutAt(i, end, ".")
    IN  /\ attributes' = [attributes EXCEPT !.domain = parts, !.ip = Address(parts)]
        /\ i' = end + 1
        /\ state' = IF end > Len(url) THEN "Page" ELSE IF url[end] = ":" THEN "Port" ELSE "Path"
Domain ==
  /\ In("Domain") /\ DomainEnd
  /\ UNCHANGED <<input, url, query, item, last, fault>>

\* tokenise_path: up to the last slash of the whole URL.  When that is the one that led
\* here, the position is put back for it to be skipped again.
Path ==
  /\ In("Path")
  /\ state' = "Page"
  /\ \E slash \in {LastOf({"/"}, Len(url))} :
       IF slash = i - 1
       THEN i' = i /\ UNCHANGED attributes
       ELSE /\ attributes' = [attributes EXCEPT !.path = CutAt(i, slash, "/")]
            /\ i' = slash + 1
  /\ UNCHANGED <<input, url, query, item, last, fault>>

\* tokenise_query: the pairs up to the anchor, all in one turn.  A key without a value
\* gets the URL itself, by the substring from npos + 1 on.
EqualsAt(k) == FirstOf({"="}, k)
PairEnd(k, max) ==
  LET amp == FirstOf({"&"}, EqualsAt(k)) IN IF amp > Len(url) THEN max + 1 ELSE amp
PairAt(k, max) ==
  LET past == Len(url) + 1
  IN  <<Chars(k, EqualsAt(k)),
        IF EqualsAt(k) > Len(url) THEN Chars(1, Min({max + 1, past}))
        ELSE Chars(EqualsAt(k) + 1, Min({PairEnd(k, max), past}))>>
AfterPair(k, max) == IF k < max THEN PairEnd(k, max) + 1 ELSE k
PairsFrom(from, max) ==
  LET index[n \in 0..Len(url)] ==   \* where the loop is after n turns
        IF n = 0 THEN from ELSE AfterPair(index[n - 1], max)
  IN  [pairs |-> {PairAt(k, max) : k \in {index[n] : n \in 0..Len(url)} \cap 1..max - 1},
       index |-> index[Len(url)]]
Query ==
  /\ In("Query")
  /\ IF query # NoQuery
     THEN fault' = "assert(!query_string)" /\ UNCHANGED <<i, query>>
     ELSE \E anchor \in {FirstOf({"#"}, i)} :
          \E found \in {PairsFrom(i, IF anchor > Len(url) THEN anchor ELSE anchor - 1)} :
            query' = found.pairs /\ i' = found.index + 1 /\ UNCHANGED fault
  /\ UNCHANGED <<input, url, state, attributes, item, last>>

\* The loop of parse is over, normalise begins.
Parsed ==
  /\ fault = "none" /\ i > Len(url) /\ state \notin {"Normalise", "Done"}
  /\ state' = "Normalise"
  /\ item' = 1 /\ last' = Len(attributes.path) + 1
  /\ UNCHANGED <<input, url, i, attributes, query, fault>>

\* normalise: one turn of its loop.  ".." takes the part before it along, and needs one;
\* "." goes, and at the front of the path the part that takes its place is passed over.
\* The end of the path is not read again after an erase: what is past the new end is
\* destroyed strings, taken to differ from the dots, which is what the run of the tests
\* relies on.
Without(path, from, to) == SubSeq(path, 1, from - 1) \o SubSeq(path, to + 1, Len(path))
Up(path, k) == Without(path, k - 1, k)
Part(k) == IF k <= Len(attributes.path) THEN attributes.path[k] ELSE <<"dead">>
Normalise ==
  /\ fault = "none" /\ state = "Normalise" /\ item < last
  /\ CASE Part(item) = <<".", ".">> /\ item = 1 ->
            fault' = "erase before the path" /\ UNCHANGED <<attributes, item>>
       [] Part(item) = <<".", ".">> /\ item > 1 ->
            /\ attributes' = [attributes EXCEPT !.path = Up(@, item)]
            /\ item' = item - 1
            /\ UNCHANGED fault
       [] Part(item) = <<".">> ->
            /\ attributes' = [attributes EXCEPT !.path = Without(@, item, item)]
            /\ item' = IF item = 1 THEN 2 ELSE item
            /\ UNCHANGED fault
       [] OTHER -> item' = item + 1 /\ UNCHANGED <<attributes, fault>>
  /\ UNCHANGED <<input, url, i, state, query, last>>

Normalised ==
  /\ fault = "none" /\ state = "Normalise" /\ item >= last
  /\ state' = "Done"
  /\ UNCHANGED <<input, url, i, attributes, query, item, last, fault>>

Next ==
  \/ Scheme \/ Username \/ Password \/ Domain \/ Port \/ Path \/ Page \/ Query
  \/ Parsed \/ Normalise \/ Normalised

Spec == Init /\ [][Next]_vars

-------------------------------------------------------------------------------
(* Properties *)

\* The path without its dots, as a reader resolves it from left to right.
Resolved(path) ==
  LET f[k \in 0..Len(path)] ==
        IF k = 0 THEN Empty
        ELSE CASE path[k] = <<".">> -> f[k - 1]
               [] path[k] = <<".", ".">> -> SubSeq(f[k - 1], 1, Len(f[k - 1]) - 1)
               [] OTHER -> Append(f[k - 1], path[k])
  IN  f[Len(path)]

\* The URLs that can be read again.  A character is any string of length one, its case
\* left out (the parser lowers that of a host); the delimiters are named, as they are
\* written.  A part has none of the delimiters that the parser looks for in it, nor those
\* that a search from an earlier part meets first: a login needs a scheme before it and a
\* password, a host that begins the URL needs a dot, and no slash may follow the path.
\* There is no anchor: without a query the parser leaves it in the page, with one an
\* assertion fails.  Each ".." or "." of the path has a part before it to act on.
Delimiter == {":", "/", "@", ".", "?", "=", "&", "#"}
Character == STRING \cup Delimiter
Text == Seq(Character)
Free(w, chars) == \A k \in 1..Len(w) : w[k] \notin chars
AttributesType ==
  [scheme : Text, username : Text, password : Text, domain : Seq(Text),
   ip : BOOLEAN, port : Text, path : Seq(Text), page : Text]
UrlType == [attributes : AttributesType, query : Seq(Text \X Text), anchor : {Empty}]

SchemeReadable(a) == Free(a.scheme, {":", ".", "@"})
LoginReadable(a) ==
  /\ a.username = Empty <=> a.password = Empty
  /\ a.username # Empty => a.scheme # Empty
  /\ Free(a.username, {":", "/"}) /\ Free(a.password, {"@", "/"})
HostReadable(a) ==
  /\ Len(a.domain) # 0 /\ (a.scheme = Empty => Len(a.domain) > 1)
  /\ \A k \in 1..Len(a.domain) : a.domain[k] # Empty /\ Free(a.domain[k], {".", ":", "/", "@"})
  /\ a.ip = Address(a.domain)
  /\ Free(a.port, {":", "/", "@"})
DotsInside(path) ==
  \A k \in 1..Len(path) :
    path[k] \in {<<".">>, <<".", ".">>} => Resolved(SubSeq(path, 1, k - 1)) # Empty
PathReadable(a) ==
  /\ \A k \in 1..Len(a.path) : Free(a.path[k], {"/"})
  /\ DotsInside(a.path)
  /\ Free(a.page, {"/", "?"})
QueryReadable(u) ==
  \A k \in 1..Len(u.query) :
    Free(u.query[k][1], {"=", "/", "#"}) /\ Free(u.query[k][2], {"&", "/", "#"})
Readable(u) ==
  /\ u \in UrlType
  /\ SchemeReadable(u.attributes) /\ LoginReadable(u.attributes) /\ HostReadable(u.attributes)
  /\ PathReadable(u.attributes) /\ QueryReadable(u)

\* What a URL is written from is what the parser finds in it, its query apart and the
\* dots of its path resolved, and reading it neither trips an assertion nor leaves the
\* path: the delimiters mean different things in each part, and each part is looked for
\* with a search that may run into the next (Parser.cpp:71-247, URL.cpp:140-218).
ReadsWhatWasWritten ==
  /\ fault = "none"
  /\ state = "Done" =>
       /\ attributes = [input.attributes EXCEPT !.path = Resolved(@)]
       /\ query = IF input.query = Empty THEN NoQuery
                  ELSE {input.query[k] : k \in DOMAIN input.query}
===============================================================================
