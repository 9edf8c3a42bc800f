------------------------------- MODULE Config -------------------------------
(***************************************************************************)
(* What a configuration is to the server: the tokens it is read from, the  *)
(* classes ServerConfig and LocationConfig it is kept in, and the one look-*)
(* up they offer, getBestMatchLocation().                                  *)
(*                                                                         *)
(* A path is the sequence of what stands between its slashes: "/files/a" is *)
(* <<"", "files", "a">>, "/files/" is <<"", "files", "">>, "/" is <<"", "">>. *)
(***************************************************************************)
EXTENDS Naturals, Sequences, FiniteSets, SequencesExt

CONSTANTS
    Begins,    \* pairs <<a, b>> of names: b begins with a, and is longer
    EndsIn,    \* pairs <<n, x>>: the name n ends in the extension x
    WORD,      \* what a size_t can count to (2^64)
    KILO,      \* 1024
    Leftovers  \* what a size_t that nobody has set may hold

ASSUME SizesAssumption ==
    WORD \in Nat /\ KILO \in Nat \ {0} /\ Leftovers # {} /\ Leftovers \subseteq 0..(WORD - 1)

-----------------------------------------------------------------------------
(* Tokens: a word or a brace, a path, an address, a number and its unit *)

String == STRING

Token == [word : String] \cup [path : Seq(String)] \cup [host : String, port : Nat]
         \cup [num : Nat, unit : String] \cup [unit : String]

Word(s)      == [word |-> s]
Path(p)      == [path |-> p]
Addr(h, n)   == [host |-> h, port |-> n]
Number(n, u) == [num |-> n, unit |-> u]
Unit(u)      == [unit |-> u]             \* "M" with no digits before it

Factor(unit) == CASE unit = "k" -> KILO
                  [] unit = "m" -> KILO * KILO
                  [] unit = "g" -> KILO * KILO * KILO
                  [] OTHER      -> 1

IsDigits(t) == "num" \in DOMAIN t /\ t.unit = ""

\* A token where a host or an extension is expected.
WordOf(t) == IF "word" \in DOMAIN t THEN t.word ELSE "?"

\* A token where a path or a file name is expected; no file has another's name.
PathOf(t) ==
    IF "path" \in DOMAIN t THEN t.path
    ELSE IF "word" \in DOMAIN t THEN <<t.word>> ELSE <<"?">>

-----------------------------------------------------------------------------
(* class ServerConfig, class LocationConfig; <<>> for an empty path *)

NewServer == [host |-> "0.0.0.0", port |-> 80, names |-> <<>>, pages |-> <<>>,
              limit |-> KILO * KILO, root |-> <<>>, autoindex |-> "off", index |-> <<>>,
              locations |-> <<>>]

NewLocation(path) ==
    [path |-> path, root |-> <<>>, autoindex |-> "inherit", index |-> <<>>,
     code |-> 0, url |-> <<>>, hasLimit |-> FALSE, limit |-> 0, store |-> <<>>,
     methods |-> <<>>, ext |-> "", pass |-> <<>>]

IsMethodAllowed(l, method) == l.methods = <<>> \/ Contains(l.methods, Word(method))

\* The string b begins with the string a.
BeginsWith(b, a) == a = b \/ a = "" \/ <<a, b>> \in Begins

\* uri.find(path) == 0: as strings, not by segments.
IsStringPrefix(path, uri) ==
    /\ Len(path) <= Len(uri)
    /\ Front(path) = SubSeq(uri, 1, Len(path) - 1)
    /\ BeginsWith(uri[Len(path)], Last(path))

\* Of two prefixes of one string, p is the longer.
Longer(p, q) ==
    \/ Len(p) > Len(q)
    \/ Len(p) = Len(q) /\ Last(p) # Last(q) /\ BeginsWith(Last(p), Last(q))

\* The location with the longest prefix of uri, the first of equals; 0 for none.
GetBestMatchLocation(server, uri) ==
    LET ls == server.locations
        matches == {k \in DOMAIN ls : IsStringPrefix(ls[k].path, uri)}
        best == {k \in matches : \A j \in matches : /\ ~Longer(ls[j].path, ls[k].path)
                                                    /\ ls[j].path = ls[k].path => k <= j}
    IN IF best = {} THEN 0 ELSE CHOOSE k \in best : TRUE
=============================================================================
