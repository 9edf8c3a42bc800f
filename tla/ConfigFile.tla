----------------------------- MODULE ConfigFile -----------------------------
(***************************************************************************)
(* A configuration file as its author sees it: blocks of directives, what  *)
(* they look like as tokens, and what they mean.  Nothing here knows how   *)
(* the parser goes about it.                                               *)
(***************************************************************************)
EXTENDS Config

Statement(name, args)   == [name |-> name, args |-> args]
Block(name, args, body) == [name |-> name, args |-> args, body |-> body]

-----------------------------------------------------------------------------
(* What may stand in a file *)

Punctuation == {Word("{"), Word("}"), Word(";")}

Plain         == Token \ Punctuation
Statements    == [name : String, args : Seq(Plain)]
Blocks(Items) == [name : String, args : Seq(Plain), body : Seq(Items)]

\* A directive of one argument, of one of some kinds.
One(d, name, kinds) == d.name = name /\ Len(d.args) = 1 /\ kinds \cap DOMAIN d.args[1] # {}

\* Directives that both blocks have.
OfEither(d) ==
    \/ One(d, "root", {"path"})
    \/ One(d, "client_max_body_size", {"unit"})
    \/ d.name = "autoindex" /\ d.args \in {<<Word("on")>>, <<Word("off")>>}
    \/ d.name = "index"

OfServer(d) ==
    \/ OfEither(d)
    \/ One(d, "listen", {"host", "num", "word"})
    \/ d.name = "server_name"
    \/ d.name = "error_page" /\ (d.args # <<>> =>
          "path" \in DOMAIN Last(d.args) /\ \A k \in 1..(Len(d.args) - 1) : IsDigits(d.args[k]))

OfLocation(d) ==
    \/ OfEither(d)
    \/ One(d, "upload_store", {"path"}) \/ One(d, "cgi_ext", {"word"}) \/ One(d, "cgi_pass", {"path"})
    \/ d.name = "return" /\ Len(d.args) = 2 /\ IsDigits(d.args[1]) /\ "path" \in DOMAIN d.args[2]
    \/ /\ d.name = "allow_methods" /\ d.args # <<>>
       /\ Range(d.args) \subseteq {Word("GET"), Word("POST"), Word("DELETE")}

IsLocation(d) == One(d, "location", {"path"}) /\ \A k \in DOMAIN d.body : OfLocation(d.body[k])

IsServer(b) ==
    /\ b.name = "server" /\ b.args = <<>>
    /\ \A k \in DOMAIN b.body : IF "body" \in DOMAIN b.body[k] THEN IsLocation(b.body[k])
                                                              ELSE OfServer(b.body[k])
    /\ \E k \in DOMAIN b.body : b.body[k].name = "listen"

\* A file is a sequence of server blocks.
IsFile(file) ==
    /\ file \in Seq(Blocks(Statements \cup Blocks(Statements))) /\ file # <<>>
    /\ \A k \in DOMAIN file : IsServer(file[k])

-----------------------------------------------------------------------------
(* What it looks like *)

Names == {"listen", "server_name", "error_page", "client_max_body_size", "root", "autoindex",
          "index", "location", "return", "upload_store", "allow_methods", "cgi_ext", "cgi_pass"}

\* The directives that list any number of things, of any kind.
Lists == {"server_name", "error_page", "index"}

\* A token, and whether the file may still be well formed without it, though
\* it does not say the same.
Mark(t, spare) == [token |-> t, spare |-> spare]

\* Without its name, a statement is another one if it has no arguments, or
\* one that reads like a name.
MarkedStatement(d) ==
    LET several == d.name = "allow_methods" /\ Len(d.args) > 1
    IN <<Mark(Word(d.name), d.args = <<>> \/ d.args[1] \in {Word(n) : n \in Names})>>
       \o [k \in DOMAIN d.args |-> Mark(d.args[k], d.name \in Lists \/ several)]
       \o <<Mark(Word(";"), d.name \in Lists)>>

MarkedBlock(b, inside) ==
    <<Mark(Word(b.name), FALSE)>> \o [k \in DOMAIN b.args |-> Mark(b.args[k], FALSE)]
    \o <<Mark(Word("{"), FALSE)>> \o FlattenSeq(inside) \o <<Mark(Word("}"), FALSE)>>

MarkedLocation(d) ==
    IF "body" \in DOMAIN d
    THEN MarkedBlock(d, [k \in DOMAIN d.body |-> MarkedStatement(d.body[k])])
    ELSE MarkedStatement(d)

MarkedServer(b) == MarkedBlock(b, [k \in DOMAIN b.body |-> MarkedLocation(b.body[k])])

Marked(file) == FlattenSeq([k \in DOMAIN file |-> MarkedServer(file[k])])

Written(file) == LET m == Marked(file) IN [k \in DOMAIN m |-> m[k].token]

\* The file with its k-th token left out.
Without(file, k) == RemoveAt(Written(file), k)

WithoutSpare(file) == {Without(file, k) : k \in {j \in DOMAIN Marked(file) : Marked(file)[j].spare}}

-----------------------------------------------------------------------------
(* What it means *)

\* All that is listed under a name, in order.
All(body, name) ==
    FlattenSeq([k \in DOMAIN body |-> IF body[k].name = name THEN body[k].args ELSE <<>>])

\* What is said last under a name.
Said(body, name, default) ==
    LET k == SelectLastInSeq(body, LAMBDA d : d.name = name)
    IN IF k = 0 THEN default ELSE body[k].args

Amount(t) == t.num * Factor(t.unit)

PathSaid(body, name) ==
    LET args == Said(body, name, <<>>) IN IF args = <<>> THEN <<>> ELSE args[1].path

LocationMeant(path, body) ==
    LET size == Said(body, "client_max_body_size", <<>>)
        to == Said(body, "return", <<Number(0, ""), Path(<<>>)>>)
    IN [path |-> path,
        root |-> PathSaid(body, "root"),
        autoindex |-> Said(body, "autoindex", <<Word("inherit")>>)[1].word,
        index |-> All(body, "index"),
        code |-> to[1].num, url |-> to[2].path,
        hasLimit |-> size # <<>>, limit |-> IF size = <<>> THEN 0 ELSE Amount(size[1]),
        store |-> PathSaid(body, "upload_store"),
        methods |-> All(body, "allow_methods"),
        ext |-> Said(body, "cgi_ext", <<Word("")>>)[1].word,
        pass |-> PathSaid(body, "cgi_pass")]

LocationsMeant(body) ==
    FlattenSeq([k \in DOMAIN body |->
        IF body[k].name = "location" THEN <<LocationMeant(body[k].args[1].path, body[k].body)>> ELSE <<>>])

\* The codes that an error_page gives a page.
CodesOf(d) == IF d.name = "error_page" THEN {d.args[k].num : k \in 1..(Len(d.args) - 1)} ELSE {}

PagesMeant(body) ==
    [c \in UNION {CodesOf(body[k]) : k \in DOMAIN body} |->
       Last(body[SelectLastInSeq(body, LAMBDA d : c \in CodesOf(d))].args).path]

\* A listen has a host, a port, or both.
HostMeant(listens) ==
    LET k == SelectLastInSeq(listens, LAMBDA t : "num" \notin DOMAIN t)
    IN IF k = 0 THEN "0.0.0.0"
       ELSE IF "host" \in DOMAIN listens[k] THEN listens[k].host ELSE listens[k].word

PortMeant(listens) ==
    LET k == SelectLastInSeq(listens, LAMBDA t : "word" \notin DOMAIN t)
    IN IF k = 0 THEN 80
       ELSE IF "host" \in DOMAIN listens[k] THEN listens[k].port ELSE listens[k].num

ServerMeant(body) ==
    [host |-> HostMeant(All(body, "listen")),
     port |-> PortMeant(All(body, "listen")),
     names |-> All(body, "server_name"),
     pages |-> PagesMeant(body),
     limit |-> Amount(Said(body, "client_max_body_size", <<Number(1, "m")>>)[1]),
     root |-> PathSaid(body, "root"),
     autoindex |-> Said(body, "autoindex", <<Word("off")>>)[1].word,
     index |-> All(body, "index"),
     locations |-> LocationsMeant(body)]

Meant(file) == [k \in DOMAIN file |-> ServerMeant(file[k].body)]

\* Every size in the file is a number that a size_t can hold.
Fits(body) ==
    \A k \in DOMAIN body : body[k].name = "client_max_body_size" =>
        "num" \in DOMAIN body[k].args[1] /\ Amount(body[k].args[1]) < WORD

SizesFit(file) ==
    \A k \in DOMAIN file :
        /\ Fits(file[k].body)
        /\ \A j \in DOMAIN file[k].body :
              file[k].body[j].name = "location" => Fits(file[k].body[j].body)
=============================================================================
