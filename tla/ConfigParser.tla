---------------------------- MODULE ConfigParser ----------------------------
(***************************************************************************)
(* The configuration file's parser (src/ConfigParser/ConfigParser.cpp): one *)
(* action for what starts at the token it has come to.  An exception ends   *)
(* the program before any socket is open.                                  *)
(***************************************************************************)
EXTENDS Config, Integers

CONSTANT Files   \* the files a server may be started with, as tokens

ASSUME TokensAssumption == Files \subseteq Seq(Token)

VARIABLES
    tokens,   \* ConfigParser::_tokens
    pos,      \* i of _buildTree(), counted from 1
    block,    \* where it is: before the first token, or in which block
    server,   \* newServer
    listens,  \* hasListen
    location, \* newLocation
    servers,  \* ConfigParser::_servers
    verdict   \* whether parse() has returned, or thrown

parserVars == <<tokens, pos, block, server, listens, location, servers, verdict>>

-----------------------------------------------------------------------------
(* Tokens from pos on *)

Is(p, s) == p <= Len(tokens) /\ tokens[p] = Word(s)

\* The place of the first ";" from p on; 0 if there is none.
Semicolon(p) == SelectInSubSeq(tokens, p, Len(tokens), LAMBDA t : t = Word(";"))

\* Variant: what is behind the argument is not looked at.
HasArgumentOnly == pos + 1 <= Len(tokens) /\ ~Is(pos + 1, ";")

\* One argument and the ";" behind it.
HasArgument == pos + 1 <= Len(tokens) /\ ~Is(pos + 1, ";") /\ Is(pos + 2, ";")

Arg == tokens[pos + 1]

\* What a list directive lists.
List == SubSeq(tokens, pos + 1, Semicolon(pos + 1) - 1)

\* Braces opened less braces closed, up to p.
Depth(p) == Cardinality({k \in 1..p : Is(k, "{")}) - Cardinality({k \in 1..p : Is(k, "}")})

Balanced == (\A p \in DOMAIN tokens : Depth(p) >= 0) /\ Depth(Len(tokens)) = 0

\* What client_max_body_size may make of t, none if it is no number: a product
\* that wraps, of a number capped by operator>>, or of none at all.
SizesOf(t) ==
    LET read == IF "num" \notin DOMAIN t THEN Leftovers
                ELSE IF t.num >= WORD THEN {WORD - 1} ELSE {t.num}
    IN IF "unit" \in DOMAIN t THEN {(n * Factor(t.unit)) % WORD : n \in read} ELSE {}

\* error_page: each code goes with the last path that follows it.
PagesOf(list) ==
    LET paths == {k \in DOMAIN list : ~IsDigits(list[k])}
        last == CHOOSE k \in paths : \A j \in paths : j <= k
        codes == {list[k].num : k \in {j \in DOMAIN list : IsDigits(list[j]) /\ \E n \in paths : n > j}}
    IN [c \in codes |-> PathOf(list[last])]

-----------------------------------------------------------------------------

ParserInit ==
    /\ tokens \in Files
    /\ pos = 1 /\ block = "file"
    /\ server = NewServer /\ listens = FALSE
    /\ location = NewLocation(<<>>)
    /\ servers = <<>>
    /\ verdict = "none"

Throw ==
    /\ verdict' = "rejected"
    /\ UNCHANGED <<tokens, pos, block, server, listens, location, servers>>

\* On to token p, in the same block.
Goto(p) == pos' = p /\ UNCHANGED <<tokens, block, servers, verdict>>

SetServer(s)   == server' = s /\ UNCHANGED <<location, listens>>
SetLocation(l) == location' = l /\ UNCHANGED <<server, listens>>

\* A setter that both classes have.
SetEither(field, v) ==
    IF block = "server" THEN SetServer([server EXCEPT ![field] = v])
                        ELSE SetLocation([location EXCEPT ![field] = v])

\* _buildTree(): first the braces are counted.
CountBraces ==
    /\ block = "file"
    /\ IF tokens # <<>> /\ Balanced
       THEN /\ block' = "top"
            /\ UNCHANGED <<tokens, pos, server, listens, location, servers, verdict>>
       ELSE Throw

Top ==
    /\ block = "top"
    /\ IF pos > Len(tokens)
       THEN /\ verdict' = "accepted"
            /\ UNCHANGED <<tokens, pos, block, server, listens, location, servers>>
       ELSE IF Is(pos, "server") /\ Is(pos + 1, "{")
       THEN /\ pos' = pos + 2 /\ block' = "server"
            /\ server' = NewServer /\ listens' = FALSE
            /\ UNCHANGED <<tokens, location, servers, verdict>>
       ELSE Throw

EndOfServer ==
    /\ block = "server"
    /\ Is(pos, "}")
    /\ IF listens
       THEN /\ servers' = Append(servers, server)
            /\ pos' = pos + 1 /\ block' = "top"
            /\ UNCHANGED <<tokens, server, listens, location, verdict>>
       ELSE Throw

SkipSemicolon ==
    /\ block \in {"server", "location"}
    /\ Is(pos, ";")
    /\ Goto(pos + 1)
    /\ UNCHANGED <<server, listens, location>>

\* The directive d, in a block that has it.
Directive(d, blocks) == block \in blocks /\ Is(pos, d)

\* _parseListen(): an address, a port, or a host.
ParseListen ==
    /\ Directive("listen", {"server"})
    /\ IF HasArgument
       THEN /\ server' = IF "host" \in DOMAIN Arg
                         THEN [server EXCEPT !.host = Arg.host, !.port = Arg.port]
                         ELSE IF "num" \in DOMAIN Arg THEN [server EXCEPT !.port = Arg.num]
                         ELSE [server EXCEPT !.host = WordOf(Arg)]
            /\ listens' = TRUE
            /\ Goto(pos + 2)
            /\ UNCHANGED location
       ELSE Throw

ParseServerName ==
    /\ Directive("server_name", {"server"})
    /\ IF Semicolon(pos + 1) # 0
       THEN /\ SetServer([server EXCEPT !.names = @ \o List])
            /\ Goto(Semicolon(pos + 1))
       ELSE Throw

ParseErrorPage ==
    /\ Directive("error_page", {"server"})
    /\ IF Semicolon(pos + 1) # 0
       THEN /\ LET pages == PagesOf(List)
               IN SetServer([server EXCEPT !.pages =
                      [c \in DOMAIN pages \cup DOMAIN @ |-> IF c \in DOMAIN pages THEN pages[c] ELSE @[c]]])
            /\ Goto(Semicolon(pos + 1))
       ELSE Throw

ParseClientMaxBodySize ==
    /\ Directive("client_max_body_size", {"server", "location"})
    /\ IF HasArgument /\ SizesOf(Arg) # {}
       THEN /\ \E n \in SizesOf(Arg) :
                 IF block = "server"
                 THEN SetServer([server EXCEPT !.limit = n])
                 ELSE SetLocation([location EXCEPT !.limit = n, !.hasLimit = TRUE])
            /\ Goto(pos + 2)
       ELSE Throw

ParseRoot ==
    /\ Directive("root", {"server", "location"})
    /\ IF HasArgument THEN SetEither("root", PathOf(Arg)) /\ Goto(pos + 2) ELSE Throw

ParseAutoindex ==
    /\ Directive("autoindex", {"server", "location"})
    /\ IF HasArgument /\ Arg \in {Word("on"), Word("off")}
       THEN SetEither("autoindex", Arg.word) /\ Goto(pos + 2)
       ELSE Throw

ParseIndex ==
    /\ Directive("index", {"server", "location"})
    /\ IF Semicolon(pos + 1) # 0
       THEN /\ SetEither("index", (IF block = "server" THEN server ELSE location).index \o List)
            /\ Goto(Semicolon(pos + 1))
       ELSE Throw

\* Variant: a location starts as the last one ended.
BeginLocationOnTop ==
    /\ Directive("location", {"server"})
    /\ IF pos + 1 <= Len(tokens) /\ ~Is(pos + 1, "{") /\ Is(pos + 2, "{")
       THEN /\ location' = [location EXCEPT !.path = PathOf(Arg)]
            /\ pos' = pos + 3 /\ block' = "location"
            /\ UNCHANGED <<tokens, server, listens, servers, verdict>>
       ELSE Throw

\* _parseLocation() up to its first directive.
BeginLocation ==
    /\ Directive("location", {"server"})
    /\ IF pos + 1 <= Len(tokens) /\ ~Is(pos + 1, "{") /\ Is(pos + 2, "{")
       THEN /\ location' = NewLocation(PathOf(Arg))
            /\ pos' = pos + 3 /\ block' = "location"
            /\ UNCHANGED <<tokens, server, listens, servers, verdict>>
       ELSE Throw

EndOfLocation ==
    /\ block = "location"
    /\ Is(pos, "}")
    /\ server' = [server EXCEPT !.locations = Append(@, location)]
    /\ pos' = pos + 1 /\ block' = "server"
    /\ UNCHANGED <<tokens, listens, location, servers, verdict>>

ParseReturn ==
    /\ Directive("return", {"location"})
    /\ IF /\ pos + 2 <= Len(tokens) /\ IsDigits(Arg)
          /\ ~Is(pos + 2, ";") /\ Is(pos + 3, ";")
       THEN /\ SetLocation([location EXCEPT !.code = Arg.num, !.url = PathOf(tokens[pos + 2])])
            /\ Goto(pos + 3)
       ELSE Throw

ParseUploadStore ==
    /\ Directive("upload_store", {"location"})
    /\ IF HasArgument THEN SetEither("store", PathOf(Arg)) /\ Goto(pos + 2) ELSE Throw

ParseAllowMethods ==
    /\ Directive("allow_methods", {"location"})
    /\ IF /\ Semicolon(pos + 1) > pos + 1
          /\ Range(List) \subseteq {Word("GET"), Word("POST"), Word("DELETE")}
       THEN /\ SetLocation([location EXCEPT !.methods = @ \o List])
            /\ Goto(Semicolon(pos + 1))
       ELSE Throw

\* cgi_ext, cgi_pass
ParseCgi ==
    \E d \in {"cgi_ext", "cgi_pass"} :
        /\ Directive(d, {"location"})
        /\ IF HasArgument
           THEN /\ SetLocation(IF d = "cgi_ext" THEN [location EXCEPT !.ext = WordOf(Arg)]
                                                ELSE [location EXCEPT !.pass = PathOf(Arg)])
                /\ Goto(pos + 2)
           ELSE Throw

Known ==
    [server   |-> {"}", ";", "listen", "server_name", "error_page", "client_max_body_size",
                   "root", "autoindex", "index", "location"},
     location |-> {"}", ";", "root", "autoindex", "index", "client_max_body_size", "return",
                   "upload_store", "allow_methods", "cgi_ext", "cgi_pass"}]

\* Any other token, or none.
Unknown ==
    /\ block \in {"server", "location"}
    /\ \A d \in Known[block] : ~Is(pos, d)
    /\ Throw

ParserNext ==
    /\ verdict = "none"
    /\ \/ CountBraces \/ Top \/ EndOfServer \/ SkipSemicolon
       \/ ParseListen \/ ParseServerName \/ ParseErrorPage \/ ParseClientMaxBodySize
       \/ ParseRoot \/ ParseAutoindex \/ ParseIndex
       \/ BeginLocation \/ EndOfLocation
       \/ ParseReturn \/ ParseUploadStore \/ ParseAllowMethods \/ ParseCgi
       \/ Unknown
=============================================================================
