------------------------------ MODULE Routing ------------------------------
(***************************************************************************)
(* From a configuration to an answer: the sockets of _setupSockets(), the  *)
(* virtual host of _matchConfig() and the limit of _parseClientRequest()   *)
(* (src/core/Server.cpp), and all that Response::build() decides           *)
(* (src/http/Response.cpp).  The loop of _normalizeUri() is a step for each *)
(* segment.  A file is its path and whether it can be opened; a peer sends *)
(* one request at a time, for requests share nothing here but the disk.    *)
(***************************************************************************)
EXTENDS Config

CONSTANTS
    PORTS,     \* port numbers wrap at (2^16)
    Dotted,    \* the hosts inet_addr() can read
    Local,     \* those of them bind() takes here: 0.0.0.0 and this machine's
    Requests,  \* what a peer may ask for
    Disk       \* what is on the disk at the start: a function from paths to kinds

\* A request as parsed: error is the code it was refused with, if it was.
Request == [to     : [host : String, port : Nat],     \* the address connected to
            host   : String,                          \* Host, without the port
            error  : {0, 400},
            method : String,
            uri    : Seq(String),                     \* without the query
            size   : Nat,                             \* of the body
            form   : BOOLEAN,                         \* multipart/form-data
            parts  : Seq(Seq(String))]                \* file names, <<>> for none

ASSUME RequestsAssumption == \A r \in Requests :
    r \in Request /\ r.uri # <<>> /\ (~r.form => Len(r.parts) = 1 /\ r.parts[1] # <<>>)

ASSUME PortsAssumption == PORTS \in Nat \ {0}

VARIABLES
    configs,  \* Server::_configs
    sockets,  \* _listenSockets and _listenFdToPort: host and port of each
    status,   \* whether its sockets could be set up
    disk,
    step,     \* how far the request has come
    request,
    config,   \* the server{} that was matched for it
    limit,    \* client_max_body_size for it
    error,    \* its code, once it is refused
    rest,     \* segments _normalizeUri() has still to look at
    stack,    \* its segments
    climbed,  \* it has returned false
    answer    \* the response

progress == <<step, request, config, limit, error, rest, stack, climbed, answer>>
routingVars == <<configs, sockets, status, disk, progress>>

-----------------------------------------------------------------------------
(* Listening *)

Addresses(cs) == {[host |-> cs[k].host, port |-> cs[k].port] : k \in DOMAIN cs}

\* A host that inet_addr() cannot read is INADDR_NONE to it, the broadcast address.
Broadcast == "255.255.255.255"
InetAddr(host) == IF host \in Dotted THEN host ELSE Broadcast

\* bind() takes a port modulo 2^16, and refuses what another socket listens on.
Overlap(a, b) ==
    /\ a.port % PORTS = b.port % PORTS
    /\ \/ InetAddr(a.host) = InetAddr(b.host)
       \/ "0.0.0.0" \in {InetAddr(a.host), InetAddr(b.host)}

\* bind() takes each of them, the broadcast address too.
CanBeBound(as) ==
    /\ \A a \in as : InetAddr(a.host) \in Local \cup {Broadcast}
    /\ \A a, b \in as : Overlap(a, b) => a = b

\* One socket for each address.
SetupSockets(cs) ==
    /\ status = "down"
    /\ configs' = cs
    /\ IF CanBeBound(Addresses(cs))
       THEN status' = "up" /\ sockets' = Addresses(cs)
       ELSE status' = "failed" /\ sockets' = {}
    /\ UNCHANGED <<disk, progress>>

\* A connection to an address arrives at a socket.
Reaches(to, socket) ==
    /\ socket.port % PORTS = to.port
    /\ InetAddr(socket.host) \in {to.host, "0.0.0.0"}

-----------------------------------------------------------------------------
(* Matching *)

\* The first of the places in S, if there is one.
FirstOf(S) == {k \in S : \A j \in S : k <= j}

\* Variant: a name is looked for on every port.
MatchAnyPort(socket, name) ==
    LET named == {k \in DOMAIN configs : Contains(configs[k].names, Word(name))}
    IN IF named = {} THEN {1} ELSE FirstOf(named)

\* By port and name, not by address; the first on the port if no name fits.
MatchConfig(socket, name) ==
    LET onPort == {k \in DOMAIN configs : configs[k].port = socket.port}
        named == {k \in onPort : Contains(configs[k].names, Word(name))}
    IN FirstOf(IF named = {} THEN onPort ELSE named)

\* The limit on the body of a request for uri.
LimitFor(server, uri) ==
    LET k == GetBestMatchLocation(server, uri)
    IN IF k # 0 /\ server.locations[k].hasLimit THEN server.locations[k].limit ELSE server.limit

-----------------------------------------------------------------------------
(* Resolving *)

\* What stands before the first slash, between two of them, and behind the last.
Empty == ""

\* Segments that name nothing.
NoNames == {Empty, ".", ".."}

\* Variant: a slash at the end is lost.
NormalizedBare == IF stack = <<>> THEN <<Empty, Empty>> ELSE <<Empty>> \o stack

\* What _normalizeUri() returns of its segments.
Normalized ==
    IF stack = <<>> THEN <<Empty, Empty>>
    ELSE <<Empty>> \o stack \o (IF Len(request.uri) > 1 /\ Last(request.uri) = Empty THEN <<Empty>> ELSE <<>>)

Server == configs[config]
Location == GetBestMatchLocation(Server, Normalized)

\* The location that serves, or what goes without one.
Serving ==
    IF Location = 0 THEN [NewLocation(<<>>) EXCEPT !.methods = <<Word("GET")>>]
    ELSE Server.locations[Location]

RootOf(server, loc) ==
    IF loc.root # <<>> THEN loc.root
    ELSE IF server.root # <<>> THEN server.root ELSE <<"www">>

FilePath == RootOf(Server, Serving) \o stack
Autoindex == IF Serving.autoindex = "inherit" THEN Server.autoindex ELSE Serving.autoindex
IndexFiles == IF Serving.index # <<>> THEN Serving.index ELSE Server.index

HasExtension(path, ext) == ext # "" /\ <<Last(path), ext>> \in EndsIn

IsDir(path)    == path \in DOMAIN disk /\ disk[path] = "dir"
CanOpen(path)  == path \in DOMAIN disk /\ disk[path] # "locked"
IsEmptyDir(path) == IsDir(path) /\ \A p \in DOMAIN disk : ~IsStrictPrefix(path, p)

-----------------------------------------------------------------------------
(* Answers *)

Answer(code, by, path) == [code |-> code, by |-> by, path |-> path]

\* _buildErrorPage(): the server's own page if it can be opened.  Without a
\* slash its name is glued to that of the root: no such file here.
ErrorPage(code) ==
    LET page == Server.pages[code]
        file == IF Head(page) = "" THEN RootOf(Server, NewLocation(<<>>)) \o Tail(page) ELSE <<"?">>
    IN IF code \in DOMAIN Server.pages /\ CanOpen(file)
       THEN Answer(code, "file", file) ELSE Answer(code, "page", <<>>)

Implemented == {"GET", "POST", "DELETE"}

\* Variant: the method is checked for the URI as it came.
RefusalRaw ==
    LET k == GetBestMatchLocation(Server, request.uri) IN
    IF error # 0 THEN error
    ELSE IF request.method \notin Implemented THEN 501
    ELSE IF climbed THEN 403
    ELSE IF k # 0 /\ ~IsMethodAllowed(Server.locations[k], request.method) THEN 405
    ELSE 0

\* What build() refuses before it looks at the disk.
Refusal ==
    IF error # 0 THEN error
    ELSE IF request.method \notin Implemented THEN 501
    ELSE IF climbed THEN 403
    ELSE IF ~IsMethodAllowed(Serving, request.method) THEN 405
    ELSE 0

Finish(a) ==
    /\ answer' = a
    /\ step' = "answered"
    /\ UNCHANGED <<configs, sockets, status, request, config, limit, error, rest, stack, climbed>>

FinishAsIs(a) == Finish(a) /\ UNCHANGED disk

-----------------------------------------------------------------------------

NoRequest == [to |-> [host |-> "none", port |-> 0], host |-> "none", error |-> 0, method |-> "none",
              uri |-> <<>>, size |-> 0, form |-> FALSE, parts |-> <<>>]
NoAnswer == Answer(0, "none", <<>>)

RoutingInit ==
    /\ configs = <<>> /\ sockets = {} /\ status = "down"
    /\ disk = Disk
    /\ step = "idle" /\ request = NoRequest /\ answer = NoAnswer
    /\ config = 0 /\ limit = 0 /\ error = 0
    /\ rest = <<>> /\ stack = <<>> /\ climbed = FALSE

\* A request arrives at a socket that listens on its address.
Arrive(r) ==
    /\ step = "idle"
    /\ \E a \in sockets : Reaches(r.to, a) /\ config' \in MatchConfig(a, r.host)
    /\ request' = r
    /\ error' = r.error
    /\ step' = IF r.error = 0 THEN "parsed" ELSE "serve"
    /\ UNCHANGED <<configs, sockets, status, disk, limit, rest, stack, climbed, answer>>

\* _parseClientRequest(): the body's limit, by the URI as it came.
Authorize ==
    /\ step = "parsed"
    /\ limit' = LimitFor(Server, request.uri)
    /\ error' = IF limit' > 0 /\ request.size > limit' THEN 413 ELSE 0
    /\ step' = IF error' = 0 /\ request.method \in Implemented THEN "normalize" ELSE "serve"
    /\ rest' = request.uri
    /\ UNCHANGED <<configs, sockets, status, disk, request, config, stack, climbed, answer>>

\* Variant: "." is looked at again.
NextSegmentAgain ==
    /\ step = "normalize"
    /\ rest # <<>>
    /\ climbed' = (Head(rest) = ".." /\ stack = <<>>)
    /\ stack' = IF Head(rest) = ".." THEN IF climbed' THEN stack ELSE Front(stack)
                ELSE IF Head(rest) \in NoNames THEN stack
                ELSE Append(stack, Head(rest))
    /\ rest' = IF Head(rest) = "." THEN rest ELSE Tail(rest)
    /\ step' = IF climbed' THEN "serve" ELSE step
    /\ UNCHANGED <<configs, sockets, status, disk, request, config, limit, error, answer>>

\* Variant: ".." at the root stays there.
NextSegmentStays ==
    /\ step = "normalize"
    /\ rest # <<>>
    /\ stack' = CASE Head(rest) = ".."     -> IF stack = <<>> THEN stack ELSE Front(stack)
                  [] Head(rest) \in {"", "."} -> stack
                  [] OTHER -> Append(stack, Head(rest))
    /\ rest' = Tail(rest)
    /\ UNCHANGED <<configs, sockets, status, disk, step, request, config, limit, error,
                   climbed, answer>>

\* _normalizeUri() takes the next segment.
NextSegment ==
    /\ step = "normalize"
    /\ rest # <<>>
    /\ climbed' = (Head(rest) = ".." /\ stack = <<>>)
    /\ stack' = IF Head(rest) = ".." THEN IF climbed' THEN stack ELSE Front(stack)
                ELSE IF Head(rest) \in NoNames THEN stack
                ELSE Append(stack, Head(rest))
    /\ rest' = Tail(rest)
    /\ step' = IF climbed' THEN "serve" ELSE step
    /\ UNCHANGED <<configs, sockets, status, disk, request, config, limit, error, answer>>

\* It has seen them all.
Normalize ==
    /\ step = "normalize"
    /\ rest = <<>>
    /\ step' = "serve"
    /\ UNCHANGED <<configs, sockets, status, disk, request, config, limit, error, rest, stack,
                   climbed, answer>>

-----------------------------------------------------------------------------
(* Response::build() *)

Refuse ==
    /\ step = "serve"
    /\ Refusal # 0
    /\ FinishAsIs(ErrorPage(Refusal))

\* Nothing stands against the request but what it asks for.
Passes == step = "serve" /\ Refusal = 0

Redirect ==
    /\ Passes
    /\ Serving.code # 0
    /\ FinishAsIs(Answer(Serving.code, "redirect", Serving.url))

\* By the name alone, whatever the method and whether or not there is a script.
RunCgi ==
    /\ Passes
    /\ Serving.code = 0
    /\ HasExtension(FilePath, Serving.ext)
    /\ \/ FinishAsIs(Answer(200, "cgi", FilePath))
       \/ FinishAsIs(ErrorPage(500))

\* Variant: no heed is paid to the extension.
DoesRegardless(method) ==
    /\ Passes
    /\ Serving.code = 0
    /\ request.method = method

\* A request that neither redirects nor runs a script.
Does(method) ==
    /\ Passes
    /\ Serving.code = 0
    /\ ~HasExtension(FilePath, Serving.ext)
    /\ request.method = method

\* The index files that the directory has.
Indexes == {k \in DOMAIN IndexFiles : FilePath \o PathOf(IndexFiles[k]) \in DOMAIN disk}

\* What is opened: of a directory, the first index file.
ToOpen ==
    IF IsDir(FilePath)
    THEN {FilePath \o PathOf(IndexFiles[k]) : k \in FirstOf(Indexes)}
    ELSE {FilePath}

GetFile ==
    /\ Does("GET")
    /\ \E file \in ToOpen : FinishAsIs(IF CanOpen(file) THEN Answer(200, "file", file) ELSE ErrorPage(404))

GetListing ==
    /\ Does("GET")
    /\ IsDir(FilePath) /\ Indexes = {}
    /\ FinishAsIs(IF Autoindex = "on" THEN Answer(200, "listing", FilePath) ELSE ErrorPage(403))

\* _parseMultipart(): the first part with a file name.
FilePart(parts) == SelectInSeq(parts, LAMBDA p : p # <<>>)

\* Variant: the name is taken as the client gives it.
UploadNameAsGiven == request.parts[FilePart(request.parts)]

\* The last component of the client's name, or one made from the time.
UploadName ==
    LET name == Last(request.parts[FilePart(request.parts)])
    IN IF name \in NoNames THEN <<"upload">> ELSE <<name>>

\* upload_store, without a slash at its end.
StoreOf(loc) == IF loc.store # <<>> /\ Last(loc.store) = Empty THEN Front(loc.store) ELSE loc.store

PostRefused ==
    /\ Does("POST")
    /\ ~IsDir(StoreOf(Serving)) \/ FilePart(request.parts) = 0
    /\ FinishAsIs(ErrorPage(IF Serving.store = <<>> THEN 403
                            ELSE IF ~IsDir(StoreOf(Serving)) THEN 500 ELSE 400))

Post ==
    /\ Does("POST")
    /\ IsDir(StoreOf(Serving)) /\ FilePart(request.parts) # 0
    /\ LET file == StoreOf(Serving) \o UploadName
       IN IF file \in DOMAIN disk /\ disk[file] # "file"
          THEN FinishAsIs(ErrorPage(500))
          ELSE /\ disk' = [p \in DOMAIN disk \cup {file} |-> IF p = file THEN "file" ELSE disk[p]]
               /\ Finish(Answer(201, "created", file))

\* remove(): files, and directories that are empty.
Delete ==
    /\ Does("DELETE")
    /\ IF FilePath \notin DOMAIN disk THEN FinishAsIs(ErrorPage(404))
       ELSE IF IsDir(FilePath) /\ ~IsEmptyDir(FilePath) THEN FinishAsIs(ErrorPage(403))
       ELSE /\ disk' = Restrict(disk, DOMAIN disk \ {FilePath})
            /\ Finish(Answer(200, "deleted", FilePath))

Build ==
    Refuse \/ Redirect \/ RunCgi \/ GetFile \/ GetListing \/ PostRefused \/ Post \/ Delete

\* The response is sent: the Client is reset, or gone.
Reset ==
    /\ step = "answered"
    /\ step' = "idle" /\ request' = NoRequest /\ answer' = NoAnswer
    /\ config' = 0 /\ limit' = 0 /\ error' = 0
    /\ rest' = <<>> /\ stack' = <<>> /\ climbed' = FALSE
    /\ UNCHANGED <<configs, sockets, status, disk>>

RoutingNext ==
    \/ \E r \in Requests : Arrive(r)
    \/ Authorize \/ NextSegment \/ Normalize \/ Build
    \/ Reset
=============================================================================
