-------------------------------- MODULE Site --------------------------------
(***************************************************************************)
(* main(): a configuration file is parsed, a Server is made of it, and     *)
(* requests are answered by what it says.                                  *)
(***************************************************************************)
EXTENDS ConfigParser, Routing, ConfigFile

CONSTANTS
    Texts   \* the files as their authors meant them

ASSUME TextsAssumption == \A t \in Texts : IsFile(t)

\* A server is started with one of them, or with one where a token is missing.
ASSUME FilesAssumption ==
    Files \subseteq {Written(t) : t \in Texts}
                    \cup UNION {{Without(t, k) : k \in DOMAIN Written(t)} : t \in Texts}

\* The texts as tokens, those whose sizes fit, and what else may be accepted.
Texted == [t \in Texts |-> Written(t)]
Fitting == {t \in Texts : SizesFit(t)}
Meaning == [t \in Fitting |-> Meant(t)]
Spared == UNION {WithoutSpare(t) : t \in Texts}

siteVars == <<parserVars, routingVars>>

SiteInit == ParserInit /\ RoutingInit

Parse == ParserNext /\ UNCHANGED routingVars

\* Server::start(): the sockets first.
Start ==
    /\ verdict = "accepted"
    /\ SetupSockets(servers)
    /\ UNCHANGED parserVars

Answers == RoutingNext /\ UNCHANGED parserVars

SiteNext == Parse \/ Start \/ Answers

SiteSpec == SiteInit /\ [][SiteNext]_siteVars

\* build() goes on once it is called.
FairSite == SiteSpec /\ WF_siteVars((Authorize \/ NextSegment \/ Normalize \/ Build)
                                     /\ UNCHANGED parserVars)

-----------------------------------------------------------------------------
(* Configuration *)

\* A file is read as what it means (ConfigParser.cpp:88-170), whatever the
\* order of its directives, and never refused: the last of two wins, lists
\* add up, a location has nothing of its neighbours.  Sizes that do not fit a
\* size_t wrap (ConfigParser.cpp:274) and one without digits is anything at
\* all (270): of files with such a size only the acceptance is promised.
ReadsWhatIsMeant ==
    verdict # "none" =>
        \A t \in Texts : tokens = Texted[t] =>
            /\ verdict = "accepted"
            /\ t \in Fitting => servers = Meaning[t]

\* "throwing std::runtime_error on anything malformed" (ConfigParser.hpp:38): a
\* file with a token missing is never accepted, unless what is left is another
\* well formed file, or the token is of a directive that lists anything up to
\* the next ";": there even a missing ";" goes unnoticed, and what follows,
\* blocks and all, is taken for the list (ConfigParser.cpp:204, 218, 328).
CatchesOmissions ==
    verdict = "accepted" =>
        (\E t \in Texts : tokens = Texted[t]) \/ tokens \in Spared

-----------------------------------------------------------------------------
(* Resolution *)

\* How deep below the root the first p segments of uri lead.
Descent(uri, p) ==
    Cardinality({k \in 1..p : uri[k] \notin NoNames})
    - Cardinality({k \in 1..p : uri[k] = ".."})

Climbs(uri) == \E p \in DOMAIN uri : Descent(uri, p) < 0

\* The segments of uri that no later ".." cancels.
Kept(uri) ==
    LET kept == {k \in DOMAIN uri : /\ uri[k] \notin NoNames
                                    /\ \A p \in k..Len(uri) : Descent(uri, p) >= Descent(uri, k)}
    IN [n \in 1..Cardinality(kept) |->
          uri[CHOOSE k \in kept : Cardinality({j \in kept : j <= k}) = n]]

\* Whatever dots and empty segments a URI has, _normalizeUri() keeps exactly
\* the segments that no ".." cancels, and refuses exactly the URIs that lead
\* above the root on their way (Response.cpp:133-167).
ResolvesByDescent ==
    step = "serve" /\ error = 0 /\ request.method \in Implemented =>
        /\ climbed <=> Climbs(request.uri)
        /\ ~climbed => stack = Kept(request.uri)

LeadsDown(names) == \A k \in 1..Len(names) : names[k] \notin NoNames

\* ".. can never resolve outside a location's configured root" (README.md:20):
\* what is read, listed, run or removed lies under a root by names that lead
\* nowhere but down, or is the index file of such a directory; what is written
\* lies in an upload_store under one such name (Response.cpp:133-167, 526-541).
Confined ==
    LET Under == {FilePath} \cup {FilePath \o PathOf(IndexFiles[k]) : k \in DOMAIN IndexFiles}
    IN /\ answer.by \in {"file", "listing", "cgi", "deleted"} /\ answer.code < 400 =>
             LeadsDown(stack) /\ answer.path \in Under
       /\ answer.by = "created" =>
             LeadsDown(UploadName) /\ answer.path = StoreOf(Serving) \o UploadName

-----------------------------------------------------------------------------
(* Virtual hosts and locations *)

\* "a name configured on one port never leaks into another" (README.md:16): the
\* server that answers listens on the port the peer connected to, and whoever
\* has the name asked for there comes before who has not.
NamesStayOnTheirPort ==
    step # "idle" =>
        /\ Server.port % PORTS = request.to.port
        /\ (\E k \in DOMAIN configs : configs[k].port = Server.port
                                       /\ Contains(configs[k].names, Word(request.host)))
              => Contains(Server.names, Word(request.host))

IsPlain(uri) ==
    /\ Len(uri) > 1 /\ Head(uri) = Empty
    /\ \A k \in 2..(Len(uri) - 1) : uri[k] \notin NoNames
    /\ Last(uri) \notin {".", ".."}

\* "so both agree on which location applies" (Server.cpp:225): the limit a body
\* was held to is that of the location that then serves the request, as long as
\* the URI has no dots and no empty segments (Response.cpp:163).
LimitOfItsLocation ==
    step = "serve" /\ request.error = 0 /\ request.method \in Implemented /\ error = 0
        /\ IsPlain(request.uri)
    => limit = LimitFor(Server, Normalized)

\* The URIs that lead to the names below a root.
UrisOf(names) == {<<"">> \o names, <<"">> \o names \o <<"">>} \ {<<"">>}

Here == {s \in Range(configs) : s.port % PORTS = request.to.port}

MayCreate(p) ==
    \E s \in Here : \E k \in DOMAIN s.locations :
        /\ IsMethodAllowed(s.locations[k], "POST")
        /\ StoreOf(s.locations[k]) = Front(p)
        /\ Last(p) \notin NoNames

MayDelete(p) ==
    \E s \in Here : \E n \in DOMAIN p : \E u \in UrisOf(SubSeq(p, n + 1, Len(p))) :
        LET k == GetBestMatchLocation(s, u)
        IN /\ k # 0
           /\ IsMethodAllowed(s.locations[k], "DELETE")
           /\ RootOf(s, s.locations[k]) = SubSeq(p, 1, n)

\* No path on the disk appears or goes but where a server on that port has a
\* location for it that lets it: a file appears in the upload_store of one
\* that allows POST, and one goes whose own URI is best matched by a location
\* that allows DELETE (Response.cpp:312-320, 460-586).
ChangesWhereAllowed ==
    [][/\ \A p \in DOMAIN disk' \ DOMAIN disk : MayCreate(p)
       /\ \A p \in DOMAIN disk \ DOMAIN disk' : MayDelete(p)]_siteVars

\* The source of a script is never what GET answers where scripts of its kind
\* are run, but for one that is an index file (Response.cpp:362, 377-441).
SourceOnlyThroughIndex ==
    answer.by = "file" /\ answer.code = 200 /\ HasExtension(answer.path, Serving.ext) =>
        \E k \in DOMAIN IndexFiles : answer.path = FilePath \o PathOf(IndexFiles[k])

\* Every request that has arrived is answered.
EveryRequestAnswered == step = "parsed" ~> step = "answered"
=============================================================================
