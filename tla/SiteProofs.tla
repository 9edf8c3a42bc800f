----------------------------- MODULE SiteProofs -----------------------------
(***************************************************************************)
(* Proofs about Site, for every set of files and requests, and every disk. *)
(***************************************************************************)
EXTENDS Site, TLAPS, FiniteSetTheorems, SequenceTheorems

\* What a request meets on its way: nothing is served before a server is up,
\* and nothing is answered before build() has run.
Flow ==
    /\ status = "down" => sockets = {} /\ step = "idle"
    /\ step # "answered" => answer = NoAnswer

\* Segments that have been taken lead down, whatever those do that follow.
Segments ==
    /\ step # "idle" => request \in Request
    /\ rest \in Seq(String)
    /\ stack \in Seq(String)
    /\ LeadsDown(stack)

\* An answer is of what may be answered.
Sound == Confined /\ SourceOnlyThroughIndex

ConfinedInv == Flow /\ Segments /\ error \in {0, 400, 413} /\ Sound

-----------------------------------------------------------------------------
(* Helpers *)

LEMMA RequestsAreTyped == \A r \in Requests : r \in Request
BY RequestsAssumption

LEMMA NothingLeadsDown == LeadsDown(<<>>) /\ <<>> \in Seq(String)
BY DEF LeadsDown

LEMMA FrontLeadsDown ==
    ASSUME NEW s \in Seq(String), s # <<>>, LeadsDown(s)
    PROVE  Front(s) \in Seq(String) /\ LeadsDown(Front(s))
BY DEF Front, LeadsDown

LEMMA AppendLeadsDown ==
    ASSUME NEW s \in Seq(String), LeadsDown(s), NEW x \in String, x \notin NoNames
    PROVE  Append(s, x) \in Seq(String) /\ LeadsDown(Append(s, x))
<1> DEFINE t == Append(s, x)
<1>1. t \in Seq(String) /\ Len(t) = Len(s) + 1 /\ t[Len(s) + 1] = x
  OBVIOUS
<1>2. \A k \in 1..Len(s) : t[k] = s[k]
  OBVIOUS
<1> HIDE DEF t
<1>3. ASSUME NEW k \in 1..Len(t) PROVE t[k] \notin NoNames
  BY <1>1, <1>2 DEF LeadsDown
<1> QED
  BY <1>1, <1>3 DEF LeadsDown, t

LEMMA UploadNameLeadsDown == LeadsDown(UploadName)
<1> DEFINE name == Last(request.parts[FilePart(request.parts)])
<1>1. CASE name \in NoNames
  <2>1. UploadName = <<"upload">>
    BY <1>1 DEF UploadName
  <2>2. "upload" \notin NoNames
    BY DEF NoNames, Empty
  <2> QED
    BY <2>1, <2>2 DEF LeadsDown
<1>2. CASE name \notin NoNames
  <2>1. UploadName = <<name>>
    BY <1>2 DEF UploadName
  <2> QED
    BY <2>1, <1>2 DEF LeadsDown
<1> QED
  BY <1>1, <1>2

\* An error page is served with the code of the error, and tells nothing else.
LEMMA ErrorPageAnswers ==
    ASSUME NEW code
    PROVE  ErrorPage(code).code = code /\ ErrorPage(code).by \in {"file", "page"}
BY DEF ErrorPage, Answer

\* What is confined stays so while an answer, and what it was made of, stay.
LEMMA ConfinedStays ==
    ASSUME Sound, UNCHANGED <<configs, config, request, stack, answer>>
    PROVE  Sound'
<1>1. Server' = Server /\ Serving' = Serving /\ UploadName' = UploadName
  BY DEF Serving, Location, Server, Normalized, UploadName
<1>2. FilePath' = FilePath /\ IndexFiles' = IndexFiles
  BY <1>1 DEF FilePath, IndexFiles
<1> QED
  BY <1>1, <1>2 DEF Sound, Confined, SourceOnlyThroughIndex, LeadsDown

LEMMA NoAnswerIsConfined == ASSUME answer' = NoAnswer PROVE Sound'
BY DEF Sound, Confined, SourceOnlyThroughIndex, NoAnswer, Answer

-----------------------------------------------------------------------------
(* One lemma for each step *)

LEMMA ArriveConfined ==
    ASSUME ConfinedInv, NEW r \in Requests, Arrive(r)
    PROVE  ConfinedInv'
<1>1. r \in Request /\ r.error \in {0, 400}
  BY RequestsAreTyped DEF Request
<1>2. answer' = NoAnswer /\ step' \in {"parsed", "serve"} /\ status # "down"
  BY DEF ConfinedInv, Flow, Arrive
<1>3. Sound'
  BY <1>2, NoAnswerIsConfined
<1>4. Flow'
  BY <1>2 DEF Flow, Arrive
<1>5. Segments'
  BY <1>1 DEF ConfinedInv, Segments, LeadsDown, Arrive
<1> QED
  BY <1>1, <1>3, <1>4, <1>5 DEF ConfinedInv, Arrive

LEMMA AuthorizeConfined ==
    ASSUME ConfinedInv, Authorize
    PROVE  ConfinedInv'
<1>1. Sound'
  BY ConfinedStays DEF ConfinedInv, Authorize
<1>2. Flow'
  BY DEF ConfinedInv, Flow, Authorize
<1>3. Segments'
  BY DEF ConfinedInv, Segments, LeadsDown, Request, Authorize
<1> QED
  BY <1>1, <1>2, <1>3 DEF ConfinedInv, Authorize

\* A segment that leads up takes one away, one that leads nowhere adds none.
LEMMA NextSegmentConfined ==
    ASSUME ConfinedInv, NextSegment
    PROVE  ConfinedInv'
<1>1. /\ step = "normalize" /\ rest # <<>> /\ answer = NoAnswer
      /\ rest \in Seq(String) /\ stack \in Seq(String) /\ LeadsDown(stack)
  BY DEF ConfinedInv, Flow, Segments, NextSegment
<1>2. Sound'
  <2>1. answer' = NoAnswer
    BY <1>1 DEF NextSegment
  <2> QED
    BY <2>1, NoAnswerIsConfined
<1>3. Flow'
  BY <1>1 DEF ConfinedInv, Flow, NextSegment
<1>4. rest' \in Seq(String)
  BY <1>1 DEF NextSegment
<1>5. stack' \in Seq(String) /\ LeadsDown(stack)'
  <2>1. CASE Head(rest) = ".." /\ stack # <<>>
    <3>1. stack' = Front(stack)
      BY <2>1 DEF NextSegment
    <3> QED
      BY <1>1, <2>1, <3>1, FrontLeadsDown DEF LeadsDown
  <2>2. CASE Head(rest) # ".." /\ Head(rest) \notin NoNames
    <3>1. stack' = Append(stack, Head(rest)) /\ Head(rest) \in String
      BY <1>1, <2>2 DEF NextSegment
    <3> QED
      BY <1>1, <2>2, <3>1, AppendLeadsDown DEF LeadsDown
  <2>3. CASE ~(Head(rest) = ".." /\ stack # <<>>) /\ ~(Head(rest) # ".." /\ Head(rest) \notin NoNames)
    <3>1. stack' = stack
      BY <2>3 DEF NextSegment
    <3> QED
      BY <1>1, <3>1 DEF LeadsDown
  <2> QED
    BY <2>1, <2>2, <2>3
<1>6. Segments'
  BY <1>1, <1>4, <1>5 DEF ConfinedInv, Segments, NextSegment
<1> QED
  BY <1>2, <1>3, <1>6 DEF ConfinedInv, NextSegment

LEMMA NormalizeConfined ==
    ASSUME ConfinedInv, Normalize
    PROVE  ConfinedInv'
<1>1. Sound'
  BY ConfinedStays DEF ConfinedInv, Normalize
<1>2. Flow'
  BY DEF ConfinedInv, Flow, Normalize
<1>3. Segments'
  BY DEF ConfinedInv, Segments, LeadsDown, Normalize
<1> QED
  BY <1>1, <1>2, <1>3 DEF ConfinedInv, Normalize

\* Whatever build() answers, if the answer is confined.
LEMMA FinishConfined ==
    ASSUME ConfinedInv, step = "serve", NEW a, Finish(a), Sound'
    PROVE  ConfinedInv'
<1>1. Flow'
  BY DEF ConfinedInv, Flow, Finish
<1>2. Segments'
  BY DEF ConfinedInv, Segments, LeadsDown, Finish
<1> QED
  BY <1>1, <1>2 DEF ConfinedInv, Finish

LEMMA ResetConfined ==
    ASSUME ConfinedInv, Reset
    PROVE  ConfinedInv'
<1>1. Sound'
  <2>1. answer' = NoAnswer
    BY DEF Reset
  <2> QED
    BY <2>1, NoAnswerIsConfined
<1>2. Flow'
  BY DEF ConfinedInv, Flow, Reset
<1>3. Segments'
  BY DEF Segments, LeadsDown, Reset
<1> QED
  BY <1>1, <1>2, <1>3 DEF ConfinedInv, Reset

LEMMA StartConfined ==
    ASSUME ConfinedInv, Start
    PROVE  ConfinedInv'
<1>1. answer' = NoAnswer /\ step' = "idle" /\ status' # "down"
  BY DEF ConfinedInv, Flow, Start, SetupSockets, progress
<1>2. Sound'
  BY <1>1, NoAnswerIsConfined
<1>3. Segments' /\ error' = error
  BY DEF ConfinedInv, Segments, LeadsDown, Start, SetupSockets, progress
<1> QED
  BY <1>1, <1>2, <1>3 DEF ConfinedInv, Flow

LEMMA StutterConfined ==
    ASSUME ConfinedInv, UNCHANGED routingVars
    PROVE  ConfinedInv'
<1>1. Sound'
  BY ConfinedStays DEF ConfinedInv, routingVars, progress
<1> QED
  BY <1>1 DEF ConfinedInv, Flow, Segments, LeadsDown, routingVars, progress

-----------------------------------------------------------------------------
(* The answers of build() *)

Refused(a) == a.by \in {"page", "redirect"} \/ (a.by = "file" /\ a.code \in Nat /\ a.code >= 400)

LEMMA RefusedIsConfined ==
    ASSUME ConfinedInv, step = "serve", NEW a, Finish(a), Refused(a)
    PROVE  ConfinedInv'
<1>1. answer' = a
  BY DEF Finish
<1>2. Sound'
  BY <1>1 DEF Sound, Confined, SourceOnlyThroughIndex, Refused
<1> QED
  BY <1>2, FinishConfined

LEMMA ErrorPageRefuses ==
    ASSUME NEW code \in Nat, code >= 400
    PROVE  Refused(ErrorPage(code))
BY DEF ErrorPage, Answer, Refused

LEMMA RefusalIsCode == ASSUME error \in {0, 400, 413}, Refusal # 0 PROVE Refusal \in Nat /\ Refusal >= 400
BY DEF Refusal

\* What is served is the path that was built, or the index file behind it, and
\* no script unless it is an index file.
LEMMA ServedIsConfined ==
    ASSUME ConfinedInv, step = "serve", NEW a, Finish(a),
           a.by \in {"file", "listing", "cgi", "deleted"},
           a.path \in {FilePath} \cup {FilePath \o PathOf(IndexFiles[k]) : k \in DOMAIN IndexFiles},
           a.by = "file" /\ a.path = FilePath => ~HasExtension(FilePath, Serving.ext)
    PROVE  ConfinedInv'
<1>1. answer' = a /\ UNCHANGED <<configs, config, request, stack>>
  BY DEF Finish
<1>2. Server' = Server /\ Serving' = Serving
  BY <1>1 DEF Serving, Location, Server, Normalized
<1>3. FilePath' = FilePath /\ IndexFiles' = IndexFiles
  BY <1>1, <1>2 DEF FilePath, IndexFiles
<1>4. LeadsDown(stack)' /\ answer'.path \in {FilePath} \cup {FilePath \o PathOf(IndexFiles[k]) : k \in DOMAIN IndexFiles}
  BY <1>1 DEF ConfinedInv, Segments, LeadsDown
<1>5. answer'.by # "created"
  BY <1>1
<1>6. Sound'
  <2>1. Confined'
    BY <1>3, <1>4, <1>5 DEF Confined
  <2>2. ASSUME answer'.by = "file", HasExtension(answer'.path, Serving'.ext)
        PROVE  answer'.path # FilePath
    BY <1>1, <1>2, <2>2
  <2>3. SourceOnlyThroughIndex'
    BY <1>3, <1>4, <2>2 DEF SourceOnlyThroughIndex
  <2> QED
    BY <2>1, <2>3 DEF Sound
<1> QED
  BY <1>6, FinishConfined

LEMMA CreatedIsConfined ==
    ASSUME ConfinedInv, step = "serve", Finish(Answer(201, "created", StoreOf(Serving) \o UploadName))
    PROVE  ConfinedInv'
<1> DEFINE a == Answer(201, "created", StoreOf(Serving) \o UploadName)
<1>1. answer' = a /\ UNCHANGED <<configs, config, request, stack>>
  BY DEF Finish
<1>2. Serving' = Serving /\ UploadName' = UploadName
  BY <1>1 DEF Serving, Location, Server, Normalized, UploadName
<1>3. Sound'
  BY <1>1, <1>2, UploadNameLeadsDown DEF Sound, Confined, SourceOnlyThroughIndex, Answer, LeadsDown
<1> QED
  BY <1>3, FinishConfined

LEMMA BuildConfined ==
    ASSUME ConfinedInv, Build
    PROVE  ConfinedInv'
<1> USE DEF FinishAsIs
<1>1. error \in {0, 400, 413} /\ step = "serve"
  BY DEF ConfinedInv, Build, Refuse, Redirect, RunCgi, GetFile, GetListing, PostRefused, Post,
         Delete, Does, Passes
<1>2. CASE Refuse
  BY <1>1, <1>2, RefusalIsCode, ErrorPageRefuses, RefusedIsConfined DEF Refuse
<1>3. CASE Redirect
  <2>1. Refused(Answer(Serving.code, "redirect", Serving.url))
    BY DEF Refused, Answer
  <2> QED
    BY <1>1, <1>3, <2>1, RefusedIsConfined DEF Redirect
<1>4. CASE RunCgi
  <2>1. CASE Finish(Answer(200, "cgi", FilePath))
    BY <1>1, <2>1, ServedIsConfined DEF Answer
  <2>2. CASE Finish(ErrorPage(500))
    BY <1>1, <2>2, ErrorPageRefuses, RefusedIsConfined
  <2> QED
    BY <1>4, <2>1, <2>2 DEF RunCgi
<1>5. CASE GetFile
  <2>1. PICK file \in ToOpen : Finish(IF CanOpen(file) THEN Answer(200, "file", file) ELSE ErrorPage(404))
    BY <1>5 DEF GetFile
  <2>2. file \in {FilePath} \cup {FilePath \o PathOf(IndexFiles[k]) : k \in DOMAIN IndexFiles}
    BY DEF ToOpen, FirstOf, Indexes
  <2>3. CASE CanOpen(file)
    <3>1. ~HasExtension(FilePath, Serving.ext)
      BY <1>5 DEF GetFile, Does
    <3> QED
      BY <1>1, <3>1, <2>1, <2>2, <2>3, ServedIsConfined DEF Answer
  <2>4. CASE ~CanOpen(file)
    BY <1>1, <2>1, <2>4, ErrorPageRefuses, RefusedIsConfined
  <2> QED
    BY <2>3, <2>4
<1>6. CASE GetListing
  <2>1. CASE Finish(Answer(200, "listing", FilePath))
    BY <1>1, <2>1, ServedIsConfined DEF Answer
  <2>2. CASE Finish(ErrorPage(403))
    BY <1>1, <2>2, ErrorPageRefuses, RefusedIsConfined
  <2> QED
    BY <1>6, <2>1, <2>2 DEF GetListing
<1>7. CASE PostRefused
  BY <1>1, <1>7, ErrorPageRefuses, RefusedIsConfined DEF PostRefused
<1>8. CASE Post
  <2>1. CASE Finish(ErrorPage(500))
    BY <1>1, <2>1, ErrorPageRefuses, RefusedIsConfined
  <2>2. CASE Finish(Answer(201, "created", StoreOf(Serving) \o UploadName))
    BY <1>1, <2>2, CreatedIsConfined
  <2> QED
    BY <1>8, <2>1, <2>2 DEF Post
<1>9. CASE Delete
  <2>1. CASE Finish(ErrorPage(404)) \/ Finish(ErrorPage(403))
    BY <1>1, <2>1, ErrorPageRefuses, RefusedIsConfined
  <2>2. CASE Finish(Answer(200, "deleted", FilePath))
    BY <1>1, <2>2, ServedIsConfined DEF Answer
  <2> QED
    BY <1>9, <2>1, <2>2 DEF Delete
<1> QED
  BY <1>2, <1>3, <1>4, <1>5, <1>6, <1>7, <1>8, <1>9 DEF Build

-----------------------------------------------------------------------------

LEMMA ConfinedInit == SiteInit => ConfinedInv
<1> SUFFICES ASSUME RoutingInit PROVE ConfinedInv
  BY DEF SiteInit
<1>1. Sound
  <2>1. answer.by = "none"
    BY DEF RoutingInit, NoAnswer, Answer
  <2> QED
    BY <2>1 DEF Sound, Confined, SourceOnlyThroughIndex
<1>2. Flow
  BY DEF RoutingInit, Flow
<1>3. Segments
  BY NothingLeadsDown DEF RoutingInit, Segments
<1> QED
  BY <1>1, <1>2, <1>3 DEF RoutingInit, ConfinedInv

LEMMA ConfinedNext == ConfinedInv /\ [SiteNext]_siteVars => ConfinedInv'
<1> SUFFICES ASSUME ConfinedInv, [SiteNext]_siteVars PROVE ConfinedInv'
  OBVIOUS
<1>1. CASE UNCHANGED siteVars
  BY <1>1, StutterConfined DEF siteVars
<1>2. CASE Parse
  BY <1>2, StutterConfined DEF Parse
<1>3. CASE Start
  BY <1>3, StartConfined
<1>4. CASE RoutingNext
  BY <1>4, ArriveConfined, AuthorizeConfined, NextSegmentConfined, NormalizeConfined,
     BuildConfined, ResetConfined DEF RoutingNext
<1> QED
  BY <1>1, <1>2, <1>3, <1>4 DEF SiteNext, Answers

\* Nothing is read, listed, run, written or removed but under a root or in an
\* upload_store, by names that lead down: whatever URI or file name a request
\* brings, whatever the configuration and the disk (Response.cpp:133-167, 526-541).
THEOREM StaysBelow == SiteSpec => []Confined
<1>1. ConfinedInv => Confined
  BY DEF ConfinedInv, Sound
<1> QED
  BY <1>1, ConfinedInit, ConfinedNext, PTL DEF SiteSpec

\* Where scripts are run, GET answers the source of none but one that is an
\* index file: it is never asked for by its own name (Response.cpp:362, 377-441).
THEOREM ScriptsStayHidden == SiteSpec => []SourceOnlyThroughIndex
<1>1. ConfinedInv => SourceOnlyThroughIndex
  BY DEF ConfinedInv, Sound
<1> QED
  BY <1>1, ConfinedInit, ConfinedNext, PTL DEF SiteSpec

-----------------------------------------------------------------------------
(* Virtual hosts *)

HostsInv ==
    /\ status = "down" => sockets = {} /\ step = "idle"
    /\ \A a \in sockets : \E k \in DOMAIN configs : configs[k].port = a.port
    /\ NamesStayOnTheirPort

\* Whoever is matched listens where the peer connected to, and has the name if
\* anyone there has.
LEMMA MatchedOnPort ==
    ASSUME NEW a, NEW name, NEW k \in MatchConfig(a, name),
           \E j \in DOMAIN configs : configs[j].port = a.port
    PROVE  /\ configs[k].port = a.port
           /\ (\E j \in DOMAIN configs : configs[j].port = a.port /\ Contains(configs[j].names, Word(name)))
                 => Contains(configs[k].names, Word(name))
<1> DEFINE onPort == {j \in DOMAIN configs : configs[j].port = a.port}
           named == {j \in onPort : Contains(configs[j].names, Word(name))}
<1>1. k \in (IF named = {} THEN onPort ELSE named)
  BY DEF MatchConfig, FirstOf
<1> QED
  BY <1>1

LEMMA HostsArrive ==
    ASSUME HostsInv, NEW r \in Requests, Arrive(r)
    PROVE  HostsInv'
<1>1. PICK a \in sockets : Reaches(r.to, a) /\ config' \in MatchConfig(a, r.host)
  BY DEF Arrive
<1>2. /\ configs[config'].port = a.port
      /\ (\E j \in DOMAIN configs : configs[j].port = a.port /\ Contains(configs[j].names, Word(r.host)))
            => Contains(configs[config'].names, Word(r.host))
  BY <1>1, MatchedOnPort DEF HostsInv
<1>3. a.port % PORTS = r.to.port
  BY <1>1 DEF Reaches
<1>4. NamesStayOnTheirPort'
  BY <1>2, <1>3 DEF Arrive, NamesStayOnTheirPort, Server
<1>5. status # "down"
  BY <1>1 DEF HostsInv
<1> QED
  BY <1>4, <1>5 DEF HostsInv, Arrive

LEMMA HostsStart ==
    ASSUME HostsInv, Start
    PROVE  HostsInv'
<1>1. step' = "idle" /\ status' # "down"
  BY DEF HostsInv, Start, SetupSockets, progress
<1>2. NamesStayOnTheirPort'
  BY <1>1 DEF NamesStayOnTheirPort
<1>3. \A a \in sockets' : \E k \in DOMAIN configs' : configs'[k].port = a.port
  BY DEF Start, SetupSockets, Addresses
<1> QED
  BY <1>1, <1>2, <1>3 DEF HostsInv

\* Nothing else touches the sockets, or the server that was matched while the
\* request lasts.
LEMMA HostsStay ==
    ASSUME HostsInv, UNCHANGED <<configs, sockets, status>>,
           step' = "idle" \/ (step # "idle" /\ UNCHANGED <<config, request>>)
                \/ UNCHANGED <<step, config, request>>
    PROVE  HostsInv'
BY DEF HostsInv, NamesStayOnTheirPort, Server

LEMMA HostsNext == HostsInv /\ [SiteNext]_siteVars => HostsInv'
<1> SUFFICES ASSUME HostsInv, [SiteNext]_siteVars PROVE HostsInv'
  OBVIOUS
<1>1. CASE UNCHANGED siteVars \/ Parse
  BY <1>1, HostsStay DEF siteVars, Parse, routingVars, progress
<1>2. CASE Start
  BY <1>2, HostsStart
<1>3. CASE \E r \in Requests : Arrive(r)
  BY <1>3, HostsArrive
<1>4. CASE Authorize \/ NextSegment \/ Normalize \/ Reset
  BY <1>4, HostsStay DEF Authorize, NextSegment, Normalize, Reset
<1>5. CASE Build
  <2>1. step = "serve" /\ UNCHANGED <<configs, sockets, status, config, request>>
    BY <1>5 DEF Build, Refuse, Redirect, RunCgi, GetFile, GetListing, PostRefused, Post,
       Delete, Does, Passes, FinishAsIs, Finish
  <2> QED
    BY <2>1, HostsStay
<1> QED
  BY <1>1, <1>2, <1>3, <1>4, <1>5 DEF SiteNext, Answers, RoutingNext

\* The server{} that answers listens on the port the peer connected to, and has
\* the name asked for if one on that port has it, for every configuration a
\* file can give (Server.cpp:148-172).
THEOREM PortsApart == SiteSpec => []NamesStayOnTheirPort
<1>1. SiteInit => HostsInv
  BY DEF SiteInit, RoutingInit, HostsInv, NamesStayOnTheirPort
<1>2. HostsInv => NamesStayOnTheirPort
  BY DEF HostsInv
<1> QED
  BY <1>1, <1>2, HostsNext, PTL DEF SiteSpec

-----------------------------------------------------------------------------
(* The limit on a body *)

\* What is on the stack once p segments of a plain URI have been taken.
TakenOf(uri, p) == SubSeq(uri, 2, IF p = Len(uri) /\ Last(uri) = Empty THEN p - 1 ELSE p)

Taken(p) == rest = SubSeq(request.uri, p + 1, Len(request.uri)) /\ stack = TakenOf(request.uri, p)

LimitInv ==
    /\ step # "idle" => request.uri \in Seq(String) /\ request.uri # <<>>
    /\ step \in {"idle", "parsed"} => stack = <<>>
    /\ step \in {"normalize", "serve"} /\ request.error = 0 => limit = LimitFor(Server, request.uri)
    /\ IsPlain(request.uri) /\ step = "normalize" =>
          \E p \in 0..Len(request.uri) : Taken(p)
    /\ IsPlain(request.uri) /\ step = "serve" /\ request.error = 0 /\ error = 0
          /\ request.method \in Implemented => stack = TakenOf(request.uri, Len(request.uri))

\* The next segment of a plain URI goes on the stack, unless it is the empty
\* one in front or behind.
LEMMA PlainSegment ==
    ASSUME NEW uri \in Seq(String), IsPlain(uri), NEW p \in 0..(Len(uri) - 1)
    PROVE  /\ uri[p + 1] # ".."
           /\ uri[p + 1] \in NoNames => TakenOf(uri, p + 1) = TakenOf(uri, p)
           /\ uri[p + 1] \notin NoNames => TakenOf(uri, p + 1) = Append(TakenOf(uri, p), uri[p + 1])
<1> Len(uri) \in Nat /\ Len(uri) > 1 /\ Head(uri) = uri[1] /\ Last(uri) = uri[Len(uri)]
  BY DEF IsPlain, Last
<1>1. TakenOf(uri, p) = SubSeq(uri, 2, p)
  BY DEF TakenOf
<1>2. CASE p = 0
  <2>1. uri[1] = Empty /\ Empty \in NoNames /\ Empty # ".."
    BY DEF IsPlain, NoNames, Empty
  <2>2. TakenOf(uri, 1) = SubSeq(uri, 2, 1) /\ TakenOf(uri, 0) = SubSeq(uri, 2, 0)
    BY DEF TakenOf
  <2>3. SubSeq(uri, 2, 1) = SubSeq(uri, 2, 0)
    OBVIOUS
  <2> QED
    BY <1>2, <2>1, <2>2, <2>3
<1>3. CASE p > 0 /\ p + 1 < Len(uri)
  <2>1. uri[p + 1] \notin NoNames
    BY <1>3 DEF IsPlain
  <2>2. TakenOf(uri, p + 1) = SubSeq(uri, 2, p + 1)
    BY <1>3 DEF TakenOf
  <2>3. Append(SubSeq(uri, 2, p), uri[p + 1]) = SubSeq(uri, 2, p + 1)
    BY <1>3
  <2>4. ".." \in NoNames
    BY DEF NoNames
  <2> QED
    BY <1>1, <2>1, <2>2, <2>3, <2>4
<1>4. CASE p + 1 = Len(uri)
  <2>1. uri[p + 1] # ".." /\ (uri[p + 1] \in NoNames => uri[p + 1] = Empty) /\ Empty \in NoNames
    BY <1>4 DEF IsPlain, NoNames
  <2>2. CASE uri[p + 1] = Empty
    <3>1. TakenOf(uri, p + 1) = SubSeq(uri, 2, p)
      BY <1>4, <2>2 DEF TakenOf
    <3> QED
      BY <1>1, <2>1, <2>2, <3>1
  <2>3. CASE uri[p + 1] # Empty
    <3>1. TakenOf(uri, p + 1) = SubSeq(uri, 2, p + 1)
      BY <1>4, <2>3 DEF TakenOf
    <3>2. Append(SubSeq(uri, 2, p), uri[p + 1]) = SubSeq(uri, 2, p + 1)
      BY <1>4
    <3> QED
      BY <1>1, <2>1, <2>3, <3>1, <3>2
  <2> QED
    BY <2>2, <2>3
<1> QED
  BY <1>2, <1>3, <1>4

LEMMA EndsAlike ==
    ASSUME NEW S, NEW u \in Seq(S), Len(u) > 1, NEW e \in S, u[1] = e, u[Len(u)] = e
    PROVE  /\ <<e>> \o SubSeq(u, 2, Len(u) - 1) \o <<e>> = u
           /\ SubSeq(u, 2, Len(u) - 1) = <<>> => u = <<e, e>>
<1>1. <<e>> \o SubSeq(u, 2, Len(u) - 1) \o <<e>> = u
  OBVIOUS
<1>2. ASSUME SubSeq(u, 2, Len(u) - 1) = <<>> PROVE u = <<e, e>>
  <2>1. DOMAIN SubSeq(u, 2, Len(u) - 1) = {}
    BY <1>2
  <2>2. Len(u) > 2 => 1 \in DOMAIN SubSeq(u, 2, Len(u) - 1)
    OBVIOUS
  <2>3. ~(Len(u) > 2)
    BY <2>1, <2>2
  <2>4. Len(u) \in Nat
    OBVIOUS
  <2>5. Len(u) = 2
    <3>1. \A n \in Nat : n > 1 /\ ~(n > 2) => n = 2
      OBVIOUS
    <3> QED
      BY <2>3, <2>4, <3>1
  <2>6. u[1] = e /\ u[2] = e
    BY <2>5
  <2> QED
    BY <2>5, <2>6
<1> QED
  BY <1>1, <1>2

LEMMA Begun ==
    ASSUME NEW S, NEW u \in Seq(S), Len(u) > 1, NEW e \in S, u[1] = e
    PROVE  <<e>> \o SubSeq(u, 2, Len(u)) = u /\ SubSeq(u, 2, Len(u)) # <<>>
<1>1. <<e>> \o SubSeq(u, 2, Len(u)) = u
  OBVIOUS
<1>2. 1 \in DOMAIN SubSeq(u, 2, Len(u)) /\ DOMAIN <<>> = {}
  OBVIOUS
<1>3. SubSeq(u, 2, Len(u)) # <<>>
  BY <1>2
<1> QED
  BY <1>1, <1>3

\* A plain URI is its own normal form.
LEMMA PlainIsNormal ==
    ASSUME request.uri \in Seq(String), IsPlain(request.uri),
           stack = TakenOf(request.uri, Len(request.uri))
    PROVE  Normalized = request.uri
<1> DEFINE uri == request.uri
<1>1. Len(uri) \in Nat /\ Len(uri) > 1 /\ uri[1] = Empty /\ Last(uri) = uri[Len(uri)] /\ Empty \in String
  BY DEF IsPlain, Last
<1>2. CASE Last(uri) = Empty
  <2>1. stack = SubSeq(uri, 2, Len(uri) - 1)
    BY <1>2 DEF TakenOf
  <2>2. /\ <<Empty>> \o SubSeq(uri, 2, Len(uri) - 1) \o <<Empty>> = uri
        /\ SubSeq(uri, 2, Len(uri) - 1) = <<>> => uri = <<Empty, Empty>>
    <3>1. uri \in Seq(String) /\ Len(uri) > 1 /\ Empty \in String /\ uri[1] = Empty /\ uri[Len(uri)] = Empty
      BY <1>1, <1>2
    <3> HIDE DEF uri
    <3> QED
      BY <3>1, EndsAlike
  <2> QED
    BY <1>1, <1>2, <2>1, <2>2 DEF Normalized
<1>3. CASE Last(uri) # Empty
  <2>1. stack = SubSeq(uri, 2, Len(uri))
    BY <1>3 DEF TakenOf
  <2>2. <<Empty>> \o SubSeq(uri, 2, Len(uri)) = uri /\ SubSeq(uri, 2, Len(uri)) # <<>>
    BY <1>1, Begun
  <2>3. Normalized = <<Empty>> \o stack \o <<>>
    BY <1>3, <2>1, <2>2 DEF Normalized
  <2>4. stack \in Seq(String) /\ <<Empty>> \in Seq(String)
    BY <1>1, <2>1
  <2> QED
    BY <2>1, <2>2, <2>3, <2>4
<1> QED
  BY <1>2, <1>3

LEMMA LimitArrive ==
    ASSUME LimitInv, NEW r \in Requests, Arrive(r)
    PROVE  LimitInv'
<1>1. r.uri \in Seq(String) /\ r.uri # <<>> /\ r.error \in {0, 400}
  BY RequestsAssumption DEF Request
<1>2. /\ request' = r /\ error' = r.error /\ stack' = <<>>
      /\ step' = IF r.error = 0 THEN "parsed" ELSE "serve"
  BY DEF LimitInv, Arrive
<1> QED
  BY <1>1, <1>2 DEF LimitInv

LEMMA LimitAuthorize ==
    ASSUME LimitInv, Authorize
    PROVE  LimitInv'
<1> DEFINE uri == request.uri
<1>1. /\ step = "parsed" /\ stack = <<>> /\ stack' = <<>> /\ rest' = uri /\ request' = request
      /\ uri \in Seq(String) /\ uri # <<>>
  BY DEF LimitInv, Authorize
<1>2. limit' = LimitFor(Server, uri)'
  BY DEF Authorize, Server
<1>3. ASSUME IsPlain(uri) PROVE Taken(0)'
  <2>1. Len(uri) \in Nat /\ Len(uri) > 1
    BY <1>1, <1>3 DEF IsPlain
  <2>2. TakenOf(uri, 0) = <<>>
    BY <1>1, <2>1 DEF TakenOf
  <2>3. SubSeq(uri, 1, Len(uri)) = uri
    BY <1>1
  <2> QED
    BY <1>1, <2>2, <2>3 DEF Taken, TakenOf
<1>4. step' \in {"normalize", "serve"}
      /\ (step' = "serve" => error' # 0 \/ request.method \notin Implemented)
  BY DEF Authorize
<1>5. 0 \in 0..Len(uri)
  BY <1>1
<1>6. IsPlain(request'.uri) /\ step' = "normalize" => \E p \in 0..Len(request'.uri) : Taken(p)'
  BY <1>1, <1>3, <1>5
<1> QED
  BY <1>1, <1>2, <1>4, <1>6 DEF LimitInv

LEMMA LimitNextSegment ==
    ASSUME LimitInv, NextSegment
    PROVE  LimitInv'
<1> DEFINE uri == request.uri
<1>1. /\ step = "normalize" /\ rest # <<>> /\ request' = request /\ error' = error
      /\ limit' = limit /\ Server' = Server
      /\ uri \in Seq(String) /\ uri # <<>>
      /\ step' \in {"normalize", "serve"}
  BY DEF LimitInv, NextSegment, Server
<1>2. ASSUME IsPlain(uri)
      PROVE  step' = "normalize" /\ \E p \in 0..Len(uri) : Taken(p)'
  <2>1. PICK p \in 0..Len(uri) : Taken(p)
    BY <1>1, <1>2 DEF LimitInv
  <2>2. rest = SubSeq(uri, p + 1, Len(uri)) /\ stack = TakenOf(uri, p)
    BY <2>1 DEF Taken
  <2>3. p \in 0..(Len(uri) - 1)
    BY <1>1, <2>2
  <2>4. Head(rest) = uri[p + 1] /\ Tail(rest) = SubSeq(uri, p + 2, Len(uri))
    BY <1>1, <2>2, <2>3
  <2>5. /\ uri[p + 1] # ".."
        /\ uri[p + 1] \in NoNames => TakenOf(uri, p + 1) = TakenOf(uri, p)
        /\ uri[p + 1] \notin NoNames => TakenOf(uri, p + 1) = Append(TakenOf(uri, p), uri[p + 1])
    BY <1>1, <1>2, <2>3, PlainSegment
  <2>6. step' = "normalize" /\ rest' = SubSeq(uri, (p + 1) + 1, Len(uri)) /\ stack' = TakenOf(uri, p + 1)
    <3>1. Head(rest) # ".."
      BY <2>4, <2>5
    <3>2. step' = "normalize"
      BY <1>1, <3>1 DEF NextSegment
    <3>3. stack' = IF Head(rest) \in NoNames THEN stack ELSE Append(stack, Head(rest))
      BY <3>1 DEF NextSegment
    <3>4. stack' = TakenOf(uri, p + 1)
      BY <2>2, <2>4, <2>5, <3>3
    <3>5. rest' = Tail(rest) /\ (p + 1) + 1 = p + 2
      BY <2>3 DEF NextSegment
    <3> QED
      BY <2>4, <3>2, <3>4, <3>5
  <2>7. p + 1 \in 0..Len(uri) /\ Taken(p + 1)'
    BY <1>1, <2>3, <2>6 DEF Taken, TakenOf
  <2> QED
    BY <2>6, <2>7
<1>3. request.error = 0 => limit = LimitFor(Server, uri)
  BY <1>1 DEF LimitInv
<1> QED
  BY <1>1, <1>2, <1>3 DEF LimitInv

LEMMA LimitNormalize ==
    ASSUME LimitInv, Normalize
    PROVE  LimitInv'
<1> DEFINE uri == request.uri
<1>1. /\ step = "normalize" /\ rest = <<>> /\ step' = "serve" /\ stack' = stack
      /\ request' = request /\ limit' = limit /\ Server' = Server /\ uri \in Seq(String) /\ uri # <<>>
  BY DEF LimitInv, Normalize, Server
<1>2. ASSUME IsPlain(uri) PROVE stack = TakenOf(uri, Len(uri))
  <2>1. PICK p \in 0..Len(uri) : Taken(p)
    BY <1>1, <1>2 DEF LimitInv
  <2>2. SubSeq(uri, p + 1, Len(uri)) = <<>>
    BY <1>1, <2>1 DEF Taken
  <2>3. DOMAIN SubSeq(uri, p + 1, Len(uri)) = {}
    BY <2>2
  <2>4. p < Len(uri) => 1 \in DOMAIN SubSeq(uri, p + 1, Len(uri))
    BY <1>1
  <2>5. ~(p < Len(uri))
    BY <2>3, <2>4
  <2>6. p = Len(uri)
    BY <1>1, <2>5
  <2> QED
    BY <2>1, <2>6 DEF Taken
<1>3. request.error = 0 => limit = LimitFor(Server, uri)
  BY <1>1 DEF LimitInv
<1>4. IsPlain(uri) => stack' = TakenOf(uri, Len(uri))
  BY <1>1, <1>2
<1> QED
  BY <1>1, <1>3, <1>4 DEF LimitInv

LEMMA LimitBuild ==
    ASSUME LimitInv, Build
    PROVE  LimitInv'
<1>1. step' = "answered" /\ step = "serve" /\ request' = request
  BY DEF Build, Refuse, Redirect, RunCgi, GetFile, GetListing, PostRefused, Post,
     Delete, Does, Passes, FinishAsIs, Finish
<1> QED
  BY <1>1 DEF LimitInv

LEMMA LimitStay ==
    ASSUME LimitInv, UNCHANGED <<configs, progress>>
    PROVE  LimitInv'
<1>1. Server' = Server
  BY DEF Server, progress
<1> QED
  BY <1>1 DEF LimitInv, progress, Taken

LEMMA LimitNext == LimitInv /\ Flow /\ [SiteNext]_siteVars => LimitInv'
<1> SUFFICES ASSUME LimitInv, Flow, [SiteNext]_siteVars PROVE LimitInv'
  OBVIOUS
<1>1. CASE UNCHANGED siteVars \/ Parse
  BY <1>1, LimitStay DEF siteVars, Parse, routingVars
<1>2. CASE Start
  <2>1. step' = "idle" /\ stack' = stack /\ step = "idle"
    BY <1>2 DEF Flow, Start, SetupSockets, progress
  <2> QED
    BY <2>1 DEF LimitInv
<1>3. CASE Reset
  <2>1. step' = "idle" /\ stack' = <<>>
    BY <1>3 DEF Reset
  <2> QED
    BY <2>1 DEF LimitInv
<1> QED
  BY <1>1, <1>2, <1>3, LimitArrive, LimitAuthorize, LimitNextSegment, LimitNormalize, LimitBuild
     DEF SiteNext, Answers, RoutingNext

\* The limit a body was held to, by the URI as it came, is that of the location
\* that serves the request, by the normalized one, if the URI has no dots and no
\* empty segments: whatever the locations are and however their paths overlap
\* (Server.cpp:223-246, Response.cpp:305-312).
THEOREM OneLocation == SiteSpec => []LimitOfItsLocation
<1>1. SiteInit => LimitInv
  BY DEF SiteInit, RoutingInit, LimitInv
<1>2. ConfinedInv => Flow
  BY DEF ConfinedInv
<1>3. LimitInv => LimitOfItsLocation
  <2> SUFFICES ASSUME LimitInv, step = "serve", request.error = 0, request.method \in Implemented,
                      error = 0, IsPlain(request.uri)
               PROVE  limit = LimitFor(Server, Normalized)
    BY DEF LimitOfItsLocation
  <2>1. /\ limit = LimitFor(Server, request.uri) /\ request.uri \in Seq(String)
        /\ stack = TakenOf(request.uri, Len(request.uri))
    BY DEF LimitInv
  <2>2. Normalized = request.uri
    BY <2>1, PlainIsNormal
  <2> QED
    BY <2>1, <2>2
<1> QED
  BY <1>1, <1>2, <1>3, ConfinedInit, ConfinedNext, LimitNext, PTL DEF SiteSpec

-----------------------------------------------------------------------------
(* Dots and empty segments *)

\* No ".." among the segments from k to p takes back the name that is the k-th.
Stays(uri, k, p) ==
    /\ k \in 1..p
    /\ uri[k] \notin NoNames
    /\ \A q \in k..p : Descent(uri, q) >= Descent(uri, k)

\* The places w of the names that stay, in order: the n-th leads n deep.
Trail(w, uri, p) ==
    /\ w \in Seq(Nat)
    /\ Len(w) = Descent(uri, p)
    /\ \A n \in 1..Len(w) : Stays(uri, w[n], p) /\ Descent(uri, w[n]) = n
    /\ \A k \in 1..p : Stays(uri, k, p) => \E n \in 1..Len(w) : w[n] = k
    /\ \A m, n \in 1..Len(w) : m < n => w[m] < w[n]

Along(uri, w) == [n \in 1..Len(w) |-> uri[w[n]]]

\* What p segments of the URI have left on the stack.
Resolved(p) ==
    /\ \A q \in 0..p : Descent(request.uri, q) >= 0
    /\ \E w : Trail(w, request.uri, p) /\ stack = Along(request.uri, w)

ResolveInv ==
    /\ step # "idle" => request.uri \in Seq(String)
    /\ step \in {"idle", "parsed"} => stack = <<>> /\ ~climbed
    /\ step = "normalize" =>
         /\ ~climbed
         /\ \E p \in 0..Len(request.uri) :
               rest = SubSeq(request.uri, p + 1, Len(request.uri)) /\ Resolved(p)
    /\ step = "serve" /\ error = 0 /\ request.method \in Implemented =>
         IF climbed THEN Climbs(request.uri) ELSE Resolved(Len(request.uri))

\* One place more to look at.
LEMMA OneMore ==
    ASSUME NEW S, NEW p \in Nat
    PROVE  LET Those(n) == {k \in 1..n : k \in S}
           IN /\ IsFiniteSet(Those(p)) /\ Cardinality(Those(p)) \in Nat
              /\ Cardinality(Those(p + 1)) = Cardinality(Those(p)) + (IF p + 1 \in S THEN 1 ELSE 0)
<1> DEFINE Those(n) == {k \in 1..n : k \in S}
<1>1. IsFiniteSet(1..p)
  BY FS_Interval
<1>2. Those(p) \in SUBSET (1..p)
  OBVIOUS
<1>3. IsFiniteSet(Those(p)) /\ Cardinality(Those(p)) \in Nat
  BY <1>1, <1>2, FS_Subset, FS_CardinalityType
<1>4. 1..(p + 1) = (1..p) \cup {p + 1}
  OBVIOUS
<1>5. p + 1 \notin Those(p)
  OBVIOUS
<1>6. CASE p + 1 \in S
  <2>1. Those(p + 1) = Those(p) \cup {p + 1}
    BY <1>4, <1>6
  <2> HIDE DEF Those
  <2>2. Cardinality(Those(p) \cup {p + 1}) = Cardinality(Those(p)) + 1
    BY <1>3, <1>5, FS_AddElement
  <2> QED
    BY <1>3, <1>6, <2>1, <2>2 DEF Those
<1>7. CASE p + 1 \notin S
  <2>1. Those(p + 1) = Those(p)
    BY <1>4, <1>7
  <2> QED
    BY <1>3, <1>7, <2>1
<1> QED
  BY <1>6, <1>7

LEMMA DescentBegins == ASSUME NEW uri PROVE Descent(uri, 0) = 0
<1>1. 1..0 = {}
  OBVIOUS
<1>2. Cardinality({}) = 0
  BY FS_EmptySet
<1>3. {k \in 1..0 : uri[k] \notin NoNames} = {} /\ {k \in 1..0 : uri[k] = ".."} = {}
  BY <1>1
<1> QED
  BY <1>2, <1>3 DEF Descent

LEMMA UpIsNoName == ".." \in NoNames
BY DEF NoNames

\* A name leads down, ".." leads up, and what is neither leads nowhere.
LEMMA DescentGoesOn ==
    ASSUME NEW uri, NEW p \in Nat
    PROVE  /\ Descent(uri, p) \in Int
           /\ uri[p + 1] \notin NoNames => Descent(uri, p + 1) = Descent(uri, p) + 1
           /\ uri[p + 1] = ".." => Descent(uri, p + 1) = Descent(uri, p) - 1
           /\ uri[p + 1] \in NoNames /\ uri[p + 1] # ".." => Descent(uri, p + 1) = Descent(uri, p)
<1> DEFINE S == {k \in Nat : uri[k] \notin NoNames}
           U == {k \in Nat : uri[k] = ".."}
           Proper(n) == {k \in 1..n : uri[k] \notin NoNames}
           Ups(n) == {k \in 1..n : uri[k] = ".."}
<1>1. \A n \in Nat : {k \in 1..n : k \in S} = Proper(n) /\ {k \in 1..n : k \in U} = Ups(n)
  OBVIOUS
<1>2. p + 1 \in Nat /\ (p + 1 \in S <=> uri[p + 1] \notin NoNames) /\ (p + 1 \in U <=> uri[p + 1] = "..")
  OBVIOUS
<1> HIDE DEF S, U
<1>3. /\ Cardinality({k \in 1..p : k \in S}) \in Nat
      /\ Cardinality({k \in 1..(p + 1) : k \in S}) = Cardinality({k \in 1..p : k \in S}) + (IF p + 1 \in S THEN 1 ELSE 0)
  BY OneMore
<1>4. /\ Cardinality({k \in 1..p : k \in U}) \in Nat
      /\ Cardinality({k \in 1..(p + 1) : k \in U}) = Cardinality({k \in 1..p : k \in U}) + (IF p + 1 \in U THEN 1 ELSE 0)
  BY OneMore
<1>5. \A n \in Nat : Descent(uri, n) = Cardinality(Proper(n)) - Cardinality(Ups(n))
  BY DEF Descent
<1>6. \A n \in Nat : {k \in 1..n : k \in S} = Proper(n)
  BY <1>1
<1>7. \A n \in Nat : {k \in 1..n : k \in U} = Ups(n)
  BY <1>1
<1> HIDE DEF Proper, Ups
<1>8. /\ Cardinality(Proper(p)) \in Nat
      /\ Cardinality(Proper(p + 1)) = Cardinality(Proper(p)) + (IF p + 1 \in S THEN 1 ELSE 0)
  BY <1>2, <1>3, <1>6
<1>9. /\ Cardinality(Ups(p)) \in Nat
      /\ Cardinality(Ups(p + 1)) = Cardinality(Ups(p)) + (IF p + 1 \in U THEN 1 ELSE 0)
  BY <1>2, <1>4, <1>7
<1>10. /\ Descent(uri, p) = Cardinality(Proper(p)) - Cardinality(Ups(p))
       /\ Descent(uri, p + 1) = Cardinality(Proper(p + 1)) - Cardinality(Ups(p + 1))
  BY <1>2, <1>5
<1> QED
  BY <1>2, <1>8, <1>9, <1>10, UpIsNoName

\* Nothing is known of the stack but that the segment is no name, or "..".
LEMMA TrailGoesOn ==
    ASSUME NEW uri, NEW p \in Nat, NEW w, Trail(w, uri, p), uri[p + 1] \in NoNames, uri[p + 1] # ".."
    PROVE  Trail(w, uri, p + 1)
<1>1. Descent(uri, p + 1) = Descent(uri, p) /\ Descent(uri, p) \in Int
  BY DescentGoesOn
<1>2. ASSUME NEW k \in 1..(p + 1) PROVE Stays(uri, k, p + 1) <=> Stays(uri, k, p)
  <2>1. ASSUME Stays(uri, k, p + 1) PROVE Stays(uri, k, p)
    <3>1. k # p + 1
      BY <2>1 DEF Stays
    <3> QED
      BY <2>1, <3>1 DEF Stays
  <2>2. ASSUME Stays(uri, k, p) PROVE Stays(uri, k, p + 1)
    <3>1. k \in 1..p /\ Descent(uri, p) >= Descent(uri, k)
      BY <2>2 DEF Stays
    <3>2. \A q \in k..(p + 1) : q \in k..p \/ q = p + 1
      BY <3>1
    <3> QED
      BY <1>1, <2>2, <3>1, <3>2 DEF Stays
  <2> QED
    BY <2>1, <2>2
<1>3. \A n \in 1..Len(w) : w[n] \in 1..p
  BY DEF Trail, Stays
<1>4. \A k : Stays(uri, k, p) => k \in 1..p
  BY DEF Stays
<1> QED
  BY <1>1, <1>2, <1>3, <1>4 DEF Trail

LEMMA TrailGrows ==
    ASSUME NEW uri, NEW p \in Nat, NEW w, Trail(w, uri, p), uri[p + 1] \notin NoNames
    PROVE  Trail(Append(w, p + 1), uri, p + 1)
<1> DEFINE v == Append(w, p + 1)
<1>1. Descent(uri, p + 1) = Descent(uri, p) + 1 /\ Descent(uri, p) \in Int
  BY DescentGoesOn
<1>2. /\ w \in Seq(Nat) /\ Len(w) \in Nat /\ v \in Seq(Nat) /\ Len(v) = Len(w) + 1
      /\ v[Len(v)] = p + 1 /\ \A n \in 1..Len(w) : v[n] = w[n]
  BY DEF Trail
<1>3. Len(w) = Descent(uri, p)
  BY DEF Trail
<1> HIDE DEF v
<1>4. Stays(uri, p + 1, p + 1)
  <2>1. \A q \in (p + 1)..(p + 1) : q = p + 1
    OBVIOUS
  <2> QED
    BY <1>1, <2>1 DEF Stays
<1>5. ASSUME NEW n \in 1..Len(w) PROVE Stays(uri, w[n], p + 1) /\ Descent(uri, w[n]) = n
  <2>1. Stays(uri, w[n], p) /\ Descent(uri, w[n]) = n
    BY DEF Trail
  <2>2. w[n] \in 1..p
    BY <2>1 DEF Stays
  <2>3. \A q \in w[n]..(p + 1) : q \in w[n]..p \/ q = p + 1
    BY <2>2
  <2>4. Descent(uri, p + 1) >= n
    BY <1>1, <1>2, <1>3
  <2> QED
    BY <2>1, <2>2, <2>3, <2>4 DEF Stays
<1>6. ASSUME NEW k \in 1..(p + 1), Stays(uri, k, p + 1) PROVE \E n \in 1..Len(v) : v[n] = k
  <2>1. CASE k = p + 1
    BY <1>2, <2>1
  <2>2. CASE k # p + 1
    <3>1. k \in 1..p /\ Stays(uri, k, p)
      BY <1>6, <2>2 DEF Stays
    <3>2. PICK n \in 1..Len(w) : w[n] = k
      BY <3>1 DEF Trail
    <3> QED
      BY <1>2, <3>2
  <2> QED
    BY <2>1, <2>2
<1>7. \A n \in 1..Len(w) : w[n] \in 1..p
  BY DEF Trail, Stays
<1>8. \A m, n \in 1..Len(v) : m < n => v[m] < v[n]
  <2>1. \A m, n \in 1..Len(w) : m < n => w[m] < w[n]
    BY DEF Trail
  <2> SUFFICES ASSUME NEW m \in 1..Len(v), NEW n \in 1..Len(v), m < n PROVE v[m] < v[n]
    OBVIOUS
  <2>2. Len(w) \in Nat /\ Len(v) = Len(w) + 1 /\ m \in Nat /\ n \in Nat
    BY <1>2
  <2>3. m \in 1..Len(w) /\ (n \in 1..Len(w) \/ n = Len(v))
    BY <2>2
  <2>4. v[m] = w[m] /\ v[m] \in 1..p
    BY <1>2, <1>7, <2>3
  <2>5. CASE n \in 1..Len(w)
    BY <1>2, <2>1, <2>3, <2>5
  <2>6. CASE n = Len(v)
    <3>1. v[n] = p + 1
      BY <1>2, <2>6
    <3> QED
      BY <2>4, <3>1
  <2> QED
    BY <2>3, <2>5, <2>6
<1>9. \A n \in 1..Len(v) : Stays(uri, v[n], p + 1) /\ Descent(uri, v[n]) = n
  <2>1. \A n \in 1..Len(v) : n \in 1..Len(w) \/ n = Len(v)
    BY <1>2
  <2> QED
    BY <1>1, <1>2, <1>3, <1>4, <1>5, <2>1
<1>10. Len(v) = Descent(uri, p + 1)
  BY <1>1, <1>2, <1>3
<1>11. Trail(v, uri, p + 1)
  BY <1>2, <1>6, <1>8, <1>9, <1>10 DEF Trail
<1> QED
  BY <1>11 DEF v

\* ".." takes back the last name that stayed: of those before, none leads as
\* deep.
LEMMA TrailShrinks ==
    ASSUME NEW uri, NEW p \in Nat, NEW w, Trail(w, uri, p), w # <<>>, uri[p + 1] = ".."
    PROVE  Trail(Front(w), uri, p + 1)
<1> DEFINE v == Front(w)
<1>1. Descent(uri, p + 1) = Descent(uri, p) - 1 /\ Descent(uri, p) \in Int
  BY DescentGoesOn
<1>2. w \in Seq(Nat) /\ Len(w) \in Nat /\ Len(w) = Descent(uri, p)
  BY DEF Trail
<1>3. v \in Seq(Nat) /\ Len(v) = Len(w) - 1 /\ \A n \in 1..Len(v) : v[n] = w[n]
  BY <1>2 DEF Front
<1> HIDE DEF v
<1>4. uri[p + 1] \in NoNames
  BY UpIsNoName
<1>5. \A n \in 1..Len(w) : Stays(uri, w[n], p) /\ Descent(uri, w[n]) = n /\ w[n] \in 1..p
  BY DEF Trail, Stays
<1>6. ASSUME NEW n \in 1..Len(v) PROVE Stays(uri, v[n], p + 1) /\ Descent(uri, v[n]) = n
  <2>1. n \in 1..Len(w) /\ n < Len(w) /\ v[n] = w[n]
    BY <1>2, <1>3
  <2>2. Stays(uri, w[n], p) /\ Descent(uri, w[n]) = n /\ w[n] \in 1..p
    BY <1>5, <2>1
  <2>3. \A q \in w[n]..(p + 1) : q \in w[n]..p \/ q = p + 1
    BY <2>2
  <2>4. Descent(uri, p + 1) >= n
    BY <1>1, <1>2, <2>1
  <2> QED
    BY <2>1, <2>2, <2>3, <2>4 DEF Stays
<1>7. ASSUME NEW k \in 1..(p + 1), Stays(uri, k, p + 1) PROVE \E n \in 1..Len(v) : v[n] = k
  <2>1. k \in 1..p /\ Stays(uri, k, p)
    BY <1>4, <1>7 DEF Stays
  <2>2. Descent(uri, p + 1) >= Descent(uri, k)
    BY <1>7 DEF Stays
  <2>3. PICK n \in 1..Len(w) : w[n] = k
    BY <2>1 DEF Trail
  <2>4. Descent(uri, k) = n
    BY <1>5, <2>3
  <2>5. n \in 1..Len(v)
    BY <1>1, <1>2, <1>3, <2>2, <2>4
  <2> QED
    BY <1>3, <2>3, <2>5
<1>8. \A m, n \in 1..Len(v) : m < n => v[m] < v[n]
  <2>1. \A m, n \in 1..Len(w) : m < n => w[m] < w[n]
    BY DEF Trail
  <2> QED
    BY <1>2, <1>3, <2>1
<1>9. Len(v) = Descent(uri, p + 1)
  BY <1>1, <1>2, <1>3
<1>10. Trail(v, uri, p + 1)
  BY <1>3, <1>6, <1>7, <1>8, <1>9 DEF Trail
<1> QED
  BY <1>10 DEF v

\* Counting the places up to one of them tells which one it is.
LEMMA IncreasingCounts ==
    ASSUME NEW w \in Seq(Nat), \A m, n \in 1..Len(w) : m < n => w[m] < w[n],
           NEW n \in Nat, n <= Len(w)
    PROVE  Cardinality({w[m] : m \in 1..n}) = n
<1> DEFINE S == {w[m] : m \in 1..n}
           f == [m \in 1..n |-> w[m]]
<1>1. \A m \in 1..n : m \in 1..Len(w) /\ w[m] \in Nat
  OBVIOUS
<1>2. f \in [1..n -> S]
  OBVIOUS
<1>3. ASSUME NEW a \in 1..n, NEW b \in 1..n, a # b PROVE w[a] # w[b]
  <2>1. a < b \/ b < a
    BY <1>3
  <2> QED
    BY <1>1, <2>1
<1>4. IsInjective(f)
  BY <1>3 DEF IsInjective
<1>5. \A x \in S : \E m \in 1..n : f[m] = x
  OBVIOUS
<1>6. f \in Bijection(1..n, S)
  BY <1>2, <1>4, <1>5 DEF Bijection, Injection, Surjection
<1> QED
  BY <1>6, FS_CountingElements DEF ExistsBijection

LEMMA KeptAlong ==
    ASSUME NEW uri \in Seq(String), NEW w, Trail(w, uri, Len(uri))
    PROVE  Kept(uri) = Along(uri, w)
<1> DEFINE kept == {k \in DOMAIN uri : /\ uri[k] \notin NoNames
                                       /\ \A p \in k..Len(uri) : Descent(uri, p) >= Descent(uri, k)}
           UpTo(k) == {j \in kept : j <= k}
<1>1. /\ w \in Seq(Nat) /\ Len(w) \in Nat
      /\ \A m, n \in 1..Len(w) : m < n => w[m] < w[n]
  BY DEF Trail
<1>2. DOMAIN uri = 1..Len(uri)
  OBVIOUS
<1>3. \A k : k \in kept <=> Stays(uri, k, Len(uri))
  BY <1>2 DEF Stays
<1>4. \A k \in kept : k \in Nat
  BY <1>2
<1> HIDE DEF kept
<1>5. kept = {w[m] : m \in 1..Len(w)}
  <2>1. \A k \in kept : \E n \in 1..Len(w) : w[n] = k
    BY <1>3 DEF Trail, Stays
  <2>2. \A n \in 1..Len(w) : w[n] \in kept
    BY <1>3 DEF Trail
  <2> QED
    BY <2>1, <2>2
<1>6. Cardinality(kept) = Len(w)
  <2>1. Len(w) <= Len(w)
    BY <1>1
  <2>2. Cardinality({w[m] : m \in 1..Len(w)}) = Len(w)
    BY <1>1, <2>1, IncreasingCounts
  <2> QED
    BY <1>5, <2>2
<1>7. ASSUME NEW n \in 1..Len(w) PROVE Cardinality(UpTo(w[n])) = n
  <2>1. ASSUME NEW m \in 1..Len(w) PROVE w[m] <= w[n] <=> m <= n
    <3>1. m \in Nat /\ n \in Nat /\ w[m] \in Nat /\ w[n] \in Nat
      BY <1>1
    <3>2. (m < n => w[m] < w[n]) /\ (n < m => w[n] < w[m])
      BY <1>1
    <3>3. m < n \/ m = n \/ n < m
      BY <3>1
    <3> QED
      BY <3>1, <3>2, <3>3
  <2>2. UpTo(w[n]) = {w[m] : m \in 1..n}
    <3>1. \A m \in 1..n : m \in 1..Len(w) /\ m <= n
      BY <1>1
    <3>2. \A m \in 1..Len(w) : m <= n => m \in 1..n
      BY <1>1
    <3> QED
      BY <1>5, <2>1, <3>1, <3>2
  <2>3. n \in Nat /\ n <= Len(w)
    BY <1>1
  <2> QED
    BY <1>1, <2>2, <2>3, IncreasingCounts
<1>8. ASSUME NEW n \in 1..Len(w) PROVE (CHOOSE k \in kept : Cardinality(UpTo(k)) = n) = w[n]
  <2>1. w[n] \in kept /\ Cardinality(UpTo(w[n])) = n
    BY <1>5, <1>7
  <2>2. ASSUME NEW k \in kept, Cardinality(UpTo(k)) = n PROVE k = w[n]
    <3>1. PICK m \in 1..Len(w) : k = w[m]
      BY <1>5
    <3>2. m = n
      BY <1>7, <2>2, <3>1
    <3> QED
      BY <3>1, <3>2
  <2> HIDE DEF UpTo
  <2> QED
    BY <2>1, <2>2
<1>9. Kept(uri) = [n \in 1..Cardinality(kept) |-> uri[CHOOSE k \in kept : Cardinality(UpTo(k)) = n]]
  BY DEF Kept, kept
<1> HIDE DEF UpTo
<1>10. \A n \in 1..Len(w) : uri[CHOOSE k \in kept : Cardinality(UpTo(k)) = n] = uri[w[n]]
  BY <1>8
<1> QED
  BY <1>6, <1>9, <1>10 DEF Along

-----------------------------------------------------------------------------

LEMMA EmptyTrail ==
    ASSUME NEW uri
    PROVE  Trail(<<>>, uri, 0) /\ Along(uri, <<>>) = <<>> /\ \A q \in 0..0 : Descent(uri, q) >= 0
<1>1. Descent(uri, 0) = 0 /\ 1..0 = {} /\ Len(<<>>) = 0
  BY DescentBegins
<1>2. \A q \in 0..0 : q = 0
  OBVIOUS
<1>3. <<>> \in Seq(Nat)
  OBVIOUS
<1>4. Trail(<<>>, uri, 0)
  BY <1>1, <1>3 DEF Trail
<1>5. Along(uri, <<>>) = <<>>
  BY <1>1 DEF Along
<1> QED
  BY <1>1, <1>2, <1>4, <1>5

LEMMA AlongGrows ==
    ASSUME NEW uri \in Seq(String), NEW p \in Nat, p < Len(uri), NEW w, Trail(w, uri, p)
    PROVE  Along(uri, Append(w, p + 1)) = Append(Along(uri, w), uri[p + 1])
<1> DEFINE v == Append(w, p + 1)
           a == Along(uri, w)
           b == Append(a, uri[p + 1])
           c == Along(uri, v)
<1>1. w \in Seq(Nat) /\ Len(w) \in Nat /\ \A n \in 1..Len(w) : w[n] \in 1..p
  BY DEF Trail, Stays
<1>2. /\ v \in Seq(Nat) /\ Len(v) = Len(w) + 1 /\ v[Len(w) + 1] = p + 1
      /\ \A n \in 1..Len(w) : v[n] = w[n]
  BY <1>1
<1>3. uri[p + 1] \in String /\ \A n \in 1..p : uri[n] \in String
  OBVIOUS
<1>4. a \in Seq(String) /\ Len(a) = Len(w) /\ \A n \in 1..Len(w) : a[n] = uri[w[n]]
  BY <1>1, <1>3 DEF Along
<1> HIDE DEF v, a
<1>5. /\ b \in Seq(String) /\ Len(b) = Len(w) + 1 /\ b[Len(w) + 1] = uri[p + 1]
      /\ \A n \in 1..Len(w) : b[n] = uri[w[n]]
  BY <1>3, <1>4
<1> HIDE DEF b
<1>6. \A n \in 1..Len(v) : n \in 1..Len(w) \/ n = Len(w) + 1
  BY <1>1, <1>2
<1>7. \A n \in 1..Len(v) : uri[v[n]] = b[n] /\ b[n] \in String
  BY <1>2, <1>3, <1>5, <1>6, <1>1
<1>8. c \in Seq(String) /\ Len(c) = Len(v) /\ \A n \in 1..Len(v) : c[n] = uri[v[n]]
  BY <1>2, <1>7, SMTT(30) DEF Along
<1> HIDE DEF c
<1>9. c = b
  BY <1>2, <1>5, <1>7, <1>8, SeqEqual
<1> QED
  BY <1>9 DEF v, a, b, c

LEMMA FrontKeeps ==
    ASSUME NEW S, NEW s \in Seq(S), s # <<>>
    PROVE  /\ Front(s) \in Seq(S)
           /\ Len(Front(s)) = Len(s) - 1
           /\ \A n \in 1..Len(Front(s)) : Front(s)[n] = s[n]
<1>1. Len(s) \in Nat /\ Len(s) # 0
  OBVIOUS
<1>2. PICK k \in Nat : k = Len(s) - 1
  BY <1>1
<1>3. Front(s) = SubSeq(s, 1, k) /\ k <= Len(s)
  BY <1>1, <1>2 DEF Front
<1>4. Front(s) \in Seq(S) /\ Len(Front(s)) = k
  BY <1>3
<1>5. \A n \in 1..k : Front(s)[n] = s[n]
  BY <1>3
<1> QED
  BY <1>2, <1>4, <1>5

LEMMA AlongShrinks ==
    ASSUME NEW uri \in Seq(String), NEW p \in Nat, p < Len(uri), NEW w, Trail(w, uri, p), w # <<>>
    PROVE  Along(uri, Front(w)) = Front(Along(uri, w))
<1> DEFINE v == Front(w)
           a == Along(uri, w)
           b == Front(a)
           c == Along(uri, v)
<1>1. w \in Seq(Nat) /\ Len(w) \in Nat /\ \A n \in 1..Len(w) : w[n] \in 1..p
  BY DEF Trail, Stays
<1>2. Len(w) > 0
  BY <1>1
<1>3. v \in Seq(Nat) /\ Len(v) = Len(w) - 1 /\ \A n \in 1..Len(v) : v[n] = w[n]
  BY <1>1, FrontKeeps
<1>4. \A n \in 1..p : uri[n] \in String
  OBVIOUS
<1>5. a \in Seq(String) /\ Len(a) = Len(w) /\ \A n \in 1..Len(w) : a[n] = uri[w[n]]
  BY <1>1, <1>4 DEF Along
<1> HIDE DEF v, a
<1>6. b \in Seq(String) /\ Len(b) = Len(w) - 1 /\ \A n \in 1..Len(b) : b[n] = a[n]
  BY <1>2, <1>5 DEF Front
<1> HIDE DEF b
<1>7. \A n \in 1..Len(v) : n \in 1..Len(w)
  BY <1>1, <1>3
<1>8. \A n \in 1..Len(v) : uri[v[n]] = b[n] /\ b[n] \in String
  <2> SUFFICES ASSUME NEW n \in 1..Len(v) PROVE uri[v[n]] = b[n] /\ b[n] \in String
    OBVIOUS
  <2>1. n \in 1..Len(w) /\ n \in 1..Len(b) /\ v[n] = w[n]
    BY <1>3, <1>6, <1>7
  <2>2. b[n] = a[n] /\ a[n] = uri[w[n]]
    BY <1>5, <1>6, <2>1
  <2>3. w[n] \in 1..p
    BY <1>1, <2>1
  <2>4. uri[w[n]] \in String
    BY <1>4, <2>3
  <2> QED
    BY <2>1, <2>2, <2>4
<1>9. c \in Seq(String) /\ Len(c) = Len(v) /\ \A n \in 1..Len(v) : c[n] = uri[v[n]]
  <2>1. Len(v) \in Nat
    BY <1>3
  <2>2. \A n \in 1..Len(v) : uri[v[n]] \in String
    BY <1>8
  <2> QED
    BY <2>1, <2>2 DEF Along
<1> HIDE DEF c
<1>10. c = b
  BY <1>3, <1>6, <1>8, <1>9, SeqEqual
<1> QED
  BY <1>10 DEF v, a, b, c

\* The next segment, of any kind, leaves on the stack what stays so far.
LEMMA SegmentResolved ==
    ASSUME request.uri \in Seq(String), stack \in Seq(String), NEW p \in Nat, p < Len(request.uri),
           Resolved(p), UNCHANGED request,
           NEW x, x = request.uri[p + 1], ~(x = ".." /\ stack = <<>>),
           stack' = IF x = ".." THEN Front(stack)
                    ELSE IF x \in NoNames THEN stack ELSE Append(stack, x)
    PROVE  Resolved(p + 1)'
<1> DEFINE uri == request.uri
<1>1. PICK w : Trail(w, uri, p) /\ stack = Along(uri, w)
  BY DEF Resolved
<1>2. w \in Seq(Nat) /\ Len(w) = Descent(uri, p) /\ Len(w) \in Nat
  BY <1>1 DEF Trail
<1>3. Descent(uri, p + 1) >= 0 /\ \E v : Trail(v, uri, p + 1) /\ stack' = Along(uri, v)
  <2>1. CASE x = ".."
    <3>1. w # <<>>
      BY <1>1, <2>1, EmptyTrail
    <3>2. Descent(uri, p + 1) = Descent(uri, p) - 1
      BY <2>1, DescentGoesOn
    <3>3. Descent(uri, p + 1) >= 0
      <4>1. Len(w) # 0
        BY <1>2, <3>1
      <4> QED
        BY <1>2, <3>2, <4>1
    <3>4. Trail(Front(w), uri, p + 1)
      BY <1>1, <2>1, <3>1, TrailShrinks
    <3>5. stack' = Along(uri, Front(w))
      BY <1>1, <2>1, <3>1, AlongShrinks
    <3> QED
      BY <3>3, <3>4, <3>5
  <2>2. CASE x # ".." /\ x \in NoNames
    <3>1. Descent(uri, p + 1) = Descent(uri, p)
      BY <2>2, DescentGoesOn
    <3>2. Trail(w, uri, p + 1)
      BY <1>1, <2>2, TrailGoesOn
    <3> QED
      BY <1>1, <1>2, <2>2, <3>1, <3>2
  <2>3. CASE x # ".." /\ x \notin NoNames
    <3>1. Descent(uri, p + 1) = Descent(uri, p) + 1
      BY <2>3, DescentGoesOn
    <3>2. Trail(Append(w, p + 1), uri, p + 1)
      BY <1>1, <2>3, TrailGrows
    <3>3. stack' = Along(uri, Append(w, p + 1))
      BY <1>1, <2>3, AlongGrows
    <3>4. Descent(uri, p + 1) >= 0
      BY <1>2, <3>1
    <3> QED
      BY <3>2, <3>3, <3>4
  <2> QED
    BY <2>1, <2>2, <2>3
<1>4. \A q \in 0..(p + 1) : Descent(uri, q) >= 0
  <2>1. \A q \in 0..(p + 1) : q \in 0..p \/ q = p + 1
    OBVIOUS
  <2> QED
    BY <1>3, <2>1 DEF Resolved
<1> QED
  BY <1>3, <1>4 DEF Resolved

\* A ".." with nothing on the stack leads above the root.
LEMMA ClimbsWithEmptyStack ==
    ASSUME request.uri \in Seq(String), NEW p \in Nat, p < Len(request.uri), Resolved(p),
           request.uri[p + 1] = "..", stack = <<>>
    PROVE  Climbs(request.uri)
<1> DEFINE uri == request.uri
<1>1. PICK w : Trail(w, uri, p) /\ stack = Along(uri, w)
  BY DEF Resolved
<1>2. w \in Seq(Nat) /\ Len(w) = Descent(uri, p) /\ Len(w) \in Nat
  BY <1>1 DEF Trail
<1>3. Len(w) = 0
  <2>1. DOMAIN Along(uri, w) = 1..Len(w) /\ DOMAIN <<>> = {}
    BY DEF Along
  <2>2. 1..Len(w) = {}
    BY <1>1, <2>1
  <2> QED
    BY <1>2, <2>2
<1>4. Descent(uri, p + 1) = -1
  <2>1. Descent(uri, p + 1) = Descent(uri, p) - 1
    BY DescentGoesOn
  <2> QED
    BY <1>2, <1>3, <2>1
<1>5. p + 1 \in DOMAIN uri
  OBVIOUS
<1> QED
  BY <1>4, <1>5 DEF Climbs

LEMMA ResolvedAll ==
    ASSUME request.uri \in Seq(String), Resolved(Len(request.uri))
    PROVE  ~Climbs(request.uri) /\ stack = Kept(request.uri)
<1> DEFINE uri == request.uri
<1>1. PICK w : Trail(w, uri, Len(uri)) /\ stack = Along(uri, w)
  BY DEF Resolved
<1>2. stack = Kept(uri)
  BY <1>1, KeptAlong
<1>3. \A q \in DOMAIN uri : q \in 0..Len(uri) /\ q \in Nat
  OBVIOUS
<1>4. \A q \in DOMAIN uri : Descent(uri, q) \in Int /\ Descent(uri, q) >= 0
  BY <1>3, DescentGoesOn DEF Resolved
<1>5. \A n \in Int : n >= 0 => ~(n < 0)
  OBVIOUS
<1> QED
  BY <1>2, <1>4, <1>5 DEF Climbs

LEMMA ResolveNextSegment ==
    ASSUME ConfinedInv, ResolveInv, NextSegment
    PROVE  ResolveInv'
<1> DEFINE uri == request.uri
<1>1. /\ step = "normalize" /\ rest # <<>> /\ ~climbed /\ UNCHANGED <<request, error>>
      /\ request.uri \in Seq(String) /\ stack \in Seq(String) /\ step' \in {"normalize", "serve"}
  BY DEF ConfinedInv, Segments, ResolveInv, NextSegment
<1>2. PICK p \in 0..Len(uri) : rest = SubSeq(uri, p + 1, Len(uri)) /\ Resolved(p)
  BY <1>1 DEF ResolveInv
<1>3. p \in Nat /\ p < Len(uri)
  BY <1>1, <1>2
<1>4. Head(rest) = uri[p + 1] /\ Tail(rest) = SubSeq(uri, p + 2, Len(uri))
  BY <1>1, <1>2, <1>3
<1>5. CASE Head(rest) = ".." /\ stack = <<>>
  <2>1. Climbs(uri)
    BY <1>1, <1>2, <1>3, <1>4, <1>5, ClimbsWithEmptyStack
  <2>2. climbed' /\ step' = "serve"
    BY <1>5 DEF NextSegment
  <2> QED
    BY <1>1, <2>1, <2>2 DEF ResolveInv
<1>6. CASE ~(Head(rest) = ".." /\ stack = <<>>)
  <2>1. /\ ~climbed' /\ step' = "normalize" /\ rest' = SubSeq(uri, (p + 1) + 1, Len(uri))
        /\ stack' = IF Head(rest) = ".." THEN Front(stack)
                    ELSE IF Head(rest) \in NoNames THEN stack ELSE Append(stack, Head(rest))
    <3>1. (p + 1) + 1 = p + 2
      BY <1>3
    <3>2. rest' = Tail(rest)
      BY DEF NextSegment
    <3>3. ~climbed' /\ step' = step
      BY <1>6 DEF NextSegment
    <3>4. stack' = IF Head(rest) = ".." THEN Front(stack)
                   ELSE IF Head(rest) \in NoNames THEN stack ELSE Append(stack, Head(rest))
      BY <1>6, <3>3 DEF NextSegment
    <3> QED
      BY <1>1, <1>4, <3>1, <3>2, <3>3, <3>4
  <2>2. Resolved(p + 1)'
    BY <1>1, <1>2, <1>3, <1>4, <1>6, <2>1, SegmentResolved
  <2>3. p + 1 \in 0..Len(uri)
    BY <1>3
  <2> QED
    BY <1>1, <2>1, <2>2, <2>3 DEF ResolveInv
<1> QED
  BY <1>5, <1>6

LEMMA ResolveNext == ConfinedInv /\ ResolveInv /\ [SiteNext]_siteVars => ResolveInv'
<1> SUFFICES ASSUME ConfinedInv, ResolveInv, [SiteNext]_siteVars PROVE ResolveInv'
  OBVIOUS
<1>1. CASE UNCHANGED siteVars \/ Parse
  BY <1>1 DEF siteVars, Parse, routingVars, progress, ResolveInv, Resolved
<1>2. CASE Start
  <2>1. UNCHANGED progress
    BY <1>2 DEF Start, SetupSockets
  <2> QED
    BY <2>1 DEF progress, ResolveInv, Resolved
<1>3. CASE \E r \in Requests : Arrive(r)
  <2>1. PICK r \in Requests : Arrive(r)
    BY <1>3
  <2>2. r.uri \in Seq(String) /\ r.error \in {0, 400}
    BY RequestsAreTyped DEF Request
  <2>3. /\ step = "idle" /\ request' = r /\ error' = r.error /\ UNCHANGED <<stack, climbed>>
        /\ step' = IF r.error = 0 THEN "parsed" ELSE "serve"
    BY <2>1 DEF Arrive
  <2> QED
    BY <2>2, <2>3 DEF ResolveInv
<1>4. CASE Authorize
  <2>1. /\ step = "parsed" /\ request.uri \in Seq(String) /\ stack = <<>> /\ ~climbed
        /\ UNCHANGED <<request, stack, climbed>> /\ rest' = request.uri
        /\ step' = IF error' = 0 /\ request.method \in Implemented THEN "normalize" ELSE "serve"
    BY <1>4 DEF Authorize, ResolveInv
  <2>2. Resolved(0)'
    BY <2>1, EmptyTrail DEF Resolved
  <2>3. 0 \in 0..Len(request.uri) /\ SubSeq(request.uri, 0 + 1, Len(request.uri)) = request.uri
    BY <2>1
  <2> QED
    BY <2>1, <2>2, <2>3 DEF ResolveInv
<1>5. CASE Normalize
  <2>1. /\ step = "normalize" /\ step' = "serve" /\ rest = <<>> /\ request.uri \in Seq(String) /\ ~climbed
        /\ UNCHANGED <<request, stack, climbed, error>>
    BY <1>5 DEF Normalize, ResolveInv
  <2>2. PICK p \in 0..Len(request.uri) : rest = SubSeq(request.uri, p + 1, Len(request.uri)) /\ Resolved(p)
    BY <2>1 DEF ResolveInv
  <2>3. p = Len(request.uri)
    <3>1. DOMAIN SubSeq(request.uri, p + 1, Len(request.uri)) = {}
      BY <2>1, <2>2
    <3>2. p < Len(request.uri) => 1 \in DOMAIN SubSeq(request.uri, p + 1, Len(request.uri))
      BY <2>1
    <3> QED
      BY <2>1, <3>1, <3>2
  <2>4. Resolved(Len(request.uri))'
    BY <2>1, <2>2, <2>3 DEF Resolved
  <2> QED
    BY <2>1, <2>4 DEF ResolveInv
<1>6. CASE Build
  <2>1. step' = "answered" /\ step = "serve" /\ request' = request
    BY <1>6 DEF Build, Refuse, Redirect, RunCgi, GetFile, GetListing, PostRefused, Post,
       Delete, Does, Passes, FinishAsIs, Finish
  <2> QED
    BY <2>1 DEF ResolveInv
<1>7. CASE Reset
  <2>1. step' = "idle" /\ stack' = <<>> /\ ~climbed'
    BY <1>7 DEF Reset
  <2> QED
    BY <2>1 DEF ResolveInv
<1> QED
  BY <1>1, <1>2, <1>3, <1>4, <1>5, <1>6, <1>7, ResolveNextSegment DEF SiteNext, Answers, RoutingNext

\* For every URI, however its dots and empty segments follow each other, the
\* stack of _normalizeUri() holds in the end the segments that no later ".."
\* takes back, and it has refused the URI exactly if a ".." led above the root
\* (Response.cpp:133-167).
THEOREM ResolvedByCounting == SiteSpec => []ResolvesByDescent
<1>1. SiteInit => ResolveInv
  BY DEF SiteInit, RoutingInit, ResolveInv
<1>2. ResolveInv => ResolvesByDescent
  <2> SUFFICES ASSUME ResolveInv, step = "serve", error = 0, request.method \in Implemented
               PROVE  (climbed <=> Climbs(request.uri)) /\ (~climbed => stack = Kept(request.uri))
    BY DEF ResolvesByDescent
  <2>1. request.uri \in Seq(String) /\ IF climbed THEN Climbs(request.uri) ELSE Resolved(Len(request.uri))
    BY DEF ResolveInv
  <2> QED
    BY <2>1, ResolvedAll
<1> QED
  BY <1>1, <1>2, ConfinedInit, ConfinedNext, ResolveNext, PTL DEF SiteSpec

-----------------------------------------------------------------------------
(* What the parser makes *)

\* What a member may hold; the strings that the program itself puts there are
\* named, as no prover takes a literal for a string.
Text == String \cup {"", "?", "0.0.0.0"}

Locations ==
    [path : Seq(Text), root : Seq(Text), autoindex : {"inherit", "on", "off"}, index : Seq(Token),
     code : Nat, url : Seq(Text), hasLimit : BOOLEAN, limit : Nat, store : Seq(Text),
     methods : Seq(Token), ext : Text, pass : Seq(Text)]

Pages == UNION {[S -> Seq(Text)] : S \in SUBSET Nat}

Servers ==
    [host : Text, port : Nat, names : Seq(Token), pages : Pages, limit : Nat,
     root : Seq(Text), autoindex : {"inherit", "on", "off"}, index : Seq(Token), locations : Seq(Locations)]

\* What is read, being read, parsed and in use is well formed.
Parsed ==
    /\ tokens \in Seq(Token)
    /\ pos \in Nat \ {0}
    /\ server \in Servers
    /\ location \in Locations
    /\ servers \in Seq(Servers)
    /\ configs \in Seq(Servers)

LEMMA LeastOf ==
    ASSUME NEW S, S \subseteq Nat, S # {}
    PROVE  Min(S) \in S /\ \A x \in S : Min(S) <= x
<1> DEFINE R == OpToRel(<, Nat)
<1>1. R = {ss \in Nat \X Nat : ss[1] < ss[2]}
  BY DEF OpToRel
<1>2. IsWellFoundedOn(R, Nat)
  BY NatLessThanWellFounded
<1> HIDE DEF R
<1>3. PICK x \in S : \A y \in S : ~(<<y, x>> \in R)
  BY <1>2, WFMin
<1>4. \A y \in Nat : y < x => <<y, x>> \in R
  BY <1>1
<1>5. ASSUME NEW y \in S PROVE x <= y
  <2>1. x \in Nat /\ y \in Nat /\ ~(y < x)
    BY <1>3, <1>4
  <2> QED
    BY <2>1
<1> HIDE <1>1
<1> QED
  BY <1>5 DEF Min

\* Of places in a sequence there is a last one.
LEMMA LastOf ==
    ASSUME NEW n \in Nat, NEW S, S \subseteq 1..n, S # {}
    PROVE  \E k \in S : \A j \in S : j <= k
<1> DEFINE T == {n - j : j \in S}
<1>1. \A j \in S : j \in Nat /\ j <= n /\ n - j \in Nat
  OBVIOUS
<1>2. T \subseteq Nat /\ T # {}
  BY <1>1
<1>3. Min(T) \in T /\ \A x \in T : Min(T) <= x
  BY <1>2, LeastOf
<1>4. PICK k \in S : Min(T) = n - k
  BY <1>3
<1>5. \A j \in S : n - k <= n - j
  BY <1>3, <1>4
<1>6. \A j \in S : j <= k
  BY <1>1, <1>5
<1> QED
  BY <1>6

LEMMA MoreToHold ==
    ASSUME NEW S, NEW T, S \subseteq T, NEW s \in Seq(S)
    PROVE  s \in Seq(T)
OBVIOUS

LEMMA PathOfToken == ASSUME NEW t \in Token PROVE PathOf(t) \in Seq(Text)
<1>1. "?" \in Text
  BY DEF Text
<1>2. CASE t \in [path : Seq(String)]
  <2>1. PathOf(t) \in Seq(String)
    BY <1>2 DEF PathOf
  <2> QED
    BY <2>1, MoreToHold DEF Text
<1>3. CASE t \in [word : String]
  <2>1. "path" \notin DOMAIN t /\ "word" \in DOMAIN t /\ t.word \in Text
    BY <1>3 DEF Text
  <2>2. PathOf(t) = <<t.word>>
    BY <2>1 DEF PathOf
  <2> QED
    BY <2>1, <2>2
<1>4. CASE t \in [host : String, port : Nat] \/ t \in [num : Nat, unit : String] \/ t \in [unit : String]
  <2>1. "path" \notin DOMAIN t /\ "word" \notin DOMAIN t
    BY <1>4
  <2>2. PathOf(t) = <<"?">>
    BY <2>1 DEF PathOf
  <2> QED
    BY <1>1, <2>2
<1> QED
  BY <1>2, <1>3, <1>4 DEF Token

LEMMA WordOfToken == ASSUME NEW t \in Token PROVE WordOf(t) \in Text
<1>1. "?" \in Text
  BY DEF Text
<1>2. CASE "word" \in DOMAIN t
  <2>1. t \in [word : String]
    BY <1>2 DEF Token
  <2>2. t.word \in Text
    BY <2>1 DEF Text
  <2> QED
    BY <1>2, <2>2 DEF WordOf
<1>3. CASE "word" \notin DOMAIN t
  BY <1>1, <1>3 DEF WordOf
<1> QED
  BY <1>2, <1>3

LEMMA NumberOfToken ==
    ASSUME NEW t \in Token
    PROVE  /\ "num" \in DOMAIN t => t.num \in Nat
           /\ "host" \in DOMAIN t => t.host \in String /\ t.port \in Nat
           /\ IsDigits(t) => t.num \in Nat
BY DEF Token, IsDigits

LEMMA SizesAreNumbers == ASSUME NEW t \in Token PROVE SizesOf(t) \subseteq Nat
<1> DEFINE read == IF "num" \notin DOMAIN t THEN Leftovers
                   ELSE IF t.num >= WORD THEN {WORD - 1} ELSE {t.num}
<1>1. WORD \in Nat /\ WORD # 0
  <2>1. WORD \in Nat
    BY SizesAssumption
  <2>2. PICK l \in Leftovers : l \in 0..(WORD - 1)
    BY SizesAssumption
  <2> QED
    BY <2>1, <2>2
<1>2. Factor(t.unit) \in Nat
  <2>1. KILO \in Nat
    BY SizesAssumption
  <2>2. KILO * KILO \in Nat
    BY <2>1
  <2>3. KILO * KILO * KILO \in Nat
    BY <2>1, <2>2
  <2> QED
    BY <2>1, <2>2, <2>3 DEF Factor
<1>3. \A n \in read : n \in Nat
  <2>1. Leftovers \subseteq Nat
    BY <1>1, SizesAssumption
  <2> QED
    BY <1>1, <2>1, NumberOfToken
<1> HIDE DEF read
<1>4. \A n \in read : (n * Factor(t.unit)) % WORD \in Nat
  <2> SUFFICES ASSUME NEW n \in read PROVE (n * Factor(t.unit)) % WORD \in Nat
    OBVIOUS
  <2>1. PICK m \in Nat : m = n * Factor(t.unit)
    BY <1>2, <1>3
  <2> QED
    BY <1>1, <2>1
<1> QED
  BY <1>4 DEF SizesOf, read

\* Where a ";" is found there is one.
LEMMA SemicolonIsThere ==
    ASSUME tokens \in Seq(Token), NEW p \in Nat \ {0}, Semicolon(p) # 0
    PROVE  Semicolon(p) \in p..Len(tokens)
<1> DEFINE I == {i \in p..Len(tokens) : tokens[i] = Word(";")}
<1>1. Semicolon(p) = IF I # {} THEN Min(I) ELSE 0
  BY DEF Semicolon, SelectInSubSeq
<1>2. I \subseteq Nat /\ I # {}
  <2>1. I # {}
    BY <1>1
  <2>2. \A i \in p..Len(tokens) : i \in Nat
    OBVIOUS
  <2> QED
    BY <2>1, <2>2
<1>3. Min(I) \in I
  BY <1>2, LeastOf
<1> QED
  BY <1>1, <1>2, <1>3

LEMMA ListTyped ==
    ASSUME Parsed, Semicolon(pos + 1) # 0
    PROVE  List \in Seq(Token) /\ Semicolon(pos + 1) \in Nat \ {0}
<1>1. pos + 1 \in Nat \ {0} /\ tokens \in Seq(Token)
  BY DEF Parsed
<1>2. Semicolon(pos + 1) \in (pos + 1)..Len(tokens)
  BY <1>1, SemicolonIsThere
<1>3. PICK k : k = Semicolon(pos + 1)
  OBVIOUS
<1>4. SubSeq(tokens, pos + 1, k - 1) \in Seq(Token) /\ k \in Nat \ {0}
  BY <1>1, <1>2, <1>3
<1> QED
  BY <1>3, <1>4 DEF List

LEMMA ArgTyped == ASSUME Parsed, HasArgument PROVE Arg \in Token /\ pos + 2 \in Nat \ {0}
<1>1. tokens \in Seq(Token) /\ pos \in Nat \ {0} /\ pos + 1 <= Len(tokens)
  BY DEF Parsed, HasArgument
<1>2. tokens[pos + 1] \in Token
  BY <1>1
<1> QED
  BY <1>1, <1>2 DEF Arg

LEMMA PagesTyped == ASSUME NEW list \in Seq(Token) PROVE PagesOf(list) \in Pages
<1> DEFINE paths == {k \in DOMAIN list : ~IsDigits(list[k])}
           last == CHOOSE k \in paths : \A j \in paths : j <= k
           codes == {list[k].num : k \in {j \in DOMAIN list : IsDigits(list[j]) /\ \E n \in paths : n > j}}
<1>1. \A k \in DOMAIN list : list[k] \in Token
  OBVIOUS
<1>2. codes \in SUBSET Nat
  BY <1>1, NumberOfToken
<1>3. codes # {} => PathOf(list[last]) \in Seq(Text)
  <2> SUFFICES ASSUME paths # {} PROVE PathOf(list[last]) \in Seq(Text)
    OBVIOUS
  <2>1. paths \subseteq 1..Len(list) /\ Len(list) \in Nat
    OBVIOUS
  <2> HIDE DEF paths
  <2>2. \E k \in paths : \A j \in paths : j <= k
    BY <2>1, LastOf
  <2>3. last \in paths
    BY <2>2
  <2>4. list[last] \in Token
    BY <1>1, <2>3 DEF paths
  <2> QED
    BY <2>4, PathOfToken
<1>4. PagesOf(list) = [c \in codes |-> PathOf(list[last])]
  BY DEF PagesOf
<1> HIDE DEF codes, last
<1>5. PagesOf(list) \in [codes -> Seq(Text)]
  BY <1>3, <1>4
<1> QED
  BY <1>2, <1>5 DEF Pages

LEMMA PagesMerged ==
    ASSUME NEW f \in Pages, NEW g \in Pages
    PROVE  [c \in DOMAIN f \cup DOMAIN g |-> IF c \in DOMAIN f THEN f[c] ELSE g[c]] \in Pages
<1>1. PICK S \in SUBSET Nat : f \in [S -> Seq(Text)]
  BY DEF Pages
<1>2. PICK T \in SUBSET Nat : g \in [T -> Seq(Text)]
  BY DEF Pages
<1>3. [c \in S \cup T |-> IF c \in S THEN f[c] ELSE g[c]] \in [S \cup T -> Seq(Text)]
  BY <1>1, <1>2
<1> QED
  BY <1>1, <1>2, <1>3 DEF Pages

-----------------------------------------------------------------------------

LEMMA NewTyped ==
    /\ NewServer \in Servers
    /\ \A path \in Seq(Text) : NewLocation(path) \in Locations
<1>1. KILO \in Nat /\ KILO * KILO \in Nat
  BY SizesAssumption
<1>2. <<>> \in Pages
  <2>1. <<>> \in [{} -> Seq(Text)] /\ {} \in SUBSET Nat
    OBVIOUS
  <2> QED
    BY <2>1 DEF Pages
<1>3. "0.0.0.0" \in Text /\ "" \in Text
  BY DEF Text
<1>4. /\ <<>> \in Seq(Text) /\ <<>> \in Seq(Token) /\ <<>> \in Seq(Locations)
      /\ 80 \in Nat /\ 0 \in Nat
  OBVIOUS
<1>5. NewServer \in Servers
  <2>1. PICK none, host, size : none = <<>> /\ host = "0.0.0.0" /\ size = KILO * KILO
    OBVIOUS
  <2>2. NewServer = [host |-> host, port |-> 80, names |-> none, pages |-> none,
                     limit |-> size, root |-> none, autoindex |-> "off", index |-> none,
                     locations |-> none]
    BY <2>1 DEF NewServer
  <2> QED
    BY <1>1, <1>2, <1>3, <1>4, <2>1, <2>2 DEF Servers
<1>6. ASSUME NEW path \in Seq(Text) PROVE NewLocation(path) \in Locations
  <2>1. PICK none, ext : none = <<>> /\ ext = ""
    OBVIOUS
  <2>2. NewLocation(path) =
            [path |-> path, root |-> none, autoindex |-> "inherit", index |-> none,
             code |-> 0, url |-> none, hasLimit |-> FALSE, limit |-> 0, store |-> none,
             methods |-> none, ext |-> ext, pass |-> none]
    BY <2>1 DEF NewLocation
  <2>3. none \in Seq(Text) /\ none \in Seq(Token) /\ ext \in Text
    BY <1>3, <1>4, <2>1
  <2> QED
    BY <1>4, <2>2, <2>3 DEF Locations
<1> QED
  BY <1>5, <1>6

\* One member of a server{} set.
LEMMA ServerSet ==
    ASSUME NEW s \in Servers, NEW v
    PROVE  /\ v \in Text => [s EXCEPT !.host = v] \in Servers
           /\ v \in Nat => [s EXCEPT !.port = v] \in Servers
           /\ v \in Seq(Token) => [s EXCEPT !.names = v] \in Servers
           /\ v \in Pages => [s EXCEPT !.pages = v] \in Servers
           /\ v \in Nat => [s EXCEPT !.limit = v] \in Servers
           /\ v \in Seq(Text) => [s EXCEPT !.root = v] \in Servers
           /\ v \in {"on", "off"} => [s EXCEPT !.autoindex = v] \in Servers
           /\ v \in Seq(Token) => [s EXCEPT !.index = v] \in Servers
           /\ v \in Seq(Locations) => [s EXCEPT !.locations = v] \in Servers
BY DEF Servers

LEMMA LocationSet ==
    ASSUME NEW l \in Locations, NEW v
    PROVE  /\ v \in Seq(Text) => [l EXCEPT !.root = v] \in Locations
           /\ v \in {"on", "off"} => [l EXCEPT !.autoindex = v] \in Locations
           /\ v \in Seq(Token) => [l EXCEPT !.index = v] \in Locations
           /\ v \in Seq(Text) => [l EXCEPT !.store = v] \in Locations
           /\ v \in Seq(Token) => [l EXCEPT !.methods = v] \in Locations
           /\ v \in Text => [l EXCEPT !.ext = v] \in Locations
           /\ v \in Seq(Text) => [l EXCEPT !.pass = v] \in Locations
BY DEF Locations

LEMMA ParsedStays ==
    ASSUME Parsed, UNCHANGED <<tokens, pos, server, location, servers, configs>>
    PROVE  Parsed'
BY DEF Parsed

\* A directive changes the server{}, or the location{}, that is being read.
LEMMA DirectiveParsed ==
    ASSUME Parsed, UNCHANGED tokens, UNCHANGED servers, UNCHANGED configs, pos' \in Nat \ {0},
           \/ server' \in Servers /\ location' = location
           \/ location' \in Locations /\ server' = server
    PROVE  Parsed'
BY DEF Parsed

LEMMA BlocksParsed ==
    ASSUME Parsed, UNCHANGED configs,
           CountBraces \/ Top \/ EndOfServer \/ SkipSemicolon \/ BeginLocation \/ EndOfLocation \/ Unknown
    PROVE  Parsed'
<1>1. CASE Throw
  BY <1>1, ParsedStays DEF Throw
<1>2. pos + 1 \in Nat \ {0} /\ pos + 2 \in Nat \ {0} /\ pos + 3 \in Nat \ {0}
  BY DEF Parsed
<1>3. CASE CountBraces
  BY <1>1, <1>3, ParsedStays DEF CountBraces
<1>4. CASE Top
  <2>1. CASE UNCHANGED <<tokens, pos, server, location, servers>>
    BY <2>1, ParsedStays
  <2>2. CASE pos' = pos + 2 /\ server' = NewServer /\ UNCHANGED <<tokens, location, servers>>
    <3>1. server' \in Servers /\ pos' \in Nat \ {0}
      BY <1>2, <2>2, NewTyped
    <3> QED
      BY <2>2, <3>1, DirectiveParsed
  <2> QED
    BY <1>1, <1>4, <2>1, <2>2 DEF Top
<1>5. CASE EndOfServer
  <2>1. CASE servers' = Append(servers, server) /\ pos' = pos + 1 /\ UNCHANGED <<tokens, server, location>>
    BY <1>2, <2>1 DEF Parsed
  <2> QED
    BY <1>1, <1>5, <2>1 DEF EndOfServer
<1>6. CASE SkipSemicolon
  BY <1>2, <1>6 DEF SkipSemicolon, Goto, Parsed
<1>7. CASE BeginLocation
  <2>1. CASE pos + 1 <= Len(tokens) /\ location' = NewLocation(PathOf(Arg)) /\ pos' = pos + 3
             /\ UNCHANGED <<tokens, server, servers>>
    <3>1. Arg \in Token
      <4>1. tokens \in Seq(Token) /\ pos + 1 \in 1..Len(tokens)
        BY <1>2, <2>1 DEF Parsed
      <4> QED
        BY <4>1 DEF Arg
    <3>2. PathOf(Arg) \in Seq(Text)
      BY <3>1, PathOfToken
    <3>3. location' \in Locations
      BY <2>1, <3>2, NewTyped
    <3> QED
      BY <1>2, <2>1, <3>3, DirectiveParsed
  <2> QED
    BY <1>1, <1>7, <2>1 DEF BeginLocation
<1>8. CASE EndOfLocation
  <2>1. server \in Servers /\ location \in Locations
    BY DEF Parsed
  <2>2. server.locations \in Seq(Locations)
    BY <2>1 DEF Servers
  <2>3. PICK v : v = Append(server.locations, location)
    OBVIOUS
  <2>4. v \in Seq(Locations)
    BY <2>1, <2>2, <2>3
  <2>5. server' = [server EXCEPT !.locations = v]
    BY <1>8, <2>3 DEF EndOfLocation
  <2>6. server' \in Servers
    BY <2>1, <2>4, <2>5, ServerSet
  <2>7. UNCHANGED <<tokens, location, servers>> /\ pos' \in Nat \ {0}
    BY <1>2, <1>8 DEF EndOfLocation
  <2> QED
    BY <2>6, <2>7, DirectiveParsed
<1>9. CASE Unknown
  BY <1>1, <1>9 DEF Unknown
<1> QED
  BY <1>3, <1>4, <1>5, <1>6, <1>7, <1>8, <1>9

\* A member that both classes have.
LEMMA EitherParsed ==
    ASSUME Parsed, UNCHANGED configs, NEW p \in Nat \ {0}, Goto(p), NEW v,
           \/ v \in Seq(Text) /\ SetEither("root", v)
           \/ v \in {"on", "off"} /\ SetEither("autoindex", v)
           \/ v \in Seq(Token) /\ SetEither("index", v)
           \/ v \in Seq(Text) /\ block = "location" /\ SetEither("store", v)
    PROVE  Parsed'
<1>1. server \in Servers /\ location \in Locations /\ UNCHANGED <<tokens, servers>> /\ pos' = p
  BY DEF Parsed, Goto
<1>2. CASE block = "server"
  <2>1. \/ v \in Seq(Text) /\ server' = [server EXCEPT !.root = v]
        \/ v \in {"on", "off"} /\ server' = [server EXCEPT !.autoindex = v]
        \/ v \in Seq(Token) /\ server' = [server EXCEPT !.index = v]
    BY <1>2 DEF SetEither, SetServer
  <2>2. location' = location
    BY <1>2 DEF SetEither, SetServer
  <2>3. server' \in Servers
    BY <1>1, <2>1, ServerSet
  <2> QED
    BY <1>1, <2>2, <2>3, DirectiveParsed
<1>3. CASE block # "server"
  <2>1. \/ v \in Seq(Text) /\ location' = [location EXCEPT !.root = v]
        \/ v \in {"on", "off"} /\ location' = [location EXCEPT !.autoindex = v]
        \/ v \in Seq(Token) /\ location' = [location EXCEPT !.index = v]
        \/ v \in Seq(Text) /\ location' = [location EXCEPT !.store = v]
    BY <1>3 DEF SetEither, SetLocation
  <2>2. server' = server
    BY <1>3 DEF SetEither, SetLocation
  <2>3. location' \in Locations
    BY <1>1, <2>1, LocationSet
  <2> QED
    BY <1>1, <2>2, <2>3, DirectiveParsed
<1> QED
  BY <1>2, <1>3

LEMMA EitherDirectives ==
    ASSUME Parsed, UNCHANGED configs, ParseRoot \/ ParseAutoindex \/ ParseIndex \/ ParseUploadStore
    PROVE  Parsed'
<1>1. CASE Throw
  BY <1>1, ParsedStays DEF Throw
<1>2. CASE ParseRoot \/ ParseUploadStore
  <2>1. PICK v : v = PathOf(Arg)
    OBVIOUS
  <2>2. CASE HasArgument /\ Goto(pos + 2)
             /\ (SetEither("root", v) \/ (block = "location" /\ SetEither("store", v)))
    <3>1. pos + 2 \in Nat \ {0} /\ v \in Seq(Text)
      BY <2>1, <2>2, ArgTyped, PathOfToken
    <3> QED
      BY <2>2, <3>1, EitherParsed
  <2> QED
    BY <1>1, <1>2, <2>1, <2>2 DEF ParseRoot, ParseUploadStore, Directive
<1>3. CASE ParseAutoindex
  <2>1. CASE HasArgument /\ Goto(pos + 2) /\ Arg \in {Word("on"), Word("off")}
             /\ SetEither("autoindex", Arg.word)
    <3>1. pos + 2 \in Nat \ {0}
      BY <2>1, ArgTyped
    <3>2. Arg.word \in {"on", "off"}
      BY <2>1 DEF Word
    <3> QED
      BY <2>1, <3>1, <3>2, EitherParsed
  <2> QED
    BY <1>1, <1>3, <2>1 DEF ParseAutoindex
<1>4. CASE ParseIndex
  <2>1. PICK old : old = (IF block = "server" THEN server ELSE location).index
    OBVIOUS
  <2>2. CASE Semicolon(pos + 1) # 0 /\ SetEither("index", old \o List) /\ Goto(Semicolon(pos + 1))
    <3>1. server.index \in Seq(Token) /\ location.index \in Seq(Token)
      BY DEF Parsed, Servers, Locations
    <3>2. old \in Seq(Token)
      BY <2>1, <3>1
    <3>3. List \in Seq(Token) /\ Semicolon(pos + 1) \in Nat \ {0}
      BY <2>2, ListTyped
    <3>4. old \o List \in Seq(Token)
      BY <3>2, <3>3
    <3> QED
      BY <2>2, <3>3, <3>4, EitherParsed
  <2> QED
    BY <1>1, <1>4, <2>1, <2>2 DEF ParseIndex
<1> QED
  BY <1>2, <1>3, <1>4

\* The new value of a member of the server{}.
LEMMA ServerDirectives ==
    ASSUME Parsed, UNCHANGED configs, ParseListen \/ ParseServerName \/ ParseErrorPage
    PROVE  Parsed'
<1>1. CASE Throw
  BY <1>1, ParsedStays DEF Throw
<1>2. server \in Servers
  BY DEF Parsed
<1>3. CASE ParseListen
  <2>1. CASE HasArgument /\ Goto(pos + 2) /\ UNCHANGED location
             /\ server' = IF "host" \in DOMAIN Arg
                          THEN [server EXCEPT !.host = Arg.host, !.port = Arg.port]
                          ELSE IF "num" \in DOMAIN Arg THEN [server EXCEPT !.port = Arg.num]
                          ELSE [server EXCEPT !.host = WordOf(Arg)]
    <3>1. Arg \in Token /\ pos + 2 \in Nat \ {0}
      BY <2>1, ArgTyped
    <3>2. PICK h, n, m, w : h = Arg.host /\ n = Arg.port /\ m = Arg.num /\ w = WordOf(Arg)
      OBVIOUS
    <3>3. CASE "host" \in DOMAIN Arg
      <4>1. h \in Text /\ n \in Nat
        BY <3>1, <3>2, <3>3, NumberOfToken DEF Text
      <4>2. [server EXCEPT !.host = h] \in Servers
        BY <1>2, <4>1, ServerSet
      <4>3. [[server EXCEPT !.host = h] EXCEPT !.port = n] \in Servers
        BY <4>1, <4>2, ServerSet
      <4>4. server' = [server EXCEPT !.host = h, !.port = n]
        BY <2>1, <3>2, <3>3
      <4> QED
        BY <2>1, <3>1, <4>3, <4>4, DirectiveParsed DEF Goto
    <3>4. CASE "host" \notin DOMAIN Arg /\ "num" \in DOMAIN Arg
      <4>1. m \in Nat
        BY <3>1, <3>2, <3>4, NumberOfToken
      <4>2. server' = [server EXCEPT !.port = m]
        BY <2>1, <3>2, <3>4
      <4>3. server' \in Servers
        BY <1>2, <4>1, <4>2, ServerSet
      <4> QED
        BY <2>1, <3>1, <4>3, DirectiveParsed DEF Goto
    <3>5. CASE "host" \notin DOMAIN Arg /\ "num" \notin DOMAIN Arg
      <4>1. w \in Text
        BY <3>1, <3>2, WordOfToken
      <4>2. server' = [server EXCEPT !.host = w]
        BY <2>1, <3>2, <3>5
      <4>3. server' \in Servers
        BY <1>2, <4>1, <4>2, ServerSet
      <4> QED
        BY <2>1, <3>1, <4>3, DirectiveParsed DEF Goto
    <3> QED
      BY <3>3, <3>4, <3>5
  <2> QED
    BY <1>1, <1>3, <2>1 DEF ParseListen
<1>4. CASE ParseServerName
  <2>1. PICK v : v = server.names \o List
    OBVIOUS
  <2>2. CASE Semicolon(pos + 1) # 0 /\ server' = [server EXCEPT !.names = v] /\ UNCHANGED location
             /\ Goto(Semicolon(pos + 1))
    <3>1. server.names \in Seq(Token)
      BY <1>2 DEF Servers
    <3>2. List \in Seq(Token) /\ Semicolon(pos + 1) \in Nat \ {0}
      BY <2>2, ListTyped
    <3>3. v \in Seq(Token)
      BY <2>1, <3>1, <3>2
    <3>4. server' \in Servers
      BY <1>2, <2>2, <3>3, ServerSet
    <3> QED
      BY <2>2, <3>2, <3>4, DirectiveParsed DEF Goto
  <2> QED
    BY <1>1, <1>4, <2>1, <2>2 DEF ParseServerName, SetServer
<1>5. CASE ParseErrorPage
  <2>1. PICK f, g : f = PagesOf(List) /\ g = server.pages
    OBVIOUS
  <2>2. PICK v : v = [c \in DOMAIN f \cup DOMAIN g |-> IF c \in DOMAIN f THEN f[c] ELSE g[c]]
    OBVIOUS
  <2>3. CASE Semicolon(pos + 1) # 0 /\ server' = [server EXCEPT !.pages = v] /\ UNCHANGED location
             /\ Goto(Semicolon(pos + 1))
    <3>1. g \in Pages
      BY <1>2, <2>1 DEF Servers
    <3>2. List \in Seq(Token) /\ Semicolon(pos + 1) \in Nat \ {0}
      BY <2>3, ListTyped
    <3>3. f \in Pages
      BY <2>1, <3>2, PagesTyped
    <3>4. v \in Pages
      BY <2>2, <3>1, <3>3, PagesMerged
    <3>5. server' \in Servers
      BY <1>2, <2>3, <3>4, ServerSet
    <3> QED
      BY <2>3, <3>2, <3>5, DirectiveParsed DEF Goto
  <2> QED
    BY <1>1, <1>5, <2>1, <2>2, <2>3 DEF ParseErrorPage, SetServer
<1> QED
  BY <1>3, <1>4, <1>5

LEMMA SizeParsed ==
    ASSUME Parsed, UNCHANGED configs, ParseClientMaxBodySize
    PROVE  Parsed'
<1>1. CASE Throw
  BY <1>1, ParsedStays DEF Throw
<1>2. CASE ~Throw
  <2>1. HasArgument /\ Goto(pos + 2)
    BY <1>2 DEF ParseClientMaxBodySize
  <2>2. PICK n \in SizesOf(Arg) :
            IF block = "server" THEN SetServer([server EXCEPT !.limit = n])
            ELSE SetLocation([location EXCEPT !.limit = n, !.hasLimit = TRUE])
    BY <1>2 DEF ParseClientMaxBodySize
  <2>3. n \in Nat /\ pos + 2 \in Nat \ {0}
    BY <2>1, <2>2, ArgTyped, SizesAreNumbers
  <2>4. server \in Servers /\ location \in Locations
    BY DEF Parsed
  <2>5. CASE block = "server"
    <3>1. server' \in Servers /\ location' = location
      BY <2>2, <2>3, <2>4, <2>5, ServerSet DEF SetServer
    <3> QED
      BY <2>1, <2>3, <3>1, DirectiveParsed DEF Goto
  <2>6. CASE block # "server"
    <3>1. [location EXCEPT !.limit = n, !.hasLimit = TRUE] \in Locations
      BY <2>3, <2>4 DEF Locations
    <3>2. location' \in Locations /\ server' = server
      BY <2>2, <2>6, <3>1 DEF SetLocation
    <3> QED
      BY <2>1, <2>3, <3>2, DirectiveParsed DEF Goto
  <2> QED
    BY <2>5, <2>6
<1> QED
  BY <1>1, <1>2

LEMMA LocationDirectives ==
    ASSUME Parsed, UNCHANGED configs, ParseReturn \/ ParseAllowMethods \/ ParseCgi
    PROVE  Parsed'
<1>1. CASE Throw
  BY <1>1, ParsedStays DEF Throw
<1>2. location \in Locations /\ tokens \in Seq(Token) /\ pos \in Nat \ {0}
  BY DEF Parsed
<1>3. CASE ParseReturn /\ ~Throw
  <2>1. PICK n, u : n = Arg.num /\ u = PathOf(tokens[pos + 2])
    OBVIOUS
  <2>2. /\ pos + 2 <= Len(tokens) /\ IsDigits(Arg) /\ Goto(pos + 3) /\ server' = server
        /\ location' = [location EXCEPT !.code = n, !.url = u]
    BY <1>3, <2>1 DEF ParseReturn, SetLocation
  <2>3. tokens[pos + 1] \in Token /\ tokens[pos + 2] \in Token /\ pos + 3 \in Nat \ {0}
    BY <1>2, <2>2
  <2>4. n \in Nat
    BY <2>1, <2>2, <2>3, NumberOfToken DEF Arg
  <2>5. u \in Seq(Text)
    BY <2>1, <2>3, PathOfToken
  <2>6. [location EXCEPT !.code = n, !.url = u] \in Locations
    BY <1>2, <2>4, <2>5 DEF Locations
  <2>7. location' \in Locations
    BY <2>2, <2>6
  <2> QED
    BY <2>2, <2>3, <2>7, DirectiveParsed DEF Goto
<1>4. CASE ParseAllowMethods /\ ~Throw
  <2>1. PICK v : v = location.methods \o List
    OBVIOUS
  <2>2. /\ Semicolon(pos + 1) > pos + 1 /\ Goto(Semicolon(pos + 1)) /\ server' = server
        /\ location' = [location EXCEPT !.methods = v]
    BY <1>4, <2>1 DEF ParseAllowMethods, SetLocation
  <2>3. location.methods \in Seq(Token)
    BY <1>2 DEF Locations
  <2>4. Semicolon(pos + 1) # 0
    BY <1>2, <2>2
  <2>5. List \in Seq(Token) /\ Semicolon(pos + 1) \in Nat \ {0}
    BY <2>4, ListTyped
  <2>6. v \in Seq(Token)
    BY <2>1, <2>3, <2>5
  <2>7. location' \in Locations
    BY <1>2, <2>2, <2>6, LocationSet
  <2> QED
    BY <2>2, <2>5, <2>7, DirectiveParsed DEF Goto
<1>5. CASE ParseCgi /\ ~Throw
  <2>1. PICK w, u : w = WordOf(Arg) /\ u = PathOf(Arg)
    OBVIOUS
  <2>2. /\ HasArgument /\ Goto(pos + 2) /\ server' = server
        /\ \/ location' = [location EXCEPT !.ext = w]
           \/ location' = [location EXCEPT !.pass = u]
    BY <1>5, <2>1 DEF ParseCgi, SetLocation
  <2>3. w \in Text /\ u \in Seq(Text) /\ pos + 2 \in Nat \ {0}
    BY <2>1, <2>2, ArgTyped, WordOfToken, PathOfToken
  <2>4. location' \in Locations
    BY <1>2, <2>2, <2>3, LocationSet
  <2> QED
    BY <2>2, <2>3, <2>4, DirectiveParsed DEF Goto
<1> QED
  BY <1>1, <1>3, <1>4, <1>5

LEMMA ParsedNext == Parsed /\ [SiteNext]_siteVars => Parsed'
<1> SUFFICES ASSUME Parsed, [SiteNext]_siteVars PROVE Parsed'
  OBVIOUS
<1>1. CASE UNCHANGED siteVars
  BY <1>1, ParsedStays DEF siteVars, parserVars, routingVars
<1>2. CASE Parse
  BY <1>2, BlocksParsed, EitherDirectives, ServerDirectives, SizeParsed, LocationDirectives
     DEF Parse, ParserNext, routingVars
<1>3. CASE Start
  BY <1>3 DEF Start, SetupSockets, parserVars, Parsed
<1>4. CASE Answers
  <2>1. UNCHANGED configs
    BY <1>4 DEF Answers, RoutingNext, Arrive, Authorize, NextSegment, Normalize, Reset, Build, Refuse,
       Redirect, RunCgi, GetFile, GetListing, PostRefused, Post, Delete, FinishAsIs, Finish
  <2> QED
    BY <1>4, <2>1, ParsedStays DEF Answers, parserVars
<1> QED
  BY <1>1, <1>2, <1>3, <1>4 DEF SiteNext

LEMMA ParsedInit == SiteInit => Parsed
<1> SUFFICES ASSUME SiteInit PROVE Parsed
  OBVIOUS
<1>1. <<>> \in Seq(Text) /\ <<>> \in Seq(Servers)
  OBVIOUS
<1>2. tokens \in Seq(Token)
  BY TokensAssumption DEF SiteInit, ParserInit
<1>3. server \in Servers /\ location \in Locations
  BY <1>1, NewTyped DEF SiteInit, ParserInit
<1> QED
  BY <1>1, <1>2, <1>3 DEF SiteInit, ParserInit, RoutingInit, Parsed

-----------------------------------------------------------------------------
(* Where the disk may change *)

\* The server{} that was matched is one of those that were read.
Matched == step # "idle" => config \in DOMAIN configs

DiskInv == Parsed /\ HostsInv /\ ConfinedInv /\ Matched

LEMMA MatchedNext == DiskInv /\ [SiteNext]_siteVars => Matched'
<1> SUFFICES ASSUME DiskInv, [SiteNext]_siteVars PROVE Matched'
  OBVIOUS
<1>1. CASE UNCHANGED siteVars \/ Parse
  BY <1>1 DEF DiskInv, Matched, siteVars, Parse, routingVars, progress
<1>2. CASE Start
  <2>1. step' = "idle"
    BY <1>2 DEF DiskInv, HostsInv, Start, SetupSockets, progress
  <2> QED
    BY <2>1 DEF Matched
<1>3. ASSUME NEW r \in Requests, Arrive(r) PROVE Matched'
  <2>1. PICK a : config' \in MatchConfig(a, r.host)
    BY <1>3 DEF Arrive
  <2>2. config' \in DOMAIN configs
    BY <2>1 DEF MatchConfig, FirstOf
  <2> QED
    BY <1>3, <2>2 DEF Arrive, Matched
<1>4. CASE Authorize \/ NextSegment \/ Normalize \/ Reset
  BY <1>4 DEF DiskInv, Matched, Authorize, NextSegment, Normalize, Reset
<1>5. CASE Build
  <2>1. step = "serve" /\ UNCHANGED <<configs, config>>
    BY <1>5 DEF Build, Refuse, Redirect, RunCgi, GetFile, GetListing, PostRefused, Post,
       Delete, Does, Passes, FinishAsIs, Finish
  <2> QED
    BY <2>1 DEF DiskInv, Matched
<1> QED
  BY <1>1, <1>2, <1>3, <1>4, <1>5 DEF SiteNext, Answers, RoutingNext

\* A location is found among those of the server{}, or none is.
LEMMA LocationIsOne ==
    ASSUME NEW s, NEW uri, GetBestMatchLocation(s, uri) # 0
    PROVE  GetBestMatchLocation(s, uri) \in DOMAIN s.locations
<1> DEFINE ls == s.locations
           matches == {k \in DOMAIN ls : IsStringPrefix(ls[k].path, uri)}
           best == {k \in matches : \A j \in matches : /\ ~Longer(ls[j].path, ls[k].path)
                                                       /\ ls[j].path = ls[k].path => k <= j}
<1>1. GetBestMatchLocation(s, uri) = IF best = {} THEN 0 ELSE CHOOSE k \in best : TRUE
  BY DEF GetBestMatchLocation
<1>2. best \subseteq DOMAIN s.locations
  OBVIOUS
<1> HIDE DEF best
<1> QED
  BY <1>1, <1>2

\* What POST and DELETE are let do they are let by a location: without one
\* there is only GET.
LEMMA LocationLets ==
    ASSUME Refusal = 0, NEW method \in {"POST", "DELETE"}, request.method = method
    PROVE  /\ Location # 0
           /\ Location \in DOMAIN Server.locations
           /\ Serving = Server.locations[Location]
           /\ IsMethodAllowed(Serving, method)
<1>1. IsMethodAllowed(Serving, method)
  BY DEF Refusal
<1>2. Location # 0
  <2> SUFFICES ASSUME Location = 0 PROVE FALSE
    OBVIOUS
  <2>1. Serving = [NewLocation(<<>>) EXCEPT !.methods = <<Word("GET")>>]
    BY DEF Serving
  <2>2. Serving.methods = <<Word("GET")>>
    BY <2>1 DEF NewLocation
  <2>3. Contains(<<Word("GET")>>, Word(method))
    BY <1>1, <2>2 DEF IsMethodAllowed
  <2>4. Word("GET") = Word(method)
    BY <2>3 DEF Contains
  <2>5. Word("GET").word = "GET" /\ Word(method).word = method
    BY DEF Word
  <2> QED
    BY <2>4, <2>5
<1>3. Serving = Server.locations[Location]
  BY <1>2 DEF Serving
<1>4. Location \in DOMAIN Server.locations
  BY <1>2, LocationIsOne DEF Location
<1> QED
  BY <1>1, <1>2, <1>3, <1>4

LEMMA ServerIsHere ==
    ASSUME DiskInv, step # "idle"
    PROVE  Server \in Here /\ Server \in Servers
<1>1. config \in DOMAIN configs /\ configs \in Seq(Servers)
  BY DEF DiskInv, Matched, Parsed
<1>2. Server.port % PORTS = request.to.port
  BY DEF DiskInv, HostsInv, NamesStayOnTheirPort
<1> QED
  BY <1>1, <1>2 DEF Here, Range, Server

LEMMA ServingTyped ==
    ASSUME DiskInv, step # "idle", Location \in DOMAIN Server.locations,
           Serving = Server.locations[Location]
    PROVE  Serving \in Locations
<1>1. Server.locations \in Seq(Locations)
  BY ServerIsHere DEF Servers
<1> QED
  BY <1>1

\* The last slash apart, a file is put in the upload_store of its location.
LEMMA PostPuts ==
    ASSUME DiskInv, Post, NEW p \in DOMAIN disk' \ DOMAIN disk
    PROVE  MayCreate(p)
<1> DEFINE name == Last(request.parts[FilePart(request.parts)])
<1>1. step # "idle" /\ Refusal = 0 /\ request.method = "POST"
  BY DEF Post, Does, Passes
<1>2. /\ Location \in DOMAIN Server.locations
      /\ Serving = Server.locations[Location]
      /\ IsMethodAllowed(Serving, "POST")
  BY <1>1, LocationLets
<1>3. PICK x : x \notin NoNames /\ UploadName = <<x>>
  <2>1. PICK x : UploadName = <<x>>
    BY DEF UploadName
  <2>2. <<x>>[1] = x /\ Len(<<x>>) = 1
    OBVIOUS
  <2> QED
    BY <2>1, <2>2, UploadNameLeadsDown DEF LeadsDown
<1>4. StoreOf(Serving) \in Seq(Text)
  <2>1. Serving.store \in Seq(Text)
    BY <1>1, <1>2, ServingTyped DEF Locations
  <2>2. Serving.store # <<>> => Front(Serving.store) \in Seq(Text)
    BY <2>1 DEF Front
  <2> QED
    BY <2>1, <2>2 DEF StoreOf
<1>5. p = StoreOf(Serving) \o <<x>>
  <2>1. PICK file : file = StoreOf(Serving) \o <<x>>
    OBVIOUS
  <2>2. disk' = disk \/ DOMAIN disk' = DOMAIN disk \cup {file}
    BY <1>3, <2>1 DEF Post, FinishAsIs
  <2> QED
    BY <2>1, <2>2
<1>6. Front(p) = StoreOf(Serving) /\ Last(p) = x
  <2>1. PICK s, T : s = StoreOf(Serving) /\ T = Text \cup {x}
    OBVIOUS
  <2>2. s \in Seq(T) /\ x \in T
    BY <1>4, <2>1, MoreToHold
  <2>3. p = Append(s, x)
    BY <1>5, <2>1, <2>2
  <2>4. Len(p) = Len(s) + 1 /\ Len(s) \in Nat /\ p[Len(s) + 1] = x
    BY <2>2, <2>3
  <2>5. SubSeq(p, 1, Len(s)) = s
    BY <2>2, <2>3
  <2>6. Len(p) - 1 = Len(s)
    BY <2>4
  <2> QED
    BY <2>1, <2>4, <2>5, <2>6 DEF Front, Last
<1>7. Server \in Here
  BY <1>1, ServerIsHere
<1> QED
  BY <1>2, <1>3, <1>6, <1>7 DEF MayCreate

\* A URI as it is resolved leads to the names on the stack.
LEMMA NormalizedLeads ==
    ASSUME stack \in Seq(String)
    PROVE  Normalized \in UrisOf(stack)
<1>1. PICK e, T : e = "" /\ T = String
  OBVIOUS
<1> DEFINE U == T \cup {e}
<1>2. stack \in Seq(U) /\ <<e>> \in Seq(U)
  <2>1. stack \in Seq(T) /\ T \subseteq U /\ e \in U
    BY <1>1
  <2>2. stack \in Seq(U)
    BY <2>1, MoreToHold
  <2>3. <<e>> \in Seq(U)
    BY <2>1
  <2> QED
    BY <2>2, <2>3
<1> HIDE DEF U
<1>3. UrisOf(stack) = {<<e>> \o stack, <<e>> \o stack \o <<e>>} \ {<<e>>}
  BY <1>1 DEF UrisOf
<1>4. CASE stack = <<>>
  <2>1. Normalized = <<e, e>>
    BY <1>1, <1>4 DEF Normalized, Empty
  <2>2. <<e>> \o <<>> \o <<e>> = <<e, e>> /\ <<e, e>> # <<e>>
    <3>1. Len(<<e, e>>) = 2 /\ Len(<<e>>) = 1
      OBVIOUS
    <3>2. <<e>> \o <<>> = <<e>>
      OBVIOUS
    <3>3. <<e>> \o <<e>> = <<e, e>>
      <4>1. PICK a, b : a = <<e>> \o <<e>> /\ b = <<e, e>>
        OBVIOUS
      <4>2. a \in Seq(U) /\ Len(a) = 2 /\ a[1] = e /\ a[2] = e
        BY <1>2, <4>1
      <4>3. b \in Seq({e}) /\ Len(b) = 2 /\ b[1] = e /\ b[2] = e
        BY <4>1
      <4>4. b \in Seq(U)
        BY <4>3, MoreToHold DEF U
      <4>5. \A k \in 1..Len(a) : a[k] = b[k]
        BY <4>2, <4>3
      <4>6. a = b
        BY <4>2, <4>3, <4>4, <4>5, SeqEqual
      <4> QED
        BY <4>1, <4>6
    <3> QED
      BY <3>1, <3>2, <3>3
  <2> QED
    BY <1>3, <1>4, <2>1, <2>2
<1>5. CASE stack # <<>>
  <2>1. \/ Normalized = <<e>> \o stack \o <<e>>
        \/ Normalized = <<e>> \o stack \o <<>>
    BY <1>1, <1>5 DEF Normalized, Empty
  <2>2. <<e>> \o stack \in Seq(U)
    BY <1>2
  <2>3. <<e>> \o stack \o <<>> = <<e>> \o stack
    BY <2>2
  <2>4. Len(stack) \in Nat /\ Len(stack) > 0
    BY <1>2, <1>5
  <2>5. Len(<<e>> \o stack) = 1 + Len(stack) /\ Len(<<e>> \o stack \o <<e>>) = 2 + Len(stack)
    BY <1>2, <2>2
  <2>6. Len(<<e>>) = 1
    OBVIOUS
  <2>7. Len(<<e>> \o stack) # Len(<<e>>) /\ Len(<<e>> \o stack \o <<e>>) # Len(<<e>>)
    BY <2>4, <2>5, <2>6
  <2>8. <<e>> \o stack # <<e>> /\ <<e>> \o stack \o <<e>> # <<e>>
    BY ONLY <2>7
  <2> QED
    BY <1>3, <2>1, <2>3, <2>8
<1> QED
  BY <1>4, <1>5

\* What is removed lies under the root of its location by the names on the stack.
LEMMA DeleteTakes ==
    ASSUME DiskInv, Delete, NEW p \in DOMAIN disk \ DOMAIN disk'
    PROVE  MayDelete(p)
<1>1. step # "idle" /\ Refusal = 0 /\ request.method = "DELETE"
  BY DEF Delete, Does, Passes
<1>2. /\ Location # 0
      /\ Location \in DOMAIN Server.locations
      /\ Serving = Server.locations[Location]
      /\ IsMethodAllowed(Serving, "DELETE")
  BY <1>1, LocationLets
<1>3. stack \in Seq(String)
  BY DEF DiskInv, ConfinedInv, Segments
<1>4. PICK w, U : w = <<"www">> /\ U = Text \cup {w[1]}
  OBVIOUS
<1>5. PICK root : root = RootOf(Server, Serving)
  OBVIOUS
<1>6. root \in Seq(U) /\ root # <<>>
  <2>1. Serving.root \in Seq(Text) /\ Server.root \in Seq(Text)
    BY <1>1, <1>2, ServingTyped, ServerIsHere DEF Locations, Servers
  <2>2. Serving.root \in Seq(U) /\ Server.root \in Seq(U)
    BY <1>4, <2>1, MoreToHold
  <2>3. w \in Seq(U) /\ w # <<>>
    BY <1>4
  <2>4. root \in {Serving.root, Server.root, w} /\ root # <<>>
    BY <1>4, <1>5, <2>3 DEF RootOf
  <2> QED
    BY <2>2, <2>3, <2>4
<1>7. stack \in Seq(U)
  BY <1>3, <1>4, MoreToHold DEF Text
<1>8. p = root \o stack
  <2>1. PICK file : file = FilePath
    OBVIOUS
  <2>2. disk' = disk \/ DOMAIN disk' = DOMAIN disk \ {file}
    BY <2>1 DEF Delete, FinishAsIs, Restrict
  <2>3. p = file
    BY <2>2
  <2> QED
    BY <1>5, <2>1, <2>3 DEF FilePath
<1>9. PICK n : n = Len(root)
  OBVIOUS
<1>10. n \in DOMAIN p /\ SubSeq(p, 1, n) = root /\ SubSeq(p, n + 1, Len(p)) = stack
  <2>1. n \in Nat /\ n > 0 /\ Len(stack) \in Nat
    BY <1>6, <1>7, <1>9
  <2>2. p \in Seq(U) /\ Len(p) = n + Len(stack)
    BY <1>6, <1>7, <1>8, <1>9
  <2>3. n \in DOMAIN p
    BY <2>1, <2>2
  <2>4. SubSeq(p, 1, n) = root
    BY <1>6, <1>7, <1>8, <1>9, <2>1, <2>2
  <2>5. SubSeq(p, n + 1, Len(p)) = stack
    BY <1>6, <1>7, <1>8, <1>9, <2>1, <2>2
  <2> QED
    BY <2>3, <2>4, <2>5
<1>11. Normalized \in UrisOf(SubSeq(p, n + 1, Len(p)))
  BY <1>3, <1>10, NormalizedLeads
<1>12. Server \in Here
  BY <1>1, ServerIsHere
<1>13. PICK u, k, s : u = Normalized /\ k = Location /\ s = Server
  OBVIOUS
<1>14. k = GetBestMatchLocation(s, u)
  BY <1>13 DEF Location
<1>15. k # 0 /\ IsMethodAllowed(s.locations[k], "DELETE") /\ RootOf(s, s.locations[k]) = SubSeq(p, 1, n)
  BY <1>2, <1>5, <1>10, <1>13
<1> QED
  BY <1>10, <1>11, <1>12, <1>13, <1>14, <1>15 DEF MayDelete

\* The disk changes only where the configuration in use lets it: a file appears
\* in the upload_store of a location that allows POST, and one goes whose own
\* URI is best matched by a location that allows DELETE, whatever the
\* configuration, the request and the disk (Response.cpp:312-320, 460-586).
THEOREM DiskIsGuarded == SiteSpec => ChangesWhereAllowed
<1> DEFINE Allowed == /\ \A p \in DOMAIN disk' \ DOMAIN disk : MayCreate(p)
                      /\ \A p \in DOMAIN disk \ DOMAIN disk' : MayDelete(p)
<1>1. SiteInit => DiskInv
  <2>1. SiteInit => HostsInv /\ Matched
    BY DEF SiteInit, RoutingInit, HostsInv, NamesStayOnTheirPort, Matched
  <2> QED
    BY <2>1, ParsedInit, ConfinedInit DEF DiskInv
<1>2. DiskInv /\ [SiteNext]_siteVars => DiskInv'
  <2>1. DiskInv /\ [SiteNext]_siteVars => Parsed' /\ HostsInv' /\ ConfinedInv'
    BY ParsedNext, HostsNext, ConfinedNext DEF DiskInv
  <2> QED
    BY <2>1, MatchedNext DEF DiskInv
<1>3. DiskInv /\ [SiteNext]_siteVars => [Allowed]_siteVars
  <2> SUFFICES ASSUME DiskInv, SiteNext PROVE Allowed
    OBVIOUS
  <2>1. CASE Post
    <3>1. DOMAIN disk \subseteq DOMAIN disk'
      BY <2>1 DEF Post, FinishAsIs
    <3> QED
      BY <2>1, <3>1, PostPuts
  <2>2. CASE Delete
    <3>1. DOMAIN disk' \subseteq DOMAIN disk
      BY <2>2 DEF Delete, FinishAsIs, Restrict
    <3> QED
      BY <2>2, <3>1, DeleteTakes
  <2>3. CASE Parse \/ Start \/ (Answers /\ ~Post /\ ~Delete)
    <3>1. disk' = disk
      BY <2>3 DEF Parse, routingVars, Start, SetupSockets, Answers, RoutingNext, Arrive, Authorize,
         NextSegment, Normalize, Reset, Build, Refuse, Redirect, RunCgi, GetFile, GetListing,
         PostRefused, FinishAsIs
    <3> QED
      BY <3>1
  <2> QED
    BY <2>1, <2>2, <2>3 DEF SiteNext
<1> QED
  BY <1>1, <1>2, <1>3, PTL DEF SiteSpec, ChangesWhereAllowed
=============================================================================
