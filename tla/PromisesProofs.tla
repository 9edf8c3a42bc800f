---------------------------- MODULE PromisesProofs ----------------------------
(***************************************************************************)
(* The event loop implements Connections when peers and scripts cooperate: *)
(* each step, of any handler or sweep, moves at most one connection, and   *)
(* only along one of the five actions of Connections.  One response for    *)
(* each complete request, and no connection dropped while one is owed.     *)
(***************************************************************************)
EXTENDS CooperationProofs

\* The phase of a connection whose client is x.
PhaseIn(x) ==
    IF x = NoClient THEN "closed"
    ELSE IF ~x.complete THEN "reading"
    ELSE IF x.ready THEN "sending" ELSE "serving"

\* What one step may make of a connection's phase.
Promised(p, q) ==
    \/ p = q
    \/ p = "closed" /\ q = "reading"
    \/ p = "reading" /\ q \in {"serving", "closed"}
    \/ p = "serving" /\ q = "sending"
    \/ p = "sending" /\ q \in {"closed", "reading", "serving"}

\* A step of Connections, or none.
Keeps == [C!Next]_([c \in Fd |-> PhaseOf(c)])

-----------------------------------------------------------------------------
(* One connection moves *)

LEMMA OneMoves ==
    ASSUME NEW c \in Fd, \A g \in Fd \ {c} : clients'[g] = clients[g],
           Promised(PhaseIn(clients[c]), PhaseIn(clients'[c]))
    PROVE  Keeps
<1> DEFINE phase == [g \in Fd |-> PhaseOf(g)]
<1>1. \A g \in Fd : phase[g] = PhaseIn(clients[g])
  BY DEF PhaseOf, PhaseIn
<1>2. \A g \in Fd : phase'[g] = PhaseIn(clients'[g])
  BY DEF PhaseOf, PhaseIn
<1>3. /\ DOMAIN phase = Fd /\ DOMAIN phase' = Fd
      /\ phase = [g \in Fd |-> phase[g]] /\ phase' = [g \in Fd |-> phase'[g]]
  OBVIOUS
<1> HIDE DEF phase
<1>4. phase' = [phase EXCEPT ![c] = phase'[c]]
  BY <1>1, <1>2, <1>3
<1>5. Promised(phase[c], phase'[c])
  BY <1>1, <1>2
<1>6. \/ phase[c] = phase'[c]
      \/ phase[c] = "closed" /\ phase'[c] = "reading"
      \/ phase[c] = "reading" /\ phase'[c] \in {"serving", "closed"}
      \/ phase[c] = "serving" /\ phase'[c] = "sending"
      \/ phase[c] = "sending" /\ phase'[c] \in {"closed", "reading", "serving"}
  BY <1>5 DEF Promised
<1>7. CASE phase[c] = phase'[c]
  <2>1. phase' = phase
    BY <1>3, <1>4, <1>7
  <2> QED
    BY <2>1 DEF Keeps, phase
<1>8. CASE phase[c] = "closed" /\ phase'[c] = "reading"
  <2>1. C!Opens(c)
    BY <1>4, <1>8 DEF C!Opens, C!Becomes, phase
  <2> QED
    BY <2>1 DEF Keeps, C!Next
<1>9. CASE phase[c] = "reading" /\ phase'[c] = "serving"
  <2>1. C!Requests(c)
    BY <1>4, <1>9 DEF C!Requests, C!Becomes, phase
  <2> QED
    BY <2>1 DEF Keeps, C!Next
<1>10. CASE phase[c] = "reading" /\ phase'[c] = "closed"
  <2>1. C!Leaves(c)
    BY <1>4, <1>10 DEF C!Leaves, C!Becomes, phase
  <2> QED
    BY <2>1 DEF Keeps, C!Next
<1>11. CASE phase[c] = "serving" /\ phase'[c] = "sending"
  <2>1. C!Answers(c)
    BY <1>4, <1>11 DEF C!Answers, C!Becomes, phase
  <2> QED
    BY <2>1 DEF Keeps, C!Next
<1>12. CASE phase[c] = "sending" /\ phase'[c] \in {"closed", "reading", "serving"}
  <2>1. C!Delivers(c)
    BY <1>4, <1>12 DEF C!Delivers, C!Becomes, phase
  <2> QED
    BY <2>1 DEF Keeps, C!Next
<1> QED
  BY <1>6, <1>7, <1>8, <1>9, <1>10, <1>11, <1>12

LEMMA NoneMoves ==
    ASSUME clients' = clients
    PROVE  Keeps
BY DEF Keeps, PhaseOf

\* Client c becomes x.
LEMMA ClientMoves ==
    ASSUME TypeOK, NEW c \in Fd, NEW x, clients' = [clients EXCEPT ![c] = x],
           Promised(PhaseIn(clients[c]), PhaseIn(x))
    PROVE  Keeps
<1>1. clients'[c] = x /\ \A g \in Fd \ {c} : clients'[g] = clients[g]
  BY DEF TypeOK
<1> QED
  BY <1>1, OneMoves

-----------------------------------------------------------------------------
(* Phases of clients *)

\* A change of a client's other fields is none of its phase.
LEMMA SamePhase ==
    ASSUME NEW x \in Client, NEW y, DOMAIN y = DOMAIN x,
           y.complete = x.complete, y.ready = x.ready
    PROVE  PhaseIn(y) = PhaseIn(x)
<1>1. DOMAIN y # DOMAIN NoClient
  BY DEF Client, NoClient
<1>2. y # NoClient /\ x # NoClient
  BY <1>1, ClientThere
<1> QED
  BY <1>2 DEF PhaseIn

\* What changes of client c is none of its phase.
LEMMA PhaseStays ==
    ASSUME TypeOK, NEW c \in Fd, clients[c] # NoClient,
           NEW x, clients' = [clients EXCEPT ![c] = x], DOMAIN x = DOMAIN clients[c],
           x.complete = clients[c].complete, x.ready = clients[c].ready
    PROVE  Keeps
<1>1. clients[c] \in Client
  BY DEF TypeOK
<1>2. PhaseIn(x) = PhaseIn(clients[c])
  BY <1>1, SamePhase
<1> QED
  BY <1>2, ClientMoves DEF Promised

\* A request in service, or about to be answered, gets its response.
LEMMA GetsResponse ==
    ASSUME NEW x \in Client, x.complete, NEW y \in Client, y.complete, y.ready
    PROVE  PhaseIn(y) = "sending" /\ (~x.ready => PhaseIn(x) = "serving")
BY ClientThere DEF PhaseIn

LEMMA ServedPhase ==
    ASSUME NEW x \in Client, Sane(x), InService(x)
    PROVE  PhaseIn(x) = "serving" /\ x.complete /\ ~x.ready
BY ClientThere DEF PhaseIn, Sane

LEMMA ResponseFields ==
    ASSUME NEW x \in Client, NEW what \in Answer, NEW f
    PROVE  /\ Responding(x, what) \in Client /\ Responding(x, what).ready
           /\ Responding(x, what).complete = x.complete
           /\ CgiDone(x, what) \in Client /\ CgiDone(x, what).ready
           /\ CgiDone(x, what).complete = x.complete
           /\ FileDone(x, f) \in Client /\ FileDone(x, f).ready
           /\ FileDone(x, f).complete = x.complete
<1>1. \A w \in Answer : /\ Responding(x, w) \in Client /\ Responding(x, w).ready
                        /\ Responding(x, w).complete = x.complete
  <2> TAKE w \in Answer
  <2>1. Responding(x, w) \in Client
    BY RespondingType
  <2> QED
    BY <2>1 DEF Responding, Client
<1>2. CgiDone(x, what) \in Client /\ FileDone(x, f) \in Client
  BY RespondingType, FileDoneType
<1>3. x.answer \in Answer
  BY DEF Client
<1>4. CgiDone(x, what).ready /\ CgiDone(x, what).complete = x.complete
  <2> DEFINE r == Responding(x, what)
  <2>1. r \in Client /\ r.ready /\ r.complete = x.complete
    BY <1>1
  <2>2. CgiDone(x, what) = [r EXCEPT !.rd = NoFd, !.isCgi = FALSE]
    BY DEF CgiDone
  <2> HIDE DEF r
  <2> QED
    BY <2>1, <2>2 DEF Client
<1>5. FileDone(x, f).ready /\ FileDone(x, f).complete = x.complete
  <2> DEFINE r == Responding(x, x.answer)
  <2>1. r \in Client /\ r.ready /\ r.complete = x.complete
    BY <1>1, <1>3
  <2>2. PICK v, w : FileDone(x, f) = [r EXCEPT !.fr = v, !.fw = w, !.isFile = FALSE]
    BY <2>1 DEF FileDone, Client
  <2> HIDE DEF r
  <2> QED
    BY <2>1, <2>2 DEF Client
<1> QED
  BY <1>1, <1>2, <1>4, <1>5

-----------------------------------------------------------------------------
(* Steps of a pass *)

\* A CGI pipe or a file is worked on: its client's request gets a response, or
\* stays in service.
LEMMA HelperKeeps ==
    ASSUME TypeOK, Sound(pollFds, fds), Orderly, NEW j, IsNext(j), CgiStep(j) \/ FileStep(j)
    PROVE  Keeps
<1> DEFINE e == pollFds[j]
           f == e.fd
           c == cgiToClient[f]
           g == fileToClient[f]
<1>1. f \in Fd /\ clients \in [Fd -> Client \cup {NoClient}] /\ f # NoFd
  BY NextEntry, SizesAssumption DEF TypeOK, NoFd, Fd
<1>2. /\ WithLookups(e) = clients /\ Branch(e) \notin {"cgiError", "fileError"}
      /\ Branch(e) = "cgiWrite" => c \in Fd /\ clients[c] # NoClient /\ f = clients[c].wr
      /\ Branch(e) = "cgiRead" => c \in Fd /\ clients[c] # NoClient /\ f = clients[c].rd
      /\ Branch(e) \in {"fileRead", "fileWrite"} =>
            g \in Fd /\ clients[g] # NoClient /\ f \in {clients[g].fr, clients[g].fw}
  BY DispatchedTo
<1>3. \A h \in Fd : clients[h] # NoClient => Sane(clients[h])
  BY ClientPolled
<1> HIDE DEF f, c, g
<1>4. ASSUME Branch(e) \in {"cgiWrite", "cgiRead"}
      PROVE  /\ c \in Fd /\ clients[c] \in Client
             /\ PhaseIn(clients[c]) = "serving" /\ clients[c].complete /\ ~clients[c].ready
  <2>1. /\ c \in Fd /\ clients[c] \in Client /\ Sane(clients[c]) /\ InService(clients[c])
    BY <1>1, <1>2, <1>3, <1>4 DEF Sane, InService
  <2> QED
    BY <2>1, ServedPhase
<1>5. ASSUME Branch(e) \in {"fileRead", "fileWrite"}
      PROVE  /\ g \in Fd /\ clients[g] \in Client
             /\ PhaseIn(clients[g]) = "serving" /\ clients[g].complete /\ ~clients[g].ready
  <2>1. /\ g \in Fd /\ clients[g] \in Client /\ Sane(clients[g]) /\ InService(clients[g])
    BY <1>1, <1>2, <1>3, <1>5 DEF Sane, InService
  <2> QED
    BY <2>1, ServedPhase
<1>6. CASE CgiWriteSome(j) \/ CgiWriteEnd(j)
  <2>1. Branch(e) = "cgiWrite"
    BY <1>6 DEF CgiWriteSome, CgiWriteEnd, Takes
  <2> DEFINE x == [clients[c] EXCEPT !.left = clients[c].left - 1]
             y == [clients[c] EXCEPT !.wr = NoFd]
  <2>2. clients' = [clients EXCEPT ![c] = x] \/ clients' = [clients EXCEPT ![c] = y]
    BY <1>1, <1>4, <1>6, <2>1 DEF CgiWriteSome, CgiWriteEnd, c, f
  <2>3. /\ DOMAIN x = DOMAIN clients[c]
        /\ x.complete = clients[c].complete /\ x.ready = clients[c].ready
        /\ DOMAIN y = DOMAIN clients[c]
        /\ y.complete = clients[c].complete /\ y.ready = clients[c].ready
    BY <1>4, <2>1 DEF Client
  <2> HIDE DEF x, y
  <2>4. clients[c] # NoClient
    BY <1>2, <2>1
  <2> QED
    BY <1>4, <2>1, <2>2, <2>3, <2>4, PhaseStays
<1>7. CASE CgiReadChunk(j)
  BY <1>7, NoneMoves DEF CgiReadChunk
<1>8. CASE CgiReadEnd(j)
  <2>1. Branch(e) = "cgiRead"
    BY <1>8 DEF CgiReadEnd, Takes
  <2>2. PICK what \in Answer : clients' = [clients EXCEPT ![c] = CgiDone(clients[c], what)]
    BY <1>1, <1>4, <1>8, <2>1 DEF CgiReadEnd, Answer, c, f
  <2> DEFINE x == CgiDone(clients[c], what)
  <2>3. x \in Client /\ x.ready /\ x.complete
    BY <1>4, <2>1, ResponseFields
  <2> HIDE DEF x
  <2>4. PhaseIn(x) = "sending"
    BY <2>3, GetsResponse
  <2> QED
    BY <1>4, <2>1, <2>2, <2>4, ClientMoves DEF Promised, x
<1>9. CASE FileSome(j)
  <2>1. Branch(e) \in {"fileRead", "fileWrite"}
    BY <1>9 DEF FileSome, Takes
  <2> DEFINE x == [clients[g] EXCEPT !.left = clients[g].left - 1]
  <2>2. clients' = [clients EXCEPT ![g] = x]
    BY <1>1, <1>2, <1>5, <1>9, <2>1 DEF FileSome, g, f
  <2>3. /\ DOMAIN x = DOMAIN clients[g]
        /\ x.complete = clients[g].complete /\ x.ready = clients[g].ready
    BY <1>5, <2>1 DEF Client
  <2> HIDE DEF x
  <2>4. clients[g] # NoClient
    BY <1>2, <2>1
  <2> QED
    BY <1>5, <2>1, <2>2, <2>3, <2>4, PhaseStays
<1>10. CASE FileEnd(j)
  <2>1. Branch(e) \in {"fileRead", "fileWrite"}
    BY <1>10 DEF FileEnd, Takes
  <2>2. clients' = [clients EXCEPT ![g] = FileDone(clients[g], f)]
    BY <1>1, <1>2, <1>5, <1>10, <2>1 DEF FileEnd, g, f
  <2> DEFINE x == FileDone(clients[g], f)
  <2>3. x \in Client /\ x.ready /\ x.complete
    <3>1. "none" \in Answer
      BY DEF Answer
    <3> QED
      BY <1>5, <2>1, <3>1, ResponseFields
  <2> HIDE DEF x
  <2>4. PhaseIn(x) = "sending"
    BY <2>3, GetsResponse
  <2> QED
    BY <1>5, <2>1, <2>2, <2>4, ClientMoves DEF Promised, x
<1> QED
  BY <1>2, <1>6, <1>7, <1>8, <1>9, <1>10
  DEF CgiStep, CgiPipeError, FileStep, FileError, Takes

\* A connection is accepted, read from or given up: what is given up is owed
\* nothing, and a request counts as complete only once.
LEMMA ReceiverKeeps ==
    ASSUME TypeOK, Sound(pollFds, fds), Orderly, NEW j, IsNext(j),
           \/ PlainError(j) \/ ReadGone(j) \/ SendFails(j) \/ SendLast(j)
           \/ Accept(j) \/ ReadData(j)
    PROVE  Keeps
<1> DEFINE e == pollFds[j]
           f == e.fd
           c == clients[f]
<1>1. f \in Fd /\ clients \in [Fd -> Client \cup {NoClient}] /\ f # NoFd
  BY NextEntry, SizesAssumption DEF TypeOK, NoFd, Fd
<1>2. /\ WithLookups(e) = clients
      /\ Branch(e) \in {"plainError", "read", "write"} => fds[f].kind = "sock"
      /\ Branch(e) = "plainError" => "rst" \in fds[f].in
      /\ Branch(e) = "read" => fds[f].in # {}
  BY DispatchedTo
<1>3. ASSUME fds[f].kind = "sock"
      PROVE  /\ c # NoClient /\ c \in Client /\ Sane(c) /\ Unbroken(c, fds[f].in)
             /\ ClientOf(f) = c
  BY <1>1, <1>3 DEF Orderly, Wired, WiredSock, ClientOf
<1>4. PhaseIn(NoClient) = "closed" /\ PhaseIn(NewClient) = "reading"
  <2>1. NewClient # NoClient /\ ~NewClient.complete
    BY NewClientType, ClientThere DEF NewClient
  <2> QED
    BY <2>1 DEF PhaseIn
<1>5. CASE PlainError(j) \/ ReadGone(j)
  <2>1. /\ Branch(e) \in {"plainError", "read"} /\ clients' = [clients EXCEPT ![f] = NoClient]
        /\ Branch(e) = "read" => ~Receives(f)
    BY <1>2, <1>5 DEF PlainError, ReadGone, CloseClient, Takes
  <2>2. ~(fds[f].in \subseteq {"data"})
    BY <1>2, <2>1 DEF Receives
  <2>3. PhaseIn(c) = "reading"
    BY <1>2, <1>3, <2>1, <2>2 DEF Unbroken, PhaseIn
  <2> QED
    BY <1>1, <1>4, <2>1, <2>3, ClientMoves DEF Promised
<1>6. CASE SendFails(j)
  <2>1. /\ Branch(e) = "write" /\ ~CanSend(f) /\ ClientOf(f).complete
    BY <1>6 DEF SendFails, Sends, Takes
  <2>2. "rst" \in fds[f].in /\ c.complete /\ Unbroken(c, fds[f].in)
    BY <1>2, <1>3, <2>1 DEF CanSend
  <2> QED
    BY <2>2 DEF Unbroken
<1>7. CASE SendLast(j)
  <2>1. /\ Branch(e) = "write" /\ ClientOf(f).complete /\ ClientOf(f).ready
        /\ clients' = [clients EXCEPT ![f] = NoClient]
    BY <1>2, <1>7 DEF SendLast, Sends, CloseClient, Takes
  <2>2. PhaseIn(c) = "sending"
    BY <1>2, <1>3, <2>1 DEF PhaseIn
  <2> QED
    BY <1>1, <1>4, <2>1, <2>2, ClientMoves DEF Promised
<1>8. CASE Accept(j)
  <2>1. PICK g \in Fd : IsFree(g, 1) /\ clients' = [clients EXCEPT ![g] = NewClient]
    BY <1>2, <1>8 DEF Accept
  <2>2. clients[g] = NoClient
    BY <2>1 DEF IsFree, FreeFds, Orderly, Wired, WiredSock
  <2> QED
    BY <1>4, <2>1, <2>2, ClientMoves DEF Promised
<1>9. CASE ReadData(j)
  <2>1. Branch(e) = "read"
    BY <1>9 DEF ReadData, Takes
  <2>2. PICK whole \in Parsed(c) :
           clients' = [clients EXCEPT ![f] = [c EXCEPT !.complete = whole, !.quiet = FALSE]]
    BY <1>2, <1>3, <1>9, <2>1 DEF ReadData
  <2> DEFINE x == [c EXCEPT !.complete = whole, !.quiet = FALSE]
  <2>3. /\ c # NoClient /\ c \in Client /\ Sane(c)
    BY <1>2, <1>3, <2>1
  <2>4. x \in Client /\ x.complete = whole /\ x.ready = c.ready /\ whole \in BOOLEAN
    BY <2>3 DEF Parsed, Client
  <2> HIDE DEF x
  <2>5. x # NoClient
    BY <2>4, ClientThere
  <2>6. c.complete => whole
    BY DEF Parsed
  <2>7. Promised(PhaseIn(c), PhaseIn(x))
    BY <2>3, <2>4, <2>5, <2>6 DEF PhaseIn, Sane, Promised
  <2> QED
    BY <1>1, <2>2, <2>7, ClientMoves DEF x
<1> QED
  BY <1>5, <1>6, <1>7, <1>8, <1>9

\* A connection is answered: it was owed a response, and it is owed one until
\* the whole of it is sent.
LEMMA SenderKeeps ==
    ASSUME TypeOK, Sound(pollFds, fds), Orderly, NEW j, IsNext(j),
           \/ AcceptFails(j) \/ WriteNothing(j) \/ BuildStep(j)
           \/ SendSome(j) \/ SendLastKeep(j)
    PROVE  Keeps
<1> DEFINE f == pollFds[j].fd
           c == clients[f]
<1>1. CASE AcceptFails(j) \/ WriteNothing(j)
  <2>1. clients' = clients
    BY <1>1, DispatchedTo DEF AcceptFails, WriteNothing
  <2> QED
    BY <2>1, NoneMoves
<1>2. ASSUME Branch(pollFds[j]) = "write"
      PROVE  /\ f \in Fd /\ WithLookups(pollFds[j]) = clients /\ ClientOf(f) = c
             /\ c # NoClient /\ c \in Client /\ c.complete
             /\ clients \in [Fd -> Client \cup {NoClient}]
  BY <1>2, ToAnswer DEF TypeOK
<1> HIDE DEF f
<1>3. CASE BuildPage(j) \/ BuildCgiFails(j)
  <2>1. Branch(pollFds[j]) = "write" /\ ~c.ready
    BY <1>2, <1>3 DEF BuildPage, BuildCgiFails, Builds, Takes, f
  <2>2. PICK what \in Answer : clients' = [clients EXCEPT ![f] = Responding(c, what)]
    BY <1>2, <1>3, <2>1 DEF BuildPage, BuildCgiFails, Answer, f
  <2> DEFINE x == Responding(c, what)
  <2>3. x \in Client /\ x.ready /\ x.complete
    BY <1>2, <2>1, ResponseFields
  <2> HIDE DEF x
  <2>4. PhaseIn(x) = "sending" /\ PhaseIn(c) = "serving"
    BY <1>2, <2>1, <2>3, GetsResponse
  <2> QED
    BY <1>2, <2>1, <2>2, <2>4, ClientMoves DEF Promised, x
<1>4. CASE \/ BuildFile(j) \/ BuildUpload(j)
           \/ BuildCgi(j, TRUE) \/ BuildCgi(j, FALSE) \/ SendSome(j)
  <2>1. Branch(pollFds[j]) = "write"
    BY <1>4 DEF BuildFile, BuildUpload, BuildCgi, SendSome, Builds, Sends, Takes
  <2>2. CASE BuildFile(j)
    <3>1. PICK g : clients' = [clients EXCEPT ![f] = [c EXCEPT
                         !.isFile = TRUE, !.fr = g, !.answer = "done", !.left = CHUNKS]]
      BY <1>2, <2>1, <2>2 DEF BuildFile, f
    <3> DEFINE x == [c EXCEPT !.isFile = TRUE, !.fr = g, !.answer = "done", !.left = CHUNKS]
    <3>2. DOMAIN x = DOMAIN c /\ x.complete = c.complete /\ x.ready = c.ready
      BY <1>2, <2>1 DEF Client
    <3> HIDE DEF x
    <3> QED
      BY <1>2, <2>1, <3>1, <3>2, PhaseStays DEF x
  <2>3. CASE BuildUpload(j)
    <3>1. PICK g : clients' = [clients EXCEPT ![f] = [c EXCEPT
                         !.isFile = TRUE, !.fw = g, !.answer = "done", !.left = CHUNKS]]
      BY <1>2, <2>1, <2>3 DEF BuildUpload, f
    <3> DEFINE x == [c EXCEPT !.isFile = TRUE, !.fw = g, !.answer = "done", !.left = CHUNKS]
    <3>2. DOMAIN x = DOMAIN c /\ x.complete = c.complete /\ x.ready = c.ready
      BY <1>2, <2>1 DEF Client
    <3> HIDE DEF x
    <3> QED
      BY <1>2, <2>1, <3>1, <3>2, PhaseStays DEF x
  <2>4. ASSUME NEW body \in BOOLEAN, BuildCgi(j, body)
        PROVE  Keeps
    <3>1. PICK w \in Fd, r \in Fd, p \in FreshPids :
             clients' = [WithLookups(pollFds[j]) EXCEPT ![f] = [@ EXCEPT
                           !.isCgi = TRUE, !.pid = p, !.rd = r,
                           !.wr = IF body THEN w ELSE NoFd,
                           !.left = CHUNKS, !.late = FALSE]]
      BY <2>4 DEF BuildCgi, f
    <3> DEFINE x == [c EXCEPT !.isCgi = TRUE, !.pid = p, !.rd = r,
                              !.wr = IF body THEN w ELSE NoFd, !.left = CHUNKS, !.late = FALSE]
    <3>2. clients' = [clients EXCEPT ![f] = x]
      BY <1>2, <2>1, <3>1
    <3>3. DOMAIN x = DOMAIN c /\ x.complete = c.complete /\ x.ready = c.ready
      BY <1>2, <2>1 DEF Client
    <3> HIDE DEF x
    <3> QED
      BY <1>2, <2>1, <3>2, <3>3, PhaseStays
  <2>5. CASE SendSome(j)
    <3> DEFINE x == SomeSent(c)
    <3>1. clients' = [clients EXCEPT ![f] = x]
      BY <1>2, <2>1, <2>5 DEF SendSome, f
    <3>2. DOMAIN x = DOMAIN c /\ x.complete = c.complete /\ x.ready = c.ready
      BY <1>2, <2>1 DEF Client, SomeSent
    <3> HIDE DEF x
    <3> QED
      BY <1>2, <2>1, <3>1, <3>2, PhaseStays
  <2> QED
    BY <1>4, <2>2, <2>3, <2>4, <2>5
<1>5. CASE SendLastKeep(j)
  <2>1. Branch(pollFds[j]) = "write" /\ c.ready
    BY <1>2, <1>5 DEF SendLastKeep, Sends, Takes, f
  <2>2. PICK whole \in Parsed(NewClient) :
           clients' = [clients EXCEPT ![f] = [NewClient EXCEPT !.complete = whole]]
    BY <1>2, <1>5, <2>1 DEF SendLastKeep, f
  <2> DEFINE x == [NewClient EXCEPT !.complete = whole]
  <2>3. x \in Client /\ ~x.ready
    BY <2>2, NewClientType DEF Parsed, Client, NewClient
  <2> HIDE DEF x
  <2>4. PhaseIn(x) \in {"reading", "serving"} /\ PhaseIn(c) = "sending"
    BY <1>2, <2>1, <2>3, ClientThere DEF PhaseIn
  <2> QED
    BY <1>2, <2>1, <2>2, <2>4, ClientMoves DEF Promised, x
<1> QED
  BY <1>1, <1>3, <1>4, <1>5 DEF BuildStep

-----------------------------------------------------------------------------
(* The other steps *)

\* A sweep closes only connections that are owed nothing, and answers the
\* request whose CGI it kills.
LEMMA SweepKeeps ==
    ASSUME TypeOK, Orderly, Sweep
    PROVE  Keeps
<1>1. pollFds \in Seq(Entry) /\ clients \in [Fd -> Client \cup {NoClient}]
  BY DEF TypeOK
<1>2. \A h \in Fd : clients[h] # NoClient => Sane(clients[h])
  BY ClientPolled
<1>3. ASSUME NEW j \in DOMAIN pollFds, CloseIdle(j)
      PROVE  Keeps
  <2> DEFINE f == pollFds[j].fd
  <2>1. pollFds[j] \in Entry
    BY <1>1
  <2>2. f \in Fd
    BY <2>1 DEF Entry
  <2>3. /\ clients[f] # NoClient /\ clients[f].quiet
        /\ clients' = [clients EXCEPT ![f] = NoClient]
    BY <1>3 DEF CloseIdle, CloseClient, Idle
  <2> HIDE DEF f
  <2>4. PhaseIn(clients[f]) = "reading" /\ PhaseIn(NoClient) = "closed"
    BY <1>2, <2>2, <2>3 DEF PhaseIn, Sane
  <2> QED
    BY <2>2, <2>3, <2>4, ClientMoves DEF Promised
<1>4. ASSUME NEW c \in Fd, KillLateCgi(c)
      PROVE  Keeps
  <2> DEFINE r == Responding(clients[c], "error")
             x == [r EXCEPT !.rd = NoFd, !.wr = NoFd, !.isCgi = FALSE]
  <2>1. /\ clients[c] # NoClient /\ clients[c].isCgi
        /\ clients' = [clients EXCEPT ![c] = x]
    BY <1>1, <1>4 DEF KillLateCgi, LateCgi
  <2>2. /\ clients[c] \in Client /\ PhaseIn(clients[c]) = "serving" /\ clients[c].complete
    <3>1. clients[c] \in Client /\ Sane(clients[c]) /\ InService(clients[c])
      BY <1>1, <1>2, <2>1 DEF InService
    <3> QED
      BY <3>1, ServedPhase
  <2>3. r \in Client /\ r.ready /\ r.complete
    <3>1. "error" \in Answer
      BY DEF Answer
    <3> QED
      BY <2>2, <3>1, ResponseFields
  <2> HIDE DEF r
  <2>4. x \in Client /\ x.ready /\ x.complete
    BY <2>3 DEF Client
  <2> HIDE DEF x
  <2>5. PhaseIn(x) = "sending"
    BY <2>4, GetsResponse
  <2> QED
    BY <2>1, <2>2, <2>5, ClientMoves DEF Promised
<1>5. CASE EndIdle \/ EndCgi
  BY <1>5, NoneMoves DEF EndIdle, EndCgi
<1> QED
  BY <1>3, <1>4, <1>5 DEF Sweep

\* Peers, scripts and the clock change no phase by themselves.
LEMMA OutsideKeeps ==
    ASSUME TypeOK, Outside
    PROVE  Keeps
<1>1. ASSUME NEW f \in Fd, \/ PeerSends(f) \/ PeerLeaves(f, "fin") \/ PeerLeaves(f, "rst")
                           \/ ScriptWrites(f)
      PROVE  Keeps
  BY <1>1, NoneMoves DEF PeerSends, PeerLeaves, ScriptWrites, ServerUnchanged
<1>2. ASSUME NEW p \in Pid, ScriptMutes(p) \/ ScriptEnds(p)
      PROVE  Keeps
  BY <1>2, NoneMoves DEF ScriptMutes, ScriptEnds, ServerUnchanged
<1>3. ASSUME NEW c \in Fd, QuietTooLong(c) \/ CgiTooLong(c)
      PROVE  Keeps
  <2> DEFINE x == [clients[c] EXCEPT !.quiet = TRUE]
             y == [clients[c] EXCEPT !.late = TRUE]
  <2>1. /\ clients[c] # NoClient /\ clients[c] \in Client
        /\ clients' = [clients EXCEPT ![c] = x] \/ clients' = [clients EXCEPT ![c] = y]
    BY <1>3 DEF QuietTooLong, CgiTooLong, TypeOK
  <2>2. /\ DOMAIN x = DOMAIN clients[c]
        /\ x.complete = clients[c].complete /\ x.ready = clients[c].ready
        /\ DOMAIN y = DOMAIN clients[c]
        /\ y.complete = clients[c].complete /\ y.ready = clients[c].ready
    BY <2>1 DEF Client
  <2> HIDE DEF x, y
  <2> QED
    BY <2>1, <2>2, PhaseStays
<1> QED
  BY <1>1, <1>2, <1>3 DEF Outside

LEMMA NextKeeps ==
    ASSUME TypeOK, Sound(pollFds, fds), Orderly, [Next]_vars
    PROVE  Keeps
<1>1. CASE Dispatch
  <2>1. PICK j \in DOMAIN pollFds : IsNext(j) /\ (CgiStep(j) \/ FileStep(j) \/ PlainStep(j))
    BY <1>1 DEF Dispatch
  <2>2. CASE CgiStep(j) \/ FileStep(j)
    BY <2>1, <2>2, HelperKeeps
  <2>3. CASE PlainStep(j)
    BY <2>1, <2>3, ReceiverKeeps, SenderKeeps DEF PlainStep, SendStep
  <2> QED
    BY <2>1, <2>2, <2>3
<1>2. CASE Poll \/ EndPass
  BY <1>2, NoneMoves DEF Poll, EndPass
<1>3. CASE Sweep
  BY <1>3, SweepKeeps
<1>4. CASE Outside
  BY <1>4, OutsideKeeps
<1>5. CASE UNCHANGED vars
  BY <1>5, NoneMoves DEF vars
<1> QED
  BY <1>1, <1>2, <1>3, <1>4, <1>5 DEF Next, Loop

\* When peers and scripts cooperate, the event loop implements Connections:
\* however handlers, sweeps and children interleave, a complete request gets
\* exactly one response, the connection stays open until that response is out,
\* and only connections that are owed nothing are closed by a peer's leaving or
\* by the idle sweep.  Orderly makes each step map: it says which client the
\* entry at hand works for, and in which phase that client is.
THEOREM PromisesKept == ASSUME Cooperative PROVE Spec => KeepsPromises
<1>1. Init => C!Init
  BY DEF Init, C!Init, PhaseOf
<1>2. TypeOK /\ PollSetSound /\ Orderly /\ [Next]_vars => [C!Next]_([c \in Fd |-> PhaseOf(c)])
  <2>1. TypeOK /\ PollSetSound /\ Orderly /\ [Next]_vars => Keeps
    BY NextKeeps, SoundIsPollSetSound
  <2> QED
    BY <2>1 DEF Keeps
<1> QED
  BY <1>1, <1>2, TypeCorrect, PollSetIsSound, StaysOrderly, PTL DEF Spec, KeepsPromises, C!Spec
=============================================================================
