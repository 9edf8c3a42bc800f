------------------------------ MODULE EventLoop ------------------------------
(***************************************************************************)
(* The event loop of webserv (src/core/Server.cpp): one process, one       *)
(* poll(), one vector of poll entries over which every accept, read, write *)
(* and child process of the server is dispatched, and the two timeout      *)
(* sweeps that follow each pass.  Around it, the kernel's descriptors, the *)
(* CGI children and the peers, which move between any two steps.           *)
(*                                                                         *)
(* Descriptors are 1..NOFILE; a new one is the lowest that is free, as     *)
(* POSIX prescribes, so that the numbers a closed connection leaves behind *)
(* in the server's maps meet the descriptors opened later.                 *)
(***************************************************************************)
EXTENDS Naturals, Sequences, FiniteSets, SequencesExt

CONSTANTS
    NOFILE,    \* number of descriptors the process may hold (ulimit -n)
    NLISTEN,   \* number of listening sockets _setupSockets() opened
    NPID,      \* number of children that may exist
    NPEER,     \* connections that may be open at a time
    OUTBUF,    \* chunks (of at most 4095 bytes) a CGI's stdout pipe holds
    CHUNKS,    \* partial transfers a body, a file or a response may take
    Routes,    \* what Response::build() may resolve requests to
    Faults     \* what peers and CGI scripts may do besides cooperating

Fd == 1..NOFILE
Pid == 1..NPID
NoFd == 0      \* the code's -1, and an absent key of its fd maps
NoPid == 0
Listen == 1..NLISTEN

AllRoutes == {"page", "file", "upload", "cgi", "cgiBody"}

\* idle:        a peer leaves, or is silent for over 60 s, between two requests
\* fin, rst:    a peer half-closes or resets while its request is in service
\* stall:       a peer stops reading its response, or a service outlasts 60 s
\* ignoreStdin: a script ends without having read the whole request body
\* closeStdout: a script closes its standard output and keeps running
AllFaults == {"idle", "fin", "rst", "stall", "ignoreStdin", "closeStdout"}

ASSUME SizesAssumption ==
    /\ NOFILE \in Nat /\ NLISTEN \in Nat /\ NPID \in Nat /\ NPEER \in Nat
    /\ OUTBUF \in Nat /\ CHUNKS \in Nat
    /\ NLISTEN <= NOFILE

ASSUME ShapeAssumption == Routes \subseteq AllRoutes /\ Faults \subseteq AllFaults

VARIABLES
    fds,          \* the kernel's descriptor table
    child,        \* the CGI processes: running, or zombies until waited for
    pollFds,      \* _pollFds
    clients,      \* _clients
    cgiToClient,  \* _cgiToClient
    fileToClient, \* _fileToClient
    listenOf,     \* _clientToListenFd
    pc,           \* where _runEventLoop() is
    i             \* its loop index over _pollFds

kernel == <<fds, child>>
maps == <<cgiToClient, fileToClient, listenOf>>
vars == <<fds, child, pollFds, clients, maps, pc, i>>

-----------------------------------------------------------------------------
(* Types *)

Kind == {"free", "listen", "sock", "pipeR", "pipeW", "fileR", "fileW"}

\* What the kernel knows of a descriptor: for a socket, what has arrived
\* (on a listening one, "data" is a connection waiting to be accepted); for a
\* pipe, the child at its other end and the chunks it holds.
Desc == [kind : Kind, in : SUBSET {"data", "fin", "rst"},
         pid : Pid \cup {NoPid}, held : 0..OUTBUF]
FreeDesc == [kind |-> "free", in |-> {}, pid |-> NoPid, held |-> 0]
Open(k) == [FreeDesc EXCEPT !.kind = k]
OpenPipe(k, p) == [Open(k) EXCEPT !.pid = p]

\* "muted" runs with its stdout closed; "ok" and "fail" are zombies.
ChildState == {"none", "run", "muted", "ok", "fail"}
Zombie == {"ok", "fail"}

Event == {"IN", "OUT", "ERR", "HUP", "NVAL"}
\* An entry asks for one of POLLIN and POLLOUT: never both are reported.
Report == {R \in SUBSET Event : ~({"IN", "OUT"} \subseteq R)}
Entry == [fd : Fd, events : {"IN", "OUT"}, revents : Report]
NewEntry(f, ev) == [fd |-> f, events |-> ev, revents |-> {}]

\* What the response buffer holds: a CGI's whole output, a file, a page built
\* in memory are all "done"; "cut" is a CGI's output short of its end.
Answer == {"none", "done", "cut", "error"}

\* bytesSent: nothing, some of what is in the buffer, or bytes of a response
\* that was in it before, fewer ("stray") than are in it now or no fewer ("past").
Sent == {"none", "some", "stray", "past"}

\* class Client.  quiet: lastActivity is over 60 s old; late: cgiStart is over
\* 10 s old; left: how often the transfer under way may still be partial.
Client ==
    [complete : BOOLEAN, ready : BOOLEAN, isCgi : BOOLEAN, isFile : BOOLEAN,
     rd : Fd \cup {NoFd}, wr : Fd \cup {NoFd},
     fr : Fd \cup {NoFd}, fw : Fd \cup {NoFd},
     pid : Pid \cup {NoPid}, answer : Answer, sent : Sent, left : 0..CHUNKS,
     quiet : BOOLEAN, late : BOOLEAN]
NewClient ==
    [complete |-> FALSE, ready |-> FALSE, isCgi |-> FALSE, isFile |-> FALSE,
     rd |-> NoFd, wr |-> NoFd, fr |-> NoFd, fw |-> NoFd,
     pid |-> NoPid, answer |-> "none", sent |-> "none", left |-> 0,
     quiet |-> FALSE, late |-> FALSE]
NoClient == [absent |-> TRUE]   \* _clients has no such key

\* Every variable has its type: what is erased lies within its vector, a branch
\* finds the Client it uses, and CHUNKS bounds the partial transfers of a response.
\* Where bytesSent stands in the buffer is not a matter of type: see
\* SentIsOfTheBuffer.
TypeOK ==
    /\ fds \in [Fd -> Desc]
    /\ child \in [Pid -> ChildState]
    /\ pollFds \in Seq(Entry)
    /\ clients \in [Fd -> Client \cup {NoClient}]
    /\ cgiToClient \in [Fd -> Fd \cup {NoFd}]
    /\ fileToClient \in [Fd -> Fd \cup {NoFd}]
    /\ listenOf \in [Fd -> Listen \cup {NoFd}]
    /\ pc \in {"poll", "dispatch", "idle", "cgi"}
    /\ i \in Nat \ {0}

Init ==
    /\ fds = [f \in Fd |-> IF f \in Listen THEN Open("listen") ELSE FreeDesc]
    /\ child = [p \in Pid |-> "none"]
    /\ pollFds = [j \in Listen |-> NewEntry(j, "IN")]
    /\ clients = [f \in Fd |-> NoClient]
    /\ cgiToClient = [f \in Fd |-> NoFd]
    /\ fileToClient = [f \in Fd |-> NoFd]
    /\ listenOf = [f \in Fd |-> NoFd]
    /\ pc = "poll"
    /\ i = 1

-----------------------------------------------------------------------------
(* The kernel: free descriptors, close() and what poll() reports *)

FreeFds == {f \in Fd : fds[f].kind = "free"}
\* f is the n-th lowest free descriptor
IsFree(f, n) == f \in FreeFds /\ Cardinality({g \in FreeFds : g < f}) = n - 1

Closed(d, S) == [f \in Fd |-> IF f \in S THEN FreeDesc ELSE d[f]]

\* A process may take a number no child and no open pipe still stands for.
FreshPids == {p \in Pid : child[p] = "none" /\ \A f \in Fd : fds[f].pid # p}
StdoutOpen(p) == p # NoPid /\ child[p] = "run"
StdinOpen(p) == p # NoPid /\ child[p] \in {"run", "muted"}

\* What poll() finds at descriptor f; full: its send or pipe buffer is full.
Condition(f, full) ==
    LET d == fds[f] IN
    CASE d.kind \in {"sock", "listen"} ->
             (IF d.in # {} THEN {"IN"} ELSE {})
                 \cup (IF full THEN {} ELSE {"OUT"})
                 \cup (IF "rst" \in d.in THEN {"ERR", "HUP"} ELSE {})
      [] d.kind = "pipeR" -> (IF d.held > 0 THEN {"IN"} ELSE {})
                                 \cup (IF StdoutOpen(d.pid) THEN {} ELSE {"HUP"})
      [] d.kind = "pipeW" -> (IF full THEN {} ELSE {"OUT"})
                                 \cup (IF StdinOpen(d.pid) THEN {} ELSE {"ERR"})
      [] d.kind \in {"fileR", "fileW"} -> {"IN", "OUT"}
      [] d.kind = "free" -> {"NVAL"}

\* Buffers that may be full when poll() looks.
MayBeFull(e) ==
    /\ e.events = "OUT"
    /\ \/ fds[e.fd].kind = "pipeW"
       \/ fds[e.fd].kind = "sock" /\ "stall" \in Faults

-----------------------------------------------------------------------------
(* Reading and changing the server's state *)

ClientOf(f) == IF f = NoFd \/ clients[f] = NoClient THEN NewClient ELSE clients[f]
InCgi(f) == cgiToClient[f] # NoFd
InFile(f) == fileToClient[f] # NoFd
Broken(e) == e.revents \cap {"ERR", "NVAL"} # {}

\* The branch of the loop's body that takes an entry.
Branch(e) ==
    LET f == e.fd
        c == ClientOf(cgiToClient[f])
        d == ClientOf(fileToClient[f])
    IN CASE InCgi(f) /\ Broken(e) -> "cgiError"
         [] InCgi(f) /\ ~Broken(e) /\ f = c.wr -> "cgiWrite"
         [] InCgi(f) /\ ~Broken(e) /\ f # c.wr /\ f = c.rd -> "cgiRead"
         [] OTHER ->
            CASE InFile(f) /\ Broken(e) -> "fileError"
              [] InFile(f) /\ ~Broken(e) /\ f = d.fr /\ "IN" \in e.revents -> "fileRead"
              [] InFile(f) /\ ~Broken(e) /\ f = d.fw /\ "OUT" \in e.revents -> "fileWrite"
              [] OTHER ->
                 IF e.revents \cap {"ERR", "HUP", "NVAL"} # {} THEN "plainError"
                 ELSE IF "IN" \notin e.revents THEN "write"
                 ELSE IF f \in Listen THEN "accept" ELSE "read"

\* The clients the branches up to the one that takes e look up with
\* _clients[...], which inserts a default Client where there is none.
LookedUp(e) ==
    LET f == e.fd IN
    (IF InCgi(f) THEN {cgiToClient[f]} ELSE {}) \cup
    (IF InFile(f) /\ Branch(e) \notin {"cgiError", "cgiWrite", "cgiRead"}
     THEN {fileToClient[f]} ELSE {})
WithLookups(e) ==
    [f \in Fd |-> IF f \in LookedUp(e) /\ clients[f] = NoClient THEN NewClient ELSE clients[f]]

\* Variant: nobody asks for the event the next step needs.
WantNothingNew(s, f, ev) == s

\* pollFds with the wanted event of f's entry set to ev
Want(s, f, ev) ==
    [j \in DOMAIN s |-> IF s[j].fd = f THEN [s[j] EXCEPT !.events = ev] ELSE s[j]]

\* Variant: nothing is erased.
ErasesNothing(s, f) == s

\* _erasePollFd(): entries have distinct descriptors (PollSetSound)
ErasePollFd(s, f) ==
    IF \E j \in DOMAIN s : s[j].fd = f
    THEN RemoveAt(s, CHOOSE j \in DOMAIN s : s[j].fd = f)
    ELSE s

\* client c with a whole response in its buffer and none of it sent
Responding(c, what) ==
    [c EXCEPT !.ready = TRUE, !.answer = what, !.sent = "none", !.left = CHUNKS]

\* bytesSent, left as it is when a bare 500 takes the place of what is in the
\* buffer.
KeptSent(s) == IF s = "some" THEN {"stray", "past"} ELSE {s}

\* Variant: the client of a finished CGI still counts as one.
StaysCgi(c, what) == [Responding(c, what) EXCEPT !.rd = NoFd]

\* client c with its CGI's stdout closed and a response
CgiDone(c, what) == [Responding(c, what) EXCEPT !.rd = NoFd, !.isCgi = FALSE]

\* Variant: key and value are swapped.
RegisterSwapped(m, g, f) == [m EXCEPT ![f] = g]
\* Variant: a closed descriptor stays in its map.
StaysMapped(m, g) == m

\* Descriptor g works for client f, in _cgiToClient or _fileToClient; no more.
Register(m, g, f) == [m EXCEPT ![g] = f]
Unmap(m, g) == [m EXCEPT ![g] = NoFd]

\* The next entry poll() reported on, at or after the loop index.
IsNext(j) ==
    /\ pc = "dispatch"
    /\ j \in i..Len(pollFds)
    /\ pollFds[j].revents # {}
    /\ \A k \in i..(j - 1) : pollFds[k].revents = {}
Takes(j, branch) == IsNext(j) /\ Branch(pollFds[j]) = branch

\* Variant: the entry that moved up into the erased one's place is skipped.
ErasedAndSkipped(j) == i' = j + 1 /\ UNCHANGED pc

\* i--; continue after an erase, or on to the next entry
Erased(j) == i' = j /\ UNCHANGED pc
Done(j) == i' = j + 1 /\ UNCHANGED pc

-----------------------------------------------------------------------------
(* poll() and the ends of a pass *)

Poll ==
    /\ pc = "poll"
    /\ \E full \in SUBSET {j \in DOMAIN pollFds : MayBeFull(pollFds[j])} :
          pollFds' = [j \in DOMAIN pollFds |->
              [pollFds[j] EXCEPT !.revents =
                  Condition(pollFds[j].fd, j \in full)
                      \cap {pollFds[j].events, "ERR", "HUP", "NVAL"}]]
    /\ pc' = "dispatch"
    /\ i' = 1
    /\ UNCHANGED <<kernel, clients, maps>>

\* No entry is left; what poll() reported is dead from here on.
EndPass ==
    /\ pc = "dispatch"
    /\ \A k \in i..Len(pollFds) : pollFds[k].revents = {}
    /\ pollFds' = [j \in DOMAIN pollFds |-> [pollFds[j] EXCEPT !.revents = {}]]
    /\ pc' = "idle"
    /\ i' = 1
    /\ UNCHANGED <<kernel, clients, maps>>

-----------------------------------------------------------------------------
(* 1. CGI pipes *)

\* A broken pipe.  Only the read end is closed here, and only if it is the
\* client's; a write end whose child is gone just leaves the poll set.
CgiPipeError(j) ==
    /\ Takes(j, "cgiError")
    /\ LET f == pollFds[j].fd
           c == cgiToClient[f]
           cs == WithLookups(pollFds[j])
           p == cs[c].pid
       IN /\ IF f = cs[c].rd
             THEN /\ child' = [q \in Pid |-> IF q = p /\ child[q] \in Zombie THEN "none" ELSE child[q]]
                  /\ fds' = Closed(fds, {f})
                  /\ \E s \in KeptSent(cs[c].sent) :
                        clients' = [cs EXCEPT ![c] = [CgiDone(@, "error") EXCEPT !.sent = s]]
                  /\ pollFds' = RemoveAt(Want(pollFds, c, "OUT"), j)
             ELSE /\ clients' = cs
                  /\ pollFds' = RemoveAt(pollFds, j)
                  /\ UNCHANGED kernel
          /\ cgiToClient' = Unmap(cgiToClient, f)
    /\ Erased(j)
    /\ UNCHANGED <<fileToClient, listenOf>>

\* Part of the body goes down the CGI's stdin.
CgiWriteSome(j) ==
    /\ Takes(j, "cgiWrite")
    /\ LET c == cgiToClient[pollFds[j].fd]
       IN /\ StdinOpen(fds[pollFds[j].fd].pid)
          /\ clients[c].left > 0
          /\ clients' = [clients EXCEPT ![c].left = @ - 1]
    /\ Done(j)
    /\ UNCHANGED <<kernel, pollFds, maps>>

\* The rest of the body is written, or write() fails.
CgiWriteEnd(j) ==
    /\ Takes(j, "cgiWrite")
    /\ LET f == pollFds[j].fd
       IN /\ fds' = Closed(fds, {f})
          /\ clients' = [clients EXCEPT ![cgiToClient[f]].wr = NoFd]
          /\ cgiToClient' = Unmap(cgiToClient, f)
    /\ pollFds' = RemoveAt(pollFds, j)
    /\ Erased(j)
    /\ UNCHANGED <<child, fileToClient, listenOf>>

\* Variant: the first chunk is taken for the end of the output.
CgiEndsAtOnce(e) == TRUE

\* read() finds nothing, or POLLHUP came with what it finds.
CgiHungUp(e) == fds[e.fd].held = 0 \/ "HUP" \in e.revents

\* One chunk of the script's output, with its stdout still open when polled.
CgiReadChunk(j) ==
    /\ Takes(j, "cgiRead")
    /\ ~CgiHungUp(pollFds[j])
    /\ fds' = [fds EXCEPT ![pollFds[j].fd].held = @ - 1]
    /\ Done(j)
    /\ UNCHANGED <<child, pollFds, clients, maps>>

\* The script hung up: after at most one more chunk the pipe is closed and
\* the child waited for.  waitpid() blocks, and the loop with it, until the
\* child is a zombie.
CgiReadEnd(j) ==
    /\ Takes(j, "cgiRead")
    /\ LET f == pollFds[j].fd
           c == cgiToClient[f]
           p == clients[c].pid
           what == IF child[p] = "fail" THEN "error"
                   ELSE IF fds[f].held > 1 THEN "cut" ELSE "done"
       IN /\ CgiHungUp(pollFds[j])
          /\ child[p] \notin {"run", "muted"}
          /\ child' = [child EXCEPT ![p] = "none"]
          /\ fds' = Closed(fds, {f})
          /\ clients' = [clients EXCEPT ![c] = CgiDone(@, what)]
          /\ cgiToClient' = Unmap(cgiToClient, f)
          /\ pollFds' = RemoveAt(Want(pollFds, c, "OUT"), j)
    /\ Erased(j)
    /\ UNCHANGED <<fileToClient, listenOf>>

-----------------------------------------------------------------------------
(* 2. Asynchronous disk I/O *)

\* The client its descriptor is mapped to is told 500, whoever that is now and
\* whatever of another response it has been sent.
FileError(j) ==
    /\ Takes(j, "fileError")
    /\ LET f == pollFds[j].fd
           c == fileToClient[f]
           cs == WithLookups(pollFds[j])
       IN /\ fds' = Closed(fds, {f})
          /\ \E s \in KeptSent(cs[c].sent) :
                clients' = [cs EXCEPT ![c] = [Responding(@, "error") EXCEPT
                              !.sent = s, !.fr = NoFd, !.fw = NoFd, !.isFile = FALSE]]
          /\ fileToClient' = Unmap(fileToClient, f)
          /\ pollFds' = RemoveAt(Want(pollFds, c, "OUT"), j)
    /\ Erased(j)
    /\ UNCHANGED <<child, cgiToClient, listenOf>>

\* A chunk is read, or part of the body written.
FileSome(j) ==
    /\ Takes(j, "fileRead") \/ Takes(j, "fileWrite")
    /\ LET c == fileToClient[pollFds[j].fd]
           cs == WithLookups(pollFds[j])
       IN /\ clients[c].left > 0
          /\ clients' = [cs EXCEPT ![c].left = @ - 1]
    /\ Done(j)
    /\ UNCHANGED <<kernel, pollFds, maps>>

\* client c with its file f closed and the response it was built with
FileDone(c, f) ==
    [Responding(c, c.answer) EXCEPT
        !.fr = IF f = c.fr THEN NoFd ELSE @,
        !.fw = IF f = c.fr THEN @ ELSE NoFd,
        !.isFile = FALSE]

\* The end of the file, the last of the body, or an error.
FileEnd(j) ==
    /\ Takes(j, "fileRead") \/ Takes(j, "fileWrite")
    /\ LET f == pollFds[j].fd
           c == fileToClient[f]
           cs == WithLookups(pollFds[j])
       IN /\ fds' = Closed(fds, {f})
          /\ clients' = [cs EXCEPT ![c] = FileDone(@, f)]
          /\ fileToClient' = Unmap(fileToClient, f)
          /\ pollFds' = RemoveAt(Want(pollFds, c, "OUT"), j)
    /\ Erased(j)
    /\ UNCHANGED <<child, cgiToClient, listenOf>>

-----------------------------------------------------------------------------
(* 3. Listening and client sockets *)

\* Variant: the socket is closed and its poll entry stays.
CloseClientOnly(cs, f, j) ==
    /\ fds' = Closed(fds, {f})
    /\ clients' = [cs EXCEPT ![f] = NoClient]
    /\ listenOf' = [listenOf EXCEPT ![f] = NoFd]
    /\ UNCHANGED <<child, cgiToClient, fileToClient, pollFds>>

\* Variant: the poll entry goes and the socket stays open.
CloseClientOpen(cs, f, j) ==
    /\ clients' = [cs EXCEPT ![f] = NoClient]
    /\ listenOf' = [listenOf EXCEPT ![f] = NoFd]
    /\ pollFds' = RemoveAt(pollFds, j)
    /\ UNCHANGED <<fds, child, cgiToClient, fileToClient>>

\* _closeClient(): the socket and what is keyed by it, nothing else.
CloseClient(cs, f, j) ==
    /\ fds' = Closed(fds, {f})
    /\ clients' = [cs EXCEPT ![f] = NoClient]
    /\ listenOf' = [listenOf EXCEPT ![f] = NoFd]
    /\ pollFds' = RemoveAt(pollFds, j)
    /\ UNCHANGED <<child, cgiToClient, fileToClient>>

PlainError(j) ==
    /\ Takes(j, "plainError")
    /\ CloseClient(WithLookups(pollFds[j]), pollFds[j].fd, j)
    /\ Erased(j)

Accept(j) ==
    /\ Takes(j, "accept")
    /\ LET l == pollFds[j].fd IN
       /\ "data" \in fds[l].in
       /\ \E f \in Fd :
            /\ IsFree(f, 1)
            /\ fds' = [fds EXCEPT ![l].in = {}, ![f] = Open("sock")]
            /\ clients' = [WithLookups(pollFds[j]) EXCEPT ![f] = NewClient]
            /\ listenOf' = [listenOf EXCEPT ![f] = l]
            /\ pollFds' = Append(pollFds, NewEntry(f, "IN"))
    /\ Done(j)
    /\ UNCHANGED <<child, cgiToClient, fileToClient>>

\* accept() < 0: every descriptor is taken.
AcceptFails(j) ==
    /\ Takes(j, "accept")
    /\ FreeFds = {}
    /\ clients' = WithLookups(pollFds[j])
    /\ Done(j)
    /\ UNCHANGED <<kernel, pollFds, maps>>

\* Variant: bytes beyond a complete request are refused.
ReceivesOnlyRequest(f) ==
    fds[f].kind = "sock" /\ "data" \in fds[f].in /\ ~ClientOf(f).complete

\* recv() > 0: f is a socket, not reset, and bytes have come.
Receives(f) == fds[f].kind = "sock" /\ "data" \in fds[f].in

\* recv() <= 0: the peer is gone, or f is no socket.
ReadGone(j) ==
    /\ Takes(j, "read")
    /\ LET f == pollFds[j].fd IN
       /\ ~Receives(f)
       /\ CloseClient(WithLookups(pollFds[j]), f, j)
    /\ Erased(j)

\* _parseClientRequest(): is client c's request complete once more bytes are
\* appended to it?  A refused request counts as complete, and what is complete
\* stays so.
Parsed(c) == {c.complete, TRUE}

\* _handleClientRead() receives something.
ReadData(j) ==
    /\ Takes(j, "read")
    /\ LET f == pollFds[j].fd
           c == IF WithLookups(pollFds[j])[f] = NoClient THEN NewClient
                ELSE WithLookups(pollFds[j])[f]
       IN /\ Receives(f)
          /\ fds' = [fds EXCEPT ![f].in = @ \ {"data"}]
          /\ \E whole \in Parsed(c) :
                /\ clients' = [WithLookups(pollFds[j]) EXCEPT
                                 ![f] = [c EXCEPT !.complete = whole, !.quiet = FALSE]]
                /\ pollFds' = IF whole /\ ~c.isCgi /\ ~c.isFile
                              THEN Want(pollFds, f, "OUT") ELSE pollFds
    /\ Done(j)
    /\ UNCHANGED <<child, maps>>

\* POLLOUT, and there is no response to build or send.
WriteNothing(j) ==
    /\ Takes(j, "write")
    /\ ~ClientOf(pollFds[j].fd).complete
    /\ clients' = WithLookups(pollFds[j])
    /\ Done(j)
    /\ UNCHANGED <<kernel, pollFds, maps>>

-----------------------------------------------------------------------------
(* _handleClientWrite(), first half: Response::build() *)

Builds(j) ==
    /\ Takes(j, "write")
    /\ ClientOf(pollFds[j].fd).complete
    /\ ~ClientOf(pollFds[j].fd).ready

\* A page held in memory, or an error page since no file can be opened.  The
\* entry is not done: the handler goes on to send.
BuildPage(j) ==
    /\ "page" \in Routes \/ (FreeFds = {} /\ {"file", "upload"} \cap Routes # {})
    /\ Builds(j)
    /\ clients' = [WithLookups(pollFds[j]) EXCEPT
                     ![pollFds[j].fd] = Responding(@, "done")]
    /\ UNCHANGED <<kernel, pollFds, maps, pc, i>>

\* A file to be read back to the client: a static file or an error page.
BuildFile(j) ==
    /\ "file" \in Routes
    /\ Builds(j)
    /\ LET f == pollFds[j].fd IN
       \E g \in Fd :
          /\ IsFree(g, 1)
          /\ fds' = [fds EXCEPT ![g] = Open("fileR")]
          /\ clients' = [WithLookups(pollFds[j]) EXCEPT ![f] = [@ EXCEPT
                           !.isFile = TRUE, !.fr = g, !.answer = "done", !.left = CHUNKS]]
          /\ fileToClient' = Register(fileToClient, g, f)
          /\ pollFds' = Want(Append(pollFds, NewEntry(g, "IN")), f, "IN")
    /\ Done(j)
    /\ UNCHANGED <<child, cgiToClient, listenOf>>

\* A file the request's body is to be written to.
BuildUpload(j) ==
    /\ "upload" \in Routes
    /\ Builds(j)
    /\ LET f == pollFds[j].fd IN
       \E g \in Fd :
          /\ IsFree(g, 1)
          /\ fds' = [fds EXCEPT ![g] = Open("fileW")]
          /\ clients' = [WithLookups(pollFds[j]) EXCEPT ![f] = [@ EXCEPT
                           !.isFile = TRUE, !.fw = g, !.answer = "done", !.left = CHUNKS]]
          /\ fileToClient' = Register(fileToClient, g, f)
          /\ pollFds' = Want(Append(pollFds, NewEntry(g, "OUT")), f, "IN")
    /\ Done(j)
    /\ UNCHANGED <<child, cgiToClient, listenOf>>

\* _handleCGI() starts child p.  Of the four pipe ends, opened lowest first,
\* the parent keeps the second (to the child's stdin) and the third (from its
\* stdout).
LaunchCgi(w, r, p) ==
    /\ Cardinality(FreeFds) >= 4
    /\ IsFree(w, 2) /\ IsFree(r, 3)
    /\ \A q \in FreshPids : p <= q
    /\ child' = [child EXCEPT ![p] = "run"]

\* A CGI; the write end is closed at once when there is no body.
BuildCgi(j, body) ==
    /\ (IF body THEN "cgiBody" ELSE "cgi") \in Routes
    /\ Builds(j)
    /\ LET f == pollFds[j].fd
           added(w, r) == IF body THEN <<NewEntry(r, "IN"), NewEntry(w, "OUT")>>
                                  ELSE <<NewEntry(r, "IN")>>
       IN \E w, r \in Fd, p \in FreshPids :
          /\ LaunchCgi(w, r, p)
          /\ fds' = [fds EXCEPT ![r] = OpenPipe("pipeR", p),
                                ![w] = IF body THEN OpenPipe("pipeW", p) ELSE FreeDesc]
          /\ clients' = [WithLookups(pollFds[j]) EXCEPT ![f] = [@ EXCEPT
                           !.isCgi = TRUE, !.pid = p, !.rd = r,
                           !.wr = IF body THEN w ELSE NoFd,
                           !.left = CHUNKS, !.late = FALSE]]
          /\ cgiToClient' = IF body THEN Register(Register(cgiToClient, r, f), w, f)
                                 ELSE Register(cgiToClient, r, f)
          /\ pollFds' = Want(pollFds \o added(w, r), f, "IN")
    /\ Done(j)
    /\ UNCHANGED <<fileToClient, listenOf>>

\* _handleCGI() answers 500: a pipe() fails, and if it is the second one the
\* two ends of the first stay open; or fork() fails, and all are closed.
BuildCgiFails(j) ==
    /\ {"cgi", "cgiBody"} \cap Routes # {}
    /\ Builds(j)
    /\ Cardinality(FreeFds) < 4 \/ FreshPids = {}
    /\ fds' = [f \in Fd |->
          CASE IsFree(f, 1) /\ Cardinality(FreeFds) \in {2, 3} -> Open("pipeR")
            [] IsFree(f, 2) /\ Cardinality(FreeFds) \in {2, 3} -> Open("pipeW")
            [] OTHER -> fds[f]]
    /\ clients' = [WithLookups(pollFds[j]) EXCEPT
                     ![pollFds[j].fd] = Responding(@, "error")]
    /\ UNCHANGED <<child, pollFds, maps, pc, i>>

-----------------------------------------------------------------------------
(* _handleClientWrite(), second half: send() *)

Sends(j) ==
    /\ Takes(j, "write")
    /\ ClientOf(pollFds[j].fd).complete
    /\ ClientOf(pollFds[j].fd).ready
CanSend(f) == fds[f].kind = "sock" /\ "rst" \notin fds[f].in

SendFails(j) ==
    /\ Sends(j)
    /\ ~CanSend(pollFds[j].fd)
    /\ CloseClient(WithLookups(pollFds[j]), pollFds[j].fd, j)
    /\ Erased(j)

\* Variant: more is taken off the buffer than is left in it.
SendTooMuch(j) ==
    /\ Sends(j)
    /\ CanSend(pollFds[j].fd)
    /\ clients' = [WithLookups(pollFds[j]) EXCEPT
                     ![pollFds[j].fd].left = @ - 1, ![pollFds[j].fd].quiet = FALSE]
    /\ Done(j)
    /\ UNCHANGED <<kernel, pollFds, maps>>

\* client c when send() has taken part of the buffer
SomeSent(c) ==
    [c EXCEPT !.left = @ - 1, !.quiet = FALSE, !.sent = IF @ = "none" THEN "some" ELSE @]

SendSome(j) ==
    /\ Sends(j)
    /\ LET f == pollFds[j].fd
       IN /\ CanSend(f)
          /\ clients[f].left > 0 /\ clients[f].sent # "past"
          /\ clients' = [WithLookups(pollFds[j]) EXCEPT ![f] = SomeSent(@)]
    /\ Done(j)
    /\ UNCHANGED <<kernel, pollFds, maps>>

\* The response is out and the connection is not to be kept.  Past the end of
\* the buffer, where the length that is left wraps around, send() fails, or it
\* sends what is there: then the response counts as out.
SendLast(j) ==
    /\ Sends(j)
    /\ CanSend(pollFds[j].fd)
    /\ CloseClient(WithLookups(pollFds[j]), pollFds[j].fd, j)
    /\ Erased(j)

\* Keep-Alive: a fresh Client takes over what is left of the buffer, which may
\* hold a whole pipelined request.
SendLastKeep(j) ==
    /\ Sends(j)
    /\ LET f == pollFds[j].fd
       IN /\ CanSend(f)
          /\ \E whole \in Parsed(NewClient) :
                /\ clients' = [WithLookups(pollFds[j]) EXCEPT
                                 ![f] = [NewClient EXCEPT !.complete = whole]]
                /\ pollFds' = Want(pollFds, f, IF whole THEN "OUT" ELSE "IN")
    /\ Done(j)
    /\ UNCHANGED <<kernel, maps>>

-----------------------------------------------------------------------------
(* The timeout sweeps *)

\* _checkTimeouts() closes entry j: a known client silent for over 60 s, whose
\* number is no listening socket, no CGI pipe and no file in the maps.
Idle(j) ==
    LET f == pollFds[j].fd IN
    /\ f \notin Listen /\ ~InCgi(f) /\ ~InFile(f)
    /\ clients[f] # NoClient
    /\ clients[f].quiet

CloseIdle(j) ==
    /\ pc = "idle"
    /\ j \in DOMAIN pollFds
    /\ Idle(j)
    /\ \A k \in (j + 1)..Len(pollFds) : ~Idle(k)
    /\ CloseClient(clients, pollFds[j].fd, j)
    /\ UNCHANGED <<pc, i>>

EndIdle ==
    /\ pc = "idle"
    /\ \A j \in DOMAIN pollFds : ~Idle(j)
    /\ pc' = "cgi"
    /\ UNCHANGED <<kernel, pollFds, clients, maps, i>>

\* Variant: the wrong flag is looked at.
LateFile(c) == clients[c] # NoClient /\ clients[c].isFile /\ clients[c].late

\* _checkCgiTimeouts() ends the CGI of client c, which has run for over 10 s.
LateCgi(c) == clients[c] # NoClient /\ clients[c].isCgi /\ clients[c].late

\* Variant: only the stdout pipe is thought of.
OnlyStdout(cl) == {cl.rd} \ {NoFd}

OpenPipes(cl) == {cl.rd, cl.wr} \ {NoFd}

KillLateCgi(c) ==
    /\ pc = "cgi"
    /\ LateCgi(c)
    /\ \A d \in 1..(c - 1) : ~LateCgi(d)
    /\ LET cl == clients[c]
           pipes == OpenPipes(cl)
       IN /\ child' = [child EXCEPT ![cl.pid] = "none"]
          /\ fds' = Closed(fds, pipes)
          /\ cgiToClient' = [f \in Fd |-> IF f \in pipes THEN NoFd ELSE cgiToClient[f]]
          /\ pollFds' = Want(ErasePollFd(ErasePollFd(pollFds, cl.rd), cl.wr), c, "OUT")
          /\ clients' = [clients EXCEPT ![c] = [Responding(@, "error") EXCEPT
                            !.rd = NoFd, !.wr = NoFd, !.isCgi = FALSE]]
    /\ UNCHANGED <<fileToClient, listenOf, pc, i>>

EndCgi ==
    /\ pc = "cgi"
    /\ \A c \in Fd : ~LateCgi(c)
    /\ pc' = "poll"
    /\ UNCHANGED <<kernel, pollFds, clients, maps, i>>

-----------------------------------------------------------------------------
(* Everything around the server: peers, scripts and the clock.  A pass sees   *)
(* of what happens during it only that a peer has reset its connection or a   *)
(* script has ended; any other move made during a pass is indistinguishable   *)
(* from the same move made before the next poll(), and is made there.         *)

ServerUnchanged == UNCHANGED <<pollFds, clients, maps, pc, i>>
DuringPass == pc \in {"poll", "dispatch"}
BeforePoll == pc = "poll"

\* Bytes arrive on a connection, or a connection at a listening socket.
PeerSends(f) ==
    /\ BeforePoll
    /\ \/ fds[f].kind = "sock"
       \/ fds[f].kind = "listen" /\ Cardinality({g \in Fd : fds[g].kind = "sock"}) < NPEER
    /\ fds[f].in = {}
    /\ fds' = [fds EXCEPT ![f].in = {"data"}]
    /\ UNCHANGED child /\ ServerUnchanged

\* A peer leaves, with or without a request in service.
PeerLeaves(f, how) ==
    /\ IF how = "rst" THEN DuringPass ELSE BeforePoll
    /\ fds[f].kind = "sock"
    /\ fds[f].in \cap {"fin", "rst"} = {}
    /\ \/ how \in Faults
       \/ "idle" \in Faults /\ fds[f].in = {} /\ ~ClientOf(f).complete
    /\ fds' = [fds EXCEPT ![f].in = IF how = "rst" THEN {"rst"} ELSE @ \cup {"fin"}]
    /\ UNCHANGED child /\ ServerUnchanged

\* The script at the other end of stdout pipe f writes a chunk.
ScriptWrites(f) ==
    /\ BeforePoll
    /\ fds[f].kind = "pipeR"
    /\ StdoutOpen(fds[f].pid)
    /\ fds[f].held < OUTBUF
    /\ fds' = [fds EXCEPT ![f].held = @ + 1]
    /\ UNCHANGED child /\ ServerUnchanged

ScriptMutes(p) ==
    /\ BeforePoll
    /\ "closeStdout" \in Faults
    /\ child[p] = "run"
    /\ child' = [child EXCEPT ![p] = "muted"]
    /\ UNCHANGED fds /\ ServerUnchanged

ScriptEnds(p) ==
    /\ DuringPass
    /\ child[p] \in {"run", "muted"}
    /\ "ignoreStdin" \in Faults \/ \A f \in Fd : ~(fds[f].kind = "pipeW" /\ fds[f].pid = p)
    /\ \E st \in Zombie : child' = [child EXCEPT ![p] = st]
    /\ UNCHANGED fds /\ ServerUnchanged

\* 60 s pass without a byte received from or sent to client c.
QuietTooLong(c) ==
    /\ BeforePoll
    /\ clients[c] # NoClient
    /\ ~clients[c].quiet
    /\ \/ "stall" \in Faults
       \/ "idle" \in Faults /\ ~clients[c].complete
    /\ clients' = [clients EXCEPT ![c].quiet = TRUE]
    /\ UNCHANGED <<kernel, pollFds, maps, pc, i>>

\* 10 s pass since client c's CGI was launched.
CgiTooLong(c) ==
    /\ BeforePoll
    /\ clients[c] # NoClient
    /\ clients[c].isCgi
    /\ ~clients[c].late
    /\ clients' = [clients EXCEPT ![c].late = TRUE]
    /\ UNCHANGED <<kernel, pollFds, maps, pc, i>>

-----------------------------------------------------------------------------
(* The specification *)

CgiStep(j) ==
    \/ CgiPipeError(j)
    \/ CgiWriteSome(j) \/ CgiWriteEnd(j)
    \/ CgiReadChunk(j) \/ CgiReadEnd(j)

FileStep(j) == FileError(j) \/ FileSome(j) \/ FileEnd(j)

BuildStep(j) ==
    \/ BuildPage(j) \/ BuildFile(j) \/ BuildUpload(j)
    \/ BuildCgi(j, TRUE) \/ BuildCgi(j, FALSE) \/ BuildCgiFails(j)

SendStep(j) == SendFails(j) \/ SendSome(j) \/ SendLast(j) \/ SendLastKeep(j)

PlainStep(j) ==
    \/ PlainError(j)
    \/ Accept(j) \/ AcceptFails(j)
    \/ ReadGone(j) \/ ReadData(j)
    \/ WriteNothing(j) \/ BuildStep(j) \/ SendStep(j)

Dispatch ==
    \E j \in DOMAIN pollFds : IsNext(j) /\ (CgiStep(j) \/ FileStep(j) \/ PlainStep(j))

Sweep ==
    \/ \E j \in DOMAIN pollFds : CloseIdle(j)
    \/ EndIdle
    \/ \E c \in Fd : KillLateCgi(c)
    \/ EndCgi

Loop == Poll \/ Dispatch \/ EndPass \/ Sweep

Outside ==
    \/ \E f \in Fd :
          \/ PeerSends(f)
          \/ PeerLeaves(f, "fin") \/ PeerLeaves(f, "rst")
          \/ ScriptWrites(f)
          \/ QuietTooLong(f) \/ CgiTooLong(f)
    \/ \E p \in Pid : ScriptMutes(p) \/ ScriptEnds(p)

Next == Loop \/ Outside

Spec == Init /\ [][Next]_vars

\* The server is never stopped, poll() waits for at most a second, and time
\* passes (strongly fair, since the model lets it pass only before a poll);
\* peers and scripts owe nothing.
Fairness == WF_vars(Loop) /\ SF_vars(\E c \in Fd : CgiTooLong(c))

FairSpec == Spec /\ Fairness

-----------------------------------------------------------------------------
(* Safety, whatever peers and scripts do *)

\* poll() is never given a descriptor that is closed, or the same one twice:
\* every close() in a handler or a sweep takes the entry along, and the number
\* it frees is not polled again before something is opened under it.
PollSetSound ==
    /\ \A j \in DOMAIN pollFds : fds[pollFds[j].fd].kind # "free"
    /\ \A j, k \in DOMAIN pollFds : pollFds[j].fd = pollFds[k].fd => j = k

\* The other way round, what is open is polled, but for ends of pipes and for
\* connections whose peer has reset them: no file, no listening socket and no
\* connection with a peer is ever forgotten, whatever became of the client it
\* was for.  Pipes are lost where the second pipe() fails (Response.cpp:667)
\* and where a CGI's stdin breaks first (Server.cpp:503); a reset connection
\* is, where its number still stands for a pipe in _cgiToClient.
OnlyBrokenAreLost ==
    \A f \in Fd :
        \/ fds[f].kind \in {"free", "pipeR", "pipeW"}
        \/ fds[f].kind = "sock" /\ "rst" \in fds[f].in
        \/ \E j \in DOMAIN pollFds : pollFds[j].fd = f

\* What this pass has still to dispatch.
Reported == {pollFds[k].fd : k \in {j \in i..Len(pollFds) : pollFds[j].revents # {}}}

\* Entries are erased and appended under the loop's index, and still every
\* entry poll() reported on is dispatched exactly once: a step of a pass takes
\* at most one descriptor off the list and puts none on it, and the pass ends
\* only when the list is empty.
OncePerPass ==
    [][/\ pc = "dispatch" /\ pc' = "dispatch" =>
            Reported' = Reported \/ \E f \in Reported : Reported' = Reported \ {f}
       /\ pc = "dispatch" /\ pc' # "dispatch" => Reported = {}]_vars

\* The child a CGI client would be killed and waited for is there to be waited
\* for, and no other client's: no signal ever goes to a recycled number.
KillsItsOwnChild ==
    \A c \in Fd : clients[c] # NoClient /\ clients[c].isCgi =>
        /\ clients[c].pid # NoPid /\ child[clients[c].pid] # "none"
        /\ \A d \in Fd : clients[d] # NoClient /\ clients[d].isCgi
                             /\ clients[d].pid = clients[c].pid => d = c

-----------------------------------------------------------------------------
(* Safety, when peers and scripts cooperate (Faults \subseteq {"idle"}) *)

Polled(f, ev) == \E j \in DOMAIN pollFds : pollFds[j].fd = f /\ pollFds[j].events = ev

\* A request in service has what it needs to come to an end: its own child and
\* pipe or its own file, polled for the right event and mapped back to it,
\* while its socket is watched only for reading.
InServiceWired ==
    \A c \in Fd : clients[c] # NoClient =>
        LET cl == clients[c] IN
        /\ cl.isCgi => /\ Polled(cl.rd, "IN") /\ cgiToClient[cl.rd] = c
                       /\ fds[cl.rd].kind = "pipeR" /\ fds[cl.rd].pid = cl.pid
                       /\ cl.wr # NoFd => Polled(cl.wr, "OUT") /\ cgiToClient[cl.wr] = c
        /\ cl.isFile => \/ cl.fw = NoFd /\ Polled(cl.fr, "IN") /\ fileToClient[cl.fr] = c
                        \/ cl.fr = NoFd /\ Polled(cl.fw, "OUT") /\ fileToClient[cl.fw] = c
        /\ cl.isCgi \/ cl.isFile => Polled(c, "IN") /\ cl.complete
        /\ cl.ready => Polled(c, "OUT") \/ pc = "dispatch"
        /\ ~(cl.isCgi /\ cl.isFile) /\ ~(cl.isCgi /\ cl.ready) /\ ~(cl.isFile /\ cl.ready)

\* The maps speak of the living: an entry names an open descriptor and the
\* client that holds it, and every client has its socket and its listener.
MapsPointHome ==
    \A f \in Fd :
        /\ InCgi(f) => LET c == ClientOf(cgiToClient[f]) IN c.isCgi /\ f \in {c.rd, c.wr}
        /\ InFile(f) => LET c == ClientOf(fileToClient[f]) IN c.isFile /\ f \in {c.fr, c.fw}
        /\ clients[f] # NoClient <=> fds[f].kind = "sock"
        /\ clients[f] # NoClient <=> listenOf[f] # NoFd

\* Nothing is lost: every open descriptor is polled, and every child is the
\* child of a client that is waiting for it.
NothingLost ==
    /\ \A f \in Fd : fds[f].kind # "free" => \E j \in DOMAIN pollFds : pollFds[j].fd = f
    /\ \A p \in Pid : child[p] # "none" =>
          \E c \in Fd : clients[c] # NoClient /\ clients[c].isCgi /\ clients[c].pid = p

\* The phase of connection c.
PhaseOf(c) ==
    IF clients[c] = NoClient THEN "closed"
    ELSE IF ~clients[c].complete THEN "reading"
    ELSE IF clients[c].ready THEN "sending" ELSE "serving"

\* The event loop keeps the promises of Connections: one response for each
\* complete request, no connection dropped while its request is in service.
C == INSTANCE Connections WITH Conn <- Fd, phase <- [c \in Fd |-> PhaseOf(c)]
KeepsPromises == C!Spec
\* And it keeps them in time: whoever has sent a whole request gets a response
\* built, and all of it is sent, however the other connections fare.
KeepsPromisesInTime == C!FairSpec

\* No CGI process lives for ever, however long its script would run: it ends,
\* or the sweep kills it, and either way it is waited for.
EveryCgiReaped == \A p \in Pid : child[p] # "none" ~> child[p] = "none"

-----------------------------------------------------------------------------
(* Progress, whatever peers and scripts do *)

MutedScript == \E p \in Pid : child[p] = "muted"

\* The loop is always back at poll(), or it waits, in waitpid(), for a script
\* that has closed its stdout and never ends: nothing else a peer or a script
\* does can stop the server.
BlocksOnlyOnMuted == []<>(pc = "poll") \/ <>[]MutedScript

-----------------------------------------------------------------------------
(* What the repository says of the server *)

\* "stdout pipe has reached EOF" (Server.cpp:556): when the pipe is closed and
\* the child reaped, everything the script wrote has been read.
CgiOutputComplete == \A c \in Fd : ClientOf(c).answer # "cut"

\* "How much of responseBuffer has already been sent" (Client.hpp:36): bytesSent
\* counts bytes of the response that is in the buffer, so that each response is
\* sent from its beginning and send() reads no further than to its end.
SentIsOfTheBuffer == \A c \in Fd : ClientOf(c).sent \in {"none", "some"}

\* "no blocking I/O anywhere in the request path" (README.md:14): the loop is
\* always back at poll().
NeverBlocks == []<>(pc = "poll")

\* "Maps a CGI pipe fd back to the client fd it belongs to" (Server.hpp:50), and
\* _closeClient() "removes all bookkeeping (Client, pollfd entry, fd maps)"
\* (Server.hpp:72): a connection is never taken for a pipe, so that whatever
\* goes wrong on it ends in _closeClient(), and one that is open is polled.
NoConnectionForgotten ==
    \A f \in Fd : fds[f].kind = "sock" => \E j \in DOMAIN pollFds : pollFds[j].fd = f
=============================================================================
