--------------------------- MODULE EventLoopProofs ---------------------------
(***************************************************************************)
(* What is proved of the event loop, for any number of descriptors, peers, *)
(* children, partial transfers and kinds of requests, whatever peers and   *)
(* scripts do.                                                             *)
(***************************************************************************)
EXTENDS EventLoop, SequenceTheorems, TLAPS

-----------------------------------------------------------------------------
(* Sequences of poll entries *)

LEMMA RemoveAtProperties ==
    ASSUME NEW s \in Seq(Entry), NEW j \in DOMAIN s
    PROVE  /\ RemoveAt(s, j) \in Seq(Entry)
           /\ Len(RemoveAt(s, j)) = Len(s) - 1
           /\ \A k \in DOMAIN RemoveAt(s, j) :
                 RemoveAt(s, j)[k] = s[IF k < j THEN k ELSE k + 1]
<1>1. j \in 1..Len(s) /\ Len(s) \in Nat
  OBVIOUS
<1> DEFINE a == SubSeq(s, 1, j - 1)
           b == SubSeq(s, j + 1, Len(s))
<1>2. a \in Seq(Entry) /\ Len(a) = j - 1 /\ \A k \in 1..(j - 1) : a[k] = s[k]
  BY <1>1
<1>3. b \in Seq(Entry) /\ Len(b) = Len(s) - j /\ \A k \in 1..(Len(s) - j) : b[k] = s[j + k]
  BY <1>1
<1> HIDE DEF a, b
<1>4. a \o b \in Seq(Entry) /\ Len(a \o b) = Len(s) - 1
  BY <1>1, <1>2, <1>3
<1>5. \A k \in 1..(Len(s) - 1) : (a \o b)[k] = IF k < j THEN a[k] ELSE b[k - (j - 1)]
  BY <1>1, <1>2, <1>3, ConcatProperties, SMTT(30)
<1>6. ASSUME NEW k \in 1..(Len(s) - 1)
      PROVE  (a \o b)[k] = s[IF k < j THEN k ELSE k + 1]
  <2>1. CASE k < j
    BY <1>1, <1>2, <1>5, <2>1
  <2>2. CASE ~(k < j)
    <3>1. k - (j - 1) \in 1..(Len(s) - j) /\ j + (k - (j - 1)) = k + 1
      BY <1>1, <2>2
    <3> QED
      BY <1>3, <1>5, <2>2, <3>1
  <2> QED
    BY <2>1, <2>2
<1>7. RemoveAt(s, j) = a \o b
  BY DEF RemoveAt, a, b
<1>8. DOMAIN RemoveAt(s, j) = 1..(Len(s) - 1)
  BY <1>1, <1>4, <1>7
<1> QED
  BY <1>4, <1>6, <1>7, <1>8

LEMMA RemoveAtKeeps ==
    ASSUME NEW s \in Seq(Entry), NEW j \in DOMAIN s
    PROVE  /\ \A k \in DOMAIN s \ {j} : \E m \in DOMAIN RemoveAt(s, j) : RemoveAt(s, j)[m] = s[k]
           /\ \A m \in DOMAIN RemoveAt(s, j) : \E k \in DOMAIN s \ {j} : RemoveAt(s, j)[m] = s[k]
<1> DEFINE t == RemoveAt(s, j)
<1>1. j \in 1..Len(s) /\ DOMAIN s = 1..Len(s) /\ Len(s) \in Nat
  OBVIOUS
<1>2. /\ DOMAIN t = 1..(Len(s) - 1)
      /\ \A m \in DOMAIN t : t[m] = s[IF m < j THEN m ELSE m + 1]
  BY <1>1, RemoveAtProperties
<1> HIDE DEF t
<1>3. ASSUME NEW k \in DOMAIN s \ {j}
      PROVE  \E m \in DOMAIN t : t[m] = s[k]
  <2>1. CASE k < j
    BY <1>1, <1>2, <2>1
  <2>2. CASE ~(k < j)
    <3>1. k - 1 \in DOMAIN t /\ ~(k - 1 < j) /\ (k - 1) + 1 = k
      BY <1>1, <1>2, <2>2
    <3> QED
      BY <1>2, <3>1
  <2> QED
    BY <2>1, <2>2
<1>4. ASSUME NEW m \in DOMAIN t
      PROVE  \E k \in DOMAIN s \ {j} : t[m] = s[k]
  <2>1. (IF m < j THEN m ELSE m + 1) \in DOMAIN s \ {j}
    BY <1>1, <1>2
  <2> QED
    BY <1>2, <2>1
<1> QED
  BY <1>3, <1>4 DEF t

LEMMA WantProperties ==
    ASSUME NEW s \in Seq(Entry), NEW f, NEW ev \in {"IN", "OUT"}
    PROVE  /\ Want(s, f, ev) \in Seq(Entry)
           /\ DOMAIN Want(s, f, ev) = DOMAIN s
           /\ \A k \in DOMAIN s : Want(s, f, ev)[k].fd = s[k].fd
<1>1. \A k \in DOMAIN s : s[k] \in Entry
  OBVIOUS
<1>2. \A k \in DOMAIN s : [s[k] EXCEPT !.events = ev] \in Entry
  BY <1>1 DEF Entry
<1>3. Want(s, f, ev) \in [1..Len(s) -> Entry]
  BY <1>1, <1>2 DEF Want
<1>4. Want(s, f, ev) \in Seq(Entry)
  BY <1>3
<1>5. \A k \in DOMAIN s : Want(s, f, ev)[k].fd = s[k].fd
  BY <1>1 DEF Want, Entry
<1> QED
  BY <1>4, <1>5 DEF Want

LEMMA NewEntryType ==
    ASSUME NEW f \in Fd, NEW ev \in {"IN", "OUT"}
    PROVE  NewEntry(f, ev) \in Entry
BY DEF NewEntry, Entry, Report

LEMMA EraseType ==
    ASSUME NEW s \in Seq(Entry), NEW f
    PROVE  ErasePollFd(s, f) \in Seq(Entry)
BY RemoveAtProperties DEF ErasePollFd

-----------------------------------------------------------------------------
(* Types *)

LEMMA RespondingType ==
    ASSUME NEW c \in Client, NEW what \in Answer
    PROVE  Responding(c, what) \in Client /\ CgiDone(c, what) \in Client
<1>1. CHUNKS \in 0..CHUNKS
  BY SizesAssumption
<1>2. Responding(c, what) \in Client
  BY <1>1 DEF Client, Responding, Sent
<1>3. \A d \in Client : [d EXCEPT !.rd = NoFd, !.isCgi = FALSE] \in Client
  BY DEF Client
<1> QED
  BY <1>2, <1>3 DEF CgiDone

\* A bare 500 in the buffer and bytesSent as it was.
LEMMA KeptSentType ==
    ASSUME NEW c \in Client, NEW s \in KeptSent(c.sent)
    PROVE  /\ [CgiDone(c, "error") EXCEPT !.sent = s] \in Client
           /\ [Responding(c, "error") EXCEPT !.sent = s, !.fr = NoFd, !.fw = NoFd, !.isFile = FALSE] \in Client
<1>1. s \in Sent
  BY DEF KeptSent, Client, Sent
<1>2. \A d \in Client : [d EXCEPT !.sent = s] \in Client
  BY <1>1 DEF Client
<1>3. \A d \in Client : [d EXCEPT !.sent = s, !.fr = NoFd, !.fw = NoFd, !.isFile = FALSE] \in Client
  BY <1>1 DEF Client
<1>4. Responding(c, "error") \in Client /\ CgiDone(c, "error") \in Client
  BY RespondingType DEF Answer
<1> QED
  BY <1>2, <1>3, <1>4

LEMMA SomeSentType ==
    ASSUME NEW c \in Client, c.left > 0
    PROVE  SomeSent(c) \in Client
<1>1. c.left - 1 \in 0..CHUNKS
  BY SizesAssumption DEF Client
<1>2. (IF c.sent = "none" THEN "some" ELSE c.sent) \in Sent
  BY DEF Client, Sent
<1>3. \A l \in 0..CHUNKS, t \in Sent :
        [c EXCEPT !.left = l, !.quiet = FALSE, !.sent = t] \in Client
  BY DEF Client
<1> QED
  BY <1>1, <1>2, <1>3 DEF SomeSent

LEMMA FileDoneType ==
    ASSUME NEW c \in Client, NEW f
    PROVE  FileDone(c, f) \in Client
<1> DEFINE d == Responding(c, c.answer)
           r == IF f = c.fr THEN NoFd ELSE d.fr
           w == IF f = c.fr THEN d.fw ELSE NoFd
<1>1. d \in Client
  BY RespondingType DEF Client
<1>2. r \in Fd \cup {NoFd} /\ w \in Fd \cup {NoFd}
  BY <1>1 DEF Client
<1>3. FileDone(c, f) = [d EXCEPT !.fr = r, !.fw = w, !.isFile = FALSE]
  BY DEF FileDone
<1> HIDE DEF d, r, w
<1> QED
  BY <1>1, <1>2, <1>3 DEF Client

LEMMA NewClientType == NewClient \in Client
BY SizesAssumption DEF NewClient, Client, NoFd, NoPid, Answer, Sent

LEMMA ClosedType ==
    ASSUME NEW d \in [Fd -> Desc], NEW S
    PROVE  Closed(d, S) \in [Fd -> Desc]
BY SizesAssumption DEF Closed, Desc, FreeDesc, Kind, NoPid

LEMMA OpenType ==
    ASSUME NEW k \in Kind, NEW p \in Pid \cup {NoPid}
    PROVE  Open(k) \in Desc /\ OpenPipe(k, p) \in Desc /\ FreeDesc \in Desc
<1>1. FreeDesc \in Desc
  BY SizesAssumption DEF FreeDesc, Desc, Kind
<1>2. Open(k) \in Desc
  BY <1>1 DEF Open, Desc
<1> QED
  BY <1>1, <1>2 DEF OpenPipe, Desc

LEMMA NextEntry ==
    ASSUME TypeOK, NEW j, IsNext(j)
    PROVE  /\ j \in DOMAIN pollFds /\ j \in Nat \ {0} /\ j + 1 \in Nat \ {0}
           /\ pollFds[j] \in Entry /\ pollFds[j].fd \in Fd
<1>1. i \in Nat \ {0} /\ j \in i..Len(pollFds) /\ pollFds \in Seq(Entry)
  BY DEF TypeOK, IsNext
<1>2. j \in 1..Len(pollFds) /\ j \in Nat \ {0} /\ j + 1 \in Nat \ {0}
  BY <1>1
<1>3. pollFds[j] \in Entry
  BY <1>1, <1>2
<1> QED
  BY <1>1, <1>2, <1>3 DEF Entry

LEMMA LookupsType ==
    ASSUME TypeOK, NEW e \in Entry
    PROVE  /\ WithLookups(e) \in [Fd -> Client \cup {NoClient}]
           /\ \A f \in Fd : clients[f] # NoClient => WithLookups(e)[f] = clients[f]
           /\ \A f \in LookedUp(e) : f \in Fd => WithLookups(e)[f] \in Client
BY NewClientType DEF WithLookups, TypeOK

LEMMA CgiBranch ==
    ASSUME TypeOK, NEW e \in Entry, Branch(e) \in {"cgiError", "cgiWrite", "cgiRead"}
    PROVE  /\ InCgi(e.fd) /\ cgiToClient[e.fd] \in Fd /\ cgiToClient[e.fd] \in LookedUp(e)
           /\ Branch(e) = "cgiWrite" => e.fd = ClientOf(cgiToClient[e.fd]).wr
           /\ Branch(e) = "cgiRead" => e.fd = ClientOf(cgiToClient[e.fd]).rd
<1>1. InCgi(e.fd)
  BY DEF Branch
<1>2. e.fd \in Fd
  BY DEF Entry
<1> QED
  BY <1>1, <1>2 DEF Branch, TypeOK, InCgi, LookedUp

LEMMA FileBranch ==
    ASSUME TypeOK, NEW e \in Entry, Branch(e) \in {"fileError", "fileRead", "fileWrite"}
    PROVE  /\ InFile(e.fd) /\ fileToClient[e.fd] \in Fd /\ fileToClient[e.fd] \in LookedUp(e)
           /\ Branch(e) = "fileRead" => e.fd = ClientOf(fileToClient[e.fd]).fr
           /\ Branch(e) = "fileWrite" => e.fd = ClientOf(fileToClient[e.fd]).fw
<1>1. InFile(e.fd)
  BY DEF Branch
<1>2. e.fd \in Fd
  BY DEF Entry
<1> QED
  BY <1>1, <1>2 DEF Branch, TypeOK, InFile, LookedUp

LEMMA AcceptBranch ==
    ASSUME NEW e \in Entry, Branch(e) = "accept"
    PROVE  e.fd \in Listen
BY DEF Branch

LEMMA HolderIsClient ==
    ASSUME TypeOK, NEW f \in Fd, NEW c \in Fd,
           \/ f = ClientOf(c).rd \/ f = ClientOf(c).wr
           \/ f = ClientOf(c).fr \/ f = ClientOf(c).fw
    PROVE  clients[c] # NoClient /\ clients[c] \in Client
BY SizesAssumption DEF TypeOK, ClientOf, NewClient, NoFd, Fd

LEMMA CgiStepType ==
    ASSUME TypeOK, NEW j, IsNext(j), CgiStep(j)
    PROVE  TypeOK'
<1> DEFINE e == pollFds[j]
           f == e.fd
           c == cgiToClient[f]
           cs == WithLookups(e)
<1>1. /\ j \in DOMAIN pollFds /\ j \in Nat \ {0} /\ j + 1 \in Nat \ {0}
      /\ e \in Entry /\ f \in Fd
  BY NextEntry
<1>2. /\ cs \in [Fd -> Client \cup {NoClient}]
      /\ \A g \in Fd : clients[g] # NoClient => cs[g] = clients[g]
      /\ \A g \in LookedUp(e) : g \in Fd => cs[g] \in Client
  BY <1>1, LookupsType
<1>3. Branch(e) \in {"cgiError", "cgiWrite", "cgiRead"}
  BY DEF CgiStep, CgiPipeError, CgiWriteSome, CgiWriteEnd, CgiReadChunk, CgiReadEnd, Takes
<1>4. c \in Fd /\ c \in LookedUp(e) /\ cs[c] \in Client
  BY <1>1, <1>2, <1>3, CgiBranch
<1>5. Branch(e) # "cgiError" => clients[c] \in Client
  BY <1>1, <1>3, <1>4, CgiBranch, HolderIsClient
<1>6. RemoveAt(pollFds, j) \in Seq(Entry) /\ RemoveAt(Want(pollFds, c, "OUT"), j) \in Seq(Entry)
  BY <1>1, RemoveAtProperties, WantProperties DEF TypeOK
<1>7. Closed(fds, {f}) \in [Fd -> Desc]
  BY ClosedType DEF TypeOK
<1>8. \A what \in Answer : \A d \in Client : CgiDone(d, what) \in Client
  BY RespondingType
<1>9. Unmap(cgiToClient, f) \in [Fd -> Fd \cup {NoFd}]
  BY <1>1 DEF TypeOK, Unmap
<1>10. CASE CgiPipeError(j)
  <2>1. child' \in [Pid -> ChildState]
    BY <1>10 DEF TypeOK, CgiPipeError, ChildState, kernel
  <2>2. clients' \in [Fd -> Client \cup {NoClient}]
    <3>1. CASE f = cs[c].rd
      BY <1>2, <1>4, <1>10, <3>1, KeptSentType DEF CgiPipeError
    <3>2. CASE f # cs[c].rd
      BY <1>2, <1>10, <3>2 DEF CgiPipeError
    <3> QED
      BY <3>1, <3>2
  <2> QED
    BY <1>1, <1>6, <1>7, <1>9, <1>10, <2>1, <2>2 DEF TypeOK, CgiPipeError, Erased, kernel
<1>11. CASE CgiWriteSome(j)
  <2>1. clients[c].left - 1 \in 0..CHUNKS
    BY <1>5, <1>11, SizesAssumption DEF CgiWriteSome, Takes, Client
  <2>2. [clients[c] EXCEPT !.left = @ - 1] \in Client
    BY <1>5, <1>11, <2>1 DEF CgiWriteSome, Takes, Client
  <2> QED
    BY <1>1, <1>4, <1>11, <2>2 DEF TypeOK, CgiWriteSome, Done, kernel, maps
<1>12. CASE CgiWriteEnd(j)
  <2>1. [clients[c] EXCEPT !.wr = NoFd] \in Client
    BY <1>5, <1>12 DEF CgiWriteEnd, Takes, Client
  <2> QED
    BY <1>1, <1>4, <1>6, <1>7, <1>9, <1>12, <2>1 DEF TypeOK, CgiWriteEnd, Erased
<1>13. CASE CgiReadChunk(j)
  <2>1. fds[f] \in Desc /\ fds[f].held # 0
    BY <1>1, <1>13 DEF TypeOK, CgiReadChunk, CgiHungUp
  <2>2. [fds[f] EXCEPT !.held = @ - 1] \in Desc
    BY <2>1, SizesAssumption DEF Desc
  <2> QED
    BY <1>1, <1>13, <2>2 DEF TypeOK, CgiReadChunk, Done, maps
<1>14. CASE CgiReadEnd(j)
  <2>1. child' \in [Pid -> ChildState]
    BY <1>14 DEF TypeOK, CgiReadEnd, ChildState
  <2>2. clients' \in [Fd -> Client \cup {NoClient}]
    BY <1>4, <1>5, <1>8, <1>14 DEF TypeOK, CgiReadEnd, Takes, Answer
  <2> QED
    BY <1>1, <1>6, <1>7, <1>9, <1>14, <2>1, <2>2 DEF TypeOK, CgiReadEnd, Erased
<1> QED
  BY <1>10, <1>11, <1>12, <1>13, <1>14 DEF CgiStep

LEMMA FileStepType ==
    ASSUME TypeOK, NEW j, IsNext(j), FileStep(j)
    PROVE  TypeOK'
<1> DEFINE e == pollFds[j]
           f == e.fd
           c == fileToClient[f]
           cs == WithLookups(e)
<1>1. /\ j \in DOMAIN pollFds /\ j \in Nat \ {0} /\ j + 1 \in Nat \ {0}
      /\ e \in Entry /\ f \in Fd
  BY NextEntry
<1>2. /\ cs \in [Fd -> Client \cup {NoClient}]
      /\ \A g \in Fd : clients[g] # NoClient => cs[g] = clients[g]
      /\ \A g \in LookedUp(e) : g \in Fd => cs[g] \in Client
  BY <1>1, LookupsType
<1>3. Branch(e) \in {"fileError", "fileRead", "fileWrite"}
  BY DEF FileStep, FileError, FileSome, FileEnd, Takes
<1>4. c \in Fd /\ c \in LookedUp(e) /\ cs[c] \in Client
  BY <1>1, <1>2, <1>3, FileBranch
<1>5. RemoveAt(Want(pollFds, c, "OUT"), j) \in Seq(Entry)
  BY <1>1, RemoveAtProperties, WantProperties DEF TypeOK
<1>6. Closed(fds, {f}) \in [Fd -> Desc]
  BY ClosedType DEF TypeOK
<1>7. Unmap(fileToClient, f) \in [Fd -> Fd \cup {NoFd}]
  BY <1>1 DEF TypeOK, Unmap
<1>8. CASE FileError(j)
  <2>1. clients' \in [Fd -> Client \cup {NoClient}]
    BY <1>2, <1>4, <1>8, KeptSentType DEF FileError
  <2> QED
    BY <1>1, <1>5, <1>6, <1>7, <1>8, <2>1 DEF TypeOK, FileError, Erased
<1>9. CASE FileSome(j)
  <2>1. clients[c] \in Client /\ cs[c] = clients[c]
    BY <1>1, <1>2, <1>3, <1>4, <1>9, FileBranch, HolderIsClient DEF FileSome, Takes
  <2>2. clients[c].left - 1 \in 0..CHUNKS
    BY <1>9, <2>1, SizesAssumption DEF FileSome, Client
  <2>3. [cs[c] EXCEPT !.left = @ - 1] \in Client
    BY <2>1, <2>2 DEF Client
  <2>4. clients' \in [Fd -> Client \cup {NoClient}]
    BY <1>2, <1>4, <1>9, <2>3 DEF FileSome
  <2> QED
    BY <1>1, <1>9, <2>4 DEF TypeOK, FileSome, Done, kernel, maps
<1>10. CASE FileEnd(j)
  <2>1. FileDone(cs[c], f) \in Client
    BY <1>4, FileDoneType
  <2>2. clients' \in [Fd -> Client \cup {NoClient}]
    BY <1>2, <1>4, <1>10, <2>1 DEF FileEnd
  <2> QED
    BY <1>1, <1>5, <1>6, <1>7, <1>10, <2>2 DEF TypeOK, FileEnd, Erased
<1> QED
  BY <1>8, <1>9, <1>10 DEF FileStep

LEMMA CloseClientType ==
    ASSUME TypeOK, NEW j \in DOMAIN pollFds, NEW f \in Fd,
           NEW cs \in [Fd -> Client \cup {NoClient}],
           CloseClient(cs, f, j), UNCHANGED pc, i' \in Nat \ {0}
    PROVE  TypeOK'
<1>1. RemoveAt(pollFds, j) \in Seq(Entry)
  BY RemoveAtProperties DEF TypeOK
<1>2. Closed(fds, {f}) \in [Fd -> Desc]
  BY ClosedType DEF TypeOK
<1> QED
  BY <1>1, <1>2 DEF TypeOK, CloseClient

LEMMA SendStepType ==
    ASSUME TypeOK, NEW j, IsNext(j), SendStep(j)
    PROVE  TypeOK'
<1> DEFINE e == pollFds[j]
           f == e.fd
           cs == WithLookups(e)
<1>1. /\ j \in DOMAIN pollFds /\ j \in Nat \ {0} /\ j + 1 \in Nat \ {0}
      /\ e \in Entry /\ f \in Fd
  BY NextEntry
<1>2. /\ cs \in [Fd -> Client \cup {NoClient}]
      /\ \A g \in Fd : clients[g] # NoClient => cs[g] = clients[g]
  BY <1>1, LookupsType
<1>3. CASE SendFails(j)
  BY <1>1, <1>2, <1>3, CloseClientType DEF SendFails, Erased
<1>4. CASE SendSome(j)
  <2>1. ClientOf(f).complete
    BY <1>4 DEF SendSome, Sends
  <2>2. clients[f] # NoClient
    BY <2>1 DEF ClientOf, NewClient
  <2>3. clients[f] \in Client /\ cs[f] = clients[f]
    BY <1>1, <1>2, <2>2 DEF TypeOK
  <2>4. clients' \in [Fd -> Client \cup {NoClient}]
    BY <1>1, <1>2, <1>4, <2>3, SomeSentType DEF SendSome
  <2> QED
    BY <1>1, <1>4, <2>4 DEF TypeOK, SendSome, Done, kernel, maps
<1>5. CASE SendLast(j)
  BY <1>1, <1>2, <1>5, CloseClientType DEF SendLast, Erased
<1>6. CASE SendLastKeep(j)
  <2>1. \A whole \in BOOLEAN : [NewClient EXCEPT !.complete = whole] \in Client
    BY NewClientType DEF Client
  <2>2. Parsed(NewClient) \subseteq BOOLEAN
    BY NewClientType DEF Parsed, Client
  <2>3. clients' \in [Fd -> Client \cup {NoClient}]
    BY <1>2, <1>6, <2>1, <2>2 DEF SendLastKeep
  <2>4. pollFds' \in Seq(Entry)
    BY <1>6, WantProperties DEF SendLastKeep, TypeOK
  <2> QED
    BY <1>1, <1>6, <2>3, <2>4 DEF TypeOK, SendLastKeep, Done, kernel, maps
<1> QED
  BY <1>3, <1>4, <1>5, <1>6 DEF SendStep

LEMMA BuildStepType ==
    ASSUME TypeOK, NEW j, IsNext(j), BuildStep(j)
    PROVE  TypeOK'
<1> DEFINE e == pollFds[j]
           f == e.fd
           cs == WithLookups(e)
<1>1. /\ j \in DOMAIN pollFds /\ j \in Nat \ {0} /\ j + 1 \in Nat \ {0}
      /\ e \in Entry /\ f \in Fd
  BY NextEntry
<1>2. cs \in [Fd -> Client \cup {NoClient}]
  BY <1>1, LookupsType
<1>3. Builds(j)
  BY DEF BuildStep, BuildPage, BuildFile, BuildUpload, BuildCgi, BuildCgiFails
<1>4. ClientOf(f).complete
  BY <1>3 DEF Builds
<1>5. clients[f] # NoClient
  BY <1>4 DEF ClientOf, NewClient
<1>6. cs[f] \in Client
  BY <1>1, <1>5, LookupsType DEF TypeOK
<1>7. CHUNKS \in 0..CHUNKS
  BY SizesAssumption
<1>8. CASE BuildPage(j)
  <2>1. Responding(cs[f], "done") \in Client
    BY <1>6, RespondingType DEF Answer
  <2> QED
    BY <1>1, <1>2, <1>8, <2>1 DEF TypeOK, BuildPage, kernel, maps
<1>9. CASE BuildFile(j)
  <2>1. PICK g \in Fd :
           /\ fds' = [fds EXCEPT ![g] = Open("fileR")]
           /\ clients' = [cs EXCEPT ![f] = [@ EXCEPT
                !.isFile = TRUE, !.fr = g, !.answer = "done", !.left = CHUNKS]]
           /\ fileToClient' = Register(fileToClient, g, f)
           /\ pollFds' = Want(Append(pollFds, NewEntry(g, "IN")), f, "IN")
    BY <1>9 DEF BuildFile
  <2>2. clients' \in [Fd -> Client \cup {NoClient}]
    BY <1>2, <1>6, <1>7, <2>1 DEF Client, Answer
  <2>3. fds' \in [Fd -> Desc]
    BY <2>1, OpenType DEF TypeOK, Kind
  <2>4. Append(pollFds, NewEntry(g, "IN")) \in Seq(Entry)
    BY NewEntryType DEF TypeOK
  <2>5. pollFds' \in Seq(Entry)
    BY <2>1, <2>4, WantProperties
  <2>6. fileToClient' \in [Fd -> Fd \cup {NoFd}]
    BY <1>1, <2>1 DEF TypeOK, Register
  <2> QED
    BY <1>1, <1>9, <2>2, <2>3, <2>5, <2>6 DEF TypeOK, BuildFile, Done
<1>10. CASE BuildUpload(j)
  <2>1. PICK g \in Fd :
           /\ fds' = [fds EXCEPT ![g] = Open("fileW")]
           /\ clients' = [cs EXCEPT ![f] = [@ EXCEPT
                !.isFile = TRUE, !.fw = g, !.answer = "done", !.left = CHUNKS]]
           /\ fileToClient' = Register(fileToClient, g, f)
           /\ pollFds' = Want(Append(pollFds, NewEntry(g, "OUT")), f, "IN")
    BY <1>10 DEF BuildUpload
  <2>2. clients' \in [Fd -> Client \cup {NoClient}]
    BY <1>2, <1>6, <1>7, <2>1 DEF Client, Answer
  <2>3. fds' \in [Fd -> Desc]
    BY <2>1, OpenType DEF TypeOK, Kind
  <2>4. Append(pollFds, NewEntry(g, "OUT")) \in Seq(Entry)
    BY NewEntryType DEF TypeOK
  <2>5. pollFds' \in Seq(Entry)
    BY <2>1, <2>4, WantProperties
  <2>6. fileToClient' \in [Fd -> Fd \cup {NoFd}]
    BY <1>1, <2>1 DEF TypeOK, Register
  <2> QED
    BY <1>1, <1>10, <2>2, <2>3, <2>5, <2>6 DEF TypeOK, BuildUpload, Done
<1>11. ASSUME NEW body \in BOOLEAN, BuildCgi(j, body)
       PROVE  TypeOK'
  <2> DEFINE added(w, r) == IF body THEN <<NewEntry(r, "IN"), NewEntry(w, "OUT")>>
                                    ELSE <<NewEntry(r, "IN")>>
  <2>1. PICK w \in Fd, r \in Fd, p \in FreshPids :
           /\ child' = [child EXCEPT ![p] = "run"]
           /\ fds' = [fds EXCEPT ![r] = OpenPipe("pipeR", p),
                                 ![w] = IF body THEN OpenPipe("pipeW", p) ELSE FreeDesc]
           /\ clients' = [cs EXCEPT ![f] = [@ EXCEPT
                !.isCgi = TRUE, !.pid = p, !.rd = r,
                !.wr = IF body THEN w ELSE NoFd,
                !.left = CHUNKS, !.late = FALSE]]
           /\ cgiToClient' = IF body THEN Register(Register(cgiToClient, r, f), w, f)
                                      ELSE Register(cgiToClient, r, f)
           /\ pollFds' = Want(pollFds \o added(w, r), f, "IN")
    BY <1>11 DEF BuildCgi, LaunchCgi
  <2>2. p \in Pid
    BY DEF FreshPids
  <2>3. (IF body THEN w ELSE NoFd) \in Fd \cup {NoFd}
    OBVIOUS
  <2>4. clients' \in [Fd -> Client \cup {NoClient}]
    BY <1>2, <1>6, <1>7, <2>1, <2>2, <2>3 DEF Client
  <2>5. fds' \in [Fd -> Desc]
    BY <2>1, <2>2, OpenType DEF TypeOK, Kind
  <2>6. added(w, r) \in Seq(Entry)
    BY NewEntryType
  <2>7. pollFds \o added(w, r) \in Seq(Entry)
    BY <2>6 DEF TypeOK
  <2> HIDE DEF added
  <2>8. pollFds' \in Seq(Entry)
    BY <2>1, <2>7, WantProperties
  <2>9. cgiToClient' \in [Fd -> Fd \cup {NoFd}]
    BY <1>1, <2>1 DEF TypeOK, Register
  <2>10. child' \in [Pid -> ChildState]
    BY <2>1, <2>2 DEF TypeOK, ChildState
  <2> QED
    BY <1>1, <1>11, <2>4, <2>5, <2>8, <2>9, <2>10 DEF TypeOK, BuildCgi, Done
<1>12. CASE BuildCgiFails(j)
  <2>1. Responding(cs[f], "error") \in Client
    BY <1>6, RespondingType DEF Answer
  <2>2. \A g \in Fd : fds'[g] \in Desc
    BY <1>12, OpenType DEF BuildCgiFails, TypeOK, Kind
  <2>3. fds' \in [Fd -> Desc]
    BY <1>12, <2>2 DEF BuildCgiFails
  <2> QED
    BY <1>1, <1>2, <1>12, <2>1, <2>3 DEF TypeOK, BuildCgiFails, maps
<1> QED
  BY <1>8, <1>9, <1>10, <1>11, <1>12 DEF BuildStep

LEMMA PlainStepType ==
    ASSUME TypeOK, NEW j, IsNext(j), PlainStep(j)
    PROVE  TypeOK'
<1> DEFINE e == pollFds[j]
           f == e.fd
           cs == WithLookups(e)
<1>1. /\ j \in DOMAIN pollFds /\ j \in Nat \ {0} /\ j + 1 \in Nat \ {0}
      /\ e \in Entry /\ f \in Fd
  BY NextEntry
<1>2. cs \in [Fd -> Client \cup {NoClient}]
  BY <1>1, LookupsType
<1>3. CASE PlainError(j)
  BY <1>1, <1>2, <1>3, CloseClientType DEF PlainError, Erased
<1>4. CASE Accept(j)
  <2>1. f \in Listen
    BY <1>1, <1>4, AcceptBranch DEF Accept, Takes
  <2>2. PICK g \in Fd :
           /\ fds' = [fds EXCEPT ![f].in = {}, ![g] = Open("sock")]
           /\ clients' = [cs EXCEPT ![g] = NewClient]
           /\ listenOf' = [listenOf EXCEPT ![g] = f]
           /\ pollFds' = Append(pollFds, NewEntry(g, "IN"))
    BY <1>4 DEF Accept
  <2>3. \A d \in Desc : [d EXCEPT !.in = {}] \in Desc
    BY DEF Desc
  <2>4. fds' \in [Fd -> Desc]
    BY <1>1, <2>2, <2>3, OpenType DEF TypeOK, Kind
  <2>5. pollFds' \in Seq(Entry)
    BY <2>2, NewEntryType DEF TypeOK
  <2>6. clients' \in [Fd -> Client \cup {NoClient}]
    BY <1>2, <2>2, NewClientType
  <2> QED
    BY <1>1, <1>4, <2>1, <2>2, <2>4, <2>5, <2>6 DEF TypeOK, Accept, Done
<1>5. CASE AcceptFails(j)
  BY <1>1, <1>2, <1>5 DEF TypeOK, AcceptFails, Done, kernel, maps
<1>6. CASE ReadGone(j)
  BY <1>1, <1>2, <1>6, CloseClientType DEF ReadGone, Erased
<1>7. CASE ReadData(j)
  <2> DEFINE c == IF cs[f] = NoClient THEN NewClient ELSE cs[f]
  <2>1. c \in Client
    BY <1>1, <1>2, NewClientType
  <2>2. PICK whole \in Parsed(c) :
           /\ clients' = [cs EXCEPT ![f] = [c EXCEPT !.complete = whole, !.quiet = FALSE]]
           /\ pollFds' = IF whole /\ ~c.isCgi /\ ~c.isFile
                         THEN Want(pollFds, f, "OUT") ELSE pollFds
    BY <1>7 DEF ReadData
  <2>3. whole \in BOOLEAN
    BY <2>1 DEF Client, Parsed
  <2> HIDE DEF c
  <2>4. [c EXCEPT !.complete = whole, !.quiet = FALSE] \in Client
    BY <2>1, <2>3 DEF Client
  <2>5. clients' \in [Fd -> Client \cup {NoClient}]
    BY <1>2, <2>2, <2>4
  <2>6. pollFds' \in Seq(Entry)
    BY <2>2, WantProperties DEF TypeOK
  <2>7. \A d \in Desc : [d EXCEPT !.in = @ \ {"data"}] \in Desc
    BY DEF Desc
  <2> QED
    BY <1>1, <1>7, <2>5, <2>6, <2>7 DEF TypeOK, ReadData, Done, maps
<1>8. CASE WriteNothing(j)
  BY <1>1, <1>2, <1>8 DEF TypeOK, WriteNothing, Done, kernel, maps
<1> QED
  BY <1>3, <1>4, <1>5, <1>6, <1>7, <1>8, BuildStepType, SendStepType DEF PlainStep

LEMMA SweepType ==
    ASSUME TypeOK, Sweep
    PROVE  TypeOK'
<1>1. ASSUME NEW j \in DOMAIN pollFds, CloseIdle(j)
      PROVE  TypeOK'
  <2>1. pollFds[j] \in Entry
    BY DEF TypeOK
  <2>2. pollFds[j].fd \in Fd
    BY <2>1 DEF Entry
  <2> QED
    BY <1>1, <2>2, CloseClientType DEF CloseIdle, TypeOK
<1>2. CASE EndIdle
  BY <1>2 DEF TypeOK, EndIdle, kernel, maps
<1>3. ASSUME NEW c \in Fd, KillLateCgi(c)
      PROVE  TypeOK'
  <2> DEFINE cl == clients[c]
             pipes == OpenPipes(cl)
             answered == Responding(cl, "error")
  <2>1. cl \in Client
    BY <1>3 DEF KillLateCgi, LateCgi, TypeOK
  <2>2. answered \in Client
    BY <2>1, RespondingType DEF Answer
  <2>3. [answered EXCEPT !.rd = NoFd, !.wr = NoFd, !.isCgi = FALSE] \in Client
    BY <2>2 DEF Client
  <2>4. clients' \in [Fd -> Client \cup {NoClient}]
    BY <1>3, <2>3 DEF KillLateCgi, TypeOK
  <2>5. ErasePollFd(ErasePollFd(pollFds, cl.rd), cl.wr) \in Seq(Entry)
    BY EraseType DEF TypeOK
  <2>6. pollFds' \in Seq(Entry)
    BY <1>3, <2>5, WantProperties DEF KillLateCgi
  <2>7. fds' \in [Fd -> Desc]
    BY <1>3, ClosedType DEF KillLateCgi, TypeOK
  <2>8. cgiToClient' \in [Fd -> Fd \cup {NoFd}]
    BY <1>3 DEF KillLateCgi, TypeOK
  <2>9. child' \in [Pid -> ChildState]
    BY <1>3 DEF KillLateCgi, TypeOK, ChildState
  <2> QED
    BY <1>3, <2>4, <2>6, <2>7, <2>8, <2>9 DEF KillLateCgi, TypeOK
<1>4. CASE EndCgi
  BY <1>4 DEF TypeOK, EndCgi, kernel, maps
<1> QED
  BY <1>1, <1>2, <1>3, <1>4 DEF Sweep

LEMMA PassType ==
    ASSUME TypeOK, Poll \/ EndPass
    PROVE  TypeOK'
<1>1. \A j \in DOMAIN pollFds : pollFds[j] \in Entry
  BY DEF TypeOK
<1>2. CASE Poll
  <2>1. PICK full \in SUBSET {j \in DOMAIN pollFds : MayBeFull(pollFds[j])} :
           pollFds' = [j \in DOMAIN pollFds |->
              [pollFds[j] EXCEPT !.revents =
                  Condition(pollFds[j].fd, j \in full)
                      \cap {pollFds[j].events, "ERR", "HUP", "NVAL"}]]
    BY <1>2 DEF Poll
  <2>2. \A e \in Entry : \A C0 : C0 \cap {e.events, "ERR", "HUP", "NVAL"} \in Report
    BY DEF Entry, Report, Event
  <2>3. \A j \in DOMAIN pollFds : pollFds'[j] \in Entry
    BY <1>1, <2>1, <2>2 DEF Entry
  <2>4. pollFds' \in [1..Len(pollFds) -> Entry]
    BY <2>1, <2>3 DEF TypeOK
  <2>5. pollFds' \in Seq(Entry)
    BY <2>4 DEF TypeOK
  <2> QED
    BY <1>2, <2>5 DEF TypeOK, Poll, kernel, maps
<1>3. CASE EndPass
  <2>1. \A e \in Entry : [e EXCEPT !.revents = {}] \in Entry
    BY DEF Entry, Report
  <2>2. pollFds' \in [1..Len(pollFds) -> Entry]
    BY <1>1, <1>3, <2>1 DEF TypeOK, EndPass
  <2>3. pollFds' \in Seq(Entry)
    BY <2>2 DEF TypeOK
  <2> QED
    BY <1>3, <2>3 DEF TypeOK, EndPass, kernel, maps
<1> QED
  BY <1>2, <1>3

LEMMA OutsideType ==
    ASSUME TypeOK, Outside
    PROVE  TypeOK'
<1>1. ASSUME NEW f \in Fd, PeerSends(f)
      PROVE  TypeOK'
  <2>1. [fds[f] EXCEPT !.in = {"data"}] \in Desc
    BY DEF TypeOK, Desc
  <2> QED
    BY <1>1, <2>1 DEF TypeOK, PeerSends, ServerUnchanged, maps
<1>2. ASSUME NEW f \in Fd, NEW how \in {"fin", "rst"}, PeerLeaves(f, how)
      PROVE  TypeOK'
  <2>1. [fds[f] EXCEPT !.in = IF how = "rst" THEN {"rst"} ELSE @ \cup {"fin"}] \in Desc
    BY DEF TypeOK, Desc
  <2> QED
    BY <1>2, <2>1 DEF TypeOK, PeerLeaves, ServerUnchanged, maps
<1>3. ASSUME NEW f \in Fd, ScriptWrites(f)
      PROVE  TypeOK'
  <2>1. fds[f] \in Desc /\ fds[f].held < OUTBUF
    BY <1>3 DEF TypeOK, ScriptWrites
  <2>2. [fds[f] EXCEPT !.held = @ + 1] \in Desc
    BY <2>1, SizesAssumption DEF Desc
  <2> QED
    BY <1>3, <2>2 DEF TypeOK, ScriptWrites, ServerUnchanged, maps
<1>4. ASSUME NEW p \in Pid, ScriptMutes(p) \/ ScriptEnds(p)
      PROVE  TypeOK'
  BY <1>4 DEF TypeOK, ScriptMutes, ScriptEnds, ChildState, Zombie, ServerUnchanged, maps
<1>5. ASSUME NEW c \in Fd, QuietTooLong(c)
      PROVE  TypeOK'
  <2>1. clients[c] \in Client
    BY <1>5 DEF TypeOK, QuietTooLong
  <2>2. [clients[c] EXCEPT !.quiet = TRUE] \in Client
    BY <2>1 DEF Client
  <2> QED
    BY <1>5, <2>2 DEF TypeOK, QuietTooLong, kernel, maps
<1>6. ASSUME NEW c \in Fd, CgiTooLong(c)
      PROVE  TypeOK'
  <2>1. clients[c] \in Client
    BY <1>6 DEF TypeOK, CgiTooLong
  <2>2. [clients[c] EXCEPT !.late = TRUE] \in Client
    BY <2>1 DEF Client
  <2> QED
    BY <1>6, <2>2 DEF TypeOK, CgiTooLong, kernel, maps
<1> QED
  BY <1>1, <1>2, <1>3, <1>4, <1>5, <1>6 DEF Outside

LEMMA InitType == Init => TypeOK
<1> SUFFICES ASSUME Init PROVE TypeOK
  OBVIOUS
<1>1. Listen \subseteq Fd
  BY SizesAssumption DEF Listen, Fd
<1>2. fds \in [Fd -> Desc]
  BY OpenType DEF Init, Kind
<1>3. pollFds \in [1..NLISTEN -> Entry]
  BY <1>1, NewEntryType DEF Init, Listen
<1>4. pollFds \in Seq(Entry)
  BY <1>3, SizesAssumption
<1> QED
  BY <1>2, <1>4 DEF Init, TypeOK, ChildState

\* Every variable of the server and of the kernel keeps its type: whatever is
\* erased lies within its vector, each branch that uses a Client without looking
\* it up finds one, what is mapped is a descriptor, and an entry asks for one of
\* POLLIN and POLLOUT.  Nothing is said of how bytesSent relates to the buffer: a
\* count of another response is a state of the type (finding 6, run stray), and
\* CountsItsOwn says when there is none.
THEOREM TypeCorrect == Spec => []TypeOK
<1>1. ASSUME TypeOK, [Next]_vars
      PROVE  TypeOK'
  <2>1. CASE Dispatch
    BY <1>1, <2>1, CgiStepType, FileStepType, PlainStepType DEF Dispatch
  <2>2. CASE Loop
    BY <1>1, <2>1, <2>2, PassType, SweepType DEF Loop
  <2>3. CASE Outside
    BY <1>1, <2>3, OutsideType
  <2>4. CASE UNCHANGED vars
    BY <1>1, <2>4 DEF TypeOK, vars, maps
  <2> QED
    BY <1>1, <2>2, <2>3, <2>4 DEF Next
<1> QED
  BY <1>1, InitType, PTL DEF Spec

-----------------------------------------------------------------------------
(* The poll set *)

\* PollSetSound, of any poll set s and descriptor table d
Sound(s, d) ==
    /\ \A j \in DOMAIN s : d[s[j].fd].kind # "free"
    /\ \A j, k \in DOMAIN s : s[j].fd = s[k].fd => j = k

LEMMA SoundSameFds ==
    ASSUME NEW s, NEW t, NEW d, Sound(s, d),
           DOMAIN t = DOMAIN s, \A j \in DOMAIN s : t[j].fd = s[j].fd
    PROVE  Sound(t, d)
BY DEF Sound

LEMMA SoundMoreOpen ==
    ASSUME NEW s \in Seq(Entry), NEW d, NEW d2, Sound(s, d),
           \A f \in Fd : d[f].kind # "free" => d2[f].kind # "free"
    PROVE  Sound(s, d2)
<1>1. \A j \in DOMAIN s : s[j] \in Entry
  OBVIOUS
<1> QED
  BY <1>1 DEF Sound, Entry

LEMMA SoundWant ==
    ASSUME NEW s \in Seq(Entry), NEW d, Sound(s, d), NEW f, NEW ev \in {"IN", "OUT"}
    PROVE  Sound(Want(s, f, ev), d)
BY WantProperties, SoundSameFds

LEMMA SoundRemove ==
    ASSUME NEW s \in Seq(Entry), NEW d, Sound(s, d), NEW j \in DOMAIN s
    PROVE  /\ Sound(RemoveAt(s, j), d)
           /\ Sound(RemoveAt(s, j), Closed(d, {s[j].fd}))
<1> DEFINE t == RemoveAt(s, j)
           old(k) == IF k < j THEN k ELSE k + 1
<1>1. j \in 1..Len(s) /\ DOMAIN s = 1..Len(s) /\ Len(s) \in Nat
  OBVIOUS
<1>2. t \in Seq(Entry) /\ DOMAIN t = 1..(Len(s) - 1) /\ \A k \in DOMAIN t : t[k] = s[old(k)]
  BY <1>1, RemoveAtProperties, SMTT(30)
<1>3. \A k \in DOMAIN t : old(k) \in DOMAIN s /\ old(k) # j
  BY <1>1, <1>2
<1>4. \A k, m \in DOMAIN t : old(k) = old(m) => k = m
  BY <1>1, <1>2
<1>5. \A k \in DOMAIN t : t[k].fd \in Fd /\ t[k].fd # s[j].fd
  <2>1. \A k \in DOMAIN t : t[k] \in Entry
    BY <1>2
  <2> QED
    BY <1>2, <1>3, <2>1 DEF Sound, Entry
<1> HIDE DEF t, old
<1>6. Sound(t, d)
  BY <1>2, <1>3, <1>4 DEF Sound
<1>7. Sound(t, Closed(d, {s[j].fd}))
  BY <1>5, <1>6 DEF Sound, Closed
<1> QED
  BY <1>6, <1>7 DEF t

LEMMA SoundErase ==
    ASSUME NEW s \in Seq(Entry), NEW d, Sound(s, d), NEW f
    PROVE  Sound(ErasePollFd(s, f), Closed(d, {f}))
<1>1. CASE \E j \in DOMAIN s : s[j].fd = f
  <2> DEFINE j == CHOOSE k \in DOMAIN s : s[k].fd = f
  <2>1. j \in DOMAIN s /\ s[j].fd = f
    BY <1>1
  <2>2. ErasePollFd(s, f) = RemoveAt(s, j)
    BY <1>1 DEF ErasePollFd
  <2> HIDE DEF j
  <2> QED
    BY <2>1, <2>2, SoundRemove
<1>2. CASE ~ \E j \in DOMAIN s : s[j].fd = f
  <2>1. ErasePollFd(s, f) = s
    BY <1>2 DEF ErasePollFd
  <2>2. \A j \in DOMAIN s : s[j] \in Entry
    OBVIOUS
  <2>3. \A j \in DOMAIN s : s[j].fd \in Fd /\ s[j].fd # f
    BY <1>2, <2>2 DEF Entry
  <2> QED
    BY <2>1, <2>3 DEF Sound, Closed
<1> QED
  BY <1>1, <1>2

LEMMA SoundAppend ==
    ASSUME NEW s \in Seq(Entry), NEW d, Sound(s, d), NEW ev \in {"IN", "OUT"},
           NEW f \in Fd, d[f].kind = "free",
           NEW d2, d2[f].kind # "free",
           \A g \in Fd : d[g].kind # "free" => d2[g].kind # "free"
    PROVE  Sound(Append(s, NewEntry(f, ev)), d2)
<1> DEFINE t == Append(s, NewEntry(f, ev))
<1>1. /\ Len(s) \in Nat /\ DOMAIN s = 1..Len(s) /\ DOMAIN t = 1..(Len(s) + 1)
      /\ \A j \in DOMAIN s : t[j] = s[j]
      /\ t[Len(s) + 1] = NewEntry(f, ev)
  BY NewEntryType
<1>2. \A j \in DOMAIN t : j = Len(s) + 1 \/ j \in DOMAIN s
  BY <1>1
<1>3. \A j \in DOMAIN s : s[j].fd # f
  BY DEF Sound
<1>4. NewEntry(f, ev).fd = f
  BY DEF NewEntry
<1>5. Sound(s, d2)
  BY SoundMoreOpen
<1> HIDE DEF t
<1>6. \A j \in DOMAIN t : d2[t[j].fd].kind # "free"
  BY <1>1, <1>2, <1>4, <1>5 DEF Sound
<1>7. \A j, k \in DOMAIN t : t[j].fd = t[k].fd => j = k
  BY <1>1, <1>2, <1>3, <1>4 DEF Sound
<1> QED
  BY <1>6, <1>7 DEF Sound, t

LEMMA CgiStepSound ==
    ASSUME TypeOK, Sound(pollFds, fds), NEW j, IsNext(j), CgiStep(j)
    PROVE  Sound(pollFds', fds')
<1> DEFINE f == pollFds[j].fd
           wanted == Want(pollFds, cgiToClient[f], "OUT")
<1>1. j \in DOMAIN pollFds /\ f \in Fd /\ pollFds \in Seq(Entry)
  BY NextEntry DEF TypeOK
<1>2. Sound(RemoveAt(pollFds, j), fds) /\ Sound(RemoveAt(pollFds, j), Closed(fds, {f}))
  BY <1>1, SoundRemove
<1>3. /\ wanted \in Seq(Entry) /\ j \in DOMAIN wanted /\ wanted[j].fd = f
      /\ Sound(wanted, fds)
  BY <1>1, WantProperties, SoundWant
<1> HIDE DEF wanted
<1>4. Sound(RemoveAt(wanted, j), Closed(fds, {f}))
  BY <1>3, SoundRemove
<1>5. CASE CgiPipeError(j)
  BY <1>2, <1>4, <1>5 DEF CgiPipeError, kernel, wanted
<1>6. CASE CgiWriteSome(j)
  BY <1>6 DEF CgiWriteSome, kernel
<1>7. CASE CgiWriteEnd(j)
  BY <1>2, <1>7 DEF CgiWriteEnd
<1>8. CASE CgiReadChunk(j)
  <2>1. \A g \in Fd : fds'[g].kind = fds[g].kind
    BY <1>1, <1>8 DEF CgiReadChunk, TypeOK, Desc
  <2>2. Sound(pollFds, fds')
    BY <1>1, <2>1, SoundMoreOpen
  <2> QED
    BY <1>8, <2>2 DEF CgiReadChunk
<1>9. CASE CgiReadEnd(j)
  BY <1>4, <1>9 DEF CgiReadEnd, wanted
<1> QED
  BY <1>5, <1>6, <1>7, <1>8, <1>9 DEF CgiStep

LEMMA FileStepSound ==
    ASSUME TypeOK, Sound(pollFds, fds), NEW j, IsNext(j), FileStep(j)
    PROVE  Sound(pollFds', fds')
<1> DEFINE f == pollFds[j].fd
           wanted == Want(pollFds, fileToClient[f], "OUT")
<1>1. j \in DOMAIN pollFds /\ f \in Fd /\ pollFds \in Seq(Entry)
  BY NextEntry DEF TypeOK
<1>2. /\ wanted \in Seq(Entry) /\ j \in DOMAIN wanted /\ wanted[j].fd = f
      /\ Sound(wanted, fds)
  BY <1>1, WantProperties, SoundWant
<1> HIDE DEF wanted
<1>3. Sound(RemoveAt(wanted, j), Closed(fds, {f}))
  BY <1>2, SoundRemove
<1>4. CASE FileError(j)
  BY <1>3, <1>4 DEF FileError, wanted
<1>5. CASE FileEnd(j)
  BY <1>3, <1>5 DEF FileEnd, wanted
<1>6. CASE FileSome(j)
  BY <1>6 DEF FileSome, kernel
<1> QED
  BY <1>4, <1>5, <1>6 DEF FileStep

LEMMA CloseClientSound ==
    ASSUME TypeOK, Sound(pollFds, fds), NEW j \in DOMAIN pollFds, NEW cs,
           CloseClient(cs, pollFds[j].fd, j)
    PROVE  Sound(pollFds', fds')
BY SoundRemove DEF CloseClient, TypeOK

LEMMA BuildStepSound ==
    ASSUME TypeOK, Sound(pollFds, fds), NEW j, BuildStep(j)
    PROVE  Sound(pollFds', fds')
<1>1. pollFds \in Seq(Entry) /\ fds \in [Fd -> Desc]
  BY DEF TypeOK
<1>2. CASE BuildPage(j)
  BY <1>2 DEF BuildPage, kernel
<1>3. ASSUME NEW g \in FreeFds, NEW k \in Kind \ {"free"}, NEW f, NEW ev \in {"IN", "OUT"},
             fds' = [fds EXCEPT ![g] = Open(k)],
             pollFds' = Want(Append(pollFds, NewEntry(g, ev)), f, "IN")
      PROVE  Sound(pollFds', fds')
  <2>1. g \in Fd /\ fds[g].kind = "free"
    BY DEF FreeFds
  <2>2. Open(k).kind = k
    BY DEF Open, FreeDesc
  <2>3. fds'[g].kind # "free" /\ \A h \in Fd : fds[h].kind # "free" => fds'[h].kind # "free"
    BY <1>1, <1>3, <2>1, <2>2
  <2>4. Append(pollFds, NewEntry(g, ev)) \in Seq(Entry)
    BY <1>1, <2>1, NewEntryType
  <2>5. Sound(Append(pollFds, NewEntry(g, ev)), fds')
    BY <1>1, <2>1, <2>3, SoundAppend
  <2> QED
    BY <1>3, <2>4, <2>5, SoundWant
<1>4. CASE BuildFile(j)
  <2>1. PICK g \in FreeFds :
           /\ fds' = [fds EXCEPT ![g] = Open("fileR")]
           /\ pollFds' = Want(Append(pollFds, NewEntry(g, "IN")), pollFds[j].fd, "IN")
    BY <1>4 DEF BuildFile, IsFree
  <2> QED
    BY <1>3, <2>1 DEF Kind
<1>5. CASE BuildUpload(j)
  <2>1. PICK g \in FreeFds :
           /\ fds' = [fds EXCEPT ![g] = Open("fileW")]
           /\ pollFds' = Want(Append(pollFds, NewEntry(g, "OUT")), pollFds[j].fd, "IN")
    BY <1>5 DEF BuildUpload, IsFree
  <2> QED
    BY <1>3, <2>1 DEF Kind
<1>6. ASSUME NEW body \in BOOLEAN, BuildCgi(j, body)
      PROVE  Sound(pollFds', fds')
  <2> DEFINE added(w, r) == IF body THEN <<NewEntry(r, "IN"), NewEntry(w, "OUT")>>
                                    ELSE <<NewEntry(r, "IN")>>
  <2>1. PICK w \in Fd, r \in Fd, p \in FreshPids :
           /\ IsFree(w, 2) /\ IsFree(r, 3)
           /\ fds' = [fds EXCEPT ![r] = OpenPipe("pipeR", p),
                                 ![w] = IF body THEN OpenPipe("pipeW", p) ELSE FreeDesc]
           /\ pollFds' = Want(pollFds \o added(w, r), pollFds[j].fd, "IN")
    BY <1>6 DEF BuildCgi, LaunchCgi
  <2>2. fds[w].kind = "free" /\ fds[r].kind = "free"
    BY <2>1 DEF IsFree, FreeFds
  <2>3. w # r
    <3>1. /\ Cardinality({g \in FreeFds : g < w}) = 1
          /\ Cardinality({g \in FreeFds : g < r}) = 2
      BY <2>1 DEF IsFree
    <3> QED
      BY <3>1
  <2>4. OpenPipe("pipeR", p).kind = "pipeR" /\ OpenPipe("pipeW", p).kind = "pipeW"
    BY DEF OpenPipe, Open, FreeDesc
  <2> DEFINE one == Append(pollFds, NewEntry(r, "IN"))
             two == Append(one, NewEntry(w, "OUT"))
             d == [fds EXCEPT ![r] = OpenPipe("pipeR", p)]
  <2>5. /\ d[r].kind # "free" /\ d[w].kind = "free"
        /\ \A h \in Fd : fds[h].kind # "free" => d[h].kind # "free"
    BY <1>1, <2>2, <2>4, <2>3
  <2>6. one \in Seq(Entry) /\ two \in Seq(Entry)
    BY <1>1, NewEntryType
  <2> HIDE DEF d
  <2>7. Sound(one, d)
    BY <1>1, <2>2, <2>5, SoundAppend
  <2>8. CASE body
    <3>1. pollFds \o added(w, r) = two
      BY <1>1, <2>8, NewEntryType
    <3>2. fds'[w].kind # "free" /\ \A h \in Fd : d[h].kind # "free" => fds'[h].kind # "free"
      BY <1>1, <2>1, <2>4, <2>8, <2>3 DEF d
    <3> HIDE DEF one
    <3>3. Sound(two, fds')
      BY <2>5, <2>6, <2>7, <3>2, SoundAppend
    <3> HIDE DEF two, added
    <3> QED
      BY <2>1, <2>6, <3>1, <3>3, SoundWant
  <2>9. CASE ~body
    <3>1. pollFds \o added(w, r) = one
      BY <1>1, <2>9, NewEntryType
    <3>2. \A h \in Fd : d[h].kind # "free" => fds'[h].kind # "free"
      BY <1>1, <2>1, <2>2, <2>9, <2>3 DEF d
    <3> HIDE DEF one, added
    <3>3. Sound(one, fds')
      BY <2>6, <2>7, <3>2, SoundMoreOpen
    <3> QED
      BY <2>1, <2>6, <3>1, <3>3, SoundWant
  <2> QED
    BY <2>8, <2>9
<1>7. CASE BuildCgiFails(j)
  <2>1. Open("pipeR").kind = "pipeR" /\ Open("pipeW").kind = "pipeW"
    BY DEF Open, FreeDesc
  <2>2. \A h \in Fd : fds[h].kind # "free" => fds'[h].kind # "free"
    BY <1>7, <2>1 DEF BuildCgiFails
  <2> QED
    BY <1>1, <1>7, <2>2, SoundMoreOpen DEF BuildCgiFails
<1> QED
  BY <1>2, <1>4, <1>5, <1>6, <1>7 DEF BuildStep

LEMMA PlainStepSound ==
    ASSUME TypeOK, Sound(pollFds, fds), NEW j, IsNext(j), PlainStep(j)
    PROVE  Sound(pollFds', fds')
<1> DEFINE f == pollFds[j].fd
<1>1. /\ j \in DOMAIN pollFds /\ f \in Fd
      /\ pollFds \in Seq(Entry) /\ fds \in [Fd -> Desc]
  BY NextEntry DEF TypeOK
<1>2. CASE PlainError(j) \/ ReadGone(j) \/ SendFails(j) \/ SendLast(j)
  BY <1>1, <1>2, CloseClientSound DEF PlainError, ReadGone, SendFails, SendLast
<1>3. CASE Accept(j)
  <2>1. PICK g \in FreeFds :
           /\ fds' = [fds EXCEPT ![f].in = {}, ![g] = Open("sock")]
           /\ pollFds' = Append(pollFds, NewEntry(g, "IN"))
    BY <1>3 DEF Accept, IsFree
  <2>2. g \in Fd /\ fds[g].kind = "free"
    BY DEF FreeFds
  <2>3. Open("sock").kind = "sock"
    BY DEF Open, FreeDesc
  <2>4. fds[f] \in Desc /\ [fds[f] EXCEPT !.in = {}].kind = fds[f].kind
    BY <1>1 DEF Desc
  <2>5. fds'[g].kind # "free" /\ \A h \in Fd : fds[h].kind # "free" => fds'[h].kind # "free"
    BY <1>1, <2>1, <2>2, <2>3, <2>4
  <2>6. Sound(Append(pollFds, NewEntry(g, "IN")), fds')
    BY <1>1, <2>2, <2>5, SoundAppend
  <2> QED
    BY <2>1, <2>6
<1>4. CASE AcceptFails(j) \/ WriteNothing(j) \/ SendSome(j)
  BY <1>4 DEF AcceptFails, WriteNothing, SendSome, kernel
<1>5. CASE ReadData(j)
  <2>1. fds[f] \in Desc /\ [fds[f] EXCEPT !.in = @ \ {"data"}].kind = fds[f].kind
    BY <1>1 DEF Desc
  <2>2. \A h \in Fd : fds'[h].kind = fds[h].kind
    BY <1>1, <1>5, <2>1 DEF ReadData
  <2>3. Sound(pollFds, fds')
    BY <1>1, <2>2, SoundMoreOpen
  <2>4. pollFds' = pollFds \/ pollFds' = Want(pollFds, f, "OUT")
    BY <1>5 DEF ReadData
  <2> QED
    BY <1>1, <2>3, <2>4, SoundWant
<1>6. CASE SendLastKeep(j)
  <2>1. PICK ev \in {"IN", "OUT"} : pollFds' = Want(pollFds, f, ev)
    BY <1>6 DEF SendLastKeep
  <2> QED
    BY <1>1, <1>6, <2>1, SoundWant DEF SendLastKeep, kernel
<1> QED
  BY <1>2, <1>3, <1>4, <1>5, <1>6, BuildStepSound DEF PlainStep, SendStep

LEMMA SweepSound ==
    ASSUME TypeOK, Sound(pollFds, fds), Sweep
    PROVE  Sound(pollFds', fds')
<1>1. ASSUME NEW j \in DOMAIN pollFds, CloseIdle(j)
      PROVE  Sound(pollFds', fds')
  BY <1>1, CloseClientSound DEF CloseIdle
<1>2. CASE EndIdle \/ EndCgi
  BY <1>2 DEF EndIdle, EndCgi, kernel
<1>3. ASSUME NEW c \in Fd, KillLateCgi(c)
      PROVE  Sound(pollFds', fds')
  <2> DEFINE rd == clients[c].rd
             wr == clients[c].wr
             s == ErasePollFd(pollFds, rd)
             t == ErasePollFd(s, wr)
             d == Closed(Closed(fds, {rd}), {wr})
  <2>1. pollFds \in Seq(Entry) /\ fds \in [Fd -> Desc]
    BY DEF TypeOK
  <2>2. s \in Seq(Entry) /\ t \in Seq(Entry)
    BY <2>1, EraseType
  <2>3. Sound(t, d)
    BY <2>1, <2>2, SoundErase
  <2>4. fds' = Closed(fds, {rd, wr} \ {NoFd}) /\ pollFds' = Want(t, c, "OUT")
    BY <1>3 DEF KillLateCgi, OpenPipes
  <2>5. NoFd \notin Fd
    BY SizesAssumption DEF NoFd, Fd
  <2>6. \A g \in Fd : fds'[g] = d[g]
    BY <2>4, <2>5 DEF Closed
  <2> HIDE DEF s, t, d
  <2>7. Sound(t, fds')
    BY <2>2, <2>3, <2>6, SoundMoreOpen
  <2> QED
    BY <2>2, <2>4, <2>7, SoundWant
<1> QED
  BY <1>1, <1>2, <1>3 DEF Sweep

LEMMA PassSound ==
    ASSUME TypeOK, Sound(pollFds, fds), Poll \/ EndPass
    PROVE  Sound(pollFds', fds')
<1>1. \A j \in DOMAIN pollFds : pollFds[j] \in Entry
  BY DEF TypeOK
<1>2. \A e \in Entry : \A R : [e EXCEPT !.revents = R].fd = e.fd
  BY DEF Entry
<1>3. DOMAIN pollFds' = DOMAIN pollFds /\ \A j \in DOMAIN pollFds : pollFds'[j].fd = pollFds[j].fd
  <2>1. CASE Poll
    <3>1. PICK full : pollFds' = [j \in DOMAIN pollFds |->
              [pollFds[j] EXCEPT !.revents =
                  Condition(pollFds[j].fd, j \in full)
                      \cap {pollFds[j].events, "ERR", "HUP", "NVAL"}]]
      BY <2>1 DEF Poll
    <3> QED
      BY <1>1, <1>2, <3>1
  <2>2. CASE EndPass
    BY <1>1, <1>2, <2>2 DEF EndPass
  <2> QED
    BY <2>1, <2>2
<1>4. fds' = fds
  BY DEF Poll, EndPass, kernel
<1> QED
  BY <1>3, <1>4, SoundSameFds

LEMMA OutsideSound ==
    ASSUME TypeOK, Sound(pollFds, fds), Outside
    PROVE  Sound(pollFds', fds')
<1>1. pollFds \in Seq(Entry) /\ fds \in [Fd -> Desc]
  BY DEF TypeOK
<1>2. \A g \in Fd : \A x : /\ [fds[g] EXCEPT !.in = x].kind = fds[g].kind
                           /\ [fds[g] EXCEPT !.held = x].kind = fds[g].kind
  BY <1>1 DEF Desc
<1>3. pollFds' = pollFds
  BY DEF Outside, PeerSends, PeerLeaves, ScriptWrites, ScriptMutes, ScriptEnds,
         QuietTooLong, CgiTooLong, ServerUnchanged
<1>4. ASSUME NEW f \in Fd, PeerSends(f)
      PROVE  \A g \in Fd : fds'[g].kind = fds[g].kind
  BY <1>1, <1>2, <1>4 DEF PeerSends
<1>5. ASSUME NEW f \in Fd, NEW how \in {"fin", "rst"}, PeerLeaves(f, how)
      PROVE  \A g \in Fd : fds'[g].kind = fds[g].kind
  <2>1. PICK x : fds' = [fds EXCEPT ![f].in = x]
    BY <1>5 DEF PeerLeaves
  <2> QED
    BY <1>1, <1>2, <2>1
<1>6. ASSUME NEW f \in Fd, ScriptWrites(f)
      PROVE  \A g \in Fd : fds'[g].kind = fds[g].kind
  BY <1>1, <1>2, <1>6 DEF ScriptWrites
<1>7. ASSUME NEW f, QuietTooLong(f) \/ CgiTooLong(f)
      PROVE  \A g \in Fd : fds'[g].kind = fds[g].kind
  BY <1>7 DEF QuietTooLong, CgiTooLong, kernel
<1>8. ASSUME NEW p, ScriptMutes(p) \/ ScriptEnds(p)
      PROVE  \A g \in Fd : fds'[g].kind = fds[g].kind
  BY <1>8 DEF ScriptMutes, ScriptEnds
<1>9. \A g \in Fd : fds'[g].kind = fds[g].kind
  BY <1>4, <1>5, <1>6, <1>7, <1>8 DEF Outside
<1> QED
  BY <1>1, <1>3, <1>9, SoundMoreOpen

\* However descriptors are opened, closed and reused while the poll set is
\* being walked, whatever the maps say of numbers that were closed, poll() is
\* never given a closed descriptor or one descriptor twice.  TypeOK makes it
\* inductive: it keeps every erased index within the poll set.
THEOREM PollSetIsSound == Spec => []PollSetSound
<1>1. PollSetSound <=> Sound(pollFds, fds)
  BY DEF PollSetSound, Sound
<1>2. ASSUME Init
      PROVE  Sound(pollFds, fds)
  <2>1. Listen \subseteq Fd /\ \A j \in Listen : NewEntry(j, "IN").fd = j
    BY SizesAssumption DEF Listen, Fd, NewEntry
  <2>2. Open("listen").kind = "listen"
    BY DEF Open, FreeDesc
  <2> QED
    BY <1>2, <2>1, <2>2 DEF Init, Sound
<1>3. ASSUME TypeOK, Sound(pollFds, fds), [Next]_vars
      PROVE  Sound(pollFds', fds')
  <2>1. CASE Dispatch
    BY <1>3, <2>1, CgiStepSound, FileStepSound, PlainStepSound DEF Dispatch
  <2>2. CASE Loop
    BY <1>3, <2>1, <2>2, PassSound, SweepSound DEF Loop
  <2>3. CASE Outside
    BY <1>3, <2>3, OutsideSound
  <2>4. CASE UNCHANGED vars
    BY <1>3, <2>4 DEF vars
  <2> QED
    BY <1>3, <2>2, <2>3, <2>4 DEF Next
<1>4. PollSetSound' <=> Sound(pollFds', fds')
  BY DEF PollSetSound, Sound
<1>5. Init => PollSetSound
  BY <1>1, <1>2
<1>6. TypeOK /\ PollSetSound /\ [Next]_vars => PollSetSound'
  BY <1>1, <1>3, <1>4
<1> QED
  BY <1>5, <1>6, TypeCorrect, PTL DEF Spec

-----------------------------------------------------------------------------
(* One dispatch for each reported event *)

\* What of poll set s is left to dispatch from loop index k on: the descriptors
\* with what poll() reported on each.
Left(s, k) == {<<s[m].fd, s[m].revents>> : m \in {n \in k..Len(s) : s[n].revents # {}}}

LEMMA LeftFds ==
    ASSUME NEW s, NEW k
    PROVE  {x[1] : x \in Left(s, k)} = {s[m].fd : m \in {n \in k..Len(s) : s[n].revents # {}}}
<1> DEFINE L == {n \in k..Len(s) : s[n].revents # {}}
           fdOf(m) == s[m].fd
           revents(m) == s[m].revents
<1>1. Left(s, k) = {<<fdOf(m), revents(m)>> : m \in L}
  BY DEF Left
<1> HIDE DEF L, fdOf, revents
<1>2. \A m \in L : <<fdOf(m), revents(m)>> \in Left(s, k) /\ <<fdOf(m), revents(m)>>[1] = fdOf(m)
  BY <1>1
<1>3. \A x \in Left(s, k) : \E m \in L : x[1] = fdOf(m)
  BY <1>1
<1>4. {x[1] : x \in Left(s, k)} = {fdOf(m) : m \in L}
  BY <1>2, <1>3
<1> QED
  BY <1>4 DEF L, fdOf

LEMMA LeftOfNext ==
    ASSUME TypeOK, Sound(pollFds, fds), NEW j, IsNext(j)
    PROVE  /\ <<pollFds[j].fd, pollFds[j].revents>> \in Left(pollFds, i)
           /\ Left(pollFds, j + 1) = {x \in Left(pollFds, i) : x[1] # pollFds[j].fd}
<1>1. i \in Nat \ {0} /\ Len(pollFds) \in Nat /\ DOMAIN pollFds = 1..Len(pollFds)
  BY DEF TypeOK
<1>2. j \in i..Len(pollFds) /\ pollFds[j].revents # {}
  BY DEF IsNext
<1>3. \A n \in i..Len(pollFds) : pollFds[n].revents # {} => n = j \/ n \in (j + 1)..Len(pollFds)
  BY <1>1, <1>2 DEF IsNext
<1>4. \A n \in (j + 1)..Len(pollFds) : n \in i..Len(pollFds) /\ pollFds[n].fd # pollFds[j].fd
  BY <1>1, <1>2 DEF Sound
<1> QED
  BY <1>2, <1>3, <1>4 DEF Left

LEMMA LeftWant ==
    ASSUME NEW s \in Seq(Entry), NEW f, NEW ev \in {"IN", "OUT"}, NEW k \in Nat \ {0}
    PROVE  Left(Want(s, f, ev), k) = Left(s, k)
<1> DEFINE t == Want(s, f, ev)
<1>1. \A n \in DOMAIN s : s[n] \in Entry
  OBVIOUS
<1>2. \A n \in DOMAIN s : t[n].revents = s[n].revents /\ t[n].fd = s[n].fd
  BY <1>1 DEF Want, Entry
<1>3. t \in Seq(Entry) /\ DOMAIN t = DOMAIN s
  BY WantProperties
<1> HIDE DEF t
<1>4. Len(t) = Len(s) /\ \A n \in k..Len(s) : n \in DOMAIN s
  BY <1>3
<1>5. {n \in k..Len(t) : t[n].revents # {}} = {n \in k..Len(s) : s[n].revents # {}}
  BY <1>2, <1>4
<1>6. Left(t, k) = Left(s, k)
  BY <1>2, <1>4, <1>5 DEF Left
<1> QED
  BY <1>6 DEF t

LEMMA LeftRemove ==
    ASSUME NEW s \in Seq(Entry), NEW j \in DOMAIN s
    PROVE  Left(RemoveAt(s, j), j) = Left(s, j + 1)
<1> DEFINE t == RemoveAt(s, j)
<1>1. j \in 1..Len(s) /\ Len(s) \in Nat
  OBVIOUS
<1>2. Len(t) = Len(s) - 1 /\ \A n \in j..Len(t) : t[n] = s[n + 1]
  BY <1>1, RemoveAtProperties
<1> HIDE DEF t
<1>3. \A n \in j..Len(t) : n + 1 \in (j + 1)..Len(s)
  BY <1>1, <1>2
<1>4. \A n \in (j + 1)..Len(s) : n - 1 \in j..Len(t) /\ t[n - 1] = s[n]
  BY <1>1, <1>2
<1>5. Left(t, j) = Left(s, j + 1)
  BY <1>2, <1>3, <1>4, SMTT(30) DEF Left
<1> QED
  BY <1>5 DEF t

LEMMA LeftAppend ==
    ASSUME NEW s \in Seq(Entry), NEW f \in Fd, NEW ev \in {"IN", "OUT"}, NEW k \in Nat \ {0}
    PROVE  Left(Append(s, NewEntry(f, ev)), k) = Left(s, k)
<1> DEFINE t == Append(s, NewEntry(f, ev))
<1>1. /\ Len(s) \in Nat /\ Len(t) = Len(s) + 1
      /\ \A n \in 1..Len(s) : t[n] = s[n]
      /\ t[Len(s) + 1] = NewEntry(f, ev)
  BY NewEntryType
<1>2. NewEntry(f, ev).revents = {}
  BY DEF NewEntry
<1> HIDE DEF t
<1>3. \A n \in k..Len(t) : n \in k..Len(s) \/ n = Len(s) + 1
  BY <1>1
<1>4. {n \in k..Len(t) : t[n].revents # {}} = {n \in k..Len(s) : s[n].revents # {}}
  BY <1>1, <1>2, <1>3
<1>5. Left(t, k) = Left(s, k)
  BY <1>1, <1>4, SMTT(30) DEF Left
<1> QED
  BY <1>5 DEF t

LEMMA CgiStepTakes ==
    ASSUME TypeOK, NEW j, IsNext(j), CgiStep(j)
    PROVE  pc' = pc /\ Left(pollFds', i') = Left(pollFds, j + 1)
<1> DEFINE f == pollFds[j].fd
           wanted == Want(pollFds, cgiToClient[f], "OUT")
<1>1. j \in DOMAIN pollFds /\ pollFds \in Seq(Entry) /\ j + 1 \in Nat \ {0}
  BY NextEntry DEF TypeOK
<1>2. wanted \in Seq(Entry) /\ j \in DOMAIN wanted
  BY <1>1, WantProperties
<1>3. Left(wanted, j + 1) = Left(pollFds, j + 1)
  BY <1>1, LeftWant
<1> HIDE DEF wanted
<1>4. Left(RemoveAt(wanted, j), j) = Left(pollFds, j + 1)
  BY <1>2, <1>3, LeftRemove
<1>5. Left(RemoveAt(pollFds, j), j) = Left(pollFds, j + 1)
  BY <1>1, LeftRemove
<1>6. CASE CgiPipeError(j)
  <2>1. i' = j /\ pc' = pc
    BY <1>6 DEF CgiPipeError, Erased
  <2>2. pollFds' = RemoveAt(wanted, j) \/ pollFds' = RemoveAt(pollFds, j)
    BY <1>6 DEF CgiPipeError, wanted
  <2> QED
    BY <1>4, <1>5, <2>1, <2>2
<1>7. CASE CgiWriteSome(j) \/ CgiReadChunk(j)
  BY <1>7 DEF CgiWriteSome, CgiReadChunk, Done
<1>8. CASE CgiWriteEnd(j)
  BY <1>5, <1>8 DEF CgiWriteEnd, Erased
<1>9. CASE CgiReadEnd(j)
  BY <1>4, <1>9 DEF CgiReadEnd, Erased, wanted
<1> QED
  BY <1>6, <1>7, <1>8, <1>9 DEF CgiStep

LEMMA FileStepTakes ==
    ASSUME TypeOK, NEW j, IsNext(j), FileStep(j)
    PROVE  pc' = pc /\ Left(pollFds', i') = Left(pollFds, j + 1)
<1> DEFINE wanted == Want(pollFds, fileToClient[pollFds[j].fd], "OUT")
<1>1. j \in DOMAIN pollFds /\ pollFds \in Seq(Entry) /\ j + 1 \in Nat \ {0}
  BY NextEntry DEF TypeOK
<1>2. wanted \in Seq(Entry) /\ j \in DOMAIN wanted
  BY <1>1, WantProperties
<1>3. Left(wanted, j + 1) = Left(pollFds, j + 1)
  BY <1>1, LeftWant
<1> HIDE DEF wanted
<1>4. Left(RemoveAt(wanted, j), j) = Left(pollFds, j + 1)
  BY <1>2, <1>3, LeftRemove
<1>5. CASE FileError(j)
  BY <1>4, <1>5 DEF FileError, Erased, wanted
<1>6. CASE FileEnd(j)
  BY <1>4, <1>6 DEF FileEnd, Erased, wanted
<1>7. CASE FileSome(j)
  BY <1>7 DEF FileSome, Done
<1> QED
  BY <1>5, <1>6, <1>7 DEF FileStep

LEMMA BuildStepTakes ==
    ASSUME TypeOK, NEW j, IsNext(j), BuildStep(j)
    PROVE  /\ pc' = pc
           /\ \/ Left(pollFds', i') = Left(pollFds, i)
              \/ Left(pollFds', i') = Left(pollFds, j + 1)
<1>1. pollFds \in Seq(Entry) /\ j + 1 \in Nat \ {0}
  BY NextEntry DEF TypeOK
<1>2. CASE BuildPage(j) \/ BuildCgiFails(j)
  BY <1>2 DEF BuildPage, BuildCgiFails
<1>3. ASSUME NEW f, NEW g \in Fd, NEW ev \in {"IN", "OUT"}
      PROVE  Left(Want(Append(pollFds, NewEntry(g, ev)), f, "IN"), j + 1) = Left(pollFds, j + 1)
  <2> DEFINE longer == Append(pollFds, NewEntry(g, ev))
  <2>1. longer \in Seq(Entry)
    BY <1>1, NewEntryType
  <2>2. Left(longer, j + 1) = Left(pollFds, j + 1)
    BY <1>1, LeftAppend
  <2> HIDE DEF longer
  <2>3. Left(Want(longer, f, "IN"), j + 1) = Left(longer, j + 1)
    BY <1>1, <2>1, LeftWant
  <2> QED
    BY <2>2, <2>3 DEF longer
<1>4. CASE BuildFile(j)
  <2>1. PICK g \in Fd : pollFds' = Want(Append(pollFds, NewEntry(g, "IN")), pollFds[j].fd, "IN")
    BY <1>4 DEF BuildFile
  <2>2. i' = j + 1 /\ pc' = pc
    BY <1>4 DEF BuildFile, Done
  <2> QED
    BY <1>3, <2>1, <2>2
<1>5. CASE BuildUpload(j)
  <2>1. PICK g \in Fd : pollFds' = Want(Append(pollFds, NewEntry(g, "OUT")), pollFds[j].fd, "IN")
    BY <1>5 DEF BuildUpload
  <2>2. i' = j + 1 /\ pc' = pc
    BY <1>5 DEF BuildUpload, Done
  <2> QED
    BY <1>3, <2>1, <2>2
<1>6. ASSUME NEW body \in BOOLEAN, BuildCgi(j, body)
      PROVE  pc' = pc /\ Left(pollFds', i') = Left(pollFds, j + 1)
  <2> DEFINE added(w, r) == IF body THEN <<NewEntry(r, "IN"), NewEntry(w, "OUT")>>
                                    ELSE <<NewEntry(r, "IN")>>
  <2>1. PICK w \in Fd, r \in Fd :
           pollFds' = Want(pollFds \o added(w, r), pollFds[j].fd, "IN")
    BY <1>6 DEF BuildCgi
  <2>2. i' = j + 1 /\ pc' = pc
    BY <1>6 DEF BuildCgi, Done
  <2> DEFINE one == Append(pollFds, NewEntry(r, "IN"))
             two == Append(one, NewEntry(w, "OUT"))
  <2>3. one \in Seq(Entry) /\ two \in Seq(Entry)
    BY <1>1, NewEntryType
  <2>4. pollFds \o added(w, r) = two \/ pollFds \o added(w, r) = one
    BY <1>1, NewEntryType
  <2>5. Left(one, j + 1) = Left(pollFds, j + 1)
    BY <1>1, LeftAppend
  <2> HIDE DEF one, added
  <2>6. Left(two, j + 1) = Left(one, j + 1)
    BY <1>1, <2>3, LeftAppend
  <2> HIDE DEF two
  <2>7. pollFds' = Want(two, pollFds[j].fd, "IN") \/ pollFds' = Want(one, pollFds[j].fd, "IN")
    BY <2>1, <2>4
  <2>8. /\ Left(Want(two, pollFds[j].fd, "IN"), j + 1) = Left(two, j + 1)
        /\ Left(Want(one, pollFds[j].fd, "IN"), j + 1) = Left(one, j + 1)
    BY <1>1, <2>3, LeftWant
  <2> QED
    BY <2>2, <2>5, <2>6, <2>7, <2>8
<1> QED
  BY <1>2, <1>4, <1>5, <1>6 DEF BuildStep

LEMMA PlainStepTakes ==
    ASSUME TypeOK, NEW j, IsNext(j), PlainStep(j)
    PROVE  /\ pc' = pc
           /\ \/ Left(pollFds', i') = Left(pollFds, i)
              \/ Left(pollFds', i') = Left(pollFds, j + 1)
<1> DEFINE f == pollFds[j].fd
<1>1. j \in DOMAIN pollFds /\ pollFds \in Seq(Entry) /\ j + 1 \in Nat \ {0}
  BY NextEntry DEF TypeOK
<1>2. CASE PlainError(j) \/ ReadGone(j) \/ SendFails(j) \/ SendLast(j)
  <2>1. pollFds' = RemoveAt(pollFds, j)
    BY <1>2 DEF PlainError, ReadGone, SendFails, SendLast, CloseClient
  <2>2. i' = j /\ pc' = pc
    BY <1>2 DEF PlainError, ReadGone, SendFails, SendLast, Erased
  <2> QED
    BY <1>1, <2>1, <2>2, LeftRemove
<1>3. CASE Accept(j)
  <2>1. PICK g \in Fd : pollFds' = Append(pollFds, NewEntry(g, "IN"))
    BY <1>3 DEF Accept
  <2>2. i' = j + 1 /\ pc' = pc
    BY <1>3 DEF Accept, Done
  <2> QED
    BY <1>1, <2>1, <2>2, LeftAppend
<1>4. CASE AcceptFails(j) \/ WriteNothing(j) \/ SendSome(j)
  BY <1>4 DEF AcceptFails, WriteNothing, SendSome, Done
<1>5. CASE ReadData(j)
  <2>1. pollFds' = pollFds \/ pollFds' = Want(pollFds, f, "OUT")
    BY <1>5 DEF ReadData
  <2>2. i' = j + 1 /\ pc' = pc
    BY <1>5 DEF ReadData, Done
  <2> QED
    BY <1>1, <2>1, <2>2, LeftWant
<1>6. CASE SendLastKeep(j)
  <2>1. PICK ev \in {"IN", "OUT"} : pollFds' = Want(pollFds, f, ev)
    BY <1>6 DEF SendLastKeep
  <2>2. i' = j + 1 /\ pc' = pc
    BY <1>6 DEF SendLastKeep, Done
  <2> QED
    BY <1>1, <2>1, <2>2, LeftWant
<1> QED
  BY <1>2, <1>3, <1>4, <1>5, <1>6, BuildStepTakes DEF PlainStep, SendStep

\* Whatever a handler erases and appends under the loop's index, every event
\* poll() reported is dispatched exactly once in its pass.  The poll set must be
\* sound: were a descriptor polled twice, one dispatch would not be enough.
THEOREM DispatchedOnce == Spec => OncePerPass
<1>1. /\ Reported = {x[1] : x \in Left(pollFds, i)}
      /\ Reported' = {x[1] : x \in Left(pollFds', i')}
  BY LeftFds DEF Reported
<1>2. PollSetSound => Sound(pollFds, fds)
  BY DEF PollSetSound, Sound
<1> DEFINE A == /\ pc = "dispatch" /\ pc' = "dispatch" =>
                      Reported' = Reported \/ \E f \in Reported : Reported' = Reported \ {f}
                /\ pc = "dispatch" /\ pc' # "dispatch" => Reported = {}
<1>3. ASSUME TypeOK, PollSetSound, Next
      PROVE  A
  <2>1. CASE Dispatch
    <3>1. PICK j \in DOMAIN pollFds : IsNext(j) /\ (CgiStep(j) \/ FileStep(j) \/ PlainStep(j))
      BY <2>1 DEF Dispatch
    <3>2. pc' = pc
      BY <1>3, <3>1, CgiStepTakes, FileStepTakes, PlainStepTakes
    <3>3. \/ Left(pollFds', i') = Left(pollFds, i)
          \/ Left(pollFds', i') = Left(pollFds, j + 1)
      BY <1>3, <3>1, CgiStepTakes, FileStepTakes, PlainStepTakes
    <3>4. /\ <<pollFds[j].fd, pollFds[j].revents>> \in Left(pollFds, i)
          /\ Left(pollFds, j + 1) = {x \in Left(pollFds, i) : x[1] # pollFds[j].fd}
      BY <1>2, <1>3, <3>1, LeftOfNext
    <3>5. pollFds[j].fd \in Reported
      BY <1>1, <3>4
    <3>6. Reported' = Reported \/ Reported' = Reported \ {pollFds[j].fd}
      BY <1>1, <3>3, <3>4
    <3> QED
      BY <3>2, <3>5, <3>6
  <2>2. CASE EndPass
    BY <1>1, <2>2 DEF EndPass, Left
  <2>3. CASE Poll \/ Sweep
    BY <2>3 DEF Poll, Sweep, CloseIdle, EndIdle, KillLateCgi, EndCgi
  <2>4. CASE Outside
    <3>1. pollFds' = pollFds /\ pc' = pc /\ i' = i
      BY <2>4 DEF Outside, PeerSends, PeerLeaves, ScriptWrites, ScriptMutes, ScriptEnds,
                  QuietTooLong, CgiTooLong, ServerUnchanged
    <3> QED
      BY <1>1, <3>1
  <2> QED
    BY <1>3, <2>1, <2>2, <2>3, <2>4 DEF Next, Loop
<1>4. TypeOK /\ PollSetSound /\ [Next]_vars => [A]_vars
  BY <1>3
<1> QED
  BY <1>4, TypeCorrect, PollSetIsSound, PTL DEF Spec, OncePerPass
-----------------------------------------------------------------------------
(* Who owns a CGI child.  The timeout sends SIGKILL to, and waits for, the *)
(* number it finds in a Client (Server.cpp:456).  That this is always a    *)
(* child not yet waited for, and nobody else's, is an invariant over every *)
(* path a CGI can end by, and over the Clients that come and go under      *)
(* reused descriptor numbers meanwhile.                                    *)

\* Clients cs and children ch: only a CGI client has a stdout pipe to end its
\* CGI by, and each has a child of its own.
Owns(cs, ch) ==
    \A c \in Fd : cs[c] # NoClient =>
        /\ cs[c].rd # NoFd => cs[c].isCgi
        /\ cs[c].isCgi =>
              /\ cs[c].pid \in Pid
              /\ ch[cs[c].pid] # "none"
              /\ \A d \in Fd : cs[d] # NoClient /\ cs[d].isCgi /\ cs[d].pid = cs[c].pid => d = c

\* A client with no CGI, and one that has the CGI of another.
NoCgi(x) == x.isCgi = FALSE /\ x.rd = NoFd
SameCgi(x, y) == x.isCgi = y.isCgi /\ x.rd = y.rd /\ x.pid = y.pid

\* From clients old to new, CGIs may end but none starts or moves.
Starts(new, old) ==
    {c \in Fd : ~(new[c] = NoClient \/ NoCgi(new[c]) \/ (old[c] # NoClient /\ SameCgi(new[c], old[c])))}

-----------------------------------------------------------------------------
(* What is enough to keep it *)

\* No CGI starts, and no child is waited for.
LEMMA OwnsNoneWaitedFor ==
    ASSUME NEW old, NEW new, NEW ch, NEW ch2, Owns(old, ch), Starts(new, old) = {},
           \A p \in Pid : ch[p] # "none" => ch2[p] # "none"
    PROVE  Owns(new, ch2)
<1>1. \A c \in Fd : new[c] # NoClient /\ ~NoCgi(new[c]) =>
                        old[c] # NoClient /\ SameCgi(new[c], old[c])
  BY DEF Starts
<1>2. \A c \in Fd : new[c] # NoClient /\ new[c].isCgi =>
                        old[c] # NoClient /\ old[c].isCgi /\ new[c].pid = old[c].pid
  BY <1>1 DEF NoCgi, SameCgi
<1>3. ASSUME NEW c \in Fd, new[c] # NoClient, new[c].rd # NoFd
      PROVE  new[c].isCgi
  BY <1>1, <1>3 DEF NoCgi, SameCgi, Owns
<1>4. ASSUME NEW c \in Fd, new[c] # NoClient, new[c].isCgi
      PROVE  /\ new[c].pid \in Pid
             /\ ch2[new[c].pid] # "none"
             /\ \A d \in Fd : new[d] # NoClient /\ new[d].isCgi /\ new[d].pid = new[c].pid => d = c
  BY <1>2, <1>4 DEF Owns
<1> QED
  BY <1>3, <1>4 DEF Owns

\* A CGI client's child is waited for, and it is a CGI client no more.
LEMMA OwnsWaitedFor ==
    ASSUME NEW old, NEW new, NEW ch, NEW ch2, Owns(old, ch), Starts(new, old) = {},
           NEW c \in Fd, old[c] # NoClient, old[c].isCgi, NoCgi(new[c]),
           \A p \in Pid : p # old[c].pid /\ ch[p] # "none" => ch2[p] # "none"
    PROVE  Owns(new, ch2)
<1>1. \A d \in Fd : new[d] # NoClient /\ ~NoCgi(new[d]) =>
                        old[d] # NoClient /\ SameCgi(new[d], old[d])
  BY DEF Starts
<1>2. \A d \in Fd : new[d] # NoClient /\ new[d].isCgi =>
                        /\ old[d] # NoClient /\ old[d].isCgi /\ new[d].pid = old[d].pid
                        /\ d # c
  BY <1>1 DEF NoCgi, SameCgi
<1>3. ASSUME NEW d \in Fd, new[d] # NoClient, new[d].rd # NoFd
      PROVE  new[d].isCgi
  BY <1>1, <1>3 DEF NoCgi, SameCgi, Owns
<1>4. ASSUME NEW d \in Fd, new[d] # NoClient, new[d].isCgi
      PROVE  /\ new[d].pid \in Pid
             /\ ch2[new[d].pid] # "none"
             /\ \A g \in Fd : new[g] # NoClient /\ new[g].isCgi /\ new[g].pid = new[d].pid => g = d
  <2>1. /\ old[d].pid \in Pid /\ ch[old[d].pid] # "none" /\ new[d].pid = old[d].pid
        /\ old[d].pid # old[c].pid
    BY <1>2, <1>4 DEF Owns
  <2> QED
    BY <1>2, <1>4, <2>1 DEF Owns
<1> QED
  BY <1>3, <1>4 DEF Owns

\* The default Clients that _clients[...] inserts have no CGI.
LEMMA LookupsStart ==
    ASSUME TypeOK, NEW e \in Entry
    PROVE  Starts(WithLookups(e), clients) = {}
<1>1. NoCgi(NewClient)
  BY DEF NoCgi, NewClient
<1>2. \A c \in Fd : WithLookups(e)[c] = NewClient \/ WithLookups(e)[c] = clients[c]
  BY DEF WithLookups
<1> QED
  BY <1>1, <1>2 DEF Starts, SameCgi

\* One client is removed, ends its CGI, or keeps it.
LEMMA UpdateStarts ==
    ASSUME NEW old, NEW cs \in [Fd -> Client \cup {NoClient}], Starts(cs, old) = {},
           NEW c \in Fd, NEW x,
           x = NoClient \/ NoCgi(x) \/ (cs[c] # NoClient /\ SameCgi(x, cs[c]))
    PROVE  Starts([cs EXCEPT ![c] = x], old) = {}
<1>1. \A d \in Fd : cs[d] = NoClient \/ NoCgi(cs[d]) \/ (old[d] # NoClient /\ SameCgi(cs[d], old[d]))
  BY DEF Starts
<1>2. x = NoClient \/ NoCgi(x) \/ (old[c] # NoClient /\ SameCgi(x, old[c]))
  BY <1>1 DEF NoCgi, SameCgi
<1> QED
  BY <1>1, <1>2 DEF Starts

LEMMA RespondingCgi ==
    ASSUME NEW c \in Client, NEW what \in Answer
    PROVE  SameCgi(Responding(c, what), c) /\ NoCgi(CgiDone(c, what))
<1>1. Responding(c, what) \in Client
  BY RespondingType
<1>2. SameCgi(Responding(c, what), c)
  BY DEF SameCgi, Responding, Client
<1>3. \A d \in Client : NoCgi([d EXCEPT !.rd = NoFd, !.isCgi = FALSE])
  BY DEF NoCgi, Client
<1> QED
  BY <1>1, <1>2, <1>3 DEF CgiDone

-----------------------------------------------------------------------------
(* One lemma per group of actions *)

LEMMA CgiStepOwns ==
    ASSUME TypeOK, Owns(clients, child), NEW j, IsNext(j), CgiStep(j)
    PROVE  Owns(clients', child')
<1> DEFINE e == pollFds[j]
           f == e.fd
           c == cgiToClient[f]
           cs == WithLookups(e)
<1>1. e \in Entry /\ f \in Fd
  BY NextEntry
<1>2. /\ cs \in [Fd -> Client \cup {NoClient}]
      /\ \A g \in Fd : clients[g] # NoClient => cs[g] = clients[g]
      /\ \A g \in LookedUp(e) : g \in Fd => cs[g] \in Client
  BY <1>1, LookupsType
<1>3. Branch(e) \in {"cgiError", "cgiWrite", "cgiRead"}
  BY DEF CgiStep, CgiPipeError, CgiWriteSome, CgiWriteEnd, CgiReadChunk, CgiReadEnd, Takes
<1>4. c \in Fd /\ c \in LookedUp(e) /\ cs[c] \in Client
  BY <1>1, <1>2, <1>3, CgiBranch
<1>5. Branch(e) # "cgiError" => clients[c] # NoClient /\ clients[c] \in Client
  BY <1>1, <1>3, <1>4, CgiBranch, HolderIsClient
<1>6. Starts(cs, clients) = {} /\ Starts(clients, clients) = {}
  BY <1>1, LookupsStart DEF Starts, SameCgi
<1>7. clients \in [Fd -> Client \cup {NoClient}]
  BY DEF TypeOK
<1>8. f # NoFd
  BY <1>1, SizesAssumption DEF Fd, NoFd
<1>9. CASE CgiPipeError(j) /\ f = cs[c].rd
  <2>0. PICK s \in KeptSent(cs[c].sent) :
            clients' = [cs EXCEPT ![c] = [CgiDone(@, "error") EXCEPT !.sent = s]]
    BY <1>9 DEF CgiPipeError
  <2> DEFINE x == [CgiDone(cs[c], "error") EXCEPT !.sent = s]
  <2>1. clients' = [cs EXCEPT ![c] = x]
    BY <2>0
  <2>2. NoCgi(x)
    <3>1. \A d \in Client : \A t : NoCgi(d) => NoCgi([d EXCEPT !.sent = t])
      BY DEF NoCgi, Client
    <3>2. CgiDone(cs[c], "error") \in Client /\ NoCgi(CgiDone(cs[c], "error"))
      BY <1>4, RespondingCgi, RespondingType DEF Answer
    <3> QED
      BY <3>1, <3>2
  <2>3. Starts(clients', clients) = {} /\ NoCgi(clients'[c])
    BY <1>2, <1>4, <1>6, <2>1, <2>2, UpdateStarts
  <2>4. clients[c] # NoClient /\ clients[c] = cs[c]
    <3>1. cs[c] = clients[c] \/ cs[c] = NewClient
      BY <1>4 DEF WithLookups
    <3>2. NewClient.rd = NoFd
      BY DEF NewClient
    <3> QED
      BY <1>2, <1>4, <1>8, <1>9, <3>1, <3>2 DEF WithLookups
  <2>5. clients[c].isCgi
    BY <1>4, <1>8, <1>9, <2>4 DEF Owns
  <2>6. \A p \in Pid : p # clients[c].pid => child'[p] = child[p]
    BY <1>9, <2>4 DEF CgiPipeError
  <2> QED
    BY <1>4, <2>3, <2>4, <2>5, <2>6, OwnsWaitedFor
<1>10. CASE CgiPipeError(j) /\ f # cs[c].rd
  <2>1. clients' = cs /\ child' = child
    BY <1>10 DEF CgiPipeError, kernel
  <2> QED
    BY <1>6, <2>1, OwnsNoneWaitedFor
<1>11. CASE CgiWriteSome(j)
  <2>1. SameCgi([clients[c] EXCEPT !.left = @ - 1], clients[c])
    BY <1>5, <1>11 DEF CgiWriteSome, Takes, SameCgi, Client
  <2>2. clients' = [clients EXCEPT ![c] = [clients[c] EXCEPT !.left = @ - 1]] /\ child' = child
    BY <1>4, <1>7, <1>11 DEF CgiWriteSome, kernel
  <2>3. clients[c] # NoClient
    BY <1>5, <1>11 DEF CgiWriteSome, Takes
  <2> HIDE DEF c
  <2>4. Starts(clients', clients) = {}
    BY <1>4, <1>6, <1>7, <2>1, <2>2, <2>3, UpdateStarts
  <2> QED
    BY <1>4, <2>2, <2>4, OwnsNoneWaitedFor
<1>12. CASE CgiWriteEnd(j)
  <2>1. SameCgi([clients[c] EXCEPT !.wr = NoFd], clients[c])
    BY <1>5, <1>12 DEF CgiWriteEnd, Takes, SameCgi, Client
  <2>2. clients' = [clients EXCEPT ![c] = [clients[c] EXCEPT !.wr = NoFd]] /\ child' = child
    BY <1>4, <1>7, <1>12 DEF CgiWriteEnd
  <2>3. clients[c] # NoClient
    BY <1>5, <1>12 DEF CgiWriteEnd, Takes
  <2> HIDE DEF c
  <2>4. Starts(clients', clients) = {}
    BY <1>4, <1>6, <1>7, <2>1, <2>2, <2>3, UpdateStarts
  <2> QED
    BY <1>4, <2>2, <2>4, OwnsNoneWaitedFor
<1>13. CASE CgiReadChunk(j)
  BY <1>13 DEF CgiReadChunk
<1>14. CASE CgiReadEnd(j)
  <2>1. PICK what \in Answer : clients' = [clients EXCEPT ![c] = CgiDone(@, what)]
    BY <1>14 DEF CgiReadEnd, Answer
  <2>2. clients[c] # NoClient /\ clients[c] \in Client /\ f = clients[c].rd
    <3>1. Branch(e) = "cgiRead"
      BY <1>14 DEF CgiReadEnd, Takes
    <3>2. f = ClientOf(c).rd
      BY <1>1, <3>1, CgiBranch
    <3>3. c # NoFd
      BY <1>4, SizesAssumption DEF Fd, NoFd
    <3> QED
      BY <1>5, <3>1, <3>2, <3>3 DEF ClientOf
  <2>3. Starts(clients', clients) = {} /\ NoCgi(clients'[c])
    BY <1>4, <1>6, <1>7, <2>1, <2>2, RespondingCgi, UpdateStarts
  <2>4. clients[c].isCgi
    BY <1>4, <1>8, <2>2 DEF Owns
  <2>5. \A p \in Pid : p # clients[c].pid => child'[p] = child[p]
    BY <1>14 DEF CgiReadEnd, TypeOK
  <2> QED
    BY <1>4, <2>2, <2>3, <2>4, <2>5, OwnsWaitedFor
<1> QED
  BY <1>9, <1>10, <1>11, <1>12, <1>13, <1>14 DEF CgiStep

LEMMA FileStepOwns ==
    ASSUME TypeOK, Owns(clients, child), NEW j, IsNext(j), FileStep(j)
    PROVE  Owns(clients', child')
<1> DEFINE e == pollFds[j]
           f == e.fd
           c == fileToClient[f]
           cs == WithLookups(e)
<1>1. e \in Entry /\ f \in Fd
  BY NextEntry
<1>2. /\ cs \in [Fd -> Client \cup {NoClient}]
      /\ \A g \in LookedUp(e) : g \in Fd => cs[g] \in Client
  BY <1>1, LookupsType
<1>3. Branch(e) \in {"fileError", "fileRead", "fileWrite"}
  BY DEF FileStep, FileError, FileSome, FileEnd, Takes
<1>4. c \in Fd /\ cs[c] \in Client
  BY <1>1, <1>2, <1>3, FileBranch
<1>5. cs[c] # NoClient
  <2>1. clients[c] # NoClient \/ cs[c] = NewClient
    BY <1>1, <1>3, <1>4, FileBranch DEF WithLookups
  <2>2. NewClient # NoClient
    <3>1. DOMAIN NewClient # DOMAIN NoClient
      BY DEF NewClient, NoClient
    <3> QED
      BY <3>1
  <2> QED
    BY <1>4, <2>1, <2>2 DEF WithLookups
<1>6. Starts(cs, clients) = {}
  BY <1>1, LookupsStart
<1>7. child' = child
  BY DEF FileStep, FileError, FileSome, FileEnd, kernel
<1>8. ASSUME NEW x, SameCgi(x, cs[c]), clients' = [cs EXCEPT ![c] = x]
      PROVE  Owns(clients', child')
  <2>1. Starts(clients', clients) = {}
    BY <1>2, <1>4, <1>5, <1>6, <1>8, UpdateStarts
  <2> QED
    BY <1>7, <2>1, OwnsNoneWaitedFor
<1>9. \A what \in Answer : SameCgi(Responding(cs[c], what), cs[c]) /\ Responding(cs[c], what) \in Client
  BY <1>4, RespondingCgi, RespondingType
<1>10. CASE FileError(j)
  <2>1. \A d \in Client : \A s :
          SameCgi([d EXCEPT !.sent = s, !.fr = NoFd, !.fw = NoFd, !.isFile = FALSE], d)
    BY DEF SameCgi, Client
  <2>2. \A s : SameCgi([Responding(cs[c], "error") EXCEPT
                         !.sent = s, !.fr = NoFd, !.fw = NoFd, !.isFile = FALSE], cs[c])
    BY <1>9, <2>1 DEF Answer, SameCgi
  <2> QED
    BY <1>2, <1>4, <1>8, <1>10, <2>2 DEF FileError
<1>11. CASE FileSome(j)
  <2>1. SameCgi([cs[c] EXCEPT !.left = @ - 1], cs[c])
    BY <1>4 DEF SameCgi, Client
  <2>2. clients' = [cs EXCEPT ![c] = [cs[c] EXCEPT !.left = @ - 1]]
    BY <1>2, <1>4, <1>11 DEF FileSome
  <2> QED
    BY <1>8, <2>1, <2>2
<1>12. CASE FileEnd(j)
  <2>1. \A d \in Client : \A r, w : SameCgi([d EXCEPT !.fr = r, !.fw = w, !.isFile = FALSE], d)
    BY DEF SameCgi, Client
  <2>2. cs[c].answer \in Answer
    BY <1>4 DEF Client
  <2>3. PICK r, w : FileDone(cs[c], f)
                      = [Responding(cs[c], cs[c].answer) EXCEPT !.fr = r, !.fw = w, !.isFile = FALSE]
    BY DEF FileDone
  <2>4. SameCgi(FileDone(cs[c], f), cs[c])
    <3>1. PICK d, new : d = Responding(cs[c], cs[c].answer) /\ new = FileDone(cs[c], f)
      OBVIOUS
    <3>2. SameCgi(d, cs[c]) /\ d \in Client
      BY <1>9, <2>2, <3>1
    <3>3. SameCgi([d EXCEPT !.fr = r, !.fw = w, !.isFile = FALSE], d)
      BY <2>1, <3>2
    <3>4. SameCgi(new, d)
      BY <2>3, <3>1, <3>3
    <3>5. SameCgi(new, cs[c])
      BY <3>2, <3>4 DEF SameCgi
    <3> QED
      BY <3>1, <3>5
  <2> QED
    BY <1>2, <1>4, <1>8, <1>12, <2>4 DEF FileEnd
<1> QED
  BY <1>10, <1>11, <1>12 DEF FileStep

LEMMA BuildCgiOwns ==
    ASSUME TypeOK, Owns(clients, child), NEW f \in Fd, NEW p \in FreshPids,
           NEW cs \in [Fd -> Client \cup {NoClient}], Starts(cs, clients) = {},
           NEW x \in Client, x.isCgi, x.pid = p,
           clients' = [cs EXCEPT ![f] = x], child' = [child EXCEPT ![p] = "run"]
    PROVE  Owns(clients', child')
<1>1. p \in Pid /\ child[p] = "none"
  BY DEF FreshPids
<1>2. child'[p] # "none" /\ \A q \in Pid : child[q] # "none" => child'[q] # "none"
  BY <1>1 DEF TypeOK
<1>3. Owns(cs, child')
  BY <1>2, OwnsNoneWaitedFor
<1>4. Owns(cs, child)
  BY OwnsNoneWaitedFor
<1>5. \A c \in Fd : cs[c] # NoClient /\ cs[c].isCgi => cs[c].pid # p
  BY <1>1, <1>4 DEF Owns
<1>6. clients'[f] = x /\ \A c \in Fd \ {f} : clients'[c] = cs[c]
  OBVIOUS
<1>7. ASSUME NEW c \in Fd, clients'[c] # NoClient, clients'[c].isCgi
      PROVE  /\ clients'[c].pid \in Pid
             /\ child'[clients'[c].pid] # "none"
             /\ \A d \in Fd : clients'[d] # NoClient /\ clients'[d].isCgi
                                  /\ clients'[d].pid = clients'[c].pid => d = c
  <2>1. CASE c = f
    BY <1>1, <1>2, <1>5, <1>6, <2>1
  <2>2. CASE c # f
    BY <1>3, <1>5, <1>6, <1>7, <2>2 DEF Owns
  <2> QED
    BY <2>1, <2>2
<1>8. \A c \in Fd : clients'[c] # NoClient /\ clients'[c].rd # NoFd => clients'[c].isCgi
  BY <1>3, <1>6 DEF Owns
<1> QED
  BY <1>7, <1>8 DEF Owns

LEMMA BuildStepOwns ==
    ASSUME TypeOK, Owns(clients, child), NEW j, IsNext(j), BuildStep(j)
    PROVE  Owns(clients', child')
<1> DEFINE e == pollFds[j]
           f == e.fd
           cs == WithLookups(e)
<1>1. e \in Entry /\ f \in Fd
  BY NextEntry
<1>2. cs \in [Fd -> Client \cup {NoClient}]
  BY <1>1, LookupsType
<1>3. Builds(j)
  BY DEF BuildStep, BuildPage, BuildFile, BuildUpload, BuildCgi, BuildCgiFails
<1>4. clients[f] # NoClient
  BY <1>3 DEF Builds, ClientOf, NewClient
<1>5. cs[f] \in Client /\ cs[f] # NoClient
  BY <1>1, <1>4, LookupsType DEF TypeOK
<1>6. Starts(cs, clients) = {}
  BY <1>1, LookupsStart
<1>7. ASSUME NEW x, SameCgi(x, cs[f]), clients' = [cs EXCEPT ![f] = x], child' = child
      PROVE  Owns(clients', child')
  <2>1. Starts(clients', clients) = {}
    BY <1>1, <1>2, <1>5, <1>6, <1>7, UpdateStarts
  <2> QED
    BY <1>7, <2>1, OwnsNoneWaitedFor
<1>8. CASE BuildPage(j)
  <2>1. SameCgi(Responding(cs[f], "done"), cs[f])
    BY <1>5, RespondingCgi DEF Answer
  <2> QED
    BY <1>1, <1>2, <1>7, <1>8, <2>1 DEF BuildPage, kernel
<1>9. CASE BuildFile(j)
  <2>1. PICK g : clients' = [cs EXCEPT ![f] = [@ EXCEPT
                   !.isFile = TRUE, !.fr = g, !.answer = "done", !.left = CHUNKS]]
    BY <1>9 DEF BuildFile
  <2>2. SameCgi([cs[f] EXCEPT !.isFile = TRUE, !.fr = g, !.answer = "done", !.left = CHUNKS], cs[f])
    BY <1>5 DEF SameCgi, Client
  <2> QED
    BY <1>1, <1>2, <1>7, <1>9, <2>1, <2>2 DEF BuildFile
<1>10. CASE BuildUpload(j)
  <2>1. PICK g : clients' = [cs EXCEPT ![f] = [@ EXCEPT
                   !.isFile = TRUE, !.fw = g, !.answer = "done", !.left = CHUNKS]]
    BY <1>10 DEF BuildUpload
  <2>2. SameCgi([cs[f] EXCEPT !.isFile = TRUE, !.fw = g, !.answer = "done", !.left = CHUNKS], cs[f])
    BY <1>5 DEF SameCgi, Client
  <2> QED
    BY <1>1, <1>2, <1>7, <1>10, <2>1, <2>2 DEF BuildUpload
<1>11. ASSUME NEW body \in BOOLEAN, BuildCgi(j, body)
       PROVE  Owns(clients', child')
  <2>1. PICK r \in Fd, w \in Fd \cup {NoFd}, p \in FreshPids :
           /\ child' = [child EXCEPT ![p] = "run"]
           /\ clients' = [cs EXCEPT ![f] = [@ EXCEPT
                !.isCgi = TRUE, !.pid = p, !.rd = r, !.wr = w,
                !.left = CHUNKS, !.late = FALSE]]
    BY <1>11 DEF BuildCgi, LaunchCgi
  <2> DEFINE x == [cs[f] EXCEPT !.isCgi = TRUE, !.pid = p, !.rd = r, !.wr = w,
                                !.left = CHUNKS, !.late = FALSE]
  <2>2. p \in Pid /\ CHUNKS \in 0..CHUNKS
    BY SizesAssumption DEF FreshPids
  <2>3. x \in Client /\ x.isCgi /\ x.pid = p
    BY <1>5, <2>2 DEF Client
  <2>4. clients' = [cs EXCEPT ![f] = x]
    BY <1>1, <1>2, <2>1
  <2> HIDE DEF x, cs
  <2> QED
    BY <1>1, <1>2, <1>6, <2>1, <2>3, <2>4, BuildCgiOwns
<1>12. CASE BuildCgiFails(j)
  <2>1. SameCgi(Responding(cs[f], "error"), cs[f])
    BY <1>5, RespondingCgi DEF Answer
  <2> QED
    BY <1>1, <1>2, <1>7, <1>12, <2>1 DEF BuildCgiFails
<1> QED
  BY <1>8, <1>9, <1>10, <1>11, <1>12 DEF BuildStep

LEMMA PlainStepOwns ==
    ASSUME TypeOK, Owns(clients, child), NEW j, IsNext(j), PlainStep(j), ~BuildStep(j)
    PROVE  Owns(clients', child')
<1> DEFINE e == pollFds[j]
           f == e.fd
           cs == WithLookups(e)
<1>1. e \in Entry /\ f \in Fd
  BY NextEntry
<1>2. /\ cs \in [Fd -> Client \cup {NoClient}]
      /\ \A g \in Fd : clients[g] # NoClient => cs[g] = clients[g]
  BY <1>1, LookupsType
<1>3. Starts(cs, clients) = {}
  BY <1>1, LookupsStart
<1>4. child' = child
  BY DEF PlainStep, SendStep, PlainError, Accept, AcceptFails, ReadGone, ReadData, WriteNothing,
         SendFails, SendSome, SendLast, SendLastKeep, CloseClient, kernel
<1>5. NoCgi(NewClient)
  BY DEF NoCgi, NewClient
<1>6. SUFFICES Starts(clients', clients) = {}
  BY <1>4, OwnsNoneWaitedFor
<1>7. CASE PlainError(j) \/ ReadGone(j) \/ SendFails(j) \/ SendLast(j)
  <2>1. clients' = [cs EXCEPT ![f] = NoClient]
    BY <1>7 DEF PlainError, ReadGone, SendFails, SendLast, CloseClient
  <2> QED
    BY <1>1, <1>2, <1>3, <2>1, UpdateStarts
<1>8. CASE Accept(j)
  <2>1. PICK g \in Fd : clients' = [cs EXCEPT ![g] = NewClient]
    BY <1>8 DEF Accept
  <2> QED
    BY <1>2, <1>3, <1>5, <2>1, UpdateStarts
<1>9. CASE AcceptFails(j) \/ WriteNothing(j)
  BY <1>3, <1>9 DEF AcceptFails, WriteNothing
<1>10. CASE ReadData(j)
  <2> DEFINE c == IF cs[f] = NoClient THEN NewClient ELSE cs[f]
  <2>1. c \in Client /\ (NoCgi(c) \/ (cs[f] # NoClient /\ c = cs[f]))
    BY <1>1, <1>2, <1>5, NewClientType
  <2>2. PICK whole : clients' = [cs EXCEPT ![f] = [c EXCEPT !.complete = whole, !.quiet = FALSE]]
    BY <1>10 DEF ReadData
  <2> HIDE DEF c
  <2>3. SameCgi([c EXCEPT !.complete = whole, !.quiet = FALSE], c)
    BY <2>1 DEF SameCgi, Client
  <2>4. \/ NoCgi([c EXCEPT !.complete = whole, !.quiet = FALSE])
        \/ cs[f] # NoClient /\ SameCgi([c EXCEPT !.complete = whole, !.quiet = FALSE], cs[f])
    BY <2>1, <2>3 DEF NoCgi, SameCgi
  <2> HIDE DEF cs
  <2> QED
    BY <1>1, <1>2, <1>3, <2>2, <2>4, UpdateStarts
<1>11. CASE SendSome(j)
  <2>1. clients[f] # NoClient
    BY <1>11 DEF SendSome, Sends, ClientOf, NewClient
  <2>2. cs[f] \in Client /\ cs[f] # NoClient
    BY <1>1, <1>2, <2>1 DEF TypeOK
  <2>3. SameCgi(SomeSent(cs[f]), cs[f])
    BY <2>2 DEF SameCgi, SomeSent, Client
  <2>4. clients' = [cs EXCEPT ![f] = SomeSent(cs[f])]
    BY <1>1, <1>2, <1>11, <2>2 DEF SendSome
  <2> QED
    BY <1>1, <1>2, <1>3, <2>2, <2>3, <2>4, UpdateStarts
<1>12. CASE SendLastKeep(j)
  <2>1. PICK whole : clients' = [cs EXCEPT ![f] = [NewClient EXCEPT !.complete = whole]]
    BY <1>12 DEF SendLastKeep
  <2>2. NoCgi([NewClient EXCEPT !.complete = whole])
    BY DEF NoCgi, NewClient
  <2> QED
    BY <1>1, <1>2, <1>3, <2>1, <2>2, UpdateStarts
<1> QED
  BY <1>7, <1>8, <1>9, <1>10, <1>11, <1>12 DEF PlainStep, SendStep

LEMMA SweepOwns ==
    ASSUME TypeOK, Owns(clients, child), Sweep
    PROVE  Owns(clients', child')
<1>1. clients \in [Fd -> Client \cup {NoClient}] /\ Starts(clients, clients) = {}
  BY DEF TypeOK, Starts, SameCgi
<1>2. ASSUME NEW j \in DOMAIN pollFds, CloseIdle(j)
      PROVE  Owns(clients', child')
  <2>1. pollFds[j] \in Entry
    BY DEF TypeOK
  <2>2. pollFds[j].fd \in Fd
    BY <2>1 DEF Entry
  <2>3. clients' = [clients EXCEPT ![pollFds[j].fd] = NoClient] /\ child' = child
    BY <1>2 DEF CloseIdle, CloseClient
  <2>4. Starts(clients', clients) = {}
    BY <1>1, <2>2, <2>3, UpdateStarts
  <2> QED
    BY <2>3, <2>4, OwnsNoneWaitedFor
<1>3. CASE EndIdle \/ EndCgi
  BY <1>3 DEF EndIdle, EndCgi, kernel
<1>4. ASSUME NEW c \in Fd, KillLateCgi(c)
      PROVE  Owns(clients', child')
  <2> DEFINE x == [Responding(clients[c], "error") EXCEPT
                      !.rd = NoFd, !.wr = NoFd, !.isCgi = FALSE]
  <2>1. clients[c] # NoClient /\ clients[c].isCgi
    BY <1>4 DEF KillLateCgi, LateCgi
  <2>2. Responding(clients[c], "error") \in Client
    BY <1>1, <2>1, RespondingType DEF Answer
  <2>3. NoCgi(x)
    BY <2>2 DEF NoCgi, Client
  <2>4. clients' = [clients EXCEPT ![c] = x]
    BY <1>1, <1>4 DEF KillLateCgi
  <2> HIDE DEF x
  <2>5. Starts(clients', clients) = {} /\ NoCgi(clients'[c])
    BY <1>1, <2>3, <2>4, UpdateStarts
  <2>6. \A p \in Pid : p # clients[c].pid => child'[p] = child[p]
    BY <1>4 DEF KillLateCgi, TypeOK
  <2> QED
    BY <2>1, <2>5, <2>6, OwnsWaitedFor
<1> QED
  BY <1>2, <1>3, <1>4 DEF Sweep

LEMMA OutsideOwns ==
    ASSUME TypeOK, Owns(clients, child), Outside
    PROVE  Owns(clients', child')
<1>1. clients \in [Fd -> Client \cup {NoClient}] /\ Starts(clients, clients) = {}
  BY DEF TypeOK, Starts, SameCgi
<1>2. ASSUME NEW f \in Fd, PeerSends(f) \/ PeerLeaves(f, "fin") \/ PeerLeaves(f, "rst") \/ ScriptWrites(f)
      PROVE  Owns(clients', child')
  BY <1>2 DEF PeerSends, PeerLeaves, ScriptWrites, ServerUnchanged
<1>3. ASSUME NEW c \in Fd, QuietTooLong(c) \/ CgiTooLong(c)
      PROVE  Owns(clients', child')
  <2>1. clients[c] # NoClient /\ clients[c] \in Client
    BY <1>1, <1>3 DEF QuietTooLong, CgiTooLong
  <2>2. PICK x : SameCgi(x, clients[c]) /\ clients' = [clients EXCEPT ![c] = x]
    <3>1. /\ SameCgi([clients[c] EXCEPT !.quiet = TRUE], clients[c])
          /\ SameCgi([clients[c] EXCEPT !.late = TRUE], clients[c])
      BY <2>1 DEF SameCgi, Client
    <3>2. \/ clients' = [clients EXCEPT ![c] = [clients[c] EXCEPT !.quiet = TRUE]]
          \/ clients' = [clients EXCEPT ![c] = [clients[c] EXCEPT !.late = TRUE]]
      BY <1>1, <1>3 DEF QuietTooLong, CgiTooLong
    <3> QED
      BY <3>1, <3>2
  <2>3. Starts(clients', clients) = {}
    BY <1>1, <2>1, <2>2, UpdateStarts
  <2>4. child' = child
    BY <1>3 DEF QuietTooLong, CgiTooLong, kernel
  <2> QED
    BY <2>3, <2>4, OwnsNoneWaitedFor
<1>4. ASSUME NEW p \in Pid, ScriptMutes(p) \/ ScriptEnds(p)
      PROVE  Owns(clients', child')
  <2>1. clients' = clients
    BY <1>4 DEF ScriptMutes, ScriptEnds, ServerUnchanged
  <2>2. \A q \in Pid : child[q] # "none" => child'[q] # "none"
    BY <1>4 DEF ScriptMutes, ScriptEnds, TypeOK, Zombie
  <2> QED
    BY <1>1, <2>1, <2>2, OwnsNoneWaitedFor
<1> QED
  BY <1>2, <1>3, <1>4 DEF Outside

-----------------------------------------------------------------------------
\* The number kept in a CGI client is that of a child not yet waited for, and
\* of no other client: the sweep's kill() and waitpid() (Server.cpp:456) never
\* reach a recycled number, however peers leave, scripts end and descriptors
\* are reused.
THEOREM OnlyItsOwnChild == Spec => []KillsItsOwnChild
<1>1. Init => Owns(clients, child)
  BY DEF Init, Owns
<1>2. ASSUME TypeOK, Owns(clients, child), [Next]_vars
      PROVE  Owns(clients', child')
  <2>1. CASE Dispatch
    <3>1. PICK j \in DOMAIN pollFds : IsNext(j) /\ (CgiStep(j) \/ FileStep(j) \/ PlainStep(j))
      BY <2>1 DEF Dispatch
    <3> QED
      BY <1>2, <3>1, CgiStepOwns, FileStepOwns, BuildStepOwns, PlainStepOwns
  <2>2. CASE Poll \/ EndPass
    BY <1>2, <2>2 DEF Poll, EndPass, kernel
  <2>3. CASE Sweep
    BY <1>2, <2>3, SweepOwns
  <2>4. CASE Outside
    BY <1>2, <2>4, OutsideOwns
  <2>5. CASE UNCHANGED vars
    BY <1>2, <2>5 DEF vars
  <2> QED
    BY <1>2, <2>1, <2>2, <2>3, <2>4, <2>5 DEF Next, Loop
<1>3. Owns(clients, child) => KillsItsOwnChild
  BY DEF Owns, KillsItsOwnChild, Pid, NoPid
<1> DEFINE I == Owns(clients, child)
<1>4. TypeOK /\ I /\ [Next]_vars => I'
  BY <1>2
<1> QED
  BY <1>1, <1>3, <1>4, TypeCorrect, PTL DEF Spec
=============================================================================
