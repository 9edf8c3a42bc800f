----------------------------- MODULE Transfers -----------------------------
(***************************************************************************)
(* What goes through the descriptors of the event loop: files read and     *)
(* written a piece at a time while other connections read, write and       *)
(* delete the same ones (Response::build() in src/http/Response.cpp, disk  *)
(* and CGI I/O of the loop in src/core/Server.cpp), and the output of CGI  *)
(* scripts.                                                                *)
(*                                                                         *)
(* A file has a name in the directory and an inode that outlives it while  *)
(* it is open.  Contents are sequences of units; each upload's are its own, *)
(* so that a file says who wrote what.                                     *)
(***************************************************************************)
EXTENDS Naturals, Sequences, FiniteSets, SequencesExt

CONSTANTS
    Conn,      \* connections
    Given,     \* names a client may give a file
    Sizes,     \* sizes of uploads
    READ,      \* what one read() of a file takes (8192 bytes)
    PIPE,      \* what one read() of a CGI's output takes (4095 bytes)
    Outputs,   \* what the CGI scripts of a connection's server may write
    Seconds,   \* when an upload may come without a name
    UPLOADS,   \* bound: uploads
    Forms      \* the uploads that are sent as forms

ASSUME TransfersAssumption ==
    /\ READ \in Nat \ {0} /\ PIPE \in Nat \ {0} /\ Sizes \subseteq Nat
    /\ UPLOADS \in Nat

\* What a script writes: lines of its headers, blank lines ended as it likes,
\* data, and bytes that are zero.
Written == {"line", "crlf", "lf", "data", "zero"}

ASSUME OutputsAssumption == Outputs \in [Conn -> SUBSET Seq(Written)]

VARIABLES
    uploads,  \* how many there have been
    dir,      \* the inode behind each name
    data,     \* the contents of each inode
    jobs,     \* what goes on for each connection
    sole      \* of each inode, the upload that has had it to itself since it opened it, and its body

vars == <<uploads, dir, data, jobs, sole>>

\* The names clients give, and those made from the time for clients that give none.
Name   == {<<g>> : g \in Given} \cup {<<"upload", t>> : t \in Seconds}
Inode  == 0..UPLOADS       \* 0 is there at the start, upload k may create inode k
NoInode == UPLOADS + 1

Unit == [of : 0..UPLOADS, n : Nat]
Units(k, size) == [n \in 1..size |-> [of |-> k, n |-> n]]
\* The body of an upload's request: a form's has its envelope around the file part.
Parsed(k, size) ==
    LET edge == [of |-> k, n |-> 0]
    IN IF k \in Forms THEN <<edge>> \o Units(k, size) \o <<edge>> ELSE Units(k, size)
Hole == [of |-> 0, n |-> 0]
Nobody == [id |-> 0, body |-> <<>>]

-----------------------------------------------------------------------------
(* class Client: one transfer at a time *)

NoJob == [kind  |-> "none",
          ready |-> FALSE,      \* isReadyToSend
          ino   |-> NoInode,    \* the file behind the descriptor
          id    |-> 0,          \* which upload it is
          off   |-> 0,          \* the file's offset, fileBytesWritten
          body  |-> <<>>,       \* what is to be written; the script's output
          whole |-> <<>>,       \* what the parser takes for the upload's body
          said  |-> 0,          \* Content-Length
          got   |-> <<>>,       \* what follows the headers in responseBuffer; cgiOutput
          was   |-> <<>>,       \* the file when it was opened
          clean |-> TRUE,       \* no upload has had the file open meanwhile
          cut   |-> FALSE]      \* the script's output was not read to its end

Uploading(c, ino) == jobs[c].kind = "post" /\ jobs[c].ino = ino
InUpload(ino) == \E c \in Conn : Uploading(c, ino)

Begin(c, job) == jobs[c] = NoJob /\ jobs' = [jobs EXCEPT ![c] = job]

\* A response whose transfer is over, or that takes none.
Page == [NoJob EXCEPT !.kind = "page", !.ready = TRUE]

Init ==
    /\ uploads = 0
    /\ dir \in {[n \in Name |-> IF n = <<g>> THEN 0 ELSE NoInode] : g \in Given}
    /\ data \in {[i \in Inode |-> IF i = 0 THEN Units(0, s) ELSE <<>>] : s \in Sizes}
    /\ jobs = [c \in Conn |-> NoJob]
    /\ sole = [i \in Inode |-> Nobody]

-----------------------------------------------------------------------------
(* GET of a file *)

\* stat() of the path, in the same call as open().
LengthOf(ino) == Len(data[ino])

Get(c, name) ==
    /\ dir[name] # NoInode
    /\ Begin(c, [NoJob EXCEPT !.kind = "get", !.ino = dir[name], !.said = LengthOf(dir[name]),
                              !.was = data[dir[name]], !.clean = ~InUpload(dir[name])])
    /\ UNCHANGED <<uploads, dir, data, sole>>

GetMissing(c, name) ==
    /\ dir[name] = NoInode
    /\ Begin(c, Page)
    /\ UNCHANGED <<uploads, dir, data, sole>>

Least(a, b) == IF a <= b THEN a ELSE b

Reading(c) == jobs[c].kind = "get" /\ ~jobs[c].ready

\* Variant: what is read takes the place of what was read before.
ReadOver(job, n) == [job EXCEPT !.got = SubSeq(data[job.ino], job.off + 1, job.off + n), !.off = @ + n]

\* The next n units are appended.
ReadOn(job, n) == [job EXCEPT !.got = @ \o SubSeq(data[job.ino], job.off + 1, job.off + n), !.off = @ + n]

\* read() takes what there is, at most READ.
ReadSome(c) ==
    LET job == jobs[c] IN
    /\ Reading(c)
    /\ job.off < Len(data[job.ino])
    /\ jobs' = [jobs EXCEPT ![c] = ReadOn(job, Least(READ, Len(data[job.ino]) - job.off))]
    /\ UNCHANGED <<uploads, dir, data, sole>>

\* Variant: the read is over when Content-Length has been reached.
AtLength(job) == job.off >= job.said

\* read() returns 0: all of the file has been read, or it has become shorter.
AtEnd(job) == job.off >= Len(data[job.ino])

ReadEnd(c) ==
    /\ Reading(c)
    /\ AtEnd(jobs[c])
    /\ jobs' = [jobs EXCEPT ![c].ready = TRUE]
    /\ UNCHANGED <<uploads, dir, data, sole>>

-----------------------------------------------------------------------------
(* POST to an upload_store, DELETE *)

\* Variant: without O_CREAT.
OpenedExisting(name, k) == dir[name]

\* open(O_WRONLY | O_CREAT | O_TRUNC): the inode, new if there is none of this name.
Opened(name, k) == IF dir[name] = NoInode THEN k ELSE dir[name]

\* The file is empty at once for whoever else has it open.  Of a form, build()
\* takes the file part for the body.
Post(c, name, size) ==
    LET k   == uploads + 1
        ino == Opened(name, k)
    IN /\ uploads < UPLOADS
       /\ jobs[c] = NoJob
       /\ uploads' = k
       /\ dir' = [dir EXCEPT ![name] = ino]
       /\ data' = [data EXCEPT ![ino] = <<>>]
       /\ jobs' = [d \in Conn |->
                     IF d = c THEN [NoJob EXCEPT !.kind = "post", !.ino = ino, !.id = k,
                                                 !.body = Units(k, size), !.whole = Parsed(k, size)]
                     ELSE IF Reading(d) /\ jobs[d].ino = ino THEN [jobs[d] EXCEPT !.clean = FALSE]
                     ELSE jobs[d]]
       /\ sole' = [sole EXCEPT ![ino] = IF InUpload(ino) THEN Nobody ELSE [id |-> k, body |-> Units(k, size)]]

\* units written at offset off; what lies before and was cut off is zeros.
WriteAt(old, off, units) ==
    [n \in 1..(IF Len(old) > off + Len(units) THEN Len(old) ELSE off + Len(units)) |->
        IF off < n /\ n <= off + Len(units) THEN units[n - off]
        ELSE IF n <= Len(old) THEN old[n] ELSE Hole]

\* Variant: each write starts from the beginning of the body.
PieceAgain(job, n) == SubSeq(job.body, 1, n)

\* The first n units of those that are left.
Piece(job, n) == SubSeq(job.body, job.off + 1, job.off + n)

\* write() takes n units of what is left.
WriteSome(c, n) ==
    LET job == jobs[c] IN
    /\ job.kind = "post"
    /\ n \in 1..(Len(job.body) - job.off)
    /\ data' = [data EXCEPT ![job.ino] = WriteAt(@, job.off, Piece(job, n))]
    /\ jobs' = [jobs EXCEPT ![c] = IF job.off + n >= Len(job.body) THEN Page ELSE [job EXCEPT !.off = @ + n]]
    /\ UNCHANGED <<uploads, dir, sole>>

\* The file of an upload, if it had it to itself, is from now on nobody's.
GivenUp(job) == IF sole[job.ino].id = job.id THEN [sole EXCEPT ![job.ino] = Nobody] ELSE sole

\* An upload ends before all is written.
Abandoned(job) == IF job.kind = "post" /\ job.off < Len(job.body) THEN GivenUp(job) ELSE sole

\* Bytes arrive behind a form, and the parser puts its whole body back in the
\* place of the file part: the next write() goes on in it.
MoreArrives(c) ==
    LET job == jobs[c] IN
    /\ job.kind = "post"
    /\ job.body # job.whole
    /\ jobs' = [jobs EXCEPT ![c].body = job.whole]
    /\ sole' = GivenUp(job)
    /\ UNCHANGED <<uploads, dir, data>>

\* write() returns 0, for nothing is left of an empty body, or it fails: the
\* response is the same 201.
WriteEnd(c) ==
    LET job == jobs[c] IN
    /\ job.kind = "post"
    /\ jobs' = [jobs EXCEPT ![c] = Page]
    /\ sole' = Abandoned(job)
    /\ UNCHANGED <<uploads, dir, data>>

\* remove(): the name goes, the inode stays for those that have it open.
Delete(c, name) ==
    /\ Begin(c, Page)
    /\ dir' = [dir EXCEPT ![name] = NoInode]
    /\ UNCHANGED <<uploads, data, sole>>

-----------------------------------------------------------------------------
(* CGI: the output of a script *)

\* A script is started; in body, what it will write.
Cgi(c, output) ==
    /\ Begin(c, [NoJob EXCEPT !.kind = "cgi", !.body = output])
    /\ UNCHANGED <<uploads, dir, data, sole>>

\* What is appended of a buffer taken for a C string: all before the first zero.
CString(s) ==
    LET zeros == {n \in DOMAIN s : s[n] = "zero"}
    IN IF zeros = {} THEN s ELSE SubSeq(s, 1, Min(zeros) - 1)

\* Variant: blank lines end with CRLF only.
BlankCrlf(output) == SelectInSeq(output, LAMBDA t : t = "crlf")

\* Where the headers end: at the first blank line with CRLF, or else with LF.
Blank(output) ==
    LET crlf == SelectInSeq(output, LAMBDA t : t = "crlf")
    IN IF crlf # 0 THEN crlf ELSE SelectInSeq(output, LAMBDA t : t = "lf")

\* A response of what has been read, or a bare 500.
CgiResponse(job, ok) ==
    LET body == SubSeq(job.got, Blank(job.got) + 1, Len(job.got))
    IN IF ok THEN [job EXCEPT !.got = body, !.said = Len(body), !.ready = TRUE] ELSE Page

\* read() of n units; with POLLHUP it is the last, though more may be there.
CgiRead(c, n, hup) ==
    LET job  == jobs[c]
        read == [job EXCEPT !.got = @ \o CString(SubSeq(job.body, job.off + 1, job.off + n)),
                            !.off = @ + n, !.cut = hup /\ job.off + n < Len(job.body)]
    IN /\ job.kind = "cgi" /\ ~job.ready
       /\ n \in 1..Least(PIPE, Len(job.body) - job.off)
       /\ \E ok \in BOOLEAN :
             jobs' = [jobs EXCEPT ![c] = IF hup THEN CgiResponse(read, ok) ELSE read]
       /\ UNCHANGED <<uploads, dir, data, sole>>

\* read() returns 0, and the script's exit status says whether it did well.
CgiEnd(c, ok) ==
    LET job == jobs[c] IN
    /\ job.kind = "cgi" /\ ~job.ready
    /\ job.off = Len(job.body)
    /\ jobs' = [jobs EXCEPT ![c] = CgiResponse(job, ok)]
    /\ UNCHANGED <<uploads, dir, data, sole>>

-----------------------------------------------------------------------------

\* The response is sent, and the Client is reset.
Sent(c) ==
    /\ jobs[c].ready
    /\ jobs' = [jobs EXCEPT ![c] = NoJob]
    /\ UNCHANGED <<uploads, dir, data, sole>>

\* The client is gone, or idle: nobody goes on with its transfer.
CloseClient(c) ==
    /\ jobs[c] # NoJob /\ ~jobs[c].ready
    /\ jobs' = [jobs EXCEPT ![c] = NoJob]
    /\ sole' = Abandoned(jobs[c])
    /\ UNCHANGED <<uploads, dir, data>>

Build(c) ==
    \/ \E n \in Name : Get(c, n) \/ GetMissing(c, n) \/ Delete(c, n)
    \/ \E n \in Name, s \in Sizes : Post(c, n, s)
    \/ \E o \in Outputs[c] : Cgi(c, o)

\* What poll() goes on reporting until the transfer has ended.
Transfer(c) ==
    \/ ReadSome(c) \/ ReadEnd(c)
    \/ WriteEnd(c)
    \/ \E n \in 1..Len(jobs[c].body) :
          WriteSome(c, n) \/ CgiRead(c, n, TRUE) \/ CgiRead(c, n, FALSE)
    \/ CgiEnd(c, TRUE) \/ CgiEnd(c, FALSE)

Next == \E c \in Conn : Build(c) \/ Transfer(c) \/ MoreArrives(c) \/ Sent(c) \/ CloseClient(c)

Spec == Init /\ [][Next]_vars

\* Files are always ready, and a script comes to its end or is killed.
FairSpec == Spec /\ \A c \in Conn : WF_vars(Transfer(c))

-----------------------------------------------------------------------------
(* Properties *)

\* A script's output is of what scripts write, everything else of units of files.
JobOf(Item) ==
    [kind : {"none", "page", "get", "post", "cgi"}, ready : BOOLEAN, ino : 0..NoInode, id : 0..UPLOADS,
     off : Nat, body : Seq(Item), whole : Seq(Item), said : Nat, got : Seq(Item), was : Seq(Unit), clean : BOOLEAN, cut : BOOLEAN]

\* Every variable has its type, and a transfer that goes on has a file to go on with.
TypeOK ==
    /\ uploads \in 0..UPLOADS
    /\ dir \in [Name -> 0..NoInode]
    /\ data \in [Inode -> Seq(Unit)]
    /\ DOMAIN jobs = Conn /\ \A c \in Conn : jobs[c] \in JobOf(IF jobs[c].kind = "cgi" THEN Written ELSE Unit)
    /\ \A c \in Conn : jobs[c].kind \in {"get", "post"} => jobs[c].ino \in Inode
    /\ sole \in [Inode -> [id : 0..UPLOADS, body : Seq(Unit)]]

\* A download is what the file was when it was opened, and as long as its
\* Content-Length says (Response.cpp:443-451, Server.cpp:636-655), though the
\* file is deleted and another uploaded under its name meanwhile: only an
\* upload that has the same file open can make it something else.
DownloadsAreFaithful ==
    \A c \in Conn : jobs[c].kind = "get" /\ jobs[c].ready /\ jobs[c].clean =>
        jobs[c].got = jobs[c].was /\ jobs[c].said = Len(jobs[c].got)

\* A file is the last upload of it, whole and nothing else, from the moment
\* the upload has ended (Response.cpp:543, Server.cpp:661-684), if no other
\* upload had it open at the same time, no write() failed, the client stayed
\* and, when it sent a form, it sent no more meanwhile (Request.cpp:155,
\* Server.cpp:664): but 201 is what each of them is told.
UploadsAreWhole ==
    \A i \in Inode :
        sole[i] # Nobody /\ ~InUpload(i) => data[i] = sole[i].body

\* Blank lines of both kinds: the headers may end where a CRLF says.
OneKindOfBlank(output) == ~({"crlf", "lf"} \subseteq Range(output))

\* The body of a CGI's response is what the script wrote after its first blank
\* line, all of it if there is none (Server.cpp:576-598), however the reads cut
\* it, and Content-Length is its length: if all was read (555), no byte was
\* zero (552) and blank lines are of one kind (577).
ScriptsAreQuoted ==
    \A c \in Conn : jobs[c].kind = "cgi" /\ jobs[c].ready =>
        LET out == jobs[c].body
            blanks == {n \in DOMAIN out : out[n] \in {"crlf", "lf"}}
            body == IF blanks = {} THEN out ELSE SubSeq(out, Min(blanks) + 1, Len(out))
        IN /\ jobs[c].said = Len(jobs[c].got)
           /\ ~jobs[c].cut /\ "zero" \notin Range(out) /\ OneKindOfBlank(out)
                => jobs[c].got = body

\* Every transfer ends, though its file grows and shrinks under it.
EveryTransferEnds ==
    \A c \in Conn : jobs[c].kind # "none" /\ ~jobs[c].ready ~> jobs[c].kind = "none" \/ jobs[c].ready
=============================================================================
