-------------------------- MODULE TransfersProofs --------------------------
(***************************************************************************)
(* Proofs about Transfers, for any number of connections, files, sizes and *)
(* uploads, and whatever scripts write.                                    *)
(***************************************************************************)
EXTENDS Transfers, TLAPS, SequenceTheorems, WellFoundedInduction

JobType(job) ==
    /\ job \in JobOf(IF job.kind = "cgi" THEN Written ELSE Unit)
    /\ job.kind \in {"get", "post"} => job.ino \in Inode

SoleType == [id : 0..UPLOADS, body : Seq(Unit)]

-----------------------------------------------------------------------------
(* Helpers *)

LEMMA MinIsLeast ==
    ASSUME NEW S, S \subseteq Nat, S # {}
    PROVE  Min(S) \in S /\ \A x \in S : Min(S) <= x
<1> DEFINE R == OpToRel(<, Nat)
<1>1. R = {ss \in Nat \X Nat : ss[1] < ss[2]}
  BY DEF OpToRel
<1>2. IsWellFoundedOn(R, Nat)
  BY NatLessThanWellFounded
<1> HIDE DEF R
<1>3. PICK x \in S : \A y \in S : ~(<<y, x>> \in R)
  BY <1>2, WFMin
<1>4. \A y \in Nat : y < x => <<y, x>> \in R
  BY <1>1
<1> HIDE <1>1
<1>5. ASSUME NEW y \in S PROVE x <= y
  <2>1. x \in Nat /\ y \in Nat /\ ~(y < x)
    BY <1>3, <1>4
  <2> QED
    BY <2>1
<1> QED
  BY <1>5 DEF Min

LEMMA NothingTyped == \A S : <<>> \in Seq(S)
OBVIOUS

LEMMA UnitsTyped ==
    ASSUME NEW k \in 0..UPLOADS, NEW size \in Nat
    PROVE  Units(k, size) \in Seq(Unit) /\ Len(Units(k, size)) = size
BY DEF Units, Unit

LEMMA SubSeqTyped ==
    ASSUME NEW S, NEW s \in Seq(S), NEW m \in Nat \ {0}, NEW n \in Nat, n <= Len(s)
    PROVE  SubSeq(s, m, n) \in Seq(S)
OBVIOUS

\* The next n items after the first off.
LEMMA SubSeqGrows ==
    ASSUME NEW S, NEW s \in Seq(S), NEW off \in Nat, NEW n \in Nat, off + n <= Len(s)
    PROVE  SubSeq(s, 1, off) \o SubSeq(s, off + 1, off + n) = SubSeq(s, 1, off + n)
<1> DEFINE a == SubSeq(s, 1, off)
           b == SubSeq(s, off + 1, off + n)
           ab == SubSeq(s, 1, off + n)
<1>1. a \in Seq(S) /\ Len(a) = off /\ \A k \in 1..off : a[k] = s[k]
  OBVIOUS
<1>2. b \in Seq(S) /\ Len(b) = n /\ \A k \in 1..n : b[k] = s[off + k]
  OBVIOUS
<1>3. ab \in Seq(S) /\ Len(ab) = off + n /\ \A k \in 1..(off + n) : ab[k] = s[k]
  OBVIOUS
<1> HIDE DEF a, b, ab
<1> DEFINE both == a \o b
<1>4. both \in Seq(S) /\ Len(both) = off + n
  BY <1>1, <1>2, ConcatProperties
<1>5. \A k \in 1..off : both[k] = a[k]
  BY <1>1, <1>2, ConcatProperties
<1>6. ASSUME NEW m \in 1..n PROVE both[off + m] = b[m]
  <2>1. \A k \in 1..(off + n) : both[k] = IF k <= off THEN a[k] ELSE b[k - off]
    BY <1>1, <1>2, ConcatProperties
  <2>2. off + m \in 1..(off + n) /\ ~(off + m <= off) /\ off + m - off = m
    OBVIOUS
  <2> DEFINE k == off + m
  <2> HIDE DEF both, k
  <2>3. both[k] = b[k - off]
    BY <2>1, <2>2 DEF k
  <2> QED
    BY <2>2, <2>3 DEF k
<1> HIDE DEF both
<1>7. \A k \in 1..(off + n) : k \in 1..off \/ \E m \in 1..n : k = off + m
  <2> SUFFICES ASSUME NEW k \in 1..(off + n), ~(k \in 1..off) PROVE k - off \in 1..n /\ k = off + (k - off)
    OBVIOUS
  <2> QED
    OBVIOUS
<1>8. ASSUME NEW k \in 1..(off + n) PROVE both[k] = s[k]
  <2>1. CASE k \in 1..off
    BY <1>1, <1>5, <2>1
  <2>2. ASSUME NEW m \in 1..n, k = off + m PROVE both[k] = s[k]
    BY <1>2, <1>6, <2>2
  <2> QED
    BY <1>7, <2>1, <2>2
<1>9. both = ab
  BY <1>3, <1>4, <1>8, SeqEqual
<1> QED
  BY <1>9 DEF a, b, ab, both

LEMMA WriteAtTyped ==
    ASSUME NEW old \in Seq(Unit), NEW off \in Nat, NEW units \in Seq(Unit)
    PROVE  WriteAt(old, off, units) \in Seq(Unit)
<1> DEFINE len == IF Len(old) > off + Len(units) THEN Len(old) ELSE off + Len(units)
           unit(n) == IF off < n /\ n <= off + Len(units) THEN units[n - off]
                      ELSE IF n <= Len(old) THEN old[n] ELSE Hole
<1>1. len \in Nat /\ Hole \in Unit
  BY TransfersAssumption DEF Hole, Unit
<1>2. \A n \in 1..len : unit(n) \in Unit
  BY <1>1
<1>3. WriteAt(old, off, units) = [n \in 1..len |-> unit(n)]
  BY DEF WriteAt
<1> HIDE DEF len, unit
<1>4. [n \in 1..len |-> unit(n)] \in [1..len -> Unit]
  BY <1>2
<1>5. \A m \in Nat : [1..m -> Unit] \subseteq Seq(Unit)
  OBVIOUS
<1> QED
  BY <1>1, <1>3, <1>4, <1>5

\* What is written behind what has been written of a body is more of the body.
LEMMA WriteAtPrefix ==
    ASSUME NEW body \in Seq(Unit), NEW off \in Nat, NEW n \in Nat \ {0}, off + n <= Len(body)
    PROVE  WriteAt(SubSeq(body, 1, off), off, SubSeq(body, off + 1, off + n)) = SubSeq(body, 1, off + n)
<1> DEFINE old == SubSeq(body, 1, off)
           units == SubSeq(body, off + 1, off + n)
<1>1. Len(old) = off /\ \A k \in 1..off : old[k] = body[k]
  OBVIOUS
<1>2. Len(units) = n /\ \A k \in 1..n : units[k] = body[off + k]
  OBVIOUS
<1> HIDE DEF old, units
<1> DEFINE unit(k) == IF off < k /\ k <= off + Len(units) THEN units[k - off]
                      ELSE IF k <= Len(old) THEN old[k] ELSE Hole
<1>3. WriteAt(old, off, units) = [k \in 1..(off + n) |-> unit(k)]
  BY <1>1, <1>2 DEF WriteAt
<1>4. \A k \in 1..(off + n) : unit(k) = body[k]
  BY <1>1, <1>2
<1> HIDE DEF unit
<1>5. [k \in 1..(off + n) |-> unit(k)] = [k \in 1..(off + n) |-> body[k]]
  BY <1>4
<1>6. SubSeq(body, 1, off + n) = [k \in 1..(off + n) |-> body[k]]
  OBVIOUS
<1> QED
  BY <1>3, <1>5, <1>6 DEF old, units

LEMMA CStringTyped ==
    ASSUME NEW s \in Seq(Written)
    PROVE  CString(s) \in Seq(Written)
<1> DEFINE zeros == {n \in DOMAIN s : s[n] = "zero"}
<1>1. CASE zeros = {}
  BY <1>1 DEF CString
<1>2. CASE zeros # {}
  <2>1. zeros \subseteq Nat /\ zeros \subseteq 1..Len(s)
    OBVIOUS
  <2>2. Min(zeros) \in 1..Len(s)
    BY <1>2, <2>1, MinIsLeast
  <2>3. CString(s) = SubSeq(s, 1, Min(zeros) - 1)
    BY <1>2 DEF CString
  <2> HIDE DEF zeros
  <2>4. Min(zeros) - 1 \in Nat /\ Min(zeros) - 1 <= Len(s)
    BY <2>2
  <2> QED
    BY <2>3, <2>4, SubSeqTyped
<1> QED
  BY <1>1, <1>2

LEMMA BlankTyped ==
    ASSUME NEW s \in Seq(Written)
    PROVE  Blank(s) \in 0..Len(s)
<1> DEFINE crlf == {n \in 1..Len(s) : s[n] = "crlf"}
           lf == {n \in 1..Len(s) : s[n] = "lf"}
<1>1. /\ SelectInSeq(s, LAMBDA t : t = "crlf") = IF crlf # {} THEN Min(crlf) ELSE 0
      /\ SelectInSeq(s, LAMBDA t : t = "lf") = IF lf # {} THEN Min(lf) ELSE 0
  BY DEF SelectInSeq
<1>2. crlf # {} => Min(crlf) \in 1..Len(s)
  <2>1. crlf \subseteq Nat
    OBVIOUS
  <2> QED
    BY <2>1, MinIsLeast
<1>3. lf # {} => Min(lf) \in 1..Len(s)
  <2>1. lf \subseteq Nat
    OBVIOUS
  <2> QED
    BY <2>1, MinIsLeast
<1>4. Blank(s) \in {0, Min(crlf), Min(lf)} /\ (Blank(s) = 0 \/ (Blank(s) = Min(crlf) /\ crlf # {}) \/ (Blank(s) = Min(lf) /\ lf # {}))
  BY <1>1 DEF Blank
<1> QED
  BY <1>2, <1>3, <1>4

-----------------------------------------------------------------------------
(* Types *)

FilesTyped ==
    /\ uploads \in 0..UPLOADS
    /\ dir \in [Name -> 0..NoInode]
    /\ data \in [Inode -> Seq(Unit)]
    /\ sole \in [Inode -> SoleType]

JobsTyped == DOMAIN jobs = Conn /\ \A c \in Conn : JobType(jobs[c])

LEMMA TypeParts == TypeOK <=> FilesTyped /\ JobsTyped
BY DEF TypeOK, FilesTyped, JobsTyped, JobType, SoleType

LEMMA TypePartsNext == TypeOK' <=> FilesTyped' /\ JobsTyped'
BY DEF TypeOK, FilesTyped, JobsTyped, JobType, SoleType

LEMMA IdleTyped == NoJob \in JobOf(Unit) /\ Page \in JobOf(Unit) /\ JobType(NoJob) /\ JobType(Page)
<1>1. UPLOADS \in Nat
  BY TransfersAssumption
<1>2. NoJob \in JobOf(Unit)
  BY <1>1, NothingTyped DEF NoJob, JobOf, NoInode
<1>3. Page \in JobOf(Unit)
  BY <1>2 DEF Page, JobOf
<1> QED
  BY <1>2, <1>3 DEF JobType, NoJob, Page

-----------------------------------------------------------------------------
(* What makes a job of a job *)

LEMMA DownloadTyped ==
    ASSUME NEW e \in JobOf(Unit), NEW ino \in 0..NoInode, NEW said \in Nat, NEW was \in Seq(Unit),
           NEW clean \in BOOLEAN
    PROVE  [e EXCEPT !.kind = "get", !.ino = ino, !.said = said, !.was = was, !.clean = clean] \in JobOf(Unit)
BY Zenon DEF JobOf

LEMMA UploadTyped ==
    ASSUME NEW e \in JobOf(Unit), NEW ino \in 0..NoInode, NEW id \in 0..UPLOADS, NEW body \in Seq(Unit),
           NEW whole \in Seq(Unit)
    PROVE  [e EXCEPT !.kind = "post", !.ino = ino, !.id = id, !.body = body, !.whole = whole] \in JobOf(Unit)
BY Zenon DEF JobOf

\* What the parser takes for a body is no shorter than the file part of it.
LEMMA ParsedTyped ==
    ASSUME NEW k \in 0..UPLOADS, NEW size \in Nat
    PROVE  /\ Parsed(k, size) \in Seq(Unit)
           /\ Len(Units(k, size)) <= Len(Parsed(k, size))
<1> DEFINE edge == [of |-> k, n |-> 0]
           part == Units(k, size)
<1>1. edge \in Unit
  BY DEF Unit
<1>2. part \in Seq(Unit)
  BY UnitsTyped, TransfersAssumption
<1>3. Parsed(k, size) = IF k \in Forms THEN <<edge>> \o part \o <<edge>> ELSE part
  BY DEF Parsed
<1> HIDE DEF edge, part
<1>4. /\ <<edge>> \o part \o <<edge>> \in Seq(Unit)
      /\ Len(<<edge>> \o part \o <<edge>>) = Len(part) + 2
  BY <1>1, <1>2
<1>5. Len(part) \in Nat
  BY <1>2
<1> QED
  BY <1>2, <1>3, <1>4, <1>5 DEF part

LEMMA ScriptTyped ==
    ASSUME NEW e \in JobOf(Written), NEW body \in Seq(Written)
    PROVE  [e EXCEPT !.kind = "cgi", !.body = body] \in JobOf(Written)
BY Zenon DEF JobOf

LEMMA FurtherTyped ==
    ASSUME NEW e \in JobOf(Unit), NEW off \in Nat
    PROVE  [e EXCEPT !.off = off] \in JobOf(Unit)
BY Zenon DEF JobOf

\* A step that gives one connection a job of the right type.
LEMMA OneJob ==
    ASSUME JobsTyped, NEW c \in Conn, NEW job, JobType(job), jobs' = [jobs EXCEPT ![c] = job]
    PROVE  JobsTyped'
BY DEF JobsTyped, JobType

LEMMA GetTyped ==
    ASSUME TypeOK, NEW c \in Conn, NEW name \in Name, Get(c, name)
    PROVE  TypeOK'
<1> DEFINE job == [NoJob EXCEPT !.kind = "get", !.ino = dir[name], !.said = LengthOf(dir[name]),
                                !.was = data[dir[name]], !.clean = ~InUpload(dir[name])]
<1>1. FilesTyped /\ JobsTyped /\ UPLOADS \in Nat
  BY TypeParts, TransfersAssumption
<1>2. dir[name] \in Inode /\ data[dir[name]] \in Seq(Unit)
  BY <1>1 DEF Get, FilesTyped, Inode, NoInode
<1>3. (~InUpload(dir[name])) \in BOOLEAN /\ LengthOf(dir[name]) \in Nat
  BY <1>2 DEF InUpload, LengthOf
<1>4. job \in JobOf(Unit)
  <2>1. dir[name] \in 0..NoInode
    BY <1>1, <1>2 DEF Inode, NoInode
  <2> QED
    BY <1>2, <1>3, <2>1, IdleTyped, DownloadTyped
<1>5. job.kind = "get" /\ job.ino = dir[name]
  BY DEF NoJob
<1>6. jobs' = [jobs EXCEPT ![c] = job] /\ FilesTyped'
  BY <1>1 DEF Get, Begin, FilesTyped
<1> HIDE DEF job
<1>7. JobType(job)
  BY <1>2, <1>4, <1>5 DEF JobType
<1> QED
  BY <1>1, <1>6, <1>7, OneJob, TypePartsNext

\* GetMissing, Delete: the answer is a page.
LEMMA PageTyped ==
    ASSUME TypeOK, NEW c \in Conn, NEW name \in Name, GetMissing(c, name) \/ Delete(c, name)
    PROVE  TypeOK'
<1>1. FilesTyped /\ JobsTyped /\ UPLOADS \in Nat
  BY TypeParts, TransfersAssumption
<1>2. jobs' = [jobs EXCEPT ![c] = Page]
  BY DEF GetMissing, Delete, Begin
<1>3. FilesTyped'
  BY <1>1 DEF GetMissing, Delete, FilesTyped, NoInode
<1> QED
  BY <1>1, <1>2, <1>3, OneJob, IdleTyped, TypePartsNext

LEMMA ReadTyped ==
    ASSUME TypeOK, NEW c \in Conn, ReadSome(c) \/ ReadEnd(c)
    PROVE  TypeOK'
<1>1. FilesTyped /\ JobsTyped
  BY TypeParts
<1>2. FilesTyped'
  BY <1>1 DEF ReadSome, ReadEnd, FilesTyped
<1>3. JobType(jobs[c]) /\ jobs[c].kind = "get" /\ jobs[c].ino \in Inode
  BY <1>1 DEF JobsTyped, ReadSome, ReadEnd, Reading, JobType
<1>4. CASE ReadSome(c)
  <2> DEFINE job == jobs[c]
             old == data[job.ino]
             n == Least(READ, Len(old) - job.off)
             piece == SubSeq(old, job.off + 1, job.off + n)
  <2>1. old \in Seq(Unit) /\ job.off \in Nat /\ job.got \in Seq(Unit) /\ job.off < Len(old)
    BY <1>1, <1>3, <1>4 DEF FilesTyped, ReadSome, JobType, JobOf
  <2>2. n \in Nat /\ job.off + n <= Len(old)
    BY <2>1, TransfersAssumption, SMTT(30) DEF Least
  <2>3. piece \in Seq(Unit)
    BY <2>1, <2>2, SubSeqTyped, SMTT(30)
  <2>4. jobs' = [jobs EXCEPT ![c] = [job EXCEPT !.got = @ \o piece, !.off = @ + n]]
    BY <1>4 DEF ReadSome, ReadOn
  <2>5. job.got \o piece \in Seq(Unit) /\ job.off + n \in Nat
    BY <2>1, <2>2, <2>3
  <2> HIDE DEF piece, n
  <2>6. JobType([job EXCEPT !.got = @ \o piece, !.off = @ + n])
    BY <1>3, <2>5 DEF JobType, JobOf
  <2> QED
    BY <1>1, <1>2, <2>4, <2>6, OneJob, TypePartsNext
<1>5. CASE ReadEnd(c)
  <2>1. jobs' = [jobs EXCEPT ![c] = [jobs[c] EXCEPT !.ready = TRUE]]
    BY <1>5 DEF ReadEnd
  <2>2. JobType([jobs[c] EXCEPT !.ready = TRUE])
    BY <1>3 DEF JobType, JobOf
  <2> QED
    BY <1>1, <1>2, <2>1, <2>2, OneJob, TypePartsNext
<1> QED
  BY <1>4, <1>5

LEMMA PostTyped ==
    ASSUME TypeOK, NEW c \in Conn, NEW name \in Name, NEW size \in Sizes, Post(c, name, size)
    PROVE  TypeOK'
<1> DEFINE k == uploads + 1
           ino == Opened(name, k)
           body == Units(k, size)
           whole == Parsed(k, size)
           job == [NoJob EXCEPT !.kind = "post", !.ino = ino, !.id = k, !.body = body, !.whole = whole]
<1>1. FilesTyped /\ JobsTyped /\ UPLOADS \in Nat
  BY TypeParts, TransfersAssumption
<1>2. k \in 0..UPLOADS
  BY <1>1 DEF Post, FilesTyped
<1>3. ino \in Inode
  BY <1>1, <1>2 DEF Opened, FilesTyped, Inode, NoInode
<1>4. body \in Seq(Unit) /\ whole \in Seq(Unit)
  BY <1>2, UnitsTyped, ParsedTyped, TransfersAssumption
<1> HIDE DEF body, whole
<1>5. job \in JobOf(Unit)
  <2>1. ino \in 0..NoInode
    BY <1>1, <1>3 DEF Inode, NoInode
  <2> QED
    BY <1>2, <1>4, <2>1, IdleTyped, UploadTyped
<1>6. JobType(job)
  <2>1. job.kind = "post" /\ job.ino = ino
    BY DEF NoJob
  <2> QED
    BY <1>3, <1>5, <2>1 DEF JobType
<1>7. \A d \in Conn : JobType([jobs[d] EXCEPT !.clean = FALSE])
  BY <1>1, ZenonT(40) DEF JobsTyped, JobType, JobOf
<1>8. /\ uploads' = k /\ dir' = [dir EXCEPT ![name] = ino] /\ data' = [data EXCEPT ![ino] = <<>>]
      /\ jobs' = [d \in Conn |-> IF d = c THEN job
                                ELSE IF Reading(d) /\ jobs[d].ino = ino THEN [jobs[d] EXCEPT !.clean = FALSE]
                                ELSE jobs[d]]
      /\ sole' = [sole EXCEPT ![ino] = IF InUpload(ino) THEN Nobody ELSE [id |-> k, body |-> body]]
  BY DEF Post, body, whole
<1> HIDE DEF job, ino, k
<1>9. JobsTyped'
  <2>1. \A d \in Conn : JobType(jobs'[d])
    BY <1>1, <1>6, <1>7, <1>8 DEF JobsTyped
  <2>2. DOMAIN jobs' = Conn
    BY <1>8
  <2> QED
    BY <2>1, <2>2 DEF JobsTyped, JobType
<1>10. FilesTyped'
  <2>1. Nobody \in SoleType /\ [id |-> k, body |-> body] \in SoleType
    BY <1>1, <1>2, <1>4, NothingTyped DEF Nobody, SoleType
  <2>2. ino \in 0..NoInode
    BY <1>1, <1>3 DEF Inode, NoInode
  <2> QED
    BY <1>1, <1>2, <1>3, <1>8, <2>1, <2>2, NothingTyped DEF FilesTyped
<1> QED
  BY <1>9, <1>10, TypePartsNext

LEMMA AbandonedTyped ==
    ASSUME FilesTyped, NEW job
    PROVE  GivenUp(job) \in [Inode -> SoleType] /\ Abandoned(job) \in [Inode -> SoleType]
<1>1. Nobody \in SoleType
  BY TransfersAssumption, NothingTyped DEF Nobody, SoleType
<1> QED
  BY <1>1 DEF GivenUp, Abandoned, FilesTyped

LEMMA MoreTyped ==
    ASSUME TypeOK, NEW c \in Conn, MoreArrives(c)
    PROVE  TypeOK'
<1> DEFINE job == [jobs[c] EXCEPT !.body = jobs[c].whole]
<1>1. FilesTyped /\ JobsTyped
  BY TypeParts
<1>2. JobType(jobs[c]) /\ jobs[c].kind = "post"
  BY <1>1 DEF JobsTyped, MoreArrives
<1>3. JobType(job)
  BY <1>2 DEF JobType, JobOf
<1>4. FilesTyped'
  BY <1>1, AbandonedTyped DEF MoreArrives, FilesTyped
<1>5. jobs' = [jobs EXCEPT ![c] = job]
  BY DEF MoreArrives
<1> HIDE DEF job
<1> QED
  BY <1>1, <1>3, <1>4, <1>5, OneJob, TypePartsNext

\* WriteEnd, Sent, CloseClient: the transfer is over.
LEMMA EndTyped ==
    ASSUME TypeOK, NEW c \in Conn, WriteEnd(c) \/ Sent(c) \/ CloseClient(c)
    PROVE  TypeOK'
<1>1. FilesTyped /\ JobsTyped
  BY TypeParts
<1>2. Abandoned(jobs[c]) \in [Inode -> SoleType]
  BY <1>1, AbandonedTyped
<1>3. FilesTyped'
  BY <1>1, <1>2 DEF WriteEnd, Sent, CloseClient, FilesTyped
<1>4. jobs' = [jobs EXCEPT ![c] = Page] \/ jobs' = [jobs EXCEPT ![c] = NoJob]
  BY DEF WriteEnd, Sent, CloseClient
<1> QED
  BY <1>1, <1>3, <1>4, OneJob, IdleTyped, TypePartsNext

LEMMA WriteTyped ==
    ASSUME TypeOK, NEW c \in Conn, NEW n \in Nat, WriteSome(c, n)
    PROVE  TypeOK'
<1> DEFINE job == jobs[c]
           next == [job EXCEPT !.off = @ + n]
<1>1. FilesTyped /\ JobsTyped
  BY TypeParts
<1>2. JobType(job) /\ job.kind = "post" /\ job.ino \in Inode
  BY <1>1 DEF JobsTyped, WriteSome, JobType
<1>3. job.off \in Nat /\ job.body \in Seq(Unit)
  BY <1>2 DEF JobType, JobOf
<1>4. n \in 1..(Len(job.body) - job.off)
  BY DEF WriteSome
<1>5. Piece(job, n) \in Seq(Unit)
  BY <1>3, <1>4, SubSeqTyped DEF Piece
<1>6. WriteAt(data[job.ino], job.off, Piece(job, n)) \in Seq(Unit)
  BY <1>1, <1>2, <1>3, <1>5, WriteAtTyped DEF FilesTyped
<1>7. FilesTyped'
  BY <1>1, <1>2, <1>6 DEF WriteSome, FilesTyped
<1>8. JobType(next)
  <2>1. job \in JobOf(Unit) /\ job.off + n \in Nat
    BY <1>2, <1>3 DEF JobType
  <2>2. next \in JobOf(Unit)
    BY <2>1, FurtherTyped
  <2>3. next.kind = "post" /\ next.ino = job.ino
    BY <1>2, <2>1 DEF JobOf
  <2> QED
    BY <1>2, <2>2, <2>3 DEF JobType
<1>9. jobs' = [jobs EXCEPT ![c] = Page] \/ jobs' = [jobs EXCEPT ![c] = next]
  BY DEF WriteSome
<1> HIDE DEF next
<1> QED
  BY <1>1, <1>7, <1>8, <1>9, OneJob, IdleTyped, TypePartsNext

LEMMA CgiTyped ==
    ASSUME TypeOK, NEW c \in Conn, NEW output \in Outputs[c], Cgi(c, output)
    PROVE  TypeOK'
<1> DEFINE job == [NoJob EXCEPT !.kind = "cgi", !.body = output]
<1>1. FilesTyped /\ JobsTyped /\ UPLOADS \in Nat
  BY TypeParts, TransfersAssumption
<1>2. output \in Seq(Written)
  BY OutputsAssumption
<1>3. job \in JobOf(Written)
  <2>1. NoJob \in JobOf(Written)
    BY <1>1, NothingTyped DEF JobOf, NoJob, NoInode
  <2> QED
    BY <1>2, <2>1, ScriptTyped
<1>4. JobType(job)
  <2>1. job.kind = "cgi"
    BY DEF NoJob
  <2> QED
    BY <1>3, <2>1 DEF JobType
<1>5. jobs' = [jobs EXCEPT ![c] = job] /\ FilesTyped'
  BY <1>1 DEF Cgi, Begin, FilesTyped
<1> HIDE DEF job
<1> QED
  BY <1>1, <1>4, <1>5, OneJob, TypePartsNext

LEMMA CgiResponseTyped ==
    ASSUME NEW job, JobType(job), job.kind = "cgi", NEW ok \in BOOLEAN
    PROVE  JobType(CgiResponse(job, ok))
<1>1. job.got \in Seq(Written) /\ job \in JobOf(Written)
  BY DEF JobType, JobOf
<1>2. Blank(job.got) \in 0..Len(job.got)
  BY <1>1, BlankTyped
<1> DEFINE body == SubSeq(job.got, Blank(job.got) + 1, Len(job.got))
<1>3. body \in Seq(Written)
  BY <1>1, <1>2, SubSeqTyped
<1>4. Len(body) \in Nat
  BY <1>3
<1>5. CgiResponse(job, ok) = IF ok THEN [job EXCEPT !.got = body, !.said = Len(body), !.ready = TRUE] ELSE Page
  BY DEF CgiResponse
<1> HIDE DEF body
<1>6. [job EXCEPT !.got = body, !.said = Len(body), !.ready = TRUE] \in JobOf(Written)
  BY <1>1, <1>3, <1>4 DEF JobOf
<1>7. JobType([job EXCEPT !.got = body, !.said = Len(body), !.ready = TRUE])
  BY <1>1, <1>6 DEF JobType, JobOf
<1> QED
  BY <1>5, <1>7, IdleTyped

LEMMA CgiReadTyped ==
    ASSUME TypeOK, NEW c \in Conn, NEW n \in Nat, NEW hup \in BOOLEAN, CgiRead(c, n, hup)
    PROVE  TypeOK'
<1> DEFINE job == jobs[c]
           got == job.got \o CString(SubSeq(job.body, job.off + 1, job.off + n))
           cut == hup /\ job.off + n < Len(job.body)
           read == [job EXCEPT !.got = got, !.off = @ + n, !.cut = cut]
<1>1. FilesTyped /\ JobsTyped
  BY TypeParts
<1>2. JobType(job) /\ job.kind = "cgi" /\ n \in 1..Least(PIPE, Len(job.body) - job.off)
  BY <1>1 DEF JobsTyped, CgiRead, JobType
<1>3. job.off \in Nat /\ job.body \in Seq(Written) /\ job.got \in Seq(Written) /\ job \in JobOf(Written)
  BY <1>2 DEF JobType, JobOf
<1>4. job.off + n <= Len(job.body)
  BY <1>2, <1>3, TransfersAssumption DEF Least
<1>5. got \in Seq(Written)
  <2>1. SubSeq(job.body, job.off + 1, job.off + n) \in Seq(Written)
    BY <1>3, <1>4, SubSeqTyped
  <2> DEFINE more == CString(SubSeq(job.body, job.off + 1, job.off + n))
  <2>2. more \in Seq(Written)
    BY <2>1, CStringTyped
  <2> HIDE DEF more
  <2>3. job.got \o more \in Seq(Written)
    BY <1>3, <2>2
  <2> QED
    BY <2>3 DEF more
<1>6. cut \in BOOLEAN /\ job.off + n \in Nat
  BY <1>3
<1>7. \E ok \in BOOLEAN : jobs' = [jobs EXCEPT ![c] = IF hup THEN CgiResponse(read, ok) ELSE read]
  BY DEF CgiRead
<1> HIDE DEF got, cut
<1>8. read \in JobOf(Written) /\ read.kind = "cgi"
  BY <1>2, <1>3, <1>5, <1>6 DEF JobOf
<1> HIDE DEF read
<1>9. JobType(read)
  BY <1>8 DEF JobType
<1>10. FilesTyped'
  BY <1>1 DEF CgiRead, FilesTyped
<1>11. PICK ok \in BOOLEAN : jobs' = [jobs EXCEPT ![c] = IF hup THEN CgiResponse(read, ok) ELSE read]
  BY <1>7
<1>12. JobType(CgiResponse(read, ok))
  BY <1>8, <1>9, CgiResponseTyped
<1> QED
  BY <1>1, <1>9, <1>10, <1>11, <1>12, OneJob, TypePartsNext

LEMMA CgiEndTyped ==
    ASSUME TypeOK, NEW c \in Conn, NEW ok \in BOOLEAN, CgiEnd(c, ok)
    PROVE  TypeOK'
<1>1. FilesTyped /\ JobsTyped
  BY TypeParts
<1>2. JobType(jobs[c]) /\ jobs[c].kind = "cgi"
  BY <1>1 DEF JobsTyped, CgiEnd, JobType
<1>3. JobType(CgiResponse(jobs[c], ok))
  BY <1>2, CgiResponseTyped
<1>4. FilesTyped' /\ jobs' = [jobs EXCEPT ![c] = CgiResponse(jobs[c], ok)]
  BY <1>1 DEF CgiEnd, FilesTyped
<1> QED
  BY <1>1, <1>3, <1>4, OneJob, TypePartsNext

LEMMA TypeInit == Init => TypeOK
<1> SUFFICES ASSUME Init PROVE TypeOK
  OBVIOUS
<1>1. UPLOADS \in Nat /\ Sizes \subseteq Nat
  BY TransfersAssumption
<1>2. JobsTyped
  BY IdleTyped DEF Init, JobsTyped
<1>3. \A s \in Sizes : Units(0, s) \in Seq(Unit)
  BY <1>1, UnitsTyped
<1>4. data \in [Inode -> Seq(Unit)]
  BY <1>3, NothingTyped DEF Init
<1>5. Nobody \in SoleType
  BY <1>1, NothingTyped DEF Nobody, SoleType
<1>6. FilesTyped
  BY <1>1, <1>4, <1>5 DEF Init, FilesTyped, NoInode
<1> QED
  BY <1>2, <1>6, TypeParts

LEMMA TypeNext == TypeOK /\ [Next]_vars => TypeOK'
<1> SUFFICES ASSUME TypeOK, [Next]_vars PROVE TypeOK'
  OBVIOUS
<1>1. CASE UNCHANGED vars
  BY <1>1 DEF TypeOK, vars
<1>2. ASSUME NEW c \in Conn, NEW n \in Name, Get(c, n) PROVE TypeOK'
  BY <1>2, GetTyped
<1>3. ASSUME NEW c \in Conn, NEW n \in Name, GetMissing(c, n) \/ Delete(c, n) PROVE TypeOK'
  BY <1>3, PageTyped
<1>4. ASSUME NEW c \in Conn, NEW n \in Name, NEW s \in Sizes, Post(c, n, s) PROVE TypeOK'
  BY <1>4, PostTyped
<1>5. ASSUME NEW c \in Conn, NEW o \in Outputs[c], Cgi(c, o) PROVE TypeOK'
  BY <1>5, CgiTyped
<1>6. ASSUME NEW c \in Conn, ReadSome(c) \/ ReadEnd(c) PROVE TypeOK'
  BY <1>6, ReadTyped
<1>7. ASSUME NEW c \in Conn, NEW n \in 1..Len(jobs[c].body), WriteSome(c, n) PROVE TypeOK'
  BY <1>7, WriteTyped
<1>8. ASSUME NEW c \in Conn, NEW n \in 1..Len(jobs[c].body), NEW hup \in BOOLEAN, CgiRead(c, n, hup) PROVE TypeOK'
  BY <1>8, CgiReadTyped
<1>9. ASSUME NEW c \in Conn, NEW ok \in BOOLEAN, CgiEnd(c, ok) PROVE TypeOK'
  BY <1>9, CgiEndTyped
<1>10. ASSUME NEW c \in Conn, WriteEnd(c) \/ Sent(c) \/ CloseClient(c) PROVE TypeOK'
  BY <1>10, EndTyped
<1>11. ASSUME NEW c \in Conn, MoreArrives(c) PROVE TypeOK'
  BY <1>11, MoreTyped
<1> QED
  BY <1>1, <1>2, <1>3, <1>4, <1>5, <1>6, <1>7, <1>8, <1>9, <1>10, <1>11 DEF Next, Build, Transfer

\* Every variable keeps its type: an upload never goes on without a file, and
\* what is read, written, cut at a zero or split at a blank line lies within
\* what there is, for any number of connections, files and uploads.
THEOREM TransfersTyped == Spec => []TypeOK
BY TypeInit, TypeNext, PTL DEF Spec

-----------------------------------------------------------------------------
(* Downloads *)

\* What has been read of a file is the beginning of what it was when it was
\* opened, and the rest of it is still there, as long as no upload has had it
\* open meanwhile.
FaithfulSoFar(c) ==
    LET job == jobs[c] IN
    /\ job.said = Len(job.was)
    /\ job.clean => /\ job.off \in 0..Len(job.was)
                    /\ job.got = SubSeq(job.was, 1, job.off)
                    /\ job.ready => job.off = Len(job.was)
                    /\ ~job.ready => data[job.ino] = job.was /\ ~InUpload(job.ino)

DownloadInv == \A c \in Conn : jobs[c].kind = "get" => FaithfulSoFar(c)

\* Steps that give c a job that is no transfer of a file, and leave files alone.
Quiet(c) ==
    /\ data' = data
    /\ jobs'[c].kind \in {"none", "page", "cgi"}
    /\ \A d \in Conn \ {c} : jobs'[d] = jobs[d]

LEMMA CgiKind ==
    ASSUME NEW job, JobType(job), job.kind = "cgi", NEW ok
    PROVE  CgiResponse(job, ok).kind \in {"page", "cgi"}
<1>1. ASSUME NEW got, NEW said
      PROVE [job EXCEPT !.got = got, !.said = said, !.ready = TRUE].kind = "cgi"
  BY DEF JobType, JobOf
<1>2. Page.kind = "page"
  BY DEF Page, NoJob
<1> QED
  BY <1>1, <1>2 DEF CgiResponse

LEMMA QuietSteps ==
    ASSUME TypeOK, NEW c \in Conn,
           \/ \E n \in Name : GetMissing(c, n) \/ Delete(c, n)
           \/ \E o \in Outputs[c] : Cgi(c, o)
           \/ \E n \in 1..Len(jobs[c].body), hup \in BOOLEAN : CgiRead(c, n, hup)
           \/ \E ok \in BOOLEAN : CgiEnd(c, ok)
           \/ WriteEnd(c) \/ Sent(c) \/ CloseClient(c)
    PROVE  Quiet(c)
<1>1. NoJob.kind = "none" /\ Page.kind = "page" /\ \A o : [NoJob EXCEPT !.kind = "cgi", !.body = o].kind = "cgi"
  BY DEF NoJob, Page
<1>2. JobType(jobs[c])
  BY TypeParts DEF JobsTyped
<1>3. ASSUME NEW n \in 1..Len(jobs[c].body), NEW hup \in BOOLEAN, CgiRead(c, n, hup) PROVE Quiet(c)
  <2> DEFINE read == [jobs[c] EXCEPT !.got = @ \o CString(SubSeq(jobs[c].body, jobs[c].off + 1, jobs[c].off + n)),
                                     !.off = @ + n, !.cut = hup /\ jobs[c].off + n < Len(jobs[c].body)]
  <2>1. PICK ok \in BOOLEAN : jobs' = [jobs EXCEPT ![c] = IF hup THEN CgiResponse(read, ok) ELSE read]
    BY <1>3 DEF CgiRead
  <2>2. jobs[c].kind = "cgi" /\ data' = data
    BY <1>3 DEF CgiRead
  <2>3. read.kind = "cgi"
    BY <1>2, <2>2 DEF JobType, JobOf
  <2>4. (IF ok THEN [read EXCEPT !.got = SubSeq(read.got, Blank(read.got) + 1, Len(read.got)),
                                 !.said = Len(SubSeq(read.got, Blank(read.got) + 1, Len(read.got))),
                                 !.ready = TRUE] ELSE Page).kind \in {"page", "cgi"}
    BY <1>1, <1>2, <2>2 DEF JobType, JobOf
  <2>5. CgiResponse(read, ok).kind \in {"page", "cgi"}
    BY <2>4 DEF CgiResponse
  <2> HIDE DEF read
  <2> DEFINE next == IF hup THEN CgiResponse(read, ok) ELSE read
  <2>6. next.kind \in {"none", "page", "cgi"}
    BY <2>3, <2>5
  <2>7. jobs' = [jobs EXCEPT ![c] = next]
    BY <2>1
  <2> HIDE DEF next
  <2> QED
    BY <2>2, <2>6, <2>7 DEF Quiet, TypeOK
<1>4. ASSUME NEW ok \in BOOLEAN, CgiEnd(c, ok) PROVE Quiet(c)
  <2>1. jobs[c].kind = "cgi" /\ data' = data /\ jobs' = [jobs EXCEPT ![c] = CgiResponse(jobs[c], ok)]
    BY <1>4 DEF CgiEnd
  <2>2. CgiResponse(jobs[c], ok).kind \in {"none", "page", "cgi"}
    BY <1>2, <2>1, CgiKind
  <2> QED
    BY <2>1, <2>2 DEF Quiet, TypeOK
<1>5. ASSUME NEW o \in Outputs[c], Cgi(c, o) PROVE Quiet(c)
  <2> DEFINE next == [NoJob EXCEPT !.kind = "cgi", !.body = o]
  <2>1. jobs' = [jobs EXCEPT ![c] = next] /\ data' = data
    BY <1>5 DEF Cgi, Begin
  <2>2. next.kind \in {"none", "page", "cgi"}
    BY <1>1
  <2> HIDE DEF next
  <2> QED
    BY <2>1, <2>2 DEF Quiet, TypeOK
<1>6. ASSUME NEW n \in Name, GetMissing(c, n) \/ Delete(c, n) PROVE Quiet(c)
  <2>1. jobs' = [jobs EXCEPT ![c] = Page] /\ data' = data
    BY <1>6 DEF GetMissing, Delete, Begin
  <2> QED
    BY <1>1, <2>1 DEF Quiet, TypeOK
<1>7. ASSUME WriteEnd(c) \/ Sent(c) \/ CloseClient(c) PROVE Quiet(c)
  <2>1. (jobs' = [jobs EXCEPT ![c] = Page] \/ jobs' = [jobs EXCEPT ![c] = NoJob]) /\ data' = data
    BY <1>7 DEF WriteEnd, Sent, CloseClient
  <2> QED
    BY <1>1, <2>1 DEF Quiet, TypeOK
<1> QED
  BY <1>3, <1>4, <1>5, <1>6, <1>7

\* What others have downloaded stays faithful while files are left alone and
\* nobody begins an upload.
LEMMA OthersFaithful ==
    ASSUME DownloadInv, NEW c \in Conn, NEW d \in Conn, jobs'[d] = jobs[d], jobs'[d].kind = "get", data' = data,
           \A i : InUpload(i)' => InUpload(i)
    PROVE  FaithfulSoFar(d)'
BY DEF DownloadInv, FaithfulSoFar

LEMMA QuietDownloads ==
    ASSUME TypeOK, DownloadInv, NEW c \in Conn, Quiet(c)
    PROVE  DownloadInv'
<1>1. jobs'[c].kind \notin {"get", "post"} /\ \A d \in Conn \ {c} : jobs'[d] = jobs[d]
  BY DEF Quiet
<1>2. \A i : InUpload(i)' => InUpload(i)
  BY <1>1 DEF InUpload, Uploading
<1> SUFFICES ASSUME NEW d \in Conn, jobs'[d].kind = "get" PROVE FaithfulSoFar(d)'
  BY DEF DownloadInv
<1> QED
  BY <1>1, <1>2, OthersFaithful DEF Quiet

LEMMA GetDownloads ==
    ASSUME TypeOK, DownloadInv, NEW c \in Conn, NEW name \in Name, Get(c, name)
    PROVE  DownloadInv'
<1> DEFINE was == data[dir[name]]
           clean == ~InUpload(dir[name])
           job == [NoJob EXCEPT !.kind = "get", !.ino = dir[name], !.said = Len(was), !.was = was, !.clean = clean]
<1>1. jobs' = [jobs EXCEPT ![c] = job] /\ data' = data
  BY DEF Get, Begin, LengthOf
<1>2. jobs'[c] = job /\ \A d \in Conn \ {c} : jobs'[d] = jobs[d]
  BY <1>1 DEF TypeOK
<1>3. /\ job.kind = "get" /\ job.ino = dir[name] /\ job.said = Len(was) /\ job.was = was /\ job.clean = clean
      /\ job.off = 0 /\ job.got = <<>> /\ job.ready = FALSE
  BY DEF NoJob
<1>4. \A i : InUpload(i)' => InUpload(i)
  BY <1>2, <1>3 DEF InUpload, Uploading
<1>5. was \in Seq(Unit)
  <2>1. dir[name] \in Inode
    BY TransfersAssumption DEF Get, TypeOK, Inode, NoInode
  <2> QED
    BY <2>1 DEF TypeOK
<1>6. 0 \in 0..Len(was) /\ SubSeq(was, 1, 0) = <<>>
  BY <1>5
<1> HIDE DEF job
<1>7. FaithfulSoFar(c)'
  BY <1>1, <1>2, <1>3, <1>4, <1>6 DEF FaithfulSoFar
<1> HIDE DEF was, clean
<1> SUFFICES ASSUME NEW d \in Conn, jobs'[d].kind = "get" PROVE FaithfulSoFar(d)'
  BY DEF DownloadInv
<1> QED
  BY <1>1, <1>2, <1>4, <1>7, OthersFaithful

LEMMA ReadDownloads ==
    ASSUME TypeOK, DownloadInv, NEW c \in Conn, ReadSome(c) \/ ReadEnd(c)
    PROVE  DownloadInv'
<1> DEFINE job == jobs[c]
<1>1. JobType(job) /\ job.kind = "get" /\ ~job.ready /\ job.ino \in Inode /\ data' = data
  BY TypeParts DEF JobsTyped, ReadSome, ReadEnd, Reading, JobType
<1>2. /\ job.off \in Nat /\ job.got \in Seq(Unit) /\ job.was \in Seq(Unit) /\ data[job.ino] \in Seq(Unit)
      /\ job \in JobOf(Unit)
  BY <1>1 DEF JobType, JobOf, TypeOK
<1>3. FaithfulSoFar(c)
  BY <1>1 DEF DownloadInv
<1>4. ASSUME NEW next, jobs' = [jobs EXCEPT ![c] = next], next.kind = "get", FaithfulSoFar(c)'
      PROVE DownloadInv'
  <2>1. jobs'[c] = next /\ \A d \in Conn \ {c} : jobs'[d] = jobs[d]
    BY <1>4 DEF TypeOK
  <2>2. \A i : InUpload(i)' => InUpload(i)
    BY <1>4, <2>1 DEF InUpload, Uploading
  <2> SUFFICES ASSUME NEW d \in Conn, jobs'[d].kind = "get" PROVE FaithfulSoFar(d)'
    BY DEF DownloadInv
  <2> QED
    BY <1>1, <1>4, <2>1, <2>2, OthersFaithful
<1>5. ASSUME NEW next, jobs' = [jobs EXCEPT ![c] = next], next.kind = "get" PROVE \A i : InUpload(i)' => InUpload(i)
  <2>1. jobs'[c] = next /\ \A d \in Conn \ {c} : jobs'[d] = jobs[d]
    BY <1>5 DEF TypeOK
  <2> QED
    BY <1>5, <2>1 DEF InUpload, Uploading
<1>6. CASE ReadSome(c)
  <2> DEFINE old == data[job.ino]
             n == Least(READ, Len(old) - job.off)
             piece == SubSeq(old, job.off + 1, job.off + n)
             next == [job EXCEPT !.got = @ \o piece, !.off = @ + n]
  <2>1. jobs' = [jobs EXCEPT ![c] = next] /\ job.off < Len(old)
    BY <1>6 DEF ReadSome, ReadOn
  <2>2. n \in Nat /\ job.off + n <= Len(old)
    BY <1>2, <2>1, TransfersAssumption, SMTT(30) DEF Least
  <2>3. /\ next.kind = "get" /\ next.ready = job.ready /\ next.ino = job.ino /\ next.said = job.said
        /\ next.was = job.was /\ next.clean = job.clean /\ next.off = job.off + n /\ next.got = job.got \o piece
    BY <1>1, <1>2 DEF JobOf
  <2>4. jobs'[c] = next
    BY <2>1 DEF TypeOK
  <2>5. job.off + n \in 0..Len(old) /\ SubSeq(old, 1, job.off) \o piece = SubSeq(old, 1, job.off + n)
    <3>1. n \in Nat /\ job.off \in Nat /\ old \in Seq(Unit) /\ job.off + n <= Len(old)
      BY <1>2, <2>2
    <3>2. SubSeq(old, 1, job.off) \o piece = SubSeq(old, 1, job.off + n)
      <4> HIDE DEF n, old
      <4> QED
        BY <3>1, SubSeqGrows
    <3> HIDE DEF n, old, piece, job
    <3>3. job.off + n \in 0..Len(old)
      BY <3>1
    <3> QED
      BY ONLY <3>2, <3>3
  <2> HIDE DEF next, piece, n
  <2>6. \A i : InUpload(i)' => InUpload(i)
    BY <1>5, <2>1, <2>3
  <2>7. FaithfulSoFar(c)'
    BY <1>1, <1>3, <2>3, <2>4, <2>5, <2>6 DEF FaithfulSoFar
  <2> QED
    BY <1>4, <2>1, <2>3, <2>7
<1>7. CASE ReadEnd(c)
  <2> DEFINE next == [job EXCEPT !.ready = TRUE]
  <2>1. jobs' = [jobs EXCEPT ![c] = next] /\ job.off >= Len(data[job.ino])
    BY <1>7 DEF ReadEnd, AtEnd
  <2>2. /\ next.kind = "get" /\ next.ino = job.ino /\ next.said = job.said /\ next.was = job.was
        /\ next.clean = job.clean /\ next.off = job.off /\ next.got = job.got /\ next.ready = TRUE
    BY <1>1, <1>2 DEF JobOf
  <2>3. jobs'[c] = next
    BY <2>1 DEF TypeOK
  <2>4. job.clean => job.off = Len(job.was)
    BY <1>1, <1>2, <1>3, <2>1 DEF FaithfulSoFar
  <2> HIDE DEF next
  <2>5. FaithfulSoFar(c)'
    BY <1>1, <1>3, <2>2, <2>3, <2>4 DEF FaithfulSoFar
  <2> QED
    BY <1>4, <2>1, <2>2, <2>5
<1> QED
  BY <1>6, <1>7

LEMMA PostDownloads ==
    ASSUME TypeOK, DownloadInv, NEW c \in Conn, NEW name \in Name, NEW size \in Sizes, Post(c, name, size)
    PROVE  DownloadInv'
<1> DEFINE ino == Opened(name, uploads + 1)
           job == [NoJob EXCEPT !.kind = "post", !.ino = ino, !.id = uploads + 1, !.body = Units(uploads + 1, size),
                                !.whole = Parsed(uploads + 1, size)]
<1>1. /\ data' = [data EXCEPT ![ino] = <<>>]
      /\ jobs' = [d \in Conn |-> IF d = c THEN job
                                ELSE IF Reading(d) /\ jobs[d].ino = ino THEN [jobs[d] EXCEPT !.clean = FALSE]
                                ELSE jobs[d]]
  BY DEF Post
<1>2. job.kind = "post" /\ job.ino = ino
  BY DEF NoJob
<1> HIDE DEF job, ino
<1> SUFFICES ASSUME NEW d \in Conn, jobs'[d].kind = "get" PROVE FaithfulSoFar(d)'
  BY DEF DownloadInv
<1>3. d # c
  BY <1>1, <1>2
<1>4. JobType(jobs[d])
  BY TypeParts DEF JobsTyped
<1>5. CASE Reading(d) /\ jobs[d].ino = ino
  <2>1. jobs'[d] = [jobs[d] EXCEPT !.clean = FALSE] /\ jobs[d].kind = "get"
    BY <1>1, <1>3, <1>5 DEF Reading
  <2>2. jobs'[d].said = jobs[d].said /\ jobs'[d].was = jobs[d].was /\ ~jobs'[d].clean
    BY <1>4, <2>1 DEF JobType, JobOf
  <2> QED
    BY <2>1, <2>2 DEF DownloadInv, FaithfulSoFar
<1>6. CASE ~(Reading(d) /\ jobs[d].ino = ino)
  <2>1. jobs'[d] = jobs[d] /\ FaithfulSoFar(d)
    BY <1>1, <1>3, <1>6 DEF DownloadInv
  <2>2. ~jobs[d].ready => jobs[d].ino # ino
    BY <1>6, <2>1 DEF Reading
  <2>3. ~jobs[d].ready => data'[jobs[d].ino] = data[jobs[d].ino]
    BY <1>1, <1>4, <2>1, <2>2 DEF TypeOK, JobType
  <2>4. \A e \in Conn : jobs'[e].kind = "post" => e = c \/ (jobs'[e] = jobs[e])
    <3> TAKE e \in Conn
    <3>1. Reading(e) => [jobs[e] EXCEPT !.clean = FALSE].kind = "get"
      <4>1. JobType(jobs[e])
        BY TypeParts DEF JobsTyped
      <4> QED
        BY <4>1 DEF Reading, JobType, JobOf
    <3> QED
      BY <1>1, <3>1
  <2>5. ~jobs[d].ready => (InUpload(jobs[d].ino)' => InUpload(jobs[d].ino))
    <3>1. jobs'[c] = job
      BY <1>1
    <3> QED
      BY <1>2, <2>1, <2>2, <2>4, <3>1 DEF InUpload, Uploading
  <2> QED
    BY <2>1, <2>3, <2>5 DEF FaithfulSoFar
<1> QED
  BY <1>5, <1>6

LEMMA WriteDownloads ==
    ASSUME TypeOK, DownloadInv, NEW c \in Conn, NEW n, WriteSome(c, n)
    PROVE  DownloadInv'
<1> DEFINE job == jobs[c]
<1>1. JobType(job) /\ job.kind = "post" /\ job.ino \in Inode
  BY TypeParts DEF JobsTyped, WriteSome, JobType
<1>2. PICK next : jobs' = [jobs EXCEPT ![c] = next] /\ (next.kind = "page" \/ (next.kind = "post" /\ next.ino = job.ino))
  <2>1. Page.kind = "page"
    BY DEF Page, NoJob
  <2>2. [job EXCEPT !.off = @ + n].kind = "post" /\ [job EXCEPT !.off = @ + n].ino = job.ino
    BY <1>1 DEF JobType, JobOf
  <2> QED
    BY <2>1, <2>2 DEF WriteSome
<1>3. jobs'[c] = next /\ \A d \in Conn \ {c} : jobs'[d] = jobs[d]
  BY <1>2 DEF TypeOK
<1>4. \A i : InUpload(i)' => InUpload(i)
  BY <1>1, <1>2, <1>3 DEF InUpload, Uploading
<1>5. \A i \in Inode : i # job.ino => data'[i] = data[i]
  BY DEF WriteSome, TypeOK
<1>6. InUpload(job.ino)
  BY <1>1 DEF InUpload, Uploading
<1> SUFFICES ASSUME NEW d \in Conn, jobs'[d].kind = "get" PROVE FaithfulSoFar(d)'
  BY DEF DownloadInv
<1>7. d # c /\ jobs'[d] = jobs[d] /\ FaithfulSoFar(d) /\ jobs[d].ino \in Inode
  BY <1>2, <1>3 DEF DownloadInv, TypeOK
<1> QED
  BY <1>4, <1>5, <1>6, <1>7 DEF FaithfulSoFar

LEMMA MoreDownloads ==
    ASSUME TypeOK, DownloadInv, NEW c \in Conn, MoreArrives(c)
    PROVE  DownloadInv'
<1> PICK job : job = [jobs[c] EXCEPT !.body = jobs[c].whole]
  OBVIOUS
<1>1. JobType(jobs[c]) /\ jobs[c].kind = "post"
  BY TypeParts DEF JobsTyped, MoreArrives
<1>2. job.kind = "post" /\ job.ino = jobs[c].ino
  BY <1>1 DEF JobType, JobOf
<1>3. jobs'[c] = job /\ (\A d \in Conn \ {c} : jobs'[d] = jobs[d]) /\ data' = data
  BY DEF MoreArrives, TypeOK
<1>4. \A i : InUpload(i)' => InUpload(i)
  BY <1>1, <1>2, <1>3 DEF InUpload, Uploading
<1> SUFFICES ASSUME NEW d \in Conn, jobs'[d].kind = "get" PROVE FaithfulSoFar(d)'
  BY DEF DownloadInv
<1>5. d # c
  BY <1>2, <1>3
<1> QED
  BY <1>3, <1>4, <1>5, OthersFaithful

LEMMA DownloadNext == TypeOK /\ DownloadInv /\ [Next]_vars => DownloadInv'
<1> SUFFICES ASSUME TypeOK, DownloadInv, [Next]_vars PROVE DownloadInv'
  OBVIOUS
<1>1. CASE UNCHANGED vars
  BY <1>1 DEF DownloadInv, FaithfulSoFar, InUpload, Uploading, vars
<1>2. ASSUME NEW c \in Conn, Quiet(c) PROVE DownloadInv'
  BY <1>2, QuietDownloads
<1>3. ASSUME NEW c \in Conn, NEW n \in Name, Get(c, n) PROVE DownloadInv'
  BY <1>3, GetDownloads
<1>4. ASSUME NEW c \in Conn, NEW n \in Name, NEW s \in Sizes, Post(c, n, s) PROVE DownloadInv'
  BY <1>4, PostDownloads
<1>5. ASSUME NEW c \in Conn, ReadSome(c) \/ ReadEnd(c) PROVE DownloadInv'
  BY <1>5, ReadDownloads
<1>6. ASSUME NEW c \in Conn, NEW n \in 1..Len(jobs[c].body), WriteSome(c, n) PROVE DownloadInv'
  BY <1>6, WriteDownloads
<1>7. ASSUME NEW c \in Conn, MoreArrives(c) PROVE DownloadInv'
  BY <1>7, MoreDownloads
<1> QED
  BY <1>1, <1>2, <1>3, <1>4, <1>5, <1>6, <1>7, QuietSteps DEF Next, Build, Transfer

\* A download that no upload of its file overlaps is what the file was when it
\* was opened, and as long as its Content-Length says, however many pieces it
\* is read in and whatever happens to its name meanwhile.
THEOREM Faithful == Spec => []DownloadsAreFaithful
<1>1. Init => DownloadInv
  BY DEF Init, DownloadInv, NoJob
<1>2. TypeOK /\ DownloadInv => DownloadsAreFaithful
  <2> SUFFICES ASSUME TypeOK, DownloadInv, NEW c \in Conn, jobs[c].kind = "get", jobs[c].ready, jobs[c].clean
               PROVE  jobs[c].got = jobs[c].was /\ jobs[c].said = Len(jobs[c].got)
    BY DEF DownloadsAreFaithful
  <2>1. jobs[c].was \in Seq(Unit)
    BY TypeParts DEF JobsTyped, JobType, JobOf
  <2>2. /\ jobs[c].said = Len(jobs[c].was) /\ jobs[c].off = Len(jobs[c].was)
        /\ jobs[c].got = SubSeq(jobs[c].was, 1, jobs[c].off)
    BY DEF DownloadInv, FaithfulSoFar
  <2>3. SubSeq(jobs[c].was, 1, Len(jobs[c].was)) = jobs[c].was
    BY <2>1, SubSeqFull
  <2> QED
    BY <2>2, <2>3
<1> QED
  BY <1>1, <1>2, TransfersTyped, DownloadNext, PTL DEF Spec

-----------------------------------------------------------------------------
(* Uploads *)

\* The upload that has had a file to itself has written the beginning of its
\* body and nothing else is there; when it is over, all of it.
WholeSoFar(i) ==
    /\ ~InUpload(i) => data[i] = sole[i].body
    /\ \A c \in Conn : Uploading(c, i) =>
          /\ jobs[c].id = sole[i].id /\ jobs[c].body = sole[i].body
          /\ data[i] = SubSeq(jobs[c].body, 1, jobs[c].off)
    /\ \A c, d \in Conn : Uploading(c, i) /\ Uploading(d, i) => c = d

\* An upload is over as soon as all of its body is written, and its body may
\* become longer, never shorter.
WithinBody(job) ==
    ~job.ready /\ job.off \in 0..Len(job.body) /\ Len(job.body) <= Len(job.whole)

UploadInv ==
    /\ \A c \in Conn : jobs[c].kind = "post" => WithinBody(jobs[c])
    /\ \A i \in Inode : sole[i] # Nobody => WholeSoFar(i)

\* Steps of a connection that is not uploading.
LEMMA OthersUploads ==
    ASSUME UploadInv, NEW c \in Conn, jobs[c].kind # "post", jobs'[c].kind # "post",
           \A d \in Conn \ {c} : jobs'[d] = jobs[d], data' = data, sole' = sole
    PROVE  UploadInv'
<1>1. \A d \in Conn : (jobs'[d].kind = "post") <=> (jobs[d].kind = "post")
  OBVIOUS
<1>2. \A d \in Conn : jobs'[d].kind = "post" => jobs'[d] = jobs[d]
  BY <1>1
<1>3. \A d \in Conn, i \in Inode : Uploading(d, i)' <=> Uploading(d, i)
  BY <1>1, <1>2 DEF Uploading
<1>4. \A i \in Inode : InUpload(i)' <=> InUpload(i)
  BY <1>3 DEF InUpload
<1>5. ASSUME NEW i \in Inode, WholeSoFar(i) PROVE WholeSoFar(i)'
  <2>1. \A d \in Conn : Uploading(d, i)' => jobs'[d] = jobs[d]
    BY <1>2 DEF Uploading
  <2> QED
    BY <1>3, <1>4, <1>5, <2>1 DEF WholeSoFar
<1> QED
  BY <1>2, <1>5 DEF UploadInv

\* An upload that is over has written all of its body, or its file is nobody's.
LEMMA EndUploads ==
    ASSUME TypeOK, UploadInv, NEW c \in Conn, jobs[c].kind = "post", Quiet(c), sole' = Abandoned(jobs[c])
    PROVE  UploadInv'
<1> DEFINE job == jobs[c]
<1>1. JobType(job) /\ job.ino \in Inode /\ job.body \in Seq(Unit) /\ job.off \in 0..Len(job.body)
  BY TypeParts DEF JobsTyped, JobType, JobOf, UploadInv, WithinBody
<1> PICK ino \in Inode : job.ino = ino
  BY <1>1
<1>2. jobs'[c].kind # "post" /\ (\A d \in Conn \ {c} : jobs'[d] = jobs[d]) /\ data' = data
  BY DEF Quiet
<1>3. \A d \in Conn : jobs'[d].kind = "post" => d # c /\ jobs'[d] = jobs[d]
  BY <1>2
<1>4. ASSUME NEW i \in Inode, sole'[i] # Nobody PROVE sole'[i] = sole[i] /\ sole[i] # Nobody
  BY <1>1, <1>4 DEF Abandoned, GivenUp, TypeOK
<1>5. ASSUME NEW i \in Inode, i # ino, sole'[i] # Nobody PROVE WholeSoFar(i)'
  <2>1. WholeSoFar(i) /\ sole'[i] = sole[i]
    BY <1>4, <1>5 DEF UploadInv
  <2>2. \A d \in Conn : Uploading(d, i)' <=> Uploading(d, i)
    BY <1>2, <1>3, <1>5 DEF Uploading
  <2>3. InUpload(i)' <=> InUpload(i)
    BY <2>2 DEF InUpload
  <2>4. \A d \in Conn : Uploading(d, i)' => jobs'[d] = jobs[d]
    BY <1>3 DEF Uploading
  <2> QED
    BY <1>2, <2>1, <2>2, <2>3, <2>4 DEF WholeSoFar
<1>6. ASSUME sole'[ino] # Nobody PROVE WholeSoFar(ino)'
  <2>1. WholeSoFar(ino) /\ sole'[ino] = sole[ino]
    BY <1>1, <1>4, <1>6 DEF UploadInv
  <2>2. Uploading(c, ino)
    BY DEF Uploading
  <2>3. job.id = sole[ino].id /\ job.body = sole[ino].body /\ data[ino] = SubSeq(job.body, 1, job.off)
    BY <2>1, <2>2 DEF WholeSoFar
  <2>4. job.off = Len(job.body)
    <3>1. ~(job.off < Len(job.body))
      <4> SUFFICES ASSUME job.off < Len(job.body) PROVE FALSE
        OBVIOUS
      <4>1. sole' = [sole EXCEPT ![ino] = Nobody]
        BY <2>3 DEF Abandoned, GivenUp
      <4>2. sole'[ino] = Nobody
        BY <1>1, <4>1 DEF TypeOK
      <4> QED
        BY <1>6, <4>2
    <3> QED
      BY <1>1, <3>1
  <2>5. data[ino] = sole[ino].body
    BY <1>1, <2>3, <2>4, SubSeqFull
  <2>6. \A d \in Conn : ~Uploading(d, ino)'
    <3> SUFFICES ASSUME NEW d \in Conn, Uploading(d, ino)' PROVE FALSE
      OBVIOUS
    <3>1. d # c /\ Uploading(d, ino)
      BY <1>3 DEF Uploading
    <3> QED
      BY <2>1, <2>2, <3>1 DEF WholeSoFar
  <2> QED
    BY <1>2, <2>1, <2>5, <2>6 DEF WholeSoFar
<1>7. \A i \in Inode : sole'[i] # Nobody => WholeSoFar(i)'
  BY <1>5, <1>6
<1>8. \A d \in Conn : jobs'[d].kind = "post" => WithinBody(jobs'[d])
  BY <1>3 DEF UploadInv
<1> QED
  BY <1>7, <1>8 DEF UploadInv

\* Files that a step leaves alone, and their uploads.
LEMMA OtherFile ==
    ASSUME NEW i \in Inode, WholeSoFar(i), data'[i] = data[i], sole'[i] = sole[i],
           \A d \in Conn : Uploading(d, i)' <=> Uploading(d, i),
           \A d \in Conn : Uploading(d, i) => jobs'[d].id = jobs[d].id /\ jobs'[d].body = jobs[d].body
                                              /\ jobs'[d].off = jobs[d].off
    PROVE  WholeSoFar(i)'
<1>1. InUpload(i)' <=> InUpload(i)
  BY DEF InUpload
<1> QED
  BY <1>1 DEF WholeSoFar

LEMMA WriteUploads ==
    ASSUME TypeOK, UploadInv, NEW c \in Conn, NEW n \in Nat, WriteSome(c, n)
    PROVE  UploadInv'
<1> PICK job : jobs[c] = job
  OBVIOUS
<1>1. JobType(job) /\ job.kind = "post" /\ job.ino \in Inode /\ ~job.ready
  BY TypeParts DEF JobsTyped, WriteSome, JobType, UploadInv, WithinBody
<1>2. job.off \in Nat /\ job.body \in Seq(Unit)
  BY <1>1 DEF JobType, JobOf
<1>3. n \in Nat \ {0} /\ job.off + n <= Len(job.body)
  BY <1>2 DEF WriteSome
<1> PICK ino \in Inode : job.ino = ino
  BY <1>1
<1> PICK off : off = job.off + n
  OBVIOUS
<1> PICK next : next = [job EXCEPT !.off = off]
  OBVIOUS
<1>4. /\ next.kind = "post" /\ next.ino = ino /\ next.id = job.id /\ next.body = job.body
      /\ next.whole = job.whole /\ next.off = off /\ ~next.ready
  BY <1>1 DEF JobType, JobOf
<1>5. /\ data' = [data EXCEPT ![ino] = WriteAt(data[ino], job.off, Piece(job, n))]
      /\ jobs' = [jobs EXCEPT ![c] = IF off >= Len(job.body) THEN Page ELSE next]
      /\ sole' = sole
  BY DEF WriteSome
<1>6. /\ \A d \in Conn \ {c} : jobs'[d] = jobs[d]
      /\ jobs'[c] = IF off >= Len(job.body) THEN Page ELSE next
  BY <1>5 DEF TypeOK
<1>7. Page.kind = "page"
  BY DEF Page, NoJob
<1>8. ASSUME NEW i \in Inode, i # ino, sole[i] # Nobody PROVE WholeSoFar(i)'
  <2>1. data'[i] = data[i] /\ sole'[i] = sole[i] /\ WholeSoFar(i)
    BY <1>5, <1>8 DEF TypeOK, UploadInv
  <2>2. ~Uploading(c, i) /\ ~Uploading(c, i)'
    BY <1>1, <1>4, <1>6, <1>7, <1>8 DEF Uploading
  <2>3. \A d \in Conn \ {c} : Uploading(d, i)' <=> Uploading(d, i)
    BY <1>6 DEF Uploading
  <2> QED
    BY <1>6, <2>1, <2>2, <2>3, OtherFile
<1>9. ASSUME sole[ino] # Nobody PROVE WholeSoFar(ino)'
  <2>1. Uploading(c, ino) /\ WholeSoFar(ino)
    BY <1>1, <1>9 DEF Uploading, UploadInv
  <2>2. /\ job.id = sole[ino].id /\ job.body = sole[ino].body /\ data[ino] = SubSeq(job.body, 1, job.off)
        /\ \A d \in Conn \ {c} : ~Uploading(d, ino)
    BY <2>1 DEF WholeSoFar
  <2>3. data'[ino] = SubSeq(job.body, 1, off)
    <3>1. data'[ino] = WriteAt(SubSeq(job.body, 1, job.off), job.off, SubSeq(job.body, job.off + 1, job.off + n))
      BY <1>5, <2>2 DEF TypeOK, Piece
    <3>2. WriteAt(SubSeq(job.body, 1, job.off), job.off, SubSeq(job.body, job.off + 1, job.off + n))
             = SubSeq(job.body, 1, job.off + n)
      BY <1>2, <1>3, WriteAtPrefix
    <3> QED
      BY <3>1, <3>2
  <2>4. \A d \in Conn \ {c} : ~Uploading(d, ino)'
    BY <1>6, <2>2 DEF Uploading
  <2>5. CASE off >= Len(job.body)
    <3>1. off = Len(job.body)
      BY <1>2, <1>3, <2>5
    <3>2. data'[ino] = sole'[ino].body
      BY <1>2, <1>5, <2>2, <2>3, <3>1, SubSeqFull
    <3>3. \A d \in Conn : ~Uploading(d, ino)'
      BY <1>6, <1>7, <2>4, <2>5 DEF Uploading
    <3> QED
      BY <3>2, <3>3 DEF WholeSoFar
  <2>6. CASE ~(off >= Len(job.body))
    <3>1. jobs'[c] = next /\ Uploading(c, ino)' /\ InUpload(ino)'
      BY <1>4, <1>6, <2>6 DEF Uploading, InUpload
    <3>2. jobs'[c].id = sole'[ino].id /\ jobs'[c].body = sole'[ino].body
      BY <1>4, <1>5, <2>2, <3>1
    <3>3. data'[ino] = SubSeq(jobs'[c].body, 1, jobs'[c].off)
      BY <1>4, <2>3, <3>1
    <3> QED
      BY <2>4, <3>1, <3>2, <3>3 DEF WholeSoFar
  <2> QED
    BY <2>5, <2>6
<1>10. \A i \in Inode : sole'[i] # Nobody => WholeSoFar(i)'
  BY <1>5, <1>8, <1>9
<1>11. \A d \in Conn : jobs'[d].kind = "post" => WithinBody(jobs'[d])
  <2>1. off \in 0..Len(job.body)
    BY <1>2, <1>3
  <2>2. WithinBody(next)
    BY <1>1, <1>4, <2>1 DEF UploadInv, WithinBody
  <2> QED
    BY <1>6, <1>7, <2>2, ZenonT(40) DEF UploadInv
<1> QED
  BY <1>10, <1>11 DEF UploadInv

LEMMA PostUploads ==
    ASSUME TypeOK, UploadInv, NEW c \in Conn, NEW name \in Name, NEW size \in Sizes, Post(c, name, size)
    PROVE  UploadInv'
<1> PICK k : k = uploads + 1
  OBVIOUS
<1> PICK ino : ino = Opened(name, k)
  OBVIOUS
<1> PICK body : body = Units(k, size)
  OBVIOUS
<1> PICK whole : whole = Parsed(k, size)
  OBVIOUS
<1> PICK job : job = [NoJob EXCEPT !.kind = "post", !.ino = ino, !.id = k, !.body = body, !.whole = whole]
  OBVIOUS
<1>1. /\ job.kind = "post" /\ job.ino = ino /\ job.id = k /\ job.body = body /\ job.whole = whole
      /\ job.off = 0 /\ ~job.ready
  BY DEF NoJob
<1>2. /\ data' = [data EXCEPT ![ino] = <<>>]
      /\ jobs' = [d \in Conn |-> IF d = c THEN job
                                ELSE IF Reading(d) /\ jobs[d].ino = ino THEN [jobs[d] EXCEPT !.clean = FALSE]
                                ELSE jobs[d]]
      /\ sole' = [sole EXCEPT ![ino] = IF InUpload(ino) THEN Nobody ELSE [id |-> k, body |-> body]]
  BY DEF Post
<1>3. k \in 0..UPLOADS
  BY TransfersAssumption DEF Post, TypeOK
<1>4. ino \in Inode
  <2>1. UPLOADS \in Nat /\ dir[name] \in 0..NoInode
    BY TransfersAssumption DEF TypeOK
  <2> QED
    BY <1>3, <2>1 DEF Opened, Inode, NoInode
<1>5. body \in Seq(Unit) /\ Len(body) <= Len(whole)
  BY <1>3, UnitsTyped, ParsedTyped, TransfersAssumption
<1>6. jobs'[c] = job /\ jobs[c].kind # "post"
  BY <1>2 DEF Post, NoJob
<1>7. \A d \in Conn \ {c} : /\ jobs'[d].kind = "post" <=> jobs[d].kind = "post"
                            /\ jobs[d].kind = "post" => jobs'[d] = jobs[d]
  <2> SUFFICES ASSUME NEW d \in Conn \ {c}
               PROVE  /\ jobs'[d].kind = "post" <=> jobs[d].kind = "post"
                      /\ jobs[d].kind = "post" => jobs'[d] = jobs[d]
    OBVIOUS
  <2>1. CASE Reading(d) /\ jobs[d].ino = ino
    <3>1. jobs'[d] = [jobs[d] EXCEPT !.clean = FALSE] /\ jobs[d].kind = "get"
      BY <1>2, <2>1 DEF Reading
    <3>2. JobType(jobs[d])
      BY TypeParts DEF JobsTyped
    <3>3. [jobs[d] EXCEPT !.clean = FALSE].kind = "get"
      BY <3>1, <3>2 DEF JobType, JobOf
    <3> QED
      BY <3>1, <3>3
  <2>2. CASE ~(Reading(d) /\ jobs[d].ino = ino)
    <3>1. jobs'[d] = jobs[d]
      BY <1>2, <2>2
    <3> QED
      BY <3>1
  <2> QED
    BY <2>1, <2>2
<1>8. \A i \in Inode, d \in Conn \ {c} : Uploading(d, i)' <=> Uploading(d, i)
  BY <1>7 DEF Uploading
<1>9. ASSUME NEW i \in Inode, i # ino, sole'[i] # Nobody PROVE WholeSoFar(i)'
  <2>1. data'[i] = data[i] /\ sole'[i] = sole[i]
    BY <1>2, <1>9 DEF TypeOK
  <2>2. WholeSoFar(i)
    BY <1>9, <2>1 DEF UploadInv
  <2>3. ~Uploading(c, i) /\ ~Uploading(c, i)'
    BY <1>1, <1>6, <1>9 DEF Uploading
  <2>4. \A d \in Conn : Uploading(d, i) => jobs'[d] = jobs[d]
    BY <1>7, <2>3 DEF Uploading
  <2> QED
    BY <1>8, <2>1, <2>2, <2>3, <2>4, OtherFile
<1>10. ASSUME sole'[ino] # Nobody PROVE WholeSoFar(ino)'
  <2>1. ~InUpload(ino) /\ sole'[ino] = [id |-> k, body |-> body] /\ data'[ino] = <<>>
    BY <1>2, <1>4, <1>10 DEF TypeOK
  <2>2. \A d \in Conn \ {c} : ~Uploading(d, ino)'
    BY <1>4, <1>8, <2>1 DEF InUpload
  <2>3. Uploading(c, ino)' /\ InUpload(ino)'
    BY <1>1, <1>6 DEF Uploading, InUpload
  <2>4. SubSeq(body, 1, 0) = <<>>
    BY <1>5
  <2>5. /\ jobs'[c].id = sole'[ino].id /\ jobs'[c].body = sole'[ino].body
        /\ data'[ino] = SubSeq(jobs'[c].body, 1, jobs'[c].off)
    BY <1>1, <1>6, <2>1, <2>4
  <2> QED
    BY <2>2, <2>3, <2>5 DEF WholeSoFar
<1>11. \A i \in Inode : sole'[i] # Nobody => WholeSoFar(i)'
  BY <1>9, <1>10
<1>12. \A d \in Conn : jobs'[d].kind = "post" => WithinBody(jobs'[d])
  <2>1. 0 \in 0..Len(body)
    BY <1>5
  <2>2. WithinBody(jobs'[c])
    BY <1>1, <1>5, <1>6, <2>1 DEF WithinBody
  <2>3. \A d \in Conn \ {c} : jobs'[d].kind = "post" => jobs'[d] = jobs[d]
    BY <1>7
  <2> QED
    BY <2>2, <2>3 DEF UploadInv
<1> QED
  BY <1>11, <1>12 DEF UploadInv

\* The file of a form that goes on in its whole body is nobody's.
LEMMA MoreUploads ==
    ASSUME TypeOK, UploadInv, NEW c \in Conn, MoreArrives(c)
    PROVE  UploadInv'
<1> PICK old : old = jobs[c]
  OBVIOUS
<1> PICK job : job = [old EXCEPT !.body = old.whole]
  OBVIOUS
<1>1. JobType(old) /\ old.kind = "post" /\ old.ino \in Inode /\ WithinBody(old)
  BY TypeParts DEF JobsTyped, MoreArrives, JobType, UploadInv
<1>2. old.off \in Nat /\ old.body \in Seq(Unit) /\ old.whole \in Seq(Unit)
  BY <1>1 DEF JobType, JobOf
<1> PICK ino \in Inode : old.ino = ino
  BY <1>1
<1>3. /\ job.kind = "post" /\ job.ino = ino /\ job.body = old.whole
      /\ job.whole = old.whole /\ job.off = old.off /\ job.ready = old.ready
  BY <1>1 DEF JobType, JobOf
<1>4. jobs'[c] = job /\ (\A d \in Conn \ {c} : jobs'[d] = jobs[d]) /\ data' = data /\ sole' = GivenUp(old)
  BY DEF MoreArrives, TypeOK
<1>5. \A i \in Inode : i # ino => sole'[i] = sole[i]
  BY <1>4 DEF GivenUp, TypeOK
<1>6. sole'[ino] = Nobody \/ (sole'[ino] = sole[ino] /\ sole[ino].id # old.id)
  BY <1>4 DEF GivenUp, TypeOK
<1>7. ASSUME NEW i \in Inode, i # ino, sole'[i] # Nobody PROVE WholeSoFar(i)'
  <2>1. data'[i] = data[i] /\ sole'[i] = sole[i] /\ WholeSoFar(i)
    BY <1>4, <1>5, <1>7 DEF UploadInv
  <2>2. ~Uploading(c, i) /\ ~Uploading(c, i)'
    BY <1>3, <1>4, <1>7 DEF Uploading
  <2>3. \A d \in Conn \ {c} : Uploading(d, i)' <=> Uploading(d, i)
    BY <1>4 DEF Uploading
  <2> QED
    BY <1>4, <2>1, <2>2, <2>3, OtherFile
<1>8. sole'[ino] = Nobody
  <2> SUFFICES ASSUME sole'[ino] # Nobody PROVE FALSE
    OBVIOUS
  <2>1. sole[ino] # Nobody /\ sole[ino].id # old.id
    BY <1>6
  <2>2. Uploading(c, ino)
    BY <1>1 DEF Uploading
  <2> QED
    BY <2>1, <2>2 DEF UploadInv, WholeSoFar
<1>9. \A i \in Inode : sole'[i] # Nobody => WholeSoFar(i)'
  BY <1>7, <1>8
<1>10. WithinBody(job)
  BY <1>1, <1>2, <1>3 DEF WithinBody
<1>11. \A d \in Conn : jobs'[d].kind = "post" => WithinBody(jobs'[d])
  BY <1>4, <1>10 DEF UploadInv
<1> QED
  BY <1>9, <1>11 DEF UploadInv

LEMMA UploadNext == TypeOK /\ UploadInv /\ [Next]_vars => UploadInv'
<1> SUFFICES ASSUME TypeOK, UploadInv, [Next]_vars PROVE UploadInv'
  OBVIOUS
<1>1. CASE UNCHANGED vars
  BY <1>1 DEF UploadInv, WholeSoFar, InUpload, Uploading, vars
<1>2. NoJob.kind = "none"
  BY DEF NoJob
<1>3. ASSUME NEW c \in Conn, Quiet(c), jobs[c].kind # "post", sole' = sole PROVE UploadInv'
  BY <1>3, OthersUploads DEF Quiet
<1>4. ASSUME NEW c \in Conn, NEW n \in Name, GetMissing(c, n) \/ Delete(c, n) PROVE UploadInv'
  <2>1. jobs[c].kind # "post" /\ sole' = sole
    BY <1>2, <1>4 DEF GetMissing, Delete, Begin
  <2> QED
    BY <1>3, <1>4, <2>1, QuietSteps
<1>5. ASSUME NEW c \in Conn, NEW o \in Outputs[c], Cgi(c, o) PROVE UploadInv'
  <2>1. jobs[c].kind # "post" /\ sole' = sole
    BY <1>2, <1>5 DEF Cgi, Begin
  <2> QED
    BY <1>3, <1>5, <2>1, QuietSteps
<1>6. ASSUME NEW c \in Conn, NEW n \in 1..Len(jobs[c].body), NEW hup \in BOOLEAN, CgiRead(c, n, hup) PROVE UploadInv'
  <2>1. jobs[c].kind # "post" /\ sole' = sole
    BY <1>6 DEF CgiRead
  <2> QED
    BY <1>3, <1>6, <2>1, QuietSteps
<1>7. ASSUME NEW c \in Conn, NEW ok \in BOOLEAN, CgiEnd(c, ok) PROVE UploadInv'
  <2>1. jobs[c].kind # "post" /\ sole' = sole
    BY <1>7 DEF CgiEnd
  <2> QED
    BY <1>3, <1>7, <2>1, QuietSteps
<1>8. ASSUME NEW c \in Conn, Sent(c) PROVE UploadInv'
  <2>1. jobs[c].kind # "post" /\ sole' = sole
    BY <1>8 DEF Sent, UploadInv, WithinBody
  <2> QED
    BY <1>3, <1>8, <2>1, QuietSteps
<1>9. ASSUME NEW c \in Conn, WriteEnd(c) \/ CloseClient(c) PROVE UploadInv'
  <2>1. Quiet(c) /\ sole' = Abandoned(jobs[c])
    BY <1>9, QuietSteps DEF WriteEnd, CloseClient
  <2>2. CASE jobs[c].kind = "post"
    BY <2>1, <2>2, EndUploads
  <2>3. CASE jobs[c].kind # "post"
    BY <1>3, <2>1, <2>3 DEF Abandoned
  <2> QED
    BY <2>2, <2>3
<1>10. ASSUME NEW c \in Conn, NEW n \in Name, Get(c, n) PROVE UploadInv'
  <2> DEFINE job == [NoJob EXCEPT !.kind = "get", !.ino = dir[n], !.said = LengthOf(dir[n]),
                                  !.was = data[dir[n]], !.clean = ~InUpload(dir[n])]
  <2>1. jobs[c].kind # "post" /\ jobs' = [jobs EXCEPT ![c] = job] /\ data' = data /\ sole' = sole
    BY <1>2, <1>10 DEF Get, Begin
  <2>2. job.kind = "get"
    BY DEF NoJob
  <2> HIDE DEF job
  <2>3. jobs'[c].kind # "post" /\ \A d \in Conn \ {c} : jobs'[d] = jobs[d]
    BY <2>1, <2>2 DEF TypeOK
  <2> QED
    BY <2>1, <2>3, OthersUploads
<1>11. ASSUME NEW c \in Conn, ReadSome(c) \/ ReadEnd(c) PROVE UploadInv'
  <2>1. jobs[c].kind = "get" /\ data' = data /\ sole' = sole
    BY <1>11 DEF ReadSome, ReadEnd, Reading
  <2>2. JobType(jobs[c])
    BY TypeParts DEF JobsTyped
  <2>3. jobs'[c].kind = "get" /\ \A d \in Conn \ {c} : jobs'[d] = jobs[d]
    <3>1. CASE ReadSome(c)
      <4> PICK next : next = ReadOn(jobs[c], Least(READ, Len(data[jobs[c].ino]) - jobs[c].off))
        OBVIOUS
      <4>1. next.kind = "get"
        BY <2>1, <2>2 DEF ReadOn, JobType, JobOf
      <4>2. jobs' = [jobs EXCEPT ![c] = next]
        BY <3>1 DEF ReadSome
      <4> QED
        BY <4>1, <4>2 DEF TypeOK
    <3>2. CASE ReadEnd(c)
      <4> PICK next : next = [jobs[c] EXCEPT !.ready = TRUE]
        OBVIOUS
      <4>1. next.kind = "get"
        BY <2>1, <2>2 DEF JobType, JobOf
      <4>2. jobs' = [jobs EXCEPT ![c] = next]
        BY <3>2 DEF ReadEnd
      <4> QED
        BY <4>1, <4>2 DEF TypeOK
    <3> QED
      BY <1>11, <3>1, <3>2
  <2> QED
    BY <2>1, <2>3, OthersUploads
<1>12. ASSUME NEW c \in Conn, NEW n \in Name, NEW s \in Sizes, Post(c, n, s) PROVE UploadInv'
  BY <1>12, PostUploads
<1>13. ASSUME NEW c \in Conn, NEW n \in 1..Len(jobs[c].body), WriteSome(c, n) PROVE UploadInv'
  BY <1>13, WriteUploads
<1>14. ASSUME NEW c \in Conn, MoreArrives(c) PROVE UploadInv'
  BY <1>14, MoreUploads
<1> QED
  BY <1>1, <1>4, <1>5, <1>6, <1>7, <1>8, <1>9, <1>10, <1>11, <1>12, <1>13, <1>14 DEF Next, Build, Transfer

\* A file is the last upload of it, whole and nothing else, once that upload is
\* over, if none overlapped it, every write() did well, the client stayed and
\* nothing arrived behind a form while its file part was written.
THEOREM Whole == Spec => []UploadsAreWhole
<1>1. Init => UploadInv
  BY DEF Init, UploadInv, NoJob
<1>2. UploadInv => UploadsAreWhole
  BY DEF UploadInv, WholeSoFar, UploadsAreWhole
<1> QED
  BY <1>1, <1>2, TransfersTyped, UploadNext, PTL DEF Spec

-----------------------------------------------------------------------------
(* Scripts *)

\* What has been read of a script's output is the beginning of it, if no byte
\* of it is zero; the body of its response, what follows the first blank line.
QuotedSoFar(job) ==
    /\ job.off \in 0..Len(job.body)
    /\ job.ready => job.said = Len(job.got) /\ (~job.cut => job.off = Len(job.body))
    /\ "zero" \notin Range(job.body) =>
          LET read == SubSeq(job.body, 1, job.off)
          IN job.got = IF job.ready THEN SubSeq(read, Blank(read) + 1, Len(read)) ELSE read

ScriptInv == \A c \in Conn : jobs[c].kind = "cgi" => QuotedSoFar(jobs[c])

\* The headers end at the first blank line.
LEMMA BlankIsFirst ==
    ASSUME NEW s \in Seq(Written), OneKindOfBlank(s),
           NEW blanks, blanks = {n \in DOMAIN s : s[n] \in {"crlf", "lf"}}
    PROVE  Blank(s) = IF blanks = {} THEN 0 ELSE Min(blanks)
<1> PICK crlf : crlf = {n \in 1..Len(s) : s[n] = "crlf"}
  OBVIOUS
<1> PICK lf : lf = {n \in 1..Len(s) : s[n] = "lf"}
  OBVIOUS
<1>1. /\ SelectInSeq(s, LAMBDA t : t = "crlf") = IF crlf # {} THEN Min(crlf) ELSE 0
      /\ SelectInSeq(s, LAMBDA t : t = "lf") = IF lf # {} THEN Min(lf) ELSE 0
  BY DEF SelectInSeq
<1>2. Blank(s) = IF crlf # {} /\ Min(crlf) # 0 THEN Min(crlf) ELSE IF lf # {} THEN Min(lf) ELSE 0
  BY <1>1 DEF Blank
<1>3. crlf # {} => Min(crlf) # 0
  <2>1. crlf \subseteq Nat /\ 0 \notin crlf
    OBVIOUS
  <2> QED
    BY <2>1, MinIsLeast
<1>4. blanks = crlf \cup lf
  OBVIOUS
<1>5. crlf = {} \/ lf = {}
  BY DEF OneKindOfBlank, Range
<1>6. CASE crlf = {}
  <2>1. blanks = lf
    BY <1>4, <1>6
  <2> QED
    BY <1>2, <1>6, <2>1
<1>7. CASE crlf # {}
  <2>1. blanks = crlf
    BY <1>4, <1>5, <1>7
  <2> QED
    BY <1>2, <1>3, <1>7, <2>1
<1> QED
  BY <1>6, <1>7

\* A buffer without a zero is appended whole.
LEMMA CStringWhole ==
    ASSUME NEW s \in Seq(Written), NEW m \in Nat, NEW n \in Nat, m + n <= Len(s), "zero" \notin Range(s)
    PROVE  CString(SubSeq(s, m + 1, m + n)) = SubSeq(s, m + 1, m + n)
<1> PICK piece : piece = SubSeq(s, m + 1, m + n)
  OBVIOUS
<1>1. DOMAIN piece = 1..n /\ \A k \in 1..n : piece[k] = s[m + k]
  OBVIOUS
<1>2. \A k \in 1..n : s[m + k] # "zero"
  BY DEF Range
<1>3. {k \in DOMAIN piece : piece[k] = "zero"} = {}
  BY <1>1, <1>2
<1> QED
  BY <1>3 DEF CString

\* Steps that concern no script.
LEMMA OtherScripts ==
    ASSUME ScriptInv, \A d \in Conn : jobs'[d].kind = "cgi" => jobs'[d] = jobs[d]
    PROVE  ScriptInv'
BY DEF ScriptInv

LEMMA ResponseQuoted ==
    ASSUME NEW job, JobType(job), job.kind = "cgi", ~job.ready, QuotedSoFar(job),
           ~job.cut => job.off = Len(job.body), NEW ok, CgiResponse(job, ok).kind = "cgi"
    PROVE  QuotedSoFar(CgiResponse(job, ok))
<1> PICK body : body = SubSeq(job.got, Blank(job.got) + 1, Len(job.got))
  OBVIOUS
<1> PICK next : next = [job EXCEPT !.got = body, !.said = Len(body), !.ready = TRUE]
  OBVIOUS
<1>1. Page.kind = "page"
  BY DEF Page, NoJob
<1>2. CgiResponse(job, ok) = next
  BY <1>1 DEF CgiResponse
<1>3. /\ next.off = job.off /\ next.body = job.body /\ next.cut = job.cut /\ next.ready = TRUE
      /\ next.got = body /\ next.said = Len(body)
  BY DEF JobType, JobOf
<1>4. QuotedSoFar(next)
  <2> PICK read : read = SubSeq(job.body, 1, job.off)
    OBVIOUS
  <2>1. "zero" \notin Range(job.body) => job.got = read
    BY DEF QuotedSoFar
  <2>2. "zero" \notin Range(job.body) => next.got = SubSeq(read, Blank(read) + 1, Len(read))
    BY <1>3, <2>1
  <2> QED
    BY <1>3, <2>2 DEF QuotedSoFar
<1> QED
  BY <1>2, <1>4

LEMMA CgiScripts ==
    ASSUME TypeOK, ScriptInv, NEW c \in Conn, NEW output \in Outputs[c], Cgi(c, output)
    PROVE  ScriptInv'
<1> PICK job : job = [NoJob EXCEPT !.kind = "cgi", !.body = output]
  OBVIOUS
<1>1. job.body = output /\ job.off = 0 /\ ~job.ready /\ job.got = <<>>
  BY DEF NoJob
<1>2. jobs'[c] = job /\ \A d \in Conn \ {c} : jobs'[d] = jobs[d]
  BY DEF Cgi, Begin, TypeOK
<1>3. 0 \in 0..Len(output) /\ SubSeq(output, 1, 0) = <<>>
  BY OutputsAssumption
<1>4. QuotedSoFar(job)
  BY <1>1, <1>3 DEF QuotedSoFar
<1> QED
  BY <1>2, <1>4 DEF ScriptInv

LEMMA CgiReadScripts ==
    ASSUME TypeOK, ScriptInv, NEW c \in Conn, NEW n \in Nat, NEW hup \in BOOLEAN, CgiRead(c, n, hup)
    PROVE  ScriptInv'
<1> PICK job : job = jobs[c]
  OBVIOUS
<1> PICK got : got = job.got \o CString(SubSeq(job.body, job.off + 1, job.off + n))
  OBVIOUS
<1> PICK off : off = job.off + n
  OBVIOUS
<1> PICK read : read = [job EXCEPT !.got = got, !.off = off, !.cut = hup /\ off < Len(job.body)]
  OBVIOUS
<1>1. JobType(job) /\ job.kind = "cgi" /\ ~job.ready /\ n \in 1..Least(PIPE, Len(job.body) - job.off) /\ QuotedSoFar(job)
  BY TypeParts DEF JobsTyped, CgiRead, ScriptInv
<1>2. job.off \in Nat /\ job.body \in Seq(Written) /\ job.got \in Seq(Written)
  BY <1>1 DEF JobType, JobOf
<1>3. off <= Len(job.body) /\ off \in 0..Len(job.body)
  <2>1. job.off + n <= Len(job.body)
    BY <1>1, <1>2, TransfersAssumption DEF Least
  <2> QED
    BY <1>2, <2>1
<1>4. /\ read.kind = "cgi" /\ read.body = job.body /\ read.ready = job.ready /\ read.got = got /\ read.off = off
  BY <1>1 DEF JobType, JobOf
<1>5. read.cut = (hup /\ off < Len(job.body))
  BY <1>1 DEF JobType, JobOf
<1>6. QuotedSoFar(read)
  <2>1. ASSUME "zero" \notin Range(job.body) PROVE got = SubSeq(job.body, 1, off)
    <3>1. job.got = SubSeq(job.body, 1, job.off)
      BY <1>1, <2>1 DEF QuotedSoFar
    <3>2. CString(SubSeq(job.body, job.off + 1, job.off + n)) = SubSeq(job.body, job.off + 1, job.off + n)
      BY <1>2, <1>3, <2>1, CStringWhole
    <3>3. SubSeq(job.body, 1, job.off) \o SubSeq(job.body, job.off + 1, job.off + n) = SubSeq(job.body, 1, job.off + n)
      BY <1>2, <1>3, SubSeqGrows
    <3> QED
      BY <3>1, <3>2, <3>3
  <2> QED
    BY <1>1, <1>3, <1>4, <2>1 DEF QuotedSoFar
<1>7. PICK ok \in BOOLEAN : jobs' = [jobs EXCEPT ![c] = IF hup THEN CgiResponse(read, ok) ELSE read]
  BY DEF CgiRead
<1>8. ASSUME hup, ~read.cut PROVE read.off = Len(read.body)
  <2>1. ~(off < Len(job.body))
    BY <1>5, <1>8, Zenon
  <2> QED
    BY <1>2, <1>3, <1>4, <2>1
<1>9. JobType(read)
  <2>1. job \in JobOf(Written) /\ off \in Nat
    BY <1>1, <1>2 DEF JobType
  <2>2. CString(SubSeq(job.body, job.off + 1, job.off + n)) \in Seq(Written)
    <3>1. SubSeq(job.body, job.off + 1, job.off + n) \in Seq(Written)
      BY <1>2, <1>3, SubSeqTyped
    <3> QED
      BY <3>1, CStringTyped
  <2> PICK more : more = CString(SubSeq(job.body, job.off + 1, job.off + n))
    OBVIOUS
  <2>3. job.got \o more \in Seq(Written)
    BY <1>2, <2>2
  <2>4. got \in Seq(Written)
    BY <2>3
  <2> PICK cut : cut = (hup /\ off < Len(job.body))
    OBVIOUS
  <2>5. cut \in BOOLEAN
    OBVIOUS
  <2>6. [job EXCEPT !.got = got, !.off = off, !.cut = cut] \in JobOf(Written)
    BY <2>1, <2>4, <2>5, ZenonT(40) DEF JobOf
  <2> QED
    BY <1>4, <2>6 DEF JobType
<1>10. jobs'[c] = (IF hup THEN CgiResponse(read, ok) ELSE read) /\ \A d \in Conn \ {c} : jobs'[d] = jobs[d]
  BY <1>7 DEF TypeOK
<1>11. jobs'[c].kind = "cgi" => QuotedSoFar(jobs'[c])
  <2>1. CASE hup
    <3>1. jobs'[c] = CgiResponse(read, ok)
      BY <1>10, <2>1
    <3>2. ~read.cut => read.off = Len(read.body)
      BY <1>8, <2>1
    <3>3. read.kind = "cgi" /\ ~read.ready
      BY <1>1, <1>4
    <3>4. CgiResponse(read, ok).kind = "cgi" => QuotedSoFar(CgiResponse(read, ok))
      BY <1>6, <1>9, <3>2, <3>3, ResponseQuoted
    <3> QED
      BY <3>1, <3>4
  <2>2. CASE ~hup
    BY <1>6, <1>10, <2>2
  <2> QED
    BY <2>1, <2>2
<1> QED
  BY <1>10, <1>11 DEF ScriptInv

LEMMA CgiEndScripts ==
    ASSUME TypeOK, ScriptInv, NEW c \in Conn, NEW ok \in BOOLEAN, CgiEnd(c, ok)
    PROVE  ScriptInv'
<1> PICK job : job = jobs[c]
  OBVIOUS
<1>1. JobType(job) /\ job.kind = "cgi" /\ ~job.ready /\ job.off = Len(job.body) /\ QuotedSoFar(job)
  BY TypeParts DEF JobsTyped, CgiEnd, ScriptInv
<1>2. jobs'[c] = CgiResponse(job, ok) /\ \A d \in Conn \ {c} : jobs'[d] = jobs[d]
  BY DEF CgiEnd, TypeOK
<1>3. jobs'[c].kind = "cgi" => QuotedSoFar(jobs'[c])
  BY <1>1, <1>2, ResponseQuoted
<1> QED
  BY <1>2, <1>3 DEF ScriptInv

LEMMA ScriptNext == TypeOK /\ ScriptInv /\ [Next]_vars => ScriptInv'
<1> SUFFICES ASSUME TypeOK, ScriptInv, [Next]_vars PROVE ScriptInv'
  OBVIOUS
<1>1. CASE UNCHANGED vars
  BY <1>1 DEF ScriptInv, vars
<1>2. NoJob.kind = "none" /\ Page.kind = "page"
  BY DEF NoJob, Page
<1>3. ASSUME NEW c \in Conn, NEW job, jobs' = [jobs EXCEPT ![c] = job], job.kind # "cgi" PROVE ScriptInv'
  <2>1. jobs'[c] = job /\ \A d \in Conn \ {c} : jobs'[d] = jobs[d]
    BY <1>3 DEF TypeOK
  <2> QED
    BY <1>3, <2>1, OtherScripts
<1>4. ASSUME NEW c \in Conn, (\E n \in Name : GetMissing(c, n) \/ Delete(c, n)) \/ WriteEnd(c) \/ Sent(c) \/ CloseClient(c)
      PROVE ScriptInv'
  <2>1. jobs' = [jobs EXCEPT ![c] = Page] \/ jobs' = [jobs EXCEPT ![c] = NoJob]
    BY <1>4 DEF GetMissing, Delete, Begin, WriteEnd, Sent, CloseClient
  <2>2. CASE jobs' = [jobs EXCEPT ![c] = Page]
    BY <1>2, <1>3, <2>2
  <2>3. CASE jobs' = [jobs EXCEPT ![c] = NoJob]
    BY <1>2, <1>3, <2>3
  <2> QED
    BY <2>1, <2>2, <2>3
<1>5. ASSUME NEW c \in Conn, NEW n \in Name, Get(c, n) PROVE ScriptInv'
  <2> PICK job : job = [NoJob EXCEPT !.kind = "get", !.ino = dir[n], !.said = LengthOf(dir[n]),
                                     !.was = data[dir[n]], !.clean = ~InUpload(dir[n])]
    OBVIOUS
  <2>1. jobs' = [jobs EXCEPT ![c] = job]
    BY <1>5 DEF Get, Begin
  <2>2. job.kind # "cgi"
    BY DEF NoJob
  <2> QED
    BY <1>3, <2>1, <2>2
<1>6. ASSUME NEW c \in Conn, ReadSome(c) \/ ReadEnd(c) PROVE ScriptInv'
  <2>1. JobType(jobs[c]) /\ jobs[c].kind = "get"
    BY <1>6, TypeParts DEF JobsTyped, ReadSome, ReadEnd, Reading
  <2>2. CASE ReadSome(c)
    <3> PICK next : next = ReadOn(jobs[c], Least(READ, Len(data[jobs[c].ino]) - jobs[c].off))
      OBVIOUS
    <3>1. next.kind = "get"
      BY <2>1 DEF ReadOn, JobType, JobOf
    <3>2. jobs' = [jobs EXCEPT ![c] = next]
      BY <2>2 DEF ReadSome
    <3> QED
      BY <1>3, <3>1, <3>2
  <2>3. CASE ReadEnd(c)
    <3> PICK next : next = [jobs[c] EXCEPT !.ready = TRUE]
      OBVIOUS
    <3>1. next.kind = "get"
      BY <2>1 DEF JobType, JobOf
    <3>2. jobs' = [jobs EXCEPT ![c] = next]
      BY <2>3 DEF ReadEnd
    <3> QED
      BY <1>3, <3>1, <3>2
  <2> QED
    BY <1>6, <2>2, <2>3
<1>7. ASSUME NEW c \in Conn, NEW n \in 1..Len(jobs[c].body), WriteSome(c, n) PROVE ScriptInv'
  <2>1. JobType(jobs[c]) /\ jobs[c].kind = "post"
    BY <1>7, TypeParts DEF JobsTyped, WriteSome
  <2> PICK next : next = IF jobs[c].off + n >= Len(jobs[c].body) THEN Page ELSE [jobs[c] EXCEPT !.off = @ + n]
    OBVIOUS
  <2>2. next.kind # "cgi"
    BY <1>2, <2>1 DEF JobType, JobOf
  <2>3. jobs' = [jobs EXCEPT ![c] = next]
    BY <1>7 DEF WriteSome
  <2> QED
    BY <1>3, <2>2, <2>3
<1>8. ASSUME NEW c \in Conn, NEW n \in Name, NEW s \in Sizes, Post(c, n, s) PROVE ScriptInv'
  <2> PICK ino : ino = Opened(n, uploads + 1)
    OBVIOUS
  <2> PICK job : job = [NoJob EXCEPT !.kind = "post", !.ino = ino, !.id = uploads + 1,
                                     !.body = Units(uploads + 1, s), !.whole = Parsed(uploads + 1, s)]
    OBVIOUS
  <2>1. job.kind = "post"
    BY DEF NoJob
  <2>2. jobs' = [d \in Conn |-> IF d = c THEN job
                               ELSE IF Reading(d) /\ jobs[d].ino = ino THEN [jobs[d] EXCEPT !.clean = FALSE]
                               ELSE jobs[d]]
    BY <1>8 DEF Post
  <2>3. ASSUME NEW d \in Conn, jobs'[d].kind = "cgi" PROVE jobs'[d] = jobs[d]
    <3>1. JobType(jobs[d])
      BY TypeParts DEF JobsTyped
    <3>2. Reading(d) => [jobs[d] EXCEPT !.clean = FALSE].kind = "get"
      BY <3>1 DEF Reading, JobType, JobOf
    <3> QED
      BY <2>1, <2>2, <2>3, <3>2
  <2> QED
    BY <2>3, OtherScripts
<1>9. ASSUME NEW c \in Conn, NEW o \in Outputs[c], Cgi(c, o) PROVE ScriptInv'
  BY <1>9, CgiScripts
<1>10. ASSUME NEW c \in Conn, NEW n \in 1..Len(jobs[c].body), NEW hup \in BOOLEAN, CgiRead(c, n, hup) PROVE ScriptInv'
  BY <1>10, CgiReadScripts
<1>11. ASSUME NEW c \in Conn, NEW ok \in BOOLEAN, CgiEnd(c, ok) PROVE ScriptInv'
  BY <1>11, CgiEndScripts
<1>12. ASSUME NEW c \in Conn, MoreArrives(c) PROVE ScriptInv'
  <2> PICK job : job = [jobs[c] EXCEPT !.body = jobs[c].whole]
    OBVIOUS
  <2>1. JobType(jobs[c]) /\ jobs[c].kind = "post"
    BY <1>12, TypeParts DEF JobsTyped, MoreArrives
  <2>2. job.kind # "cgi"
    BY <2>1 DEF JobType, JobOf
  <2>3. jobs' = [jobs EXCEPT ![c] = job]
    BY <1>12 DEF MoreArrives
  <2> QED
    BY <1>3, <2>2, <2>3
<1> QED
  BY <1>1, <1>4, <1>5, <1>6, <1>7, <1>8, <1>9, <1>10, <1>11, <1>12 DEF Next, Build, Transfer

\* The body of a CGI's response is what its script wrote after its first blank
\* line and Content-Length is its length, however the reads cut the output, if
\* all of it was read, no byte of it is zero and its blank lines are of one kind.
THEOREM Quoted == Spec => []ScriptsAreQuoted
<1>1. Init => ScriptInv
  BY DEF Init, ScriptInv, NoJob
<1>2. TypeOK /\ ScriptInv => ScriptsAreQuoted
  <2> SUFFICES ASSUME TypeOK, ScriptInv, NEW c \in Conn, jobs[c].kind = "cgi", jobs[c].ready,
                      NEW out, out = jobs[c].body, NEW blanks, blanks = {n \in DOMAIN out : out[n] \in {"crlf", "lf"}},
                      NEW body, body = IF blanks = {} THEN out ELSE SubSeq(out, Min(blanks) + 1, Len(out))
               PROVE  /\ jobs[c].said = Len(jobs[c].got)
                      /\ ~jobs[c].cut /\ "zero" \notin Range(out) /\ OneKindOfBlank(out) => jobs[c].got = body
    BY DEF ScriptsAreQuoted
  <2>1. out \in Seq(Written) /\ QuotedSoFar(jobs[c])
    BY TypeParts DEF JobsTyped, JobType, JobOf, ScriptInv
  <2>2. jobs[c].said = Len(jobs[c].got)
    BY <2>1 DEF QuotedSoFar
  <2>3. ASSUME ~jobs[c].cut, "zero" \notin Range(out), OneKindOfBlank(out) PROVE jobs[c].got = body
    <3> PICK read : read = SubSeq(out, 1, jobs[c].off)
      OBVIOUS
    <3>1. jobs[c].off = Len(out) /\ jobs[c].got = SubSeq(read, Blank(read) + 1, Len(read))
      BY <2>1, <2>3 DEF QuotedSoFar
    <3>2. read = out
      BY <2>1, <3>1, SubSeqFull
    <3>3. Blank(out) = IF blanks = {} THEN 0 ELSE Min(blanks)
      BY <2>1, <2>3, BlankIsFirst
    <3>4. SubSeq(out, 0 + 1, Len(out)) = out
      BY <2>1, SubSeqFull
    <3> QED
      BY <3>1, <3>2, <3>3, <3>4
  <2> QED
    BY <2>2, <2>3
<1> QED
  BY <1>1, <1>2, TransfersTyped, ScriptNext, PTL DEF Spec
=============================================================================
