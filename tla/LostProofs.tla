------------------------------ MODULE LostProofs ------------------------------
(***************************************************************************)
(* What is proved of the descriptors that are open and no longer polled,   *)
(* for any number of descriptors, peers, children and partial transfers:   *)
(* that nothing but broken pipes and reset connections is lost, whatever   *)
(* peers and scripts do; that nothing at all is lost without scripts; nor  *)
(* with them, where all cooperate and there are descriptors to spare.      *)
(***************************************************************************)
EXTENDS CooperationProofs, FiniteSetTheorems

\* A descriptor that may be lost: an end of a pipe, or a reset connection.
Breakable(x) == x.kind \in {"pipeR", "pipeW"} \/ (x.kind = "sock" /\ "rst" \in x.in)

\* OnlyBrokenAreLost, of any poll set s and descriptor table d, strengthened:
\* what poll() has reported as broken is breakable and still is when its entry
\* is looked at, and nobody resets a listening socket.
Kept(s, d) ==
    /\ \A f \in Fd : d[f].kind = "listen" => "rst" \notin d[f].in
    /\ \A j \in DOMAIN s : Broken(s[j]) => Breakable(d[s[j].fd])
    /\ \A f \in Fd : \/ d[f].kind = "free"
                     \/ Breakable(d[f])
                     \/ \E j \in DOMAIN s : s[j].fd = f

-----------------------------------------------------------------------------
(* Poll sets and descriptor tables *)

LEMMA KeptSameReports ==
    ASSUME NEW s, NEW t, NEW d, Kept(s, d), DOMAIN t = DOMAIN s,
           \A j \in DOMAIN s : t[j].fd = s[j].fd /\ (Broken(t[j]) => Breakable(d[s[j].fd]))
    PROVE  Kept(t, d)
BY DEF Kept

LEMMA KeptWant ==
    ASSUME NEW s \in Seq(Entry), NEW d, Kept(s, d), NEW f, NEW ev \in {"IN", "OUT"}
    PROVE  Kept(Want(s, f, ev), d)
<1>1. \A j \in DOMAIN s : s[j] \in Entry
  OBVIOUS
<1>2. \A j \in DOMAIN s : Want(s, f, ev)[j].revents = s[j].revents
  BY <1>1 DEF Want, Entry
<1>3. \A j \in DOMAIN s : Broken(Want(s, f, ev)[j]) => Breakable(d[s[j].fd])
  BY <1>2 DEF Kept, Broken
<1> QED
  BY <1>3, WantProperties, KeptSameReports

\* Descriptors may change but for what they are, and what is broken stays so.
LEMMA KeptChange ==
    ASSUME NEW s \in Seq(Entry), NEW d, NEW d2, Kept(s, d),
           \A f \in Fd : /\ d2[f].kind = d[f].kind
                         /\ Breakable(d[f]) => Breakable(d2[f])
                         /\ d[f].kind = "listen" => "rst" \notin d2[f].in
    PROVE  Kept(s, d2)
<1>1. \A j \in DOMAIN s : s[j] \in Entry
  OBVIOUS
<1>2. \A j \in DOMAIN s : s[j].fd \in Fd
  BY <1>1 DEF Entry
<1> QED
  BY <1>2 DEF Kept

\* A closed descriptor leaves with its only entry.
LEMMA KeptRemove ==
    ASSUME NEW s \in Seq(Entry), NEW d, Sound(s, d), Kept(s, d), NEW j \in DOMAIN s
    PROVE  Kept(RemoveAt(s, j), Closed(d, {s[j].fd}))
<1> DEFINE t == RemoveAt(s, j)
           d2 == Closed(d, {s[j].fd})
<1>1. \A k \in DOMAIN s : s[k] \in Entry
  OBVIOUS
<1>2. \A k \in DOMAIN s : s[k].fd \in Fd
  BY <1>1 DEF Entry
<1>3. /\ \A k \in DOMAIN s \ {j} : \E m \in DOMAIN t : t[m] = s[k]
      /\ \A m \in DOMAIN t : \E k \in DOMAIN s \ {j} : t[m] = s[k]
  BY RemoveAtKeeps
<1>4. /\ d2[s[j].fd].kind = "free"
      /\ \A f \in Fd : f # s[j].fd => d2[f] = d[f]
  BY <1>2 DEF Closed, FreeDesc
<1> HIDE DEF t, d2
<1>5. \A k \in DOMAIN s \ {j} : s[k].fd \in Fd /\ s[k].fd # s[j].fd
  BY <1>2 DEF Sound
<1>6. \A f \in Fd : d2[f].kind = "listen" => "rst" \notin d2[f].in
  BY <1>4 DEF Kept
<1>7. \A m \in DOMAIN t : Broken(t[m]) => Breakable(d2[t[m].fd])
  BY <1>3, <1>4, <1>5 DEF Kept
<1>8. ASSUME NEW f \in Fd, d2[f].kind # "free", ~Breakable(d2[f])
      PROVE  \E m \in DOMAIN t : t[m].fd = f
  <2>1. f # s[j].fd /\ d2[f] = d[f]
    BY <1>4, <1>8
  <2>2. PICK k \in DOMAIN s : s[k].fd = f
    BY <1>8, <2>1 DEF Kept
  <2>3. k \in DOMAIN s \ {j}
    BY <2>1, <2>2
  <2> QED
    BY <1>3, <2>2, <2>3
<1>9. Kept(t, d2)
  BY <1>6, <1>7, <1>8 DEF Kept
<1> QED
  BY <1>9 DEF t, d2

\* A broken descriptor's entry may leave alone.
LEMMA KeptDrop ==
    ASSUME NEW s \in Seq(Entry), NEW d, Kept(s, d), NEW j \in DOMAIN s, Broken(s[j])
    PROVE  Kept(RemoveAt(s, j), d)
<1> DEFINE t == RemoveAt(s, j)
<1>1. /\ \A k \in DOMAIN s \ {j} : \E m \in DOMAIN t : t[m] = s[k]
      /\ \A m \in DOMAIN t : \E k \in DOMAIN s \ {j} : t[m] = s[k]
  BY RemoveAtKeeps
<1> HIDE DEF t
<1>2. Breakable(d[s[j].fd])
  BY DEF Kept
<1>3. \A m \in DOMAIN t : Broken(t[m]) => Breakable(d[t[m].fd])
  BY <1>1 DEF Kept
<1>4. ASSUME NEW f \in Fd, d[f].kind # "free", ~Breakable(d[f])
      PROVE  \E m \in DOMAIN t : t[m].fd = f
  <2>1. PICK k \in DOMAIN s : s[k].fd = f
    BY <1>4 DEF Kept
  <2>2. k \in DOMAIN s \ {j}
    BY <1>2, <1>4, <2>1
  <2> QED
    BY <1>1, <2>1, <2>2
<1>5. Kept(t, d)
  BY <1>3, <1>4 DEF Kept
<1> QED
  BY <1>5 DEF t

LEMMA KeptErase ==
    ASSUME NEW s \in Seq(Entry), NEW d, Sound(s, d), Kept(s, d), NEW f
    PROVE  Kept(ErasePollFd(s, f), Closed(d, {f}))
<1>1. CASE \E j \in DOMAIN s : s[j].fd = f
  <2> DEFINE j == CHOOSE k \in DOMAIN s : s[k].fd = f
  <2>1. j \in DOMAIN s /\ s[j].fd = f
    BY <1>1
  <2>2. ErasePollFd(s, f) = RemoveAt(s, j)
    BY <1>1 DEF ErasePollFd
  <2> HIDE DEF j
  <2> QED
    BY <2>1, <2>2, KeptRemove
<1>2. CASE ~ \E j \in DOMAIN s : s[j].fd = f
  <2> DEFINE d2 == Closed(d, {f})
  <2>1. ErasePollFd(s, f) = s
    BY <1>2 DEF ErasePollFd
  <2>2. \A j \in DOMAIN s : s[j] \in Entry
    OBVIOUS
  <2>3. \A j \in DOMAIN s : s[j].fd \in Fd /\ s[j].fd # f
    BY <1>2, <2>2 DEF Entry
  <2>4. \A g \in Fd : IF g = f THEN d2[g].kind = "free" ELSE d2[g] = d[g]
    BY DEF Closed, FreeDesc
  <2> HIDE DEF d2
  <2>5. Kept(s, d2)
    BY <2>3, <2>4 DEF Kept
  <2> QED
    BY <2>1, <2>5 DEF d2
<1> QED
  BY <1>1, <1>2

\* What is opened comes with an entry, on which nothing has been reported.
LEMMA KeptAppend ==
    ASSUME NEW s \in Seq(Entry), NEW d, Sound(s, d), Kept(s, d), NEW ev \in {"IN", "OUT"},
           NEW f \in Fd, d[f].kind = "free",
           NEW d2, d2[f].kind # "listen", \A g \in Fd \ {f} : d2[g] = d[g]
    PROVE  Kept(Append(s, NewEntry(f, ev)), d2)
<1> DEFINE t == Append(s, NewEntry(f, ev))
<1>1. /\ Len(s) \in Nat /\ DOMAIN s = 1..Len(s) /\ DOMAIN t = 1..(Len(s) + 1)
      /\ \A j \in DOMAIN s : j \in DOMAIN t /\ t[j] = s[j]
      /\ Len(s) + 1 \in DOMAIN t /\ t[Len(s) + 1] = NewEntry(f, ev)
  BY NewEntryType
<1>2. \A j \in DOMAIN t : j = Len(s) + 1 \/ j \in DOMAIN s
  BY <1>1
<1>3. \A j \in DOMAIN s : s[j] \in Entry
  OBVIOUS
<1>4. \A j \in DOMAIN s : s[j].fd \in Fd \ {f}
  BY <1>3 DEF Sound, Entry
<1>5. NewEntry(f, ev).fd = f /\ ~Broken(NewEntry(f, ev))
  BY DEF NewEntry, Broken
<1> HIDE DEF t
<1>6. \A g \in Fd : d2[g].kind = "listen" => "rst" \notin d2[g].in
  BY DEF Kept
<1>7. \A j \in DOMAIN t : Broken(t[j]) => Breakable(d2[t[j].fd])
  BY <1>1, <1>2, <1>4, <1>5 DEF Kept
<1>8. \A g \in Fd : \/ d2[g].kind = "free" \/ Breakable(d2[g])
                    \/ \E j \in DOMAIN t : t[j].fd = g
  <2>1. \E j \in DOMAIN t : t[j].fd = f
    BY <1>1, <1>5
  <2>2. \A g \in Fd \ {f} : \/ d2[g].kind = "free" \/ Breakable(d2[g])
                            \/ \E j \in DOMAIN t : t[j].fd = g
    BY <1>1 DEF Kept
  <2> QED
    BY <2>1, <2>2
<1>9. Kept(t, d2)
  BY <1>6, <1>7, <1>8 DEF Kept
<1> QED
  BY <1>9 DEF t

-----------------------------------------------------------------------------
(* The steps *)

LEMMA CgiStepKept ==
    ASSUME TypeOK, Sound(pollFds, fds), Kept(pollFds, fds), NEW j, IsNext(j), CgiStep(j)
    PROVE  Kept(pollFds', fds')
<1> DEFINE f == pollFds[j].fd
           wanted == Want(pollFds, cgiToClient[f], "OUT")
<1>1. j \in DOMAIN pollFds /\ f \in Fd /\ pollFds \in Seq(Entry) /\ fds \in [Fd -> Desc]
  BY NextEntry DEF TypeOK
<1>2. Kept(RemoveAt(pollFds, j), Closed(fds, {f}))
  BY <1>1, KeptRemove
<1>3. /\ wanted \in Seq(Entry) /\ j \in DOMAIN wanted /\ wanted[j].fd = f
      /\ Sound(wanted, fds) /\ Kept(wanted, fds)
  BY <1>1, WantProperties, SoundWant, KeptWant
<1> HIDE DEF wanted
<1>4. Kept(RemoveAt(wanted, j), Closed(fds, {f}))
  BY <1>3, KeptRemove
<1>5. CASE CgiPipeError(j)
  <2>1. Broken(pollFds[j])
    BY <1>5 DEF CgiPipeError, Takes, Branch
  <2>2. Kept(RemoveAt(pollFds, j), fds)
    BY <1>1, <2>1, KeptDrop
  <2> QED
    BY <1>4, <1>5, <2>2 DEF CgiPipeError, kernel, wanted
<1>6. CASE CgiWriteSome(j)
  BY <1>6 DEF CgiWriteSome, kernel
<1>7. CASE CgiWriteEnd(j)
  BY <1>2, <1>7 DEF CgiWriteEnd
<1>8. CASE CgiReadChunk(j)
  <2>1. \A g \in Fd : fds'[g].kind = fds[g].kind /\ fds'[g].in = fds[g].in
    BY <1>1, <1>8 DEF CgiReadChunk, Desc
  <2>2. \A g \in Fd : /\ Breakable(fds[g]) => Breakable(fds'[g])
                      /\ fds[g].kind = "listen" => "rst" \notin fds'[g].in
    BY <2>1 DEF Breakable, Kept
  <2>3. Kept(pollFds, fds')
    BY <1>1, <2>1, <2>2, KeptChange
  <2> QED
    BY <1>8, <2>3 DEF CgiReadChunk
<1>9. CASE CgiReadEnd(j)
  BY <1>4, <1>9 DEF CgiReadEnd, wanted
<1> QED
  BY <1>5, <1>6, <1>7, <1>8, <1>9 DEF CgiStep

LEMMA FileStepKept ==
    ASSUME TypeOK, Sound(pollFds, fds), Kept(pollFds, fds), NEW j, IsNext(j), FileStep(j)
    PROVE  Kept(pollFds', fds')
<1> DEFINE f == pollFds[j].fd
           wanted == Want(pollFds, fileToClient[f], "OUT")
<1>1. j \in DOMAIN pollFds /\ f \in Fd /\ pollFds \in Seq(Entry)
  BY NextEntry DEF TypeOK
<1>2. /\ wanted \in Seq(Entry) /\ j \in DOMAIN wanted /\ wanted[j].fd = f
      /\ Sound(wanted, fds) /\ Kept(wanted, fds)
  BY <1>1, WantProperties, SoundWant, KeptWant
<1> HIDE DEF wanted
<1>3. Kept(RemoveAt(wanted, j), Closed(fds, {f}))
  BY <1>2, KeptRemove
<1>4. CASE FileError(j)
  BY <1>3, <1>4 DEF FileError, wanted
<1>5. CASE FileEnd(j)
  BY <1>3, <1>5 DEF FileEnd, wanted
<1>6. CASE FileSome(j)
  BY <1>6 DEF FileSome, kernel
<1> QED
  BY <1>4, <1>5, <1>6 DEF FileStep

LEMMA CloseClientKept ==
    ASSUME TypeOK, Sound(pollFds, fds), Kept(pollFds, fds), NEW j \in DOMAIN pollFds, NEW cs,
           CloseClient(cs, pollFds[j].fd, j)
    PROVE  Kept(pollFds', fds')
BY KeptRemove DEF CloseClient, TypeOK

LEMMA BuildStepKept ==
    ASSUME TypeOK, Sound(pollFds, fds), Kept(pollFds, fds), NEW j, BuildStep(j)
    PROVE  Kept(pollFds', fds')
<1>1. pollFds \in Seq(Entry) /\ fds \in [Fd -> Desc]
  BY DEF TypeOK
<1>2. CASE BuildPage(j)
  BY <1>2 DEF BuildPage, kernel
<1>3. ASSUME NEW g \in FreeFds, NEW k \in Kind \ {"listen"}, NEW f, NEW ev \in {"IN", "OUT"},
             fds' = [fds EXCEPT ![g] = Open(k)],
             pollFds' = Want(Append(pollFds, NewEntry(g, ev)), f, "IN")
      PROVE  Kept(pollFds', fds')
  <2>1. g \in Fd /\ fds[g].kind = "free"
    BY DEF FreeFds
  <2>2. Open(k).kind = k
    BY DEF Open, FreeDesc
  <2>3. fds'[g].kind # "listen" /\ \A h \in Fd \ {g} : fds'[h] = fds[h]
    BY <1>1, <1>3, <2>1, <2>2
  <2>4. Append(pollFds, NewEntry(g, ev)) \in Seq(Entry)
    BY <1>1, <2>1, NewEntryType
  <2>5. Kept(Append(pollFds, NewEntry(g, ev)), fds')
    BY <1>1, <2>1, <2>3, KeptAppend
  <2> QED
    BY <1>3, <2>4, <2>5, KeptWant
<1>4. CASE BuildFile(j)
  <2>1. PICK g \in FreeFds :
           /\ fds' = [fds EXCEPT ![g] = Open("fileR")]
           /\ pollFds' = Want(Append(pollFds, NewEntry(g, "IN")), pollFds[j].fd, "IN")
    BY <1>4 DEF BuildFile, IsFree
  <2> QED
    BY <1>3, <2>1 DEF Kind
<1>5. CASE BuildUpload(j)
  <2>1. PICK g \in FreeFds :
           /\ fds' = [fds EXCEPT ![g] = Open("fileW")]
           /\ pollFds' = Want(Append(pollFds, NewEntry(g, "OUT")), pollFds[j].fd, "IN")
    BY <1>5 DEF BuildUpload, IsFree
  <2> QED
    BY <1>3, <2>1 DEF Kind
<1>6. ASSUME NEW body \in BOOLEAN, BuildCgi(j, body)
      PROVE  Kept(pollFds', fds')
  <2> DEFINE added(w, r) == IF body THEN <<NewEntry(r, "IN"), NewEntry(w, "OUT")>>
                                    ELSE <<NewEntry(r, "IN")>>
  <2>1. PICK w \in Fd, r \in Fd, p \in FreshPids :
           /\ IsFree(w, 2) /\ IsFree(r, 3)
           /\ fds' = [fds EXCEPT ![r] = OpenPipe("pipeR", p),
                                 ![w] = IF body THEN OpenPipe("pipeW", p) ELSE FreeDesc]
           /\ pollFds' = Want(pollFds \o added(w, r), pollFds[j].fd, "IN")
    BY <1>6 DEF BuildCgi, LaunchCgi
  <2>2. fds[w].kind = "free" /\ fds[r].kind = "free"
    BY <2>1 DEF IsFree, FreeFds
  <2>3. w # r
    <3>1. /\ Cardinality({g \in FreeFds : g < w}) = 1
          /\ Cardinality({g \in FreeFds : g < r}) = 2
      BY <2>1 DEF IsFree
    <3> QED
      BY <3>1
  <2>4. /\ OpenPipe("pipeR", p).kind = "pipeR" /\ OpenPipe("pipeW", p).kind = "pipeW"
        /\ FreeDesc.kind = "free"
    BY DEF OpenPipe, Open, FreeDesc
  <2> DEFINE one == Append(pollFds, NewEntry(r, "IN"))
             two == Append(one, NewEntry(w, "OUT"))
             d == [fds EXCEPT ![r] = OpenPipe("pipeR", p)]
  <2>5. /\ d[r].kind = "pipeR" /\ d[w].kind = "free"
        /\ \A h \in Fd \ {r} : d[h] = fds[h]
        /\ \A h \in Fd : fds[h].kind # "free" => d[h].kind # "free"
    BY <1>1, <2>2, <2>4, <2>3
  <2>6. one \in Seq(Entry) /\ two \in Seq(Entry)
    BY <1>1, NewEntryType
  <2> HIDE DEF d
  <2>7. Sound(one, d) /\ Kept(one, d)
    BY <1>1, <2>2, <2>5, SoundAppend, KeptAppend
  <2>8. CASE body
    <3>1. pollFds \o added(w, r) = two
      BY <1>1, <2>8, NewEntryType
    <3>2. fds'[w].kind = "pipeW" /\ \A h \in Fd \ {w} : fds'[h] = d[h]
      BY <1>1, <2>1, <2>4, <2>8, <2>3 DEF d
    <3> HIDE DEF one
    <3>3. Kept(two, fds')
      BY <2>5, <2>6, <2>7, <3>2, KeptAppend
    <3> HIDE DEF two, added
    <3> QED
      BY <2>1, <2>6, <3>1, <3>3, KeptWant
  <2>9. CASE ~body
    <3>1. pollFds \o added(w, r) = one
      BY <1>1, <2>9, NewEntryType
    <3>2. fds'[w].kind = "free" /\ \A h \in Fd \ {w} : fds'[h] = d[h]
      BY <1>1, <2>1, <2>2, <2>4, <2>9, <2>3 DEF d
    <3> HIDE DEF one, added
    <3>3. \A h \in Fd : /\ fds'[h].kind = d[h].kind
                        /\ Breakable(d[h]) => Breakable(fds'[h])
                        /\ d[h].kind = "listen" => "rst" \notin fds'[h].in
      BY <2>5, <2>7, <3>2 DEF Breakable, Kept
    <3>4. Kept(one, fds')
      BY <2>6, <2>7, <3>3, KeptChange
    <3> QED
      BY <2>1, <2>6, <3>1, <3>4, KeptWant
  <2> QED
    BY <2>8, <2>9
<1>7. CASE BuildCgiFails(j)
  <2>1. Open("pipeR").kind = "pipeR" /\ Open("pipeW").kind = "pipeW"
    BY DEF Open, FreeDesc
  <2>2. \A h \in Fd : \/ fds'[h] = fds[h]
                      \/ fds[h].kind = "free" /\ fds'[h].kind \in {"pipeR", "pipeW"}
    BY <1>7, <2>1 DEF BuildCgiFails, IsFree, FreeFds
  <2>3. \A k \in DOMAIN pollFds : pollFds[k] \in Entry
    BY <1>1
  <2>4. \A k \in DOMAIN pollFds : pollFds[k].fd \in Fd /\ fds[pollFds[k].fd].kind # "free"
    BY <2>3 DEF Entry, Sound
  <2>5. Kept(pollFds, fds')
    BY <2>2, <2>4 DEF Kept, Breakable
  <2> QED
    BY <1>7, <2>5 DEF BuildCgiFails
<1> QED
  BY <1>2, <1>4, <1>5, <1>6, <1>7 DEF BuildStep

LEMMA PlainStepKept ==
    ASSUME TypeOK, Sound(pollFds, fds), Kept(pollFds, fds), NEW j, IsNext(j), PlainStep(j)
    PROVE  Kept(pollFds', fds')
<1> DEFINE f == pollFds[j].fd
<1>1. /\ j \in DOMAIN pollFds /\ f \in Fd
      /\ pollFds \in Seq(Entry) /\ fds \in [Fd -> Desc]
  BY NextEntry DEF TypeOK
<1>2. CASE PlainError(j) \/ ReadGone(j) \/ SendFails(j) \/ SendLast(j)
  BY <1>1, <1>2, CloseClientKept DEF PlainError, ReadGone, SendFails, SendLast
<1>3. CASE Accept(j)
  <2>1. PICK g \in FreeFds :
           /\ fds' = [fds EXCEPT ![f].in = {}, ![g] = Open("sock")]
           /\ pollFds' = Append(pollFds, NewEntry(g, "IN"))
    BY <1>3 DEF Accept, IsFree
  <2>2. g \in Fd /\ fds[g].kind = "free" /\ g # f
    BY <1>1 DEF FreeFds, Sound
  <2>3. Open("sock").kind = "sock"
    BY DEF Open, FreeDesc
  <2> DEFINE d == [fds EXCEPT ![f].in = {}]
  <2>4. /\ d[f].kind = fds[f].kind /\ d[f].in = {}
        /\ \A h \in Fd \ {f} : d[h] = fds[h]
    BY <1>1 DEF Desc
  <2>5. d[g].kind = "free" /\ fds'[g].kind = "sock" /\ \A h \in Fd \ {g} : fds'[h] = d[h]
    BY <1>1, <2>1, <2>2, <2>3
  <2> HIDE DEF d
  <2>6. ~Broken(pollFds[j])
    BY <1>3 DEF Accept, Takes, Branch, Broken
  <2>7. \A k \in DOMAIN pollFds : pollFds[k].fd = f => k = j
    BY <1>1 DEF Sound
  <2>8. \A k \in DOMAIN pollFds : pollFds[k] \in Entry
    BY <1>1
  <2>9. \A k \in DOMAIN pollFds : pollFds[k].fd \in Fd
    BY <2>8 DEF Entry
  <2>10. Kept(pollFds, d)
    BY <1>1, <2>4, <2>6, <2>7, <2>9 DEF Kept
  <2>11. Sound(pollFds, d)
    BY <2>4, <2>9 DEF Sound
  <2>12. Kept(Append(pollFds, NewEntry(g, "IN")), fds')
    BY <1>1, <2>2, <2>5, <2>10, <2>11, KeptAppend
  <2> QED
    BY <2>1, <2>12
<1>4. CASE AcceptFails(j) \/ WriteNothing(j) \/ SendSome(j)
  BY <1>4 DEF AcceptFails, WriteNothing, SendSome, kernel
<1>5. CASE ReadData(j)
  <2>1. fds[f].kind = "sock" /\ fds' = [fds EXCEPT ![f].in = @ \ {"data"}]
    BY <1>5 DEF ReadData, Receives
  <2>2. /\ fds'[f].kind = "sock" /\ fds'[f].in = fds[f].in \ {"data"}
        /\ \A h \in Fd \ {f} : fds'[h] = fds[h]
    BY <1>1, <2>1 DEF Desc
  <2>3. \A h \in Fd : /\ fds'[h].kind = fds[h].kind
                      /\ Breakable(fds[h]) => Breakable(fds'[h])
                      /\ fds[h].kind = "listen" => "rst" \notin fds'[h].in
    BY <2>1, <2>2 DEF Breakable, Kept
  <2>4. Kept(pollFds, fds')
    BY <1>1, <2>3, KeptChange
  <2>5. pollFds' = pollFds \/ pollFds' = Want(pollFds, f, "OUT")
    BY <1>5 DEF ReadData
  <2> QED
    BY <1>1, <2>4, <2>5, KeptWant
<1>6. CASE SendLastKeep(j)
  <2>1. PICK ev \in {"IN", "OUT"} : pollFds' = Want(pollFds, f, ev)
    BY <1>6 DEF SendLastKeep
  <2> QED
    BY <1>1, <1>6, <2>1, KeptWant DEF SendLastKeep, kernel
<1> QED
  BY <1>2, <1>3, <1>4, <1>5, <1>6, BuildStepKept DEF PlainStep, SendStep

LEMMA SweepKept ==
    ASSUME TypeOK, Sound(pollFds, fds), Kept(pollFds, fds), Sweep
    PROVE  Kept(pollFds', fds')
<1>1. ASSUME NEW j \in DOMAIN pollFds, CloseIdle(j)
      PROVE  Kept(pollFds', fds')
  BY <1>1, CloseClientKept DEF CloseIdle
<1>2. CASE EndIdle \/ EndCgi
  BY <1>2 DEF EndIdle, EndCgi, kernel
<1>3. ASSUME NEW c \in Fd, KillLateCgi(c)
      PROVE  Kept(pollFds', fds')
  <2> DEFINE rd == clients[c].rd
             wr == clients[c].wr
             s == ErasePollFd(pollFds, rd)
             t == ErasePollFd(s, wr)
             d == Closed(Closed(fds, {rd}), {wr})
  <2>1. pollFds \in Seq(Entry) /\ fds \in [Fd -> Desc]
    BY DEF TypeOK
  <2>2. s \in Seq(Entry) /\ t \in Seq(Entry)
    BY <2>1, EraseType
  <2>3. Sound(s, Closed(fds, {rd})) /\ Kept(s, Closed(fds, {rd}))
    BY <2>1, SoundErase, KeptErase
  <2>4. Kept(t, d)
    BY <2>2, <2>3, KeptErase
  <2>5. fds' = Closed(fds, {rd, wr} \ {NoFd}) /\ pollFds' = Want(t, c, "OUT")
    BY <1>3 DEF KillLateCgi, OpenPipes
  <2>6. NoFd \notin Fd
    BY SizesAssumption DEF NoFd, Fd
  <2>7. fds' = d
    BY <2>5, <2>6 DEF Closed
  <2> HIDE DEF s, t, d
  <2> QED
    BY <2>2, <2>4, <2>5, <2>7, KeptWant
<1> QED
  BY <1>1, <1>2, <1>3 DEF Sweep

\* poll() reports an error only of what is breakable.
LEMMA PassKept ==
    ASSUME TypeOK, Sound(pollFds, fds), Kept(pollFds, fds), Poll \/ EndPass
    PROVE  Kept(pollFds', fds')
<1>1. \A j \in DOMAIN pollFds : pollFds[j] \in Entry
  BY DEF TypeOK
<1>2. \A e \in Entry : \A R : [e EXCEPT !.revents = R].fd = e.fd /\ [e EXCEPT !.revents = R].revents = R
  BY DEF Entry
<1>3. CASE Poll
  <2>1. PICK full : pollFds' = [j \in DOMAIN pollFds |->
            [pollFds[j] EXCEPT !.revents =
                Condition(pollFds[j].fd, j \in full)
                    \cap {pollFds[j].events, "ERR", "HUP", "NVAL"}]]
    BY <1>3 DEF Poll
  <2>2. ASSUME NEW f \in Fd, NEW b, fds[f].kind # "free",
               Condition(f, b) \cap {"ERR", "NVAL"} # {}
        PROVE  Breakable(fds[f])
    <3>1. fds[f].kind \in Kind
      BY DEF TypeOK, Desc
    <3>2. CASE fds[f].kind \in {"sock", "listen"}
      BY <2>2, <3>2 DEF Condition, Breakable, Kept
    <3>3. CASE fds[f].kind \in {"fileR", "fileW"}
      BY <2>2, <3>3 DEF Condition
    <3> QED
      BY <2>2, <3>1, <3>2, <3>3 DEF Kind, Breakable
  <2>3. ASSUME NEW j \in DOMAIN pollFds
        PROVE  /\ pollFds'[j].fd = pollFds[j].fd
               /\ pollFds'[j].revents \subseteq Condition(pollFds[j].fd, j \in full)
    <3>1. PICK R : R = Condition(pollFds[j].fd, j \in full) \cap {pollFds[j].events, "ERR", "HUP", "NVAL"}
      OBVIOUS
    <3>2. pollFds'[j] = [pollFds[j] EXCEPT !.revents = R]
      BY <2>1, <3>1
    <3>3. pollFds'[j].fd = pollFds[j].fd /\ pollFds'[j].revents = R
      BY <1>1, <1>2, <3>2
    <3> QED
      BY <3>1, <3>3
  <2>4. \A j \in DOMAIN pollFds : pollFds[j].fd \in Fd /\ fds[pollFds[j].fd].kind # "free"
    BY <1>1 DEF Entry, Sound
  <2>5. \A j \in DOMAIN pollFds : Broken(pollFds'[j]) => Breakable(fds[pollFds[j].fd])
    BY <2>2, <2>3, <2>4 DEF Broken
  <2>6. DOMAIN pollFds' = DOMAIN pollFds
    BY <2>1
  <2>7. fds' = fds
    BY <1>3 DEF Poll, kernel
  <2> QED
    BY <2>3, <2>5, <2>6, <2>7, KeptSameReports
<1>4. CASE EndPass
  <2>1. /\ DOMAIN pollFds' = DOMAIN pollFds /\ fds' = fds
        /\ \A j \in DOMAIN pollFds : pollFds'[j].fd = pollFds[j].fd /\ pollFds'[j].revents = {}
    BY <1>1, <1>2, <1>4 DEF EndPass, kernel
  <2>2. \A j \in DOMAIN pollFds : ~Broken(pollFds'[j])
    BY <2>1 DEF Broken
  <2> QED
    BY <2>1, <2>2, KeptSameReports
<1> QED
  BY <1>3, <1>4

LEMMA OutsideKept ==
    ASSUME TypeOK, Kept(pollFds, fds), Outside
    PROVE  Kept(pollFds', fds')
<1> DEFINE Changed(g) == /\ fds'[g].kind = fds[g].kind
                         /\ Breakable(fds[g]) => Breakable(fds'[g])
                         /\ fds[g].kind = "listen" => "rst" \notin fds'[g].in
<1>1. pollFds \in Seq(Entry) /\ fds \in [Fd -> Desc]
  BY DEF TypeOK
<1>2. ASSUME NEW f \in Fd, NEW x, fds' = [fds EXCEPT ![f].in = x]
      PROVE  /\ fds'[f].kind = fds[f].kind /\ fds'[f].in = x
             /\ \A g \in Fd \ {f} : fds'[g] = fds[g]
  BY <1>1, <1>2 DEF Desc
<1>3. pollFds' = pollFds
  BY DEF Outside, PeerSends, PeerLeaves, ScriptWrites, ScriptMutes, ScriptEnds,
         QuietTooLong, CgiTooLong, ServerUnchanged
<1>4. ASSUME NEW f \in Fd, PeerSends(f)
      PROVE  \A g \in Fd : Changed(g)
  <2>1. fds' = [fds EXCEPT ![f].in = {"data"}] /\ fds[f].in = {} /\ fds[f].kind \in {"sock", "listen"}
    BY <1>4 DEF PeerSends
  <2>2. /\ fds'[f].kind = fds[f].kind /\ fds'[f].in = {"data"}
        /\ \A g \in Fd \ {f} : fds'[g] = fds[g]
    BY <1>2, <2>1
  <2> QED
    BY <2>1, <2>2 DEF Breakable, Kept
<1>5. ASSUME NEW f \in Fd, NEW how \in {"fin", "rst"}, PeerLeaves(f, how)
      PROVE  \A g \in Fd : Changed(g)
  <2>1. PICK x : fds' = [fds EXCEPT ![f].in = x]
    BY <1>5 DEF PeerLeaves
  <2>2. fds[f].kind = "sock" /\ "rst" \notin fds[f].in
    BY <1>5 DEF PeerLeaves
  <2>3. /\ fds'[f].kind = "sock" /\ \A g \in Fd \ {f} : fds'[g] = fds[g]
    BY <1>2, <2>1, <2>2
  <2> QED
    BY <2>2, <2>3 DEF Breakable, Kept
<1>6. ASSUME NEW f \in Fd, ScriptWrites(f)
      PROVE  \A g \in Fd : Changed(g)
  <2>1. \A g \in Fd : fds'[g].kind = fds[g].kind /\ fds'[g].in = fds[g].in
    BY <1>1, <1>6 DEF ScriptWrites, Desc
  <2> QED
    BY <2>1 DEF Breakable, Kept
<1>7. ASSUME fds' = fds
      PROVE  \A g \in Fd : Changed(g)
  BY <1>7 DEF Kept
<1>8. (\E f \in Fd : QuietTooLong(f) \/ CgiTooLong(f))
         \/ (\E p \in Pid : ScriptMutes(p) \/ ScriptEnds(p)) => fds' = fds
  BY DEF QuietTooLong, CgiTooLong, ScriptMutes, ScriptEnds, kernel
<1>9. \A g \in Fd : Changed(g)
  BY <1>4, <1>5, <1>6, <1>7, <1>8 DEF Outside
<1> QED
  BY <1>1, <1>3, <1>9, KeptChange

\* Whatever peers and scripts do, and whatever numbers are left in the maps, a
\* file, a listening socket or a connection whose peer is there is polled as
\* long as it is open: only the branch for broken CGI pipes erases an entry
\* without closing, and it is reached only by ends of pipes and by connections
\* that have been reset.
THEOREM NothingElseIsLost == Spec => []OnlyBrokenAreLost
<1>1. ASSUME Init
      PROVE  Kept(pollFds, fds)
  <2>1. Listen \subseteq Fd
    BY SizesAssumption DEF Listen, Fd
  <2>2. /\ Open("listen").kind = "listen" /\ Open("listen").in = {}
        /\ FreeDesc.kind = "free"
    BY DEF Open, FreeDesc
  <2>3. \A j \in Listen : NewEntry(j, "IN").fd = j /\ ~Broken(NewEntry(j, "IN"))
    BY DEF NewEntry, Broken
  <2>4. /\ DOMAIN pollFds = Listen /\ \A j \in Listen : pollFds[j] = NewEntry(j, "IN")
        /\ \A f \in Fd : fds[f] = IF f \in Listen THEN Open("listen") ELSE FreeDesc
    BY <1>1 DEF Init
  <2> QED
    BY <2>1, <2>2, <2>3, <2>4 DEF Kept
<1>2. ASSUME TypeOK, Sound(pollFds, fds), Kept(pollFds, fds), [Next]_vars
      PROVE  Kept(pollFds', fds')
  <2>1. CASE Dispatch
    BY <1>2, <2>1, CgiStepKept, FileStepKept, PlainStepKept DEF Dispatch
  <2>2. CASE Loop
    BY <1>2, <2>1, <2>2, PassKept, SweepKept DEF Loop
  <2>3. CASE Outside
    BY <1>2, <2>3, OutsideKept
  <2>4. CASE UNCHANGED vars
    BY <1>2, <2>4 DEF vars
  <2> QED
    BY <1>2, <2>2, <2>3, <2>4 DEF Next
<1> DEFINE K == Kept(pollFds, fds)
<1>3. PollSetSound <=> Sound(pollFds, fds)
  BY DEF PollSetSound, Sound
<1>4. Init => K
  BY <1>1
<1>5. TypeOK /\ PollSetSound /\ K /\ [Next]_vars => K'
  BY <1>2, <1>3
<1>6. K => OnlyBrokenAreLost
  BY DEF Kept, Breakable, OnlyBrokenAreLost
<1> HIDE DEF K
<1> QED
  BY <1>4, <1>5, <1>6, TypeCorrect, PollSetIsSound, PTL DEF Spec

-----------------------------------------------------------------------------
(* When nothing at all is lost *)

\* Poll set s asks for something at every open descriptor of d.
Covers(s, d) == \A f \in Fd : d[f].kind # "free" => Asked(s, f) # "none"

\* The steps that lose a descriptor: a broken pipe that is not the client's
\* stdout, and the second of two pipes that cannot be opened.
LosesPipe ==
    \E j \in DOMAIN pollFds :
        \/ Takes(j, "cgiError")
        \/ BuildCgiFails(j) /\ Cardinality(FreeFds) \in {2, 3}

LEMMA CoversFewer ==
    ASSUME NEW s, NEW d, NEW d2, Covers(s, d),
           \A f \in Fd : d2[f].kind # "free" => d[f].kind # "free"
    PROVE  Covers(s, d2)
BY DEF Covers

LEMMA CoversWant ==
    ASSUME NEW s \in Seq(Entry), NEW d, Sound(s, d), Covers(s, d), NEW f, NEW ev \in {"IN", "OUT"}
    PROVE  Covers(Want(s, f, ev), d)
<1>1. /\ \A g : g # f => Asked(Want(s, f, ev), g) = Asked(s, g)
      /\ Asked(s, f) # "none" => Asked(Want(s, f, ev), f) = ev
  BY AskedWant
<1> QED
  BY <1>1 DEF Covers

\* A closed descriptor leaves with its only entry.
LEMMA CoversRemove ==
    ASSUME NEW s \in Seq(Entry), NEW d, Sound(s, d), Covers(s, d), NEW j \in DOMAIN s
    PROVE  Covers(RemoveAt(s, j), Closed(d, {s[j].fd}))
<1>1. \A g : g # s[j].fd => Asked(RemoveAt(s, j), g) = Asked(s, g)
  BY AskedRemove
<1>2. \A g \in Fd : Closed(d, {s[j].fd})[g].kind # "free" => g # s[j].fd /\ d[g].kind # "free"
  BY DEF Closed, FreeDesc
<1> QED
  BY <1>1, <1>2 DEF Covers

LEMMA CoversErase ==
    ASSUME NEW s \in Seq(Entry), NEW d, Sound(s, d), Covers(s, d), NEW f
    PROVE  Covers(ErasePollFd(s, f), Closed(d, {f}))
<1>1. \A g : g # f => Asked(ErasePollFd(s, f), g) = Asked(s, g)
  BY AskedErase
<1>2. \A g \in Fd : Closed(d, {f})[g].kind # "free" => g # f /\ d[g].kind # "free"
  BY DEF Closed, FreeDesc
<1> QED
  BY <1>1, <1>2 DEF Covers

\* What is opened comes with an entry.
LEMMA CoversAppend ==
    ASSUME NEW s \in Seq(Entry), NEW d, Sound(s, d), Covers(s, d), NEW ev \in {"IN", "OUT"},
           NEW f \in Fd, d[f].kind = "free",
           NEW d2, \A g \in Fd \ {f} : d2[g].kind # "free" => d[g].kind # "free"
    PROVE  Covers(Append(s, NewEntry(f, ev)), d2)
<1>1. /\ \A g : g # f => Asked(Append(s, NewEntry(f, ev)), g) = Asked(s, g)
      /\ Asked(Append(s, NewEntry(f, ev)), f) = ev
  BY AskedAppend
<1> QED
  BY <1>1 DEF Covers

LEMMA CgiStepCovers ==
    ASSUME TypeOK, Sound(pollFds, fds), Covers(pollFds, fds), ~LosesPipe,
           NEW j, IsNext(j), CgiStep(j)
    PROVE  Covers(pollFds', fds')
<1> DEFINE f == pollFds[j].fd
           wanted == Want(pollFds, cgiToClient[f], "OUT")
<1>1. j \in DOMAIN pollFds /\ f \in Fd /\ pollFds \in Seq(Entry) /\ fds \in [Fd -> Desc]
  BY NextEntry DEF TypeOK
<1>2. Covers(RemoveAt(pollFds, j), Closed(fds, {f}))
  BY <1>1, CoversRemove
<1>3. /\ wanted \in Seq(Entry) /\ j \in DOMAIN wanted /\ wanted[j].fd = f
      /\ Sound(wanted, fds) /\ Covers(wanted, fds)
  BY <1>1, WantProperties, SoundWant, CoversWant
<1> HIDE DEF wanted
<1>4. Covers(RemoveAt(wanted, j), Closed(fds, {f}))
  BY <1>3, CoversRemove
<1>5. ~CgiPipeError(j)
  BY <1>1 DEF CgiPipeError, LosesPipe
<1>6. CASE CgiWriteSome(j)
  BY <1>6 DEF CgiWriteSome, kernel
<1>7. CASE CgiWriteEnd(j)
  BY <1>2, <1>7 DEF CgiWriteEnd
<1>8. CASE CgiReadChunk(j)
  <2>1. \A g \in Fd : fds'[g].kind = fds[g].kind
    BY <1>1, <1>8 DEF CgiReadChunk, Desc
  <2>2. Covers(pollFds, fds')
    BY <2>1, CoversFewer
  <2> QED
    BY <1>8, <2>2 DEF CgiReadChunk
<1>9. CASE CgiReadEnd(j)
  BY <1>4, <1>9 DEF CgiReadEnd, wanted
<1> QED
  BY <1>5, <1>6, <1>7, <1>8, <1>9 DEF CgiStep

LEMMA FileStepCovers ==
    ASSUME TypeOK, Sound(pollFds, fds), Covers(pollFds, fds), NEW j, IsNext(j), FileStep(j)
    PROVE  Covers(pollFds', fds')
<1> DEFINE f == pollFds[j].fd
           wanted == Want(pollFds, fileToClient[f], "OUT")
<1>1. j \in DOMAIN pollFds /\ f \in Fd /\ pollFds \in Seq(Entry)
  BY NextEntry DEF TypeOK
<1>2. /\ wanted \in Seq(Entry) /\ j \in DOMAIN wanted /\ wanted[j].fd = f
      /\ Sound(wanted, fds) /\ Covers(wanted, fds)
  BY <1>1, WantProperties, SoundWant, CoversWant
<1> HIDE DEF wanted
<1>3. Covers(RemoveAt(wanted, j), Closed(fds, {f}))
  BY <1>2, CoversRemove
<1>4. CASE FileError(j)
  BY <1>3, <1>4 DEF FileError, wanted
<1>5. CASE FileEnd(j)
  BY <1>3, <1>5 DEF FileEnd, wanted
<1>6. CASE FileSome(j)
  BY <1>6 DEF FileSome, kernel
<1> QED
  BY <1>4, <1>5, <1>6 DEF FileStep

LEMMA CloseClientCovers ==
    ASSUME TypeOK, Sound(pollFds, fds), Covers(pollFds, fds), NEW j \in DOMAIN pollFds, NEW cs,
           CloseClient(cs, pollFds[j].fd, j)
    PROVE  Covers(pollFds', fds')
BY CoversRemove DEF CloseClient, TypeOK

LEMMA BuildStepCovers ==
    ASSUME TypeOK, Sound(pollFds, fds), Covers(pollFds, fds), ~LosesPipe,
           NEW j \in DOMAIN pollFds, BuildStep(j)
    PROVE  Covers(pollFds', fds')
<1>1. pollFds \in Seq(Entry) /\ fds \in [Fd -> Desc]
  BY DEF TypeOK
<1>2. CASE BuildPage(j)
  BY <1>2 DEF BuildPage, kernel
<1>3. ASSUME NEW g \in FreeFds, NEW k \in Kind \ {"free"}, NEW f, NEW ev \in {"IN", "OUT"},
             fds' = [fds EXCEPT ![g] = Open(k)],
             pollFds' = Want(Append(pollFds, NewEntry(g, ev)), f, "IN")
      PROVE  Covers(pollFds', fds')
  <2>1. g \in Fd /\ fds[g].kind = "free"
    BY DEF FreeFds
  <2>2. Open(k).kind = k
    BY DEF Open, FreeDesc
  <2>3. fds'[g].kind # "free" /\ \A h \in Fd \ {g} : fds'[h] = fds[h]
    BY <1>1, <1>3, <2>1, <2>2
  <2>4. Append(pollFds, NewEntry(g, ev)) \in Seq(Entry)
    BY <1>1, <2>1, NewEntryType
  <2>5. Covers(Append(pollFds, NewEntry(g, ev)), fds')
    BY <1>1, <2>1, <2>3, CoversAppend
  <2>6. \A h \in Fd : fds[h].kind # "free" => fds'[h].kind # "free"
    BY <2>1, <2>3
  <2>7. Sound(Append(pollFds, NewEntry(g, ev)), fds')
    BY <1>1, <2>1, <2>3, <2>6, SoundAppend
  <2> QED
    BY <1>3, <2>4, <2>5, <2>7, CoversWant
<1>4. CASE BuildFile(j)
  <2>1. PICK g \in FreeFds :
           /\ fds' = [fds EXCEPT ![g] = Open("fileR")]
           /\ pollFds' = Want(Append(pollFds, NewEntry(g, "IN")), pollFds[j].fd, "IN")
    BY <1>4 DEF BuildFile, IsFree
  <2> QED
    BY <1>3, <2>1 DEF Kind
<1>5. CASE BuildUpload(j)
  <2>1. PICK g \in FreeFds :
           /\ fds' = [fds EXCEPT ![g] = Open("fileW")]
           /\ pollFds' = Want(Append(pollFds, NewEntry(g, "OUT")), pollFds[j].fd, "IN")
    BY <1>5 DEF BuildUpload, IsFree
  <2> QED
    BY <1>3, <2>1 DEF Kind
<1>6. ASSUME NEW body \in BOOLEAN, BuildCgi(j, body)
      PROVE  Covers(pollFds', fds')
  <2> DEFINE added(w, r) == IF body THEN <<NewEntry(r, "IN"), NewEntry(w, "OUT")>>
                                    ELSE <<NewEntry(r, "IN")>>
  <2>1. PICK w \in Fd, r \in Fd, p \in FreshPids :
           /\ IsFree(w, 2) /\ IsFree(r, 3)
           /\ fds' = [fds EXCEPT ![r] = OpenPipe("pipeR", p),
                                 ![w] = IF body THEN OpenPipe("pipeW", p) ELSE FreeDesc]
           /\ pollFds' = Want(pollFds \o added(w, r), pollFds[j].fd, "IN")
    BY <1>6 DEF BuildCgi, LaunchCgi
  <2>2. fds[w].kind = "free" /\ fds[r].kind = "free"
    BY <2>1 DEF IsFree, FreeFds
  <2>3. w # r
    <3>1. /\ Cardinality({g \in FreeFds : g < w}) = 1
          /\ Cardinality({g \in FreeFds : g < r}) = 2
      BY <2>1 DEF IsFree
    <3> QED
      BY <3>1
  <2>4. /\ OpenPipe("pipeR", p).kind = "pipeR" /\ OpenPipe("pipeW", p).kind = "pipeW"
        /\ FreeDesc.kind = "free"
    BY DEF OpenPipe, Open, FreeDesc
  <2> DEFINE one == Append(pollFds, NewEntry(r, "IN"))
             two == Append(one, NewEntry(w, "OUT"))
             d == [fds EXCEPT ![r] = OpenPipe("pipeR", p)]
  <2>5. /\ d[r].kind = "pipeR" /\ d[w].kind = "free"
        /\ \A h \in Fd \ {r} : d[h] = fds[h]
        /\ \A h \in Fd : fds[h].kind # "free" => d[h].kind # "free"
    BY <1>1, <2>2, <2>4, <2>3
  <2>6. one \in Seq(Entry) /\ two \in Seq(Entry)
    BY <1>1, NewEntryType
  <2> HIDE DEF d
  <2>7. Sound(one, d) /\ Covers(one, d)
    BY <1>1, <2>2, <2>5, SoundAppend, CoversAppend
  <2>8. CASE body
    <3>1. pollFds \o added(w, r) = two
      BY <1>1, <2>8, NewEntryType
    <3>2. fds'[w].kind = "pipeW" /\ \A h \in Fd \ {w} : fds'[h] = d[h]
      BY <1>1, <2>1, <2>4, <2>8, <2>3 DEF d
    <3> HIDE DEF one
    <3>3. Covers(two, fds')
      BY <2>5, <2>6, <2>7, <3>2, CoversAppend
    <3>4. Sound(two, fds')
      BY <2>5, <2>6, <2>7, <3>2, SoundAppend
    <3> HIDE DEF two, added
    <3> QED
      BY <2>1, <2>6, <3>1, <3>3, <3>4, CoversWant
  <2>9. CASE ~body
    <3>1. pollFds \o added(w, r) = one
      BY <1>1, <2>9, NewEntryType
    <3>2. fds'[w].kind = "free" /\ \A h \in Fd \ {w} : fds'[h] = d[h]
      BY <1>1, <2>1, <2>2, <2>4, <2>9, <2>3 DEF d
    <3> HIDE DEF one, added
    <3>3. Covers(one, fds')
      BY <2>5, <2>7, <3>2, CoversFewer
    <3>4. Sound(one, fds')
      BY <2>5, <2>6, <2>7, <3>2, SoundMoreOpen
    <3> QED
      BY <2>1, <2>6, <3>1, <3>3, <3>4, CoversWant
  <2> QED
    BY <2>8, <2>9
<1>7. CASE BuildCgiFails(j)
  <2>1. Cardinality(FreeFds) \notin {2, 3}
    BY <1>7 DEF LosesPipe
  <2>2. \A h \in Fd : fds'[h] = fds[h]
    BY <1>7, <2>1 DEF BuildCgiFails
  <2> QED
    BY <1>7, <2>2, CoversFewer DEF BuildCgiFails
<1> QED
  BY <1>2, <1>4, <1>5, <1>6, <1>7 DEF BuildStep

LEMMA PlainStepCovers ==
    ASSUME TypeOK, Sound(pollFds, fds), Covers(pollFds, fds), ~LosesPipe,
           NEW j, IsNext(j), PlainStep(j)
    PROVE  Covers(pollFds', fds')
<1> DEFINE f == pollFds[j].fd
<1>1. /\ j \in DOMAIN pollFds /\ f \in Fd
      /\ pollFds \in Seq(Entry) /\ fds \in [Fd -> Desc]
  BY NextEntry DEF TypeOK
<1>2. CASE PlainError(j) \/ ReadGone(j) \/ SendFails(j) \/ SendLast(j)
  BY <1>1, <1>2, CloseClientCovers DEF PlainError, ReadGone, SendFails, SendLast
<1>3. CASE Accept(j)
  <2>1. PICK g \in FreeFds :
           /\ fds' = [fds EXCEPT ![f].in = {}, ![g] = Open("sock")]
           /\ pollFds' = Append(pollFds, NewEntry(g, "IN"))
    BY <1>3 DEF Accept, IsFree
  <2>2. g \in Fd /\ fds[g].kind = "free" /\ g # f
    BY <1>1 DEF FreeFds, Sound
  <2>3. \A h \in Fd \ {g} : fds'[h].kind = fds[h].kind
    BY <1>1, <2>1, <2>2 DEF Desc
  <2>4. Covers(Append(pollFds, NewEntry(g, "IN")), fds')
    BY <1>1, <2>2, <2>3, CoversAppend
  <2> QED
    BY <2>1, <2>4
<1>4. CASE AcceptFails(j) \/ WriteNothing(j) \/ SendSome(j)
  BY <1>4 DEF AcceptFails, WriteNothing, SendSome, kernel
<1>5. CASE ReadData(j)
  <2>1. fds' = [fds EXCEPT ![f].in = @ \ {"data"}]
    BY <1>5 DEF ReadData
  <2>2. \A h \in Fd : fds'[h].kind = fds[h].kind
    BY <1>1, <2>1 DEF Desc
  <2>3. pollFds' = pollFds \/ pollFds' = Want(pollFds, f, "OUT")
    BY <1>5 DEF ReadData
  <2>4. Covers(pollFds', fds)
    BY <1>1, <2>3, CoversWant
  <2> QED
    BY <2>2, <2>4, CoversFewer
<1>6. CASE SendLastKeep(j)
  <2>1. PICK ev \in {"IN", "OUT"} : pollFds' = Want(pollFds, f, ev)
    BY <1>6 DEF SendLastKeep
  <2> QED
    BY <1>1, <1>6, <2>1, CoversWant DEF SendLastKeep, kernel
<1> QED
  BY <1>1, <1>2, <1>3, <1>4, <1>5, <1>6, BuildStepCovers DEF PlainStep, SendStep

LEMMA SweepCovers ==
    ASSUME TypeOK, Sound(pollFds, fds), Covers(pollFds, fds), Sweep
    PROVE  Covers(pollFds', fds')
<1>1. ASSUME NEW j \in DOMAIN pollFds, CloseIdle(j)
      PROVE  Covers(pollFds', fds')
  BY <1>1, CloseClientCovers DEF CloseIdle
<1>2. CASE EndIdle \/ EndCgi
  BY <1>2 DEF EndIdle, EndCgi, kernel
<1>3. ASSUME NEW c \in Fd, KillLateCgi(c)
      PROVE  Covers(pollFds', fds')
  <2> DEFINE rd == clients[c].rd
             wr == clients[c].wr
             s == ErasePollFd(pollFds, rd)
             t == ErasePollFd(s, wr)
             d == Closed(Closed(fds, {rd}), {wr})
  <2>1. pollFds \in Seq(Entry) /\ fds \in [Fd -> Desc]
    BY DEF TypeOK
  <2>2. s \in Seq(Entry) /\ t \in Seq(Entry)
    BY <2>1, EraseType
  <2>3. Sound(s, Closed(fds, {rd})) /\ Covers(s, Closed(fds, {rd}))
    BY <2>1, SoundErase, CoversErase
  <2>4. Sound(t, d) /\ Covers(t, d)
    BY <2>2, <2>3, SoundErase, CoversErase
  <2>5. fds' = Closed(fds, {rd, wr} \ {NoFd}) /\ pollFds' = Want(t, c, "OUT")
    BY <1>3 DEF KillLateCgi, OpenPipes
  <2>6. NoFd \notin Fd
    BY SizesAssumption DEF NoFd, Fd
  <2>7. fds' = d
    BY <2>5, <2>6 DEF Closed
  <2> HIDE DEF s, t, d
  <2> QED
    BY <2>2, <2>4, <2>5, <2>7, CoversWant
<1> QED
  BY <1>1, <1>2, <1>3 DEF Sweep

LEMMA PassCovers ==
    ASSUME TypeOK, TypeOK', Sound(pollFds, fds), Covers(pollFds, fds), Poll \/ EndPass
    PROVE  Covers(pollFds', fds')
<1>1. \A j \in DOMAIN pollFds : pollFds[j] \in Entry
  BY DEF TypeOK
<1>2. \A e \in Entry : \A R : /\ [e EXCEPT !.revents = R].fd = e.fd
                              /\ [e EXCEPT !.revents = R].events = e.events
  BY DEF Entry
<1>3. /\ DOMAIN pollFds' = DOMAIN pollFds /\ fds' = fds
      /\ \A j \in DOMAIN pollFds : \E R : pollFds'[j] = [pollFds[j] EXCEPT !.revents = R]
  <2>1. CASE Poll
    BY <2>1 DEF Poll, kernel
  <2>2. CASE EndPass
    BY <2>2 DEF EndPass, kernel
  <2> QED
    BY <2>1, <2>2
<1>4. ASSUME NEW j \in DOMAIN pollFds
      PROVE  pollFds'[j].fd = pollFds[j].fd /\ pollFds'[j].events = pollFds[j].events
  <2>1. PICK R : pollFds'[j] = [pollFds[j] EXCEPT !.revents = R]
    BY <1>3
  <2> QED
    BY <1>1, <1>2, <2>1
<1>5. pollFds \in Seq(Entry) /\ pollFds' \in Seq(Entry)
  BY DEF TypeOK
<1>6. \A f : Asked(pollFds', f) = Asked(pollFds, f)
  BY <1>3, <1>4, <1>5, AskedSame
<1> QED
  BY <1>3, <1>6 DEF Covers

LEMMA OutsideCovers ==
    ASSUME TypeOK, Covers(pollFds, fds), Outside
    PROVE  Covers(pollFds', fds')
<1>1. fds \in [Fd -> Desc]
  BY DEF TypeOK
<1>2. pollFds' = pollFds
  BY DEF Outside, PeerSends, PeerLeaves, ScriptWrites, ScriptMutes, ScriptEnds,
         QuietTooLong, CgiTooLong, ServerUnchanged
<1>3. ASSUME NEW f \in Fd, NEW x, fds' = [fds EXCEPT ![f].in = x] \/ fds' = [fds EXCEPT ![f].held = x]
      PROVE  \A g \in Fd : fds'[g].kind = fds[g].kind
  BY <1>1, <1>3 DEF Desc
<1>4. \A g \in Fd : fds'[g].kind = fds[g].kind
  <2>1. ASSUME NEW f \in Fd, PeerSends(f) \/ PeerLeaves(f, "fin") \/ PeerLeaves(f, "rst") \/ ScriptWrites(f)
        PROVE  \E x : fds' = [fds EXCEPT ![f].in = x] \/ fds' = [fds EXCEPT ![f].held = x]
    BY <2>1 DEF PeerSends, PeerLeaves, ScriptWrites
  <2>2. (\E f \in Fd : QuietTooLong(f) \/ CgiTooLong(f))
           \/ (\E p \in Pid : ScriptMutes(p) \/ ScriptEnds(p)) => fds' = fds
    BY DEF QuietTooLong, CgiTooLong, ScriptMutes, ScriptEnds, kernel
  <2> QED
    BY <1>3, <2>1, <2>2 DEF Outside
<1>5. Covers(pollFds, fds')
  BY <1>4, CoversFewer
<1> QED
  BY <1>2, <1>5

LEMMA InitCovers ==
    ASSUME Init
    PROVE  Covers(pollFds, fds)
<1>1. \A f \in Fd : fds[f].kind # "free" => fds[f].kind = "listen"
  BY DEF Init, Open, FreeDesc
<1> QED
  BY <1>1, InitOrderly DEF Covers, Orderly, Watched, Wanted

\* Nothing else loses a descriptor, whatever peers and scripts do.
LEMMA NextCovers ==
    ASSUME TypeOK, TypeOK', Sound(pollFds, fds), Covers(pollFds, fds), ~LosesPipe, [Next]_vars
    PROVE  Covers(pollFds', fds')
<1>1. CASE Dispatch
  BY <1>1, CgiStepCovers, FileStepCovers, PlainStepCovers DEF Dispatch
<1>2. CASE Poll \/ EndPass
  BY <1>2, PassCovers
<1>3. CASE Sweep
  BY <1>3, SweepCovers
<1>4. CASE Outside
  BY <1>4, OutsideCovers
<1>5. CASE UNCHANGED vars
  BY <1>5 DEF vars
<1> QED
  BY <1>1, <1>2, <1>3, <1>4, <1>5 DEF Next, Loop

LEMMA CoversIsPolled ==
    ASSUME TypeOK, Covers(pollFds, fds)
    PROVE  \A f \in Fd : fds[f].kind # "free" => \E j \in DOMAIN pollFds : pollFds[j].fd = f
<1>1. pollFds \in Seq(Entry)
  BY DEF TypeOK
<1> QED
  BY <1>1, AskedSome DEF Covers

-----------------------------------------------------------------------------
(* A server without scripts *)

WithoutScripts == Routes \cap {"cgi", "cgiBody"} = {}

\* Nothing is mapped in _cgiToClient, and there is no child.
Scriptless ==
    /\ \A f \in Fd : cgiToClient[f] = NoFd
    /\ \A p \in Pid : child[p] = "none"

LEMMA ScriptlessLosesNothing ==
    ASSUME WithoutScripts, TypeOK, Scriptless
    PROVE  ~LosesPipe /\ \A j : IsNext(j) => ~CgiStep(j)
<1>1. ASSUME NEW j, IsNext(j)
      PROVE  Branch(pollFds[j]) \notin {"cgiError", "cgiWrite", "cgiRead"}
  <2>1. pollFds[j] \in Entry /\ pollFds[j].fd \in Fd
    BY <1>1, NextEntry
  <2>2. ~InCgi(pollFds[j].fd)
    BY <2>1 DEF Scriptless, InCgi
  <2> QED
    BY <2>1, <2>2, CgiBranch
<1>2. \A j : IsNext(j) => ~CgiStep(j)
  BY <1>1 DEF CgiStep, CgiPipeError, CgiWriteSome, CgiWriteEnd, CgiReadChunk, CgiReadEnd, Takes
<1>3. \A j : ~BuildCgiFails(j)
  BY DEF BuildCgiFails, WithoutScripts
<1> QED
  BY <1>1, <1>2, <1>3 DEF LosesPipe, Takes

LEMMA NextScriptless ==
    ASSUME WithoutScripts, TypeOK, Scriptless, [Next]_vars
    PROVE  Scriptless'
<1>1. CASE child' = child /\ cgiToClient' = cgiToClient
  BY <1>1 DEF Scriptless
<1>2. ASSUME NEW j, FileStep(j)
      PROVE  child' = child /\ cgiToClient' = cgiToClient
  BY <1>2 DEF FileStep, FileError, FileSome, FileEnd, kernel, maps
<1>3. ASSUME NEW j, BuildStep(j)
      PROVE  child' = child /\ cgiToClient' = cgiToClient
  <2>1. ~BuildCgi(j, TRUE) /\ ~BuildCgi(j, FALSE) /\ ~BuildCgiFails(j)
    BY DEF BuildCgi, BuildCgiFails, WithoutScripts
  <2> QED
    BY <1>3, <2>1 DEF BuildStep, BuildPage, BuildFile, BuildUpload, kernel, maps
<1>4. ASSUME NEW j, PlainStep(j)
      PROVE  child' = child /\ cgiToClient' = cgiToClient
  BY <1>3, <1>4 DEF PlainStep, SendStep, PlainError, Accept, AcceptFails, ReadGone, ReadData,
        WriteNothing, SendFails, SendSome, SendLast, SendLastKeep, CloseClient, kernel, maps
<1>5. CASE Dispatch
  BY <1>1, <1>2, <1>4, <1>5, ScriptlessLosesNothing DEF Dispatch
<1>6. CASE Poll \/ EndPass \/ EndIdle \/ EndCgi
  BY <1>1, <1>6 DEF Poll, EndPass, EndIdle, EndCgi, kernel, maps
<1>7. ASSUME NEW j, CloseIdle(j)
      PROVE  Scriptless'
  BY <1>1, <1>7 DEF CloseIdle, CloseClient
<1>8. ASSUME NEW c, KillLateCgi(c)
      PROVE  Scriptless'
  BY <1>8 DEF KillLateCgi, Scriptless, TypeOK
<1>9. CASE Outside
  <2>1. \A p \in Pid : ~ScriptMutes(p) /\ ~ScriptEnds(p)
    BY DEF ScriptMutes, ScriptEnds, Scriptless
  <2>2. child' = child /\ cgiToClient' = cgiToClient
    BY <1>9, <2>1 DEF Outside, PeerSends, PeerLeaves, ScriptWrites, QuietTooLong, CgiTooLong,
          ServerUnchanged, kernel, maps
  <2> QED
    BY <1>1, <2>2
<1>10. CASE UNCHANGED vars
  BY <1>1, <1>10 DEF vars, maps
<1> QED
  BY <1>5, <1>6, <1>7, <1>8, <1>9, <1>10 DEF Next, Loop, Sweep

\* Where no request is for a script, nothing is ever lost, whatever peers do:
\* every open descriptor is polled, through every close, failed accept() and
\* reuse of a number.  What is lost elsewhere is the CGI branches' doing.
THEOREM FilesAreNeverLost == ASSUME WithoutScripts PROVE Spec => []NothingLost
<1>1. Init => Covers(pollFds, fds)
  BY InitCovers
<1>2. Init => Scriptless
  BY DEF Init, Scriptless
<1>3. TypeOK /\ Scriptless /\ [Next]_vars => Scriptless'
  BY NextScriptless
<1> DEFINE Covered == Covers(pollFds, fds)
<1>4. TypeOK /\ TypeOK' /\ PollSetSound /\ Scriptless /\ Covered /\ [Next]_vars => Covered'
  BY NextCovers, SoundIsPollSetSound, ScriptlessLosesNothing
<1>5. TypeOK /\ Scriptless /\ Covered => NothingLost
  BY CoversIsPolled DEF Scriptless, NothingLost
<1> HIDE DEF Covered
<1>6. Init => Covered
  BY <1>1 DEF Covered
<1> QED
  BY <1>2, <1>3, <1>4, <1>5, <1>6, TypeCorrect, PollSetIsSound, PTL DEF Spec

-----------------------------------------------------------------------------
(* A server with descriptors enough *)

\* What a connection takes at most is its socket and two pipes; one that is
\* about to launch its CGI has no pipes yet, and needs four.
Roomy == NOFILE >= 3 * NPEER + 4 * NLISTEN - 1

\* The connections there are, and the listeners at which one more waits.
BusyAt(x) == x.kind = "sock" \/ (x.kind = "listen" /\ x.in # {})
Busy(d) == {f \in Fd : BusyAt(d[f])}
Few(d) == Busy(d) = {} \/ Cardinality(Busy(d)) < NPEER + NLISTEN

NoBusier(d, d2) == \A f \in Fd : BusyAt(d2[f]) => BusyAt(d[f])

LEMMA FiniteFds ==
    /\ \A S \in SUBSET Fd : IsFiniteSet(S) /\ Cardinality(S) \in Nat
    /\ \A S, T \in SUBSET Fd : S \subseteq T => Cardinality(S) <= Cardinality(T)
    /\ Cardinality(Fd) = NOFILE
    /\ Listen \subseteq Fd /\ Cardinality(Listen) = NLISTEN
<1>1. NOFILE \in Nat /\ NLISTEN \in Nat /\ Listen \subseteq Fd
  BY SizesAssumption DEF Listen, Fd
<1>2. IsFiniteSet(Fd) /\ Cardinality(Fd) = NOFILE
  <2>1. /\ IsFiniteSet(1..NOFILE)
        /\ Cardinality(1..NOFILE) = IF 1 > NOFILE THEN 0 ELSE NOFILE - 1 + 1
    BY <1>1, FS_Interval
  <2> QED
    BY <1>1, <2>1 DEF Fd
<1>3. Cardinality(Listen) = NLISTEN
  <2>1. Cardinality(1..NLISTEN) = IF 1 > NLISTEN THEN 0 ELSE NLISTEN - 1 + 1
    BY <1>1, FS_Interval
  <2> QED
    BY <1>1, <2>1 DEF Listen
<1>4. \A S \in SUBSET Fd : IsFiniteSet(S)
  BY <1>2, FS_Subset
<1>5. \A S \in SUBSET Fd : Cardinality(S) \in Nat
  BY <1>4, FS_CardinalityType
<1>6. \A S, T \in SUBSET Fd : S \subseteq T => Cardinality(S) <= Cardinality(T)
  BY <1>4, FS_Subset
<1> QED
  BY <1>1, <1>2, <1>3, <1>4, <1>5, <1>6

LEMMA FewNoBusier ==
    ASSUME NEW d, NEW d2, Few(d), NoBusier(d, d2)
    PROVE  Few(d2)
<1>1. Busy(d2) \subseteq Busy(d) /\ Busy(d) \in SUBSET Fd /\ Busy(d2) \in SUBSET Fd
  BY DEF Busy, NoBusier
<1>2. /\ Cardinality(Busy(d2)) <= Cardinality(Busy(d))
      /\ Cardinality(Busy(d)) \in Nat /\ Cardinality(Busy(d2)) \in Nat
  BY <1>1, FiniteFds
<1> QED
  BY <1>1, <1>2, SizesAssumption DEF Few

LEMMA NoBusierClosed ==
    ASSUME NEW d, NEW S
    PROVE  NoBusier(d, Closed(d, S))
BY DEF NoBusier, BusyAt, Closed, FreeDesc

\* Only accept() makes a connection.
LEMMA DispatchFew ==
    ASSUME TypeOK, Orderly, Few(fds), NEW j, IsNext(j), CgiStep(j) \/ FileStep(j) \/ PlainStep(j)
    PROVE  Few(fds')
<1> DEFINE f == pollFds[j].fd
<1>1. f \in Fd /\ fds \in [Fd -> Desc]
  BY NextEntry DEF TypeOK
<1>2. CASE \E S : fds' = Closed(fds, S)
  BY <1>2, NoBusierClosed, FewNoBusier
<1>3. CASE fds' = fds
  BY <1>3
<1>4. CASE CgiStep(j)
  <2>1. CASE CgiReadChunk(j)
    <3>1. \A g \in Fd : fds'[g].kind = fds[g].kind /\ fds'[g].in = fds[g].in
      BY <1>1, <2>1 DEF CgiReadChunk, Desc
    <3>2. NoBusier(fds, fds')
      BY <3>1 DEF NoBusier, BusyAt
    <3> QED
      BY <3>2, FewNoBusier
  <2>2. CASE ~CgiReadChunk(j)
    <3>1. fds' = fds \/ fds' = Closed(fds, {f})
      BY <1>4, <2>2 DEF CgiStep, CgiPipeError, CgiWriteSome, CgiWriteEnd, CgiReadEnd, kernel
    <3> QED
      BY <1>2, <1>3, <3>1
  <2> QED
    BY <2>1, <2>2
<1>5. CASE FileStep(j)
  <2>1. fds' = fds \/ fds' = Closed(fds, {f})
    BY <1>5 DEF FileStep, FileError, FileSome, FileEnd, kernel
  <2> QED
    BY <1>2, <1>3, <2>1
<1>6. CASE PlainError(j) \/ ReadGone(j) \/ SendFails(j) \/ SendLast(j)
  <2>1. fds' = Closed(fds, {f})
    BY <1>6 DEF PlainError, ReadGone, SendFails, SendLast, CloseClient
  <2> QED
    BY <1>2, <2>1
<1>7. CASE AcceptFails(j) \/ WriteNothing(j) \/ SendSome(j) \/ SendLastKeep(j) \/ BuildPage(j)
  BY <1>3, <1>7 DEF AcceptFails, WriteNothing, SendSome, SendLastKeep, BuildPage, kernel
<1>8. CASE ReadData(j)
  <2>1. fds' = [fds EXCEPT ![f].in = @ \ {"data"}]
    BY <1>8 DEF ReadData
  <2>2. \A g \in Fd : fds'[g].kind = fds[g].kind /\ fds'[g].in \subseteq fds[g].in
    BY <1>1, <2>1 DEF Desc
  <2>3. NoBusier(fds, fds')
    BY <2>2 DEF NoBusier, BusyAt
  <2> QED
    BY <2>3, FewNoBusier
<1>9. CASE Accept(j)
  <2>1. PICK g \in FreeFds : fds' = [fds EXCEPT ![f].in = {}, ![g] = Open("sock")]
    BY <1>9 DEF Accept, IsFree
  <2>2. f \in Listen /\ "data" \in fds[f].in
    BY <1>1, <1>9, NextEntry, AcceptBranch DEF Accept, Takes
  <2>3. fds[f].kind = "listen"
    BY <1>1, <2>2 DEF Orderly, Wired, WiredSock
  <2>4. g \in Fd /\ fds[g].kind = "free" /\ g # f
    BY <2>3 DEF FreeFds
  <2>5. /\ fds'[f].kind = "listen" /\ fds'[f].in = {}
        /\ \A h \in Fd \ {f, g} : fds'[h] = fds[h]
    BY <1>1, <2>1, <2>3, <2>4 DEF Desc
  <2>6. Busy(fds') \subseteq (Busy(fds) \ {f}) \cup {g}
    BY <2>5 DEF Busy, BusyAt
  <2>7. f \in Busy(fds) /\ Busy(fds) \in SUBSET Fd /\ Busy(fds') \in SUBSET Fd
    BY <1>1, <2>2, <2>3 DEF Busy, BusyAt
  <2>8. IsFiniteSet(Busy(fds)) /\ Cardinality(Busy(fds)) \in Nat
    BY <2>7, FiniteFds
  <2>9. /\ IsFiniteSet(Busy(fds) \ {f})
        /\ Cardinality(Busy(fds) \ {f}) = Cardinality(Busy(fds)) - 1
    BY <2>7, <2>8, FS_RemoveElement
  <2>10. g \notin Busy(fds) \ {f}
    BY <2>4 DEF Busy, BusyAt
  <2>11. Cardinality((Busy(fds) \ {f}) \cup {g}) = Cardinality(Busy(fds))
    <3>1. Cardinality((Busy(fds) \ {f}) \cup {g}) = Cardinality(Busy(fds) \ {f}) + 1
      BY <2>9, <2>10, FS_AddElement
    <3> QED
      BY <2>8, <2>9, <3>1
  <2>12. (Busy(fds) \ {f}) \cup {g} \in SUBSET Fd
    BY <2>4, <2>7
  <2>13. Cardinality(Busy(fds')) <= Cardinality(Busy(fds)) /\ Cardinality(Busy(fds')) \in Nat
    BY <2>6, <2>7, <2>11, <2>12, FiniteFds
  <2> QED
    BY <2>7, <2>8, <2>13, SizesAssumption DEF Few
<1>10. CASE BuildStep(j) /\ ~BuildPage(j)
  <2>1. \A k \in {"fileR", "fileW", "pipeR", "pipeW"} : \A p :
            ~BusyAt(Open(k)) /\ ~BusyAt(OpenPipe(k, p)) /\ ~BusyAt(FreeDesc)
    BY DEF BusyAt, Open, OpenPipe, FreeDesc
  <2>2. CASE BuildFile(j) \/ BuildUpload(j)
    <3>1. PICK g \in Fd, k \in {"fileR", "fileW"} : fds' = [fds EXCEPT ![g] = Open(k)]
      BY <2>2 DEF BuildFile, BuildUpload
    <3>2. NoBusier(fds, fds')
      BY <1>1, <2>1, <3>1 DEF NoBusier
    <3> QED
      BY <3>2, FewNoBusier
  <2>3. ASSUME NEW body \in BOOLEAN, BuildCgi(j, body)
        PROVE  Few(fds')
    <3>1. PICK w \in Fd, r \in Fd, p \in FreshPids :
              fds' = [fds EXCEPT ![r] = OpenPipe("pipeR", p),
                                 ![w] = IF body THEN OpenPipe("pipeW", p) ELSE FreeDesc]
      BY <2>3 DEF BuildCgi
    <3>2. NoBusier(fds, fds')
      BY <1>1, <2>1, <3>1 DEF NoBusier
    <3> QED
      BY <3>2, FewNoBusier
  <2>4. CASE BuildCgiFails(j)
    <3>1. \A h \in Fd : fds'[h] \in {fds[h], Open("pipeR"), Open("pipeW")}
      BY <2>4 DEF BuildCgiFails
    <3>2. NoBusier(fds, fds')
      BY <2>1, <3>1 DEF NoBusier
    <3> QED
      BY <3>2, FewNoBusier
  <2> QED
    BY <1>10, <2>2, <2>3, <2>4 DEF BuildStep
<1> QED
  BY <1>4, <1>5, <1>6, <1>7, <1>8, <1>9, <1>10 DEF PlainStep, SendStep

\* A connection arrives only while there are fewer than NPEER.
LEMMA OutsideFew ==
    ASSUME TypeOK, Orderly, Few(fds), Outside
    PROVE  Few(fds')
<1>1. fds \in [Fd -> Desc]
  BY DEF TypeOK
<1>2. CASE fds' = fds
  BY <1>2
<1>3. ASSUME NEW f \in Fd, PeerSends(f)
      PROVE  Few(fds')
  <2>1. fds' = [fds EXCEPT ![f].in = {"data"}]
    BY <1>3 DEF PeerSends
  <2>2. /\ fds'[f].kind = fds[f].kind /\ \A g \in Fd \ {f} : fds'[g] = fds[g]
    BY <1>1, <2>1 DEF Desc
  <2>3. CASE fds[f].kind = "sock"
    <3>1. NoBusier(fds, fds')
      BY <2>2, <2>3 DEF NoBusier, BusyAt
    <3> QED
      BY <3>1, FewNoBusier
  <2>4. CASE fds[f].kind # "sock"
    <3> DEFINE Socks == {g \in Fd : fds[g].kind = "sock"}
    <3>1. Cardinality(Socks) < NPEER
      BY <1>3, <2>4 DEF PeerSends
    <3>2. Busy(fds') \subseteq Socks \cup Listen
      <4>1. \A g \in Fd : fds'[g].kind = fds[g].kind
        BY <2>2
      <4>2. \A g \in Fd : fds[g].kind = "listen" => g \in Listen
        BY DEF Orderly, Wired, WiredSock
      <4> QED
        BY <4>1, <4>2 DEF Busy, BusyAt
    <3>3. Socks \in SUBSET Fd /\ Listen \in SUBSET Fd /\ Socks \cap Listen \in SUBSET Fd
          /\ Socks \cup Listen \in SUBSET Fd /\ Busy(fds') \in SUBSET Fd
      BY FiniteFds DEF Busy
    <3> HIDE DEF Socks
    <3>4. /\ IsFiniteSet(Socks) /\ IsFiniteSet(Listen)
          /\ Cardinality(Socks) \in Nat /\ Cardinality(Socks \cap Listen) \in Nat
          /\ Cardinality(Busy(fds')) \in Nat /\ Cardinality(Socks \cup Listen) \in Nat
          /\ Cardinality(Busy(fds')) <= Cardinality(Socks \cup Listen)
          /\ Cardinality(Listen) = NLISTEN
      BY <3>2, <3>3, FiniteFds
    <3>5. Cardinality(Socks \cup Listen) = Cardinality(Socks) + Cardinality(Listen) - Cardinality(Socks \cap Listen)
      BY <3>4, FS_Union
    <3> QED
      BY <3>1, <3>4, <3>5, SizesAssumption DEF Few
  <2> QED
    BY <2>3, <2>4
<1>4. ASSUME NEW f \in Fd, NEW how \in {"fin", "rst"}, PeerLeaves(f, how)
      PROVE  Few(fds')
  <2>1. fds[f].kind = "sock" /\ \E x : fds' = [fds EXCEPT ![f].in = x]
    BY <1>4 DEF PeerLeaves
  <2>2. \A g \in Fd \ {f} : fds'[g] = fds[g]
    BY <1>1, <2>1
  <2>3. NoBusier(fds, fds')
    BY <2>1, <2>2 DEF NoBusier, BusyAt
  <2> QED
    BY <2>3, FewNoBusier
<1>5. ASSUME NEW f \in Fd, ScriptWrites(f)
      PROVE  Few(fds')
  <2>1. \A g \in Fd : fds'[g].kind = fds[g].kind /\ fds'[g].in = fds[g].in
    BY <1>1, <1>5 DEF ScriptWrites, Desc
  <2>2. NoBusier(fds, fds')
    BY <2>1 DEF NoBusier, BusyAt
  <2> QED
    BY <2>2, FewNoBusier
<1>6. (\E f \in Fd : QuietTooLong(f) \/ CgiTooLong(f))
         \/ (\E p \in Pid : ScriptMutes(p) \/ ScriptEnds(p)) => fds' = fds
  BY DEF QuietTooLong, CgiTooLong, ScriptMutes, ScriptEnds, kernel
<1> QED
  BY <1>2, <1>3, <1>4, <1>5, <1>6 DEF Outside

LEMMA NextFew ==
    ASSUME TypeOK, Orderly, Few(fds), [Next]_vars
    PROVE  Few(fds')
<1>1. CASE Dispatch
  BY <1>1, DispatchFew DEF Dispatch
<1>2. CASE Poll \/ EndPass \/ EndIdle \/ EndCgi \/ UNCHANGED vars
  <2>1. fds' = fds
    BY <1>2 DEF Poll, EndPass, EndIdle, EndCgi, kernel, vars
  <2> QED
    BY <2>1
<1>3. ASSUME NEW S, fds' = Closed(fds, S)
      PROVE  Few(fds')
  BY <1>3, NoBusierClosed, FewNoBusier
<1>4. ASSUME NEW j, CloseIdle(j)
      PROVE  Few(fds')
  BY <1>3, <1>4 DEF CloseIdle, CloseClient
<1>5. ASSUME NEW c, KillLateCgi(c)
      PROVE  Few(fds')
  <2>1. fds' = Closed(fds, OpenPipes(clients[c]))
    BY <1>5 DEF KillLateCgi
  <2> QED
    BY <1>3, <2>1
<1>6. CASE Outside
  BY <1>6, OutsideFew
<1> QED
  BY <1>1, <1>2, <1>4, <1>5, <1>6 DEF Next, Loop, Sweep

-----------------------------------------------------------------------------
(* A client that is to be answered finds four descriptors free *)

Socks == {f \in Fd : fds[f].kind = "sock"}

\* The two descriptors a client may hold beside its socket.
First(cl) == IF cl.isCgi THEN cl.rd ELSE cl.fr
Second(cl) == IF cl.isCgi THEN cl.wr ELSE cl.fw
Firsts(S) == {First(clients[c]) : c \in S}
Seconds(S) == {Second(clients[c]) : c \in S}

LEMMA FewerHelpers ==
    ASSUME NEW S, IsFiniteSet(S)
    PROVE  /\ IsFiniteSet(Firsts(S)) /\ Cardinality(Firsts(S)) <= Cardinality(S)
           /\ IsFiniteSet(Seconds(S)) /\ Cardinality(Seconds(S)) <= Cardinality(S)
<1> DEFINE first == [c \in S |-> First(clients[c])]
           second == [c \in S |-> Second(clients[c])]
<1>1. first \in Surjection(S, Firsts(S))
  BY DEF Surjection, Firsts
<1>2. second \in Surjection(S, Seconds(S))
  BY DEF Surjection, Seconds
<1> HIDE DEF first, second
<1> QED
  BY <1>1, <1>2, FS_Surjection

\* What is open is a listener, a connection, or held by a connection other
\* than the one that is to be answered.
LEMMA WhoHolds ==
    ASSUME TypeOK, Orderly, Covers(pollFds, fds), NEW b \in Fd,
           clients[b] # NoClient, ~InService(clients[b]), NEW f \in Fd, fds[f].kind # "free"
    PROVE  f \in Listen \cup Socks \cup Firsts(Socks \ {b}) \cup Seconds(Socks \ {b})
<1>1. /\ \A g \in Fd : WiredSock(fds, clients, listenOf, g)
      /\ WiredPipe(fds, clients, cgiToClient, f) /\ WiredFile(fds, clients, fileToClient, f)
  BY DEF Orderly, Wired
<1>2. /\ cgiToClient[f] \in Fd \cup {NoFd} /\ fileToClient[f] \in Fd \cup {NoFd}
      /\ fds[f].kind \in Kind
  BY DEF TypeOK, Desc
<1>3. f # NoFd
  BY SizesAssumption DEF Fd, NoFd
<1>4. \A c \in Fd : clients[c] # NoClient => c \in Socks /\ Sane(clients[c])
  BY <1>1 DEF WiredSock, Socks
<1>5. ASSUME NEW c \in Fd, clients[c] # NoClient,
             \/ f = clients[c].rd \/ f = clients[c].wr
             \/ f = clients[c].fr \/ f = clients[c].fw
      PROVE  f \in Firsts(Socks \ {b}) \cup Seconds(Socks \ {b})
  <2>1. c \in Socks /\ Sane(clients[c])
    BY <1>4, <1>5
  <2>2. InService(clients[c])
    BY <1>3, <1>5, <2>1 DEF Sane, InService
  <2>3. c \in Socks \ {b}
    BY <2>1, <2>2
  <2>4. f = First(clients[c]) \/ f = Second(clients[c])
    BY <1>3, <1>5, <2>1 DEF Sane, First, Second
  <2> QED
    BY <2>3, <2>4 DEF Firsts, Seconds
<1>6. CASE fds[f].kind = "listen"
  BY <1>1, <1>6 DEF WiredSock
<1>7. CASE fds[f].kind = "sock"
  BY <1>7 DEF Socks
<1>8. CASE fds[f].kind \in {"fileR", "fileW"}
  <2>1. fileToClient[f] # NoFd
    BY <1>1, <1>8 DEF WiredFile
  <2>2. /\ fileToClient[f] \in Fd /\ clients[fileToClient[f]] # NoClient
        /\ f = clients[fileToClient[f]].fr \/ f = clients[fileToClient[f]].fw
    BY <1>1, <1>2, <2>1 DEF WiredFile
  <2> QED
    BY <1>5, <2>2
<1>9. CASE fds[f].kind \in {"pipeR", "pipeW"}
  <2>1. Wanted(fds, clients, cgiToClient, f) # "none"
    BY DEF Covers, Orderly, Watched
  <2>2. cgiToClient[f] # NoFd
    BY <1>9, <2>1 DEF Wanted
  <2>3. /\ cgiToClient[f] \in Fd /\ clients[cgiToClient[f]] # NoClient
        /\ f = clients[cgiToClient[f]].rd \/ f = clients[cgiToClient[f]].wr
    BY <1>1, <1>2, <2>2 DEF WiredPipe
  <2> QED
    BY <1>5, <2>3
<1> QED
  BY <1>2, <1>6, <1>7, <1>8, <1>9 DEF Kind

LEMMA FourAreFree ==
    ASSUME Roomy, TypeOK, Orderly, Covers(pollFds, fds), Few(fds), NEW b \in Fd,
           clients[b] # NoClient, ~InService(clients[b])
    PROVE  Cardinality(FreeFds) \in Nat /\ Cardinality(FreeFds) >= 4
<1> DEFINE Others == Socks \ {b}
           A == Firsts(Others)
           B == Seconds(Others)
           Taken == Fd \ FreeFds
           n == Cardinality(Socks)
<1>1. b \in Socks
  BY DEF Orderly, Wired, WiredSock, Socks
<1>2. Socks \in SUBSET Fd /\ Busy(fds) \in SUBSET Fd /\ Socks \subseteq Busy(fds)
      /\ FreeFds \in SUBSET Fd /\ Taken \in SUBSET Fd
  BY DEF Socks, Busy, BusyAt, FreeFds
<1>3. Taken \subseteq ((Listen \cup Socks) \cup A) \cup B
  <2>1. \A f \in Taken : f \in Fd /\ fds[f].kind # "free"
    BY DEF FreeFds
  <2> QED
    BY <2>1, WhoHolds
<1>4. /\ IsFiniteSet(Socks) /\ n \in Nat
      /\ IsFiniteSet(Listen) /\ Cardinality(Listen) = NLISTEN
      /\ IsFiniteSet(Taken) /\ Cardinality(Taken) \in Nat
      /\ Cardinality(FreeFds) \in Nat
      /\ n <= Cardinality(Busy(fds)) /\ Cardinality(Busy(fds)) \in Nat
      /\ IsFiniteSet(Fd) /\ Cardinality(Fd) = NOFILE
  BY <1>2, FiniteFds
<1>5. n < NPEER + NLISTEN
  BY <1>1, <1>2, <1>4, SizesAssumption DEF Few
<1>6. IsFiniteSet(Others) /\ Cardinality(Others) = n - 1
  BY <1>1, <1>4, FS_RemoveElement
<1> HIDE DEF Others
<1>7. /\ IsFiniteSet(A) /\ Cardinality(A) <= n - 1
      /\ IsFiniteSet(B) /\ Cardinality(B) <= n - 1
  BY <1>6, FewerHelpers
<1> HIDE DEF A, B, Taken
<1>8. ASSUME NEW S, NEW T, IsFiniteSet(S), IsFiniteSet(T)
      PROVE  /\ IsFiniteSet(S \cup T) /\ Cardinality(S \cup T) \in Nat
             /\ Cardinality(S \cup T) <= Cardinality(S) + Cardinality(T)
             /\ Cardinality(S) \in Nat /\ Cardinality(T) \in Nat
  <2>1. IsFiniteSet(S \cup T) /\ IsFiniteSet(S \cap T)
        /\ Cardinality(S \cup T) = Cardinality(S) + Cardinality(T) - Cardinality(S \cap T)
    BY <1>8, FS_Union, FS_Intersection
  <2>2. Cardinality(S \cup T) \in Nat /\ Cardinality(S \cap T) \in Nat
        /\ Cardinality(S) \in Nat /\ Cardinality(T) \in Nat
    BY <1>8, <2>1, FS_CardinalityType
  <2> QED
    BY <2>1, <2>2
<1> DEFINE U == Listen \cup Socks
           V == U \cup A
           W == V \cup B
<1>9. IsFiniteSet(U) /\ Cardinality(U) \in Nat /\ Cardinality(U) <= NLISTEN + n
  BY <1>4, <1>8
<1> HIDE DEF U
<1>10. IsFiniteSet(V) /\ Cardinality(V) \in Nat /\ Cardinality(A) \in Nat
       /\ Cardinality(V) <= Cardinality(U) + Cardinality(A)
  BY <1>7, <1>8, <1>9
<1> HIDE DEF V
<1>11. IsFiniteSet(W) /\ Cardinality(W) \in Nat /\ Cardinality(B) \in Nat
       /\ Cardinality(W) <= Cardinality(V) + Cardinality(B)
  BY <1>7, <1>8, <1>10
<1>12. Taken \in SUBSET W
  BY <1>3 DEF U, V
<1> HIDE DEF W
<1>13. Cardinality(Taken) <= Cardinality(W)
  BY <1>11, <1>12, FS_Subset
<1>14. Cardinality(Taken) <= NLISTEN + n + (n - 1) + (n - 1)
  BY <1>4, <1>7, <1>9, <1>10, <1>11, <1>13, SizesAssumption
<1>15. Cardinality(Taken) = NOFILE - Cardinality(FreeFds)
  <2>1. Fd \cap FreeFds = FreeFds
    BY <1>2
  <2> QED
    BY <1>4, <2>1, FS_Difference DEF Taken
<1> HIDE DEF n
<1> QED
  BY <1>4, <1>5, <1>14, <1>15, SizesAssumption DEF Roomy

LEMMA RoomyLosesNothing ==
    ASSUME Roomy, TypeOK, PollSetSound, Orderly, Covers(pollFds, fds), Few(fds)
    PROVE  ~LosesPipe
<1>1. Sound(pollFds, fds)
  BY SoundIsPollSetSound
<1>2. ASSUME NEW j, Takes(j, "cgiError")
      PROVE  FALSE
  BY <1>1, <1>2, DispatchedTo DEF Takes
<1>3. ASSUME NEW j, BuildCgiFails(j)
      PROVE  Cardinality(FreeFds) \notin {2, 3}
  <2> DEFINE b == pollFds[j].fd
  <2>1. IsNext(j) /\ Branch(pollFds[j]) = "write"
    BY <1>3 DEF BuildCgiFails, Builds, Takes
  <2>2. b \in Fd /\ fds[b].kind = "sock" /\ ~InService(clients[b])
    BY <1>1, <2>1, NextEntry, DispatchedTo
  <2>3. clients[b] # NoClient
    BY <2>2 DEF Orderly, Wired, WiredSock
  <2> HIDE DEF b
  <2>4. Cardinality(FreeFds) \in Nat /\ Cardinality(FreeFds) >= 4
    BY <2>2, <2>3, FourAreFree
  <2> QED
    BY <2>4
<1> QED
  BY <1>2, <1>3 DEF LosesPipe

\* When peers and scripts cooperate and the table has room for every
\* connection's CGI, nothing is lost, in the middle of a pass as well: every
\* open descriptor is polled, and every child is awaited by a client.  The room
\* is that needed: with two or three descriptors free, a second pipe() that
\* fails loses the first (Response.cpp:667).
THEOREM RoomyLosesNone == ASSUME Cooperative, Roomy PROVE Spec => []NothingLost
<1> DEFINE Covered == Covers(pollFds, fds)
           Fewer == Few(fds)
<1>1. Init => Covered
  BY InitCovers
<1>2. ASSUME Init
      PROVE  Fewer
  <2>1. \A f \in Fd : ~BusyAt(fds[f])
    BY <1>2 DEF Init, BusyAt, Open, FreeDesc
  <2> QED
    BY <2>1 DEF Few, Busy
<1>3. TypeOK /\ Orderly /\ Fewer /\ [Next]_vars => Fewer'
  BY NextFew
<1>4. TypeOK /\ TypeOK' /\ PollSetSound /\ Orderly /\ Covered /\ Fewer /\ [Next]_vars => Covered'
  BY NextCovers, SoundIsPollSetSound, RoomyLosesNothing
<1>5. TypeOK /\ Orderly /\ Covered => NothingLost
  BY CoversIsPolled DEF Orderly, Attended, NothingLost
<1>6. Init => Fewer
  BY <1>2
<1> HIDE DEF Covered, Fewer
<1> QED
  BY <1>1, <1>3, <1>4, <1>5, <1>6, TypeCorrect, PollSetIsSound, StaysOrderly, PTL DEF Spec
=============================================================================
