-------------------------- MODULE CooperationProofs --------------------------
(***************************************************************************)
(* What is proved of the event loop when peers and scripts cooperate: peers *)
(* leave, or are silent for long, only between two requests, and a script  *)
(* reads the whole body it is sent and ends.  Any number of descriptors,   *)
(* peers, children and partial transfers, any kinds of requests.           *)
(***************************************************************************)
EXTENDS EventLoopProofs

Cooperative == Faults \subseteq {"idle"}

-----------------------------------------------------------------------------
(* What each part of the state owes the others *)

\* A request of client cl is in service: its socket is to be watched for
\* reading only.
InService(cl) == cl.isCgi \/ cl.isFile

\* What holds of a Client by itself.
Sane(cl) ==
    /\ cl.isCgi <=> cl.rd # NoFd
    /\ cl.wr # NoFd => cl.isCgi /\ cl.wr # cl.rd
    /\ cl.isFile <=> cl.fr # NoFd \/ cl.fw # NoFd
    /\ cl.fr = NoFd \/ cl.fw = NoFd
    /\ ~(cl.isCgi /\ cl.isFile)
    /\ InService(cl) => cl.complete /\ ~cl.ready
    /\ cl.ready => cl.complete
    /\ cl.quiet => ~cl.complete

\* Nothing but bytes arrives for client cl, once its request is complete, or
\* with bytes still to be read (in: what has arrived).
Unbroken(cl, in) == cl.complete \/ "data" \in in => in \subseteq {"data"}

\* Of descriptors d, clients cs and the three maps: who is a client is a
\* connection, and pipes and files are mapped to the clients that hold them, and only they are.
WiredSock(d, cs, lo, f) ==
    /\ d[f].kind = "listen" <=> f \in Listen
    /\ d[f].kind = "listen" => "rst" \notin d[f].in
    /\ d[f].kind = "sock" <=> cs[f] # NoClient
    /\ d[f].kind = "sock" <=> lo[f] # NoFd
    /\ cs[f] # NoClient => Sane(cs[f]) /\ Unbroken(cs[f], d[f].in)
WiredHolder(cs, cg, fl, c) ==
    cs[c] # NoClient =>
        /\ cs[c].rd # NoFd => cg[cs[c].rd] = c
        /\ cs[c].wr # NoFd => cg[cs[c].wr] = c
        /\ cs[c].fr # NoFd => fl[cs[c].fr] = c
        /\ cs[c].fw # NoFd => fl[cs[c].fw] = c
WiredPipe(d, cs, cg, f) ==
    cg[f] # NoFd =>
        /\ cs[cg[f]] # NoClient
        /\ d[f].pid = cs[cg[f]].pid
        /\ \/ f = cs[cg[f]].rd /\ d[f].kind = "pipeR"
           \/ f = cs[cg[f]].wr /\ d[f].kind = "pipeW"
WiredFile(d, cs, fl, f) ==
    /\ fl[f] # NoFd =>
          /\ cs[fl[f]] # NoClient
          /\ \/ f = cs[fl[f]].fr /\ d[f].kind = "fileR"
             \/ f = cs[fl[f]].fw /\ d[f].kind = "fileW"
    /\ d[f].kind \in {"fileR", "fileW"} => fl[f] # NoFd
Wired(d, cs, cg, fl, lo) ==
    \A f \in Fd : /\ WiredSock(d, cs, lo, f) /\ WiredHolder(cs, cg, fl, f)
                  /\ WiredPipe(d, cs, cg, f) /\ WiredFile(d, cs, fl, f)

\* Of children ch: none closes its stdout early or ends before it has read its
\* whole stdin, and each is awaited by a client.
Attended(d, ch, cs) ==
    \A p \in Pid :
        /\ ch[p] # "muted"
        /\ ch[p] \in Zombie => \A f \in Fd : ~(d[f].kind = "pipeW" /\ d[f].pid = p)
        /\ ch[p] # "none" => \E c \in Fd : cs[c] # NoClient /\ cs[c].isCgi /\ cs[c].pid = p

\* The event poll set s asks for at f, and the one it should: every listener,
\* connection, file and mapped pipe is polled, for what its client needs next.
Asked(s, f) ==
    IF \E k \in DOMAIN s : s[k].fd = f
    THEN s[CHOOSE k \in DOMAIN s : s[k].fd = f].events
    ELSE "none"
Wanted(d, cs, cg, f) ==
    CASE d[f].kind \in {"listen", "fileR"} -> "IN"
      [] d[f].kind = "fileW" -> "OUT"
      [] d[f].kind = "pipeR" -> IF cg[f] = NoFd THEN "none" ELSE "IN"
      [] d[f].kind = "pipeW" -> IF cg[f] = NoFd THEN "none" ELSE "OUT"
      [] d[f].kind = "sock" -> IF cs[f].complete /\ ~InService(cs[f]) THEN "OUT" ELSE "IN"
      [] OTHER -> "none"
Watched(s, d, cs, cg) == \A f \in Fd : Asked(s, f) = Wanted(d, cs, cg, f)

\* Outside a pass nothing is reported, and in one, what was reported of a
\* descriptor (x pairs the two) is still so when its turn comes.
Calm(s) == \A k \in DOMAIN s : s[k].revents = {}
Credible(d, cs, x) ==
    LET k == d[x[1]].kind IN
    /\ k \in {"listen", "fileR"} => x[2] \subseteq {"IN"}
    /\ k \in {"pipeW", "fileW"} => x[2] \subseteq {"OUT"}
    /\ k = "pipeR" => x[2] \subseteq {"IN", "HUP"}
    /\ k = "sock" =>
          /\ "OUT" \in x[2] => cs[x[1]].complete /\ ~InService(cs[x[1]])
          /\ "IN" \in x[2] => d[x[1]].in # {}
          /\ x[2] \cap {"ERR", "HUP", "NVAL"} # {} => "rst" \in d[x[1]].in
Reports ==
    /\ pc # "dispatch" => Calm(pollFds)
    /\ \A x \in Left(pollFds, i) : Credible(fds, clients, x)

\* The inductive invariant.
Orderly ==
    /\ Wired(fds, clients, cgiToClient, fileToClient, listenOf)
    /\ Attended(fds, child, clients)
    /\ Watched(pollFds, fds, clients, cgiToClient)
    /\ Reports

-----------------------------------------------------------------------------
(* Poll sets *)

LEMMA AskedAt ==
    ASSUME NEW s, NEW d, Sound(s, d), NEW k \in DOMAIN s
    PROVE  Asked(s, s[k].fd) = s[k].events
BY DEF Sound, Asked

LEMMA AskedSome ==
    ASSUME NEW s \in Seq(Entry), NEW f, Asked(s, f) # "none"
    PROVE  \E k \in DOMAIN s : s[k].fd = f
BY DEF Asked

LEMMA AskedWant ==
    ASSUME NEW s \in Seq(Entry), NEW d, Sound(s, d), NEW f, NEW ev \in {"IN", "OUT"}
    PROVE  /\ \A g : g # f => Asked(Want(s, f, ev), g) = Asked(s, g)
           /\ Asked(s, f) # "none" => Asked(Want(s, f, ev), f) = ev
<1> DEFINE t == Want(s, f, ev)
<1>1. \A k \in DOMAIN s : s[k] \in Entry
  OBVIOUS
<1>2. /\ t \in Seq(Entry) /\ DOMAIN t = DOMAIN s /\ Sound(t, d)
      /\ \A k \in DOMAIN s : t[k].fd = s[k].fd
  BY WantProperties, SoundWant
<1>3. \A k \in DOMAIN s : t[k].events = IF s[k].fd = f THEN ev ELSE s[k].events
  BY <1>1 DEF Want, Entry
<1> HIDE DEF t
<1>4. ASSUME NEW g, g # f
      PROVE  Asked(t, g) = Asked(s, g)
  <2>1. CASE \E k \in DOMAIN s : s[k].fd = g
    <3>1. PICK k \in DOMAIN s : s[k].fd = g
      BY <2>1
    <3> QED
      BY <1>2, <1>3, <1>4, <3>1, AskedAt
  <2>2. CASE ~\E k \in DOMAIN s : s[k].fd = g
    BY <1>2, <2>2 DEF Asked
  <2> QED
    BY <2>1, <2>2
<1>5. ASSUME Asked(s, f) # "none"
      PROVE  Asked(t, f) = ev
  <2>1. PICK k \in DOMAIN s : s[k].fd = f
    BY <1>5, AskedSome
  <2> QED
    BY <1>2, <1>3, <2>1, AskedAt
<1> QED
  BY <1>4, <1>5 DEF t

LEMMA AskedRemove ==
    ASSUME NEW s \in Seq(Entry), NEW d, Sound(s, d), NEW j \in DOMAIN s
    PROVE  /\ \A g : g # s[j].fd => Asked(RemoveAt(s, j), g) = Asked(s, g)
           /\ Asked(RemoveAt(s, j), s[j].fd) = "none"
<1> DEFINE t == RemoveAt(s, j)
<1>1. /\ \A k \in DOMAIN s \ {j} : \E m \in DOMAIN t : t[m] = s[k]
      /\ \A m \in DOMAIN t : \E k \in DOMAIN s \ {j} : t[m] = s[k]
  BY RemoveAtKeeps
<1>2. Sound(t, d)
  BY SoundRemove
<1> HIDE DEF t
<1>3. Asked(t, s[j].fd) = "none"
  <2>1. \A m \in DOMAIN t : t[m].fd # s[j].fd
    BY <1>1 DEF Sound
  <2> QED
    BY <2>1 DEF Asked
<1>4. ASSUME NEW g, g # s[j].fd
      PROVE  Asked(t, g) = Asked(s, g)
  <2>1. CASE \E k \in DOMAIN s : s[k].fd = g
    <3>1. PICK k \in DOMAIN s : s[k].fd = g
      BY <2>1
    <3>2. PICK m \in DOMAIN t : t[m] = s[k]
      BY <1>1, <1>4, <3>1
    <3>3. Asked(t, t[m].fd) = t[m].events
      BY <1>2, AskedAt
    <3>4. Asked(s, s[k].fd) = s[k].events
      BY AskedAt
    <3> QED
      BY <3>1, <3>2, <3>3, <3>4
  <2>2. CASE ~\E k \in DOMAIN s : s[k].fd = g
    <3>1. \A m \in DOMAIN t : t[m].fd # g
      BY <1>1, <2>2
    <3> QED
      BY <2>2, <3>1 DEF Asked
  <2> QED
    BY <2>1, <2>2
<1> QED
  BY <1>3, <1>4 DEF t

LEMMA AskedErase ==
    ASSUME NEW s \in Seq(Entry), NEW d, Sound(s, d), NEW f
    PROVE  /\ \A g : g # f => Asked(ErasePollFd(s, f), g) = Asked(s, g)
           /\ Asked(ErasePollFd(s, f), f) = "none"
<1>1. CASE \E j \in DOMAIN s : s[j].fd = f
  <2> DEFINE j == CHOOSE k \in DOMAIN s : s[k].fd = f
  <2>1. j \in DOMAIN s /\ s[j].fd = f
    BY <1>1
  <2>2. ErasePollFd(s, f) = RemoveAt(s, j)
    BY <1>1 DEF ErasePollFd
  <2> HIDE DEF j
  <2> QED
    BY <2>1, <2>2, AskedRemove
<1>2. CASE ~ \E j \in DOMAIN s : s[j].fd = f
  BY <1>2 DEF ErasePollFd, Asked
<1> QED
  BY <1>1, <1>2

LEMMA AskedAppend ==
    ASSUME NEW s \in Seq(Entry), NEW d, Sound(s, d), NEW f \in Fd, d[f].kind = "free",
           NEW ev \in {"IN", "OUT"}
    PROVE  /\ \A g : g # f => Asked(Append(s, NewEntry(f, ev)), g) = Asked(s, g)
           /\ Asked(Append(s, NewEntry(f, ev)), f) = ev
<1> DEFINE t == Append(s, NewEntry(f, ev))
<1>1. /\ Len(s) \in Nat /\ DOMAIN s = 1..Len(s) /\ DOMAIN t = 1..(Len(s) + 1)
      /\ \A j \in DOMAIN s : j \in DOMAIN t /\ t[j] = s[j]
      /\ Len(s) + 1 \in DOMAIN t /\ t[Len(s) + 1] = NewEntry(f, ev)
  BY NewEntryType
<1>2. \A j \in DOMAIN t : j = Len(s) + 1 \/ j \in DOMAIN s
  BY <1>1
<1>3. NewEntry(f, ev).fd = f /\ NewEntry(f, ev).events = ev
  BY DEF NewEntry
<1> DEFINE opened == [g \in Fd |-> IF g = f THEN Open("sock") ELSE d[g]]
<1>4. Open("sock").kind = "sock"
  BY DEF Open, FreeDesc
<1>5. opened[f].kind # "free" /\ \A g \in Fd : d[g].kind # "free" => opened[g].kind # "free"
  BY <1>4
<1> HIDE DEF opened
<1>6. Sound(t, opened)
  BY <1>5, SoundAppend
<1> HIDE DEF t
<1>7. Asked(t, f) = ev
  BY <1>1, <1>3, <1>6, AskedAt
<1>8. ASSUME NEW g, g # f
      PROVE  Asked(t, g) = Asked(s, g)
  <2>1. CASE \E k \in DOMAIN s : s[k].fd = g
    <3>1. PICK k \in DOMAIN s : s[k].fd = g
      BY <2>1
    <3>2. k \in DOMAIN t /\ t[k] = s[k]
      BY <1>1
    <3>3. Asked(t, t[k].fd) = t[k].events
      BY <1>6, <3>2, AskedAt
    <3>4. Asked(s, s[k].fd) = s[k].events
      BY AskedAt
    <3> QED
      BY <3>1, <3>2, <3>3, <3>4
  <2>2. CASE ~\E k \in DOMAIN s : s[k].fd = g
    <3>1. \A m \in DOMAIN t : t[m].fd # g
      BY <1>1, <1>2, <1>3, <1>8, <2>2
    <3> QED
      BY <2>2, <3>1 DEF Asked
  <2> QED
    BY <2>1, <2>2
<1> QED
  BY <1>7, <1>8 DEF t

LEMMA CalmWant ==
    ASSUME NEW s \in Seq(Entry), Calm(s), NEW f, NEW ev \in {"IN", "OUT"}
    PROVE  Calm(Want(s, f, ev))
<1>1. \A k \in DOMAIN s : s[k] \in Entry
  OBVIOUS
<1> QED
  BY <1>1 DEF Want, Entry, Calm

LEMMA CalmRemove ==
    ASSUME NEW s \in Seq(Entry), Calm(s), NEW j \in DOMAIN s
    PROVE  Calm(RemoveAt(s, j))
BY RemoveAtKeeps DEF Calm

LEMMA CalmErase ==
    ASSUME NEW s \in Seq(Entry), Calm(s), NEW f
    PROVE  Calm(ErasePollFd(s, f))
BY CalmRemove DEF ErasePollFd

LEMMA CalmLeft ==
    ASSUME NEW s \in Seq(Entry), Calm(s), NEW k \in Nat \ {0}
    PROVE  Left(s, k) = {}
<1>1. \A n \in k..Len(s) : n \in DOMAIN s
  OBVIOUS
<1> QED
  BY <1>1 DEF Left, Calm

-----------------------------------------------------------------------------
(* What is enough to keep things wired *)

SameHelpers(x, y) ==
    x.rd = y.rd /\ x.wr = y.wr /\ x.fr = y.fr /\ x.fw = y.fw /\ x.pid = y.pid

\* No descriptor changes hands.
LEMMA WiredSame ==
    ASSUME NEW d, NEW d2, NEW cs, NEW cs2, NEW lo,
           NEW cg \in [Fd -> Fd \cup {NoFd}], NEW fl \in [Fd -> Fd \cup {NoFd}],
           Wired(d, cs, cg, fl, lo),
           \A f \in Fd : /\ d2[f].kind = d[f].kind /\ d2[f].pid = d[f].pid
                         /\ d[f].kind = "listen" => "rst" \notin d2[f].in
                         /\ cs2[f] # NoClient <=> cs[f] # NoClient,
           \A f \in Fd : cs[f] # NoClient =>
                         /\ SameHelpers(cs2[f], cs[f]) /\ Sane(cs2[f])
                         /\ Unbroken(cs2[f], d2[f].in)
    PROVE  Wired(d2, cs2, cg, fl, lo)
<1> SUFFICES ASSUME NEW f \in Fd
             PROVE  /\ WiredSock(d2, cs2, lo, f) /\ WiredHolder(cs2, cg, fl, f)
                    /\ WiredPipe(d2, cs2, cg, f) /\ WiredFile(d2, cs2, fl, f)
  BY DEF Wired
<1>1. /\ WiredSock(d, cs, lo, f) /\ WiredHolder(cs, cg, fl, f)
      /\ WiredPipe(d, cs, cg, f) /\ WiredFile(d, cs, fl, f)
  BY DEF Wired
<1>2. WiredSock(d2, cs2, lo, f)
  BY <1>1 DEF WiredSock
<1>3. WiredHolder(cs2, cg, fl, f)
  BY <1>1 DEF WiredHolder, SameHelpers
<1>4. WiredPipe(d2, cs2, cg, f)
  BY <1>1 DEF WiredPipe, SameHelpers
<1>5. WiredFile(d2, cs2, fl, f)
  BY <1>1 DEF WiredFile, SameHelpers
<1> QED
  BY <1>2, <1>3, <1>4, <1>5

\* Descriptors S work for client c; descriptors S are not in use.
WorkFor(cg, fl, S, c) == \A f \in S : cg[f] = c \/ fl[f] = c
Unused(d, S) == \A f \in S : d[f].kind = "free"

\* Helpers S of client c are closed and leave the maps.
LEMMA WiredClosed ==
    ASSUME NEW d, NEW d2, NEW lo,
           NEW cs \in [Fd -> Client \cup {NoClient}], NEW cs2,
           NEW cg \in [Fd -> Fd \cup {NoFd}], NEW fl \in [Fd -> Fd \cup {NoFd}], NEW cg2, NEW fl2,
           Wired(d, cs, cg, fl, lo), NEW c \in Fd, cs[c] # NoClient, NEW S \in SUBSET Fd,
           WorkFor(cg, fl, S, c),
           \A f \in Fd \ S : d2[f] = d[f] /\ cg2[f] = cg[f] /\ fl2[f] = fl[f],
           \A f \in S : d2[f].kind = "free" /\ cg2[f] = NoFd /\ fl2[f] = NoFd,
           \A f \in Fd \ {c} : cs2[f] = cs[f],
           cs2[c] # NoClient, Sane(cs2[c]), Unbroken(cs2[c], d[c].in),
           cs2[c].pid = cs[c].pid,
           cs2[c].rd = IF cs[c].rd \in S THEN NoFd ELSE cs[c].rd,
           cs2[c].wr = IF cs[c].wr \in S THEN NoFd ELSE cs[c].wr,
           cs2[c].fr = IF cs[c].fr \in S THEN NoFd ELSE cs[c].fr,
           cs2[c].fw = IF cs[c].fw \in S THEN NoFd ELSE cs[c].fw
    PROVE  Wired(d2, cs2, cg2, fl2, lo)
<1> SUFFICES ASSUME NEW f \in Fd
             PROVE  /\ WiredSock(d2, cs2, lo, f) /\ WiredHolder(cs2, cg2, fl2, f)
                    /\ WiredPipe(d2, cs2, cg2, f) /\ WiredFile(d2, cs2, fl2, f)
  BY DEF Wired
<1>1. \A g \in Fd : /\ WiredSock(d, cs, lo, g) /\ WiredHolder(cs, cg, fl, g)
                    /\ WiredPipe(d, cs, cg, g) /\ WiredFile(d, cs, fl, g)
  BY DEF Wired
<1>2. \A g \in S : d[g].kind \in {"pipeR", "pipeW", "fileR", "fileW"}
  BY <1>1, SizesAssumption DEF WiredPipe, WiredFile, WorkFor, NoFd, Fd
<1>3. WiredSock(d2, cs2, lo, f)
  BY <1>1, <1>2 DEF WiredSock
<1>4. WiredHolder(cs2, cg2, fl2, f)
  <2>1. ASSUME cs[f] # NoClient
        PROVE  /\ cs[f].rd \in Fd \cup {NoFd} /\ cs[f].wr \in Fd \cup {NoFd}
               /\ cs[f].fr \in Fd \cup {NoFd} /\ cs[f].fw \in Fd \cup {NoFd}
    BY <2>1 DEF Client
  <2>2. NoFd \notin Fd
    BY SizesAssumption DEF NoFd, Fd
  <2>3. CASE f = c
    BY <1>1, <2>1, <2>3 DEF WiredHolder
  <2>4. CASE f # c
    <3>1. cs2[f] # NoClient => /\ cs[f].rd \notin S /\ cs[f].wr \notin S
                               /\ cs[f].fr \notin S /\ cs[f].fw \notin S
      BY <1>1, <1>2, <2>4, <2>2 DEF WiredHolder, WiredPipe, WiredFile, WorkFor
    <3> QED
      BY <1>1, <2>1, <2>4, <3>1 DEF WiredHolder
  <2> QED
    BY <2>3, <2>4
<1>5. WiredPipe(d2, cs2, cg2, f)
  BY <1>1, <1>2 DEF WiredPipe
<1>6. WiredFile(d2, cs2, fl2, f)
  BY <1>1, <1>2 DEF WiredFile
<1> QED
  BY <1>3, <1>4, <1>5, <1>6

LEMMA ClientThere ==
    ASSUME NEW x \in Client
    PROVE  x # NoClient
<1>1. DOMAIN x # DOMAIN NoClient
  BY DEF Client, NoClient
<1> QED
  BY <1>1

Unserved(cs, c) == cs[c] # NoClient /\ ~InService(cs[c])

\* c is closed and removed, g is opened and inserted, and nothing else changes.
ClosesOnly(d, d2, cs, cs2, lo, lo2, c) ==
    /\ \A f \in Fd \ {c} : d2[f] = d[f] /\ cs2[f] = cs[f] /\ lo2[f] = lo[f]
    /\ d2[c].kind = "free" /\ cs2[c] = NoClient /\ lo2[c] = NoFd
AcceptsOnly(d, d2, cs, cs2, lo, lo2, g) ==
    /\ \A f \in Fd \ {g} : /\ d2[f].kind = d[f].kind /\ d2[f].pid = d[f].pid
                           /\ d2[f].in \subseteq d[f].in
                           /\ cs2[f] = cs[f] /\ lo2[f] = lo[f]
    /\ d2[g].kind = "sock" /\ d2[g].in = {} /\ cs2[g] = NewClient /\ lo2[g] # NoFd

\* A client with no request in service is removed and its socket closed.
LEMMA WiredGone ==
    ASSUME NEW d, NEW d2, NEW cs, NEW cs2, NEW lo, NEW lo2,
           NEW cg \in [Fd -> Fd \cup {NoFd}], NEW fl \in [Fd -> Fd \cup {NoFd}],
           Wired(d, cs, cg, fl, lo), NEW c \in Fd, Unserved(cs, c),
           ClosesOnly(d, d2, cs, cs2, lo, lo2, c)
    PROVE  Wired(d2, cs2, cg, fl, lo2)
<1> SUFFICES ASSUME NEW f \in Fd
             PROVE  /\ WiredSock(d2, cs2, lo2, f) /\ WiredHolder(cs2, cg, fl, f)
                    /\ WiredPipe(d2, cs2, cg, f) /\ WiredFile(d2, cs2, fl, f)
  BY DEF Wired
<1>1. \A g \in Fd : /\ WiredSock(d, cs, lo, g) /\ WiredHolder(cs, cg, fl, g)
                    /\ WiredPipe(d, cs, cg, g) /\ WiredFile(d, cs, fl, g)
  BY DEF Wired
<1>2. d[c].kind = "sock" /\ Sane(cs[c]) /\ ~InService(cs[c])
  BY <1>1 DEF WiredSock, Unserved
<1>3. cs[c].rd = NoFd /\ cs[c].wr = NoFd /\ cs[c].fr = NoFd /\ cs[c].fw = NoFd
  BY <1>2 DEF Sane, InService
<1>4. NoFd \notin Fd
  BY SizesAssumption DEF NoFd, Fd
<1>5. \A g \in Fd : cg[g] # c /\ fl[g] # c
  BY <1>1, <1>3, <1>4 DEF WiredPipe, WiredFile
<1>6. WiredSock(d2, cs2, lo2, f)
  BY <1>1, <1>2 DEF WiredSock, ClosesOnly
<1>7. WiredHolder(cs2, cg, fl, f)
  BY <1>1 DEF WiredHolder, ClosesOnly
<1>8. WiredPipe(d2, cs2, cg, f)
  BY <1>1, <1>2, <1>4, <1>5 DEF WiredPipe, ClosesOnly
<1>9. WiredFile(d2, cs2, fl, f)
  BY <1>1, <1>2, <1>4, <1>5 DEF WiredFile, ClosesOnly
<1> QED
  BY <1>6, <1>7, <1>8, <1>9

\* Connection g is accepted.
LEMMA WiredAccepted ==
    ASSUME NEW d, NEW d2, NEW cs, NEW cs2, NEW lo, NEW lo2,
           NEW cg \in [Fd -> Fd \cup {NoFd}], NEW fl \in [Fd -> Fd \cup {NoFd}],
           Wired(d, cs, cg, fl, lo), NEW g \in Fd, Unused(d, {g}),
           AcceptsOnly(d, d2, cs, cs2, lo, lo2, g)
    PROVE  Wired(d2, cs2, cg, fl, lo2)
<1> SUFFICES ASSUME NEW f \in Fd
             PROVE  /\ WiredSock(d2, cs2, lo2, f) /\ WiredHolder(cs2, cg, fl, f)
                    /\ WiredPipe(d2, cs2, cg, f) /\ WiredFile(d2, cs2, fl, f)
  BY DEF Wired
<1>1. \A h \in Fd : /\ WiredSock(d, cs, lo, h) /\ WiredHolder(cs, cg, fl, h)
                    /\ WiredPipe(d, cs, cg, h) /\ WiredFile(d, cs, fl, h)
  BY DEF Wired
<1>2. Sane(NewClient)
  BY DEF Sane, NewClient, InService
<1>3. /\ NewClient.rd = NoFd /\ NewClient.wr = NoFd
      /\ NewClient.fr = NoFd /\ NewClient.fw = NoFd
  BY DEF NewClient
<1>4. cs[g] = NoClient /\ cg[g] = NoFd /\ fl[g] = NoFd
  BY <1>1 DEF WiredSock, WiredPipe, WiredFile, Unused
<1>5. \A h \in Fd : cg[h] # g /\ fl[h] # g
  <2>1. g # NoFd
    BY SizesAssumption DEF NoFd, Fd
  <2> QED
    BY <1>1, <1>4, <2>1 DEF WiredPipe, WiredFile
<1>6. g \notin Listen
  BY <1>1 DEF WiredSock, Unused
<1>7. WiredSock(d2, cs2, lo2, f)
  <2>1. \A h \in Fd \ {g} : Unbroken(cs[h], d[h].in) => Unbroken(cs2[h], d2[h].in)
    BY DEF Unbroken, AcceptsOnly
  <2>2. Unbroken(NewClient, {})
    BY DEF Unbroken
  <2> QED
    BY <1>1, <1>2, <1>4, <1>6, <2>1, <2>2, NewClientType, ClientThere, ZenonT(40) DEF WiredSock, AcceptsOnly
<1>8. WiredHolder(cs2, cg, fl, f)
  BY <1>1, <1>3, <1>4 DEF WiredHolder, AcceptsOnly
<1>9. WiredPipe(d2, cs2, cg, f)
  BY <1>1, <1>4, <1>5 DEF WiredPipe, AcceptsOnly
<1>10. WiredFile(d2, cs2, fl, f)
  BY <1>1, <1>4, <1>5 DEF WiredFile, AcceptsOnly
<1> QED
  BY <1>7, <1>8, <1>9, <1>10

\* Descriptors S are opened for client c.
LEMMA WiredOpened ==
    ASSUME NEW d, NEW d2, NEW lo,
           NEW cs \in [Fd -> Client \cup {NoClient}], NEW cs2,
           NEW cg \in [Fd -> Fd \cup {NoFd}], NEW fl \in [Fd -> Fd \cup {NoFd}], NEW cg2, NEW fl2,
           Wired(d, cs, cg, fl, lo), NEW c \in Fd, Unserved(cs, c),
           NEW S \in SUBSET Fd, Unused(d, S),
           \A f \in Fd \ S : d2[f] = d[f] /\ cg2[f] = cg[f] /\ fl2[f] = fl[f],
           \A f \in S : /\ d2[f].kind \notin {"sock", "listen"}
                        /\ WiredPipe(d2, cs2, cg2, f) /\ WiredFile(d2, cs2, fl2, f),
           \A f \in Fd \ {c} : cs2[f] = cs[f],
           cs2[c] # NoClient, Sane(cs2[c]), Unbroken(cs2[c], d[c].in),
           WiredHolder(cs2, cg2, fl2, c)
    PROVE  Wired(d2, cs2, cg2, fl2, lo)
<1> SUFFICES ASSUME NEW f \in Fd
             PROVE  /\ WiredSock(d2, cs2, lo, f) /\ WiredHolder(cs2, cg2, fl2, f)
                    /\ WiredPipe(d2, cs2, cg2, f) /\ WiredFile(d2, cs2, fl2, f)
  BY DEF Wired
<1>1. \A g \in Fd : /\ WiredSock(d, cs, lo, g) /\ WiredHolder(cs, cg, fl, g)
                    /\ WiredPipe(d, cs, cg, g) /\ WiredFile(d, cs, fl, g)
  BY DEF Wired
<1>2. Sane(cs[c]) /\ d[c].kind = "sock" /\ ~InService(cs[c])
  BY <1>1 DEF WiredSock, Unserved
<1>3. cs[c].rd = NoFd /\ cs[c].wr = NoFd /\ cs[c].fr = NoFd /\ cs[c].fw = NoFd
  BY <1>2 DEF Sane, InService
<1>4. NoFd \notin Fd
  BY SizesAssumption DEF NoFd, Fd
<1>5. \A g \in Fd : cg[g] # c /\ fl[g] # c
  BY <1>1, <1>3, <1>4 DEF WiredPipe, WiredFile
<1>6. \A g \in S : cg[g] = NoFd /\ fl[g] = NoFd
  BY <1>1 DEF WiredPipe, WiredFile, Unused
<1>7. WiredSock(d2, cs2, lo, f)
  BY <1>1, <1>2 DEF WiredSock, Unused
<1>8. WiredHolder(cs2, cg2, fl2, f)
  <2>1. CASE f = c
    BY <2>1
  <2>2. CASE f # c
    <3>1. cs[f] # NoClient => /\ cs[f].rd \notin S /\ cs[f].wr \notin S
                              /\ cs[f].fr \notin S /\ cs[f].fw \notin S
      BY <1>1, <1>4, <1>6 DEF WiredHolder
    <3>2. ASSUME cs[f] # NoClient
          PROVE  /\ cs[f].rd \in Fd \cup {NoFd} /\ cs[f].wr \in Fd \cup {NoFd}
                 /\ cs[f].fr \in Fd \cup {NoFd} /\ cs[f].fw \in Fd \cup {NoFd}
      BY <3>2 DEF Client
    <3> QED
      BY <1>1, <2>2, <3>1, <3>2 DEF WiredHolder
  <2> QED
    BY <2>1, <2>2
<1>9. WiredPipe(d2, cs2, cg2, f)
  BY <1>1, <1>5 DEF WiredPipe
<1>10. WiredFile(d2, cs2, fl2, f)
  BY <1>1, <1>5 DEF WiredFile
<1> QED
  BY <1>7, <1>8, <1>9, <1>10

-----------------------------------------------------------------------------
(* What is enough to keep the rest *)

\* Whose needs change is asked for what is needed now.
LEMMA WatchedChange ==
    ASSUME NEW s, NEW s2, NEW d, NEW d2, NEW cs, NEW cs2, NEW cg, NEW cg2,
           Watched(s, d, cs, cg),
           \A f \in Fd :
              \/ Asked(s2, f) = Wanted(d2, cs2, cg2, f)
              \/ /\ Asked(s2, f) = Asked(s, f)
                 /\ d2[f].kind = d[f].kind /\ cg2[f] = cg[f]
                 /\ d[f].kind = "sock" => /\ cs2[f].complete <=> cs[f].complete
                                          /\ InService(cs2[f]) <=> InService(cs[f])
    PROVE  Watched(s2, d2, cs2, cg2)
<1> SUFFICES ASSUME NEW f \in Fd
             PROVE  Asked(s2, f) = Wanted(d2, cs2, cg2, f)
  BY DEF Watched
<1>1. Asked(s, f) = Wanted(d, cs, cg, f)
  BY DEF Watched
<1>2. Asked(s2, f) # Wanted(d2, cs2, cg2, f) => Wanted(d2, cs2, cg2, f) = Wanted(d, cs, cg, f)
  BY DEF Wanted
<1> QED
  BY <1>1, <1>2

LEMMA AttendedSame ==
    ASSUME NEW d, NEW d2, NEW ch, NEW cs, NEW cs2, Attended(d, ch, cs),
           \A f \in Fd : d2[f].kind = "pipeW" /\ d2[f].pid \in Pid =>
                           d[f].kind = "pipeW" /\ d[f].pid = d2[f].pid,
           \A f \in Fd : cs[f] # NoClient /\ cs[f].isCgi =>
                           cs2[f] # NoClient /\ cs2[f].isCgi /\ cs2[f].pid = cs[f].pid
    PROVE  Attended(d2, ch, cs2)
<1> SUFFICES ASSUME NEW p \in Pid
             PROVE  /\ ch[p] # "muted"
                    /\ ch[p] \in Zombie => \A f \in Fd : ~(d2[f].kind = "pipeW" /\ d2[f].pid = p)
                    /\ ch[p] # "none" => \E c \in Fd : cs2[c] # NoClient /\ cs2[c].isCgi /\ cs2[c].pid = p
  BY DEF Attended
<1> QED
  BY DEF Attended

\* The child of CGI client c is waited for, whatever becomes of c.
LEMMA AttendedReaped ==
    ASSUME NEW d, NEW d2, NEW ch, NEW ch2, NEW cs, NEW cs2, Attended(d, ch, cs),
           NEW c, \A p \in Pid : ch2[p] = IF p = cs[c].pid THEN "none" ELSE ch[p],
           \A f \in Fd : d2[f].kind = "pipeW" => d2[f] = d[f],
           \A f \in Fd \ {c} : cs2[f] = cs[f]
    PROVE  Attended(d2, ch2, cs2)
<1> SUFFICES ASSUME NEW p \in Pid
             PROVE  /\ ch2[p] # "muted"
                    /\ ch2[p] \in Zombie => \A f \in Fd : ~(d2[f].kind = "pipeW" /\ d2[f].pid = p)
                    /\ ch2[p] # "none" => \E b \in Fd : cs2[b] # NoClient /\ cs2[b].isCgi /\ cs2[b].pid = p
  BY DEF Attended
<1>1. CASE p = cs[c].pid
  BY <1>1 DEF Zombie
<1>2. CASE p # cs[c].pid
  BY <1>2 DEF Attended
<1> QED
  BY <1>1, <1>2

LaunchesOnly(d, d2, cs, cs2, c, p) ==
    /\ \A f \in Fd : d2[f].kind = "pipeW" => d2[f] = d[f] \/ d2[f].pid = p
    /\ \A f \in Fd \ {c} : cs2[f] = cs[f]
    /\ cs2[c] # NoClient /\ cs2[c].isCgi /\ cs2[c].pid = p

\* Child p, of which nobody knew, is launched for client c.
LEMMA AttendedLaunched ==
    ASSUME NEW d, NEW d2, NEW ch \in [Pid -> ChildState], NEW cs, NEW cs2,
           Attended(d, ch, cs), NEW c \in Fd, Unserved(cs, c), NEW p \in Pid,
           LaunchesOnly(d, d2, cs, cs2, c, p)
    PROVE  Attended(d2, [ch EXCEPT ![p] = "run"], cs2)
<1> DEFINE ch2 == [ch EXCEPT ![p] = "run"]
<1>1. ch2[p] = "run" /\ \A q \in Pid \ {p} : ch2[q] = ch[q]
  OBVIOUS
<1> HIDE DEF ch2
<1>2. ~cs[c].isCgi
  BY DEF Unserved, InService
<1>3. ASSUME NEW q \in Pid
      PROVE  /\ ch2[q] # "muted"
             /\ ch2[q] \in Zombie => \A f \in Fd : ~(d2[f].kind = "pipeW" /\ d2[f].pid = q)
             /\ ch2[q] # "none" => \E b \in Fd : cs2[b] # NoClient /\ cs2[b].isCgi /\ cs2[b].pid = q
  <2>1. CASE q = p
    BY <1>1, <2>1 DEF Zombie, LaunchesOnly
  <2>2. CASE q # p
    <3>1. \A f \in Fd : d2[f].kind = "pipeW" /\ d2[f].pid = q => d2[f] = d[f]
      BY <2>2 DEF LaunchesOnly
    <3> QED
      BY <1>1, <1>2, <2>2, <3>1 DEF Attended, LaunchesOnly
  <2> QED
    BY <2>1, <2>2
<1>4. Attended(d2, ch2, cs2)
  BY <1>3 DEF Attended
<1> QED
  BY <1>4 DEF ch2

\* What may be credible of descriptor g stays so.
Stays(d, d2, cs, cs2, g) ==
    /\ d2[g].kind = d[g].kind
    /\ d[g].kind = "sock" =>
          /\ cs[g].complete /\ ~InService(cs[g]) => cs2[g].complete /\ ~InService(cs2[g])
          /\ d[g].in # {} => d2[g].in # {}
          /\ "rst" \in d[g].in => "rst" \in d2[g].in

LEMMA CredibleStays ==
    ASSUME NEW d, NEW d2, NEW cs, NEW cs2, NEW x, Credible(d, cs, x), Stays(d, d2, cs, cs2, x[1])
    PROVE  Credible(d2, cs2, x)
BY DEF Credible, Stays

LEMMA LeftIsPolled ==
    ASSUME TypeOK, Sound(pollFds, fds), NEW x \in Left(pollFds, i)
    PROVE  x[1] \in Fd /\ fds[x[1]].kind # "free"
<1>1. PICK m \in i..Len(pollFds) : x = <<pollFds[m].fd, pollFds[m].revents>>
  BY DEF Left
<1>2. m \in DOMAIN pollFds /\ pollFds[m] \in Entry
  BY DEF TypeOK
<1>3. pollFds[m].fd \in Fd /\ fds[pollFds[m].fd].kind # "free"
  BY <1>2 DEF Sound, Entry
<1> QED
  BY <1>1, <1>3

\* Entry j is dispatched, and nothing else is touched that was reported on.
LEMMA ReportsNext ==
    ASSUME TypeOK, Sound(pollFds, fds), Reports, NEW j, IsNext(j), pc' = pc,
           \/ Left(pollFds', i') = Left(pollFds, j + 1)
           \/ /\ Left(pollFds', i') = Left(pollFds, i)
              /\ Stays(fds, fds', clients, clients', pollFds[j].fd),
           \A g \in Fd \ {pollFds[j].fd} : fds[g].kind # "free" => Stays(fds, fds', clients, clients', g)
    PROVE  Reports'
<1>1. pc = "dispatch"
  BY DEF IsNext
<1>2. Left(pollFds, j + 1) = {x \in Left(pollFds, i) : x[1] # pollFds[j].fd}
  BY LeftOfNext
<1>3. \A x \in Left(pollFds', i') : /\ x \in Left(pollFds, i)
                                    /\ Stays(fds, fds', clients, clients', x[1])
  BY <1>2, LeftIsPolled
<1>4. \A x \in Left(pollFds', i') : Credible(fds', clients', x)
  BY <1>3, CredibleStays DEF Reports
<1> QED
  BY <1>1, <1>4 DEF Reports

-----------------------------------------------------------------------------
(* Who is dispatched *)

\* What the entry about to be dispatched can be: an end of a pipe or a file of a
\* client that waits for it, a listener, or a connection that has something to
\* be read or is owed a response.
LEMMA DispatchedTo ==
    ASSUME TypeOK, Sound(pollFds, fds), Orderly, NEW j, IsNext(j)
    PROVE  LET e == pollFds[j]
               f == e.fd
               c == cgiToClient[f]
               g == fileToClient[f]
           IN /\ WithLookups(e) = clients
              /\ Branch(e) \notin {"cgiError", "fileError"}
              /\ Branch(e) = "cgiWrite" => c \in Fd /\ clients[c] # NoClient /\ f = clients[c].wr
              /\ Branch(e) = "cgiRead" => c \in Fd /\ clients[c] # NoClient /\ f = clients[c].rd
              /\ Branch(e) \in {"fileRead", "fileWrite"} =>
                    g \in Fd /\ clients[g] # NoClient /\ f \in {clients[g].fr, clients[g].fw}
              /\ Branch(e) = "accept" => fds[f].kind = "listen"
              /\ Branch(e) \in {"plainError", "read", "write"} => fds[f].kind = "sock"
              /\ Branch(e) = "plainError" => "rst" \in fds[f].in
              /\ Branch(e) = "read" => fds[f].in # {}
              /\ Branch(e) = "write" => clients[f].complete /\ ~InService(clients[f])
<1> DEFINE e == pollFds[j]
           f == e.fd
           R == e.revents
           c == cgiToClient[f]
           g == fileToClient[f]
<1>1. /\ j \in DOMAIN pollFds /\ e \in Entry /\ f \in Fd
      /\ R # {} /\ R \subseteq Event
  BY NextEntry DEF Entry, Report, IsNext
<1>2. Credible(fds, clients, <<f, R>>)
  BY LeftOfNext DEF Orderly, Reports
<1>3. Wanted(fds, clients, cgiToClient, f) # "none"
  <2>1. Asked(pollFds, f) = e.events
    BY <1>1, AskedAt
  <2>2. e.events # "none"
    BY <1>1 DEF Entry
  <2> QED
    BY <1>1, <2>1, <2>2 DEF Orderly, Watched
<1>4. /\ WiredSock(fds, clients, listenOf, f)
      /\ WiredPipe(fds, clients, cgiToClient, f) /\ WiredFile(fds, clients, fileToClient, f)
  BY <1>1 DEF Orderly, Wired
<1>5. NoFd \notin Fd
  BY SizesAssumption DEF NoFd, Fd
<1>6. (c = NoFd \/ c \in Fd) /\ (g = NoFd \/ g \in Fd)
  BY <1>1 DEF TypeOK
<1>7. WithLookups(e) = clients
  <2>1. \A h \in LookedUp(e) : clients[h] # NoClient
    BY <1>4 DEF LookedUp, WiredPipe, WiredFile, InCgi, InFile
  <2> QED
    BY <2>1 DEF WithLookups, TypeOK
<1>8. fds[f].kind \in Kind
  BY <1>1 DEF TypeOK, Desc
<1> HIDE DEF e, f, R, c, g
<1>9. CASE c # NoFd
  <2>1. /\ c \in Fd /\ clients[c] # NoClient /\ ClientOf(c) = clients[c]
        /\ \/ f = clients[c].rd /\ fds[f].kind = "pipeR"
           \/ f = clients[c].wr /\ fds[f].kind = "pipeW"
    BY <1>4, <1>6, <1>9 DEF WiredPipe, ClientOf, c
  <2>2. Sane(clients[c])
    BY <2>1 DEF Orderly, Wired, WiredSock
  <2>3. R \cap {"ERR", "NVAL"} = {}
    BY <1>2, <2>1 DEF Credible
  <2>4. InCgi(f) /\ ~Broken(e) /\ cgiToClient[f] = c
    BY <1>9, <2>3 DEF InCgi, Broken, R, c
  <2>5. Branch(e) = IF f = clients[c].wr THEN "cgiWrite" ELSE "cgiRead"
    BY <2>1, <2>4 DEF Branch, f
  <2>6. f = clients[c].wr => f # clients[c].rd
    BY <1>1, <1>5, <2>2 DEF Sane
  <2> QED
    BY <1>7, <2>1, <2>5, <2>6 DEF e, f, c
<1>10. CASE c = NoFd /\ g # NoFd
  <2>1. /\ g \in Fd /\ clients[g] # NoClient /\ ClientOf(g) = clients[g]
        /\ \/ f = clients[g].fr /\ fds[f].kind = "fileR"
           \/ f = clients[g].fw /\ fds[f].kind = "fileW"
    BY <1>4, <1>6, <1>10 DEF WiredFile, ClientOf, g
  <2>2. R \cap {"ERR", "NVAL"} = {} /\ (fds[f].kind = "fileR" => "IN" \in R)
        /\ (fds[f].kind = "fileW" => "OUT" \in R)
    BY <1>1, <1>2, <2>1 DEF Credible
  <2>3. ~InCgi(f) /\ InFile(f) /\ ~Broken(e) /\ fileToClient[f] = g
    BY <1>10, <2>2 DEF InCgi, InFile, Broken, R, c, g
  <2>4. Branch(e) \in {"fileRead", "fileWrite"}
    BY <2>1, <2>2, <2>3 DEF Branch, f, R
  <2> QED
    BY <1>7, <2>1, <2>4 DEF e, f, g
<1>11. CASE c = NoFd /\ g = NoFd
  <2>1. fds[f].kind \in {"listen", "sock"}
    BY <1>3, <1>4, <1>8, <1>11 DEF Wanted, WiredFile, Kind, c, g
  <2>2. ~InCgi(f) /\ ~InFile(f)
    BY <1>11 DEF InCgi, InFile, c, g
  <2>3. Branch(e) = IF R \cap {"ERR", "HUP", "NVAL"} # {} THEN "plainError"
                    ELSE IF "IN" \notin R THEN "write"
                    ELSE IF f \in Listen THEN "accept" ELSE "read"
    BY <2>2 DEF Branch, f, R
  <2>4. CASE fds[f].kind = "listen"
    <3>1. R = {"IN"} /\ f \in Listen
      BY <1>1, <1>2, <1>4, <2>4 DEF Credible, WiredSock
    <3> QED
      BY <1>7, <2>3, <2>4, <3>1 DEF e, f
  <2>5. CASE fds[f].kind = "sock"
    <3>1. f \notin Listen
      BY <1>4, <2>5 DEF WiredSock
    <3>2. /\ "OUT" \in R => clients[f].complete /\ ~InService(clients[f])
          /\ "IN" \in R => fds[f].in # {}
          /\ R \cap {"ERR", "HUP", "NVAL"} # {} => "rst" \in fds[f].in
      BY <1>2, <2>5 DEF Credible
    <3>3. R \cap {"ERR", "HUP", "NVAL"} = {} /\ "IN" \notin R => "OUT" \in R
      BY <1>1 DEF Event
    <3>4. CASE R \cap {"ERR", "HUP", "NVAL"} # {}
      BY <1>7, <2>3, <2>5, <3>2, <3>4 DEF e, f
    <3>5. CASE R \cap {"ERR", "HUP", "NVAL"} = {} /\ "IN" \notin R
      BY <1>7, <2>3, <2>5, <3>2, <3>3, <3>5 DEF e, f
    <3>6. CASE R \cap {"ERR", "HUP", "NVAL"} = {} /\ "IN" \in R
      BY <1>7, <2>3, <2>5, <3>1, <3>2, <3>6 DEF e, f
    <3> QED
      BY <3>4, <3>5, <3>6
  <2> QED
    BY <2>1, <2>4, <2>5
<1> QED
  BY <1>9, <1>10, <1>11

-----------------------------------------------------------------------------
(* The ends of pipes and files *)

LEMMA RespondingFields ==
    ASSUME NEW c \in Client, NEW what \in Answer
    PROVE  /\ SameHelpers(Responding(c, what), c)
           /\ Responding(c, what).complete = c.complete /\ Responding(c, what).ready = TRUE
           /\ Responding(c, what).isCgi = c.isCgi /\ Responding(c, what).isFile = c.isFile
           /\ Responding(c, what).quiet = c.quiet
BY DEF Responding, Client, SameHelpers

\* A response is ready once the client's request is no longer in service.
LEMMA CgiDoneFields ==
    ASSUME NEW c \in Client, NEW what \in Answer, Sane(c), c.isCgi, c.wr = NoFd
    PROVE  LET x == CgiDone(c, what)
           IN /\ Sane(x) /\ ~InService(x) /\ x.complete
              /\ x.rd = NoFd /\ x.wr = c.wr /\ x.fr = c.fr /\ x.fw = c.fw /\ x.pid = c.pid
<1> DEFINE r == Responding(c, what)
           x == [r EXCEPT !.rd = NoFd, !.isCgi = FALSE]
<1>1. /\ r \in Client /\ SameHelpers(r, c) /\ r.complete = c.complete
      /\ r.isFile = c.isFile /\ r.quiet = c.quiet
  BY RespondingType, RespondingFields
<1>2. CgiDone(c, what) = x
  BY DEF CgiDone
<1> HIDE DEF r
<1>3. /\ x.isCgi = FALSE /\ x.isFile = r.isFile /\ x.complete = r.complete /\ x.quiet = r.quiet
      /\ x.rd = NoFd /\ x.wr = r.wr /\ x.fr = r.fr /\ x.fw = r.fw /\ x.pid = r.pid
  BY <1>1 DEF Client
<1> HIDE DEF x
<1>4. c.complete /\ ~c.quiet /\ ~c.isFile /\ c.fr = NoFd /\ c.fw = NoFd
  BY DEF Sane, InService
<1> QED
  BY <1>1, <1>2, <1>3, <1>4 DEF Sane, InService, SameHelpers

LEMMA FileDoneFields ==
    ASSUME NEW c \in Client, Sane(c), c.isFile, NEW x \in Client, NEW what \in Answer,
           x = [Responding(c, what) EXCEPT !.fr = NoFd, !.fw = NoFd, !.isFile = FALSE]
    PROVE  /\ Sane(x) /\ ~InService(x) /\ x.complete
           /\ x.rd = c.rd /\ x.wr = c.wr /\ x.fr = NoFd /\ x.fw = NoFd /\ x.pid = c.pid
<1> DEFINE r == Responding(c, what)
<1>1. /\ r \in Client /\ SameHelpers(r, c) /\ r.complete = c.complete
      /\ r.isCgi = c.isCgi /\ r.quiet = c.quiet
  BY RespondingType, RespondingFields
<1> HIDE DEF r
<1>2. /\ x.isFile = FALSE /\ x.isCgi = r.isCgi /\ x.complete = r.complete /\ x.quiet = r.quiet
      /\ x.rd = r.rd /\ x.wr = r.wr /\ x.fr = NoFd /\ x.fw = NoFd /\ x.pid = r.pid
  BY <1>1 DEF Client, r
<1>3. c.complete /\ ~c.quiet /\ ~c.isCgi
  BY DEF Sane, InService
<1> QED
  BY <1>1, <1>2, <1>3 DEF Sane, InService, SameHelpers

\* FileDone() closes the only file there is.
LEMMA FileDoneIs ==
    ASSUME NEW c \in Client, Sane(c), NEW f \in Fd, f \in {c.fr, c.fw}
    PROVE  FileDone(c, f) = [Responding(c, c.answer) EXCEPT !.fr = NoFd, !.fw = NoFd, !.isFile = FALSE]
<1> DEFINE r == Responding(c, c.answer)
<1>1. r \in Client /\ r.fr = c.fr /\ r.fw = c.fw
  BY RespondingType, RespondingFields DEF Client, SameHelpers
<1>2. FileDone(c, f) = [r EXCEPT !.fr = IF f = c.fr THEN NoFd ELSE r.fr,
                                 !.fw = IF f = c.fr THEN r.fw ELSE NoFd,
                                 !.isFile = FALSE]
  BY <1>1 DEF FileDone, Client
<1>3. f # NoFd
  BY SizesAssumption DEF NoFd, Fd
<1>4. (IF f = c.fr THEN NoFd ELSE r.fr) = NoFd /\ (IF f = c.fr THEN r.fw ELSE NoFd) = NoFd
  BY <1>1, <1>3 DEF Sane
<1> HIDE DEF r
<1>5. FileDone(c, f) = [r EXCEPT !.fr = NoFd, !.fw = NoFd, !.isFile = FALSE]
  BY <1>2, <1>4
<1> QED
  BY <1>5 DEF r

\* A client is polled.
LEMMA ClientPolled ==
    ASSUME Orderly, NEW c \in Fd, clients[c] # NoClient
    PROVE  /\ fds[c].kind = "sock" /\ Sane(clients[c])
           /\ Asked(pollFds, c) = IF clients[c].complete /\ ~InService(clients[c]) THEN "OUT" ELSE "IN"
<1>1. fds[c].kind = "sock" /\ Sane(clients[c])
  BY DEF Orderly, Wired, WiredSock
<1> QED
  BY <1>1 DEF Orderly, Watched, Wanted

LEMMA AskedWantRemove ==
    ASSUME NEW s \in Seq(Entry), NEW d, Sound(s, d), NEW j \in DOMAIN s, NEW c, c # s[j].fd,
           Asked(s, c) # "none"
    PROVE  LET t == RemoveAt(Want(s, c, "OUT"), j)
           IN /\ \A g : g # c /\ g # s[j].fd => Asked(t, g) = Asked(s, g)
              /\ Asked(t, s[j].fd) = "none" /\ Asked(t, c) = "OUT"
<1> DEFINE w == Want(s, c, "OUT")
<1>1. w \in Seq(Entry) /\ j \in DOMAIN w /\ w[j].fd = s[j].fd /\ Sound(w, d)
  BY WantProperties, SoundWant
<1>2. (\A g : g # c => Asked(w, g) = Asked(s, g)) /\ Asked(w, c) = "OUT"
  BY AskedWant
<1> HIDE DEF w
<1>3. /\ \A g : g # w[j].fd => Asked(RemoveAt(w, j), g) = Asked(w, g)
      /\ Asked(RemoveAt(w, j), w[j].fd) = "none"
  BY <1>1, AskedRemove
<1>4. /\ \A g : g # c /\ g # s[j].fd => Asked(RemoveAt(w, j), g) = Asked(s, g)
      /\ Asked(RemoveAt(w, j), s[j].fd) = "none" /\ Asked(RemoveAt(w, j), c) = "OUT"
  BY <1>1, <1>2, <1>3
<1> QED
  BY <1>4 DEF w

\* Helpers S of client c are closed, erased and unmapped.
LEMMA HelpersClosed ==
    ASSUME TypeOK, TypeOK', Orderly,
           NEW c \in Fd, clients[c] # NoClient, InService(clients[c]), NEW S \in SUBSET Fd,
           WorkFor(cgiToClient, fileToClient, S, c),
           fds' = Closed(fds, S), listenOf' = listenOf,
           \A f \in Fd : /\ cgiToClient'[f] = IF f \in S THEN NoFd ELSE cgiToClient[f]
                         /\ fileToClient'[f] = IF f \in S THEN NoFd ELSE fileToClient[f],
           \A f \in Fd \ {c} : clients'[f] = clients[f],
           clients'[c] # NoClient, Sane(clients'[c]), clients'[c].complete,
           clients'[c].pid = clients[c].pid,
           clients'[c].rd = IF clients[c].rd \in S THEN NoFd ELSE clients[c].rd,
           clients'[c].wr = IF clients[c].wr \in S THEN NoFd ELSE clients[c].wr,
           clients'[c].fr = IF clients[c].fr \in S THEN NoFd ELSE clients[c].fr,
           clients'[c].fw = IF clients[c].fw \in S THEN NoFd ELSE clients[c].fw,
           \A f \in S : Asked(pollFds', f) = "none",
           \A f \in Fd \ (S \cup {c}) : Asked(pollFds', f) = Asked(pollFds, f),
           Asked(pollFds', c) = IF InService(clients'[c]) THEN "IN" ELSE "OUT"
    PROVE  /\ Wired(fds', clients', cgiToClient', fileToClient', listenOf')
           /\ Watched(pollFds', fds', clients', cgiToClient')
           /\ \A g \in Fd \ S : Stays(fds, fds', clients, clients', g)
           /\ \A f \in Fd : fds'[f].kind # "free" => fds'[f] = fds[f]
<1>1. /\ cgiToClient \in [Fd -> Fd \cup {NoFd}] /\ fileToClient \in [Fd -> Fd \cup {NoFd}]
      /\ clients \in [Fd -> Client \cup {NoClient}]
  BY DEF TypeOK
<1>2. \A f \in Fd \ S : fds'[f] = fds[f]
  BY DEF Closed
<1>3. \A f \in S : fds'[f].kind = "free"
  BY DEF Closed, FreeDesc
<1>4. Wired(fds, clients, cgiToClient, fileToClient, listenOf)
  BY DEF Orderly
<1>5. /\ fds[c].kind = "sock" /\ Sane(clients[c])
      /\ Unbroken(clients[c], fds[c].in)
  BY <1>4 DEF Wired, WiredSock
<1>6. clients[c].complete
  BY <1>5 DEF Sane
<1>7. c \notin S
  BY <1>4, <1>5, SizesAssumption DEF Wired, WiredPipe, WiredFile, WorkFor, NoFd, Fd
<1>8. Wired(fds', clients', cgiToClient', fileToClient', listenOf')
  <2>1. Unbroken(clients'[c], fds[c].in)
    BY <1>5, <1>6 DEF Unbroken
  <2> QED
    BY <1>1, <1>2, <1>3, <1>4, <2>1, WiredClosed
<1>9. Watched(pollFds', fds', clients', cgiToClient')
  <2>1. \A f \in Fd \cap (S \cup {c}) :
           Asked(pollFds', f) = Wanted(fds', clients', cgiToClient', f)
    BY <1>2, <1>3, <1>5, <1>7 DEF Wanted
  <2>2. \A f \in Fd \ (S \cup {c}) :
              /\ Asked(pollFds', f) = Asked(pollFds, f)
              /\ fds'[f].kind = fds[f].kind /\ cgiToClient'[f] = cgiToClient[f]
              /\ fds[f].kind = "sock" => /\ clients'[f].complete <=> clients[f].complete
                                         /\ InService(clients'[f]) <=> InService(clients[f])
    BY <1>2
  <2>3. Watched(pollFds, fds, clients, cgiToClient)
    BY DEF Orderly
  <2> QED
    BY <2>1, <2>2, <2>3, WatchedChange
<1>10. \A g \in Fd \ S : Stays(fds, fds', clients, clients', g)
  BY <1>2 DEF Stays
<1> QED
  BY <1>2, <1>3, <1>8, <1>9, <1>10

\* Nothing is opened, closed, launched or ended: only what clients need changes.
LEMMA NobodyMoves ==
    ASSUME TypeOK, Orderly, UNCHANGED <<child, cgiToClient, fileToClient, listenOf>>,
           \A f \in Fd : /\ fds'[f].kind = fds[f].kind /\ fds'[f].pid = fds[f].pid
                         /\ fds[f].kind = "listen" => "rst" \notin fds'[f].in
                         /\ clients'[f] # NoClient <=> clients[f] # NoClient,
           \A f \in Fd : clients[f] # NoClient =>
                         /\ SameHelpers(clients'[f], clients[f]) /\ Sane(clients'[f])
                         /\ Unbroken(clients'[f], fds'[f].in),
           \A f \in Fd :
              \/ Asked(pollFds', f) = Wanted(fds', clients', cgiToClient', f)
              \/ /\ Asked(pollFds', f) = Asked(pollFds, f)
                 /\ clients[f] # NoClient => (clients'[f].complete <=> clients[f].complete)
    PROVE  /\ Wired(fds', clients', cgiToClient', fileToClient', listenOf')
           /\ Attended(fds', child', clients')
           /\ Watched(pollFds', fds', clients', cgiToClient')
<1>1. cgiToClient \in [Fd -> Fd \cup {NoFd}] /\ fileToClient \in [Fd -> Fd \cup {NoFd}]
  BY DEF TypeOK
<1>2. \A f \in Fd : WiredSock(fds, clients, listenOf, f)
  BY DEF Orderly, Wired
<1>3. \A f \in Fd : clients[f] # NoClient => Sane(clients[f])
  BY <1>2 DEF WiredSock
<1>4. \A f \in Fd : clients[f] # NoClient =>
         /\ clients'[f].isCgi <=> clients[f].isCgi
         /\ InService(clients'[f]) <=> InService(clients[f])
         /\ clients'[f].pid = clients[f].pid
  BY <1>3 DEF Sane, SameHelpers, InService
<1>5. Wired(fds', clients', cgiToClient', fileToClient', listenOf')
  <2>1. Wired(fds, clients, cgiToClient, fileToClient, listenOf)
    BY DEF Orderly
  <2>2. Wired(fds', clients', cgiToClient, fileToClient, listenOf)
    BY <1>1, <2>1, WiredSame
  <2> QED
    BY <2>2
<1>6. Attended(fds', child', clients')
  <2>1. Attended(fds, child, clients)
    BY DEF Orderly
  <2>2. \A f \in Fd : clients[f] # NoClient /\ clients[f].isCgi =>
           clients'[f] # NoClient /\ clients'[f].isCgi /\ clients'[f].pid = clients[f].pid
    BY <1>4
  <2>3. Attended(fds', child, clients')
    BY <2>1, <2>2, AttendedSame
  <2> QED
    BY <2>3
<1>7. Watched(pollFds', fds', clients', cgiToClient')
  <2>1. Watched(pollFds, fds, clients, cgiToClient)
    BY DEF Orderly
  <2>2. \A f \in Fd : fds[f].kind = "sock" => clients[f] # NoClient
    BY <1>2 DEF WiredSock
  <2>3. \A f \in Fd :
              \/ Asked(pollFds', f) = Wanted(fds', clients', cgiToClient', f)
              \/ /\ Asked(pollFds', f) = Asked(pollFds, f)
                 /\ fds'[f].kind = fds[f].kind /\ cgiToClient'[f] = cgiToClient[f]
                 /\ fds[f].kind = "sock" => /\ clients'[f].complete <=> clients[f].complete
                                            /\ InService(clients'[f]) <=> InService(clients[f])
    BY <1>4, <2>2
  <2> QED
    BY <2>1, <2>3, WatchedChange
<1> QED
  BY <1>5, <1>6, <1>7

\* A transfer goes on: all that changes is how much of it is left.
LEMMA LeftFields ==
    ASSUME NEW c \in Client, NEW n
    PROVE  LET x == [c EXCEPT !.left = n]
           IN /\ SameHelpers(x, c) /\ (Sane(c) => Sane(x)) /\ x.complete = c.complete
              /\ x.ready = c.ready /\ (InService(x) <=> InService(c))
<1> DEFINE x == [c EXCEPT !.left = n]
<1>1. /\ SameHelpers(x, c) /\ x.complete = c.complete /\ x.ready = c.ready
      /\ x.isCgi = c.isCgi /\ x.isFile = c.isFile /\ x.quiet = c.quiet
  BY DEF Client, SameHelpers
<1> HIDE DEF x
<1>2. (Sane(c) => Sane(x)) /\ (InService(x) <=> InService(c))
  BY <1>1 DEF Sane, InService, SameHelpers
<1> QED
  BY <1>1, <1>2 DEF x

LEMMA ChunkOrderly ==
    ASSUME TypeOK, Sound(pollFds, fds), Orderly, NEW j, IsNext(j), pc' = pc,
           Left(pollFds', i') = Left(pollFds, j + 1), NEW c \in Fd, clients[c] # NoClient,
           NEW n \in 0..CHUNKS, clients' = [clients EXCEPT ![c] = [clients[c] EXCEPT !.left = n]],
           UNCHANGED <<fds, child, pollFds, cgiToClient, fileToClient, listenOf>>
    PROVE  Orderly'
<1> DEFINE x == [clients[c] EXCEPT !.left = n]
<1>1. clients \in [Fd -> Client \cup {NoClient}]
  BY DEF TypeOK
<1>2. x # NoClient
  <2>1. x \in Client
    BY <1>1 DEF Client
  <2> QED
    BY <2>1, ClientThere
<1>3. \A f \in Fd : /\ fds[f].kind = "listen" => "rst" \notin fds[f].in
                    /\ clients[f] # NoClient => /\ Sane(clients[f])
                                                /\ Unbroken(clients[f], fds[f].in)
  BY DEF Orderly, Wired, WiredSock
<1>4. /\ SameHelpers(x, clients[c]) /\ Sane(x) /\ x.complete = clients[c].complete
      /\ InService(x) <=> InService(clients[c])
  BY <1>1, <1>3, LeftFields
<1>5. clients'[c] = x /\ \A f \in Fd \ {c} : clients'[f] = clients[f]
  BY <1>1
<1> HIDE DEF x
<1>6. \A f \in Fd : SameHelpers(clients[f], clients[f])
  BY DEF SameHelpers
<1>7. /\ Wired(fds', clients', cgiToClient', fileToClient', listenOf')
      /\ Attended(fds', child', clients')
      /\ Watched(pollFds', fds', clients', cgiToClient')
  <2>1. \A f \in Fd : /\ clients'[f] # NoClient <=> clients[f] # NoClient
                      /\ clients[f] # NoClient =>
                            /\ SameHelpers(clients'[f], clients[f]) /\ Sane(clients'[f])
                            /\ Unbroken(clients'[f], fds'[f].in)
                            /\ clients'[f].complete <=> clients[f].complete
    BY <1>2, <1>3, <1>4, <1>5, <1>6 DEF Unbroken
  <2> QED
    BY <1>3, <2>1, NobodyMoves
<1>8. \A g \in Fd : Stays(fds, fds', clients, clients', g)
  BY <1>4, <1>5 DEF Stays
<1>9. Reports'
  BY <1>8, ReportsNext DEF Orderly
<1> QED
  BY <1>7, <1>9 DEF Orderly

LEMMA CgiStepOrderly ==
    ASSUME TypeOK, TypeOK', Sound(pollFds, fds), KillsItsOwnChild, Orderly,
           NEW j, IsNext(j), CgiStep(j)
    PROVE  Orderly'
<1> DEFINE e == pollFds[j]
           f == e.fd
           c == cgiToClient[f]
           wanted == Want(pollFds, c, "OUT")
<1>1. /\ j \in DOMAIN pollFds /\ f \in Fd /\ pollFds \in Seq(Entry)
      /\ fds \in [Fd -> Desc] /\ child \in [Pid -> ChildState]
      /\ clients \in [Fd -> Client \cup {NoClient}]
      /\ cgiToClient \in [Fd -> Fd \cup {NoFd}] /\ fileToClient \in [Fd -> Fd \cup {NoFd}]
  BY NextEntry DEF TypeOK
<1>2. pc' = pc /\ Left(pollFds', i') = Left(pollFds, j + 1)
  BY CgiStepTakes
<1>3. /\ Branch(e) # "cgiError"
      /\ Branch(e) = "cgiWrite" => c \in Fd /\ clients[c] # NoClient /\ f = clients[c].wr
      /\ Branch(e) = "cgiRead" => c \in Fd /\ clients[c] # NoClient /\ f = clients[c].rd
  BY DispatchedTo
<1>4. Branch(e) \in {"cgiWrite", "cgiRead"}
  BY <1>3 DEF CgiStep, CgiPipeError, CgiWriteSome, CgiWriteEnd, CgiReadChunk, CgiReadEnd, Takes
<1>5. /\ c \in Fd /\ clients[c] # NoClient /\ clients[c] \in Client
      /\ f # NoFd /\ f \in {clients[c].rd, clients[c].wr}
  BY <1>1, <1>3, <1>4, SizesAssumption DEF NoFd, Fd
<1>6. /\ Sane(clients[c]) /\ clients[c].isCgi /\ clients[c].complete /\ InService(clients[c])
      /\ clients[c].fr = NoFd /\ clients[c].fw = NoFd /\ fds[c].kind = "sock"
      /\ Asked(pollFds, c) = "IN"
  BY <1>5, ClientPolled DEF Sane, InService
<1>7. /\ fds[f].pid = clients[c].pid
      /\ \/ f = clients[c].rd /\ fds[f].kind = "pipeR"
         \/ f = clients[c].wr /\ fds[f].kind = "pipeW"
      /\ fileToClient[f] = NoFd /\ c # f
  <2>1. WiredPipe(fds, clients, cgiToClient, f) /\ WiredFile(fds, clients, fileToClient, f)
    BY <1>1 DEF Orderly, Wired
  <2>2. c # NoFd
    BY <1>5, SizesAssumption DEF NoFd, Fd
  <2>3. /\ fds[f].pid = clients[c].pid
        /\ \/ f = clients[c].rd /\ fds[f].kind = "pipeR"
           \/ f = clients[c].wr /\ fds[f].kind = "pipeW"
    BY <2>1, <2>2 DEF WiredPipe
  <2> QED
    BY <1>6, <2>1, <2>3 DEF WiredFile
<1>8. Attended(fds, child, clients)
  BY DEF Orderly
<1>9. WorkFor(cgiToClient, fileToClient, {f}, c) /\ {f} \in SUBSET Fd
  BY <1>1 DEF WorkFor
<1> HIDE DEF c, f, wanted
<1>10. CASE CgiWriteSome(j)
  <2>1. /\ clients[c].left > 0 /\ clients' = [clients EXCEPT ![c].left = @ - 1]
        /\ UNCHANGED <<fds, child, pollFds, cgiToClient, fileToClient, listenOf>>
    BY <1>10 DEF CgiWriteSome, kernel, maps, c, f
  <2>2. clients[c].left - 1 \in 0..CHUNKS
    BY <1>5, <2>1, SizesAssumption DEF Client
  <2>3. clients' = [clients EXCEPT ![c] = [clients[c] EXCEPT !.left = clients[c].left - 1]]
    BY <1>1, <1>5, <2>1
  <2> QED
    BY <1>2, <1>5, <2>1, <2>2, <2>3, ChunkOrderly
<1>11. CASE CgiWriteEnd(j)
  <2> DEFINE x == [clients[c] EXCEPT !.wr = NoFd]
  <2>1. /\ fds' = Closed(fds, {f}) /\ clients' = [clients EXCEPT ![c].wr = NoFd]
        /\ cgiToClient' = Unmap(cgiToClient, f) /\ pollFds' = RemoveAt(pollFds, j)
        /\ child' = child /\ fileToClient' = fileToClient /\ listenOf' = listenOf
    BY <1>11 DEF CgiWriteEnd, c, f
  <2>2. f = clients[c].wr /\ f # clients[c].rd
    <3>1. f = clients[c].wr
      BY <1>3, <1>11 DEF CgiWriteEnd, Takes, c, f
    <3> QED
      BY <1>5, <1>6, <3>1 DEF Sane
  <2>3. /\ x \in Client
        /\ x.rd = clients[c].rd /\ x.wr = NoFd /\ x.fr = clients[c].fr /\ x.fw = clients[c].fw
        /\ x.pid = clients[c].pid /\ x.complete = clients[c].complete /\ x.ready = clients[c].ready
        /\ x.isCgi = clients[c].isCgi /\ x.isFile = clients[c].isFile /\ x.quiet = clients[c].quiet
    BY <1>5 DEF Client
  <2>4. clients'[c] = x /\ \A g \in Fd \ {c} : clients'[g] = clients[g]
    BY <1>1, <1>5, <2>1
  <2> HIDE DEF x
  <2>5. x # NoClient /\ Sane(x) /\ InService(x)
    BY <1>6, <2>3, ClientThere DEF Sane, InService
  <2>6. /\ \A g : g # f => Asked(pollFds', g) = Asked(pollFds, g)
        /\ Asked(pollFds', f) = "none"
    BY <1>1, <2>1, AskedRemove DEF f
  <2>7. \A g \in Fd : /\ cgiToClient'[g] = IF g \in {f} THEN NoFd ELSE cgiToClient[g]
                      /\ fileToClient'[g] = IF g \in {f} THEN NoFd ELSE fileToClient[g]
    BY <1>1, <1>7, <2>1 DEF Unmap
  <2>8. /\ Wired(fds', clients', cgiToClient', fileToClient', listenOf')
        /\ Watched(pollFds', fds', clients', cgiToClient')
        /\ \A g \in Fd \ {f} : Stays(fds, fds', clients, clients', g)
        /\ \A g \in Fd : fds'[g].kind # "free" => fds'[g] = fds[g]
    <3>1. /\ \A g \in {f} : Asked(pollFds', g) = "none"
          /\ \A g \in Fd \ ({f} \cup {c}) : Asked(pollFds', g) = Asked(pollFds, g)
          /\ Asked(pollFds', c) = IF InService(clients'[c]) THEN "IN" ELSE "OUT"
      BY <1>6, <1>7, <2>4, <2>5, <2>6
    <3>2. /\ clients'[c].rd = IF clients[c].rd \in {f} THEN NoFd ELSE clients[c].rd
          /\ clients'[c].wr = IF clients[c].wr \in {f} THEN NoFd ELSE clients[c].wr
          /\ clients'[c].fr = IF clients[c].fr \in {f} THEN NoFd ELSE clients[c].fr
          /\ clients'[c].fw = IF clients[c].fw \in {f} THEN NoFd ELSE clients[c].fw
          /\ clients'[c].pid = clients[c].pid /\ clients'[c].complete
          /\ clients'[c] # NoClient /\ Sane(clients'[c])
      BY <1>6, <2>2, <2>3, <2>4, <2>5
    <3> QED
      BY <1>5, <1>6, <1>9, <2>1, <2>4, <2>7, <3>1, <3>2, HelpersClosed
  <2>9. Attended(fds', child', clients')
    <3>1. /\ \A g \in Fd : fds'[g].kind = "pipeW" /\ fds'[g].pid \in Pid =>
                               fds[g].kind = "pipeW" /\ fds[g].pid = fds'[g].pid
          /\ \A g \in Fd : clients[g] # NoClient /\ clients[g].isCgi =>
                               clients'[g] # NoClient /\ clients'[g].isCgi /\ clients'[g].pid = clients[g].pid
      BY <2>3, <2>4, <2>5, <2>8
    <3>2. Attended(fds', child, clients')
      BY <1>8, <3>1, AttendedSame
    <3> QED
      BY <2>1, <3>2
  <2>10. Reports'
    BY <1>2, <2>8, ReportsNext DEF Orderly, f
  <2> QED
    BY <2>8, <2>9, <2>10 DEF Orderly
<1>12. CASE CgiReadChunk(j)
  <2>1. /\ fds' = [fds EXCEPT ![f].held = @ - 1]
        /\ UNCHANGED <<child, pollFds, clients, cgiToClient, fileToClient, listenOf>>
    BY <1>12 DEF CgiReadChunk, maps, f
  <2>2. \A g \in Fd : /\ fds'[g].kind = fds[g].kind /\ fds'[g].pid = fds[g].pid
                      /\ fds'[g].in = fds[g].in
    BY <1>1, <2>1 DEF Desc
  <2>3. \A g \in Fd : /\ fds[g].kind = "listen" => "rst" \notin fds[g].in
                      /\ clients[g] # NoClient => /\ Sane(clients[g])
                                                  /\ Unbroken(clients[g], fds[g].in)
    BY DEF Orderly, Wired, WiredSock
  <2>4. \A g \in Fd : SameHelpers(clients[g], clients[g])
    BY DEF SameHelpers
  <2>5. /\ Wired(fds', clients', cgiToClient', fileToClient', listenOf')
        /\ Attended(fds', child', clients')
        /\ Watched(pollFds', fds', clients', cgiToClient')
    BY <2>1, <2>2, <2>3, <2>4, NobodyMoves
  <2>6. \A g \in Fd : Stays(fds, fds', clients, clients', g)
    BY <2>1, <2>2 DEF Stays
  <2>7. Reports'
    BY <1>2, <2>6, ReportsNext DEF Orderly
  <2> QED
    BY <2>5, <2>7 DEF Orderly
<1>13. CASE CgiReadEnd(j)
  <2>1. PICK what \in Answer : clients' = [clients EXCEPT ![c] = CgiDone(@, what)]
    BY <1>13 DEF CgiReadEnd, Answer, c, f
  <2>2. /\ fds' = Closed(fds, {f}) /\ child' = [child EXCEPT ![clients[c].pid] = "none"]
        /\ child[clients[c].pid] \notin {"run", "muted"}
        /\ cgiToClient' = Unmap(cgiToClient, f) /\ pollFds' = RemoveAt(wanted, j)
        /\ fileToClient' = fileToClient /\ listenOf' = listenOf
    BY <1>13 DEF CgiReadEnd, c, f, wanted
  <2>3. f = clients[c].rd
    BY <1>3, <1>13 DEF CgiReadEnd, Takes, c, f
  <2>4. clients[c].pid \in Pid /\ child[clients[c].pid] \in Zombie
    BY <1>1, <1>5, <1>6, <2>2 DEF KillsItsOwnChild, Client, ChildState, Zombie
  <2>5. clients[c].wr = NoFd
    <3>1. SUFFICES ASSUME clients[c].wr # NoFd PROVE FALSE
      OBVIOUS
    <3>2. clients[c].wr \in Fd /\ cgiToClient[clients[c].wr] = c
      BY <1>5, <3>1 DEF Client, Orderly, Wired, WiredHolder
    <3>3. fds[clients[c].wr].kind = "pipeW" /\ fds[clients[c].wr].pid = clients[c].pid
      BY <1>5, <1>6, <3>1, <3>2, SizesAssumption DEF Orderly, Wired, WiredPipe, Sane, NoFd, Fd
    <3> QED
      BY <1>8, <2>4, <3>2, <3>3 DEF Attended
  <2> DEFINE x == CgiDone(clients[c], what)
  <2>6. /\ x \in Client /\ Sane(x) /\ ~InService(x) /\ x.complete
        /\ x.rd = NoFd /\ x.wr = clients[c].wr /\ x.fr = clients[c].fr /\ x.fw = clients[c].fw
        /\ x.pid = clients[c].pid
    BY <1>5, <1>6, <2>5, RespondingType, CgiDoneFields
  <2>7. clients'[c] = x /\ \A g \in Fd \ {c} : clients'[g] = clients[g]
    BY <1>1, <1>5, <2>1
  <2> HIDE DEF x
  <2>8. x # NoClient
    BY <2>6, ClientThere
  <2>9. /\ \A g : g # c /\ g # f => Asked(pollFds', g) = Asked(pollFds, g)
        /\ Asked(pollFds', f) = "none" /\ Asked(pollFds', c) = "OUT"
    BY <1>1, <1>6, <1>7, <2>2, AskedWantRemove DEF f, wanted
  <2>10. \A g \in Fd : /\ cgiToClient'[g] = IF g \in {f} THEN NoFd ELSE cgiToClient[g]
                       /\ fileToClient'[g] = IF g \in {f} THEN NoFd ELSE fileToClient[g]
    BY <1>1, <1>7, <2>2 DEF Unmap
  <2>11. /\ Wired(fds', clients', cgiToClient', fileToClient', listenOf')
         /\ Watched(pollFds', fds', clients', cgiToClient')
         /\ \A g \in Fd \ {f} : Stays(fds, fds', clients, clients', g)
         /\ \A g \in Fd : fds'[g].kind # "free" => fds'[g] = fds[g]
    <3>1. /\ \A g \in {f} : Asked(pollFds', g) = "none"
          /\ \A g \in Fd \ ({f} \cup {c}) : Asked(pollFds', g) = Asked(pollFds, g)
          /\ Asked(pollFds', c) = IF InService(clients'[c]) THEN "IN" ELSE "OUT"
      BY <2>6, <2>7, <2>9
    <3>2. /\ clients'[c].rd = IF clients[c].rd \in {f} THEN NoFd ELSE clients[c].rd
          /\ clients'[c].wr = IF clients[c].wr \in {f} THEN NoFd ELSE clients[c].wr
          /\ clients'[c].fr = IF clients[c].fr \in {f} THEN NoFd ELSE clients[c].fr
          /\ clients'[c].fw = IF clients[c].fw \in {f} THEN NoFd ELSE clients[c].fw
          /\ clients'[c].pid = clients[c].pid /\ clients'[c].complete
          /\ clients'[c] # NoClient /\ Sane(clients'[c])
      BY <1>5, <1>6, <2>3, <2>5, <2>6, <2>7, <2>8
    <3> QED
      BY <1>5, <1>6, <1>9, <2>2, <2>7, <2>10, <3>1, <3>2, HelpersClosed
  <2>12. \A p \in Pid : child'[p] = IF p = clients[c].pid THEN "none" ELSE child[p]
    BY <1>1, <2>2
  <2>13. Attended(fds', child', clients')
    BY <1>8, <2>7, <2>11, <2>12, AttendedReaped
  <2>14. Reports'
    BY <1>2, <2>11, ReportsNext DEF Orderly, f
  <2> QED
    BY <2>11, <2>13, <2>14 DEF Orderly
<1> QED
  BY <1>3, <1>10, <1>11, <1>12, <1>13 DEF CgiStep, CgiPipeError, Takes

LEMMA FileStepOrderly ==
    ASSUME TypeOK, TypeOK', Sound(pollFds, fds), Orderly, NEW j, IsNext(j), FileStep(j)
    PROVE  Orderly'
<1> DEFINE e == pollFds[j]
           f == e.fd
           c == fileToClient[f]
           wanted == Want(pollFds, c, "OUT")
<1>1. /\ j \in DOMAIN pollFds /\ f \in Fd /\ pollFds \in Seq(Entry)
      /\ clients \in [Fd -> Client \cup {NoClient}]
      /\ cgiToClient \in [Fd -> Fd \cup {NoFd}] /\ fileToClient \in [Fd -> Fd \cup {NoFd}]
  BY NextEntry DEF TypeOK
<1>2. pc' = pc /\ Left(pollFds', i') = Left(pollFds, j + 1)
  BY FileStepTakes
<1>3. /\ WithLookups(e) = clients /\ Branch(e) \notin {"cgiError", "fileError"}
      /\ Branch(e) \in {"fileRead", "fileWrite"} =>
            c \in Fd /\ clients[c] # NoClient /\ f \in {clients[c].fr, clients[c].fw}
  BY DispatchedTo
<1>4. Branch(e) \in {"fileRead", "fileWrite"} /\ (FileSome(j) \/ FileEnd(j))
  BY <1>3 DEF FileStep, FileError, FileSome, FileEnd, Takes
<1>5. /\ c \in Fd /\ clients[c] # NoClient /\ clients[c] \in Client
      /\ f # NoFd /\ f \in {clients[c].fr, clients[c].fw}
  BY <1>1, <1>3, <1>4, SizesAssumption DEF NoFd, Fd
<1>6. /\ Sane(clients[c]) /\ clients[c].isFile /\ clients[c].complete /\ InService(clients[c])
      /\ clients[c].rd = NoFd /\ clients[c].wr = NoFd /\ fds[c].kind = "sock"
      /\ ~clients[c].isCgi
      /\ Asked(pollFds, c) = "IN"
  BY <1>5, ClientPolled DEF Sane, InService
<1>7. cgiToClient[f] = NoFd /\ c # f /\ fds[f].kind # "pipeW"
  <2>1. WiredPipe(fds, clients, cgiToClient, f) /\ WiredFile(fds, clients, fileToClient, f)
    BY <1>1 DEF Orderly, Wired
  <2>2. c # NoFd
    BY <1>5, SizesAssumption DEF NoFd, Fd
  <2>3. fds[f].kind \in {"fileR", "fileW"}
    BY <2>1, <2>2 DEF WiredFile
  <2> QED
    BY <1>6, <2>1, <2>3 DEF WiredPipe
<1>8. Attended(fds, child, clients)
  BY DEF Orderly
<1>9. WorkFor(cgiToClient, fileToClient, {f}, c) /\ {f} \in SUBSET Fd
  BY <1>1 DEF WorkFor
<1> HIDE DEF c, f, wanted
<1>10. CASE FileSome(j)
  <2>1. /\ clients[c].left > 0 /\ clients' = [clients EXCEPT ![c].left = @ - 1]
        /\ UNCHANGED <<fds, child, pollFds, cgiToClient, fileToClient, listenOf>>
    BY <1>3, <1>10 DEF FileSome, kernel, maps, c, f
  <2>2. clients[c].left - 1 \in 0..CHUNKS
    BY <1>5, <2>1, SizesAssumption DEF Client
  <2>3. clients' = [clients EXCEPT ![c] = [clients[c] EXCEPT !.left = clients[c].left - 1]]
    BY <1>1, <1>5, <2>1
  <2> QED
    BY <1>2, <1>5, <2>1, <2>2, <2>3, ChunkOrderly
<1>11. CASE FileEnd(j)
  <2> DEFINE x == FileDone(clients[c], f)
  <2>1. /\ fds' = Closed(fds, {f}) /\ clients' = [clients EXCEPT ![c] = x]
        /\ fileToClient' = Unmap(fileToClient, f) /\ pollFds' = RemoveAt(wanted, j)
        /\ child' = child /\ cgiToClient' = cgiToClient /\ listenOf' = listenOf
    BY <1>3, <1>11 DEF FileEnd, c, f, wanted
  <2>2. /\ x \in Client /\ Sane(x) /\ ~InService(x) /\ x.complete
        /\ x.rd = clients[c].rd /\ x.wr = clients[c].wr /\ x.fr = NoFd /\ x.fw = NoFd
        /\ x.pid = clients[c].pid
    <3>1. clients[c].answer \in Answer
      BY <1>5 DEF Client
    <3>2. x \in Client
      BY <1>1, <1>5, FileDoneType
    <3>3. x = [Responding(clients[c], clients[c].answer) EXCEPT !.fr = NoFd, !.fw = NoFd, !.isFile = FALSE]
      BY <1>1, <1>5, <1>6, FileDoneIs
    <3> HIDE DEF x
    <3> QED
      BY <1>5, <1>6, <3>1, <3>2, <3>3, FileDoneFields
  <2>3. clients'[c] = x /\ \A g \in Fd \ {c} : clients'[g] = clients[g]
    BY <1>1, <1>5, <2>1
  <2> HIDE DEF x
  <2>4. x # NoClient
    BY <2>2, ClientThere
  <2>5. /\ \A g : g # c /\ g # f => Asked(pollFds', g) = Asked(pollFds, g)
        /\ Asked(pollFds', f) = "none" /\ Asked(pollFds', c) = "OUT"
    BY <1>1, <1>6, <1>7, <2>1, AskedWantRemove DEF f, wanted
  <2>6. \A g \in Fd : /\ cgiToClient'[g] = IF g \in {f} THEN NoFd ELSE cgiToClient[g]
                      /\ fileToClient'[g] = IF g \in {f} THEN NoFd ELSE fileToClient[g]
    BY <1>1, <1>7, <2>1 DEF Unmap
  <2>7. /\ Wired(fds', clients', cgiToClient', fileToClient', listenOf')
        /\ Watched(pollFds', fds', clients', cgiToClient')
        /\ \A g \in Fd \ {f} : Stays(fds, fds', clients, clients', g)
        /\ \A g \in Fd : fds'[g].kind # "free" => fds'[g] = fds[g]
    <3>1. /\ \A g \in {f} : Asked(pollFds', g) = "none"
          /\ \A g \in Fd \ ({f} \cup {c}) : Asked(pollFds', g) = Asked(pollFds, g)
          /\ Asked(pollFds', c) = IF InService(clients'[c]) THEN "IN" ELSE "OUT"
      BY <2>2, <2>3, <2>5
    <3>2. /\ clients'[c].rd = IF clients[c].rd \in {f} THEN NoFd ELSE clients[c].rd
          /\ clients'[c].wr = IF clients[c].wr \in {f} THEN NoFd ELSE clients[c].wr
          /\ clients'[c].fr = IF clients[c].fr \in {f} THEN NoFd ELSE clients[c].fr
          /\ clients'[c].fw = IF clients[c].fw \in {f} THEN NoFd ELSE clients[c].fw
          /\ clients'[c].pid = clients[c].pid /\ clients'[c].complete
          /\ clients'[c] # NoClient /\ Sane(clients'[c])
      BY <1>5, <1>6, <2>2, <2>3, <2>4 DEF Sane
    <3> QED
      BY <1>5, <1>6, <1>9, <2>1, <2>3, <2>6, <3>1, <3>2, HelpersClosed
  <2>8. Attended(fds', child', clients')
    <3>1. /\ \A g \in Fd : fds'[g].kind = "pipeW" /\ fds'[g].pid \in Pid =>
                               fds[g].kind = "pipeW" /\ fds[g].pid = fds'[g].pid
          /\ \A g \in Fd : clients[g] # NoClient /\ clients[g].isCgi =>
                               clients'[g] # NoClient /\ clients'[g].isCgi /\ clients'[g].pid = clients[g].pid
      BY <1>6, <2>3, <2>7
    <3>2. Attended(fds', child, clients')
      BY <1>8, <3>1, AttendedSame
    <3> QED
      BY <2>1, <3>2
  <2>9. Reports'
    BY <1>2, <2>7, ReportsNext DEF Orderly, f
  <2> QED
    BY <2>7, <2>8, <2>9 DEF Orderly
<1> QED
  BY <1>4, <1>10, <1>11

-----------------------------------------------------------------------------
(* Listening and client sockets *)

\* A connection with no request in service is closed.
LEMMA ClosedConnection ==
    ASSUME TypeOK, Sound(pollFds, fds), Orderly, NEW j \in DOMAIN pollFds,
           NEW f \in Fd, f = pollFds[j].fd, clients[f] # NoClient, ~InService(clients[f]),
           CloseClient(clients, f, j)
    PROVE  /\ Wired(fds', clients', cgiToClient', fileToClient', listenOf')
           /\ Attended(fds', child', clients')
           /\ Watched(pollFds', fds', clients', cgiToClient')
           /\ \A g \in Fd \ {f} : Stays(fds, fds', clients, clients', g)
<1>1. /\ pollFds \in Seq(Entry) /\ clients \in [Fd -> Client \cup {NoClient}]
      /\ cgiToClient \in [Fd -> Fd \cup {NoFd}] /\ fileToClient \in [Fd -> Fd \cup {NoFd}]
      /\ listenOf \in [Fd -> Listen \cup {NoFd}]
  BY DEF TypeOK
<1>2. /\ fds' = Closed(fds, {f}) /\ pollFds' = RemoveAt(pollFds, j)
      /\ child' = child /\ cgiToClient' = cgiToClient /\ fileToClient' = fileToClient
  BY DEF CloseClient
<1>3. /\ clients'[f] = NoClient /\ listenOf'[f] = NoFd /\ fds'[f].kind = "free"
      /\ \A g \in Fd \ {f} : fds'[g] = fds[g] /\ clients'[g] = clients[g] /\ listenOf'[g] = listenOf[g]
  BY <1>1 DEF CloseClient, Closed, FreeDesc
<1>4. Wired(fds', clients', cgiToClient', fileToClient', listenOf')
  <2>1. Wired(fds, clients, cgiToClient, fileToClient, listenOf)
    BY DEF Orderly
  <2>2. Unserved(clients, f)
    BY DEF Unserved
  <2>3. ClosesOnly(fds, fds', clients, clients', listenOf, listenOf', f)
    BY <1>3 DEF ClosesOnly
  <2>4. Wired(fds', clients', cgiToClient, fileToClient, listenOf')
    BY <1>1, <2>1, <2>2, <2>3, WiredGone
  <2> QED
    BY <1>2, <2>4
<1>5. Attended(fds', child', clients')
  <2>1. Attended(fds, child, clients)
    BY DEF Orderly
  <2>2. /\ \A g \in Fd : fds'[g].kind = "pipeW" /\ fds'[g].pid \in Pid =>
                             fds[g].kind = "pipeW" /\ fds[g].pid = fds'[g].pid
        /\ \A g \in Fd : clients[g] # NoClient /\ clients[g].isCgi =>
                             clients'[g] # NoClient /\ clients'[g].isCgi /\ clients'[g].pid = clients[g].pid
    BY <1>3 DEF InService
  <2>3. Attended(fds', child, clients')
    BY <2>1, <2>2, AttendedSame
  <2> QED
    BY <1>2, <2>3
<1>6. Watched(pollFds', fds', clients', cgiToClient')
  <2>1. Watched(pollFds, fds, clients, cgiToClient)
    BY DEF Orderly
  <2>2. Asked(pollFds', f) = "none" /\ \A g : g # f => Asked(pollFds', g) = Asked(pollFds, g)
    BY <1>1, <1>2, AskedRemove
  <2>3. Wanted(fds', clients', cgiToClient', f) = "none"
    BY <1>3 DEF Wanted
  <2>4. \A g \in Fd :
           \/ Asked(pollFds', g) = Wanted(fds', clients', cgiToClient', g)
           \/ /\ Asked(pollFds', g) = Asked(pollFds, g)
              /\ fds'[g].kind = fds[g].kind /\ cgiToClient'[g] = cgiToClient[g]
              /\ fds[g].kind = "sock" => /\ clients'[g].complete <=> clients[g].complete
                                         /\ InService(clients'[g]) <=> InService(clients[g])
    BY <1>2, <1>3, <2>2, <2>3
  <2> QED
    BY <2>1, <2>4, WatchedChange
<1>7. \A g \in Fd \ {f} : Stays(fds, fds', clients, clients', g)
  BY <1>3 DEF Stays
<1> QED
  BY <1>4, <1>5, <1>6, <1>7

\* The loop gives up a connection only while none of its requests is in service.
LEMMA ClosingOrderly ==
    ASSUME TypeOK, Sound(pollFds, fds), Orderly, NEW j, IsNext(j),
           PlainError(j) \/ ReadGone(j) \/ SendFails(j) \/ SendLast(j)
    PROVE  Orderly'
<1> DEFINE e == pollFds[j]
           f == e.fd
<1>1. j \in DOMAIN pollFds /\ f \in Fd /\ pollFds \in Seq(Entry)
  BY NextEntry DEF TypeOK
<1>2. /\ WithLookups(e) = clients
      /\ Branch(e) \in {"plainError", "read", "write"} => fds[f].kind = "sock"
      /\ Branch(e) = "plainError" => "rst" \in fds[f].in
      /\ Branch(e) = "read" => fds[f].in # {}
      /\ Branch(e) = "write" => clients[f].complete /\ ~InService(clients[f])
  BY DispatchedTo
<1>3. /\ CloseClient(clients, f, j) /\ Erased(j)
      /\ Branch(e) \in {"plainError", "read", "write"}
      /\ Branch(e) = "read" => ~Receives(f)
  BY <1>2 DEF PlainError, ReadGone, SendFails, SendLast, Sends, Takes
<1>4. /\ fds[f].kind = "sock" /\ clients[f] # NoClient /\ Sane(clients[f])
      /\ Unbroken(clients[f], fds[f].in)
  BY <1>1, <1>2, <1>3 DEF Orderly, Wired, WiredSock
<1>5. ~InService(clients[f])
  <2>1. InService(clients[f]) => fds[f].in \subseteq {"data"}
    BY <1>4 DEF Sane, Unbroken
  <2>2. Branch(e) = "read" => "data" \notin fds[f].in
    BY <1>3, <1>4 DEF Receives
  <2> QED
    BY <1>2, <1>3, <2>1, <2>2
<1>6. pc' = pc /\ Left(pollFds', i') = Left(pollFds, j + 1)
  BY <1>1, <1>3, LeftRemove DEF CloseClient, Erased
<1> HIDE DEF f
<1>7. /\ Wired(fds', clients', cgiToClient', fileToClient', listenOf')
      /\ Attended(fds', child', clients')
      /\ Watched(pollFds', fds', clients', cgiToClient')
      /\ \A g \in Fd \ {f} : Stays(fds, fds', clients, clients', g)
  BY <1>1, <1>3, <1>4, <1>5, ClosedConnection DEF f
<1>8. Reports'
  BY <1>6, <1>7, ReportsNext DEF Orderly, f
<1> QED
  BY <1>7, <1>8 DEF Orderly

LEMMA AcceptOrderly ==
    ASSUME TypeOK, Sound(pollFds, fds), Orderly, NEW j, IsNext(j), Accept(j)
    PROVE  Orderly'
<1> DEFINE e == pollFds[j]
           l == e.fd
<1>1. /\ j \in DOMAIN pollFds /\ l \in Fd /\ pollFds \in Seq(Entry) /\ j + 1 \in Nat \ {0}
      /\ fds \in [Fd -> Desc] /\ clients \in [Fd -> Client \cup {NoClient}]
      /\ cgiToClient \in [Fd -> Fd \cup {NoFd}] /\ fileToClient \in [Fd -> Fd \cup {NoFd}]
      /\ listenOf \in [Fd -> Listen \cup {NoFd}]
  BY NextEntry DEF TypeOK
<1>2. /\ WithLookups(e) = clients /\ fds[l].kind = "listen"
  BY DispatchedTo DEF Accept, Takes
<1>3. PICK f \in Fd : /\ IsFree(f, 1)
                      /\ fds' = [fds EXCEPT ![l].in = {}, ![f] = Open("sock")]
                      /\ clients' = [clients EXCEPT ![f] = NewClient]
                      /\ listenOf' = [listenOf EXCEPT ![f] = l]
                      /\ pollFds' = Append(pollFds, NewEntry(f, "IN"))
  BY <1>2 DEF Accept
<1>4. child' = child /\ cgiToClient' = cgiToClient /\ fileToClient' = fileToClient
  BY DEF Accept
<1>5. fds[f].kind = "free" /\ f # l
  BY <1>2, <1>3 DEF IsFree, FreeFds
<1>6. pc' = pc /\ Left(pollFds', i') = Left(pollFds, j + 1)
  BY <1>1, <1>3, LeftAppend DEF Accept, Done
<1> HIDE DEF l
<1>7. Open("sock").kind = "sock" /\ Open("sock").in = {}
  BY DEF Open, FreeDesc
<1>8. /\ fds'[f].kind = "sock" /\ fds'[f].in = {}
      /\ \A g \in Fd \ {f} : /\ fds'[g].kind = fds[g].kind /\ fds'[g].pid = fds[g].pid
                             /\ fds'[g].in \subseteq fds[g].in
                             /\ g # l => fds'[g].in = fds[g].in
                             /\ clients'[g] = clients[g] /\ listenOf'[g] = listenOf[g]
  <2>1. \A g \in Fd \ {f, l} : fds'[g] = fds[g]
    BY <1>1, <1>3
  <2>2. /\ fds'[l].kind = fds[l].kind /\ fds'[l].pid = fds[l].pid /\ fds'[l].in = {}
    BY <1>1, <1>3, <1>5 DEF Desc
  <2>3. fds'[f] = Open("sock")
    BY <1>1, <1>3
  <2> QED
    BY <1>1, <1>3, <1>7, <2>1, <2>2, <2>3
<1>9. clients'[f] = NewClient /\ listenOf'[f] = l /\ l # NoFd /\ NewClient # NoClient
  BY <1>1, <1>3, NewClientType, ClientThere, SizesAssumption DEF NoFd, Fd
<1>10. Wired(fds', clients', cgiToClient', fileToClient', listenOf')
  <2>1. Wired(fds, clients, cgiToClient, fileToClient, listenOf)
    BY DEF Orderly
  <2>2. Unused(fds, {f})
    BY <1>5 DEF Unused
  <2>3. AcceptsOnly(fds, fds', clients, clients', listenOf, listenOf', f)
    BY <1>8, <1>9 DEF AcceptsOnly
  <2>4. Wired(fds', clients', cgiToClient, fileToClient, listenOf')
    BY <1>1, <2>1, <2>2, <2>3, WiredAccepted
  <2> QED
    BY <1>4, <2>4
<1>11. Attended(fds', child', clients')
  <2>1. clients[f] = NoClient
    BY <1>5 DEF Orderly, Wired, WiredSock
  <2>2. /\ \A g \in Fd : fds'[g].kind = "pipeW" /\ fds'[g].pid \in Pid =>
                             fds[g].kind = "pipeW" /\ fds[g].pid = fds'[g].pid
        /\ \A g \in Fd : clients[g] # NoClient /\ clients[g].isCgi =>
                             clients'[g] # NoClient /\ clients'[g].isCgi /\ clients'[g].pid = clients[g].pid
    BY <1>8, <2>1
  <2>3. Attended(fds, child, clients)
    BY DEF Orderly
  <2>4. Attended(fds', child, clients')
    BY <2>2, <2>3, AttendedSame
  <2> QED
    BY <1>4, <2>4
<1>12. Watched(pollFds', fds', clients', cgiToClient')
  <2>1. Watched(pollFds, fds, clients, cgiToClient)
    BY DEF Orderly
  <2>2. Asked(pollFds', f) = "IN" /\ \A g : g # f => Asked(pollFds', g) = Asked(pollFds, g)
    BY <1>1, <1>3, <1>5, AskedAppend
  <2>3. ~clients'[f].complete
    BY <1>9 DEF NewClient
  <2>4. Wanted(fds', clients', cgiToClient', f) = "IN"
    BY <1>8, <2>3 DEF Wanted
  <2>5. \A g \in Fd :
           \/ Asked(pollFds', g) = Wanted(fds', clients', cgiToClient', g)
           \/ /\ Asked(pollFds', g) = Asked(pollFds, g)
              /\ fds'[g].kind = fds[g].kind /\ cgiToClient'[g] = cgiToClient[g]
              /\ fds[g].kind = "sock" => /\ clients'[g].complete <=> clients[g].complete
                                         /\ InService(clients'[g]) <=> InService(clients[g])
    BY <1>4, <1>8, <2>2, <2>4
  <2> QED
    BY <2>1, <2>5, WatchedChange
<1>13. \A g \in Fd \ {f} : Stays(fds, fds', clients, clients', g)
  BY <1>2, <1>8 DEF Stays
<1>14. Reports'
  BY <1>5, <1>6, <1>13, ReportsNext DEF Orderly
<1> QED
  BY <1>10, <1>11, <1>12, <1>14 DEF Orderly

\* What is received goes to the request: one that is whole is answered next.
LEMMA ReceivedFields ==
    ASSUME NEW c \in Client, Sane(c), NEW whole \in Parsed(c), NEW x,
           x = [c EXCEPT !.complete = whole, !.quiet = FALSE]
    PROVE  /\ x \in Client /\ SameHelpers(x, c) /\ Sane(x) /\ x.complete = whole
           /\ InService(x) <=> InService(c)
           /\ InService(c) => whole /\ c.complete
<1>1. whole \in BOOLEAN
  BY DEF Parsed, Client
<1>2. /\ x \in Client /\ SameHelpers(x, c) /\ x.complete = whole /\ x.quiet = FALSE
      /\ x.ready = c.ready /\ x.isCgi = c.isCgi /\ x.isFile = c.isFile
  BY <1>1 DEF Client, SameHelpers
<1>3. c.complete => whole
  BY DEF Parsed
<1>4. InService(x) <=> InService(c)
  BY <1>2 DEF InService
<1>5. Sane(x)
  BY <1>2, <1>3, <1>4 DEF Sane, SameHelpers
<1> QED
  BY <1>2, <1>3, <1>4, <1>5 DEF Sane

LEMMA ReadOrderly ==
    ASSUME TypeOK, Sound(pollFds, fds), Orderly, NEW j, IsNext(j), ReadData(j)
    PROVE  Orderly'
<1> DEFINE e == pollFds[j]
           f == e.fd
           c == clients[f]
<1>1. /\ j \in DOMAIN pollFds /\ f \in Fd /\ pollFds \in Seq(Entry) /\ j + 1 \in Nat \ {0}
      /\ fds \in [Fd -> Desc] /\ clients \in [Fd -> Client \cup {NoClient}]
  BY NextEntry DEF TypeOK
<1>2. WithLookups(e) = clients /\ fds[f].kind = "sock"
  BY DispatchedTo DEF ReadData, Takes
<1>3. /\ c # NoClient /\ c \in Client /\ Sane(c) /\ Asked(pollFds, f) # "none"
      /\ \A g \in Fd : clients[g] # NoClient => Sane(clients[g]) /\ Unbroken(clients[g], fds[g].in)
      /\ \A g \in Fd : fds[g].kind = "listen" => "rst" \notin fds[g].in
  BY <1>1, <1>2, ClientPolled DEF Orderly, Wired, WiredSock
<1>4. PICK whole \in Parsed(c) :
         /\ clients' = [clients EXCEPT ![f] = [c EXCEPT !.complete = whole, !.quiet = FALSE]]
         /\ pollFds' = IF whole /\ ~c.isCgi /\ ~c.isFile THEN Want(pollFds, f, "OUT") ELSE pollFds
  BY <1>2, <1>3 DEF ReadData
<1>5. /\ fds' = [fds EXCEPT ![f].in = @ \ {"data"}] /\ Receives(f)
      /\ UNCHANGED <<child, cgiToClient, fileToClient, listenOf>>
  BY DEF ReadData, maps
<1>6. pc' = pc /\ Left(pollFds', i') = Left(pollFds, j + 1)
  BY <1>1, <1>4, LeftWant DEF ReadData, Done
<1> HIDE DEF f
<1> DEFINE x == [c EXCEPT !.complete = whole, !.quiet = FALSE]
<1>7. /\ x \in Client /\ SameHelpers(x, c) /\ Sane(x) /\ x.complete = whole
      /\ InService(x) <=> InService(c)
      /\ InService(c) => whole /\ c.complete
  BY <1>3, ReceivedFields
<1>8. clients'[f] = x /\ \A g \in Fd \ {f} : clients'[g] = clients[g]
  BY <1>1, <1>4
<1> HIDE DEF x, c
<1>9. x # NoClient
  BY <1>7, ClientThere
<1>10. /\ fds'[f].kind = fds[f].kind /\ fds'[f].pid = fds[f].pid /\ fds'[f].in = {}
       /\ \A g \in Fd \ {f} : fds'[g] = fds[g]
  <2>1. fds[f].in = {"data"}
    BY <1>1, <1>3, <1>5 DEF Receives, Unbroken, c
  <2> QED
    BY <1>1, <1>5, <2>1 DEF Desc
<1>11. Unbroken(x, {})
  BY DEF Unbroken
<1>12. \A g \in Fd :
          \/ Asked(pollFds', g) = Wanted(fds', clients', cgiToClient', g)
          \/ /\ Asked(pollFds', g) = Asked(pollFds, g)
             /\ clients[g] # NoClient => (clients'[g].complete <=> clients[g].complete)
  <2>1. CASE whole /\ ~InService(c)
    <3>1. pollFds' = Want(pollFds, f, "OUT")
      BY <1>4, <2>1 DEF InService
    <3>2. Asked(pollFds', f) = "OUT" /\ \A g : g # f => Asked(pollFds', g) = Asked(pollFds, g)
      BY <1>1, <1>3, <3>1, AskedWant
    <3>3. Wanted(fds', clients', cgiToClient', f) = "OUT"
      BY <1>2, <1>7, <1>8, <1>10, <2>1 DEF Wanted
    <3> QED
      BY <1>8, <3>2, <3>3
  <2>2. CASE ~(whole /\ ~InService(c))
    <3>1. pollFds' = pollFds
      BY <1>4, <2>2 DEF InService
    <3>2. whole <=> c.complete
      BY <1>4, <1>7, <2>2 DEF Parsed
    <3> QED
      BY <1>7, <1>8, <3>1, <3>2 DEF c
  <2> QED
    BY <2>1, <2>2
<1>13. /\ \A g \in Fd : /\ fds'[g].kind = fds[g].kind /\ fds'[g].pid = fds[g].pid
                        /\ fds[g].kind = "listen" => "rst" \notin fds'[g].in
                        /\ clients'[g] # NoClient <=> clients[g] # NoClient
       /\ \A g \in Fd : clients[g] # NoClient =>
                        /\ SameHelpers(clients'[g], clients[g]) /\ Sane(clients'[g])
                        /\ Unbroken(clients'[g], fds'[g].in)
  <2>1. \A g \in Fd : SameHelpers(clients[g], clients[g])
    BY DEF SameHelpers
  <2> QED
    BY <1>3, <1>7, <1>8, <1>9, <1>10, <1>11, <2>1 DEF c
<1>14. /\ Wired(fds', clients', cgiToClient', fileToClient', listenOf')
       /\ Attended(fds', child', clients')
       /\ Watched(pollFds', fds', clients', cgiToClient')
  BY <1>5, <1>12, <1>13, NobodyMoves
<1>15. \A g \in Fd \ {f} : Stays(fds, fds', clients, clients', g)
  BY <1>8, <1>10 DEF Stays
<1>16. Reports'
  BY <1>6, <1>15, ReportsNext DEF Orderly, f
<1> QED
  BY <1>14, <1>16 DEF Orderly

\* accept() fails; and no connection is polled for output with nothing to answer.
LEMMA IdleHandlerOrderly ==
    ASSUME TypeOK, Sound(pollFds, fds), Orderly, NEW j, IsNext(j), AcceptFails(j) \/ WriteNothing(j)
    PROVE  Orderly'
<1> DEFINE e == pollFds[j]
           f == e.fd
<1>1. /\ WithLookups(e) = clients
      /\ Branch(e) = "write" => fds[f].kind = "sock" /\ clients[f].complete
  BY DispatchedTo
<1>2. ~WriteNothing(j)
  <2>1. f \in Fd /\ f # NoFd
    BY NextEntry, SizesAssumption DEF NoFd, Fd
  <2>2. fds[f].kind = "sock" => ClientOf(f) = clients[f]
    BY <2>1 DEF Orderly, Wired, WiredSock, ClientOf
  <2> QED
    BY <1>1, <2>2 DEF WriteNothing, Takes
<1>3. /\ clients' = clients /\ i' = j + 1 /\ pc' = pc
      /\ UNCHANGED <<fds, child, pollFds, cgiToClient, fileToClient, listenOf>>
  BY <1>1, <1>2 DEF AcceptFails, Done, kernel, maps
<1>4. \A g \in Fd : Stays(fds, fds', clients, clients', g)
  BY <1>3 DEF Stays
<1>5. Reports'
  BY <1>3, <1>4, ReportsNext DEF Orderly
<1> QED
  BY <1>3, <1>5 DEF Orderly

-----------------------------------------------------------------------------
(* Answering a request *)

\* Nothing changes but the answered client c, and what is opened for it (S).
LEMMA Answered ==
    ASSUME TypeOK, Orderly, NEW c \in Fd, Unserved(clients, c), clients[c].complete,
           NEW S \in SUBSET Fd, Unused(fds, S), listenOf' = listenOf,
           \A f \in Fd \ S : /\ fds'[f] = fds[f]
                             /\ cgiToClient'[f] = cgiToClient[f]
                             /\ fileToClient'[f] = fileToClient[f],
           \A f \in S : /\ fds'[f].kind \notin {"sock", "listen"}
                        /\ WiredPipe(fds', clients', cgiToClient', f)
                        /\ WiredFile(fds', clients', fileToClient', f),
           \A f \in Fd \ {c} : clients'[f] = clients[f],
           clients'[c] # NoClient, Sane(clients'[c]),
           WiredHolder(clients', cgiToClient', fileToClient', c),
           \A f \in S \cup {c} : Asked(pollFds', f) = Wanted(fds', clients', cgiToClient', f),
           \A f \in Fd \ (S \cup {c}) : Asked(pollFds', f) = Asked(pollFds, f)
    PROVE  /\ Wired(fds', clients', cgiToClient', fileToClient', listenOf')
           /\ Watched(pollFds', fds', clients', cgiToClient')
           /\ \A g \in Fd \ {c} : fds[g].kind # "free" => Stays(fds, fds', clients, clients', g)
<1>1. /\ cgiToClient \in [Fd -> Fd \cup {NoFd}] /\ fileToClient \in [Fd -> Fd \cup {NoFd}]
      /\ clients \in [Fd -> Client \cup {NoClient}]
  BY DEF TypeOK
<1>2. Wired(fds, clients, cgiToClient, fileToClient, listenOf)
  BY DEF Orderly
<1>3. Unbroken(clients'[c], fds[c].in)
  <2>1. Unbroken(clients[c], fds[c].in)
    BY <1>2 DEF Wired, WiredSock, Unserved
  <2> QED
    BY <2>1 DEF Unbroken
<1>4. Wired(fds', clients', cgiToClient', fileToClient', listenOf)
  BY <1>1, <1>2, <1>3, WiredOpened
<1>5. Watched(pollFds', fds', clients', cgiToClient')
  <2>1. Watched(pollFds, fds, clients, cgiToClient)
    BY DEF Orderly
  <2>2. \A f \in Fd :
           \/ Asked(pollFds', f) = Wanted(fds', clients', cgiToClient', f)
           \/ /\ Asked(pollFds', f) = Asked(pollFds, f)
              /\ fds'[f].kind = fds[f].kind /\ cgiToClient'[f] = cgiToClient[f]
              /\ fds[f].kind = "sock" => /\ clients'[f].complete <=> clients[f].complete
                                         /\ InService(clients'[f]) <=> InService(clients[f])
    OBVIOUS
  <2> QED
    BY <2>1, <2>2, WatchedChange
<1>6. \A g \in Fd \ {c} : fds[g].kind # "free" => Stays(fds, fds', clients, clients', g)
  BY DEF Stays, Unused
<1> QED
  BY <1>4, <1>5, <1>6

\* What a connection about to be answered is like.
LEMMA ToAnswer ==
    ASSUME TypeOK, Sound(pollFds, fds), Orderly, NEW j, IsNext(j), Branch(pollFds[j]) = "write"
    PROVE  LET f == pollFds[j].fd
               c == clients[f]
           IN /\ j \in DOMAIN pollFds /\ f \in Fd /\ pollFds \in Seq(Entry) /\ j + 1 \in Nat \ {0}
              /\ WithLookups(pollFds[j]) = clients /\ fds[f].kind = "sock"
              /\ Unserved(clients, f) /\ ClientOf(f) = c
              /\ c # NoClient /\ c \in Client /\ Sane(c) /\ c.complete /\ ~c.isCgi /\ ~c.isFile
              /\ ~InService(c)
              /\ c.rd = NoFd /\ c.wr = NoFd /\ c.fr = NoFd /\ c.fw = NoFd /\ ~c.quiet
              /\ Asked(pollFds, f) = "OUT" /\ cgiToClient[f] = NoFd /\ fileToClient[f] = NoFd
<1> DEFINE f == pollFds[j].fd
           c == clients[f]
<1>1. /\ j \in DOMAIN pollFds /\ f \in Fd /\ pollFds \in Seq(Entry) /\ j + 1 \in Nat \ {0}
      /\ clients \in [Fd -> Client \cup {NoClient}]
  BY NextEntry DEF TypeOK
<1>2. /\ WithLookups(pollFds[j]) = clients /\ fds[f].kind = "sock"
      /\ c.complete /\ ~InService(c)
  BY DispatchedTo
<1> HIDE DEF f
<1>3. c # NoClient /\ Sane(c) /\ cgiToClient[f] = NoFd /\ fileToClient[f] = NoFd
  <2>1. /\ WiredSock(fds, clients, listenOf, f) /\ WiredPipe(fds, clients, cgiToClient, f)
        /\ WiredFile(fds, clients, fileToClient, f)
    BY <1>1 DEF Orderly, Wired
  <2> QED
    BY <1>2, <2>1 DEF WiredSock, WiredPipe, WiredFile
<1>4. c \in Client
  BY <1>1, <1>3
<1>5. Asked(pollFds, f) = "OUT"
  BY <1>1, <1>2, <1>3, ClientPolled
<1>6. Unserved(clients, f)
  BY <1>2, <1>3 DEF Unserved
<1>7. f # NoFd
  BY <1>1, SizesAssumption DEF NoFd, Fd
<1>8. ClientOf(f) = c
  BY <1>3, <1>7 DEF ClientOf
<1>9. /\ ~c.isCgi /\ ~c.isFile /\ ~c.quiet
      /\ c.rd = NoFd /\ c.wr = NoFd /\ c.fr = NoFd /\ c.fw = NoFd
  BY <1>2, <1>3 DEF Sane, InService
<1> QED
  BY <1>1, <1>2, <1>3, <1>4, <1>5, <1>6, <1>8, <1>9 DEF f

\* No children come or go with the change of client c.
LEMMA AttendedAnswered ==
    ASSUME NEW d, NEW d2, NEW ch, NEW cs, NEW cs2, Attended(d, ch, cs), NEW c, Unserved(cs, c),
           \A f \in Fd : d2[f].kind = "pipeW" => d2[f] = d[f] \/ d2[f].pid = NoPid,
           \A f \in Fd \ {c} : cs2[f] = cs[f]
    PROVE  Attended(d2, ch, cs2)
<1>1. \A f \in Fd : d2[f].kind = "pipeW" /\ d2[f].pid \in Pid =>
                       d[f].kind = "pipeW" /\ d[f].pid = d2[f].pid
  BY SizesAssumption DEF Pid, NoPid
<1>2. \A f \in Fd : cs[f] # NoClient /\ cs[f].isCgi =>
                       cs2[f] # NoClient /\ cs2[f].isCgi /\ cs2[f].pid = cs[f].pid
  BY DEF Unserved, InService
<1> QED
  BY <1>1, <1>2, AttendedSame

\* A page, or an error: the response is in memory.
LEMMA PageOrderly ==
    ASSUME TypeOK, Sound(pollFds, fds), Orderly, NEW j, IsNext(j), BuildPage(j) \/ BuildCgiFails(j)
    PROVE  Orderly'
<1> DEFINE f == pollFds[j].fd
           c == clients[f]
           S == {g \in Fd : fds'[g] # fds[g]}
<1>1. /\ f \in Fd /\ WithLookups(pollFds[j]) = clients /\ fds[f].kind = "sock"
      /\ Unserved(clients, f) /\ c \in Client /\ Sane(c) /\ c.complete /\ ~InService(c)
      /\ c.rd = NoFd /\ c.wr = NoFd /\ c.fr = NoFd /\ c.fw = NoFd /\ ~c.quiet
      /\ Asked(pollFds, f) = "OUT"
  BY ToAnswer DEF BuildPage, BuildCgiFails, Builds, Takes
<1>2. PICK what \in Answer : clients' = [clients EXCEPT ![f] = Responding(c, what)]
  BY <1>1 DEF BuildPage, BuildCgiFails, Answer
<1>3. UNCHANGED <<child, pollFds, cgiToClient, fileToClient, listenOf, pc, i>>
  BY DEF BuildPage, BuildCgiFails, kernel, maps
<1>4. \A g \in Fd : \/ fds'[g] = fds[g]
                    \/ fds[g].kind = "free" /\ fds'[g] \in {Open("pipeR"), Open("pipeW")}
  BY DEF BuildPage, BuildCgiFails, kernel, IsFree, FreeFds
<1> HIDE DEF f
<1> DEFINE x == Responding(c, what)
<1>5. x \in Client /\ SameHelpers(x, c) /\ x.complete /\ Sane(x) /\ ~InService(x)
  <2>1. /\ x \in Client /\ SameHelpers(x, c) /\ x.complete = c.complete /\ x.quiet = c.quiet
        /\ x.isCgi = c.isCgi /\ x.isFile = c.isFile
    BY <1>1, RespondingType, RespondingFields
  <2> HIDE DEF x
  <2>2. ~InService(x)
    BY <1>1, <2>1 DEF InService
  <2> QED
    BY <1>1, <2>1, <2>2 DEF Sane, SameHelpers
<1>6. clients'[f] = x /\ \A g \in Fd \ {f} : clients'[g] = clients[g]
  BY <1>1, <1>2 DEF TypeOK
<1> HIDE DEF x
<1>7. x # NoClient
  BY <1>5, ClientThere
<1>8. /\ Open("pipeR").kind = "pipeR" /\ Open("pipeR").pid = NoPid
      /\ Open("pipeW").kind = "pipeW" /\ Open("pipeW").pid = NoPid
  BY DEF Open, FreeDesc
<1>9. S \in SUBSET Fd /\ Unused(fds, S) /\ \A g \in S : fds'[g].kind \in {"pipeR", "pipeW"}
  BY <1>4, <1>8 DEF Unused
<1>10. \A g \in Fd \ S : fds'[g] = fds[g]
  OBVIOUS
<1>11. \A g \in S : cgiToClient[g] = NoFd /\ fileToClient[g] = NoFd
  BY <1>9 DEF Orderly, Wired, WiredPipe, WiredFile, Unused
<1> HIDE DEF S
<1>12. \A g \in S : /\ fds'[g].kind \notin {"sock", "listen"}
                    /\ WiredPipe(fds', clients', cgiToClient', g)
                    /\ WiredFile(fds', clients', fileToClient', g)
  BY <1>3, <1>9, <1>11 DEF WiredPipe, WiredFile
<1>13. WiredHolder(clients', cgiToClient', fileToClient', f)
  BY <1>1, <1>5, <1>6 DEF WiredHolder, SameHelpers
<1>14. f \notin S
  BY <1>1, <1>9 DEF Unused
<1>15. \A g \in S \cup {f} : Asked(pollFds', g) = Wanted(fds', clients', cgiToClient', g)
  <2>1. \A g \in S : Wanted(fds, clients, cgiToClient, g) = "none"
    BY <1>9 DEF Wanted, Unused
  <2>2. \A g \in S : Asked(pollFds, g) = "none"
    BY <1>9, <2>1 DEF Orderly, Watched
  <2>3. \A g \in S : Wanted(fds', clients', cgiToClient', g) = "none"
    BY <1>3, <1>9, <1>11 DEF Wanted
  <2>4. Wanted(fds', clients', cgiToClient', f) = "OUT"
    BY <1>1, <1>5, <1>6, <1>10, <1>14 DEF Wanted
  <2> QED
    BY <1>1, <1>3, <2>2, <2>3, <2>4
<1>16. /\ Wired(fds', clients', cgiToClient', fileToClient', listenOf')
       /\ Watched(pollFds', fds', clients', cgiToClient')
       /\ \A g \in Fd \ {f} : fds[g].kind # "free" => Stays(fds, fds', clients, clients', g)
  BY <1>1, <1>3, <1>5, <1>6, <1>7, <1>9, <1>10, <1>12, <1>13, <1>15, Answered
<1>17. Attended(fds', child', clients')
  <2>1. \A g \in Fd : fds'[g].kind = "pipeW" => fds'[g] = fds[g] \/ fds'[g].pid = NoPid
    BY <1>4, <1>8
  <2>2. Attended(fds, child, clients)
    BY DEF Orderly
  <2>3. Attended(fds', child, clients')
    BY <1>1, <1>6, <2>1, <2>2, AttendedAnswered
  <2> QED
    BY <1>3, <2>3
<1>18. Stays(fds, fds', clients, clients', f)
  BY <1>1, <1>5, <1>6, <1>10, <1>14 DEF Stays
<1>19. Reports'
  BY <1>3, <1>16, <1>18, ReportsNext DEF Orderly, f
<1> QED
  BY <1>16, <1>17, <1>19 DEF Orderly

\* g is polled for ev, and f from now on for reading.
LEMMA AskedOpened ==
    ASSUME NEW s \in Seq(Entry), NEW d, Sound(s, d), NEW g \in Fd, d[g].kind = "free",
           NEW f \in Fd, f # g, Asked(s, f) # "none", NEW ev \in {"IN", "OUT"},
           NEW d2, d2[g].kind # "free", \A h \in Fd : d[h].kind # "free" => d2[h].kind # "free"
    PROVE  LET t == Append(s, NewEntry(g, ev))
           IN /\ t \in Seq(Entry) /\ Sound(t, d2) /\ Asked(t, f) # "none"
              /\ \A h : h # g => Asked(t, h) = Asked(s, h)
              /\ \A h : h # g /\ h # f => Asked(Want(t, f, "IN"), h) = Asked(s, h)
              /\ Asked(Want(t, f, "IN"), g) = ev /\ Asked(Want(t, f, "IN"), f) = "IN"
<1> DEFINE t == Append(s, NewEntry(g, ev))
<1>1. t \in Seq(Entry)
  BY NewEntryType
<1>2. (\A h : h # g => Asked(t, h) = Asked(s, h)) /\ Asked(t, g) = ev
  BY AskedAppend
<1>3. Sound(t, d2)
  BY SoundAppend
<1> HIDE DEF t
<1>4. /\ \A h : h # f => Asked(Want(t, f, "IN"), h) = Asked(t, h)
      /\ Asked(Want(t, f, "IN"), f) = "IN"
  BY <1>1, <1>2, <1>3, AskedWant
<1> QED
  BY <1>1, <1>2, <1>3, <1>4 DEF t

\* A file is opened to be read or written.
LEMMA FileOpens ==
    ASSUME TypeOK, Sound(pollFds, fds), Orderly, NEW j, IsNext(j), BuildFile(j) \/ BuildUpload(j)
    PROVE  Orderly'
<1> DEFINE f == pollFds[j].fd
           c == clients[f]
<1>1. /\ f \in Fd /\ WithLookups(pollFds[j]) = clients /\ fds[f].kind = "sock"
      /\ pollFds \in Seq(Entry) /\ j + 1 \in Nat \ {0}
      /\ Unserved(clients, f) /\ c \in Client /\ Sane(c) /\ c.complete /\ ~InService(c)
      /\ ~c.isCgi /\ ~c.quiet
      /\ c.rd = NoFd /\ c.wr = NoFd /\ c.fr = NoFd /\ c.fw = NoFd
      /\ Asked(pollFds, f) = "OUT" /\ ClientOf(f) = c
  BY ToAnswer DEF BuildFile, BuildUpload, Builds, Takes
<1>2. ~c.ready
  BY <1>1 DEF BuildFile, BuildUpload, Builds
<1>3. PICK g \in Fd, kind \in {"fileR", "fileW"} :
         /\ IsFree(g, 1)
         /\ fds' = [fds EXCEPT ![g] = Open(kind)]
         /\ clients' = [clients EXCEPT ![f] =
               IF kind = "fileR"
               THEN [c EXCEPT !.isFile = TRUE, !.fr = g, !.answer = "done", !.left = CHUNKS]
               ELSE [c EXCEPT !.isFile = TRUE, !.fw = g, !.answer = "done", !.left = CHUNKS]]
         /\ fileToClient' = Register(fileToClient, g, f)
         /\ pollFds' = Want(Append(pollFds, NewEntry(g, IF kind = "fileR" THEN "IN" ELSE "OUT")), f, "IN")
  <2>1. CASE BuildFile(j)
    <3>1. PICK g \in Fd :
             /\ IsFree(g, 1)
             /\ fds' = [fds EXCEPT ![g] = Open("fileR")]
             /\ clients' = [clients EXCEPT ![f] =
                   [c EXCEPT !.isFile = TRUE, !.fr = g, !.answer = "done", !.left = CHUNKS]]
             /\ fileToClient' = Register(fileToClient, g, f)
             /\ pollFds' = Want(Append(pollFds, NewEntry(g, "IN")), f, "IN")
      BY <1>1, <2>1 DEF BuildFile
    <3> QED
      BY <3>1
  <2>2. CASE BuildUpload(j)
    <3>1. PICK g \in Fd :
             /\ IsFree(g, 1)
             /\ fds' = [fds EXCEPT ![g] = Open("fileW")]
             /\ clients' = [clients EXCEPT ![f] =
                   [c EXCEPT !.isFile = TRUE, !.fw = g, !.answer = "done", !.left = CHUNKS]]
             /\ fileToClient' = Register(fileToClient, g, f)
             /\ pollFds' = Want(Append(pollFds, NewEntry(g, "OUT")), f, "IN")
      BY <1>1, <2>2 DEF BuildUpload
    <3> QED
      BY <3>1
  <2> QED
    BY <2>1, <2>2
<1>4. /\ UNCHANGED <<child, cgiToClient, listenOf>> /\ i' = j + 1 /\ pc' = pc
  BY DEF BuildFile, BuildUpload, Done
<1> DEFINE ev == IF kind = "fileR" THEN "IN" ELSE "OUT"
           t == Append(pollFds, NewEntry(g, ev))
<1>5. fds[g].kind = "free" /\ g # f /\ ev \in {"IN", "OUT"}
  BY <1>1, <1>3 DEF IsFree, FreeFds
<1>6. Left(pollFds', i') = Left(pollFds, j + 1)
  <2>1. t \in Seq(Entry) /\ Left(t, j + 1) = Left(pollFds, j + 1)
    BY <1>1, <1>5, LeftAppend, NewEntryType
  <2>2. pollFds' = Want(t, f, "IN")
    BY <1>3
  <2> HIDE DEF t, f
  <2> QED
    BY <1>1, <1>4, <2>1, <2>2, LeftWant
<1> HIDE DEF f
<1>7. /\ fds'[g].kind = kind /\ fds'[g].kind # "pipeW" /\ \A h \in Fd \ {g} : fds'[h] = fds[h]
      /\ cgiToClient'[g] = NoFd
      /\ fileToClient'[g] = f
      /\ \A h \in Fd \ {g} : fileToClient'[h] = fileToClient[h] /\ cgiToClient'[h] = cgiToClient[h]
  <2>1. fds \in [Fd -> Desc] /\ fileToClient \in [Fd -> Fd \cup {NoFd}]
    BY DEF TypeOK
  <2>2. cgiToClient[g] = NoFd
    BY <1>5 DEF Orderly, Wired, WiredPipe
  <2>3. Open(kind).kind = kind
    BY DEF Open, FreeDesc
  <2> QED
    BY <1>3, <1>4, <2>1, <2>2, <2>3 DEF Register
<1>8. PICK x : /\ x = IF kind = "fileR"
                       THEN [c EXCEPT !.isFile = TRUE, !.fr = g, !.answer = "done", !.left = CHUNKS]
                       ELSE [c EXCEPT !.isFile = TRUE, !.fw = g, !.answer = "done", !.left = CHUNKS]
  OBVIOUS
<1>9. /\ x \in Client /\ x.complete /\ x.isFile /\ ~x.isCgi /\ ~x.ready /\ ~x.quiet
      /\ x.rd = NoFd /\ x.wr = NoFd
      /\ \/ kind = "fileR" /\ x.fr = g /\ x.fw = NoFd
         \/ kind = "fileW" /\ x.fw = g /\ x.fr = NoFd
  <2>1. CHUNKS \in 0..CHUNKS /\ "done" \in Answer
    BY SizesAssumption DEF Answer
  <2>2. CASE kind = "fileR"
    BY <1>1, <1>2, <1>8, <2>1, <2>2 DEF Client
  <2>3. CASE kind = "fileW"
    BY <1>1, <1>2, <1>8, <2>1, <2>3 DEF Client
  <2> QED
    BY <2>2, <2>3
<1>10. clients'[f] = x /\ \A h \in Fd \ {f} : clients'[h] = clients[h]
  BY <1>1, <1>3, <1>8 DEF TypeOK
<1> HIDE DEF c
<1>11. x # NoClient /\ Sane(x) /\ InService(x)
  <2>1. g # NoFd
    BY SizesAssumption DEF NoFd, Fd
  <2> QED
    BY <1>9, <2>1, ClientThere DEF Sane, InService
<1>12. \A h \in {g} : /\ fds'[h].kind \notin {"sock", "listen"}
                      /\ WiredPipe(fds', clients', cgiToClient', h)
                      /\ WiredFile(fds', clients', fileToClient', h)
  <2>1. f # NoFd
    BY <1>1, SizesAssumption DEF NoFd, Fd
  <2> QED
    BY <1>7, <1>9, <1>10, <1>11, <2>1 DEF WiredPipe, WiredFile
<1>13. WiredHolder(clients', cgiToClient', fileToClient', f)
  BY <1>7, <1>9, <1>10 DEF WiredHolder
<1>14. /\ \A h \in {g} \cup {f} : Asked(pollFds', h) = Wanted(fds', clients', cgiToClient', h)
       /\ \A h \in Fd \ ({g} \cup {f}) : Asked(pollFds', h) = Asked(pollFds, h)
  <2>1. \A h \in Fd : fds[h].kind # "free" => fds'[h].kind # "free"
    BY <1>5, <1>7
  <2>2. pollFds' = Want(t, f, "IN")
    BY <1>3
  <2>3. fds'[g].kind # "free"
    BY <1>7
  <2> HIDE DEF ev
  <2>4. /\ \A h : h # g /\ h # f => Asked(Want(t, f, "IN"), h) = Asked(pollFds, h)
        /\ Asked(Want(t, f, "IN"), g) = ev /\ Asked(Want(t, f, "IN"), f) = "IN"
    BY <1>1, <1>5, <2>1, <2>3, AskedOpened
  <2>5. Wanted(fds', clients', cgiToClient', g) = ev
    BY <1>7 DEF Wanted, ev
  <2>6. Wanted(fds', clients', cgiToClient', f) = "IN"
    BY <1>1, <1>5, <1>7, <1>10, <1>11 DEF Wanted
  <2> HIDE DEF t
  <2> QED
    BY <2>2, <2>4, <2>5, <2>6
<1>15. Unused(fds, {g}) /\ {g} \in SUBSET Fd /\ clients[f].complete
  BY <1>1, <1>5 DEF Unused, c
<1>16. \A h \in Fd \ {g} : /\ fds'[h] = fds[h]
                           /\ cgiToClient'[h] = cgiToClient[h]
                           /\ fileToClient'[h] = fileToClient[h]
  BY <1>7
<1>17. /\ Wired(fds', clients', cgiToClient', fileToClient', listenOf')
       /\ Watched(pollFds', fds', clients', cgiToClient')
       /\ \A h \in Fd \ {f} : fds[h].kind # "free" => Stays(fds, fds', clients, clients', h)
  BY <1>1, <1>4, <1>10, <1>11, <1>12, <1>13, <1>14, <1>15, <1>16, Answered
<1>18. Attended(fds', child', clients')
  <2>1. \A h \in Fd : fds'[h].kind = "pipeW" => fds'[h] = fds[h] \/ fds'[h].pid = NoPid
    BY <1>7
  <2>2. Attended(fds, child, clients)
    BY DEF Orderly
  <2>3. Attended(fds', child, clients')
    BY <1>1, <1>10, <2>1, <2>2, AttendedAnswered
  <2> QED
    BY <1>4, <2>3
<1>19. Reports'
  BY <1>4, <1>6, <1>17, ReportsNext DEF Orderly, f
<1> QED
  BY <1>17, <1>18, <1>19 DEF Orderly

\* A script is started, with or without a body to be written to it.
LEMMA CgiOpens ==
    ASSUME TypeOK, Sound(pollFds, fds), Orderly, NEW j, IsNext(j),
           NEW body \in BOOLEAN, BuildCgi(j, body)
    PROVE  Orderly'
<1> DEFINE f == pollFds[j].fd
           c == clients[f]
           added(w, r) == IF body THEN <<NewEntry(r, "IN"), NewEntry(w, "OUT")>>
                                  ELSE <<NewEntry(r, "IN")>>
<1>1. /\ f \in Fd /\ WithLookups(pollFds[j]) = clients /\ fds[f].kind = "sock"
      /\ pollFds \in Seq(Entry) /\ j + 1 \in Nat \ {0}
      /\ Unserved(clients, f) /\ c \in Client /\ Sane(c) /\ c.complete /\ ~InService(c)
      /\ ~c.isCgi /\ ~c.isFile /\ ~c.quiet
      /\ c.rd = NoFd /\ c.wr = NoFd /\ c.fr = NoFd /\ c.fw = NoFd
      /\ Asked(pollFds, f) = "OUT" /\ ClientOf(f) = c
  BY ToAnswer DEF BuildCgi, Builds, Takes
<1>2. ~c.ready
  BY <1>1 DEF BuildCgi, Builds
<1>3. PICK w \in Fd, r \in Fd, p \in FreshPids :
         /\ LaunchCgi(w, r, p)
         /\ fds' = [fds EXCEPT ![r] = OpenPipe("pipeR", p),
                               ![w] = IF body THEN OpenPipe("pipeW", p) ELSE FreeDesc]
         /\ clients' = [clients EXCEPT ![f] = [c EXCEPT
                          !.isCgi = TRUE, !.pid = p, !.rd = r, !.wr = IF body THEN w ELSE NoFd,
                          !.left = CHUNKS, !.late = FALSE]]
         /\ cgiToClient' = IF body THEN Register(Register(cgiToClient, r, f), w, f)
                                   ELSE Register(cgiToClient, r, f)
         /\ pollFds' = Want(pollFds \o added(w, r), f, "IN")
  BY <1>1 DEF BuildCgi
<1>4. /\ UNCHANGED <<fileToClient, listenOf>> /\ i' = j + 1 /\ pc' = pc
  BY DEF BuildCgi, Done
<1>5. /\ fds[w].kind = "free" /\ fds[r].kind = "free" /\ w # r /\ w # f /\ r # f
      /\ child' = [child EXCEPT ![p] = "run"] /\ p \in Pid
  <2>1. fds[w].kind = "free" /\ fds[r].kind = "free"
    BY <1>3 DEF LaunchCgi, IsFree, FreeFds
  <2>2. w # r
    <3> DEFINE below(g) == Cardinality({h \in FreeFds : h < g})
    <3>1. below(w) = 2 - 1 /\ below(r) = 3 - 1
      BY <1>3 DEF LaunchCgi, IsFree
    <3> HIDE DEF below
    <3> QED
      BY <3>1
  <2>3. child' = [child EXCEPT ![p] = "run"] /\ p \in Pid
    BY <1>3 DEF LaunchCgi, FreshPids
  <2> QED
    BY <1>1, <2>1, <2>2, <2>3
<1> DEFINE one == Append(pollFds, NewEntry(r, "IN"))
           two == Append(one, NewEntry(w, "OUT"))
           last == IF body THEN two ELSE one
<1>6. /\ one \in Seq(Entry) /\ two \in Seq(Entry) /\ last \in Seq(Entry)
      /\ pollFds \o added(w, r) = last
  <2>1. one \in Seq(Entry)
    BY <1>1, NewEntryType
  <2>2. two \in Seq(Entry)
    BY <2>1, NewEntryType
  <2>3. CASE body
    BY <1>1, <2>3, NewEntryType
  <2>4. CASE ~body
    BY <1>1, <2>4, NewEntryType
  <2> QED
    BY <2>1, <2>2, <2>3, <2>4
<1> HIDE DEF added
<1>7. Left(pollFds', i') = Left(pollFds, j + 1)
  <2>1. Left(one, j + 1) = Left(pollFds, j + 1)
    BY <1>1, LeftAppend
  <2> HIDE DEF one
  <2>2. Left(two, j + 1) = Left(one, j + 1)
    BY <1>1, <1>6, LeftAppend
  <2> HIDE DEF two
  <2>3. Left(last, j + 1) = Left(pollFds, j + 1)
    BY <2>1, <2>2
  <2> HIDE DEF last, f
  <2>4. Left(Want(last, f, "IN"), j + 1) = Left(last, j + 1)
    BY <1>1, <1>6, LeftWant
  <2> QED
    BY <1>3, <1>4, <1>6, <2>3, <2>4
<1> HIDE DEF f
<1>8. cgiToClient[r] = NoFd /\ cgiToClient[w] = NoFd /\ fileToClient[r] = NoFd /\ fileToClient[w] = NoFd
  BY <1>5 DEF Orderly, Wired, WiredPipe, WiredFile
<1>9. /\ fds'[r].kind = "pipeR" /\ fds'[r].pid = p
      /\ IF body THEN fds'[w].kind = "pipeW" /\ fds'[w].pid = p ELSE fds'[w].kind = "free"
      /\ \A h \in Fd \ {w, r} : fds'[h] = fds[h]
  <2>1. /\ OpenPipe("pipeR", p).kind = "pipeR" /\ OpenPipe("pipeR", p).pid = p
        /\ OpenPipe("pipeW", p).kind = "pipeW" /\ OpenPipe("pipeW", p).pid = p
        /\ FreeDesc.kind = "free"
    BY DEF OpenPipe, Open, FreeDesc
  <2>2. fds \in [Fd -> Desc]
    BY DEF TypeOK
  <2>3. fds'[r] = OpenPipe("pipeR", p) /\ fds'[w] = IF body THEN OpenPipe("pipeW", p) ELSE FreeDesc
    BY <1>3, <1>5, <2>2
  <2>4. \A h \in Fd \ {w, r} : fds'[h] = fds[h]
    BY <1>3, <2>2
  <2> QED
    BY <2>1, <2>3, <2>4
<1>10. /\ cgiToClient'[r] = f /\ cgiToClient'[w] = IF body THEN f ELSE NoFd
       /\ \A h \in Fd \ {w, r} : cgiToClient'[h] = cgiToClient[h]
  <2>1. cgiToClient \in [Fd -> Fd \cup {NoFd}]
    BY DEF TypeOK
  <2> QED
    BY <1>3, <1>5, <1>8, <2>1 DEF Register
<1>11. PICK x : x = [c EXCEPT !.isCgi = TRUE, !.pid = p, !.rd = r,
                              !.wr = IF body THEN w ELSE NoFd, !.left = CHUNKS, !.late = FALSE]
  OBVIOUS
<1>12. /\ x \in Client /\ x.complete /\ x.isCgi /\ ~x.isFile /\ ~x.ready /\ ~x.quiet
       /\ x.rd = r /\ x.wr = (IF body THEN w ELSE NoFd) /\ x.fr = NoFd /\ x.fw = NoFd /\ x.pid = p
  <2>1. CHUNKS \in 0..CHUNKS
    BY SizesAssumption
  <2> QED
    BY <1>1, <1>2, <1>5, <1>11, <2>1 DEF Client
<1>13. clients'[f] = x /\ \A h \in Fd \ {f} : clients'[h] = clients[h]
  BY <1>1, <1>3, <1>11 DEF TypeOK
<1> HIDE DEF c
<1>14. r # NoFd /\ w # NoFd /\ f # NoFd
  BY <1>1, SizesAssumption DEF NoFd, Fd
<1>15. x # NoClient /\ Sane(x) /\ InService(x)
  BY <1>5, <1>12, <1>14, ClientThere DEF Sane, InService
<1>16. \A h \in {w, r} : /\ fds'[h].kind \notin {"sock", "listen"}
                         /\ WiredPipe(fds', clients', cgiToClient', h)
                         /\ WiredFile(fds', clients', fileToClient', h)
  BY <1>4, <1>8, <1>9, <1>10, <1>12, <1>13, <1>15 DEF WiredPipe, WiredFile
<1>17. WiredHolder(clients', cgiToClient', fileToClient', f)
  BY <1>10, <1>12, <1>13 DEF WiredHolder
<1>18. /\ \A h : h \notin {w, r, f} => Asked(pollFds', h) = Asked(pollFds, h)
       /\ Asked(pollFds', r) = "IN" /\ Asked(pollFds', f) = "IN"
       /\ Asked(pollFds', w) = IF body THEN "OUT" ELSE Asked(pollFds, w)
  <2>1. PICK d : d = [h \in Fd |-> IF h = r THEN Open("pipeR") ELSE fds[h]]
    OBVIOUS
  <2>2. /\ d[r].kind # "free" /\ d[w].kind = "free"
        /\ \A h \in Fd : fds[h].kind # "free" => d[h].kind # "free"
    BY <1>5, <2>1 DEF Open, FreeDesc
  <2>3. /\ Sound(one, d) /\ Asked(one, f) # "none"
        /\ \A h : h # r => Asked(one, h) = Asked(pollFds, h)
        /\ \A h : h # r /\ h # f => Asked(Want(one, f, "IN"), h) = Asked(pollFds, h)
        /\ Asked(Want(one, f, "IN"), r) = "IN" /\ Asked(Want(one, f, "IN"), f) = "IN"
    BY <1>1, <1>5, <2>2, AskedOpened
  <2>4. Asked(one, r) = "IN"
    BY <1>1, <1>5, AskedAppend
  <2>5. PICK d2 : d2 = [h \in Fd |-> IF h = w THEN Open("pipeW") ELSE d[h]]
    OBVIOUS
  <2>6. d2[w].kind # "free" /\ \A h \in Fd : d[h].kind # "free" => d2[h].kind # "free"
    BY <2>5 DEF Open, FreeDesc
  <2> HIDE DEF one
  <2>7. /\ \A h : h # w /\ h # f => Asked(Want(two, f, "IN"), h) = Asked(one, h)
        /\ Asked(Want(two, f, "IN"), w) = "OUT" /\ Asked(Want(two, f, "IN"), f) = "IN"
    BY <1>1, <1>5, <1>6, <2>2, <2>3, <2>6, AskedOpened
  <2> HIDE DEF two
  <2>8. pollFds' = IF body THEN Want(two, f, "IN") ELSE Want(one, f, "IN")
    BY <1>3, <1>6
  <2>9. CASE body
    BY <1>5, <2>3, <2>4, <2>7, <2>8, <2>9
  <2>10. CASE ~body
    BY <1>5, <2>3, <2>8, <2>10
  <2> QED
    BY <2>9, <2>10
<1>19. /\ \A h \in {w, r} \cup {f} : Asked(pollFds', h) = Wanted(fds', clients', cgiToClient', h)
       /\ \A h \in Fd \ ({w, r} \cup {f}) : Asked(pollFds', h) = Asked(pollFds, h)
  <2>1. Wanted(fds', clients', cgiToClient', r) = "IN"
    BY <1>9, <1>10, <1>14 DEF Wanted
  <2>2. Wanted(fds', clients', cgiToClient', f) = "IN"
    BY <1>1, <1>5, <1>9, <1>13, <1>15 DEF Wanted
  <2>3. Wanted(fds, clients, cgiToClient, w) = "none"
    BY <1>5 DEF Wanted
  <2>4. Asked(pollFds, w) = "none"
    BY <2>3 DEF Orderly, Watched
  <2>5. Wanted(fds', clients', cgiToClient', w) = IF body THEN "OUT" ELSE "none"
    BY <1>9, <1>10, <1>14 DEF Wanted
  <2> QED
    BY <1>18, <2>1, <2>2, <2>4, <2>5
<1>20. Unused(fds, {w, r}) /\ {w, r} \in SUBSET Fd /\ clients[f].complete
  BY <1>1, <1>5 DEF Unused, c
<1>21. \A h \in Fd \ {w, r} : /\ fds'[h] = fds[h]
                              /\ cgiToClient'[h] = cgiToClient[h]
                              /\ fileToClient'[h] = fileToClient[h]
  BY <1>4, <1>9, <1>10
<1>22. /\ Wired(fds', clients', cgiToClient', fileToClient', listenOf')
       /\ Watched(pollFds', fds', clients', cgiToClient')
       /\ \A h \in Fd \ {f} : fds[h].kind # "free" => Stays(fds, fds', clients, clients', h)
  BY <1>1, <1>4, <1>13, <1>15, <1>16, <1>17, <1>19, <1>20, <1>21, Answered
<1>23. Attended(fds', child', clients')
  <2>1. \A h \in Fd : fds'[h].kind = "pipeW" => fds'[h] = fds[h] \/ fds'[h].pid = p
    BY <1>5, <1>9
  <2>2. Attended(fds, child, clients) /\ child \in [Pid -> ChildState]
    BY DEF Orderly, TypeOK
  <2>3. LaunchesOnly(fds, fds', clients, clients', f, p)
    BY <1>12, <1>13, <1>15, <2>1 DEF LaunchesOnly
  <2>4. Attended(fds', [child EXCEPT ![p] = "run"], clients')
    BY <1>1, <1>5, <2>2, <2>3, AttendedLaunched
  <2> QED
    BY <1>5, <2>4
<1>24. Reports'
  BY <1>4, <1>7, <1>22, ReportsNext DEF Orderly, f
<1> QED
  BY <1>22, <1>23, <1>24 DEF Orderly

\* A response is sent, or the connection is kept for the next request.
LEMMA SendOrderly ==
    ASSUME TypeOK, Sound(pollFds, fds), Orderly, NEW j, IsNext(j), SendSome(j) \/ SendLastKeep(j)
    PROVE  Orderly'
<1> DEFINE f == pollFds[j].fd
           c == clients[f]
<1>1. /\ f \in Fd /\ WithLookups(pollFds[j]) = clients /\ fds[f].kind = "sock"
      /\ pollFds \in Seq(Entry) /\ j + 1 \in Nat \ {0}
      /\ Unserved(clients, f) /\ c \in Client /\ Sane(c) /\ c.complete /\ ~InService(c)
      /\ c.rd = NoFd /\ c.wr = NoFd /\ c.fr = NoFd /\ c.fw = NoFd
      /\ Asked(pollFds, f) = "OUT"
  BY ToAnswer DEF SendSome, SendLastKeep, Sends, Takes
<1>2. /\ UNCHANGED <<fds, child, cgiToClient, fileToClient, listenOf>> /\ i' = j + 1 /\ pc' = pc
  BY DEF SendSome, SendLastKeep, Done, kernel, maps
<1>3. clients \in [Fd -> Client \cup {NoClient}]
  BY DEF TypeOK
<1>4. PICK x \in Client :
         /\ clients' = [clients EXCEPT ![f] = x]
         /\ x.rd = NoFd /\ x.wr = NoFd /\ x.fr = NoFd /\ x.fw = NoFd
         /\ Sane(x) /\ ~InService(x)
         /\ \/ x.complete /\ pollFds' = pollFds
            \/ pollFds' = Want(pollFds, f, IF x.complete THEN "OUT" ELSE "IN")
  <2>1. CASE SendSome(j)
    <3> DEFINE x == SomeSent(c)
    <3>1. /\ c.left > 0 /\ clients' = [clients EXCEPT ![f] = SomeSent(@)]
          /\ pollFds' = pollFds
      BY <1>1, <2>1 DEF SendSome
    <3>3. clients' = [clients EXCEPT ![f] = x]
      BY <1>1, <1>3, <3>1
    <3>4. /\ x \in Client /\ SameHelpers(x, c) /\ x.complete = c.complete /\ x.quiet = FALSE
          /\ x.isCgi = c.isCgi /\ x.isFile = c.isFile
      <4>1. x \in Client
        BY <1>1, <3>1, SomeSentType
      <4> QED
        BY <1>1, <4>1 DEF Client, SameHelpers, SomeSent
    <3> HIDE DEF x
    <3>5. Sane(x) /\ ~InService(x)
      BY <1>1, <3>4 DEF Sane, InService, SameHelpers
    <3> QED
      BY <1>1, <3>1, <3>3, <3>4, <3>5, ZenonT(40) DEF SameHelpers
  <2>2. CASE SendLastKeep(j)
    <3>1. PICK whole \in Parsed(NewClient) :
             /\ clients' = [clients EXCEPT ![f] = [NewClient EXCEPT !.complete = whole]]
             /\ pollFds' = Want(pollFds, f, IF whole THEN "OUT" ELSE "IN")
      BY <1>1, <2>2 DEF SendLastKeep
    <3> DEFINE x == [NewClient EXCEPT !.complete = whole]
    <3>2. whole \in BOOLEAN
      BY <3>1 DEF Parsed, NewClient
    <3>3. x \in Client
      BY <3>2, NewClientType DEF Client
    <3>4. /\ x.complete = whole /\ x.isCgi = FALSE /\ x.isFile = FALSE
          /\ x.ready = FALSE /\ x.quiet = FALSE
          /\ x.rd = NoFd /\ x.wr = NoFd /\ x.fr = NoFd /\ x.fw = NoFd
      BY DEF NewClient
    <3> HIDE DEF x
    <3>5. Sane(x) /\ ~InService(x)
      BY <3>4 DEF Sane, InService
    <3> QED
      BY <3>1, <3>3, <3>4, <3>5 DEF x
  <2> QED
    BY <2>1, <2>2
<1>5. Left(pollFds', i') = Left(pollFds, j + 1)
  BY <1>1, <1>2, <1>4, LeftWant
<1> HIDE DEF f
<1>6. clients'[f] = x /\ x # NoClient /\ \A g \in Fd \ {f} : clients'[g] = clients[g]
  BY <1>1, <1>3, <1>4, ClientThere
<1>7. WiredHolder(clients', cgiToClient', fileToClient', f)
  BY <1>4, <1>6 DEF WiredHolder
<1>8. /\ \A g \in {} \cup {f} : Asked(pollFds', g) = Wanted(fds', clients', cgiToClient', g)
      /\ \A g \in Fd \ ({} \cup {f}) : Asked(pollFds', g) = Asked(pollFds, g)
  <2>1. Wanted(fds', clients', cgiToClient', f) = IF x.complete THEN "OUT" ELSE "IN"
    BY <1>1, <1>2, <1>4, <1>6 DEF Wanted
  <2>2. /\ Asked(pollFds', f) = IF x.complete THEN "OUT" ELSE "IN"
        /\ \A g : g # f => Asked(pollFds', g) = Asked(pollFds, g)
    <3>1. CASE x.complete /\ pollFds' = pollFds
      BY <1>1, <3>1
    <3>2. CASE pollFds' = Want(pollFds, f, IF x.complete THEN "OUT" ELSE "IN")
      BY <1>1, <3>2, AskedWant
    <3> QED
      BY <1>4, <3>1, <3>2
  <2> QED
    BY <2>1, <2>2
<1>9. {} \in SUBSET Fd /\ Unused(fds, {}) /\ clients[f].complete
  BY <1>1 DEF Unused, f
<1>10. /\ Wired(fds', clients', cgiToClient', fileToClient', listenOf')
       /\ Watched(pollFds', fds', clients', cgiToClient')
       /\ \A g \in Fd \ {f} : fds[g].kind # "free" => Stays(fds, fds', clients, clients', g)
  BY <1>1, <1>2, <1>4, <1>6, <1>7, <1>8, <1>9, Answered
<1>11. Attended(fds', child', clients')
  <2>1. \A g \in Fd : fds'[g].kind = "pipeW" => fds'[g] = fds[g] \/ fds'[g].pid = NoPid
    BY <1>2
  <2>2. Attended(fds, child, clients)
    BY DEF Orderly
  <2>3. Attended(fds', child, clients')
    BY <1>1, <1>6, <2>1, <2>2, AttendedAnswered
  <2> QED
    BY <1>2, <2>3
<1>12. Reports'
  BY <1>2, <1>5, <1>10, ReportsNext DEF Orderly, f
<1> QED
  BY <1>10, <1>11, <1>12 DEF Orderly

LEMMA PlainStepOrderly ==
    ASSUME TypeOK, Sound(pollFds, fds), Orderly, NEW j, IsNext(j), PlainStep(j)
    PROVE  Orderly'
<1>1. CASE PlainError(j) \/ ReadGone(j) \/ SendFails(j) \/ SendLast(j)
  BY <1>1, ClosingOrderly
<1>2. CASE Accept(j)
  BY <1>2, AcceptOrderly
<1>3. CASE AcceptFails(j) \/ WriteNothing(j)
  BY <1>3, IdleHandlerOrderly
<1>4. CASE ReadData(j)
  BY <1>4, ReadOrderly
<1>5. CASE BuildPage(j) \/ BuildCgiFails(j)
  BY <1>5, PageOrderly
<1>6. CASE BuildFile(j) \/ BuildUpload(j)
  BY <1>6, FileOpens
<1>7. CASE BuildCgi(j, TRUE) \/ BuildCgi(j, FALSE)
  BY <1>7, CgiOpens
<1>8. CASE SendSome(j) \/ SendLastKeep(j)
  BY <1>8, SendOrderly
<1> QED
  BY <1>1, <1>2, <1>3, <1>4, <1>5, <1>6, <1>7, <1>8 DEF PlainStep, BuildStep, SendStep

-----------------------------------------------------------------------------
(* The sweeps *)

\* Nothing is reported between two passes.
LEMMA ReportsCalm ==
    ASSUME TypeOK', Calm(pollFds'), pc' # "dispatch"
    PROVE  Reports'
<1>1. pollFds' \in Seq(Entry) /\ i' \in Nat \ {0}
  BY DEF TypeOK
<1>2. Left(pollFds', i') = {}
  BY <1>1, CalmLeft
<1> QED
  BY <1>2 DEF Reports

LEMMA CloseIdleOrderly ==
    ASSUME TypeOK, TypeOK', Sound(pollFds, fds), Orderly, NEW j \in DOMAIN pollFds, CloseIdle(j)
    PROVE  Orderly'
<1> DEFINE f == pollFds[j].fd
<1>1. pollFds \in Seq(Entry) /\ f \in Fd
  <2>1. pollFds \in Seq(Entry)
    BY DEF TypeOK
  <2>2. pollFds[j] \in Entry
    BY <2>1
  <2> QED
    BY <2>1, <2>2 DEF Entry
<1>2. /\ clients[f] # NoClient /\ clients[f].quiet /\ CloseClient(clients, f, j)
      /\ pc = "idle" /\ pc' = pc
  BY DEF CloseIdle, Idle
<1> HIDE DEF f
<1>3. ~InService(clients[f])
  <2>1. Sane(clients[f])
    BY <1>1, <1>2, ClientPolled
  <2> QED
    BY <1>2, <2>1 DEF Sane
<1>4. /\ Wired(fds', clients', cgiToClient', fileToClient', listenOf')
      /\ Attended(fds', child', clients')
      /\ Watched(pollFds', fds', clients', cgiToClient')
  BY <1>1, <1>2, <1>3, ClosedConnection DEF f
<1>5. Calm(pollFds')
  BY <1>1, <1>2, CalmRemove DEF CloseClient, Orderly, Reports
<1>6. Reports'
  BY <1>2, <1>5, ReportsCalm
<1> QED
  BY <1>4, <1>6 DEF Orderly

\* A late CGI is killed: its pipes are closed, and its client is told so.
LEMMA KillOrderly ==
    ASSUME TypeOK, TypeOK', Sound(pollFds, fds), KillsItsOwnChild, Orderly,
           NEW c \in Fd, KillLateCgi(c)
    PROVE  Orderly'
<1> DEFINE cl == clients[c]
           pipes == OpenPipes(cl)
           one == ErasePollFd(pollFds, cl.rd)
           two == ErasePollFd(one, cl.wr)
<1>1. /\ pollFds \in Seq(Entry) /\ clients \in [Fd -> Client \cup {NoClient}]
      /\ cgiToClient \in [Fd -> Fd \cup {NoFd}] /\ child \in [Pid -> ChildState]
      /\ fileToClient \in [Fd -> Fd \cup {NoFd}]
  BY DEF TypeOK
<1>2. /\ cl # NoClient /\ cl.isCgi /\ pc = "cgi" /\ pc' = pc
      /\ child' = [child EXCEPT ![cl.pid] = "none"] /\ fds' = Closed(fds, pipes)
      /\ cgiToClient' = [f \in Fd |-> IF f \in pipes THEN NoFd ELSE cgiToClient[f]]
      /\ pollFds' = Want(two, c, "OUT")
      /\ clients' = [clients EXCEPT ![c] = [Responding(cl, "error") EXCEPT
                        !.rd = NoFd, !.wr = NoFd, !.isCgi = FALSE]]
      /\ fileToClient' = fileToClient /\ listenOf' = listenOf
  BY DEF KillLateCgi, LateCgi
<1>3. /\ cl \in Client /\ Sane(cl) /\ fds[c].kind = "sock" /\ InService(cl) /\ cl.complete
      /\ cl.rd \in Fd /\ (cl.wr # NoFd => cl.wr \in Fd) /\ ~cl.isFile /\ ~cl.quiet
      /\ cl.fr = NoFd /\ cl.fw = NoFd /\ cl.pid \in Pid /\ Asked(pollFds, c) = "IN"
  <2>1. cl \in Client /\ Sane(cl) /\ fds[c].kind = "sock"
    BY <1>1, <1>2, ClientPolled
  <2>2. InService(cl) /\ cl.complete /\ cl.fr = NoFd /\ cl.fw = NoFd /\ cl.rd # NoFd /\ ~cl.quiet /\ ~cl.isFile
    BY <1>2, <2>1 DEF Sane, InService
  <2>3. cl.rd \in Fd /\ (cl.wr # NoFd => cl.wr \in Fd)
    BY <2>1, <2>2 DEF Client
  <2>4. cl.pid \in Pid
    BY <1>2, <2>1 DEF KillsItsOwnChild, Client
  <2>5. Asked(pollFds, c) = "IN"
    BY <1>2, <2>2, ClientPolled
  <2> QED
    BY <2>1, <2>2, <2>3, <2>4, <2>5
<1>4. pipes \in SUBSET Fd /\ WorkFor(cgiToClient, fileToClient, pipes, c) /\ c \notin pipes
  <2>1. WiredHolder(clients, cgiToClient, fileToClient, c)
    BY DEF Orderly, Wired
  <2>2. \A f \in pipes : cgiToClient[f] = c
    BY <1>2, <2>1 DEF WiredHolder, OpenPipes
  <2>3. WiredPipe(fds, clients, cgiToClient, c)
    BY DEF Orderly, Wired
  <2>4. c # NoFd
    BY SizesAssumption DEF NoFd, Fd
  <2>5. cgiToClient[c] = NoFd
    BY <1>3, <2>3 DEF WiredPipe
  <2> QED
    BY <1>3, <2>2, <2>4, <2>5 DEF WorkFor, OpenPipes
<1>5. /\ \A f : f \notin {cl.rd, cl.wr, c} => Asked(pollFds', f) = Asked(pollFds, f)
      /\ \A f \in pipes : Asked(pollFds', f) = "none"
      /\ Asked(pollFds', c) = "OUT" /\ Calm(pollFds')
  <2> DEFINE d1 == Closed(fds, {cl.rd})
             d2 == Closed(d1, {cl.wr})
  <2>10. Calm(pollFds)
    BY <1>2 DEF Orderly, Reports
  <2>11. one \in Seq(Entry)
    BY <1>1, EraseType
  <2>12. Sound(one, d1)
    BY <1>1, SoundErase
  <2>13. Calm(one)
    BY <1>1, <2>10, CalmErase
  <2>1. one \in Seq(Entry) /\ Sound(one, d1) /\ Calm(one)
    BY <2>11, <2>12, <2>13
  <2>2. Asked(one, cl.rd) = "none" /\ \A f : f # cl.rd => Asked(one, f) = Asked(pollFds, f)
    BY <1>1, AskedErase
  <2> HIDE DEF one
  <2> HIDE DEF d1
  <2>14. two \in Seq(Entry)
    BY <2>1, EraseType
  <2>15. Sound(two, d2)
    BY <2>1, SoundErase
  <2>16. Calm(two)
    BY <2>1, CalmErase
  <2>3. two \in Seq(Entry) /\ Sound(two, d2) /\ Calm(two)
    BY <2>14, <2>15, <2>16
  <2>4. Asked(two, cl.wr) = "none" /\ \A f : f # cl.wr => Asked(two, f) = Asked(one, f)
    BY <2>1, AskedErase
  <2> HIDE DEF two, d2
  <2>5. c # cl.rd /\ c # cl.wr
    BY <1>3, <1>4, SizesAssumption DEF OpenPipes, NoFd, Fd
  <2>6. Asked(two, c) # "none"
    BY <1>3, <2>2, <2>4, <2>5
  <2>7. /\ \A f : f # c => Asked(pollFds', f) = Asked(two, f)
        /\ Asked(pollFds', c) = "OUT"
    BY <1>2, <2>3, <2>6, AskedWant
  <2>8. Calm(pollFds')
    BY <1>2, <2>3, CalmWant
  <2>9. \A f \in pipes : Asked(pollFds', f) = "none"
    <3>1. Asked(pollFds', cl.rd) = "none" /\ Asked(pollFds', cl.wr) = "none"
      BY <2>2, <2>4, <2>5, <2>7
    <3> QED
      BY <3>1 DEF OpenPipes
  <2> QED
    BY <2>2, <2>4, <2>7, <2>8, <2>9
<1> DEFINE x == [Responding(cl, "error") EXCEPT !.rd = NoFd, !.wr = NoFd, !.isCgi = FALSE]
<1>6. /\ x \in Client /\ x.complete /\ ~x.quiet /\ ~x.isCgi /\ ~x.isFile
      /\ x.rd = NoFd /\ x.wr = NoFd /\ x.fr = NoFd /\ x.fw = NoFd /\ x.pid = cl.pid
  <2> DEFINE r == Responding(cl, "error")
  <2>1. /\ r \in Client /\ SameHelpers(r, cl) /\ r.complete = cl.complete
        /\ r.isFile = cl.isFile /\ r.quiet = cl.quiet
    BY <1>3, RespondingType, RespondingFields DEF Answer
  <2> HIDE DEF r
  <2>2. x = [r EXCEPT !.rd = NoFd, !.wr = NoFd, !.isCgi = FALSE]
    BY DEF r
  <2> HIDE DEF x
  <2>3. /\ x \in Client /\ x.complete = r.complete /\ x.quiet = r.quiet /\ x.isCgi = FALSE
        /\ x.isFile = r.isFile /\ x.rd = NoFd /\ x.wr = NoFd /\ x.fr = r.fr /\ x.fw = r.fw
        /\ x.pid = r.pid
    BY <2>1, <2>2 DEF Client
  <2> QED
    BY <1>3, <2>1, <2>3 DEF SameHelpers
<1>7. clients'[c] = x /\ \A g \in Fd \ {c} : clients'[g] = clients[g]
  BY <1>1, <1>2
<1> HIDE DEF x
<1>8. x # NoClient /\ Sane(x) /\ ~InService(x)
  BY <1>6, ClientThere DEF Sane, InService
<1>9. \A f \in Fd : /\ cgiToClient'[f] = IF f \in pipes THEN NoFd ELSE cgiToClient[f]
                    /\ fileToClient'[f] = IF f \in pipes THEN NoFd ELSE fileToClient[f]
  <2>1. \A f \in pipes : fileToClient[f] = NoFd
    <3>1. \A f \in Fd : WiredPipe(fds, clients, cgiToClient, f) /\ WiredFile(fds, clients, fileToClient, f)
      BY DEF Orderly, Wired
    <3>2. c # NoFd /\ \A f \in pipes : cgiToClient[f] = c
      BY <1>2, SizesAssumption DEF Orderly, Wired, WiredHolder, OpenPipes, NoFd, Fd
    <3> QED
      BY <1>4, <3>1, <3>2 DEF WiredPipe, WiredFile
  <2> QED
    BY <1>2, <2>1
<1>10. /\ \A f \in pipes : Asked(pollFds', f) = "none"
       /\ \A f \in Fd \ (pipes \cup {c}) : Asked(pollFds', f) = Asked(pollFds, f)
       /\ Asked(pollFds', c) = IF InService(clients'[c]) THEN "IN" ELSE "OUT"
  <2>1. \A f \in Fd \ (pipes \cup {c}) : f \notin {cl.rd, cl.wr, c}
    BY SizesAssumption DEF OpenPipes, NoFd, Fd
  <2> QED
    BY <1>5, <1>7, <1>8, <2>1
<1>11. /\ clients'[c].rd = IF cl.rd \in pipes THEN NoFd ELSE cl.rd
       /\ clients'[c].wr = IF cl.wr \in pipes THEN NoFd ELSE cl.wr
       /\ clients'[c].fr = IF cl.fr \in pipes THEN NoFd ELSE cl.fr
       /\ clients'[c].fw = IF cl.fw \in pipes THEN NoFd ELSE cl.fw
       /\ clients'[c].pid = cl.pid /\ clients'[c].complete
       /\ clients'[c] # NoClient /\ Sane(clients'[c])
  BY <1>3, <1>6, <1>7, <1>8, SizesAssumption DEF OpenPipes, NoFd, Fd
<1> HIDE DEF pipes
<1>12. /\ Wired(fds', clients', cgiToClient', fileToClient', listenOf')
       /\ Watched(pollFds', fds', clients', cgiToClient')
       /\ \A f \in Fd : fds'[f].kind # "free" => fds'[f] = fds[f]
  BY <1>2, <1>3, <1>4, <1>7, <1>9, <1>10, <1>11, HelpersClosed
<1>13. Attended(fds', child', clients')
  <2>1. \A p \in Pid : child'[p] = IF p = clients[c].pid THEN "none" ELSE child[p]
    BY <1>1, <1>2
  <2>2. Attended(fds, child, clients)
    BY DEF Orderly
  <2> QED
    BY <1>7, <1>12, <2>1, <2>2, AttendedReaped
<1>14. Reports'
  BY <1>2, <1>5, ReportsCalm
<1> QED
  BY <1>12, <1>13, <1>14 DEF Orderly

LEMMA SweepOrderly ==
    ASSUME TypeOK, TypeOK', Sound(pollFds, fds), KillsItsOwnChild, Orderly, Sweep
    PROVE  Orderly'
<1>1. CASE EndIdle \/ EndCgi
  <2>1. /\ UNCHANGED <<fds, child, pollFds, clients, cgiToClient, fileToClient, listenOf>>
        /\ pc # "dispatch" /\ pc' # "dispatch"
    BY <1>1 DEF EndIdle, EndCgi, kernel, maps
  <2>2. Calm(pollFds')
    BY <2>1 DEF Orderly, Reports
  <2>3. Reports'
    BY <2>1, <2>2, ReportsCalm
  <2> QED
    BY <2>1, <2>3 DEF Orderly
<1> QED
  BY <1>1, CloseIdleOrderly, KillOrderly DEF Sweep

-----------------------------------------------------------------------------
(* poll() and the ends of a pass *)

\* Poll sets that differ in what was reported ask for the same.
LEMMA AskedSame ==
    ASSUME NEW s \in Seq(Entry), NEW s2 \in Seq(Entry), NEW d, Sound(s, d), DOMAIN s2 = DOMAIN s,
           \A j \in DOMAIN s : s2[j].fd = s[j].fd /\ s2[j].events = s[j].events, NEW f
    PROVE  Sound(s2, d) /\ Asked(s2, f) = Asked(s, f)
<1>1. Sound(s2, d)
  BY DEF Sound
<1>2. CASE \E k \in DOMAIN s : s[k].fd = f
  <2>1. PICK k \in DOMAIN s : s[k].fd = f
    BY <1>2
  <2>2. Asked(s, s[k].fd) = s[k].events
    BY AskedAt
  <2>3. Asked(s2, s2[k].fd) = s2[k].events
    BY <1>1, AskedAt
  <2> QED
    BY <1>1, <2>1, <2>2, <2>3
<1>3. CASE ~\E k \in DOMAIN s : s[k].fd = f
  BY <1>1, <1>3 DEF Asked
<1> QED
  BY <1>2, <1>3

\* A script whose stdin is still polled is there to read it.
LEMMA StdinRead ==
    ASSUME TypeOK, KillsItsOwnChild, Orderly, NEW f \in Fd,
           fds[f].kind = "pipeW", cgiToClient[f] # NoFd
    PROVE  StdinOpen(fds[f].pid)
<1> DEFINE c == cgiToClient[f]
           p == fds[f].pid
<1>1. WiredPipe(fds, clients, cgiToClient, f)
  BY DEF Orderly, Wired
<1>2. /\ c \in Fd /\ clients[c] # NoClient /\ p = clients[c].pid /\ f = clients[c].wr
  BY <1>1 DEF WiredPipe, TypeOK
<1>3. Sane(clients[c])
  BY <1>2 DEF Orderly, Wired, WiredSock
<1>4. f # NoFd
  BY SizesAssumption DEF NoFd, Fd
<1>5. p # NoPid /\ child[p] # "none"
  BY <1>2, <1>3, <1>4 DEF Sane, KillsItsOwnChild
<1>6. fds[f] \in Desc
  BY DEF TypeOK
<1>7. p \in Pid
  BY <1>5, <1>6 DEF Desc
<1>8. child[p] # "muted" /\ child[p] \notin Zombie
  BY <1>7 DEF Orderly, Attended
<1>9. child[p] \in ChildState
  BY <1>7 DEF TypeOK
<1>10. child[p] = "run"
  BY <1>5, <1>8, <1>9 DEF ChildState, Zombie
<1> QED
  BY <1>5, <1>10 DEF StdinOpen

\* What poll() reports is so.
LEMMA PolledCredible ==
    ASSUME TypeOK, Sound(pollFds, fds), KillsItsOwnChild, Orderly,
           NEW j \in DOMAIN pollFds, NEW full \in BOOLEAN
    PROVE  LET f == pollFds[j].fd
           IN Credible(fds, clients, <<f, Condition(f, full)
                                            \cap {pollFds[j].events, "ERR", "HUP", "NVAL"}>>)
<1> DEFINE f == pollFds[j].fd
           ev == pollFds[j].events
           cond == Condition(f, full)
           R == cond \cap {ev, "ERR", "HUP", "NVAL"}
<1>1. pollFds[j] \in Entry
  BY DEF TypeOK
<1>2. f \in Fd /\ ev \in {"IN", "OUT"}
  BY <1>1 DEF Entry
<1>3. ev = Wanted(fds, clients, cgiToClient, f)
  BY <1>2, AskedAt DEF Orderly, Watched
<1>4. WiredSock(fds, clients, listenOf, f)
  BY <1>2 DEF Orderly, Wired
<1>5. fds[f].kind = "pipeW" /\ ev = "OUT" => StdinOpen(fds[f].pid)
  <2>1. fds[f].kind = "pipeW" /\ ev = "OUT" => cgiToClient[f] # NoFd
    BY <1>3 DEF Wanted
  <2> QED
    BY <1>2, <2>1, StdinRead
<1>6. fds[f].kind = "pipeW" => ev = "OUT"
  BY <1>2, <1>3 DEF Wanted
<1> HIDE DEF f, ev
<1>7. fds[f].kind \in {"listen", "fileR"} => R \subseteq {"IN"}
  BY <1>2, <1>3, <1>4 DEF Wanted, WiredSock, Condition
<1>8. fds[f].kind \in {"pipeW", "fileW"} => R \subseteq {"OUT"}
  BY <1>2, <1>3, <1>5, <1>6 DEF Wanted, Condition
<1>9. fds[f].kind = "pipeR" => R \subseteq {"IN", "HUP"}
  BY <1>2, <1>3 DEF Wanted, Condition
<1>10. ASSUME fds[f].kind = "sock"
       PROVE  /\ "OUT" \in R => clients[f].complete /\ ~InService(clients[f])
              /\ "IN" \in R => fds[f].in # {}
              /\ R \cap {"ERR", "HUP", "NVAL"} # {} => "rst" \in fds[f].in
  <2>1. "OUT" \in R => clients[f].complete /\ ~InService(clients[f])
    BY <1>2, <1>3, <1>10 DEF Wanted
  <2>2. "IN" \in R => fds[f].in # {}
    BY <1>10 DEF Condition
  <2>3. R \cap {"ERR", "HUP", "NVAL"} # {} => "rst" \in fds[f].in
    BY <1>10 DEF Condition
  <2> QED
    BY <2>1, <2>2, <2>3
<1> HIDE DEF cond, R
<1>11. Credible(fds, clients, <<f, R>>)
  BY <1>7, <1>8, <1>9, <1>10 DEF Credible
<1> QED
  BY <1>11 DEF f, ev, cond, R

LEMMA PassOrderly ==
    ASSUME TypeOK, TypeOK', Sound(pollFds, fds), KillsItsOwnChild, Orderly, Poll \/ EndPass
    PROVE  Orderly'
<1>1. /\ UNCHANGED <<fds, child, clients, cgiToClient, fileToClient, listenOf>>
      /\ pollFds \in Seq(Entry) /\ pollFds' \in Seq(Entry) /\ DOMAIN pollFds' = DOMAIN pollFds
      /\ \A j \in DOMAIN pollFds : pollFds[j] \in Entry
  BY DEF Poll, EndPass, kernel, maps, TypeOK
<1>2. \A j \in DOMAIN pollFds : /\ pollFds'[j].fd = pollFds[j].fd
                                /\ pollFds'[j].events = pollFds[j].events
  BY <1>1 DEF Poll, EndPass, Entry
<1>3. \A f : Asked(pollFds', f) = Asked(pollFds, f)
  BY <1>1, <1>2, AskedSame
<1>4. Watched(pollFds', fds', clients', cgiToClient')
  BY <1>1, <1>3 DEF Orderly, Watched
<1>5. Reports'
  <2>1. CASE Poll
    <3>1. PICK full \in SUBSET {j \in DOMAIN pollFds : MayBeFull(pollFds[j])} :
             pollFds' = [j \in DOMAIN pollFds |->
                 [pollFds[j] EXCEPT !.revents =
                     Condition(pollFds[j].fd, j \in full)
                         \cap {pollFds[j].events, "ERR", "HUP", "NVAL"}]]
      BY <2>1 DEF Poll
    <3>2. ASSUME NEW j \in DOMAIN pollFds
          PROVE  Credible(fds', clients', <<pollFds'[j].fd, pollFds'[j].revents>>)
      <4>1. pollFds'[j].revents = Condition(pollFds[j].fd, j \in full)
                                      \cap {pollFds[j].events, "ERR", "HUP", "NVAL"}
        BY <1>1, <3>1 DEF Entry
      <4>2. (j \in full) \in BOOLEAN
        OBVIOUS
      <4>3. Credible(fds, clients, <<pollFds[j].fd, Condition(pollFds[j].fd, j \in full)
                                      \cap {pollFds[j].events, "ERR", "HUP", "NVAL"}>>)
        BY <4>2, PolledCredible
      <4> QED
        BY <1>1, <1>2, <4>1, <4>3
    <3>3. \A n \in i'..Len(pollFds') : n \in DOMAIN pollFds
      BY <1>1, <2>1 DEF Poll
    <3>4. \A x \in Left(pollFds', i') : Credible(fds', clients', x)
      BY <3>2, <3>3 DEF Left
    <3> QED
      BY <2>1, <3>4 DEF Poll, Reports
  <2>2. CASE EndPass
    <3>1. Calm(pollFds')
      BY <1>1, <2>2 DEF EndPass, Calm, Entry
    <3>2. pc' # "dispatch"
      BY <2>2 DEF EndPass
    <3> QED
      BY <3>1, <3>2, ReportsCalm
  <2> QED
    BY <2>1, <2>2
<1> QED
  BY <1>1, <1>4, <1>5 DEF Orderly

-----------------------------------------------------------------------------
(* Peers, scripts and the clock *)

\* Nothing is dispatched, and nothing that was reported stops being so.
LEMMA ReportsSame ==
    ASSUME TypeOK, Sound(pollFds, fds), Reports, UNCHANGED <<pollFds, pc, i>>,
           \A g \in Fd : fds[g].kind # "free" => Stays(fds, fds', clients, clients', g)
    PROVE  Reports'
<1>1. \A x \in Left(pollFds', i') : /\ x \in Left(pollFds, i)
                                    /\ Stays(fds, fds', clients, clients', x[1])
  BY LeftIsPolled
<1>2. \A x \in Left(pollFds', i') : Credible(fds', clients', x)
  BY <1>1, CredibleStays DEF Reports
<1> QED
  BY <1>2 DEF Reports

\* Something arrives or is written at descriptor f: x is what the kernel knows
\* of it now.
LEMMA ArrivalOrderly ==
    ASSUME TypeOK, Sound(pollFds, fds), Orderly, NEW f \in Fd, NEW x \in Desc,
           fds' = [fds EXCEPT ![f] = x], UNCHANGED child, ServerUnchanged,
           x.kind = fds[f].kind, x.pid = fds[f].pid,
           \/ x.in = fds[f].in
           \/ fds[f].in = {} /\ x.in # {} /\ (fds[f].kind = "listen" => "rst" \notin x.in),
           clients[f] # NoClient => Unbroken(clients[f], x.in)
    PROVE  Orderly'
<1>1. /\ UNCHANGED <<child, cgiToClient, fileToClient, listenOf, pollFds, clients, pc, i>>
      /\ fds \in [Fd -> Desc]
  BY DEF ServerUnchanged, maps, TypeOK
<1>2. fds'[f] = x /\ \A g \in Fd \ {f} : fds'[g] = fds[g]
  BY <1>1
<1>3. \A g \in Fd : WiredSock(fds, clients, listenOf, g)
  BY DEF Orderly, Wired
<1>4. \A g \in Fd : /\ fds'[g].kind = fds[g].kind /\ fds'[g].pid = fds[g].pid
                    /\ fds[g].kind = "listen" => "rst" \notin fds'[g].in
                    /\ clients'[g] # NoClient <=> clients[g] # NoClient
  BY <1>1, <1>2, <1>3 DEF WiredSock
<1>5. \A g \in Fd : clients[g] # NoClient =>
                    /\ SameHelpers(clients'[g], clients[g]) /\ Sane(clients'[g])
                    /\ Unbroken(clients'[g], fds'[g].in)
  BY <1>1, <1>2, <1>3 DEF WiredSock, SameHelpers
<1>6. \A g \in Fd :
         \/ Asked(pollFds', g) = Wanted(fds', clients', cgiToClient', g)
         \/ /\ Asked(pollFds', g) = Asked(pollFds, g)
            /\ clients[g] # NoClient => (clients'[g].complete <=> clients[g].complete)
  BY <1>1
<1>7. /\ Wired(fds', clients', cgiToClient', fileToClient', listenOf')
      /\ Attended(fds', child', clients')
      /\ Watched(pollFds', fds', clients', cgiToClient')
  <2>1. UNCHANGED <<child, cgiToClient, fileToClient, listenOf>>
    BY <1>1
  <2> QED
    BY <2>1, <1>4, <1>5, <1>6, NobodyMoves
<1>8. \A g \in Fd : Stays(fds, fds', clients, clients', g)
  BY <1>1, <1>2 DEF Stays
<1>9. Reports'
  BY <1>1, <1>8, ReportsSame DEF Orderly
<1> QED
  BY <1>7, <1>9 DEF Orderly

\* Time passes for client c, which is x now.
LEMMA ClockOrderly ==
    ASSUME TypeOK, Sound(pollFds, fds), Orderly, NEW c \in Fd, NEW x \in Client,
           clients[c] # NoClient, clients' = [clients EXCEPT ![c] = x],
           UNCHANGED <<kernel, pollFds, maps, pc, i>>,
           SameHelpers(x, clients[c]), Sane(x), x.complete = clients[c].complete
    PROVE  Orderly'
<1>1. /\ UNCHANGED <<child, cgiToClient, fileToClient, listenOf, pollFds, fds, pc, i>>
      /\ clients \in [Fd -> Client \cup {NoClient}]
  BY DEF kernel, maps, TypeOK
<1>2. clients'[c] = x /\ x # NoClient /\ \A g \in Fd \ {c} : clients'[g] = clients[g]
  BY <1>1, ClientThere
<1>3. \A g \in Fd : WiredSock(fds, clients, listenOf, g)
  BY DEF Orderly, Wired
<1>4. \A g \in Fd : /\ fds'[g].kind = fds[g].kind /\ fds'[g].pid = fds[g].pid
                    /\ fds[g].kind = "listen" => "rst" \notin fds'[g].in
                    /\ clients'[g] # NoClient <=> clients[g] # NoClient
  BY <1>1, <1>2, <1>3 DEF WiredSock
<1>5. \A g \in Fd : clients[g] # NoClient =>
                    /\ SameHelpers(clients'[g], clients[g]) /\ Sane(clients'[g])
                    /\ Unbroken(clients'[g], fds'[g].in)
  BY <1>1, <1>2, <1>3 DEF WiredSock, SameHelpers, Unbroken
<1>6. \A g \in Fd :
         \/ Asked(pollFds', g) = Wanted(fds', clients', cgiToClient', g)
         \/ /\ Asked(pollFds', g) = Asked(pollFds, g)
            /\ clients[g] # NoClient => (clients'[g].complete <=> clients[g].complete)
  BY <1>1, <1>2
<1>7. /\ Wired(fds', clients', cgiToClient', fileToClient', listenOf')
      /\ Attended(fds', child', clients')
      /\ Watched(pollFds', fds', clients', cgiToClient')
  <2>1. UNCHANGED <<child, cgiToClient, fileToClient, listenOf>>
    BY <1>1
  <2> QED
    BY <2>1, <1>4, <1>5, <1>6, NobodyMoves
<1>8. \A g \in Fd : clients[g] # NoClient => (InService(clients'[g]) <=> InService(clients[g]))
  BY <1>3, <1>5 DEF WiredSock, Sane, SameHelpers, InService
<1>9. \A g \in Fd : Stays(fds, fds', clients, clients', g)
  BY <1>1, <1>2, <1>3, <1>8 DEF Stays, WiredSock
<1>10. Reports'
  BY <1>1, <1>9, ReportsSame DEF Orderly
<1> QED
  BY <1>7, <1>10 DEF Orderly

LEMMA OutsideOrderly ==
    ASSUME Cooperative, TypeOK, Sound(pollFds, fds), Orderly, Outside
    PROVE  Orderly'
<1>1. fds \in [Fd -> Desc] /\ clients \in [Fd -> Client \cup {NoClient}]
  BY DEF TypeOK
<1>2. \A g \in Fd : WiredSock(fds, clients, listenOf, g)
  BY DEF Orderly, Wired
<1>3. ASSUME NEW f \in Fd, PeerSends(f)
      PROVE  Orderly'
  <2> DEFINE x == [fds[f] EXCEPT !.in = {"data"}]
  <2>1. /\ x \in Desc /\ x.kind = fds[f].kind /\ x.pid = fds[f].pid /\ x.in = {"data"}
    BY <1>1 DEF Desc
  <2>2. /\ fds' = [fds EXCEPT ![f] = x] /\ UNCHANGED child /\ ServerUnchanged /\ fds[f].in = {}
    BY <1>3 DEF PeerSends
  <2> HIDE DEF x
  <2>3. Unbroken(clients[f], x.in)
    BY <2>1 DEF Unbroken
  <2>4. /\ fds[f].in = {} /\ x.in # {} /\ (fds[f].kind = "listen" => "rst" \notin x.in)
    BY <2>1, <2>2
  <2> QED
    BY <2>1, <2>2, <2>3, <2>4, ArrivalOrderly
<1>4. ASSUME NEW f \in Fd, NEW how \in {"fin", "rst"}, PeerLeaves(f, how)
      PROVE  Orderly'
  <2>1. /\ fds[f].kind = "sock" /\ fds[f].in = {} /\ ~ClientOf(f).complete
    BY <1>4 DEF PeerLeaves, Cooperative
  <2>2. f # NoFd
    BY SizesAssumption DEF NoFd, Fd
  <2>3. clients[f] # NoClient /\ ~clients[f].complete
    BY <1>2, <2>1, <2>2 DEF WiredSock, ClientOf
  <2> DEFINE x == [fds[f] EXCEPT !.in = {how}]
  <2>4. /\ x \in Desc /\ x.kind = fds[f].kind /\ x.pid = fds[f].pid /\ x.in = {how}
    BY <1>1 DEF Desc
  <2>5. (IF how = "rst" THEN {"rst"} ELSE fds[f].in \cup {"fin"}) = {how}
    BY <2>1
  <2>6. /\ fds' = [fds EXCEPT ![f] = x] /\ UNCHANGED child /\ ServerUnchanged
    BY <1>4, <2>5 DEF PeerLeaves
  <2> HIDE DEF x
  <2>7. Unbroken(clients[f], x.in)
    BY <2>3, <2>4 DEF Unbroken
  <2>8. fds[f].in = {} /\ x.in # {} /\ (fds[f].kind = "listen" => "rst" \notin x.in)
    BY <2>1, <2>4
  <2> QED
    BY <2>4, <2>6, <2>7, <2>8, ArrivalOrderly
<1>5. ASSUME NEW f \in Fd, ScriptWrites(f)
      PROVE  Orderly'
  <2> DEFINE x == [fds[f] EXCEPT !.held = @ + 1]
  <2>1. fds[f].held < OUTBUF /\ fds[f] \in Desc
    BY <1>1, <1>5 DEF ScriptWrites
  <2>2. x \in Desc /\ x.kind = fds[f].kind /\ x.pid = fds[f].pid /\ x.in = fds[f].in
    BY <2>1, SizesAssumption DEF Desc
  <2>3. /\ fds' = [fds EXCEPT ![f] = x] /\ UNCHANGED child /\ ServerUnchanged
    BY <1>5 DEF ScriptWrites
  <2> HIDE DEF x
  <2>4. clients[f] # NoClient => Unbroken(clients[f], x.in)
    BY <1>2, <2>2 DEF WiredSock
  <2> QED
    BY <2>2, <2>3, <2>4, ArrivalOrderly
<1>6. ASSUME NEW c \in Fd, QuietTooLong(c)
      PROVE  Orderly'
  <2> DEFINE x == [clients[c] EXCEPT !.quiet = TRUE]
  <2>1. /\ clients[c] # NoClient /\ ~clients[c].complete /\ clients[c] \in Client
        /\ clients' = [clients EXCEPT ![c] = x]
        /\ UNCHANGED <<kernel, pollFds, maps, pc, i>>
    BY <1>1, <1>6 DEF QuietTooLong, Cooperative
  <2>2. Sane(clients[c])
    BY <1>2, <2>1 DEF WiredSock
  <2>3. /\ x \in Client /\ SameHelpers(x, clients[c]) /\ x.complete = clients[c].complete
        /\ x.isCgi = clients[c].isCgi /\ x.isFile = clients[c].isFile /\ x.ready = clients[c].ready
    BY <2>1 DEF Client, SameHelpers
  <2> HIDE DEF x
  <2>4. Sane(x)
    BY <2>1, <2>2, <2>3 DEF Sane, SameHelpers, InService
  <2> QED
    BY <2>1, <2>3, <2>4, ClockOrderly
<1>7. ASSUME NEW c \in Fd, CgiTooLong(c)
      PROVE  Orderly'
  <2> DEFINE x == [clients[c] EXCEPT !.late = TRUE]
  <2>1. /\ clients[c] # NoClient /\ clients[c] \in Client
        /\ clients' = [clients EXCEPT ![c] = x]
        /\ UNCHANGED <<kernel, pollFds, maps, pc, i>>
    BY <1>1, <1>7 DEF CgiTooLong
  <2>2. Sane(clients[c])
    BY <1>2, <2>1 DEF WiredSock
  <2>3. /\ x \in Client /\ SameHelpers(x, clients[c]) /\ x.complete = clients[c].complete
        /\ x.isCgi = clients[c].isCgi /\ x.isFile = clients[c].isFile /\ x.ready = clients[c].ready
        /\ x.quiet = clients[c].quiet
    BY <2>1 DEF Client, SameHelpers
  <2> HIDE DEF x
  <2>4. Sane(x)
    BY <2>2, <2>3 DEF Sane, SameHelpers, InService
  <2> QED
    BY <2>1, <2>3, <2>4, ClockOrderly
<1>8. ASSUME NEW p \in Pid, ScriptMutes(p)
      PROVE  Orderly'
  BY <1>8 DEF ScriptMutes, Cooperative
<1>9. ASSUME NEW p \in Pid, ScriptEnds(p)
      PROVE  Orderly'
  <2>1. /\ UNCHANGED <<fds, pollFds, clients, cgiToClient, fileToClient, listenOf, pc, i>>
        /\ child[p] \in {"run", "muted"}
        /\ \A f \in Fd : ~(fds[f].kind = "pipeW" /\ fds[f].pid = p)
    BY <1>9 DEF ScriptEnds, ServerUnchanged, maps, Cooperative
  <2>2. PICK st \in Zombie : child' = [child EXCEPT ![p] = st]
    BY <1>9 DEF ScriptEnds
  <2>3. \A q \in Pid : child'[q] = IF q = p THEN st ELSE child[q]
    BY <2>2 DEF TypeOK
  <2>4. st \notin {"none", "muted"} /\ child[p] # "none"
    BY <2>1, <2>2 DEF Zombie
  <2>5. Attended(fds', child', clients')
    BY <2>1, <2>3, <2>4 DEF Orderly, Attended
  <2> QED
    BY <2>1, <2>5 DEF Orderly, Reports, Left
<1> QED
  BY <1>3, <1>4, <1>5, <1>6, <1>7, <1>8, <1>9 DEF Outside

-----------------------------------------------------------------------------
(* The inductive invariant *)

LEMMA InitOrderly ==
    ASSUME Init
    PROVE  Orderly
<1>1. Listen \subseteq Fd /\ NoFd \notin Fd
  BY SizesAssumption DEF Listen, Fd, NoFd
<1>2. /\ \A f \in Fd : /\ clients[f] = NoClient /\ cgiToClient[f] = NoFd
                       /\ fileToClient[f] = NoFd /\ listenOf[f] = NoFd
      /\ \A f \in Fd : fds[f] = IF f \in Listen THEN Open("listen") ELSE FreeDesc
      /\ \A p \in Pid : child[p] = "none"
  BY DEF Init
<1>3. /\ Open("listen").kind = "listen" /\ Open("listen").in = {} /\ FreeDesc.kind = "free"
  BY DEF Open, FreeDesc
<1>4. Wired(fds, clients, cgiToClient, fileToClient, listenOf)
  BY <1>2, <1>3 DEF Wired, WiredSock, WiredHolder, WiredPipe, WiredFile
<1>5. Attended(fds, child, clients)
  BY <1>2 DEF Attended, Zombie
<1>6. /\ DOMAIN pollFds = Listen
      /\ \A j \in Listen : /\ pollFds[j].fd = j /\ pollFds[j].events = "IN"
                           /\ pollFds[j].revents = {}
  BY DEF Init, NewEntry
<1>7. \A f \in Fd : Asked(pollFds, f) = IF f \in Listen THEN "IN" ELSE "none"
  BY <1>6 DEF Asked
<1>8. Watched(pollFds, fds, clients, cgiToClient)
  BY <1>2, <1>3, <1>7 DEF Watched, Wanted
<1>9. Reports
  <2>1. Calm(pollFds) /\ pc # "dispatch"
    BY <1>6 DEF Init, Calm
  <2>2. pollFds \in Seq(Entry) /\ i \in Nat \ {0}
    BY InitType DEF TypeOK
  <2> QED
    BY <2>1, <2>2, CalmLeft DEF Reports
<1> QED
  BY <1>4, <1>5, <1>8, <1>9 DEF Orderly

LEMMA NextOrderly ==
    ASSUME Cooperative, TypeOK, TypeOK', Sound(pollFds, fds), KillsItsOwnChild,
           Orderly, [Next]_vars
    PROVE  Orderly'
<1>1. CASE Dispatch
  <2>1. PICK j \in DOMAIN pollFds : IsNext(j) /\ (CgiStep(j) \/ FileStep(j) \/ PlainStep(j))
    BY <1>1 DEF Dispatch
  <2> QED
    BY <2>1, CgiStepOrderly, FileStepOrderly, PlainStepOrderly
<1>2. CASE Poll \/ EndPass
  BY <1>2, PassOrderly
<1>3. CASE Sweep
  BY <1>3, SweepOrderly
<1>4. CASE Outside
  BY <1>4, OutsideOrderly
<1>5. CASE UNCHANGED vars
  BY <1>5 DEF vars, maps, Orderly, Reports, Left
<1> QED
  BY <1>1, <1>2, <1>3, <1>4, <1>5 DEF Next, Loop

LEMMA SoundIsPollSetSound == PollSetSound <=> Sound(pollFds, fds)
BY DEF PollSetSound, Sound

\* When peers and scripts cooperate, every part of the state keeps what it owes
\* the others, at every step and not only between two passes: descriptors,
\* clients and maps agree, each child has a client that waits for it, each
\* descriptor is polled for what its client needs next, and what poll()
\* reported of a descriptor is still so when its entry is reached.
THEOREM StaysOrderly == ASSUME Cooperative PROVE Spec => []Orderly
<1>1. Init => Orderly
  BY InitOrderly
<1>2. TypeOK /\ TypeOK' /\ PollSetSound /\ KillsItsOwnChild /\ Orderly /\ [Next]_vars => Orderly'
  BY NextOrderly, SoundIsPollSetSound
<1> QED
  BY <1>1, <1>2, TypeCorrect, PollSetIsSound, OnlyItsOwnChild, PTL DEF Spec

-----------------------------------------------------------------------------
(* What follows *)

\* When peers and scripts cooperate, an entry of _cgiToClient or _fileToClient
\* names a client whose CGI or file is that descriptor, and _clients and
\* _clientToListenFd have exactly the open connections for their keys: no
\* descriptor number closed and opened again is ever taken for the old one.
THEOREM MapsAreTrue == ASSUME Cooperative PROVE Spec => []MapsPointHome
<1>1. ASSUME TypeOK, Orderly
      PROVE  MapsPointHome
  <2> SUFFICES ASSUME NEW f \in Fd
               PROVE  /\ InCgi(f) => LET c == ClientOf(cgiToClient[f]) IN c.isCgi /\ f \in {c.rd, c.wr}
                      /\ InFile(f) => LET c == ClientOf(fileToClient[f]) IN c.isFile /\ f \in {c.fr, c.fw}
                      /\ clients[f] # NoClient <=> fds[f].kind = "sock"
                      /\ clients[f] # NoClient <=> listenOf[f] # NoFd
    BY DEF MapsPointHome
  <2>1. /\ cgiToClient[f] \in Fd \cup {NoFd} /\ fileToClient[f] \in Fd \cup {NoFd}
        /\ f # NoFd
    BY <1>1, SizesAssumption DEF TypeOK, Fd, NoFd
  <2>2. /\ \A g \in Fd : WiredSock(fds, clients, listenOf, g)
        /\ WiredPipe(fds, clients, cgiToClient, f) /\ WiredFile(fds, clients, fileToClient, f)
    BY <1>1 DEF Orderly, Wired
  <2>3. \A g \in Fd : clients[g] # NoClient => Sane(clients[g])
    BY <2>2 DEF WiredSock
  <2>4. InCgi(f) => LET c == ClientOf(cgiToClient[f]) IN c.isCgi /\ f \in {c.rd, c.wr}
    BY <2>1, <2>2, <2>3 DEF InCgi, ClientOf, WiredPipe, Sane
  <2>5. InFile(f) => LET c == ClientOf(fileToClient[f]) IN c.isFile /\ f \in {c.fr, c.fw}
    BY <2>1, <2>2, <2>3 DEF InFile, ClientOf, WiredFile, Sane
  <2> QED
    BY <2>2, <2>4, <2>5 DEF WiredSock
<1> QED
  BY <1>1, TypeCorrect, StaysOrderly, PTL

\* When peers and scripts cooperate, a request in service has what it needs to
\* come to an end at every moment, in the middle of a pass as well: its own
\* child and stdout pipe, or its own file, polled for the event that drives it
\* and mapped back to it, its socket not watched for writing, and once its
\* response is there the socket is.
THEOREM ServiceIsWired == ASSUME Cooperative PROVE Spec => []InServiceWired
<1>1. ASSUME TypeOK, PollSetSound, Orderly
      PROVE  InServiceWired
  <2> SUFFICES ASSUME NEW c \in Fd, clients[c] # NoClient
               PROVE  LET cl == clients[c] IN
                      /\ cl.isCgi => /\ Polled(cl.rd, "IN") /\ cgiToClient[cl.rd] = c
                                     /\ fds[cl.rd].kind = "pipeR" /\ fds[cl.rd].pid = cl.pid
                                     /\ cl.wr # NoFd => Polled(cl.wr, "OUT") /\ cgiToClient[cl.wr] = c
                      /\ cl.isFile => \/ cl.fw = NoFd /\ Polled(cl.fr, "IN") /\ fileToClient[cl.fr] = c
                                      \/ cl.fr = NoFd /\ Polled(cl.fw, "OUT") /\ fileToClient[cl.fw] = c
                      /\ cl.isCgi \/ cl.isFile => Polled(c, "IN") /\ cl.complete
                      /\ cl.ready => Polled(c, "OUT") \/ pc = "dispatch"
                      /\ ~(cl.isCgi /\ cl.isFile) /\ ~(cl.isCgi /\ cl.ready) /\ ~(cl.isFile /\ cl.ready)
    BY DEF InServiceWired
  <2> DEFINE cl == clients[c]
  <2>1. pollFds \in Seq(Entry) /\ Sound(pollFds, fds)
    BY <1>1, SoundIsPollSetSound DEF TypeOK
  <2>2. ASSUME NEW f \in Fd, NEW ev \in {"IN", "OUT"}, Wanted(fds, clients, cgiToClient, f) = ev
        PROVE  Polled(f, ev)
    <3>1. Asked(pollFds, f) = ev
      BY <1>1, <2>2 DEF Orderly, Watched
    <3>2. PICK k \in DOMAIN pollFds : pollFds[k].fd = f
      BY <2>1, <2>2, <3>1, AskedSome
    <3>3. pollFds[k].events = ev
      BY <2>1, <3>1, <3>2, AskedAt
    <3> QED
      BY <3>2, <3>3 DEF Polled
  <2>3. /\ cl \in Client /\ NoFd \notin Fd
    BY <1>1, SizesAssumption DEF TypeOK, Fd, NoFd
  <2>4. /\ cl.rd \in Fd \cup {NoFd} /\ cl.wr \in Fd \cup {NoFd}
        /\ cl.fr \in Fd \cup {NoFd} /\ cl.fw \in Fd \cup {NoFd}
    BY <2>3 DEF Client
  <2>5. \A f \in Fd : /\ WiredSock(fds, clients, listenOf, f) /\ WiredHolder(clients, cgiToClient, fileToClient, f)
                      /\ WiredPipe(fds, clients, cgiToClient, f) /\ WiredFile(fds, clients, fileToClient, f)
    BY <1>1 DEF Orderly, Wired
  <2>6. Sane(cl) /\ fds[c].kind = "sock"
    BY <2>5 DEF WiredSock
  <2>7. ASSUME cl.isCgi
        PROVE  /\ Polled(cl.rd, "IN") /\ cgiToClient[cl.rd] = c
               /\ fds[cl.rd].kind = "pipeR" /\ fds[cl.rd].pid = cl.pid
               /\ cl.wr # NoFd => Polled(cl.wr, "OUT") /\ cgiToClient[cl.wr] = c
    <3>1. cl.rd \in Fd /\ cl.rd # NoFd /\ (cl.wr # NoFd => cl.wr \in Fd /\ cl.wr # cl.rd)
      BY <2>3, <2>4, <2>6, <2>7 DEF Sane
    <3>2. cgiToClient[cl.rd] = c /\ (cl.wr # NoFd => cgiToClient[cl.wr] = c)
      BY <2>5, <3>1 DEF WiredHolder
    <3>3. c # NoFd
      BY <2>3
    <3>4. /\ fds[cl.rd].kind = "pipeR" /\ fds[cl.rd].pid = cl.pid
          /\ cl.wr # NoFd => fds[cl.wr].kind = "pipeW"
      BY <2>5, <3>1, <3>2, <3>3 DEF WiredPipe
    <3>5. /\ Wanted(fds, clients, cgiToClient, cl.rd) = "IN"
          /\ cl.wr # NoFd => Wanted(fds, clients, cgiToClient, cl.wr) = "OUT"
      BY <3>2, <3>3, <3>4 DEF Wanted
    <3> QED
      BY <2>2, <3>1, <3>2, <3>4, <3>5
  <2>8. ASSUME cl.isFile
        PROVE  \/ cl.fw = NoFd /\ Polled(cl.fr, "IN") /\ fileToClient[cl.fr] = c
               \/ cl.fr = NoFd /\ Polled(cl.fw, "OUT") /\ fileToClient[cl.fw] = c
    <3>1. c # NoFd
      BY <2>3
    <3>2. CASE cl.fr # NoFd
      <4>1. cl.fr \in Fd /\ cl.fw = NoFd
        BY <2>4, <2>6, <3>2 DEF Sane
      <4>2. fileToClient[cl.fr] = c
        BY <2>5, <3>2 DEF WiredHolder
      <4>3. fds[cl.fr].kind = "fileR"
        BY <2>3, <2>5, <3>1, <4>1, <4>2 DEF WiredFile
      <4>4. Wanted(fds, clients, cgiToClient, cl.fr) = "IN"
        BY <4>3 DEF Wanted
      <4> QED
        BY <2>2, <4>1, <4>2, <4>4
    <3>3. CASE cl.fr = NoFd
      <4>1. cl.fw \in Fd /\ cl.fw # NoFd
        BY <2>3, <2>4, <2>6, <2>8, <3>3 DEF Sane
      <4>2. fileToClient[cl.fw] = c
        BY <2>5, <4>1 DEF WiredHolder
      <4>3. fds[cl.fw].kind = "fileW"
        BY <2>3, <2>5, <3>1, <3>3, <4>1, <4>2 DEF WiredFile
      <4>4. Wanted(fds, clients, cgiToClient, cl.fw) = "OUT"
        BY <4>3 DEF Wanted
      <4> QED
        BY <2>2, <3>3, <4>1, <4>2, <4>4
    <3> QED
      BY <3>2, <3>3
  <2>9. cl.isCgi \/ cl.isFile => Polled(c, "IN") /\ cl.complete
    <3>1. cl.isCgi \/ cl.isFile => Wanted(fds, clients, cgiToClient, c) = "IN"
      BY <2>6 DEF Wanted, InService
    <3> QED
      BY <2>2, <2>6, <3>1 DEF Sane, InService
  <2>10. cl.ready => Polled(c, "OUT")
    <3>1. cl.ready => Wanted(fds, clients, cgiToClient, c) = "OUT"
      BY <2>6 DEF Wanted, Sane
    <3> QED
      BY <2>2, <3>1
  <2>11. ~(cl.isCgi /\ cl.isFile) /\ ~(cl.isCgi /\ cl.ready) /\ ~(cl.isFile /\ cl.ready)
    BY <2>6 DEF Sane, InService
  <2> QED
    BY <2>7, <2>8, <2>9, <2>10, <2>11
<1> QED
  BY <1>1, TypeCorrect, PollSetIsSound, StaysOrderly, PTL

-----------------------------------------------------------------------------
(* bytesSent *)

OfTheBuffer == {"none", "some"}
Counts(cs) == \A c \in Fd : cs[c] # NoClient => cs[c].sent \in OfTheBuffer

\* Client c becomes x, and no other client changes.
Becomes(c, x) ==
    /\ c \in Fd
    /\ clients' = [clients EXCEPT ![c] = x]
    /\ x = NoClient \/ x.sent \in OfTheBuffer

LEMMA BecomesCounts ==
    ASSUME TypeOK, Counts(clients), NEW c, NEW x, Becomes(c, x)
    PROVE  Counts(clients')
<1>1. clients \in [Fd -> Client \cup {NoClient}]
  BY DEF TypeOK
<1> QED
  BY <1>1 DEF Counts, Becomes

\* What a step does to a client that leaves bytesSent with the buffer.
LEMMA SentFields ==
    ASSUME NEW c \in Client, c.sent \in OfTheBuffer, NEW what \in Answer
    PROVE  /\ Responding(c, what).sent \in OfTheBuffer
           /\ CgiDone(c, what).sent \in OfTheBuffer
           /\ \A f : FileDone(c, f).sent \in OfTheBuffer
           /\ SomeSent(c).sent \in OfTheBuffer
           /\ \A b : [NewClient EXCEPT !.complete = b].sent \in OfTheBuffer
           /\ NewClient.sent \in OfTheBuffer
           /\ \A n : [c EXCEPT !.left = n].sent = c.sent
           /\ [c EXCEPT !.wr = NoFd].sent = c.sent
           /\ \A b : [c EXCEPT !.complete = b, !.quiet = FALSE].sent = c.sent
           /\ [c EXCEPT !.quiet = TRUE].sent = c.sent
           /\ [c EXCEPT !.late = TRUE].sent = c.sent
           /\ \A g : [c EXCEPT !.isFile = TRUE, !.fr = g, !.answer = "done", !.left = CHUNKS].sent = c.sent
           /\ \A g : [c EXCEPT !.isFile = TRUE, !.fw = g, !.answer = "done", !.left = CHUNKS].sent = c.sent
           /\ \A p, r, w : [c EXCEPT !.isCgi = TRUE, !.pid = p, !.rd = r, !.wr = w,
                                     !.left = CHUNKS, !.late = FALSE].sent = c.sent
           /\ [Responding(c, what) EXCEPT !.rd = NoFd, !.wr = NoFd, !.isCgi = FALSE].sent \in OfTheBuffer
<1>1. \A d \in Client, w \in Answer : /\ Responding(d, w) \in Client
                                      /\ Responding(d, w).sent = "none"
  BY RespondingType DEF Responding, Client
<1>2. CgiDone(c, what).sent \in OfTheBuffer
  BY <1>1 DEF CgiDone, Client, OfTheBuffer
<1>3. \A f : FileDone(c, f).sent \in OfTheBuffer
  <2>1. c.answer \in Answer
    BY DEF Client
  <2> QED
    BY <1>1, <2>1 DEF FileDone, Client, OfTheBuffer
<1>4. SomeSent(c).sent \in OfTheBuffer
  BY DEF SomeSent, Client, OfTheBuffer
<1>5. [Responding(c, what) EXCEPT !.rd = NoFd, !.wr = NoFd, !.isCgi = FALSE].sent \in OfTheBuffer
  BY <1>1 DEF Client, OfTheBuffer
<1> QED
  BY <1>1, <1>2, <1>3, <1>4, <1>5 DEF Client, NewClient, OfTheBuffer

LEMMA HelperCounts ==
    ASSUME TypeOK, Sound(pollFds, fds), Orderly, Counts(clients), NEW j, IsNext(j),
           CgiStep(j) \/ FileStep(j)
    PROVE  clients' = clients \/ \E c, x : Becomes(c, x)
<1> DEFINE e == pollFds[j]
           f == e.fd
           c == cgiToClient[f]
           g == fileToClient[f]
<1>1. /\ WithLookups(e) = clients /\ Branch(e) \notin {"cgiError", "fileError"}
      /\ Branch(e) \in {"cgiWrite", "cgiRead"} => c \in Fd /\ clients[c] # NoClient
      /\ Branch(e) \in {"fileRead", "fileWrite"} => g \in Fd /\ clients[g] # NoClient
  BY DispatchedTo
<1>2. \A h \in Fd : clients[h] # NoClient =>
          clients[h] \in Client /\ clients[h].sent \in OfTheBuffer /\ clients[h].answer \in Answer
  BY DEF TypeOK, Counts, Client
<1>3. CASE CgiPipeError(j) \/ FileError(j)
  BY <1>1, <1>3 DEF CgiPipeError, FileError, Takes
<1>4. CASE CgiWriteSome(j)
  <2>1. c \in Fd /\ clients[c] # NoClient /\ clients' = [clients EXCEPT ![c].left = @ - 1]
    BY <1>1, <1>4 DEF CgiWriteSome, Takes
  <2>2. Becomes(c, [clients[c] EXCEPT !.left = clients[c].left - 1])
    BY <1>2, <2>1, SentFields DEF Becomes, Answer
  <2> QED
    BY <2>2
<1>5. CASE CgiWriteEnd(j)
  <2>1. c \in Fd /\ clients[c] # NoClient /\ clients' = [clients EXCEPT ![c].wr = NoFd]
    BY <1>1, <1>5 DEF CgiWriteEnd, Takes
  <2>2. Becomes(c, [clients[c] EXCEPT !.wr = NoFd])
    BY <1>2, <2>1, SentFields DEF Becomes, Answer
  <2> QED
    BY <2>2
<1>6. CASE CgiReadChunk(j)
  BY <1>6 DEF CgiReadChunk
<1>7. CASE CgiReadEnd(j)
  <2>1. PICK what \in Answer :
           c \in Fd /\ clients[c] # NoClient /\ clients' = [clients EXCEPT ![c] = CgiDone(@, what)]
    BY <1>1, <1>7 DEF CgiReadEnd, Takes, Answer
  <2>2. Becomes(c, CgiDone(clients[c], what))
    BY <1>2, <2>1, SentFields DEF Becomes
  <2> QED
    BY <2>2
<1>8. CASE FileSome(j)
  <2>1. g \in Fd /\ clients[g] # NoClient /\ clients' = [clients EXCEPT ![g].left = @ - 1]
    BY <1>1, <1>8 DEF FileSome, Takes
  <2>2. Becomes(g, [clients[g] EXCEPT !.left = clients[g].left - 1])
    BY <1>2, <2>1, SentFields DEF Becomes, Answer
  <2> QED
    BY <2>2
<1>9. CASE FileEnd(j)
  <2>1. g \in Fd /\ clients[g] # NoClient /\ clients' = [clients EXCEPT ![g] = FileDone(@, f)]
    BY <1>1, <1>9 DEF FileEnd, Takes
  <2>2. Becomes(g, FileDone(clients[g], f))
    BY <1>2, <2>1, SentFields DEF Becomes
  <2> QED
    BY <2>2
<1> QED
  BY <1>3, <1>4, <1>5, <1>6, <1>7, <1>8, <1>9 DEF CgiStep, FileStep

LEMMA PlainCounts ==
    ASSUME TypeOK, Sound(pollFds, fds), Orderly, Counts(clients), NEW j, IsNext(j), PlainStep(j)
    PROVE  clients' = clients \/ \E c, x : Becomes(c, x)
<1> DEFINE e == pollFds[j]
           f == e.fd
           cl == clients[f]
<1>1. f \in Fd /\ WithLookups(e) = clients
  BY NextEntry, DispatchedTo
<1>2. Branch(e) \in {"read", "write"} => cl # NoClient
  <2>1. Branch(e) \in {"read", "write"} => fds[f].kind = "sock"
    BY DispatchedTo
  <2> QED
    BY <1>1, <2>1 DEF Orderly, Wired, WiredSock
<1>3. cl # NoClient => cl \in Client /\ cl.sent \in OfTheBuffer
  BY <1>1 DEF TypeOK, Counts
<1>4. CASE PlainError(j) \/ ReadGone(j) \/ SendFails(j) \/ SendLast(j)
  <2>1. clients' = [clients EXCEPT ![f] = NoClient]
    BY <1>1, <1>4 DEF PlainError, ReadGone, SendFails, SendLast, CloseClient
  <2>2. Becomes(f, NoClient)
    BY <1>1, <2>1 DEF Becomes
  <2> QED
    BY <2>2
<1>5. CASE Accept(j)
  <2>1. PICK h \in Fd : clients' = [clients EXCEPT ![h] = NewClient]
    BY <1>1, <1>5 DEF Accept
  <2>2. Becomes(h, NewClient)
    BY <2>1 DEF Becomes, NewClient, OfTheBuffer
  <2> QED
    BY <2>2
<1>6. CASE AcceptFails(j) \/ WriteNothing(j)
  BY <1>1, <1>6 DEF AcceptFails, WriteNothing
<1>7. CASE ReadData(j)
  <2>1. PICK whole \in {TRUE, FALSE} :
           clients' = [clients EXCEPT ![f] = [cl EXCEPT !.complete = whole, !.quiet = FALSE]]
    BY <1>1, <1>2, <1>3, <1>7 DEF ReadData, Takes, Parsed, Client
  <2>2. Becomes(f, [cl EXCEPT !.complete = whole, !.quiet = FALSE])
    BY <1>1, <1>2, <1>3, <1>7, <2>1, SentFields DEF Becomes, ReadData, Takes, Answer
  <2> QED
    BY <2>2
<1>8. CASE BuildStep(j) \/ SendSome(j) \/ SendLastKeep(j)
  <2>1. cl \in Client /\ cl.sent \in OfTheBuffer
    BY <1>2, <1>3, <1>8 DEF BuildStep, BuildPage, BuildCgiFails, BuildFile, BuildUpload, BuildCgi,
                            SendSome, SendLastKeep, Builds, Sends, Takes
  <2>2. CASE BuildPage(j) \/ BuildCgiFails(j)
    <3>1. PICK what \in Answer : clients' = [clients EXCEPT ![f] = Responding(@, what)]
      BY <1>1, <2>2 DEF BuildPage, BuildCgiFails, Answer
    <3>2. Becomes(f, Responding(cl, what))
      BY <1>1, <2>1, <3>1, SentFields DEF Becomes
    <3> QED
      BY <3>2
  <2>3. CASE BuildFile(j)
    <3>1. PICK g \in Fd : clients' = [clients EXCEPT ![f] = [@ EXCEPT
             !.isFile = TRUE, !.fr = g, !.answer = "done", !.left = CHUNKS]]
      BY <1>1, <2>3 DEF BuildFile
    <3>2. Becomes(f, [cl EXCEPT !.isFile = TRUE, !.fr = g, !.answer = "done", !.left = CHUNKS])
      BY <1>1, <2>1, <3>1, SentFields DEF Becomes, Answer
    <3> QED
      BY <3>2
  <2>4. CASE BuildUpload(j)
    <3>1. PICK g \in Fd : clients' = [clients EXCEPT ![f] = [@ EXCEPT
             !.isFile = TRUE, !.fw = g, !.answer = "done", !.left = CHUNKS]]
      BY <1>1, <2>4 DEF BuildUpload
    <3>2. Becomes(f, [cl EXCEPT !.isFile = TRUE, !.fw = g, !.answer = "done", !.left = CHUNKS])
      BY <1>1, <2>1, <3>1, SentFields DEF Becomes, Answer
    <3> QED
      BY <3>2
  <2>5. CASE BuildCgi(j, TRUE) \/ BuildCgi(j, FALSE)
    <3>0. PICK body \in {TRUE, FALSE} : BuildCgi(j, body)
      BY <2>5
    <3>1. PICK v \in Fd, r \in Fd, p \in FreshPids :
             clients' = [clients EXCEPT ![f] = [@ EXCEPT
                !.isCgi = TRUE, !.pid = p, !.rd = r, !.wr = IF body THEN v ELSE NoFd,
                !.left = CHUNKS, !.late = FALSE]]
      BY <1>1, <3>0 DEF BuildCgi
    <3> DEFINE w == IF body THEN v ELSE NoFd
    <3> DEFINE x == [cl EXCEPT !.isCgi = TRUE, !.pid = p, !.rd = r, !.wr = w,
                               !.left = CHUNKS, !.late = FALSE]
    <3>2. x.sent \in OfTheBuffer
      BY <2>1, SentFields DEF Answer
    <3>3. Becomes(f, x)
      BY <1>1, <3>1, <3>2 DEF Becomes
    <3> QED
      BY <3>3
  <2>6. CASE SendSome(j)
    <3>1. clients' = [clients EXCEPT ![f] = SomeSent(@)]
      BY <1>1, <2>6 DEF SendSome
    <3>2. Becomes(f, SomeSent(cl))
      BY <1>1, <2>1, <3>1, SentFields DEF Becomes, Answer
    <3> QED
      BY <3>2
  <2>7. CASE SendLastKeep(j)
    <3>1. PICK b : clients' = [clients EXCEPT ![f] = [NewClient EXCEPT !.complete = b]]
      BY <1>1, <2>7 DEF SendLastKeep
    <3>2. Becomes(f, [NewClient EXCEPT !.complete = b])
      BY <1>1, <2>1, <3>1, SentFields DEF Becomes, Answer
    <3> QED
      BY <3>2
  <2> QED
    BY <1>8, <2>2, <2>3, <2>4, <2>5, <2>6, <2>7 DEF BuildStep
<1> QED
  BY <1>4, <1>5, <1>6, <1>7, <1>8 DEF PlainStep, SendStep

LEMMA NextCounts ==
    ASSUME TypeOK, Sound(pollFds, fds), Orderly, Counts(clients), [Next]_vars
    PROVE  Counts(clients')
<1> SUFFICES clients' = clients \/ \E c, x : Becomes(c, x)
  BY BecomesCounts
<1>1. CASE Dispatch
  BY <1>1, HelperCounts, PlainCounts DEF Dispatch
<1>2. CASE Poll \/ EndPass \/ EndIdle \/ EndCgi
  BY <1>2 DEF Poll, EndPass, EndIdle, EndCgi
<1>3. CASE \E j \in DOMAIN pollFds : CloseIdle(j)
  <2>1. PICK j \in DOMAIN pollFds : CloseIdle(j)
    BY <1>3
  <2>2. pollFds[j].fd \in Fd /\ clients' = [clients EXCEPT ![pollFds[j].fd] = NoClient]
    <3>1. pollFds[j] \in Entry
      BY DEF TypeOK
    <3> QED
      BY <2>1, <3>1 DEF CloseIdle, CloseClient, Entry
  <2>3. Becomes(pollFds[j].fd, NoClient)
    BY <2>2 DEF Becomes
  <2> QED
    BY <2>3
<1>4. CASE \E c \in Fd : KillLateCgi(c)
  <2>1. PICK c \in Fd : KillLateCgi(c)
    BY <1>4
  <2>2. clients[c] \in Client /\ clients[c].sent \in OfTheBuffer
    BY <2>1 DEF KillLateCgi, LateCgi, TypeOK, Counts
  <2>3. clients' = [clients EXCEPT ![c] = [Responding(@, "error") EXCEPT
                      !.rd = NoFd, !.wr = NoFd, !.isCgi = FALSE]]
    BY <2>1 DEF KillLateCgi
  <2>4. Becomes(c, [Responding(clients[c], "error") EXCEPT !.rd = NoFd, !.wr = NoFd, !.isCgi = FALSE])
    BY <2>2, <2>3, SentFields DEF Becomes, Answer, TypeOK
  <2> QED
    BY <2>4
<1>5. CASE \E c \in Fd : QuietTooLong(c) \/ CgiTooLong(c)
  <2>1. PICK c \in Fd : QuietTooLong(c) \/ CgiTooLong(c)
    BY <1>5
  <2>2. clients[c] \in Client /\ clients[c].sent \in OfTheBuffer
    BY <2>1 DEF QuietTooLong, CgiTooLong, TypeOK, Counts
  <2>3. PICK x \in {[clients[c] EXCEPT !.quiet = TRUE], [clients[c] EXCEPT !.late = TRUE]} :
           clients' = [clients EXCEPT ![c] = x]
    BY <2>1 DEF QuietTooLong, CgiTooLong, TypeOK
  <2>4. x.sent \in OfTheBuffer
    BY <2>2, <2>3, SentFields DEF Answer
  <2>5. Becomes(c, x)
    BY <2>3, <2>4 DEF Becomes
  <2> QED
    BY <2>5
<1>6. CASE UNCHANGED vars
  BY <1>6 DEF vars
<1>7. CASE Outside /\ ~\E c \in Fd : QuietTooLong(c) \/ CgiTooLong(c)
  BY <1>7 DEF Outside, PeerSends, PeerLeaves, ScriptWrites, ScriptMutes, ScriptEnds, ServerUnchanged
<1> QED
  BY <1>1, <1>2, <1>3, <1>4, <1>5, <1>6, <1>7 DEF Next, Loop, Sweep

\* When peers and scripts cooperate, bytesSent always counts bytes of the
\* response that is in the buffer: no response is sent from its middle, and the
\* length left to send never wraps around.  With peers that may reset, the run
\* stray shows that it does not hold.
THEOREM CountsItsOwn == ASSUME Cooperative PROVE Spec => []SentIsOfTheBuffer
<1>1. Init => Counts(clients)
  BY DEF Init, Counts
<1>2. TypeOK /\ PollSetSound /\ Orderly /\ Counts(clients) /\ [Next]_vars => Counts(clients)'
  BY NextCounts, SoundIsPollSetSound
<1>3. TypeOK /\ Counts(clients) => SentIsOfTheBuffer
  BY DEF Counts, SentIsOfTheBuffer, ClientOf, NewClient, OfTheBuffer, TypeOK
<1> QED
  BY <1>1, <1>2, <1>3, TypeCorrect, PollSetIsSound, StaysOrderly, PTL DEF Spec

=============================================================================
