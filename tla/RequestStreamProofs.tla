------------------------ MODULE RequestStreamProofs ------------------------
(***************************************************************************)
(* Proofs about RequestStream, for every stream of messages, every limit   *)
(* and every cutting of the bytes into reads.                              *)
(***************************************************************************)
EXTENDS RequestStream, TLAPS, SequenceTheorems, NaturalsInduction, WellFoundedInduction

-----------------------------------------------------------------------------
(* Places, from the last to the first *)

LEMMA LeastOf ==
    ASSUME NEW S, S \subseteq Nat, S # {}
    PROVE  Min(S) \in S /\ \A x \in S : Min(S) <= x
<1> DEFINE R == OpToRel(<, Nat)
<1>1. R = {ss \in Nat \X Nat : ss[1] < ss[2]}
  BY DEF OpToRel
<1>2. IsWellFoundedOn(R, Nat)
  BY NatLessThanWellFounded
<1> HIDE DEF R
<1>3. PICK x \in S : \A y \in S : ~(<<y, x>> \in R)
  BY <1>2, WFMin
<1>4. \A y \in Nat : y < x => <<y, x>> \in R
  BY <1>1
<1>5. ASSUME NEW y \in S PROVE x <= y
  <2>1. x \in Nat /\ y \in Nat /\ ~(y < x)
    BY <1>3, <1>4
  <2> QED
    BY <2>1
<1> HIDE <1>1
<1> QED
  BY <1>5 DEF Min

\* What holds of a number if it holds of all below holds of every number.
LEMMA UpFrom ==
    ASSUME NEW G, \A m \in Nat : (\A l \in Nat : l < m => l \in G) => m \in G
    PROVE  Nat \subseteq G
<1> DEFINE B == Nat \ G
<1> SUFFICES ASSUME B # {} PROVE FALSE
  OBVIOUS
<1>1. Min(B) \in B /\ \A x \in B : Min(B) <= x
  BY LeastOf
<1>2. PICK m : m = Min(B)
  OBVIOUS
<1>3. m \in Nat /\ m \notin G /\ \A x \in Nat : x \notin G => m <= x
  BY <1>1, <1>2
<1>4. \A l \in Nat : l < m => l \in G
  BY <1>3
<1> QED
  BY <1>3, <1>4

\* What holds of a place if it holds of all behind it holds of every place.
LEMMA DownFrom ==
    ASSUME NEW n \in Nat, NEW G,
           \A p \in 1..n : (\A q \in (p + 1)..n : q \in G) => p \in G
    PROVE  1..n \subseteq G
<1> DEFINE H == {m \in Nat : m < n => n - m \in G}
<1>1. ASSUME NEW m \in Nat, \A l \in Nat : l < m => l \in H PROVE m \in H
  <2> SUFFICES ASSUME m < n PROVE n - m \in G
    OBVIOUS
  <2>1. n - m \in 1..n
    OBVIOUS
  <2>2. ASSUME NEW q \in (n - m + 1)..n PROVE q \in G
    <3>1. n - q \in Nat /\ n - q < m /\ n - q < n /\ n - (n - q) = q
      OBVIOUS
    <3> QED
      BY <1>1, <3>1
  <2> QED
    BY <2>1, <2>2
<1>2. Nat \subseteq H
  <2> HIDE DEF H
  <2> QED
    BY <1>1, UpFrom
<1>3. ASSUME NEW p \in 1..n PROVE p \in G
  <2>1. n - p \in H /\ n - p < n /\ n - (n - p) = p
    BY <1>2
  <2> QED
    BY <2>1
<1> QED
  BY <1>3

\* A function that each place takes from a place behind it, or has outright.
Backward(w, n, goes, next, do, rest) ==
    \A p \in 1..n : w[p] = IF p \in goes THEN do[p][w[next[p]]] ELSE rest[p]

LEMMA BackwardExists ==
    ASSUME NEW n \in Nat, NEW T, NEW goes, goes \subseteq 1..n,
           NEW next \in [goes -> 1..n], \A p \in goes : next[p] > p,
           NEW do \in [goes -> [T -> T]], NEW rest \in [1..n -> T]
    PROVE  \E w \in [1..n -> T] : Backward(w, n, goes, next, do, rest)
<1> DEFINE Solves(w, m) ==
             /\ w \in [1..n -> T]
             /\ \A p \in 1..n : p > n - m =>
                  w[p] = IF p \in goes THEN do[p][w[next[p]]] ELSE rest[p]
           G == {m \in Nat : \E w : Solves(w, m)}
<1>1. ASSUME NEW m \in Nat, \A l \in Nat : l < m => l \in G PROVE m \in G
  <2>1. CASE m = 0
    <3>1. Solves(rest, 0)
      OBVIOUS
    <3> QED
      BY <2>1, <3>1
  <2>2. CASE m > 0
    <3>1. m - 1 \in Nat /\ m - 1 < m
      BY <2>2
    <3>2. PICK w : Solves(w, m - 1)
      BY <1>1, <3>1
    <3>3. CASE n - m + 1 \notin 1..n
      <4>1. \A p \in 1..n : p > n - m => p > n - (m - 1)
        BY <3>1, <3>3
      <4>2. Solves(w, m)
        BY <3>2, <4>1
      <4> QED
        BY <4>2
    <3>4. CASE n - m + 1 \in 1..n
      <4> DEFINE p0 == n - m + 1
                 x == IF p0 \in goes THEN do[p0][w[next[p0]]] ELSE rest[p0]
                 v == [w EXCEPT ![p0] = x]
      <4>1. x \in T
        BY <3>2, <3>4
      <4>2. v \in [1..n -> T]
        BY <3>2, <4>1
      <4>3. \A p \in 1..n : p # p0 => v[p] = w[p]
        BY <3>2
      <4>4. v[p0] = x
        BY <3>2, <3>4
      <4> HIDE DEF v, x
      <4>5. \A p \in 1..n : p > n - m => p = p0 \/ p > n - (m - 1)
        BY <3>1
      <4>6. p0 \in Nat /\ \A p \in 1..n : p > n - m => p >= p0
        BY <3>4
      <4>7. \A p \in goes : p > n - m => next[p] \in 1..n /\ next[p] # p0
        BY <4>6
      <4>8. ASSUME NEW p \in 1..n, p > n - m
            PROVE  v[p] = IF p \in goes THEN do[p][v[next[p]]] ELSE rest[p]
        <5>1. p \in goes => v[next[p]] = w[next[p]]
          BY <4>3, <4>7, <4>8
        <5>2. CASE p = p0
          BY <4>4, <5>1, <5>2 DEF x
        <5>3. CASE p # p0
          <6>1. p > n - (m - 1)
            BY <4>5, <4>8, <5>3
          <6>2. w[p] = IF p \in goes THEN do[p][w[next[p]]] ELSE rest[p]
            BY <3>2, <6>1
          <6> QED
            BY <4>3, <5>1, <5>3, <6>2
        <5> QED
          BY <5>2, <5>3
      <4>9. Solves(v, m)
        BY <4>2, <4>8
      <4> QED
        BY <4>9
    <3> QED
      BY <3>3, <3>4
  <2> QED
    BY <2>1, <2>2
<1>2. n \in G
  <2> HIDE DEF G
  <2>1. Nat \subseteq G
    BY <1>1, UpFrom
  <2> QED
    BY <2>1
<1>3. PICK w : Solves(w, n)
  BY <1>2
<1>4. \A p \in 1..n : p > n - n
  OBVIOUS
<1>5. Backward(w, n, goes, next, do, rest)
  BY <1>3, <1>4 DEF Backward
<1> QED
  BY <1>3, <1>5

-----------------------------------------------------------------------------
(* Messages and their units *)

LEMMA MessageFields ==
    ASSUME NEW m \in Message
    PROVE  /\ m.lines \in Nat \ {0} /\ m.trailers \in Nat
           /\ m.body \in Seq(Nat \ {0}) /\ Len(m.body) \in Nat
           /\ \A c \in 1..Len(m.body) : m.body[c] \in Nat \ {0}
  BY DEF Message

LEMMA UnitsAre ==
    ASSUME NEW m \in Message
    PROVE  /\ UnitsFrom(m) \in [1..(Len(m.body) + 1) -> Nat]
           /\ UnitsFrom(m)[Len(m.body) + 1] = 0
           /\ \A c \in 1..Len(m.body) : UnitsFrom(m)[c] = m.body[c] + UnitsFrom(m)[c + 1]
<1> DEFINE L == Len(m.body)
           N == L + 1
           goes == 1..L
           next == [c \in goes |-> c + 1]
           do == [c \in goes |-> [x \in Nat |-> m.body[c] + x]]
           rest == [c \in 1..N |-> 0]
           Is(u) == u = [c \in 1..N |-> IF c > L THEN 0 ELSE m.body[c] + u[c + 1]]
           units == CHOOSE u : Is(u)
<1>1. L \in Nat /\ \A c \in 1..L : m.body[c] \in Nat
  BY MessageFields
<1>2. /\ N \in Nat /\ goes \subseteq 1..N /\ next \in [goes -> 1..N]
      /\ \A c \in goes : next[c] > c
      /\ do \in [goes -> [Nat -> Nat]] /\ rest \in [1..N -> Nat]
  BY <1>1
<1>3. \E u \in [1..N -> Nat] : Backward(u, N, goes, next, do, rest)
  <2> HIDE DEF N, goes, next, do, rest
  <2> QED
    BY <1>2, BackwardExists
<1>4. PICK u \in [1..N -> Nat] : Backward(u, N, goes, next, do, rest)
  BY <1>3
<1>5. \A c \in 1..N : u[c] = IF c > L THEN 0 ELSE m.body[c] + u[c + 1]
  <2> TAKE c \in 1..N
  <2>1. u[c] = IF c \in goes THEN do[c][u[next[c]]] ELSE rest[c]
    BY <1>4 DEF Backward
  <2>2. CASE c > L
    BY <1>1, <2>1, <2>2
  <2>3. CASE ~(c > L)
    <3>1. c \in goes /\ c + 1 \in 1..N
      BY <1>1, <2>3
    <3>2. next[c] = c + 1 /\ u[c + 1] \in Nat
      BY <3>1
    <3>3. u[c] = do[c][u[c + 1]]
      BY <2>1, <3>1, <3>2
    <3>4. do[c][u[c + 1]] = m.body[c] + u[c + 1]
      BY <3>1, <3>2
    <3> QED
      BY <2>3, <3>3, <3>4
  <2> QED
    BY <2>2, <2>3
<1>6. Is(u)
  <2>1. u = [c \in 1..N |-> u[c]]
    OBVIOUS
  <2> QED
    BY <1>5, <2>1
<1>7. Is(units)
  BY <1>6
<1>8. UnitsFrom(m) = units
  BY DEF UnitsFrom
<1>9. ASSUME NEW v, Is(v)
      PROVE  v \in [1..N -> Nat] /\ v[N] = 0 /\ \A c \in 1..L : v[c] = m.body[c] + v[c + 1]
  <2>1. \A c \in 1..N : v[c] = IF c > L THEN 0 ELSE m.body[c] + v[c + 1]
    BY <1>9
  <2>2. v = [c \in 1..N |-> v[c]]
    <3> DEFINE e == [c \in 1..N |-> IF c > L THEN 0 ELSE m.body[c] + v[c + 1]]
    <3>1. v = e /\ e = [c \in 1..N |-> e[c]]
      BY <1>9
    <3> HIDE DEF e
    <3> QED
      BY <3>1
  <2>3. v[N] = 0 /\ \A c \in 1..L : v[c] = m.body[c] + v[c + 1]
    <3>1. N \in 1..N /\ N > L /\ \A c \in 1..L : c \in 1..N /\ ~(c > L)
      BY <1>1
    <3> HIDE DEF N, L
    <3> QED
      BY <2>1, <3>1
  <2> DEFINE G == {c \in 1..N : v[c] \in Nat}
  <2>4. ASSUME NEW c \in 1..N, \A d \in (c + 1)..N : d \in G PROVE c \in G
    <3>1. CASE c = N
      BY <2>3, <3>1
    <3>2. CASE c # N
      <4>1. c \in 1..L /\ c + 1 \in (c + 1)..N
        BY <1>1, <3>2
      <4>2. v[c + 1] \in Nat
        BY <2>4, <4>1
      <4>3. v[c] = m.body[c] + v[c + 1] /\ m.body[c] \in Nat
        BY <1>1, <2>3, <4>1
      <4>4. PICK x, y : x = m.body[c] /\ y = v[c + 1]
        OBVIOUS
      <4>5. x + y \in Nat
        BY ONLY <4>2, <4>3, <4>4
      <4>6. v[c] \in Nat
        BY ONLY <4>3, <4>4, <4>5
      <4> QED
        BY ONLY <4>6, c \in 1..N
    <3> QED
      BY <3>1, <3>2
  <2>5. 1..N \subseteq G
    <3> HIDE DEF G
    <3> QED
      BY <1>2, <2>4, DownFrom
  <2> QED
    BY <2>3, <2>5, <2>2
<1> HIDE DEF units
<1> QED
  BY <1>7, <1>8, <1>9

LEMMA UnitsFall ==
    ASSUME NEW m \in Message
    PROVE  /\ \A c, d \in 1..(Len(m.body) + 1) :
                 c <= d => UnitsFrom(m)[d] <= UnitsFrom(m)[c]
           /\ Size(m) \in Nat
           /\ Size(m) = 0 <=> m.body = <<>>
           /\ \A c \in 1..(Len(m.body) + 1) : UnitsFrom(m)[c] <= Size(m)
<1> DEFINE L == Len(m.body)
           N == L + 1
<1>1. PICK u : u = UnitsFrom(m)
  OBVIOUS
<1>2. /\ L \in Nat /\ N \in Nat /\ \A c \in 1..L : m.body[c] \in Nat \ {0}
      /\ u \in [1..N -> Nat] /\ u[N] = 0 /\ \A c \in 1..L : u[c] = m.body[c] + u[c + 1]
  BY <1>1, UnitsAre, MessageFields
<1> DEFINE G == {c \in 1..N : \A d \in c..N : u[d] <= u[c]}
<1>3. ASSUME NEW c \in 1..N, \A d \in (c + 1)..N : d \in G PROVE c \in G
  <2> SUFFICES ASSUME NEW d \in c..N PROVE u[d] <= u[c]
    OBVIOUS
  <2>1. CASE d = c
    BY <1>2, <2>1
  <2>2. CASE d # c
    <3>1. c \in 1..L /\ c + 1 \in (c + 1)..N /\ d \in (c + 1)..N
      BY <1>2, <2>2
    <3>2. u[d] <= u[c + 1]
      BY <1>3, <3>1
    <3>3. u[c + 1] <= u[c]
      BY <1>2, <3>1
    <3>4. d \in 1..N /\ c + 1 \in 1..N
      BY <1>2, <3>1
    <3>5. u[d] \in Nat /\ u[c + 1] \in Nat /\ u[c] \in Nat
      <4> HIDE DEF N, L
      <4> QED
        BY <1>2, <3>4
    <3> QED
      BY <3>2, <3>3, <3>5
  <2> QED
    BY <2>1, <2>2
<1>4. 1..N \subseteq G
  <2> HIDE DEF G, N
  <2> QED
    BY <1>2, <1>3, DownFrom
<1>5. \A c, d \in 1..N : c <= d => u[d] <= u[c]
  BY <1>4
<1>6. Size(m) = u[1] /\ 1 \in 1..N
  BY <1>1, <1>2 DEF Size
<1>7. u[1] = 0 <=> m.body = <<>>
  <2>1. CASE m.body = <<>>
    BY <1>2, <2>1
  <2>2. CASE m.body # <<>>
    <3>1. 1 \in 1..L
      BY <2>2, MessageFields
    <3>2. m.body[1] \in Nat \ {0} /\ u[1] = m.body[1] + u[2] /\ u[2] \in Nat
      BY <1>2, <3>1
    <3> QED
      BY <2>2, <3>2
  <2> QED
    BY <2>1, <2>2
<1> QED
  BY <1>1, <1>2, <1>5, <1>6, <1>7

-----------------------------------------------------------------------------
(* What is on the wire *)

LEMMA Tokens ==
    ASSUME NEW k \in Nat, NEW n \in Nat,
           NEW t \in {"line", "trailer", "end", "data", "envelope", "size", "crlf"}
    PROVE  /\ Tok(t, k, n) \in Token
           /\ Tok(t, k, n).t = t /\ Tok(t, k, n).of = k /\ Tok(t, k, n).n = n
  BY DEF Tok, Token

LEMMA SequenceOf ==
    ASSUME NEW S, NEW n \in Nat, NEW f, f \in [1..n -> S]
    PROVE  f \in Seq(S) /\ Len(f) = n
  OBVIOUS

LEMMA OneMore ==
    ASSUME NEW S, NEW s \in Seq(S), NEW e \in S
    PROVE  /\ s \o <<e>> \in Seq(S)
           /\ Len(s \o <<e>>) = Len(s) + 1
           /\ \A j \in 1..Len(s) : (s \o <<e>>)[j] = s[j]
           /\ (s \o <<e>>)[Len(s) + 1] = e
<1>1. <<e>> \in Seq(S) /\ Len(<<e>>) = 1 /\ <<e>>[1] = e /\ Len(s) \in Nat
  OBVIOUS
<1>2. PICK o : o = <<e>>
  OBVIOUS
<1>3. /\ s \o o \in Seq(S) /\ Len(s \o o) = Len(s) + Len(o)
      /\ \A i \in 1..Len(s) + Len(o) :
           (s \o o)[i] = IF i <= Len(s) THEN s[i] ELSE o[i - Len(s)]
  BY <1>1, <1>2, ConcatProperties
<1>4. Len(s) + 1 \in 1..Len(s) + 1 /\ ~(Len(s) + 1 <= Len(s)) /\ Len(s) + 1 - Len(s) = 1
  BY <1>1
<1>5. \A j \in 1..Len(s) : j \in 1..Len(s) + 1 /\ j <= Len(s)
  BY <1>1
<1> QED
  BY <1>1, <1>2, <1>3, <1>4, <1>5

LEMMA PayloadIs ==
    ASSUME NEW ms \in Seq(Message), NEW k \in 1..Len(ms)
    PROVE  Payload(ms, k) \in Seq(Token) /\ Len(Payload(ms, k)) = Size(ms[k])
<1>1. ms[k] \in Message /\ k \in Nat
  OBVIOUS
<1>2. Size(ms[k]) \in Nat
  BY <1>1, UnitsFall
<1>3. PICK n : n = Size(ms[k])
  OBVIOUS
<1>4. PICK f : f = ms[k].form
  OBVIOUS
<1>5. Payload(ms, k) = [i \in 1..n |-> Tok(IF f /\ i \in {1, n} THEN "envelope" ELSE "data", k, i)]
  BY <1>3, <1>4 DEF Payload
<1>6. \A i \in 1..n : Tok(IF f /\ i \in {1, n} THEN "envelope" ELSE "data", k, i) \in Token
  <2> TAKE i \in 1..n
  <2>1. i \in Nat
    BY <1>2, <1>3
  <2>2. CASE f /\ i \in {1, n}
    BY <1>1, <2>1, <2>2, Tokens
  <2>3. CASE ~(f /\ i \in {1, n})
    BY <1>1, <2>1, <2>3, Tokens
  <2> QED
    BY <2>2, <2>3
<1>7. Payload(ms, k) \in [1..n -> Token]
  BY <1>5, <1>6
<1> QED
  BY <1>2, <1>3, <1>7, SequenceOf

LEMMA TrailersAre ==
    ASSUME NEW ms \in Seq(Message), NEW k \in 1..Len(ms), NEW n \in {1, 2},
           n <= ms[k].trailers + 1
    PROVE  LET t == ms[k].trailers IN
           /\ TrailersOf(ms, k, n) \in Seq(Token)
           /\ Len(TrailersOf(ms, k, n)) = t + 2 - n
           /\ \A j \in 1..(t + 1 - n) : TrailersOf(ms, k, n)[j] = Tok("trailer", k, n + j - 1)
           /\ TrailersOf(ms, k, n)[t + 2 - n] = Tok("end", k, 0)
<1>1. PICK t : t = ms[k].trailers
  OBVIOUS
<1>2. t \in Nat /\ k \in Nat /\ t + 1 - n \in Nat
  <2>1. ms[k] \in Message /\ k \in Nat
    OBVIOUS
  <2> QED
    BY <1>1, <2>1, MessageFields
<1>3. PICK s : s = [j \in 1..(t + 1 - n) |-> Tok("trailer", k, n + j - 1)]
  OBVIOUS
<1>4. TrailersOf(ms, k, n) = s \o <<Tok("end", k, 0)>>
  BY <1>1, <1>3 DEF TrailersOf
<1>5. \A j \in 1..(t + 1 - n) : Tok("trailer", k, n + j - 1) \in Token
  <2> TAKE j \in 1..(t + 1 - n)
  <2>1. n + j - 1 \in Nat
    BY <1>2
  <2> QED
    BY <1>2, <2>1, Tokens
<1>6. s \in [1..(t + 1 - n) -> Token]
  BY <1>3, <1>5
<1>7. s \in Seq(Token) /\ Len(s) = t + 1 - n
  BY <1>2, <1>6, SequenceOf
<1>8. Tok("end", k, 0) \in Token
  BY <1>2, Tokens
<1>9. PICK e : e = Tok("end", k, 0)
  OBVIOUS
<1>10. /\ s \o <<e>> \in Seq(Token) /\ Len(s \o <<e>>) = Len(s) + 1
       /\ \A j \in 1..Len(s) : (s \o <<e>>)[j] = s[j]
       /\ (s \o <<e>>)[Len(s) + 1] = e
  BY <1>7, <1>8, <1>9, OneMore
<1>11. t + 1 - n + 1 = t + 2 - n
  BY <1>2
<1>12. \A j \in 1..(t + 1 - n) : s[j] = Tok("trailer", k, n + j - 1)
  BY <1>3
<1> QED
  BY <1>1, <1>4, <1>7, <1>9, <1>10, <1>11, <1>12

LEMMA HeadIs ==
    ASSUME NEW ms \in Seq(Message), NEW k \in 1..Len(ms)
    PROVE  LET l == ms[k].lines IN
           /\ HeadOf(ms, k) \in Seq(Token)
           /\ Len(HeadOf(ms, k)) = l + 1
           /\ \A j \in 1..l : HeadOf(ms, k)[j] = Tok("line", k, j)
           /\ HeadOf(ms, k)[l + 1] = Tok("end", k, 0)
<1>1. PICK l : l = ms[k].lines
  OBVIOUS
<1>2. l \in Nat /\ k \in Nat
  <2>1. ms[k] \in Message /\ k \in Nat
    OBVIOUS
  <2> QED
    BY <1>1, <2>1, MessageFields
<1>3. PICK s : s = [j \in 1..l |-> Tok("line", k, j)]
  OBVIOUS
<1>4. PICK e : e = Tok("end", k, 0)
  OBVIOUS
<1>5. HeadOf(ms, k) = s \o <<e>>
  BY <1>1, <1>3, <1>4 DEF HeadOf
<1>6. \A j \in 1..l : Tok("line", k, j) \in Token
  BY <1>2, Tokens
<1>7. s \in [1..l -> Token] /\ \A j \in 1..l : s[j] = Tok("line", k, j)
  BY <1>3, <1>6
<1>8. s \in Seq(Token) /\ Len(s) = l
  BY <1>2, <1>7, SequenceOf
<1>9. e \in Token
  BY <1>2, <1>4, Tokens
<1>10. /\ s \o <<e>> \in Seq(Token) /\ Len(s \o <<e>>) = Len(s) + 1
       /\ \A j \in 1..Len(s) : (s \o <<e>>)[j] = s[j]
       /\ (s \o <<e>>)[Len(s) + 1] = e
  BY <1>8, <1>9, OneMore
<1> QED
  BY <1>1, <1>4, <1>5, <1>7, <1>8, <1>10

LEMMA Joined ==
    ASSUME NEW S, NEW s \in Seq(S), NEW r \in Seq(S)
    PROVE  /\ s \o r \in Seq(S)
           /\ Len(s \o r) = Len(s) + Len(r)
           /\ \A i \in 1..Len(s) : (s \o r)[i] = s[i]
           /\ \A i \in 1..Len(r) : (s \o r)[Len(s) + i] = r[i]
<1>1. /\ s \o r \in Seq(S) /\ Len(s \o r) = Len(s) + Len(r)
      /\ \A i \in 1..Len(s) + Len(r) :
           (s \o r)[i] = IF i <= Len(s) THEN s[i] ELSE r[i - Len(s)]
  BY ConcatProperties
<1>2. Len(s) \in Nat /\ Len(r) \in Nat
  OBVIOUS
<1>3. \A i \in 1..Len(s) : i \in 1..Len(s) + Len(r) /\ i <= Len(s)
  BY <1>2
<1>4. \A i \in 1..Len(r) : /\ Len(s) + i \in 1..Len(s) + Len(r) /\ ~(Len(s) + i <= Len(s))
                           /\ Len(s) + i - Len(s) = i
  BY <1>2
<1> QED
  BY <1>1, <1>3, <1>4

LEMMA OneFirst ==
    ASSUME NEW S, NEW s \in Seq(S), NEW e \in S
    PROVE  /\ <<e>> \o s \in Seq(S)
           /\ Len(<<e>> \o s) = Len(s) + 1
           /\ (<<e>> \o s)[1] = e
           /\ \A j \in 1..Len(s) : (<<e>> \o s)[1 + j] = s[j]
<1>1. PICK o : o = <<e>>
  OBVIOUS
<1>2. o \in Seq(S) /\ Len(o) = 1 /\ o[1] = e /\ Len(s) \in Nat
  BY <1>1
<1>3. /\ o \o s \in Seq(S) /\ Len(o \o s) = Len(o) + Len(s)
      /\ \A i \in 1..Len(o) + Len(s) :
           (o \o s)[i] = IF i <= Len(o) THEN o[i] ELSE s[i - Len(o)]
  BY <1>2, ConcatProperties
<1>4. /\ 1 \in 1..1 + Len(s) /\ 1 + Len(s) = Len(s) + 1
      /\ \A i \in 1..Len(s) : 1 + i \in 1..1 + Len(s) /\ ~(1 + i <= 1) /\ 1 + i - 1 = i
  BY <1>2
<1> QED
  BY <1>1, <1>2, <1>3, <1>4

LEMMA Part ==
    ASSUME NEW S, NEW s \in Seq(S), NEW a \in Nat, NEW b \in Nat, a <= b, b <= Len(s)
    PROVE  /\ SubSeq(s, a + 1, b) \in Seq(S)
           /\ Len(SubSeq(s, a + 1, b)) = b - a
           /\ \A i \in 1..(b - a) : SubSeq(s, a + 1, b)[i] = s[a + i]
<1>1. Len(s) \in Nat /\ \A i \in 1..Len(s) : s[i] \in S
  OBVIOUS
<1>2. \A i \in (a + 1)..b : s[i] \in S
  BY <1>1
<1>3. a + 1 \in Int /\ b \in Int
  OBVIOUS
<1>4. /\ SubSeq(s, a + 1, b) \in Seq(S)
      /\ Len(SubSeq(s, a + 1, b)) = IF a + 1 <= b THEN b - (a + 1) + 1 ELSE 0
      /\ \A i \in 1..(b - (a + 1) + 1) : SubSeq(s, a + 1, b)[i] = s[a + 1 + i - 1]
  BY <1>2, <1>3, SubSeqProperties
<1>5. (IF a + 1 <= b THEN b - (a + 1) + 1 ELSE 0) = b - a /\ b - (a + 1) + 1 = b - a
  OBVIOUS
<1>6. \A i \in 1..(b - a) : a + 1 + i - 1 = a + i
  OBVIOUS
<1> QED
  BY <1>4, <1>5, <1>6

\* A chunk: its size line, its data, the line end behind them.
ChunkOf(ms, k, c) ==
    <<Tok("size", k, ms[k].body[c])>>
    \o SubSeq(Payload(ms, k), Size(ms[k]) - UnitsFrom(ms[k])[c] + 1,
                              Size(ms[k]) - UnitsFrom(ms[k])[c + 1])
    \o <<Tok("crlf", k, 0)>>

LEMMA ChunkIs ==
    ASSUME NEW ms \in Seq(Message), NEW k \in 1..Len(ms), NEW c \in 1..Len(ms[k].body)
    PROVE  LET n == ms[k].body[c] IN
           /\ ChunkOf(ms, k, c) \in Seq(Token)
           /\ Len(ChunkOf(ms, k, c)) = n + 2
           /\ ChunkOf(ms, k, c)[1] = Tok("size", k, n)
           /\ \A j \in 1..n : ChunkOf(ms, k, c)[1 + j]
                                = Payload(ms, k)[Size(ms[k]) - UnitsFrom(ms[k])[c] + j]
<1>1. PICK m : m = ms[k]
  OBVIOUS
<1>2. m \in Message /\ k \in Nat
  BY <1>1
<1>3. PICK u, z : u = UnitsFrom(m) /\ z = Size(m)
  OBVIOUS
<1>4. PICK n : n = m.body[c]
  OBVIOUS
<1>5. /\ Len(m.body) \in Nat /\ n \in Nat /\ z \in Nat
      /\ c \in 1..(Len(m.body) + 1) /\ c + 1 \in 1..(Len(m.body) + 1)
  <2>1. Len(m.body) \in Nat /\ n \in Nat
    BY <1>1, <1>2, <1>4, MessageFields
  <2>2. c \in 1..Len(m.body)
    BY <1>1
  <2>3. z \in Nat
    BY <1>2, <1>3, UnitsFall
  <2> QED
    BY <2>1, <2>2, <2>3
<1>6. /\ u[c] \in Nat /\ u[c + 1] \in Nat /\ u[c] <= z /\ u[c] = n + u[c + 1]
  <2>1. u \in [1..(Len(m.body) + 1) -> Nat]
    BY <1>2, <1>3, UnitsAre
  <2>2. u[c] \in Nat /\ u[c + 1] \in Nat
    BY <1>5, <2>1
  <2>3. u[c] <= z
    BY <1>2, <1>3, <1>5, UnitsFall
  <2>4. c \in 1..Len(m.body)
    BY <1>1
  <2>5. u[c] = n + u[c + 1]
    BY <1>2, <1>3, <1>4, <2>4, UnitsAre
  <2> QED
    BY <2>2, <2>3, <2>5
<1>7. PICK a, b : a = z - u[c] /\ b = z - u[c + 1]
  OBVIOUS
<1>8. a \in Nat /\ b \in Nat /\ a <= b /\ b <= z /\ b - a = n
  <2>1. PICK x, y : x = u[c] /\ y = u[c + 1]
    OBVIOUS
  <2>2. /\ x \in Nat /\ y \in Nat /\ x <= z /\ x = n + y /\ z \in Nat /\ n \in Nat
        /\ a = z - x /\ b = z - y
    BY <1>5, <1>6, <1>7, <2>1
  <2> QED
    BY ONLY <2>2
<1>9. PICK p : p = Payload(ms, k)
  OBVIOUS
<1>10. p \in Seq(Token) /\ Len(p) = z
  BY <1>1, <1>3, <1>9, PayloadIs
<1>11. PICK d : d = SubSeq(p, a + 1, b)
  OBVIOUS
<1>12. d \in Seq(Token) /\ Len(d) = n /\ \A i \in 1..n : d[i] = p[a + i]
  BY <1>8, <1>10, <1>11, Part
<1>13. PICK s, e : s = Tok("size", k, n) /\ e = Tok("crlf", k, 0)
  OBVIOUS
<1>14. s \in Token /\ e \in Token
  BY <1>2, <1>5, <1>13, Tokens
<1>15. ChunkOf(ms, k, c) = (<<s>> \o d) \o <<e>>
  BY <1>1, <1>3, <1>4, <1>7, <1>9, <1>11, <1>13 DEF ChunkOf
<1>16. PICK f : f = <<s>> \o d
  OBVIOUS
<1>17. f \in Seq(Token) /\ Len(f) = n + 1 /\ f[1] = s /\ \A i \in 1..n : f[1 + i] = d[i]
  BY <1>12, <1>14, <1>16, OneFirst
<1>18. /\ f \o <<e>> \in Seq(Token) /\ Len(f \o <<e>>) = n + 1 + 1
       /\ \A i \in 1..(n + 1) : (f \o <<e>>)[i] = f[i]
  BY <1>14, <1>17, OneMore
<1>19. n + 1 + 1 = n + 2 /\ 1 \in 1..(n + 1) /\ \A i \in 1..n : 1 + i \in 1..(n + 1)
  BY <1>5
<1>20. PICK g : g = ChunkOf(ms, k, c)
  OBVIOUS
<1>21. /\ g \in Seq(Token) /\ Len(g) = n + 2 /\ g[1] = s
       /\ \A i \in 1..n : g[1 + i] = p[a + i]
  BY <1>12, <1>15, <1>16, <1>17, <1>18, <1>19, <1>20
<1> QED
  BY <1>1, <1>3, <1>4, <1>7, <1>9, <1>13, <1>20, <1>21

\* Where chunk d begins, counted from where chunk c does.
Off(u, c, d) == u[c] - u[d] + 2 * (d - c)

\* x is what chunk c of message k begins, to the end of the message.
ChunksFrom(ms, k, c, x) ==
    LET m == ms[k]
        L == Len(m.body)
        u == UnitsFrom(m)
    IN /\ x \in Seq(Token)
       /\ Len(x) = Off(u, c, L + 1) + 2 + m.trailers
       /\ \A d \in c..L : x[Off(u, c, d) + 1].n = m.body[d]
       /\ \A d \in c..L : \A j \in 1..m.body[d] :
            x[Off(u, c, d) + 1 + j] = Payload(ms, k)[Size(m) - u[d] + j]
       /\ x[Off(u, c, L + 1) + 1].n = 0
       /\ \A j \in 1..(m.trailers + 1) :
            x[Off(u, c, L + 1) + 1 + j] = TrailersOf(ms, k, 1)[j]

LastChunk(ms, k) == <<Tok("size", k, 0)>> \o TrailersOf(ms, k, 1)

LEMMA LastChunkIs ==
    ASSUME NEW ms \in Seq(Message), NEW k \in 1..Len(ms)
    PROVE  ChunksFrom(ms, k, Len(ms[k].body) + 1, LastChunk(ms, k))
<1>1. PICK m : m = ms[k]
  OBVIOUS
<1>2. m \in Message /\ k \in Nat
  BY <1>1
<1>3. PICK L, t, u : L = Len(m.body) /\ t = m.trailers /\ u = UnitsFrom(m)
  OBVIOUS
<1>4. L \in Nat /\ t \in Nat /\ u[L + 1] = 0
  BY <1>2, <1>3, MessageFields, UnitsAre
<1>5. Off(u, L + 1, L + 1) = 0
  BY <1>4 DEF Off
<1>6. PICK s, e : s = TrailersOf(ms, k, 1) /\ e = Tok("size", k, 0)
  OBVIOUS
<1>7. s \in Seq(Token) /\ Len(s) = t + 1
  <2>1. 1 \in {1, 2} /\ 1 <= ms[k].trailers + 1 /\ ms[k].trailers + 2 - 1 = ms[k].trailers + 1
    BY <1>1, <1>3, <1>4
  <2> QED
    BY <1>1, <1>3, <1>6, <2>1, TrailersAre
<1>8. e \in Token /\ e.n = 0
  BY <1>2, <1>6, Tokens
<1>9. PICK x : x = <<e>> \o s
  OBVIOUS
<1>10. /\ x \in Seq(Token) /\ Len(x) = t + 1 + 1 /\ x[1] = e
       /\ \A j \in 1..(t + 1) : x[1 + j] = s[j]
  BY <1>7, <1>8, <1>9, OneFirst
<1>11. 0 + 1 = 1 /\ t + 1 + 1 = 0 + 2 + t /\ \A d : d \notin (L + 1)..L
  BY <1>4
<1>12. LastChunk(ms, k) = x
  BY <1>6, <1>9 DEF LastChunk
<1> QED
  BY <1>1, <1>3, <1>5, <1>6, <1>8, <1>10, <1>11, <1>12 DEF ChunksFrom

LEMMA ChunkBefore ==
    ASSUME NEW ms \in Seq(Message), NEW k \in 1..Len(ms),
           NEW c \in 1..Len(ms[k].body), NEW y, ChunksFrom(ms, k, c + 1, y)
    PROVE  ChunksFrom(ms, k, c, ChunkOf(ms, k, c) \o y)
<1>1. PICK m : m = ms[k]
  OBVIOUS
<1>2. m \in Message /\ k \in Nat
  BY <1>1
<1>3. PICK L, t, u : L = Len(m.body) /\ t = m.trailers /\ u = UnitsFrom(m)
  OBVIOUS
<1>4. PICK n, z, p : n = m.body[c] /\ z = Size(m) /\ p = Payload(ms, k)
  OBVIOUS
<1>5. /\ L \in Nat /\ t \in Nat /\ n \in Nat /\ u \in [1..(L + 1) -> Nat]
      /\ c \in 1..L /\ u[c] = n + u[c + 1]
  <2>1. L \in Nat /\ t \in Nat /\ c \in 1..L
    BY <1>1, <1>2, <1>3, MessageFields
  <2>2. n \in Nat
    BY <1>2, <1>3, <1>4, <2>1, MessageFields
  <2>3. u \in [1..(L + 1) -> Nat] /\ \A d \in 1..L : u[d] = m.body[d] + u[d + 1]
    BY <1>2, <1>3, UnitsAre
  <2> QED
    BY <1>4, <2>1, <2>2, <2>3
<1>6. PICK g : g = ChunkOf(ms, k, c)
  OBVIOUS
<1>7. /\ g \in Seq(Token) /\ Len(g) = n + 2 /\ g[1].n = n
      /\ \A j \in 1..n : g[1 + j] = p[z - u[c] + j]
  <2>1. /\ g \in Seq(Token) /\ Len(g) = n + 2 /\ g[1] = Tok("size", k, n)
        /\ \A j \in 1..n : g[1 + j] = p[z - u[c] + j]
    BY <1>1, <1>3, <1>4, <1>6, ChunkIs
  <2>2. Tok("size", k, n).n = n
    BY <1>2, <1>5, Tokens
  <2> QED
    BY <2>1, <2>2
<1>8. /\ y \in Seq(Token)
      /\ Len(y) = Off(u, c + 1, L + 1) + 2 + t
      /\ \A d \in (c + 1)..L : y[Off(u, c + 1, d) + 1].n = m.body[d]
      /\ \A d \in (c + 1)..L : \A j \in 1..m.body[d] :
           y[Off(u, c + 1, d) + 1 + j] = p[z - u[d] + j]
      /\ y[Off(u, c + 1, L + 1) + 1].n = 0
      /\ \A j \in 1..(t + 1) : y[Off(u, c + 1, L + 1) + 1 + j] = TrailersOf(ms, k, 1)[j]
  BY <1>1, <1>3, <1>4 DEF ChunksFrom
<1>9. PICK x : x = g \o y
  OBVIOUS
<1>10. /\ x \in Seq(Token) /\ Len(x) = n + 2 + Len(y)
       /\ \A i \in 1..(n + 2) : x[i] = g[i]
       /\ \A i \in 1..Len(y) : x[n + 2 + i] = y[i]
  <2>1. g \in Seq(Token) /\ y \in Seq(Token)
    BY <1>7, <1>8
  <2>2. /\ x \in Seq(Token) /\ Len(x) = Len(g) + Len(y)
        /\ \A i \in 1..Len(g) : x[i] = g[i]
        /\ \A i \in 1..Len(y) : x[Len(g) + i] = y[i]
    BY <1>9, <2>1, Joined
  <2>3. Len(g) = n + 2
    BY <1>7
  <2> QED
    BY <2>2, <2>3
\* Behind the chunk, everything lies as far behind its beginning as it did.
<1>11. \A d \in (c + 1)..(L + 1) :
          Off(u, c + 1, d) \in Nat /\ Off(u, c, d) = n + 2 + Off(u, c + 1, d)
  <2> TAKE d \in (c + 1)..(L + 1)
  <2>1. c + 1 \in 1..(L + 1) /\ d \in 1..(L + 1) /\ c + 1 <= d /\ c \in 1..(L + 1)
    BY <1>5
  <2>2. u[d] <= u[c + 1]
    BY <1>2, <1>3, <2>1, UnitsFall
  <2>3. PICK a, b, e : a = u[c] /\ b = u[c + 1] /\ e = u[d]
    OBVIOUS
  <2>4. a \in Nat /\ b \in Nat /\ e \in Nat
    BY <1>5, <2>1, <2>3
  <2>5. a = n + b /\ e <= b /\ n \in Nat /\ c \in Nat /\ d \in Nat /\ c + 1 <= d
    BY <1>5, <2>1, <2>2, <2>3
  <2>6. Off(u, c, d) = a - e + 2 * (d - c) /\ Off(u, c + 1, d) = b - e + 2 * (d - (c + 1))
    BY <2>3 DEF Off
  <2>7. b - e + 2 * (d - (c + 1)) \in Nat
    BY ONLY <2>4, <2>5
  <2>8. a - e + 2 * (d - c) = n + 2 + (b - e + 2 * (d - (c + 1)))
    BY ONLY <2>4, <2>5
  <2> QED
    BY <2>6, <2>7, <2>8
<1>12. Off(u, c, c) = 0
  <2>1. u[c] \in Nat /\ c \in Nat
    BY <1>5
  <2>2. \A a \in Nat : a - a + 2 * (c - c) = 0
    BY <2>1
  <2> QED
    BY <2>1, <2>2 DEF Off
<1>13. PICK f : f = [d \in (c + 1)..(L + 1) |-> Off(u, c + 1, d)]
  OBVIOUS
<1>14. \A d \in (c + 1)..(L + 1) : f[d] = Off(u, c + 1, d) /\ f[d] \in Nat /\ f[d] <= f[L + 1]
  <2> TAKE d \in (c + 1)..(L + 1)
  <2>1. d \in 1..(L + 1) /\ L + 1 \in 1..(L + 1) /\ d <= L + 1 /\ L + 1 \in (c + 1)..(L + 1)
    BY <1>5
  <2>2. u[L + 1] <= u[d] /\ u[L + 1] \in Nat /\ u[d] \in Nat /\ u[c + 1] \in Nat
    <3>1. u[L + 1] <= u[d]
      BY <1>2, <1>3, <2>1, UnitsFall
    <3>2. c + 1 \in 1..(L + 1)
      BY <1>5
    <3> QED
      BY <1>5, <2>1, <3>1, <3>2
  <2>3. PICK a, b, e : a = u[d] /\ b = u[c + 1] /\ e = u[L + 1]
    OBVIOUS
  <2>4. e <= a /\ a \in Nat /\ b \in Nat /\ e \in Nat /\ d <= L + 1 /\ d \in Nat /\ L \in Nat /\ c \in Nat
    BY <1>5, <2>1, <2>2, <2>3
  <2>5. b - a + 2 * (d - (c + 1)) <= b - e + 2 * (L + 1 - (c + 1))
    BY ONLY <2>4
  <2>6. f[d] = b - a + 2 * (d - (c + 1)) /\ f[L + 1] = b - e + 2 * (L + 1 - (c + 1))
    <3>1. f[d] = Off(u, c + 1, d)
      BY <1>13
    <3>2. f[L + 1] = Off(u, c + 1, L + 1)
      BY <1>13, <2>1
    <3>3. Off(u, c + 1, d) = b - a + 2 * (d - (c + 1))
      BY <2>3 DEF Off
    <3>4. Off(u, c + 1, L + 1) = b - e + 2 * (L + 1 - (c + 1))
      BY <2>3, <2>4 DEF Off
    <3> QED
      BY <3>1, <3>2, <3>3, <3>4
  <2>7. f[d] = Off(u, c + 1, d)
    BY <1>13
  <2> QED
    BY <1>11, <2>5, <2>6, <2>7
<1>15. \A d \in (c + 1)..L : m.body[d] \in Nat /\ f[d] + m.body[d] + 2 = f[d + 1]
  <2> TAKE d \in (c + 1)..L
  <2>1. d \in 1..L /\ d \in (c + 1)..(L + 1) /\ d + 1 \in (c + 1)..(L + 1)
        /\ d \in 1..(L + 1) /\ d + 1 \in 1..(L + 1) /\ c + 1 \in 1..(L + 1)
    BY <1>5
  <2>2. m.body[d] \in Nat
    BY <1>2, <1>3, <2>1, MessageFields
  <2>3. u[d] = m.body[d] + u[d + 1]
    BY <1>2, <1>3, <2>1, UnitsAre
  <2>4. PICK a, b, e, w : a = u[d] /\ b = u[c + 1] /\ e = u[d + 1] /\ w = m.body[d]
    OBVIOUS
  <2>5. /\ a \in Nat /\ b \in Nat /\ e \in Nat /\ w \in Nat /\ a = w + e
        /\ c \in Nat /\ d \in Nat
    BY <1>5, <2>1, <2>2, <2>3, <2>4
  <2>6. b - a + 2 * (d - (c + 1)) + w + 2 = b - e + 2 * (d + 1 - (c + 1))
    BY ONLY <2>5
  <2>7. f[d] = b - a + 2 * (d - (c + 1)) /\ f[d + 1] = b - e + 2 * (d + 1 - (c + 1))
    <3>1. f[d] = Off(u, c + 1, d) /\ f[d + 1] = Off(u, c + 1, d + 1)
      BY <1>14, <2>1
    <3> QED
      BY <2>4, <3>1 DEF Off
  <2> QED
    BY <2>2, <2>4, <2>6, <2>7
\* The same, with what lies in front.
<1>16. \A d \in (c + 1)..(L + 1) : Off(u, c, d) = n + 2 + f[d]
  BY <1>11, <1>14
<1>17. /\ L + 1 \in (c + 1)..(L + 1) /\ \A d \in (c + 1)..L : d \in (c + 1)..(L + 1)
       /\ \A d \in c..L : d = c \/ d \in (c + 1)..L
  BY <1>5
<1>18. PICK q : q = f[L + 1]
  OBVIOUS
<1>19. q \in Nat /\ Len(y) = q + 2 + t /\ Off(u, c, L + 1) = n + 2 + q
  BY <1>8, <1>14, <1>16, <1>17, <1>18
<1>20. Len(x) = Off(u, c, L + 1) + 2 + t
  BY <1>5, <1>10, <1>19
<1>21. ASSUME NEW d \in (c + 1)..L
       PROVE  /\ x[Off(u, c, d) + 1].n = m.body[d]
              /\ \A j \in 1..m.body[d] : x[Off(u, c, d) + 1 + j] = p[z - u[d] + j]
  <2>1. PICK i, w : i = f[d] /\ w = m.body[d]
    OBVIOUS
  <2>2. i \in Nat /\ w \in Nat /\ i + w + 2 <= q /\ Off(u, c, d) = n + 2 + i
    <3>1. d + 1 \in (c + 1)..(L + 1)
      BY <1>5
    <3> QED
      BY <1>14, <1>15, <1>16, <1>17, <1>18, <2>1, <3>1
  <2>3. /\ i + 1 \in 1..Len(y) /\ \A j \in 1..w : i + 1 + j \in 1..Len(y)
        /\ n + 2 + i + 1 = n + 2 + (i + 1)
        /\ \A j \in 1..w : n + 2 + i + 1 + j = n + 2 + (i + 1 + j)
    BY <1>5, <1>19, <2>2
  <2>4. y[i + 1].n = w /\ \A j \in 1..w : y[i + 1 + j] = p[z - u[d] + j]
    BY <1>8, <1>14, <1>17, <2>1
  <2>5. x[n + 2 + (i + 1)] = y[i + 1] /\ \A j \in 1..w : x[n + 2 + (i + 1 + j)] = y[i + 1 + j]
    BY <1>10, <2>3
  <2>6. x[n + 2 + i + 1].n = w
    BY <2>3, <2>4, <2>5
  <2>7. \A j \in 1..w : x[n + 2 + i + 1 + j] = p[z - u[d] + j]
    BY <2>3, <2>4, <2>5
  <2> QED
    BY <2>1, <2>2, <2>6, <2>7
<1>22. x[Off(u, c, c) + 1].n = n
  <2>1. 0 + 1 = 1 /\ 1 \in 1..(n + 2)
    BY <1>5
  <2> QED
    BY <1>7, <1>10, <1>12, <2>1
<1>23. \A j \in 1..n : x[Off(u, c, c) + 1 + j] = p[z - u[c] + j]
  <2>1. 0 + 1 = 1 /\ \A j \in 1..n : 1 + j \in 1..(n + 2)
    BY <1>5
  <2> QED
    BY <1>7, <1>10, <1>12, <2>1
<1>24. x[Off(u, c, L + 1) + 1].n = 0
  <2>1. q + 1 \in 1..Len(y) /\ n + 2 + q + 1 = n + 2 + (q + 1)
    BY <1>5, <1>19
  <2>2. y[q + 1].n = 0
    BY <1>8, <1>14, <1>17, <1>18
  <2> QED
    BY <1>10, <1>19, <2>1, <2>2
<1>25. \A j \in 1..(t + 1) : x[Off(u, c, L + 1) + 1 + j] = TrailersOf(ms, k, 1)[j]
  <2> TAKE j \in 1..(t + 1)
  <2>1. q + 1 + j \in 1..Len(y) /\ n + 2 + q + 1 + j = n + 2 + (q + 1 + j)
    BY <1>5, <1>19
  <2>2. y[q + 1 + j] = TrailersOf(ms, k, 1)[j]
    BY <1>8, <1>14, <1>17, <1>18
  <2> QED
    BY <1>10, <1>19, <2>1, <2>2
<1>26. \A d \in c..L : x[Off(u, c, d) + 1].n = m.body[d]
  BY <1>4, <1>17, <1>21, <1>22
<1>27. \A d \in c..L : \A j \in 1..m.body[d] : x[Off(u, c, d) + 1 + j] = p[z - u[d] + j]
  BY <1>4, <1>17, <1>21, <1>23
<1> QED
  BY <1>1, <1>3, <1>4, <1>6, <1>9, <1>10, <1>20, <1>24, <1>25, <1>26, <1>27 DEF ChunksFrom

LEMMA ChunksAre ==
    ASSUME NEW ms \in Seq(Message), NEW k \in 1..Len(ms)
    PROVE  ChunksFrom(ms, k, 1, ChunksOf(ms, k))
<1> DEFINE L == Len(ms[k].body)
           N == L + 1
           T == Seq(Token)
           goes == 1..L
           next == [c \in goes |-> c + 1]
           do == [c \in goes |-> [x \in T |-> ChunkOf(ms, k, c) \o x]]
           rest == [c \in 1..N |-> LastChunk(ms, k)]
           Is(w) == w = [c \in 1..N |-> IF c > L THEN LastChunk(ms, k)
                                        ELSE ChunkOf(ms, k, c) \o w[c + 1]]
           chunks == CHOOSE w : Is(w)
<1>1. L \in Nat
  <2>1. ms[k] \in Message
    OBVIOUS
  <2> QED
    BY <2>1, MessageFields
<1>2. LastChunk(ms, k) \in T
  BY LastChunkIs DEF ChunksFrom
<1>3. \A c \in 1..L : \A x \in T : ChunkOf(ms, k, c) \o x \in T
  <2> TAKE c \in 1..L
  <2> TAKE x \in T
  <2>1. ChunkOf(ms, k, c) \in T
    BY ChunkIs
  <2> QED
    BY <2>1, ConcatProperties
<1>4. N \in Nat /\ goes \subseteq 1..N /\ next \in [goes -> 1..N] /\ \A c \in goes : next[c] > c
  BY <1>1
<1>5. do \in [goes -> [T -> T]] /\ rest \in [1..N -> T]
  <2> HIDE DEF N, T, L
  <2> QED
    BY <1>2, <1>3
<1>6. \E w \in [1..N -> T] : Backward(w, N, goes, next, do, rest)
  <2> HIDE DEF N, T, goes, next, do, rest
  <2> QED
    BY <1>4, <1>5, BackwardExists
<1>7. PICK w \in [1..N -> T] : Backward(w, N, goes, next, do, rest)
  BY <1>6
<1>8. \A c \in 1..N : w[c] = IF c > L THEN LastChunk(ms, k) ELSE ChunkOf(ms, k, c) \o w[c + 1]
  <2> TAKE c \in 1..N
  <2>1. w[c] = IF c \in goes THEN do[c][w[next[c]]] ELSE rest[c]
    BY <1>7 DEF Backward
  <2>2. CASE c > L
    <3>1. c \notin goes /\ rest[c] = LastChunk(ms, k)
      BY <1>1, <2>2
    <3> QED
      BY <2>1, <2>2, <3>1
  <2>3. CASE ~(c > L)
    <3>1. c \in goes /\ c + 1 \in 1..N
      BY <1>1, <2>3
    <3>2. next[c] = c + 1 /\ w[c + 1] \in T
      <4> HIDE DEF N, T
      <4> QED
        BY <1>7, <3>1
    <3>3. do[c][w[c + 1]] = ChunkOf(ms, k, c) \o w[c + 1]
      <4> HIDE DEF T
      <4> QED
        BY <3>1, <3>2
    <3> QED
      BY <2>1, <2>3, <3>1, <3>2, <3>3
  <2> QED
    BY <2>2, <2>3
<1>9. Is(w)
  <2>1. w = [c \in 1..N |-> w[c]]
    OBVIOUS
  <2> QED
    BY <1>8, <2>1
<1>10. Is(chunks)
  BY <1>9
<1>11. ChunksOf(ms, k) = chunks[1]
  BY DEF ChunksOf, ChunkOf, LastChunk
<1>12. ASSUME NEW v, Is(v) PROVE ChunksFrom(ms, k, 1, v[1])
  <2>1. \A c \in 1..N : v[c] = IF c > L THEN LastChunk(ms, k) ELSE ChunkOf(ms, k, c) \o v[c + 1]
    BY <1>12
  <2> DEFINE G == {c \in 1..N : ChunksFrom(ms, k, c, v[c])}
  <2>2. ASSUME NEW c \in 1..N, \A d \in (c + 1)..N : d \in G PROVE c \in G
    <3>1. CASE c = N
      <4>1. c > L /\ c = L + 1
        BY <1>1, <3>1
      <4>2. v[c] = LastChunk(ms, k)
        BY <2>1, <4>1
      <4> QED
        BY <4>1, <4>2, LastChunkIs
    <3>2. CASE c # N
      <4>1. c \in 1..L /\ c + 1 \in (c + 1)..N /\ ~(c > L)
        BY <1>1, <3>2
      <4>2. v[c] = ChunkOf(ms, k, c) \o v[c + 1]
        BY <2>1, <4>1
      <4>3. ChunksFrom(ms, k, c + 1, v[c + 1])
        BY <2>2, <4>1
      <4> QED
        BY <4>1, <4>2, <4>3, ChunkBefore
    <3> QED
      BY <3>1, <3>2
  <2>3. 1..N \subseteq G
    <3> HIDE DEF G, N
    <3> QED
      BY <1>4, <2>2, DownFrom
  <2>4. 1 \in 1..N
    BY <1>1
  <2> QED
    BY <2>3, <2>4
<1> HIDE DEF chunks, Is
<1> QED
  BY <1>10, <1>11, <1>12

LEMMA StreamOf ==
    ASSUME NEW ms \in Streams
    PROVE  /\ ms \in Seq(Message) /\ Len(ms) \in Nat /\ DOMAIN ms = 1..Len(ms)
           /\ \A k \in 1..Len(ms) :
                /\ ms[k] \in Message
                /\ ms[k].framing \in {"none", "length", "chunked"}
                /\ ms[k].method \in {"GET", "POST"}
                /\ ms[k].framing = "none" => ms[k].body = <<>>
                /\ ms[k].trailers > 0 => ms[k].framing = "chunked"
                /\ ms[k].method = "GET" => ms[k].framing = "none"
<1>1. ms \in Seq(Message) /\ \A k \in DOMAIN ms :
        /\ ms[k].framing = "none" => ms[k].body = <<>>
        /\ ms[k].trailers > 0 => ms[k].framing = "chunked"
        /\ ms[k].method = "GET" => ms[k].framing = "none"
  BY StreamsAssumption
<1>2. Len(ms) \in Nat /\ DOMAIN ms = 1..Len(ms) /\ \A k \in 1..Len(ms) : ms[k] \in Message
  BY <1>1
<1>3. \A m \in Message : m.framing \in {"none", "length", "chunked"} /\ m.method \in {"GET", "POST"}
  BY DEF Message
<1> QED
  BY <1>1, <1>2, <1>3

LEMMA WireIs ==
    ASSUME NEW ms \in Streams, NEW k \in 1..Len(ms)
    PROVE  LET m == ms[k]
               w == Wire[ms][k]
               h == m.lines + 1
           IN /\ w \in Seq(Token)
              /\ \A j \in 1..m.lines : w[j] = Tok("line", k, j)
              /\ w[h] = Tok("end", k, 0)
              /\ m.framing = "none" => Len(w) = h
              /\ m.framing = "length" =>
                   /\ Len(w) = h + Size(m)
                   /\ \A j \in 1..Size(m) : w[h + j] = Payload(ms, k)[j]
              /\ m.framing = "chunked" =>
                   /\ Len(w) = h + Len(ChunksOf(ms, k))
                   /\ \A j \in 1..Len(ChunksOf(ms, k)) : w[h + j] = ChunksOf(ms, k)[j]
<1>1. ms \in Seq(Message) /\ k \in DOMAIN ms /\ k \in 1..Len(ms)
  BY StreamOf
<1>2. PICK m, l : m = ms[k] /\ l = m.lines
  OBVIOUS
<1>3. m \in Message /\ l \in Nat
  BY <1>2, StreamOf, MessageFields
<1>4. PICK w, g : w = Wire[ms][k] /\ g = HeadOf(ms, k)
  OBVIOUS
<1>5. w = Encode(ms, k)
  BY <1>1, <1>4 DEF Wire
<1>6. /\ g \in Seq(Token) /\ Len(g) = l + 1 /\ g[l + 1] = Tok("end", k, 0)
      /\ \A j \in 1..l : g[j] = Tok("line", k, j)
  BY <1>1, <1>2, <1>4, HeadIs
<1>7. l + 1 \in 1..(l + 1) /\ \A j \in 1..l : j \in 1..(l + 1)
  BY <1>3
<1>8. ASSUME NEW b \in Seq(Token), w = g \o b
      PROVE  /\ w \in Seq(Token) /\ Len(w) = l + 1 + Len(b)
             /\ \A j \in 1..l : w[j] = Tok("line", k, j)
             /\ w[l + 1] = Tok("end", k, 0)
             /\ \A j \in 1..Len(b) : w[l + 1 + j] = b[j]
  <2>1. g \in Seq(Token)
    BY <1>6
  <2>2. /\ w \in Seq(Token) /\ Len(w) = Len(g) + Len(b)
        /\ \A i \in 1..Len(g) : w[i] = g[i]
        /\ \A i \in 1..Len(b) : w[Len(g) + i] = b[i]
    BY <1>8, <2>1, Joined
  <2> QED
    BY <1>6, <1>7, <2>2
<1>9. CASE m.framing = "none"
  <2>1. w = g \o <<>>
    BY <1>2, <1>4, <1>5, <1>9 DEF Encode
  <2>2. <<>> \in Seq(Token) /\ Len(<<>>) = 0 /\ l + 1 + 0 = l + 1
    BY <1>3
  <2>3. PICK b : b = <<>>
    OBVIOUS
  <2>4. /\ w \in Seq(Token) /\ Len(w) = l + 1 + Len(b)
        /\ \A j \in 1..l : w[j] = Tok("line", k, j)
        /\ w[l + 1] = Tok("end", k, 0)
    BY <1>8, <2>1, <2>2, <2>3
  <2> QED
    BY <1>2, <1>4, <1>9, <2>2, <2>3, <2>4
<1>10. CASE m.framing = "length"
  <2>1. PICK b : b = Payload(ms, k)
    OBVIOUS
  <2>2. w = g \o b
    BY <1>2, <1>4, <1>5, <1>10, <2>1 DEF Encode
  <2>3. b \in Seq(Token) /\ Len(b) = Size(m)
    BY <1>1, <1>2, <2>1, PayloadIs
  <2>4. /\ w \in Seq(Token) /\ Len(w) = l + 1 + Len(b)
        /\ \A j \in 1..l : w[j] = Tok("line", k, j)
        /\ w[l + 1] = Tok("end", k, 0)
        /\ \A j \in 1..Len(b) : w[l + 1 + j] = b[j]
    BY <1>8, <2>2, <2>3
  <2> QED
    BY <1>2, <1>4, <1>10, <2>1, <2>3, <2>4
<1>11. CASE m.framing = "chunked"
  <2>1. PICK b : b = ChunksOf(ms, k)
    OBVIOUS
  <2>2. w = g \o b
    BY <1>2, <1>4, <1>5, <1>11, <2>1 DEF Encode
  <2>3. b \in Seq(Token)
    BY <1>1, <2>1, ChunksAre DEF ChunksFrom
  <2>4. /\ w \in Seq(Token) /\ Len(w) = l + 1 + Len(b)
        /\ \A j \in 1..l : w[j] = Tok("line", k, j)
        /\ w[l + 1] = Tok("end", k, 0)
        /\ \A j \in 1..Len(b) : w[l + 1 + j] = b[j]
    BY <1>8, <2>2, <2>3
  <2> QED
    BY <1>2, <1>4, <1>11, <2>1, <2>4
<1> QED
  BY <1>2, <1>9, <1>10, <1>11, StreamOf

LEMMA FromIs ==
    ASSUME NEW ms \in Streams
    PROVE  /\ From[ms] \in [1..(Len(ms) + 1) -> Seq(Token)]
           /\ From[ms][Len(ms) + 1] = <<>>
           /\ \A k \in 1..Len(ms) : From[ms][k] = Wire[ms][k] \o From[ms][k + 1]
<1> DEFINE L == Len(ms)
           N == L + 1
           T == Seq(Token)
           goes == 1..L
           next == [k \in goes |-> k + 1]
           do == [k \in goes |-> [x \in T |-> Wire[ms][k] \o x]]
           rest == [k \in 1..N |-> <<>>]
           Is(w) == w = [k \in 1..N |-> IF k > L THEN <<>> ELSE Wire[ms][k] \o w[k + 1]]
           from == CHOOSE w : Is(w)
<1>1. L \in Nat
  BY StreamOf
<1>2. <<>> \in T
  OBVIOUS
<1>3. \A k \in 1..L : \A x \in T : Wire[ms][k] \o x \in T
  <2> TAKE k \in 1..L
  <2> TAKE x \in T
  <2>1. Wire[ms][k] \in T
    BY WireIs
  <2> QED
    BY <2>1, ConcatProperties
<1>4. N \in Nat /\ goes \subseteq 1..N /\ next \in [goes -> 1..N] /\ \A k \in goes : next[k] > k
  BY <1>1
<1>5. do \in [goes -> [T -> T]] /\ rest \in [1..N -> T]
  <2> HIDE DEF N, T, L
  <2> QED
    BY <1>2, <1>3
<1>6. \E w \in [1..N -> T] : Backward(w, N, goes, next, do, rest)
  <2> HIDE DEF N, T, goes, next, do, rest
  <2> QED
    BY <1>4, <1>5, BackwardExists
<1>7. PICK w \in [1..N -> T] : Backward(w, N, goes, next, do, rest)
  BY <1>6
<1>8. \A k \in 1..N : w[k] = IF k > L THEN <<>> ELSE Wire[ms][k] \o w[k + 1]
  <2> TAKE k \in 1..N
  <2>1. w[k] = IF k \in goes THEN do[k][w[next[k]]] ELSE rest[k]
    BY <1>7 DEF Backward
  <2>2. CASE k > L
    <3>1. k \notin goes /\ rest[k] = <<>>
      BY <1>1, <2>2
    <3> QED
      BY <2>1, <2>2, <3>1
  <2>3. CASE ~(k > L)
    <3>1. k \in goes /\ k + 1 \in 1..N
      BY <1>1, <2>3
    <3>2. next[k] = k + 1 /\ w[k + 1] \in T
      <4> HIDE DEF N, T
      <4> QED
        BY <1>7, <3>1
    <3>3. do[k][w[k + 1]] = Wire[ms][k] \o w[k + 1]
      <4> HIDE DEF T
      <4> QED
        BY <3>1, <3>2
    <3> QED
      BY <2>1, <2>3, <3>1, <3>2, <3>3
  <2> QED
    BY <2>2, <2>3
<1>9. Is(w)
  <2>1. w = [k \in 1..N |-> w[k]]
    OBVIOUS
  <2> QED
    BY <1>8, <2>1
<1>10. Is(from)
  BY <1>9
<1>11. From[ms] = from
  BY DEF From
<1>12. ASSUME NEW v, Is(v)
       PROVE  /\ v \in [1..N -> T] /\ v[N] = <<>>
              /\ \A k \in 1..L : v[k] = Wire[ms][k] \o v[k + 1]
  <2>1. \A k \in 1..N : v[k] = IF k > L THEN <<>> ELSE Wire[ms][k] \o v[k + 1]
    BY <1>12
  <2>2. v[N] = <<>> /\ \A k \in 1..L : v[k] = Wire[ms][k] \o v[k + 1]
    <3>1. N \in 1..N /\ N > L /\ \A k \in 1..L : k \in 1..N /\ ~(k > L)
      BY <1>1
    <3> HIDE DEF N, L
    <3> QED
      BY <2>1, <3>1
  <2> DEFINE G == {k \in 1..N : v[k] \in T}
  <2>3. ASSUME NEW k \in 1..N, \A d \in (k + 1)..N : d \in G PROVE k \in G
    <3>1. CASE k = N
      <4> HIDE DEF T, N
      <4> QED
        BY <1>2, <2>2, <3>1
    <3>2. CASE k # N
      <4>1. k \in 1..L /\ k + 1 \in (k + 1)..N
        BY <1>1, <3>2
      <4>2. v[k + 1] \in T
        BY <2>3, <4>1
      <4>3. Wire[ms][k] \o v[k + 1] \in T
        BY <1>3, <4>1, <4>2
      <4> QED
        BY <2>2, <4>1, <4>3
    <3> QED
      BY <3>1, <3>2
  <2>4. 1..N \subseteq G
    <3> HIDE DEF G, N
    <3> QED
      BY <1>4, <2>3, DownFrom
  <2>5. v = [k \in 1..N |-> v[k]]
    <3> DEFINE e == [k \in 1..N |-> IF k > L THEN <<>> ELSE Wire[ms][k] \o v[k + 1]]
    <3>1. v = e /\ e = [k \in 1..N |-> e[k]]
      BY <1>12
    <3> HIDE DEF e
    <3> QED
      BY <3>1
  <2> HIDE DEF T, N
  <2> QED
    BY <2>2, <2>4, <2>5
<1> HIDE DEF from, Is
<1> QED
  BY <1>10, <1>11, <1>12

-----------------------------------------------------------------------------
(* What the walk over the chunks finds *)

\* Where chunk c of m begins, counted from the end of the headers.
Start(m, c) == Off(UnitsFrom(m), 1, c)

LEMMA Starts ==
    ASSUME NEW m \in Message
    PROVE  LET L == Len(m.body) IN
           /\ Start(m, 1) = 0
           /\ Start(m, L + 1) = Size(m) + 2 * L
           /\ \A c \in 1..(L + 1) : Start(m, c) \in Nat /\ Start(m, c) <= Start(m, L + 1)
           /\ \A c \in 1..L : Start(m, c + 1) = Start(m, c) + m.body[c] + 2
<1>1. PICK L, u, z : L = Len(m.body) /\ u = UnitsFrom(m) /\ z = Size(m)
  OBVIOUS
<1>2. /\ L \in Nat /\ z \in Nat /\ u \in [1..(L + 1) -> Nat] /\ u[L + 1] = 0 /\ u[1] = z
      /\ \A c \in 1..L : u[c] = m.body[c] + u[c + 1]
  BY <1>1, MessageFields, UnitsAre, UnitsFall DEF Size
<1>3. \A c \in 1..(L + 1) : u[c] \in Nat /\ u[c] <= z
  BY <1>1, <1>2, UnitsFall
<1>4. \A c \in 1..L : m.body[c] \in Nat
  BY <1>1, MessageFields
<1>5. \A c \in Int : Start(m, c) = z - u[c] + 2 * (c - 1)
  BY <1>1, <1>2 DEF Start, Off
<1>6. 1 \in 1..(L + 1) /\ L + 1 \in 1..(L + 1)
      /\ \A c \in 1..L : c \in 1..(L + 1) /\ c + 1 \in 1..(L + 1)
  BY <1>2
<1>7. Start(m, 1) = 0
  <2>1. \A x \in Nat : x - x + 2 * (1 - 1) = 0
    OBVIOUS
  <2> QED
    BY <1>2, <1>5, <2>1
<1>8. Start(m, L + 1) = z + 2 * L
  <2>1. PICK e, a : e = L + 1 /\ a = u[e]
    OBVIOUS
  <2>2. a = 0 /\ z \in Nat /\ L \in Nat /\ e = L + 1
    BY <1>2, <2>1
  <2>3. z - a + 2 * (e - 1) = z + 2 * L
    BY ONLY <2>2
  <2>4. e \in Int
    BY <2>2
  <2>5. Start(m, e) = z - u[e] + 2 * (e - 1)
    BY <1>5, <2>4
  <2> QED
    BY <2>1, <2>3, <2>5
<1>9. ASSUME NEW c \in 1..(L + 1)
      PROVE  Start(m, c) \in Nat /\ Start(m, c) <= Start(m, L + 1)
  <2>1. PICK a : a = u[c]
    OBVIOUS
  <2>2. a \in Nat /\ a <= z /\ z \in Nat /\ c \in Nat /\ 1 <= c /\ c <= L + 1 /\ L \in Nat
    BY <1>2, <1>3, <2>1
  <2>3. z - a + 2 * (c - 1) \in Nat /\ z - a + 2 * (c - 1) <= z + 2 * L
    BY ONLY <2>2
  <2> QED
    BY <1>5, <1>8, <2>1, <2>3
<1>10. ASSUME NEW c \in 1..L PROVE Start(m, c + 1) = Start(m, c) + m.body[c] + 2
  <2>1. PICK a, b, w : a = u[c] /\ b = u[c + 1] /\ w = m.body[c]
    OBVIOUS
  <2>2. a \in Nat /\ b \in Nat /\ w \in Nat /\ a = w + b /\ z \in Nat /\ c \in Nat
    BY <1>2, <1>3, <1>4, <1>6, <2>1
  <2>3. z - b + 2 * (c + 1 - 1) = z - a + 2 * (c - 1) + w + 2
    BY ONLY <2>2
  <2> QED
    BY <1>5, <2>1, <2>3
<1> QED
  BY <1>1, <1>7, <1>8, <1>9, <1>10

LEMMA ChunkPlaces ==
    ASSUME NEW ms \in Streams, NEW k \in 1..Len(ms)
    PROVE  LET m == ms[k]
               L == Len(m.body)
               cs == ChunksOf(ms, k)
           IN /\ cs \in Seq(Token)
              /\ Len(cs) = Start(m, L + 1) + 2 + m.trailers
              /\ \A c \in 1..L : /\ cs[Start(m, c) + 1].n = m.body[c]
                                 /\ \A j \in 1..m.body[c] :
                                      cs[Start(m, c) + 1 + j]
                                        = Payload(ms, k)[Size(m) - UnitsFrom(m)[c] + j]
              /\ cs[Start(m, L + 1) + 1].n = 0
              /\ \A j \in 1..(m.trailers + 1) :
                   cs[Start(m, L + 1) + 1 + j] = TrailersOf(ms, k, 1)[j]
<1>1. ms \in Seq(Message)
  BY StreamOf
<1>2. ChunksFrom(ms, k, 1, ChunksOf(ms, k))
  BY <1>1, ChunksAre
<1> QED
  BY <1>2 DEF ChunksFrom, Start

Found == [body : Seq(Token), ended : BOOLEAN, used : Nat]

LEMMA Prepended ==
    ASSUME NEW x \in Found, NEW s \in Seq(Token)
    PROVE  LET y == [x EXCEPT !.body = s \o @] IN
           /\ y \in Found
           /\ y.body = s \o x.body /\ y.ended = x.ended /\ y.used = x.used
<1>1. x.body \in Seq(Token)
  BY DEF Found
<1>2. PICK o : o = s \o x.body
  OBVIOUS
<1>3. o \in Seq(Token)
  BY <1>1, <1>2, ConcatProperties
<1>4. LET y == [x EXCEPT !.body = o] IN
      y \in Found /\ y.body = o /\ y.ended = x.ended /\ y.used = x.used
  BY <1>3 DEF Found
<1> QED
  BY <1>2, <1>4

\* The walk at each place, from what it finds behind it.
Walks(w, block) ==
    \A p \in 1..(Len(block) + 1) :
        LET size == block[p].n IN
        w[p] = IF p > Len(block) \/ p + size + 1 > Len(block)
               THEN [body |-> <<>>, ended |-> FALSE, used |-> 0]
               ELSE IF size = 0 THEN [body |-> <<>>, ended |-> TRUE, used |-> p + 1]
               ELSE [w[p + size + 2] EXCEPT !.body = SubSeq(block, p + 1, p + size) \o @]

LEMMA WalkExists ==
    ASSUME NEW block \in Seq(Token)
    PROVE  \E w \in [1..(Len(block) + 1) -> Found] :
             Walks(w, block) /\ WholeChunks(block) = w[1]
<1> DEFINE b == Len(block)
           N == b + 1
           T == Found
           size(p) == block[p].n
           stops(p) == p > b \/ p + size(p) + 1 > b
           none == [body |-> <<>>, ended |-> FALSE, used |-> 0]
           last(p) == [body |-> <<>>, ended |-> TRUE, used |-> p + 1]
           goes == {p \in 1..b : ~stops(p) /\ size(p) # 0}
           next == [p \in goes |-> p + size(p) + 2]
           do == [p \in goes |->
                    [x \in T |-> [x EXCEPT !.body = SubSeq(block, p + 1, p + size(p)) \o @]]]
           rest == [p \in 1..N |-> IF stops(p) THEN none ELSE last(p)]
           Is(w) == w = [p \in 1..N |->
                           IF stops(p) THEN none
                           ELSE IF size(p) = 0 THEN last(p)
                           ELSE [w[p + size(p) + 2] EXCEPT
                                   !.body = SubSeq(block, p + 1, p + size(p)) \o @]]
           walk == CHOOSE w : Is(w)
<1>1. b \in Nat
  OBVIOUS
<1>2. \A p \in 1..b : size(p) \in Nat
  <2>1. \A p \in 1..b : block[p] \in Token
    OBVIOUS
  <2> QED
    BY <2>1 DEF Token
<1>3. none \in T /\ \A p \in Nat : last(p) \in T
  <2>1. <<>> \in Seq(Token)
    OBVIOUS
  <2> QED
    BY <2>1 DEF Found
<1>4. goes \subseteq 1..N /\ \A p \in goes : p \in 1..b /\ p + size(p) + 2 \in 1..N /\ p + size(p) + 2 > p
  BY <1>1, <1>2
<1>5. \A p \in goes : \A x \in T :
        [x EXCEPT !.body = SubSeq(block, p + 1, p + size(p)) \o @] \in T
  <2> TAKE p \in goes
  <2> TAKE x \in T
  <2>1. p \in Nat /\ p + size(p) \in Nat /\ p <= p + size(p) /\ p + size(p) <= b
    BY <1>1, <1>2, <1>4, SMTT(30)
  <2>2. SubSeq(block, p + 1, p + size(p)) \in Seq(Token)
    <3> HIDE DEF size, goes
    <3> QED
      BY <2>1, Part
  <2>3. PICK s : s = SubSeq(block, p + 1, p + size(p))
    OBVIOUS
  <2>4. [x EXCEPT !.body = s \o @] \in T
    BY <2>2, <2>3, Prepended
  <2> QED
    BY <2>3, <2>4
<1>6. N \in Nat /\ next \in [goes -> 1..N] /\ \A p \in goes : next[p] > p
  <2> HIDE DEF goes, size, N
  <2>1. next \in [goes -> 1..N] /\ \A p \in goes : next[p] > p
    BY <1>4
  <2>2. N \in Nat
    BY <1>1 DEF N
  <2> QED
    BY <2>1, <2>2
<1>7. do \in [goes -> [T -> T]] /\ rest \in [1..N -> T]
  <2>1. do \in [goes -> [T -> T]]
    <3> HIDE DEF goes, size, T, N
    <3> QED
      BY <1>5
  <2>2. \A p \in 1..N : p \in Nat
    BY <1>1
  <2>3. rest \in [1..N -> T]
    <3> HIDE DEF stops, none, last, T, N
    <3> QED
      BY <1>3, <2>2
  <2> QED
    BY <2>1, <2>3
<1>8. \E w \in [1..N -> T] : Backward(w, N, goes, next, do, rest)
  <2> HIDE DEF N, T, goes, next, do, rest
  <2> QED
    BY <1>4, <1>6, <1>7, BackwardExists
<1>9. PICK w \in [1..N -> T] : Backward(w, N, goes, next, do, rest)
  BY <1>8
<1>10. ASSUME NEW p \in 1..N
       PROVE  w[p] = IF stops(p) THEN none
                     ELSE IF size(p) = 0 THEN last(p)
                     ELSE [w[p + size(p) + 2] EXCEPT
                             !.body = SubSeq(block, p + 1, p + size(p)) \o @]
  <2>1. w[p] = IF p \in goes THEN do[p][w[next[p]]] ELSE rest[p]
    BY <1>9 DEF Backward
  <2>2. CASE stops(p)
    <3>1. p \notin goes /\ rest[p] = none
      <4> HIDE DEF none, last, N, size
      <4> QED
        BY <2>2
    <3> QED
      BY <2>1, <2>2, <3>1
  <2>3. CASE ~stops(p) /\ size(p) = 0
    <3>1. p \notin goes /\ rest[p] = last(p)
      <4> HIDE DEF none, last, N, size, stops
      <4> QED
        BY <2>3
    <3> QED
      BY <2>1, <2>3, <3>1
  <2>4. CASE ~stops(p) /\ size(p) # 0
    <3>1. p \in 1..b
      BY <1>1, <2>4
    <3>2. p \in goes
      BY <2>4, <3>1
    <3>3. next[p] = p + size(p) + 2
      <4> HIDE DEF goes, size
      <4> QED
        BY <3>2
    <3>4. w[p + size(p) + 2] \in T
      <4> HIDE DEF goes, size, N, T
      <4> QED
        BY <1>4, <1>9, <3>2
    <3>5. do[p][w[p + size(p) + 2]]
            = [w[p + size(p) + 2] EXCEPT !.body = SubSeq(block, p + 1, p + size(p)) \o @]
      <4> HIDE DEF goes, size, T
      <4> QED
        BY <3>2, <3>4
    <3> QED
      BY <2>1, <2>4, <3>2, <3>3, <3>5
  <2> QED
    BY <2>2, <2>3, <2>4
<1>11. Is(w)
  <2>1. w = [p \in 1..N |-> w[p]]
    OBVIOUS
  <2> HIDE DEF stops, none, last, size
  <2> QED
    BY <1>10, <2>1
<1>12. Is(walk)
  BY <1>11
<1>13. WholeChunks(block) = walk[1]
  BY DEF WholeChunks
<1>14. ASSUME NEW v, Is(v) PROVE v \in [1..N -> T] /\ Walks(v, block)
  <2>1. \A p \in 1..N : v[p] = IF stops(p) THEN none
                               ELSE IF size(p) = 0 THEN last(p)
                               ELSE [v[p + size(p) + 2] EXCEPT
                                       !.body = SubSeq(block, p + 1, p + size(p)) \o @]
    <3> HIDE DEF stops, none, last, size, N
    <3> QED
      BY <1>14
  <2> DEFINE G == {p \in 1..N : v[p] \in T}
  <2>2. ASSUME NEW p \in 1..N, \A q \in (p + 1)..N : q \in G PROVE p \in G
    <3>1. CASE stops(p)
      <4> HIDE DEF stops, none, last, size, N, T
      <4> QED
        BY <1>3, <2>1, <3>1
    <3>2. CASE ~stops(p) /\ size(p) = 0
      <4>1. p \in Nat
        BY <1>1
      <4> HIDE DEF stops, none, last, size, N, T
      <4> QED
        BY <1>3, <2>1, <3>2, <4>1
    <3>3. CASE ~stops(p) /\ size(p) # 0
      <4>1. p \in 1..b
        BY <1>1, <3>3
      <4>2. p \in goes
        BY <3>3, <4>1
      <4>3. p + size(p) + 2 \in (p + 1)..N
        BY <1>1, <1>2, <3>3, <4>1
      <4>4. v[p + size(p) + 2] \in T
        <5> HIDE DEF size, N, T
        <5> QED
          BY <2>2, <4>3
      <4>5. PICK x : x = v[p + size(p) + 2]
        OBVIOUS
      <4>6. v[p] = [x EXCEPT !.body = SubSeq(block, p + 1, p + size(p)) \o @]
        <5> HIDE DEF stops, none, last, size, N, T, goes
        <5> QED
          BY <2>1, <3>3, <4>5
      <4>7. [x EXCEPT !.body = SubSeq(block, p + 1, p + size(p)) \o @] \in T
        <5> HIDE DEF stops, none, last, size, N, T, goes
        <5> QED
          BY <1>5, <4>2, <4>4, <4>5
      <4> QED
        BY <4>6, <4>7
    <3> QED
      BY <3>1, <3>2, <3>3
  <2>3. 1..N \subseteq G
    <3> HIDE DEF G, N
    <3> QED
      BY <1>6, <2>2, DownFrom
  <2>4. v = [p \in 1..N |-> v[p]]
    <3> DEFINE e == [p \in 1..N |->
                       IF stops(p) THEN none
                       ELSE IF size(p) = 0 THEN last(p)
                       ELSE [v[p + size(p) + 2] EXCEPT
                               !.body = SubSeq(block, p + 1, p + size(p)) \o @]]
    <3>1. v = e /\ e = [p \in 1..N |-> e[p]]
      <4> HIDE DEF stops, none, last, size, N
      <4> QED
        BY <1>14
    <3> HIDE DEF e
    <3> QED
      BY <3>1
  <2>5. v \in [1..N -> T]
    <3> HIDE DEF N, T
    <3> QED
      BY <2>3, <2>4
  <2>6. Walks(v, block)
    BY <2>1 DEF Walks
  <2> QED
    BY <2>5, <2>6
<1> HIDE DEF walk, Is
<1> QED
  BY <1>12, <1>13, <1>14

\* What is needed of the body of m, the line behind its last size line included.
BodyEnd(m) == Start(m, Len(m.body) + 1) + 2

\* x is what the walk finds from chunk c of message k on, in b tokens.
Finds(ms, k, c, b, x) ==
    LET m == ms[k]
        u == UnitsFrom(m)
    IN /\ x \in Found
       /\ x.ended <=> b >= BodyEnd(m)
       /\ Len(x.body) <= u[c]
       /\ x.ended => /\ x.used = BodyEnd(m) /\ Len(x.body) = u[c]
                     /\ \A j \in 1..u[c] : x.body[j] = Payload(ms, k)[Size(m) - u[c] + j]

LEMMA FindsChunks ==
    ASSUME NEW ms \in Streams, NEW k \in 1..Len(ms), NEW block \in Seq(Token),
           \A i \in 1..Len(block) :
             i <= Len(ChunksOf(ms, k)) => block[i] = ChunksOf(ms, k)[i],
           NEW w \in [1..(Len(block) + 1) -> Found], Walks(w, block)
    PROVE  Finds(ms, k, 1, Len(block), w[1])
<1>1. PICK m, cs, p, b : m = ms[k] /\ cs = ChunksOf(ms, k) /\ p = Payload(ms, k) /\ b = Len(block)
  OBVIOUS
<1>2. PICK L, u, z, E : L = Len(m.body) /\ u = UnitsFrom(m) /\ z = Size(m) /\ E = BodyEnd(m)
  OBVIOUS
<1>3. m \in Message
  BY <1>1, StreamOf
<1>4. /\ L \in Nat /\ z \in Nat /\ b \in Nat /\ m.trailers \in Nat
      /\ u \in [1..(L + 1) -> Nat] /\ u[L + 1] = 0
      /\ \A c \in 1..L : m.body[c] \in Nat \ {0} /\ u[c] = m.body[c] + u[c + 1]
  <2>1. L \in Nat /\ m.trailers \in Nat /\ \A c \in 1..L : m.body[c] \in Nat \ {0}
    BY <1>2, <1>3, MessageFields
  <2>2. /\ u \in [1..(L + 1) -> Nat] /\ u[L + 1] = 0
        /\ \A c \in 1..L : u[c] = m.body[c] + u[c + 1]
    BY <1>2, <1>3, UnitsAre
  <2>3. z \in Nat
    BY <1>2, <1>3, UnitsFall
  <2>4. b \in Nat
    BY <1>1
  <2> QED
    BY <2>1, <2>2, <2>3, <2>4
<1>5. PICK o : o = [c \in 1..(L + 1) |-> Start(m, c)]
  OBVIOUS
<1>6. 1 \in 1..(L + 1) /\ L + 1 \in 1..(L + 1)
      /\ \A c \in 1..L : c \in 1..(L + 1) /\ c + 1 \in 1..(L + 1)
  BY <1>4
<1>7. \A c \in 1..(L + 1) : o[c] = Start(m, c)
  BY <1>5
<1>8. /\ o[1] = 0 /\ \A c \in 1..(L + 1) : o[c] \in Nat /\ o[c] <= o[L + 1]
      /\ \A c \in 1..L : o[c + 1] = o[c] + m.body[c] + 2
      /\ E = o[L + 1] + 2
  <2>1. /\ Start(m, 1) = 0
        /\ \A c \in 1..(L + 1) : Start(m, c) \in Nat /\ Start(m, c) <= Start(m, L + 1)
        /\ \A c \in 1..L : Start(m, c + 1) = Start(m, c) + m.body[c] + 2
        /\ E = Start(m, L + 1) + 2
    BY <1>2, <1>3, Starts DEF BodyEnd
  <2> QED
    BY <1>6, <1>7, <2>1
<1>9. /\ Len(cs) = E + m.trailers
      /\ \A c \in 1..L : cs[o[c] + 1].n = m.body[c]
      /\ \A c \in 1..L : \A j \in 1..m.body[c] : cs[o[c] + 1 + j] = p[z - u[c] + j]
      /\ cs[o[L + 1] + 1].n = 0
  <2>1. /\ Len(cs) = Start(m, L + 1) + 2 + m.trailers
        /\ \A c \in 1..L : /\ cs[Start(m, c) + 1].n = m.body[c]
                           /\ \A j \in 1..m.body[c] : cs[Start(m, c) + 1 + j] = p[z - u[c] + j]
        /\ cs[Start(m, L + 1) + 1].n = 0
    BY <1>1, <1>2, ChunkPlaces
  <2>2. o[L + 1] = Start(m, L + 1)
    BY <1>6, <1>7
  <2>3. \A c \in 1..L : o[c] = Start(m, c)
    BY <1>6, <1>7
  <2>4. E = Start(m, L + 1) + 2
    BY <1>2 DEF BodyEnd
  <2> QED
    BY <2>1, <2>2, <2>3, <2>4
<1>10. \A i \in 1..b : i <= E => block[i] = cs[i]
  <2>1. E \in Nat
    BY <1>6, <1>8
  <2>2. \A i \in 1..b : i <= E => i <= Len(cs)
    BY <1>4, <1>9, <2>1
  <2> QED
    BY <1>1, <2>2
<1>11. \A q \in 1..(b + 1) :
         w[q] = IF q > b \/ q + block[q].n + 1 > b
                THEN [body |-> <<>>, ended |-> FALSE, used |-> 0]
                ELSE IF block[q].n = 0 THEN [body |-> <<>>, ended |-> TRUE, used |-> q + 1]
                ELSE [w[q + block[q].n + 2] EXCEPT
                        !.body = SubSeq(block, q + 1, q + block[q].n) \o @]
  BY <1>1 DEF Walks
<1>12. PICK none : none = [body |-> <<>>, ended |-> FALSE, used |-> 0]
  OBVIOUS
<1>13. <<>> \in Seq(Token) /\ Len(<<>>) = 0
  OBVIOUS
<1>14. none \in Found /\ ~none.ended /\ Len(none.body) = 0
  BY <1>12, <1>13 DEF Found
<1>15. ASSUME NEW c \in 1..(L + 1), b < E PROVE Finds(ms, k, c, b, none)
  <2>1. u[c] \in Nat /\ 0 <= u[c]
    BY <1>4
  <2>2. E \in Nat
    BY <1>6, <1>8
  <2>3. ~(b >= E)
    BY <1>4, <1>15, <2>2
  <2> QED
    BY <1>1, <1>2, <1>14, <2>1, <2>3 DEF Finds
<1> DEFINE G == {c \in 1..(L + 1) : o[c] + 1 <= b + 1 => Finds(ms, k, c, b, w[o[c] + 1])}
<1>16. ASSUME NEW c \in 1..(L + 1), \A d \in (c + 1)..(L + 1) : d \in G PROVE c \in G
  <2> SUFFICES ASSUME o[c] + 1 <= b + 1 PROVE Finds(ms, k, c, b, w[o[c] + 1])
    OBVIOUS
  <2>1. PICK q : q = o[c] + 1
    OBVIOUS
  <2>2. q \in 1..(b + 1) /\ q \in Nat /\ o[c] \in Nat /\ q <= E - 1 /\ E \in Nat
    <3>1. PICK i, j : i = o[c] /\ j = o[L + 1]
      OBVIOUS
    <3>2. i \in Nat /\ j \in Nat /\ i <= j
      BY <1>6, <1>8, <3>1
    <3>3. E = j + 2 /\ q = i + 1 /\ i + 1 <= b + 1 /\ b \in Nat
      BY <1>4, <1>8, <2>1, <3>1
    <3>4. q \in 1..(b + 1) /\ q \in Nat /\ i \in Nat /\ q <= E - 1 /\ E \in Nat
      BY ONLY <3>2, <3>3
    <3> QED
      BY <3>1, <3>4
  <2>3. CASE c = L + 1
    <3>1. q = o[L + 1] + 1 /\ E = q + 1
      BY <1>6, <1>8, <2>1, <2>3
    <3>2. q <= b => block[q].n = 0
      <4>1. ASSUME q <= b PROVE block[q].n = 0
        <5>1. q \in 1..b /\ q <= E
          BY <1>4, <2>2, <4>1
        <5>2. block[q] = cs[q]
          BY <1>10, <5>1
        <5> QED
          BY <1>9, <3>1, <5>2
      <4> QED
        BY <4>1
    <3>3. CASE b < E
      <4>1. q > b \/ q + block[q].n + 1 > b
        <5>1. CASE q > b
          BY <5>1
        <5>2. CASE q <= b
          <6>1. block[q].n = 0
            BY <3>2, <5>2
          <6>2. q + 0 + 1 > b
            BY <1>4, <2>2, <3>1, <3>3
          <6> QED
            BY <6>1, <6>2
        <5> QED
          BY <1>4, <2>2, <5>1, <5>2
      <4>2. w[q] = none
        BY <1>11, <1>12, <2>2, <4>1
      <4> QED
        BY <1>15, <2>1, <3>3, <4>2
    <3>4. CASE ~(b < E)
      <4>1. q <= b
        BY <1>4, <2>2, <3>4
      <4>2. block[q].n = 0
        BY <3>2, <4>1
      <4>3. ~(q > b) /\ ~(q + 0 + 1 > b) /\ b >= E
        <5>1. b \in Nat /\ q \in Nat /\ E \in Nat /\ E = q + 1 /\ ~(b < E)
          BY <1>4, <2>2, <3>1, <3>4
        <5> QED
          BY ONLY <5>1
      <4>4. PICK x : x = [body |-> <<>>, ended |-> TRUE, used |-> q + 1]
        OBVIOUS
      <4>5. w[q] = x
        BY <1>11, <2>2, <4>2, <4>3, <4>4
      <4>6. x \in Found /\ x.ended /\ x.used = E /\ Len(x.body) = 0
        BY <1>13, <2>2, <3>1, <4>4 DEF Found
      <4>7. u[c] = 0 /\ 0 <= 0 /\ \A j : j \notin 1..0
        BY <1>4, <2>3
      <4> QED
        BY <1>1, <1>2, <2>1, <4>3, <4>5, <4>6, <4>7 DEF Finds
    <3> QED
      BY <3>3, <3>4
  <2>4. CASE c # L + 1
    <3>1. c \in 1..L /\ c + 1 \in (c + 1)..(L + 1) /\ c + 1 \in 1..(L + 1)
      BY <1>4, <2>4
    <3>2. PICK n, a, e, q2 : n = m.body[c] /\ a = u[c] /\ e = u[c + 1] /\ q2 = o[c + 1] + 1
      OBVIOUS
    <3>3. /\ n \in Nat /\ n # 0 /\ a \in Nat /\ e \in Nat /\ a = n + e
          /\ q2 = q + n + 2 /\ q2 \in Nat /\ q2 <= E - 1
      <4>1. n \in Nat /\ n # 0 /\ a \in Nat /\ e \in Nat /\ a = n + e
        BY <1>4, <1>6, <3>1, <3>2
      <4>2. PICK i, i2, j : i = o[c] /\ i2 = o[c + 1] /\ j = o[L + 1]
        OBVIOUS
      <4>3. i \in Nat /\ i2 \in Nat /\ j \in Nat /\ i2 <= j
        BY <1>6, <1>8, <3>1, <4>2
      <4>4. i2 = i + n + 2 /\ E = j + 2 /\ q = i + 1 /\ q2 = i2 + 1
        BY <1>8, <2>1, <3>1, <3>2, <4>2
      <4>5. q2 = q + n + 2 /\ q2 \in Nat /\ q2 <= E - 1
        BY ONLY <4>1, <4>3, <4>4
      <4> QED
        BY <4>1, <4>5
    <3>4. q <= b => block[q].n = n
      <4>1. ASSUME q <= b PROVE block[q].n = n
        <5>1. q \in 1..b /\ q <= E
          BY <1>4, <2>2, <4>1
        <5>2. block[q] = cs[q]
          BY <1>10, <5>1
        <5> QED
          BY <1>9, <2>1, <3>1, <3>2, <5>2
      <4> QED
        BY <4>1
    <3>5. CASE q > b \/ q + n + 1 > b
      <4>1. q > b \/ q + block[q].n + 1 > b
        <5>1. CASE q > b
          BY <5>1
        <5>2. CASE q <= b
          <6>1. block[q].n = n
            BY <3>4, <5>2
          <6>2. q + n + 1 > b
            BY <1>4, <2>2, <3>5, <5>2
          <6> QED
            BY <6>1, <6>2
        <5> QED
          BY <1>4, <2>2, <5>1, <5>2
      <4>2. w[q] = none
        BY <1>11, <1>12, <2>2, <4>1
      <4>3. b < E
        BY <1>4, <2>2, <3>3, <3>5
      <4> QED
        BY <1>15, <2>1, <4>2, <4>3
    <3>6. CASE ~(q > b \/ q + n + 1 > b)
      <4>1. q <= b /\ q + n <= b /\ q2 <= b + 1 /\ q2 \in 1..(b + 1)
        BY <1>4, <2>2, <3>3, <3>6
      <4>2. block[q].n = n
        BY <3>4, <4>1
      <4>3. PICK s : s = SubSeq(block, q + 1, q + n)
        OBVIOUS
      <4>4. s \in Seq(Token) /\ Len(s) = n /\ \A j \in 1..n : s[j] = block[q + j]
        <5>1. q + n \in Nat /\ q <= q + n /\ q + n - q = n
          BY <2>2, <3>3
        <5>2. /\ s \in Seq(Token) /\ Len(s) = q + n - q
              /\ \A j \in 1..(q + n - q) : s[j] = block[q + j]
          <6>1. PICK r : r = q + n
            OBVIOUS
          <6>2. r \in Nat /\ q \in Nat /\ q <= r /\ r <= Len(block)
            BY <1>1, <2>2, <4>1, <5>1, <6>1
          <6>3. s = SubSeq(block, q + 1, r)
            BY <4>3, <6>1
          <6>4. /\ s \in Seq(Token) /\ Len(s) = r - q
                /\ \A j \in 1..(r - q) : s[j] = block[q + j]
            <7>1. /\ SubSeq(block, q + 1, r) \in Seq(Token)
                  /\ Len(SubSeq(block, q + 1, r)) = r - q
                  /\ \A j \in 1..(r - q) : SubSeq(block, q + 1, r)[j] = block[q + j]
              BY ONLY <6>2, block \in Seq(Token), Part
            <7> QED
              BY <6>3, <7>1
          <6>5. r - q = q + n - q
            BY <2>2, <3>3, <6>1
          <6> QED
            BY <6>4, <6>5
        <5> QED
          BY <5>1, <5>2
      <4>5. PICK y : y = w[q2]
        OBVIOUS
      <4>6. Finds(ms, k, c + 1, b, y)
        BY <1>16, <3>1, <3>2, <4>1, <4>5
      <4>7. /\ y \in Found /\ (y.ended <=> b >= E) /\ Len(y.body) <= e
            /\ y.ended => /\ y.used = E /\ Len(y.body) = e
                          /\ \A j \in 1..e : y.body[j] = p[z - e + j]
        BY <1>1, <1>2, <3>2, <4>6 DEF Finds
      <4>8. PICK x : x = [y EXCEPT !.body = s \o @]
        OBVIOUS
      <4>9. x \in Found /\ x.body = s \o y.body /\ x.ended = y.ended /\ x.used = y.used
        BY <4>4, <4>7, <4>8, Prepended
      <4>10. w[q] = x
        BY <1>11, <2>2, <3>3, <3>6, <4>2, <4>3, <4>5, <4>8
      <4>11. /\ y.body \in Seq(Token) /\ Len(y.body) \in Nat
             /\ Len(x.body) = n + Len(y.body)
             /\ \A j \in 1..n : x.body[j] = s[j]
             /\ \A j \in 1..Len(y.body) : x.body[n + j] = y.body[j]
        <5>1. y.body \in Seq(Token)
          BY <4>7 DEF Found
        <5>2. Len(y.body) \in Nat
          BY <5>1
        <5>3. PICK r, v : r = y.body /\ v = s \o r
          OBVIOUS
        <5>4. s \in Seq(Token) /\ r \in Seq(Token)
          BY <4>4, <5>1, <5>3
        <5>5. /\ Len(v) = Len(s) + Len(r)
              /\ \A j \in 1..Len(s) : v[j] = s[j]
              /\ \A j \in 1..Len(r) : v[Len(s) + j] = r[j]
          BY <5>3, <5>4, Joined
        <5>6. x.body = v /\ Len(s) = n
          BY <4>4, <4>9, <5>3
        <5> QED
          BY <5>1, <5>2, <5>3, <5>5, <5>6
      <4>12. Len(x.body) <= a
        BY <3>3, <4>7, <4>11
      <4>13. ASSUME x.ended
             PROVE  /\ x.used = E /\ Len(x.body) = a
                    /\ \A j \in 1..a : x.body[j] = p[z - a + j]
        <5>1. y.ended
          BY <4>9, <4>13
        <5>2. x.used = E /\ Len(y.body) = e
          BY <4>7, <4>9, <5>1
        <5>3. Len(x.body) = a
          BY <3>3, <4>11, <5>2
        <5>4. ASSUME NEW j \in 1..a PROVE x.body[j] = p[z - a + j]
          <6>1. CASE j <= n
            <7>1. j \in 1..n /\ q + j \in 1..b /\ q + j <= E
              BY <1>4, <2>2, <3>3, <4>1, <6>1
            <7>2. x.body[j] = block[q + j]
              BY <4>4, <4>11, <7>1
            <7>3. block[q + j] = cs[q + j]
              BY <1>10, <7>1
            <7>4. cs[q + j] = p[z - a + j]
              BY <1>9, <2>1, <3>1, <3>2, <7>1
            <7> QED
              BY <7>2, <7>3, <7>4
          <6>2. CASE ~(j <= n)
            <7>1. PICK i : i = j - n
              OBVIOUS
            <7>2. i \in 1..e /\ n + i = j /\ z - e + i = z - a + j
              BY <1>4, <3>3, <6>2, <7>1
            <7>3. x.body[n + i] = y.body[i]
              BY <4>11, <5>2, <7>2
            <7>4. y.body[i] = p[z - e + i]
              BY <4>7, <5>1, <7>2
            <7> QED
              BY <7>2, <7>3, <7>4
          <6> QED
            BY <6>1, <6>2
        <5> QED
          BY <5>2, <5>3, <5>4
      <4> QED
        BY <1>1, <1>2, <2>1, <3>2, <4>7, <4>9, <4>10, <4>12, <4>13 DEF Finds
    <3> QED
      BY <3>5, <3>6
  <2> QED
    BY <2>3, <2>4
<1>17. 1..(L + 1) \subseteq G
  <2>1. L + 1 \in Nat
    BY <1>4
  <2> HIDE DEF G
  <2> QED
    BY <1>16, <2>1, DownFrom
<1>18. Finds(ms, k, 1, b, w[o[1] + 1])
  <2>1. 1 \in G /\ o[1] + 1 <= b + 1
    BY <1>4, <1>6, <1>8, <1>17
  <2> QED
    BY <2>1
<1>19. o[1] + 1 = 1
  BY <1>8
<1> QED
  BY <1>1, <1>18, <1>19

LEMMA ChunksFound ==
    ASSUME NEW ms \in Streams, NEW k \in 1..Len(ms), NEW block \in Seq(Token),
           \A i \in 1..Len(block) :
             i <= Len(ChunksOf(ms, k)) => block[i] = ChunksOf(ms, k)[i]
    PROVE  LET chunks == WholeChunks(block) IN
           /\ chunks \in Found
           /\ chunks.ended <=> Len(block) >= BodyEnd(ms[k])
           /\ Len(chunks.body) <= Size(ms[k])
           /\ chunks.ended => chunks.used = BodyEnd(ms[k]) /\ chunks.body = Payload(ms, k)
<1>1. PICK w \in [1..(Len(block) + 1) -> Found] : Walks(w, block) /\ WholeChunks(block) = w[1]
  BY WalkExists
<1>2. Finds(ms, k, 1, Len(block), w[1])
  BY <1>1, FindsChunks
<1>3. PICK x, p, z : x = w[1] /\ p = Payload(ms, k) /\ z = Size(ms[k])
  OBVIOUS
<1>4. ms[k] \in Message /\ ms \in Seq(Message)
  BY StreamOf
<1>5. UnitsFrom(ms[k])[1] = z /\ z \in Nat
  BY <1>3, <1>4, UnitsFall DEF Size
<1>6. /\ x \in Found /\ (x.ended <=> Len(block) >= BodyEnd(ms[k])) /\ Len(x.body) <= z
      /\ x.ended => /\ x.used = BodyEnd(ms[k]) /\ Len(x.body) = z
                    /\ \A j \in 1..z : x.body[j] = p[z - z + j]
  BY <1>2, <1>3, <1>5 DEF Finds
<1>7. p \in Seq(Token) /\ Len(p) = z
  BY <1>3, <1>4, PayloadIs
<1>8. ASSUME x.ended PROVE x.body = p
  <2>1. \A j \in 1..z : z - z + j = j
    BY <1>5
  <2>2. x.body \in Seq(Token)
    BY <1>6 DEF Found
  <2>3. PICK s : s = x.body
    OBVIOUS
  <2>4. s \in Seq(Token) /\ Len(s) = Len(p) /\ \A j \in 1..Len(s) : s[j] = p[j]
    BY <1>6, <1>7, <1>8, <2>1, <2>2, <2>3
  <2>5. s = p
    BY <1>7, <2>4, SeqEqual
  <2> QED
    BY <2>3, <2>5
<1> QED
  BY <1>1, <1>3, <1>6, <1>8

-----------------------------------------------------------------------------
(* Requests *)

Errors == {0, 400, 413, 431}

RequestType == [raw : Seq(Token), head : Nat, headersParsed : BOOLEAN, complete : BOOLEAN,
                error : Errors, body : Seq(Token), consumed : Nat]

LEMMA NewOne == NewRequest \in RequestType
<1>1. <<>> \in Seq(Token)
  OBVIOUS
<1> QED
  BY <1>1 DEF NewRequest, RequestType, Errors

LEMMA Filled ==
    ASSUME NEW r \in RequestType, NEW s \in Seq(Token)
    PROVE  LET q == AppendToRaw(r, s) IN
           /\ q \in RequestType /\ q.raw = r.raw \o s
           /\ q.head = r.head /\ q.headersParsed = r.headersParsed /\ q.complete = r.complete
           /\ q.error = r.error /\ q.body = r.body /\ q.consumed = r.consumed
<1>1. PICK o : o = r.raw \o s
  OBVIOUS
<1>2. o \in Seq(Token)
  <2>1. r.raw \in Seq(Token)
    BY DEF RequestType
  <2> QED
    BY <1>1, <2>1, ConcatProperties
<1>3. AppendToRaw(r, s) = [r EXCEPT !.raw = o]
  BY <1>1 DEF AppendToRaw
<1>4. LET q == [r EXCEPT !.raw = o] IN
      /\ q \in RequestType /\ q.raw = o
      /\ q.head = r.head /\ q.headersParsed = r.headersParsed /\ q.complete = r.complete
      /\ q.error = r.error /\ q.body = r.body /\ q.consumed = r.consumed
  BY <1>2 DEF RequestType
<1> QED
  BY <1>1, <1>3, <1>4

LEMMA Denied ==
    ASSUME NEW r \in RequestType, NEW code \in Errors
    PROVE  LET q == Refuse(r, code) IN
           /\ q \in RequestType /\ q.error = code /\ q.complete
           /\ q.raw = r.raw /\ q.head = r.head /\ q.headersParsed = r.headersParsed
           /\ q.body = r.body /\ q.consumed = r.consumed
  BY DEF Refuse, RequestType

LEMMA Titled ==
    ASSUME NEW r \in RequestType, NEW k \in Nat
    PROVE  LET q == [r EXCEPT !.headersParsed = TRUE, !.head = k] IN
           /\ q \in RequestType /\ q.headersParsed /\ q.head = k
           /\ q.raw = r.raw /\ q.complete = r.complete /\ q.error = r.error
           /\ q.body = r.body /\ q.consumed = r.consumed
  BY DEF RequestType

Finish(r, s, n) == [r EXCEPT !.body = s, !.complete = TRUE, !.consumed = n]

LEMMA Finished ==
    ASSUME NEW r \in RequestType, NEW s \in Seq(Token), NEW n \in Nat
    PROVE  LET q == Finish(r, s, n) IN
           /\ q \in RequestType /\ q.body = s /\ q.complete /\ q.consumed = n
           /\ q.raw = r.raw /\ q.head = r.head /\ q.headersParsed = r.headersParsed
           /\ q.error = r.error
  BY DEF Finish, RequestType

LEMMA FinishedBare ==
    ASSUME NEW r \in RequestType, NEW n \in Nat
    PROVE  LET q == [r EXCEPT !.complete = TRUE, !.consumed = n] IN
           /\ q \in RequestType /\ q.complete /\ q.consumed = n /\ q.body = r.body
           /\ q.raw = r.raw /\ q.head = r.head /\ q.headersParsed = r.headersParsed
           /\ q.error = r.error
  BY DEF RequestType

LEMMA Rewritten ==
    ASSUME NEW r \in RequestType, NEW s \in Seq(Token)
    PROVE  LET q == [r EXCEPT !.body = s] IN
           /\ q \in RequestType /\ q.body = s
           /\ q.raw = r.raw /\ q.head = r.head /\ q.headersParsed = r.headersParsed
           /\ q.error = r.error /\ q.complete = r.complete /\ q.consumed = r.consumed
  BY DEF RequestType

-----------------------------------------------------------------------------
(* What is in front of the parser *)

\* All that is left to come when message k is next.
Here(ms, k) == Strays(ms, k) \o From[ms][k]

\* s is what there is so far of h.
Opens(s, h) == Len(s) <= Len(h) /\ \A i \in 1..Len(s) : s[i] = h[i]

\* What the parser takes of message k.
Ends(ms, k) == Len(Wire[ms][k]) - ms[k].trailers

LEMMA StraysAre ==
    ASSUME NEW ms \in Streams, NEW k \in 1..(Len(ms) + 1)
    PROVE  /\ Strays(ms, k) \in Seq(Token)
           /\ Strays(ms, k) # <<>> =>
                /\ Len(Strays(ms, k)) > 0 /\ Strays(ms, k)[1].t \in {"trailer", "end"}
           /\ Strays(ms, k) # <<>> <=> k > 1 /\ ms[k - 1].trailers > 0
<1>1. CASE ~(k > 1 /\ ms[k - 1].trailers > 0)
  <2>1. Strays(ms, k) = <<>>
    BY <1>1 DEF Strays
  <2> QED
    BY <1>1, <2>1
<1>2. CASE k > 1 /\ ms[k - 1].trailers > 0
  <2>1. PICK j : j = k - 1
    OBVIOUS
  <2>2. j \in 1..Len(ms) /\ ms \in Seq(Message) /\ j \in Nat
    BY <1>2, <2>1, StreamOf
  <2>3. ms[j] \in Message
    BY <2>2
  <2>4. PICK t : t = ms[j].trailers
    OBVIOUS
  <2>5. t \in Nat /\ t > 0 /\ 2 <= t + 1 /\ t + 2 - 2 = t /\ t + 1 - 2 = t - 1 /\ 2 \in {1, 2}
    BY <1>2, <2>1, <2>3, <2>4, MessageFields
  <2>6. PICK s : s = TrailersOf(ms, j, 2)
    OBVIOUS
  <2>7. /\ s \in Seq(Token) /\ Len(s) = t + 2 - 2
        /\ \A i \in 1..(t + 1 - 2) : s[i] = Tok("trailer", j, 2 + i - 1)
        /\ s[t + 2 - 2] = Tok("end", j, 0)
    BY <2>2, <2>4, <2>5, <2>6, TrailersAre
  <2>8. /\ s \in Seq(Token) /\ Len(s) = t
        /\ \A i \in 1..(t - 1) : s[i] = Tok("trailer", j, 2 + i - 1)
        /\ s[t] = Tok("end", j, 0)
    BY <2>5, <2>7
  <2>9. s[1].t \in {"trailer", "end"}
    <3>1. CASE t = 1
      <4>1. Tok("end", j, 0).t = "end"
        BY <2>2, Tokens
      <4> QED
        BY <2>8, <3>1, <4>1
    <3>2. CASE t # 1
      <4>1. 1 \in 1..(t - 1) /\ 2 + 1 - 1 \in Nat
        BY <2>5, <3>2
      <4>2. Tok("trailer", j, 2 + 1 - 1).t = "trailer"
        BY <2>2, <4>1, Tokens
      <4>3. s[1] = Tok("trailer", j, 2 + 1 - 1)
        BY <2>8, <4>1
      <4> QED
        BY <4>2, <4>3
    <3> QED
      BY <3>1, <3>2
  <2>10. Strays(ms, k) = s
    BY <1>2, <2>1, <2>6 DEF Strays
  <2>11. s # <<>>
    <3>1. Len(<<>>) = 0
      OBVIOUS
    <3> QED
      BY <2>5, <2>8, <3>1
  <2> QED
    BY <1>2, <2>5, <2>8, <2>9, <2>10, <2>11
<1> QED
  BY <1>1, <1>2

LEMMA HereIs ==
    ASSUME NEW ms \in Streams, NEW k \in 1..(Len(ms) + 1)
    PROVE  /\ Here(ms, k) \in Seq(Token)
           /\ Strays(ms, k) # <<>> =>
                /\ Len(Here(ms, k)) > 0 /\ Here(ms, k)[1].t \in {"trailer", "end"}
           /\ Strays(ms, k) = <<>> => Here(ms, k) = From[ms][k]
           /\ Strays(ms, k) = <<>> /\ k > Len(ms) => Here(ms, k) = <<>>
           /\ Strays(ms, k) = <<>> /\ k <= Len(ms) =>
                /\ k \in 1..Len(ms) /\ Here(ms, k) = Wire[ms][k] \o From[ms][k + 1]
                /\ Len(Here(ms, k)) >= Len(Wire[ms][k])
                /\ \A i \in 1..Len(Wire[ms][k]) : Here(ms, k)[i] = Wire[ms][k][i]
<1>1. PICK s, f, h : s = Strays(ms, k) /\ f = From[ms][k] /\ h = Here(ms, k)
  OBVIOUS
<1>2. Len(ms) \in Nat
  BY StreamOf
<1>3. s \in Seq(Token) /\ f \in Seq(Token)
  <2>1. s \in Seq(Token)
    BY <1>1, StraysAre
  <2>2. f \in Seq(Token)
    BY <1>1, FromIs
  <2> QED
    BY <2>1, <2>2
<1>4. h = s \o f
  BY <1>1 DEF Here
<1>5. /\ h \in Seq(Token) /\ Len(h) = Len(s) + Len(f)
      /\ \A i \in 1..Len(s) : h[i] = s[i]
  BY <1>3, <1>4, Joined
<1>6. s # <<>> => Len(h) > 0 /\ h[1].t \in {"trailer", "end"}
  <2>1. ASSUME s # <<>> PROVE Len(h) > 0 /\ h[1].t \in {"trailer", "end"}
    <3>1. Len(s) > 0 /\ s[1].t \in {"trailer", "end"}
      BY <1>1, <2>1, StraysAre
    <3>2. Len(s) \in Nat /\ Len(f) \in Nat
      BY <1>3
    <3>3. 1 \in 1..Len(s) /\ Len(h) > 0
      BY <1>5, <3>1, <3>2
    <3> QED
      BY <1>5, <3>1, <3>3
  <2> QED
    BY <2>1
<1>7. s = <<>> => h = f
  BY <1>3, <1>4, ConcatEmptySeq
<1>8. s = <<>> /\ k > Len(ms) => h = <<>>
  <2>1. k > Len(ms) => k = Len(ms) + 1
    BY <1>2
  <2>2. From[ms][Len(ms) + 1] = <<>>
    BY FromIs
  <2> QED
    BY <1>1, <1>7, <2>1, <2>2
<1>9. ASSUME s = <<>>, k <= Len(ms)
      PROVE  /\ k \in 1..Len(ms) /\ h = Wire[ms][k] \o From[ms][k + 1]
             /\ Len(h) >= Len(Wire[ms][k])
             /\ \A i \in 1..Len(Wire[ms][k]) : h[i] = Wire[ms][k][i]
  <2>1. k \in 1..Len(ms) /\ k + 1 \in 1..(Len(ms) + 1)
    BY <1>2, <1>9
  <2>2. PICK w, g : w = Wire[ms][k] /\ g = From[ms][k + 1]
    OBVIOUS
  <2>3. h = w \o g
    BY <1>1, <1>7, <1>9, <2>1, <2>2, FromIs
  <2>4. w \in Seq(Token)
    BY <2>1, <2>2, WireIs
  <2>5. g \in Seq(Token)
    BY <2>1, <2>2, FromIs
  <2>6. Len(h) = Len(w) + Len(g) /\ \A i \in 1..Len(w) : h[i] = w[i]
    BY <2>3, <2>4, <2>5, Joined
  <2>7. Len(w) \in Nat /\ Len(g) \in Nat
    BY <2>4, <2>5
  <2>8. Len(h) >= Len(w)
    BY <2>6, <2>7
  <2> QED
    BY <2>1, <2>2, <2>3, <2>6, <2>8
<1> QED
  BY <1>1, <1>5, <1>6, <1>7, <1>8, <1>9

LEMMA EndsAre ==
    ASSUME NEW ms \in Streams, NEW k \in 1..Len(ms)
    PROVE  LET m == ms[k]
               h == m.lines + 1
           IN /\ h \in Nat /\ h >= 2 /\ Size(m) \in Nat /\ Ends(ms, k) \in Nat
              /\ Len(Wire[ms][k]) = Ends(ms, k) + m.trailers /\ m.trailers \in Nat
              /\ m.framing = "none" => Ends(ms, k) = h /\ Size(m) = 0
              /\ m.framing = "length" => Ends(ms, k) = h + Size(m)
              /\ m.framing = "chunked" =>
                   /\ Ends(ms, k) = h + BodyEnd(m) /\ BodyEnd(m) \in Nat /\ BodyEnd(m) >= 2
                   /\ Len(ChunksOf(ms, k)) = BodyEnd(m) + m.trailers
              /\ \A raw : HasArrived(ms, k, raw)
                   <=> Len(raw) >= (IF IsEmpty(m) THEN Ends(ms, k) + 1 ELSE Ends(ms, k))
<1>1. PICK m, t, l, z, w : /\ m = ms[k] /\ t = m.trailers /\ l = Len(Wire[ms][k])
                           /\ z = Size(m) /\ w = Wire[ms][k]
  OBVIOUS
<1>2. m \in Message /\ m.framing \in {"none", "length", "chunked"}
  BY <1>1, StreamOf
<1>3. t \in Nat /\ m.lines \in Nat \ {0} /\ z \in Nat /\ Len(m.body) \in Nat
  BY <1>1, <1>2, MessageFields, UnitsFall
<1>4. PICK h : h = m.lines + 1
  OBVIOUS
<1>5. h \in Nat /\ h >= 2
  BY <1>3, <1>4
<1>6. t > 0 => m.framing = "chunked"
  BY <1>1, StreamOf
<1>7. Ends(ms, k) = l - t
  BY <1>1 DEF Ends
<1>8. CASE m.framing = "none"
  <2>1. l = h /\ t = 0
    BY <1>1, <1>3, <1>4, <1>6, <1>8, WireIs
  <2>2. z = 0
    BY <1>1, <1>2, <1>8, StreamOf, UnitsFall
  <2>3. Ends(ms, k) = h /\ Ends(ms, k) + t = l
    BY <1>5, <1>7, <2>1
  <2>4. ~IsEmpty(m)
    BY <1>8 DEF IsEmpty
  <2>5. \A raw : HasArrived(ms, k, raw) <=> Len(raw) >= Ends(ms, k)
    BY <1>1, <2>1, <2>3, <2>4 DEF HasArrived
  <2> QED
    BY <1>1, <1>3, <1>4, <1>5, <1>8, <2>2, <2>3, <2>4, <2>5
<1>9. CASE m.framing = "length"
  <2>1. l = h + z /\ t = 0
    BY <1>1, <1>3, <1>4, <1>6, <1>9, WireIs
  <2>2. Ends(ms, k) = h + z /\ Ends(ms, k) + t = l /\ h + z \in Nat
    BY <1>3, <1>5, <1>7, <2>1
  <2>3. \A raw : HasArrived(ms, k, raw)
          <=> Len(raw) >= (IF IsEmpty(m) THEN Ends(ms, k) + 1 ELSE Ends(ms, k))
    BY <1>1, <2>1, <2>2 DEF HasArrived
  <2> QED
    BY <1>1, <1>3, <1>4, <1>5, <1>9, <2>2, <2>3
<1>10. CASE m.framing = "chunked"
  <2>1. PICK e, c : e = BodyEnd(m) /\ c = Len(ChunksOf(ms, k))
    OBVIOUS
  <2>2. e = Start(m, Len(m.body) + 1) + 2 /\ Start(m, Len(m.body) + 1) \in Nat
    <3>1. Len(m.body) + 1 \in 1..(Len(m.body) + 1)
      BY <1>3
    <3> QED
      BY <1>2, <2>1, <3>1, Starts DEF BodyEnd
  <2>3. e \in Nat /\ e >= 2
    BY <2>2
  <2>4. c = e + t
    BY <1>1, <2>1, <2>2, ChunkPlaces
  <2>5. l = h + c
    BY <1>1, <1>4, <1>10, <2>1, WireIs
  <2>6. Ends(ms, k) = h + e /\ Ends(ms, k) + t = l /\ h + e \in Nat
    BY <1>3, <1>5, <1>7, <2>3, <2>4, <2>5
  <2>7. ~IsEmpty(m)
    BY <1>10 DEF IsEmpty
  <2>8. t = 0 => l = Ends(ms, k)
    BY <2>6
  <2>9. ~(t > 0) => t = 0
    BY <1>3
  <2>10. \A raw : HasArrived(ms, k, raw) <=> Len(raw) >= Ends(ms, k)
    BY <1>1, <1>7, <2>7, <2>8, <2>9 DEF HasArrived
  <2> QED
    BY <1>1, <1>3, <1>4, <1>5, <1>10, <2>1, <2>3, <2>4, <2>6, <2>7, <2>10
<1> QED
  BY <1>2, <1>8, <1>9, <1>10

LEMMA HeaderEnd ==
    ASSUME NEW r \in RequestType
    PROVE  /\ EndOfHeaders(r) = 0 \/ (EndOfHeaders(r) \in 2..Len(r.raw) /\ r.raw[EndOfHeaders(r)].t = "end")
           /\ \A p \in 2..Len(r.raw) : r.raw[p].t = "end" =>
                EndOfHeaders(r) # 0 /\ EndOfHeaders(r) <= p
<1> DEFINE ends == {p \in 2..Len(r.raw) : r.raw[p].t = "end"}
<1>1. EndOfHeaders(r) = IF ends = {} THEN 0 ELSE Min(ends)
  BY DEF EndOfHeaders
<1>2. Len(r.raw) \in Nat
  BY DEF RequestType
<1>3. CASE ends = {}
  BY <1>1, <1>3
<1>4. CASE ends # {}
  <2>1. ends \subseteq Nat /\ ends \subseteq 2..Len(r.raw)
    BY <1>2
  <2>2. Min(ends) \in ends /\ \A x \in ends : Min(ends) <= x
    <3> HIDE DEF ends
    <3> QED
      BY <1>4, <2>1, LeastOf
  <2>3. PICK e : e = Min(ends)
    OBVIOUS
  <2>4. e \in 2..Len(r.raw) /\ r.raw[e].t = "end" /\ \A p \in 2..Len(r.raw) : r.raw[p].t = "end" => e <= p
    BY <2>2, <2>3
  <2>5. EndOfHeaders(r) = e
    BY <1>1, <1>4, <2>3
  <2>6. e # 0
    BY <1>2, <2>4
  <2> QED
    BY <2>4, <2>5, <2>6
<1> QED
  BY <1>3, <1>4

\* StartsWell, for a stream.
Fits(ms, r) == r.raw[1].t = "line" /\ r.raw[1].n = 1 /\ ms[r.raw[1].of].valid

LEMMA HeaderKept ==
    ASSUME NEW r \in RequestType, NEW q \in RequestType, Opens(r.raw, q.raw),
           NEW ms, EndOfHeaders(r) # 0
    PROVE  EndOfHeaders(q) # 0 /\ (Fits(ms, q) <=> Fits(ms, r))
<1>1. PICK e : e = EndOfHeaders(r)
  OBVIOUS
<1>2. e \in 2..Len(r.raw) /\ r.raw[e].t = "end"
  BY <1>1, HeaderEnd
<1>3. Len(r.raw) \in Nat /\ Len(q.raw) \in Nat
  BY DEF RequestType
<1>4. e \in 1..Len(r.raw) /\ 1 \in 1..Len(r.raw) /\ e \in 2..Len(q.raw)
  BY <1>2, <1>3 DEF Opens
<1>5. r.raw[e] = q.raw[e] /\ r.raw[1] = q.raw[1]
  BY <1>4 DEF Opens
<1>6. EndOfHeaders(q) # 0
  BY <1>2, <1>4, <1>5, HeaderEnd
<1> QED
  BY <1>5, <1>6 DEF Fits

LEMMA HeaderSeen ==
    ASSUME NEW ms \in Streams, NEW k \in 1..(Len(ms) + 1), NEW r \in RequestType,
           Opens(r.raw, Here(ms, k))
    PROVE  /\ Strays(ms, k) # <<>> /\ EndOfHeaders(r) # 0 => ~Fits(ms, r)
           /\ Strays(ms, k) = <<>> /\ k > Len(ms) => EndOfHeaders(r) = 0
           /\ Strays(ms, k) = <<>> /\ k <= Len(ms) =>
                /\ EndOfHeaders(r) = IF Len(r.raw) >= ms[k].lines + 1 THEN ms[k].lines + 1 ELSE 0
                /\ EndOfHeaders(r) # 0 => r.raw[1].of = k /\ (Fits(ms, r) <=> ms[k].valid)
<1>1. PICK raw, e, h : raw = r.raw /\ e = EndOfHeaders(r) /\ h = Here(ms, k)
  OBVIOUS
<1>2. /\ e = 0 \/ (e \in 2..Len(raw) /\ raw[e].t = "end")
      /\ \A p \in 2..Len(raw) : raw[p].t = "end" => e # 0 /\ e <= p
  BY <1>1, HeaderEnd
<1>3. raw \in Seq(Token) /\ Len(raw) \in Nat
  BY <1>1 DEF RequestType
<1>4. Len(raw) <= Len(h) /\ \A i \in 1..Len(raw) : raw[i] = h[i]
  BY <1>1 DEF Opens
<1>5. e # 0 => 1 \in 1..Len(raw)
  BY <1>2, <1>3
<1>6. ASSUME Strays(ms, k) # <<>>, e # 0 PROVE ~Fits(ms, r)
  <2>1. h[1].t \in {"trailer", "end"}
    BY <1>1, <1>6, HereIs
  <2>2. raw[1] = h[1]
    BY <1>4, <1>5, <1>6
  <2> QED
    BY <1>1, <2>1, <2>2 DEF Fits
<1>7. ASSUME Strays(ms, k) = <<>>, k > Len(ms) PROVE e = 0
  <2>1. h = <<>>
    BY <1>1, <1>7, HereIs
  <2>2. Len(h) = 0
    BY <2>1
  <2> QED
    BY <1>2, <1>3, <1>4, <2>2
<1>8. ASSUME Strays(ms, k) = <<>>, k <= Len(ms)
      PROVE  /\ e = IF Len(raw) >= ms[k].lines + 1 THEN ms[k].lines + 1 ELSE 0
             /\ e # 0 => raw[1].of = k /\ (Fits(ms, r) <=> ms[k].valid)
  <2>1. k \in 1..Len(ms) /\ k \in Nat
    BY <1>8, StreamOf, HereIs
  <2>2. PICK l, w : l = ms[k].lines /\ w = Wire[ms][k]
    OBVIOUS
  <2>3. l \in Nat \ {0}
    BY <2>1, <2>2, StreamOf, MessageFields
  <2>4. (\A j \in 1..l : w[j] = Tok("line", k, j)) /\ w[l + 1] = Tok("end", k, 0)
    BY <2>1, <2>2, WireIs
  <2>5. Len(w) \in Nat /\ Len(w) >= l + 1
    <3>1. w \in Seq(Token)
      BY <2>1, <2>2, WireIs
    <3>2. PICK z, y : z = Ends(ms, k) /\ y = ms[k].trailers
      OBVIOUS
    <3>3. Len(w) = z + y /\ y \in Nat /\ z \in Nat
      BY <2>1, <2>2, <3>2, EndsAre
    <3>4. z >= l + 1
      <4>1. ms[k].framing \in {"none", "length", "chunked"}
        BY <2>1, StreamOf
      <4>2. Size(ms[k]) \in Nat /\ (ms[k].framing = "none" => z = l + 1)
            /\ (ms[k].framing = "length" => z = l + 1 + Size(ms[k]))
            /\ (ms[k].framing = "chunked" => z = l + 1 + BodyEnd(ms[k]) /\ BodyEnd(ms[k]) \in Nat)
        BY <2>1, <2>2, <3>2, EndsAre
      <4> QED
        BY <2>3, <4>1, <4>2
    <3> QED
      BY <2>3, <3>3, <3>4
  <2>6. \A i \in 1..Len(raw) : i <= l + 1 => raw[i] = w[i]
    <3>1. \A i \in 1..Len(w) : h[i] = w[i]
      BY <1>1, <1>8, <2>2, HereIs
    <3>2. \A i \in 1..Len(raw) : i <= l + 1 => i \in 1..Len(w)
      BY <1>3, <2>3, <2>5
    <3> QED
      BY <1>4, <3>1, <3>2
  <2>7. \A j \in Nat : /\ Tok("line", k, j).t = "line" /\ Tok("line", k, j).n = j
                       /\ Tok("line", k, j).of = k /\ Tok("end", k, j).t = "end"
    BY <2>1, Tokens
  <2>8. \A p \in 2..Len(raw) : p <= l => raw[p].t # "end"
    <3> TAKE p \in 2..Len(raw)
    <3> HAVE p <= l
    <3>1. p \in 1..l /\ p \in 1..Len(raw) /\ p <= l + 1 /\ p \in Nat
      BY <1>3, <2>3
    <3>2. raw[p] = Tok("line", k, p)
      BY <2>4, <2>6, <3>1
    <3>3. raw[p].t = "line"
      BY <2>7, <3>1, <3>2
    <3> QED
      BY <3>3
  <2>9. ASSUME Len(raw) >= l + 1 PROVE e = l + 1
    <3>1. l + 1 \in 2..Len(raw) /\ l + 1 \in 1..Len(raw) /\ 0 \in Nat
      BY <1>3, <2>3, <2>9
    <3>2. raw[l + 1].t = "end"
      BY <2>3, <2>4, <2>6, <2>7, <3>1
    <3>3. e # 0 /\ e <= l + 1
      BY <1>2, <3>1, <3>2
    <3>4. e \in 2..Len(raw) /\ ~(e <= l)
      BY <1>2, <2>8, <3>3
    <3>5. e = l + 1
      BY <1>3, <2>3, <3>3, <3>4
    <3> QED
      BY <3>5
  <2>10. ASSUME ~(Len(raw) >= l + 1) PROVE e = 0
    <3>1. \A p \in 2..Len(raw) : p <= l
      BY <1>3, <2>3, <2>10
    <3>2. e = 0
      BY <1>2, <2>8, <3>1
    <3> QED
      BY <3>2
  <2>11. ASSUME e # 0 PROVE raw[1].of = k /\ (Fits(ms, r) <=> ms[k].valid)
    <3>1. 1 \in 1..Len(raw) /\ 1 <= l + 1 /\ 1 \in 1..l
      BY <1>5, <2>3, <2>11
    <3>2. raw[1] = Tok("line", k, 1)
      BY <2>4, <2>6, <3>1
    <3>3. raw[1].t = "line" /\ raw[1].n = 1 /\ raw[1].of = k
      BY <2>7, <3>2
    <3> QED
      BY <1>1, <3>3 DEF Fits
  <2> QED
    BY <2>2, <2>9, <2>10, <2>11
<1> QED
  BY <1>1, <1>6, <1>7, <1>8

-----------------------------------------------------------------------------
(* What one call of the parser does *)

LEMMA BodyParsed ==
    ASSUME msgs \in Streams, NEW k \in 1..Len(msgs), NEW r \in RequestType,
           Opens(r.raw, Here(msgs, k)), Strays(msgs, k) = <<>>,
           r.head = k, r.error = 0, Len(r.raw) >= msgs[k].lines + 1
    PROVE  LET m == msgs[k]
               q == ParseBodyOnly(r)
           IN \/ /\ HasArrived(msgs, k, r.raw)
                 /\ m.framing = "chunked" => ~TooLong(Size(m))
                 /\ q \in RequestType /\ q.complete /\ q.error = 0 /\ q.consumed = Ends(msgs, k)
                 /\ q.body = IF m.framing = "none" THEN r.body ELSE Payload(msgs, k)
                 /\ q.raw = r.raw /\ q.head = k /\ q.headersParsed = r.headersParsed
              \/ ~HasArrived(msgs, k, r.raw) /\ q = r
              \/ m.framing = "chunked" /\ TooLong(Size(m)) /\ q = Refuse(r, 413)
<1>1. PICK ms : ms = msgs
  OBVIOUS
<1>2. ms \in Streams /\ k \in 1..Len(ms) /\ k \in 1..(Len(ms) + 1) /\ k <= Len(ms)
  BY <1>1, StreamOf
<1>3. PICK m, h, raw, w, E : /\ m = ms[k] /\ h = m.lines + 1 /\ raw = r.raw
                             /\ w = Wire[ms][k] /\ E = Ends(ms, k)
  OBVIOUS
<1>4. /\ h \in Nat /\ h >= 2 /\ Size(m) \in Nat /\ E \in Nat
      /\ Len(w) = E + m.trailers /\ m.trailers \in Nat
      /\ m.framing = "none" => E = h /\ Size(m) = 0
      /\ m.framing = "length" => E = h + Size(m)
      /\ m.framing = "chunked" =>
           /\ E = h + BodyEnd(m) /\ BodyEnd(m) \in Nat /\ BodyEnd(m) >= 2
           /\ Len(ChunksOf(ms, k)) = BodyEnd(m) + m.trailers
      /\ HasArrived(ms, k, raw) <=> Len(raw) >= (IF IsEmpty(m) THEN E + 1 ELSE E)
  BY <1>2, <1>3, EndsAre
<1>5. raw \in Seq(Token) /\ Len(raw) \in Nat /\ Len(raw) >= h
  BY <1>1, <1>3 DEF RequestType
<1>6. EndOfHeaders(r) = h
  BY <1>1, <1>2, <1>3, <1>5, HeaderSeen
<1>7. \A i \in 1..Len(raw) : i <= Len(w) => raw[i] = w[i]
  <2>1. \A i \in 1..Len(w) : Here(ms, k)[i] = w[i]
    BY <1>1, <1>2, <1>3, HereIs
  <2>2. \A i \in 1..Len(raw) : raw[i] = Here(ms, k)[i]
    BY <1>1, <1>3 DEF Opens
  <2>3. Len(w) \in Nat
    BY <1>4
  <2>4. \A i \in 1..Len(raw) : i <= Len(w) => i \in 1..Len(w)
    BY <1>5, <2>3
  <2> QED
    BY <2>1, <2>2, <2>4
<1>8. PICK block : block = SubSeq(raw, h + 1, Len(raw))
  OBVIOUS
<1>9. /\ block \in Seq(Token) /\ Len(block) = Len(raw) - h /\ Len(block) \in Nat
      /\ \A i \in 1..Len(block) : block[i] = raw[h + i]
  <2>1. h <= Len(raw) /\ Len(raw) <= Len(raw)
    BY <1>4, <1>5
  <2>2. /\ SubSeq(raw, h + 1, Len(raw)) \in Seq(Token)
        /\ Len(SubSeq(raw, h + 1, Len(raw))) = Len(raw) - h
        /\ \A i \in 1..(Len(raw) - h) : SubSeq(raw, h + 1, Len(raw))[i] = raw[h + i]
    BY <1>4, <1>5, <2>1, Part
  <2>3. Len(raw) - h \in Nat
    BY <1>4, <1>5
  <2> QED
    BY <1>8, <2>2, <2>3
<1>10. HeadersOf(r) = m
  BY <1>1, <1>3 DEF HeadersOf
<1>11. m.framing \in {"none", "length", "chunked"} /\ (m.method = "GET" => m.framing = "none")
  BY <1>2, <1>3, StreamOf
<1>12. ParseBodyOnly(r) =
         IF m.framing = "none"
         THEN [r EXCEPT !.complete = TRUE, !.consumed = h]
         ELSE IF block = <<>> THEN r
         ELSE IF m.framing = "chunked" THEN ParseChunked(r, block)
         ELSE ParseLength(r, block)
  BY <1>3, <1>6, <1>8, <1>10, <1>11 DEF ParseBodyOnly
<1>13. block = <<>> <=> Len(block) = 0
  BY <1>9
<1>14. PICK q : q = ParseBodyOnly(r)
  OBVIOUS
<1>15. CASE m.framing = "none"
  <2>1. q = [r EXCEPT !.complete = TRUE, !.consumed = h]
    BY <1>12, <1>14, <1>15
  <2>2. /\ q \in RequestType /\ q.complete /\ q.consumed = h /\ q.body = r.body
        /\ q.raw = r.raw /\ q.head = r.head /\ q.headersParsed = r.headersParsed
        /\ q.error = r.error
    BY <1>4, <2>1, FinishedBare
  <2>3. ~IsEmpty(m)
    BY <1>15 DEF IsEmpty
  <2>4. HasArrived(ms, k, raw)
    BY <1>4, <1>5, <1>15, <2>3
  <2> QED
    BY <1>1, <1>3, <1>4, <1>14, <1>15, <2>2, <2>4
<1>16. CASE m.framing = "length"
  <2>1. PICK z, p : z = Size(m) /\ p = Payload(ms, k)
    OBVIOUS
  <2>2. z \in Nat /\ E = h + z /\ p \in Seq(Token) /\ Len(p) = z
    BY <1>2, <1>3, <1>4, <1>16, <2>1, StreamOf, PayloadIs
  <2>3. IsEmpty(m) <=> z = 0
    <3>1. m \in Message
      BY <1>2, <1>3, StreamOf
    <3> QED
      BY <1>16, <2>1, <3>1, UnitsFall DEF IsEmpty
  <2>4. HasArrived(ms, k, raw) <=> Len(block) > 0 /\ Len(block) >= z
    <3>1. HasArrived(ms, k, raw) <=> Len(raw) >= (IF z = 0 THEN E + 1 ELSE E)
      BY <1>4, <2>3
    <3>2. PICK n, b : n = Len(raw) /\ b = Len(block)
      OBVIOUS
    <3>3. n \in Nat /\ b \in Nat /\ h \in Nat /\ z \in Nat /\ E = h + z /\ b = n - h /\ n >= h
      BY <1>4, <1>5, <1>9, <2>2, <3>2
    <3>4. n >= (IF z = 0 THEN E + 1 ELSE E) <=> b > 0 /\ b >= z
      BY ONLY <3>3
    <3> QED
      BY <3>1, <3>2, <3>4
  <2>5. CASE Len(block) = 0
    <3>1. q = r
      BY <1>12, <1>13, <1>14, <1>16, <2>5
    <3>2. ~HasArrived(ms, k, raw)
      BY <2>4, <2>5
    <3> QED
      BY <1>1, <1>3, <1>14, <3>1, <3>2
  <2>6. CASE Len(block) # 0
    <3>1. q = ParseLength(r, block)
      BY <1>12, <1>13, <1>14, <1>16, <2>6
    <3>2. q = IF Len(block) < z THEN r
              ELSE [r EXCEPT !.body = SubSeq(block, 1, z), !.complete = TRUE,
                             !.consumed = h + z]
      BY <1>6, <1>10, <2>1, <3>1 DEF ParseLength
    <3>3. CASE Len(block) < z
      <4>1. q = r
        BY <3>2, <3>3
      <4>2. ~HasArrived(ms, k, raw)
        BY <1>9, <2>2, <2>4, <3>3
      <4> QED
        BY <1>1, <1>3, <1>14, <4>1, <4>2
    <3>4. CASE ~(Len(block) < z)
      <4>1. HasArrived(ms, k, raw)
        BY <1>9, <2>2, <2>4, <2>6, <3>4
      <4>2. PICK s : s = SubSeq(block, 1, z)
        OBVIOUS
      <4>3. s \in Seq(Token) /\ Len(s) = z /\ \A i \in 1..z : s[i] = block[i]
        <5>1. 0 \in Nat /\ z \in Nat /\ 0 <= z /\ z <= Len(block) /\ block \in Seq(Token)
          BY <1>9, <2>2, <3>4
        <5>2. /\ SubSeq(block, 0 + 1, z) \in Seq(Token)
              /\ Len(SubSeq(block, 0 + 1, z)) = z - 0
              /\ \A i \in 1..(z - 0) : SubSeq(block, 0 + 1, z)[i] = block[0 + i]
          BY ONLY <5>1, Part
        <5>3. 0 + 1 = 1 /\ z - 0 = z /\ \A i \in 1..z : 0 + i = i
          BY <2>2
        <5> QED
          BY <4>2, <5>2, <5>3
      <4>4. \A i \in 1..z : s[i] = p[i]
        <5> TAKE i \in 1..z
        <5>1. /\ i \in 1..Len(block) /\ h + i \in 1..Len(raw) /\ h + i <= Len(w)
          <6>1. PICK n, b, x : n = Len(raw) /\ b = Len(block) /\ x = Len(w)
            OBVIOUS
          <6>2. /\ n \in Nat /\ b \in Nat /\ x \in Nat /\ b = n - h /\ z <= b /\ x >= h + z
                /\ h \in Nat /\ z \in Nat /\ i \in 1..z
            BY <1>4, <1>5, <1>9, <2>2, <3>4, <6>1
          <6>3. i \in 1..b /\ h + i \in 1..n /\ h + i <= x
            BY ONLY <6>2
          <6> QED
            BY <6>1, <6>3
        <5>2. block[i] = w[h + i]
          BY <1>7, <1>9, <5>1
        <5>3. w[h + i] = p[i]
          BY <1>2, <1>3, <1>16, <2>1, WireIs
        <5> QED
          BY <4>3, <5>2, <5>3
      <4>5. s = p
        <5>1. Len(s) = Len(p) /\ \A i \in 1..Len(s) : s[i] = p[i]
          BY <2>2, <4>3, <4>4
        <5> QED
          BY <2>2, <4>3, <5>1, SeqEqual
      <4>6. q = Finish(r, p, E)
        BY <2>2, <3>2, <3>4, <4>2, <4>5 DEF Finish
      <4>7. /\ q \in RequestType /\ q.body = p /\ q.complete /\ q.consumed = E
            /\ q.raw = r.raw /\ q.head = r.head /\ q.headersParsed = r.headersParsed
            /\ q.error = r.error
        <5>1. r \in RequestType /\ p \in Seq(Token) /\ E \in Nat
          BY <1>4, <2>2
        <5> QED
          BY ONLY <5>1, <4>6, Finished
      <4> QED
        BY <1>1, <1>3, <1>14, <1>16, <2>1, <4>1, <4>7
    <3> QED
      BY <3>3, <3>4
  <2> QED
    BY <2>5, <2>6
<1>17. CASE m.framing = "chunked"
  <2>1. PICK B, cs, z, p : B = BodyEnd(m) /\ cs = ChunksOf(ms, k) /\ z = Size(m) /\ p = Payload(ms, k)
    OBVIOUS
  <2>2. /\ E = h + B /\ B \in Nat /\ B >= 2 /\ Len(cs) = B + m.trailers /\ z \in Nat
        /\ p \in Seq(Token) /\ Len(p) = z
    BY <1>2, <1>3, <1>4, <1>17, <2>1, StreamOf, PayloadIs
  <2>3. Len(w) = h + Len(cs) /\ \A j \in 1..Len(cs) : w[h + j] = cs[j]
    <3>1. ms[k].framing = "chunked"
      BY <1>3, <1>17
    <3>2. /\ Len(Wire[ms][k]) = ms[k].lines + 1 + Len(ChunksOf(ms, k))
          /\ \A j \in 1..Len(ChunksOf(ms, k)) :
               Wire[ms][k][ms[k].lines + 1 + j] = ChunksOf(ms, k)[j]
      BY <1>2, <3>1, WireIs
    <3> QED
      BY <1>3, <2>1, <3>2
  <2>4. \A i \in 1..Len(block) : i <= Len(cs) => block[i] = cs[i]
    <3> TAKE i \in 1..Len(block)
    <3> HAVE i <= Len(cs)
    <3>1. i \in 1..Len(cs) /\ h + i \in 1..Len(raw) /\ h + i <= Len(w)
      <4>1. PICK n, b, x, y : n = Len(raw) /\ b = Len(block) /\ x = Len(w) /\ y = Len(cs)
        OBVIOUS
      <4>2. y \in Nat
        BY <1>4, <2>2, <4>1
      <4>3. /\ n \in Nat /\ b \in Nat /\ b = n - h /\ x = h + y /\ n >= h
            /\ h \in Nat /\ i \in 1..b /\ i <= y
        BY <1>4, <1>5, <1>9, <2>3, <4>1
      <4>4. i \in 1..y /\ h + i \in 1..n /\ h + i <= x
        BY ONLY <4>2, <4>3
      <4> QED
        BY <4>1, <4>4
    <3>2. block[i] = w[h + i]
      BY <1>7, <1>9, <3>1
    <3> QED
      BY <2>3, <3>1, <3>2
  <2>5. PICK c : c = WholeChunks(block)
    OBVIOUS
  <2>6. /\ c \in Found /\ (c.ended <=> Len(block) >= B) /\ Len(c.body) <= z
        /\ c.ended => c.used = B /\ c.body = p
    BY <1>2, <1>3, <1>9, <2>1, <2>4, <2>5, ChunksFound, SMTT(30)
  <2>7. ~IsEmpty(m)
    BY <1>17 DEF IsEmpty
  <2>8. HasArrived(ms, k, raw) <=> Len(block) >= B
    <3>1. PICK n, b : n = Len(raw) /\ b = Len(block)
      OBVIOUS
    <3>2. n \in Nat /\ b \in Nat /\ b = n - h /\ n >= h /\ h \in Nat /\ B \in Nat /\ E = h + B
      BY <1>4, <1>5, <1>9, <2>2, <3>1
    <3>3. n >= E <=> b >= B
      BY ONLY <3>2
    <3> QED
      BY <1>4, <2>7, <3>1, <3>3
  <2>9. CASE Len(block) = 0
    <3>1. q = r
      BY <1>12, <1>13, <1>14, <1>17, <2>9
    <3>2. ~HasArrived(ms, k, raw)
      BY <2>2, <2>8, <2>9
    <3> QED
      BY <1>1, <1>3, <1>14, <3>1, <3>2
  <2>10. CASE Len(block) # 0
    <3>1. q = ParseChunked(r, block)
      BY <1>12, <1>13, <1>14, <1>17, <2>10
    <3>2. q = IF TooLong(Len(c.body)) THEN Refuse(r, 413)
              ELSE IF ~c.ended THEN r
              ELSE [r EXCEPT !.body = c.body, !.complete = TRUE, !.consumed = h + c.used]
      BY <1>6, <2>5, <3>1 DEF ParseChunked
    <3>3. TooLong(Len(c.body)) => TooLong(z)
      <4>1. c.body \in Seq(Token)
        BY <2>6 DEF Found
      <4>2. Len(c.body) \in Nat /\ MAXBODY \in Nat
        BY <4>1, LimitsAssumption
      <4> QED
        BY <2>2, <2>6, <4>2 DEF TooLong
    <3>4. CASE TooLong(Len(c.body))
      BY <1>1, <1>3, <1>14, <1>17, <2>1, <3>2, <3>3, <3>4
    <3>5. CASE ~TooLong(Len(c.body)) /\ ~c.ended
      BY <1>1, <1>3, <1>14, <2>6, <2>8, <3>2, <3>5
    <3>6. CASE ~TooLong(Len(c.body)) /\ c.ended
      <4>1. ~TooLong(z)
        BY <2>2, <2>6, <3>6
      <4>2. q = Finish(r, p, E)
        BY <2>2, <2>6, <3>2, <3>6 DEF Finish
      <4>3. /\ q \in RequestType /\ q.body = p /\ q.complete /\ q.consumed = E
            /\ q.raw = r.raw /\ q.head = r.head /\ q.headersParsed = r.headersParsed
            /\ q.error = r.error
        <5>1. r \in RequestType /\ p \in Seq(Token) /\ E \in Nat
          BY <1>4, <2>2
        <5> QED
          BY ONLY <5>1, <4>2, Finished
      <4>4. HasArrived(ms, k, raw)
        BY <2>6, <2>8, <3>6
      <4> QED
        BY <1>1, <1>3, <1>14, <1>17, <2>1, <4>1, <4>3, <4>4
    <3> QED
      BY <3>4, <3>5, <3>6
  <2> QED
    BY <2>9, <2>10
<1> QED
  BY <1>11, <1>15, <1>16, <1>17

Blank(r) == ~r.headersParsed /\ r.head = 0 /\ r.body = <<>> /\ r.consumed = 0

TooBig(r) == r.error = 431 /\ Len(r.raw) > MAXHEAD

Unfit(ms, k, r) ==
    /\ r.error = 400 /\ EndOfHeaders(r) # 0 /\ ~Fits(ms, r)
    /\ Strays(ms, k) # <<>> \/ (k <= Len(ms) /\ Complaint(ms[k]) = 400)

TooMuch(ms, k, r) ==
    /\ r.error = 413 /\ r.complete /\ r.headersParsed /\ r.head = k
    /\ r.body = <<>> /\ r.consumed = 0
    /\ k <= Len(ms) /\ Strays(ms, k) = <<>> /\ Complaint(ms[k]) = 413

\* The headers of message k are read, and will do.
Accepted(ms, k, r) ==
    /\ r.headersParsed /\ r.error = 0 /\ r.head = k
    /\ k <= Len(ms) /\ Strays(ms, k) = <<>>
    /\ ms[k].valid /\ ms[k].lines + 1 <= MAXHEAD /\ Len(r.raw) >= ms[k].lines + 1
    /\ ms[k].framing = "length" => ~TooLong(Size(ms[k]))

\* All of message k is there.  What build() keeps of a form may have replaced its body.
Whole(ms, k, r) ==
    /\ r.complete /\ HasArrived(ms, k, r.raw) /\ Complaint(ms[k]) = 0
    /\ r.consumed = Ends(ms, k)
    /\ r.body \in {Payload(ms, k), ParseMultipart(Payload(ms, k))}

\* What can be in client.req while message k is next.
Held(ms, k, r) ==
    \/ Blank(r) /\ ~r.complete /\ r.error = 0
    \/ Blank(r) /\ r.complete /\ (TooBig(r) \/ Unfit(ms, k, r))
    \/ TooMuch(ms, k, r)
    \/ Accepted(ms, k, r) /\ ~r.complete /\ r.body = <<>> /\ r.consumed = 0
    \/ Accepted(ms, k, r) /\ Whole(ms, k, r)

\* It has been parsed to the last byte.
Parsed(ms, k, r) ==
    /\ Held(ms, k, r)
    /\ ~r.complete => IF r.headersParsed THEN ~HasArrived(ms, k, r.raw) ELSE EndOfHeaders(r) = 0

LEMMA HeldOn ==
    ASSUME NEW ms \in Streams, NEW k \in 1..(Len(ms) + 1),
           NEW r \in RequestType, NEW q \in RequestType,
           Held(ms, k, r), Opens(r.raw, q.raw),
           q.head = r.head, q.headersParsed = r.headersParsed, q.complete = r.complete,
           q.error = r.error, q.body = r.body, q.consumed = r.consumed
    PROVE  Held(ms, k, q)
<1>1. Len(r.raw) \in Nat /\ Len(q.raw) \in Nat /\ Len(q.raw) >= Len(r.raw)
  <2>1. Len(r.raw) \in Nat /\ Len(q.raw) \in Nat
    BY DEF RequestType
  <2> QED
    BY <2>1 DEF Opens
<1>2. Blank(r) => Blank(q)
  BY DEF Blank
<1>3. TooBig(r) => TooBig(q)
  BY <1>1, LimitsAssumption DEF TooBig
<1>4. Unfit(ms, k, r) => Unfit(ms, k, q)
  <2>1. ASSUME Unfit(ms, k, r) PROVE Unfit(ms, k, q)
    <3>1. EndOfHeaders(r) # 0
      BY <2>1 DEF Unfit
    <3>2. EndOfHeaders(q) # 0 /\ (Fits(ms, q) <=> Fits(ms, r))
      BY <3>1, HeaderKept
    <3> QED
      BY <2>1, <3>2 DEF Unfit
  <2> QED
    BY <2>1
<1>5. TooMuch(ms, k, r) => TooMuch(ms, k, q)
  BY DEF TooMuch
<1>6. ASSUME Accepted(ms, k, r) PROVE Accepted(ms, k, q)
  <2>1. k \in 1..Len(ms) /\ Len(ms) \in Nat
    <3>1. Len(ms) \in Nat /\ k <= Len(ms)
      BY <1>6, StreamOf DEF Accepted
    <3> QED
      BY <3>1
  <2>2. PICK x, y, l : x = Len(r.raw) /\ y = Len(q.raw) /\ l = ms[k].lines
    OBVIOUS
  <2>3. l \in Nat /\ x \in Nat /\ y \in Nat /\ y >= x /\ x >= l + 1
    <3>1. l \in Nat
      BY <2>1, <2>2, StreamOf, MessageFields
    <3> QED
      BY <1>1, <1>6, <2>2, <3>1 DEF Accepted
  <2>4. y >= l + 1
    BY ONLY <2>3
  <2> QED
    BY <1>6, <2>2, <2>4 DEF Accepted
<1>7. ASSUME Accepted(ms, k, r), Whole(ms, k, r) PROVE Whole(ms, k, q)
  <2>1. k \in 1..Len(ms)
    <3>1. Len(ms) \in Nat /\ k <= Len(ms)
      BY <1>7, StreamOf DEF Accepted
    <3> QED
      BY <3>1
  <2>2. PICK E : E = IF IsEmpty(ms[k]) THEN Ends(ms, k) + 1 ELSE Ends(ms, k)
    OBVIOUS
  <2>3. E \in Nat /\ \A raw : HasArrived(ms, k, raw) <=> Len(raw) >= E
    <3>1. Ends(ms, k) \in Nat
      BY <2>1, EndsAre
    <3>2. \A raw : HasArrived(ms, k, raw) <=> Len(raw) >= E
      BY <2>1, <2>2, EndsAre
    <3> QED
      BY <2>2, <3>1, <3>2
  <2>4. HasArrived(ms, k, r.raw) => HasArrived(ms, k, q.raw)
    BY <1>1, <2>3
  <2> QED
    BY <1>7, <2>4 DEF Whole
<1> QED
  BY <1>2, <1>3, <1>4, <1>5, <1>6, <1>7 DEF Held

LEMMA ComplaintOf ==
    ASSUME NEW m \in Message, m.lines + 1 <= MAXHEAD
    PROVE  /\ ~m.valid => Complaint(m) = 400
           /\ m.valid /\ TooLong(Size(m)) => Complaint(m) = 413
           /\ m.valid /\ ~TooLong(Size(m)) => Complaint(m) = 0
<1>1. ~(m.lines + 1 > MAXHEAD)
  <2>1. m.lines \in Nat /\ MAXHEAD \in Nat
    BY MessageFields, LimitsAssumption
  <2> QED
    BY <2>1
<1> QED
  BY <1>1 DEF Complaint

LEMMA NoComplaint ==
    ASSUME NEW m \in Message, Complaint(m) = 0
    PROVE  m.valid /\ ~TooLong(Size(m)) /\ m.lines + 1 <= MAXHEAD
<1>1. m.lines \in Nat /\ MAXHEAD \in Nat
  BY MessageFields, LimitsAssumption
<1>2. ~(m.lines + 1 > MAXHEAD) /\ m.valid /\ ~TooLong(Size(m))
  BY DEF Complaint
<1> QED
  BY <1>1, <1>2

LEMMA NoBody ==
    ASSUME NEW ms \in Streams, NEW k \in 1..Len(ms), ms[k].framing = "none"
    PROVE  /\ Payload(ms, k) = <<>> /\ ParseMultipart(Payload(ms, k)) = <<>>
           /\ ~TooLong(Size(ms[k]))
<1>1. Size(ms[k]) = 0
  BY EndsAre
<1>2. Payload(ms, k) \in Seq(Token) /\ Len(Payload(ms, k)) = 0
  BY <1>1, StreamOf, PayloadIs
<1>3. Payload(ms, k) = <<>>
  BY <1>2
<1>4. SubSeq(<<>>, 2, 0 - 1) = <<>>
  <2>1. 2 \in Int /\ 0 - 1 \in Int /\ 0 - 1 < 2
    OBVIOUS
  <2> QED
    BY <2>1, SubSeqEmpty
<1>5. ParseMultipart(Payload(ms, k)) = <<>>
  BY <1>2, <1>3, <1>4 DEF ParseMultipart
<1>6. ~TooLong(0)
  BY LimitsAssumption DEF TooLong
<1> QED
  BY <1>1, <1>3, <1>5, <1>6

LEMMA BodyStep ==
    ASSUME msgs \in Streams, NEW k \in 1..(Len(msgs) + 1), NEW r \in RequestType,
           Opens(r.raw, Here(msgs, k)), Accepted(msgs, k, r),
           \/ ~r.complete /\ r.body = <<>> /\ r.consumed = 0
           \/ Whole(msgs, k, r)
    PROVE  LET q == ParseBodyOnly(r) IN
           /\ q \in RequestType /\ q.raw = r.raw /\ Parsed(msgs, k, q)
           /\ r.complete => q.complete /\ q.error = 0
           /\ q.complete /\ q.error = 0 => q.body = Payload(msgs, k)
<1>1. PICK ms : ms = msgs
  OBVIOUS
<1>2. ms \in Streams /\ k \in 1..Len(ms)
  <2>1. Len(ms) \in Nat /\ k <= Len(ms)
    BY <1>1, StreamOf DEF Accepted
  <2> QED
    BY <1>1, <2>1
<1>3. PICK m, q : m = ms[k] /\ q = ParseBodyOnly(r)
  OBVIOUS
<1>4. m \in Message
  BY <1>2, <1>3, StreamOf
<1>5. /\ r.headersParsed /\ r.error = 0 /\ r.head = k /\ k <= Len(ms) /\ Strays(ms, k) = <<>>
      /\ m.valid /\ m.lines + 1 <= MAXHEAD /\ Len(r.raw) >= m.lines + 1
      /\ m.framing = "length" => ~TooLong(Size(m))
  BY <1>1, <1>3 DEF Accepted
<1>6. \/ /\ HasArrived(ms, k, r.raw)
         /\ m.framing = "chunked" => ~TooLong(Size(m))
         /\ q \in RequestType /\ q.complete /\ q.error = 0 /\ q.consumed = Ends(ms, k)
         /\ q.body = IF m.framing = "none" THEN r.body ELSE Payload(ms, k)
         /\ q.raw = r.raw /\ q.head = k /\ q.headersParsed = r.headersParsed
      \/ ~HasArrived(ms, k, r.raw) /\ q = r
      \/ m.framing = "chunked" /\ TooLong(Size(m)) /\ q = Refuse(r, 413)
  <2>1. /\ k \in 1..Len(msgs) /\ Strays(msgs, k) = <<>>
        /\ r.head = k /\ r.error = 0 /\ Len(r.raw) >= msgs[k].lines + 1
    BY <1>1, <1>2, <1>3, <1>5
  <2>2. \/ /\ HasArrived(msgs, k, r.raw)
           /\ msgs[k].framing = "chunked" => ~TooLong(Size(msgs[k]))
           /\ ParseBodyOnly(r) \in RequestType /\ ParseBodyOnly(r).complete
           /\ ParseBodyOnly(r).error = 0 /\ ParseBodyOnly(r).consumed = Ends(msgs, k)
           /\ ParseBodyOnly(r).body = IF msgs[k].framing = "none" THEN r.body ELSE Payload(msgs, k)
           /\ ParseBodyOnly(r).raw = r.raw /\ ParseBodyOnly(r).head = k
           /\ ParseBodyOnly(r).headersParsed = r.headersParsed
        \/ ~HasArrived(msgs, k, r.raw) /\ ParseBodyOnly(r) = r
        \/ msgs[k].framing = "chunked" /\ TooLong(Size(msgs[k])) /\ ParseBodyOnly(r) = Refuse(r, 413)
    BY <2>1, BodyParsed
  <2> QED
    BY <1>1, <1>3, <2>2
<1>7. ASSUME /\ HasArrived(ms, k, r.raw)
             /\ m.framing = "chunked" => ~TooLong(Size(m))
             /\ q \in RequestType /\ q.complete /\ q.error = 0 /\ q.consumed = Ends(ms, k)
             /\ q.body = IF m.framing = "none" THEN r.body ELSE Payload(ms, k)
             /\ q.raw = r.raw /\ q.head = k /\ q.headersParsed = r.headersParsed
      PROVE  Parsed(ms, k, q) /\ q.body = Payload(ms, k)
  <2>1. q.body = Payload(ms, k)
    <3>1. CASE m.framing = "none"
      <4>1. Payload(ms, k) = <<>> /\ ParseMultipart(Payload(ms, k)) = <<>>
        BY <1>2, <1>3, <3>1, NoBody
      <4>2. r.body = <<>>
        BY <1>1, <4>1 DEF Whole
      <4> QED
        BY <1>7, <3>1, <4>1, <4>2
    <3>2. CASE m.framing # "none"
      BY <1>7, <3>2
    <3> QED
      BY <3>1, <3>2
  <2>2. ~TooLong(Size(m))
    <3>1. m.framing \in {"none", "length", "chunked"}
      BY <1>2, <1>3, StreamOf
    <3>2. m.framing = "none" => ~TooLong(Size(m))
      BY <1>2, <1>3, NoBody
    <3> QED
      BY <1>5, <1>7, <3>1, <3>2
  <2>3. Complaint(m) = 0
    BY <1>4, <1>5, <2>2, ComplaintOf
  <2>4. Accepted(ms, k, q)
    BY <1>3, <1>5, <1>7 DEF Accepted
  <2>5. Whole(ms, k, q)
    BY <1>3, <1>7, <2>1, <2>3 DEF Whole
  <2> QED
    BY <1>7, <2>1, <2>4, <2>5 DEF Parsed, Held
<1>8. ASSUME ~HasArrived(ms, k, r.raw), q = r
      PROVE  q \in RequestType /\ ~r.complete /\ Parsed(ms, k, q)
  <2>1. ~Whole(ms, k, r)
    BY <1>8 DEF Whole
  <2>2. ~r.complete /\ r.body = <<>> /\ r.consumed = 0
    BY <1>1, <2>1
  <2> QED
    BY <1>1, <1>5, <1>8, <2>2 DEF Parsed, Held
<1>9. ASSUME m.framing = "chunked", TooLong(Size(m)), q = Refuse(r, 413)
      PROVE  /\ q \in RequestType /\ q.raw = r.raw /\ ~r.complete
             /\ Parsed(ms, k, q) /\ q.error # 0
  <2>1. Complaint(m) = 413
    BY <1>4, <1>5, <1>9, ComplaintOf
  <2>2. ~Whole(ms, k, r)
    BY <1>3, <2>1 DEF Whole
  <2>3. ~r.complete /\ r.body = <<>> /\ r.consumed = 0
    BY <1>1, <2>2
  <2>4. /\ q \in RequestType /\ q.error = 413 /\ q.complete
        /\ q.raw = r.raw /\ q.head = r.head /\ q.headersParsed = r.headersParsed
        /\ q.body = r.body /\ q.consumed = r.consumed
    BY <1>9, Denied DEF Errors
  <2>5. TooMuch(ms, k, q)
    BY <1>3, <1>5, <2>1, <2>3, <2>4 DEF TooMuch
  <2> QED
    BY <2>3, <2>4, <2>5 DEF Parsed, Held
<1> QED
  BY <1>1, <1>3, <1>5, <1>6, <1>7, <1>8, <1>9

\* One call of _parseClientRequest() takes whatever is in the buffer as far as it
\* can be taken, and what was complete before stays so.
LEMMA ParseStep ==
    ASSUME msgs \in Streams, NEW k \in 1..(Len(msgs) + 1), NEW r \in RequestType,
           Opens(r.raw, Here(msgs, k)), Held(msgs, k, r)
    PROVE  LET q == ParseClientRequest(r) IN
           /\ q \in RequestType /\ q.raw = r.raw /\ Parsed(msgs, k, q)
           /\ r.complete => q.complete /\ (q.error = 0 <=> r.error = 0)
           /\ q.complete /\ q.error = 0 => q.body = Payload(msgs, k)
<1>1. PICK q : q = ParseClientRequest(r)
  OBVIOUS
<1>2. Len(r.raw) \in Nat /\ MAXHEAD \in Nat
  BY LimitsAssumption DEF RequestType
<1>3. Blank(r) => (r.complete => r.error # 0)
  <2>1. TooBig(r) \/ Unfit(msgs, k, r) => r.error # 0
    BY DEF TooBig, Unfit
  <2> QED
    BY <2>1 DEF Held, Blank, TooMuch, Accepted
<1>4. ~r.headersParsed => Blank(r)
  BY DEF Held, TooMuch, Accepted
<1>5. CASE ~r.headersParsed /\ Len(r.raw) > MAXHEAD
  <2>1. q = Refuse(r, 431)
    BY <1>1, <1>5 DEF ParseClientRequest
  <2>2. /\ q \in RequestType /\ q.error = 431 /\ q.complete
        /\ q.raw = r.raw /\ q.head = r.head /\ q.headersParsed = r.headersParsed
        /\ q.body = r.body /\ q.consumed = r.consumed
    BY <2>1, Denied DEF Errors
  <2>3. Blank(q) /\ TooBig(q)
    BY <1>4, <1>5, <2>2 DEF Blank, TooBig
  <2> QED
    BY <1>1, <1>3, <1>4, <1>5, <2>2, <2>3 DEF Parsed, Held
<1>6. CASE ~r.headersParsed /\ ~(Len(r.raw) > MAXHEAD)
  <2>1. Blank(r) /\ ~TooBig(r)
    BY <1>4, <1>6 DEF TooBig
  <2>2. PICK a, h : a = ParseHeadersOnly(r) /\ h = Authorize(a)
    OBVIOUS
  <2>3. q = IF h.headersParsed /\ h.error = 0 THEN ParseBodyOnly(h) ELSE h
    BY <1>1, <1>6, <2>2 DEF ParseClientRequest
  <2>4. CASE EndOfHeaders(r) = 0
    <3>1. a = r
      BY <2>2, <2>4 DEF ParseHeadersOnly
    <3>2. h = r
      BY <1>6, <2>2, <3>1 DEF Authorize
    <3>3. q = r
      BY <1>6, <2>3, <3>2
    <3>4. ~Unfit(msgs, k, r) /\ ~TooMuch(msgs, k, r) /\ ~Accepted(msgs, k, r)
      BY <1>6, <2>4 DEF Unfit, TooMuch, Accepted
    <3>5. ~r.complete /\ r.error = 0
      BY <2>1, <3>4 DEF Held
    <3>6. Parsed(msgs, k, r)
      BY <1>6, <2>4 DEF Parsed
    <3> QED
      BY <1>1, <3>3, <3>5, <3>6
  <2>5. CASE EndOfHeaders(r) # 0 /\ ~StartsWell(r)
    <3>1. a = Refuse(r, 400)
      BY <2>2, <2>5 DEF ParseHeadersOnly
    <3>2. /\ a \in RequestType /\ a.error = 400 /\ a.complete
          /\ a.raw = r.raw /\ a.head = r.head /\ a.headersParsed = r.headersParsed
          /\ a.body = r.body /\ a.consumed = r.consumed
      BY <3>1, Denied DEF Errors
    <3>3. h = a
      BY <1>6, <2>2, <3>2 DEF Authorize
    <3>4. q = a
      BY <1>6, <2>3, <3>2, <3>3
    <3>5. Blank(q)
      BY <2>1, <3>2, <3>4 DEF Blank
    <3>6. ~Fits(msgs, r)
      BY <2>5 DEF StartsWell, Fits
    <3>7. EndOfHeaders(q) # 0 /\ ~Fits(msgs, q)
      <4>1. q.raw = r.raw
        BY <3>2, <3>4
      <4>2. EndOfHeaders(q) = EndOfHeaders(r)
        BY <4>1 DEF EndOfHeaders
      <4>3. Fits(msgs, q) <=> Fits(msgs, r)
        BY <4>1 DEF Fits
      <4> QED
        BY <2>5, <3>6, <4>2, <4>3
    <3>8. ASSUME Strays(msgs, k) = <<>> PROVE k <= Len(msgs) /\ Complaint(msgs[k]) = 400
      <4>1. k <= Len(msgs)
        <5>1. Len(msgs) \in Nat
          BY StreamOf
        <5>2. ~(k > Len(msgs))
          BY <2>5, <3>8, HeaderSeen
        <5> QED
          BY <5>1, <5>2
      <4>2. k \in 1..Len(msgs)
        BY <4>1, StreamOf
      <4>3. /\ EndOfHeaders(r) = IF Len(r.raw) >= msgs[k].lines + 1 THEN msgs[k].lines + 1 ELSE 0
            /\ Fits(msgs, r) <=> msgs[k].valid
        BY <2>5, <3>8, <4>1, HeaderSeen
      <4>4. msgs[k] \in Message /\ msgs[k].lines \in Nat
        BY <4>2, StreamOf, MessageFields
      <4>5. Len(r.raw) >= msgs[k].lines + 1
        BY <2>5, <4>3
      <4>6. msgs[k].lines + 1 <= MAXHEAD
        BY <1>2, <1>6, <4>4, <4>5
      <4>7. ~msgs[k].valid
        BY <3>6, <4>3
      <4> QED
        BY <4>1, <4>4, <4>6, <4>7, ComplaintOf
    <3>9. Unfit(msgs, k, q)
      BY <3>2, <3>4, <3>7, <3>8 DEF Unfit
    <3>10. Parsed(msgs, k, q)
      BY <3>2, <3>4, <3>5, <3>9 DEF Parsed, Held
    <3>11. q.error # 0 /\ q.complete
      BY <3>2, <3>4
    <3> QED
      BY <1>1, <1>3, <2>1, <3>2, <3>4, <3>10, <3>11
  <2>6. CASE EndOfHeaders(r) # 0 /\ StartsWell(r)
    <3>1. Fits(msgs, r)
      BY <2>6 DEF StartsWell, Fits
    <3>2. ~Unfit(msgs, k, r) /\ ~TooMuch(msgs, k, r) /\ ~Accepted(msgs, k, r)
      BY <1>6, <3>1 DEF Unfit, TooMuch, Accepted
    <3>3. ~r.complete /\ r.error = 0
      BY <2>1, <3>2 DEF Held
    <3>4. Strays(msgs, k) = <<>>
      BY <2>6, <3>1, HeaderSeen
    <3>5. k <= Len(msgs)
      <4>1. Len(msgs) \in Nat
        BY StreamOf
      <4>2. ~(k > Len(msgs))
        BY <2>6, <3>4, HeaderSeen
      <4> QED
        BY <4>1, <4>2
    <3>6. k \in 1..Len(msgs) /\ k \in Nat
      BY <3>5, StreamOf
    <3>7. /\ EndOfHeaders(r) = IF Len(r.raw) >= msgs[k].lines + 1 THEN msgs[k].lines + 1 ELSE 0
          /\ r.raw[1].of = k /\ msgs[k].valid
      BY <2>6, <3>1, <3>4, <3>5, HeaderSeen
    <3>8. msgs[k] \in Message /\ msgs[k].lines \in Nat
      BY <3>6, StreamOf, MessageFields
    <3>9. Len(r.raw) >= msgs[k].lines + 1
      BY <2>6, <3>7
    <3>10. msgs[k].lines + 1 <= MAXHEAD
      BY <1>2, <1>6, <3>8, <3>9
    <3>11. a = [r EXCEPT !.headersParsed = TRUE, !.head = k]
      BY <2>2, <2>6, <3>7 DEF ParseHeadersOnly
    <3>12. /\ a \in RequestType /\ a.headersParsed /\ a.head = k
           /\ a.raw = r.raw /\ a.complete = r.complete /\ a.error = r.error
           /\ a.body = r.body /\ a.consumed = r.consumed
      BY <3>6, <3>11, Titled
    <3>13. HeadersOf(a) = msgs[k]
      BY <3>12 DEF HeadersOf
    <3>14. a.body = <<>> /\ a.consumed = 0 /\ ~a.complete /\ a.error = 0
      BY <2>1, <3>3, <3>12 DEF Blank
    <3>15. CASE msgs[k].framing = "length" /\ TooLong(Size(msgs[k]))
      <4>1. h = Refuse(a, 413)
        BY <2>2, <3>12, <3>13, <3>15 DEF Authorize
      <4>2. /\ h \in RequestType /\ h.error = 413 /\ h.complete
            /\ h.raw = a.raw /\ h.head = a.head /\ h.headersParsed = a.headersParsed
            /\ h.body = a.body /\ h.consumed = a.consumed
        <5>1. a \in RequestType /\ 413 \in Errors
          BY <3>12 DEF Errors
        <5> QED
          BY <4>1, <5>1, Denied
      <4>3. q = h
        BY <2>3, <4>2
      <4>4. Complaint(msgs[k]) = 413
        BY <3>7, <3>8, <3>10, <3>15, ComplaintOf
      <4>5. TooMuch(msgs, k, q)
        BY <3>4, <3>5, <3>12, <3>14, <4>2, <4>3, <4>4, ZenonT(30) DEF TooMuch
      <4>6. Parsed(msgs, k, q) /\ q.error # 0
        BY <4>2, <4>3, <4>5 DEF Parsed, Held
      <4> QED
        BY <1>1, <3>3, <3>12, <4>2, <4>3, <4>6
    <3>16. CASE ~(msgs[k].framing = "length" /\ TooLong(Size(msgs[k])))
      <4>1. h = a
        BY <2>2, <3>12, <3>13, <3>16 DEF Authorize
      <4>2. q = ParseBodyOnly(a)
        BY <2>3, <3>12, <3>14, <4>1
      <4>3. Accepted(msgs, k, a)
        BY <3>4, <3>5, <3>7, <3>9, <3>10, <3>12, <3>14, <3>16 DEF Accepted
      <4>4. a \in RequestType /\ Opens(a.raw, Here(msgs, k))
        BY <3>12
      <4>5. /\ q \in RequestType /\ q.raw = a.raw /\ Parsed(msgs, k, q)
            /\ q.complete /\ q.error = 0 => q.body = Payload(msgs, k)
        BY <3>14, <4>2, <4>3, <4>4, BodyStep
      <4> QED
        BY <1>1, <3>3, <3>12, <4>5
    <3> QED
      BY <3>15, <3>16
  <2> QED
    BY <2>4, <2>5, <2>6
<1>7. CASE r.headersParsed /\ r.error # 0
  <2>1. q = r
    BY <1>1, <1>7 DEF ParseClientRequest
  <2>2. TooMuch(msgs, k, r)
    BY <1>7 DEF Held, Blank, Accepted
  <2>3. r.complete
    BY <2>2 DEF TooMuch
  <2>4. Parsed(msgs, k, r)
    BY <2>3 DEF Parsed
  <2> QED
    BY <1>1, <1>7, <2>1, <2>3, <2>4
<1>8. CASE r.headersParsed /\ r.error = 0
  <2>1. q = ParseBodyOnly(r)
    BY <1>1, <1>8 DEF ParseClientRequest
  <2>2. /\ Accepted(msgs, k, r)
        /\ \/ ~r.complete /\ r.body = <<>> /\ r.consumed = 0
           \/ Whole(msgs, k, r)
    BY <1>8 DEF Held, Blank, TooMuch
  <2>3. /\ q \in RequestType /\ q.raw = r.raw /\ Parsed(msgs, k, q)
        /\ r.complete => q.complete /\ q.error = 0
        /\ q.complete /\ q.error = 0 => q.body = Payload(msgs, k)
    BY <2>1, <2>2, BodyStep
  <2> QED
    BY <1>1, <1>8, <2>3
<1> QED
  BY <1>5, <1>6, <1>7, <1>8

-----------------------------------------------------------------------------
(* Cutting and joining *)

\* What has been taken and what is left are the whole.
LEMMA CutAt ==
    ASSUME NEW S, NEW s \in Seq(S), NEW n \in 0..Len(s)
    PROVE  /\ SubSeq(s, 1, n) \in Seq(S) /\ Len(SubSeq(s, 1, n)) = n
           /\ SubSeq(s, n + 1, Len(s)) \in Seq(S) /\ Len(SubSeq(s, n + 1, Len(s))) = Len(s) - n
           /\ SubSeq(s, 1, n) \o SubSeq(s, n + 1, Len(s)) = s
<1>1. PICK a, b, l : a = SubSeq(s, 0 + 1, n) /\ b = SubSeq(s, n + 1, Len(s)) /\ l = Len(s)
  OBVIOUS
<1>2. l \in Nat /\ n \in Nat /\ n <= l /\ 0 \in Nat /\ 0 <= n /\ n - 0 = n /\ 0 + 1 = 1
  BY <1>1
<1>3. a \in Seq(S) /\ Len(a) = n /\ \A i \in 1..n : a[i] = s[0 + i]
  BY <1>1, <1>2, Part
<1>4. b \in Seq(S) /\ Len(b) = l - n /\ \A i \in 1..(l - n) : b[i] = s[n + i]
  BY <1>1, <1>2, Part
<1>5. PICK c : c = a \o b
  OBVIOUS
<1>6. /\ c \in Seq(S) /\ Len(c) = Len(a) + Len(b)
      /\ \A i \in 1..Len(a) : c[i] = a[i]
      /\ \A i \in 1..Len(b) : c[Len(a) + i] = b[i]
  <2>1. a \in Seq(S)
    BY <1>3
  <2>2. b \in Seq(S)
    BY <1>4
  <2> QED
    BY ONLY <1>5, <2>1, <2>2, Joined
<1>7. Len(c) = l
  BY <1>2, <1>3, <1>4, <1>6
<1>8. ASSUME NEW i \in 1..l PROVE c[i] = s[i]
  <2>1. CASE i <= n
    <3>1. i \in 1..n /\ 0 + i = i
      BY <2>1
    <3> QED
      BY <1>3, <1>6, <3>1
  <2>2. CASE ~(i <= n)
    <3>1. i - n \in 1..(l - n) /\ n + (i - n) = i
      BY <1>2, <2>2
    <3> QED
      BY <1>3, <1>4, <1>6, <3>1
  <2> QED
    BY <2>1, <2>2
<1>9. c = s
  BY <1>1, <1>6, <1>7, <1>8, SeqEqual
<1> QED
  BY <1>1, <1>2, <1>3, <1>4, <1>5, <1>9

LEMMA OpensIt ==
    ASSUME NEW S, NEW s \in Seq(S), NEW t \in Seq(S)
    PROVE  Opens(s, s \o t)
<1>1. Len(s \o t) = Len(s) + Len(t) /\ \A i \in 1..Len(s) : (s \o t)[i] = s[i]
  BY Joined
<1>2. Len(s) \in Nat /\ Len(t) \in Nat
  OBVIOUS
<1> QED
  BY <1>1, <1>2 DEF Opens

LEMMA Regrouped ==
    ASSUME NEW S, NEW s \in Seq(S), NEW t \in Seq(S), NEW u \in Seq(S)
    PROVE  (s \o t) \o u = s \o (t \o u)
  OBVIOUS

\* If two sequences begin a third one, what is left of the longer begins there too.
LEMMA Behind ==
    ASSUME NEW S, NEW a \in Seq(S), NEW b \in Seq(S), NEW c \in Seq(S), NEW d \in Seq(S),
           a \o b = c \o d, NEW n \in Nat, n = Len(c), n <= Len(a)
    PROVE  SubSeq(a, n + 1, Len(a)) \o b = d
<1>1. PICK p, q : p = SubSeq(a, 1, n) /\ q = SubSeq(a, n + 1, Len(a))
  OBVIOUS
<1>2. n \in 0..Len(a)
  OBVIOUS
<1>3. a \in Seq(S) /\ b \in Seq(S)
  OBVIOUS
<1>4. p \in Seq(S) /\ q \in Seq(S) /\ p \o q = a /\ Len(p) = n
  <2>1. /\ SubSeq(a, 1, n) \in Seq(S) /\ Len(SubSeq(a, 1, n)) = n
        /\ SubSeq(a, n + 1, Len(a)) \in Seq(S)
        /\ SubSeq(a, 1, n) \o SubSeq(a, n + 1, Len(a)) = a
    BY ONLY <1>3, <1>2, CutAt
  <2> QED
    BY ONLY <1>1, <2>1
<1>5. PICK e, w : e = q \o b /\ w = a \o b
  OBVIOUS
<1>6. w = p \o e
  <2>1. (p \o q) \o b = p \o (q \o b)
    <3>1. p \in Seq(S)
      BY ONLY <1>4
    <3>2. q \in Seq(S)
      BY ONLY <1>4
    <3> QED
      BY ONLY <3>1, <3>2, <1>3, Regrouped, SMTT(60)
  <2> QED
    BY ONLY <1>4, <1>5, <2>1
<1>7. e \in Seq(S)
  BY <1>4, <1>5, Joined
<1>8. /\ Len(w) = Len(p) + Len(e)
      /\ \A i \in 1..Len(e) : w[Len(p) + i] = e[i]
  <2>1. p \in Seq(S)
    BY ONLY <1>4
  <2> QED
    BY ONLY <1>6, <1>7, <2>1, Joined
<1>9. /\ Len(w) = Len(c) + Len(d)
      /\ \A i \in 1..Len(d) : w[Len(c) + i] = d[i]
  BY <1>5, Joined
<1>10. Len(e) = Len(d)
  <2>1. Len(e) \in Nat /\ Len(d) \in Nat
    BY <1>7
  <2> QED
    BY <1>4, <1>8, <1>9, <2>1
<1>11. \A i \in 1..Len(e) : e[i] = d[i]
  BY <1>4, <1>8, <1>9, <1>10
<1>12. e = d
  BY <1>7, <1>10, <1>11, SeqEqual
<1> QED
  BY <1>1, <1>5, <1>12

\* a and then b, and what of it is behind the first n.
Both(a, b) == a \o b
Past(a, b, n) == SubSeq(a, n + 1, Len(a)) \o b

LEMMA BehindBoth ==
    ASSUME NEW S, NEW a \in Seq(S), NEW b \in Seq(S), NEW w \in Seq(S), NEW g \in Seq(S),
           Both(a, b) = Both(w, g), NEW n \in 0..Len(w), n <= Len(a)
    PROVE  Past(a, b, n) = Past(w, g, n)
<1>1. PICK p, q : p = SubSeq(w, 1, n) /\ q = SubSeq(w, n + 1, Len(w))
  OBVIOUS
<1>2. p \in Seq(S) /\ Len(p) = n /\ q \in Seq(S) /\ p \o q = w
  <2>1. w \in Seq(S)
    OBVIOUS
  <2>2. /\ SubSeq(w, 1, n) \in Seq(S) /\ Len(SubSeq(w, 1, n)) = n
        /\ SubSeq(w, n + 1, Len(w)) \in Seq(S)
        /\ SubSeq(w, 1, n) \o SubSeq(w, n + 1, Len(w)) = w
    BY ONLY <2>1, CutAt
  <2> QED
    BY ONLY <1>1, <2>2
<1>3. PICK d : d = q \o g
  OBVIOUS
<1>4. d \in Seq(S)
  <2>1. q \in Seq(S)
    BY ONLY <1>2
  <2> QED
    BY ONLY <1>3, <2>1, g \in Seq(S), Joined
<1>5. a \o b = p \o d
  <2>1. p \in Seq(S)
    BY ONLY <1>2
  <2>2. q \in Seq(S)
    BY ONLY <1>2
  <2>3. (p \o q) \o g = p \o (q \o g)
    <3>1. g \in Seq(S)
      OBVIOUS
    <3> QED
      BY ONLY <2>1, <2>2, <3>1, Regrouped, SMTT(60)
  <2> QED
    BY <1>2, <1>3, <2>3 DEF Both
<1>6. n \in Nat /\ n = Len(p)
  BY <1>2
<1>7. p \in Seq(S)
  BY <1>2
<1>8. SubSeq(a, n + 1, Len(a)) \o b = d
  <2>1. a \in Seq(S) /\ b \in Seq(S) /\ n <= Len(a)
    OBVIOUS
  <2> QED
    BY ONLY <2>1, <1>4, <1>5, <1>6, <1>7, Behind
<1> QED
  BY <1>1, <1>3, <1>8 DEF Past

-----------------------------------------------------------------------------
(* From one message to the next *)

\* The lines behind the first trailer are the end of a message that has trailers.
LEMMA TailIs ==
    ASSUME NEW ms \in Streams, NEW k \in 1..Len(ms)
    PROVE  SubSeq(Wire[ms][k], Ends(ms, k) + 1, Len(Wire[ms][k])) = Strays(ms, k + 1)
<1>1. PICK w, E, t, l : w = Wire[ms][k] /\ E = Ends(ms, k) /\ t = ms[k].trailers /\ l = Len(Wire[ms][k])
  OBVIOUS
<1>2. w \in Seq(Token) /\ l = Len(w)
  BY <1>1, WireIs
<1>3. E \in Nat /\ t \in Nat /\ l = E + t
  BY <1>1, EndsAre
<1>4. PICK z : z = SubSeq(w, E + 1, l)
  OBVIOUS
<1>5. z \in Seq(Token) /\ Len(z) = t /\ \A i \in 1..t : z[i] = w[E + i]
  <2>1. E <= l /\ l <= Len(w) /\ l - E = t /\ l \in Nat
    BY <1>2, <1>3
  <2>2. /\ SubSeq(w, E + 1, l) \in Seq(Token) /\ Len(SubSeq(w, E + 1, l)) = l - E
        /\ \A i \in 1..(l - E) : SubSeq(w, E + 1, l)[i] = w[E + i]
    <3>1. w \in Seq(Token) /\ E \in Nat
      BY ONLY <1>2, <1>3
    <3> QED
      BY ONLY <2>1, <3>1, Part
  <2> QED
    BY <1>4, <2>1, <2>2
<1>6. k + 1 \in 1..(Len(ms) + 1) /\ k + 1 > 1 /\ (k + 1) - 1 = k
  BY StreamOf
<1>7. CASE t = 0
  <2>1. Strays(ms, k + 1) = <<>>
    <3>1. ms[(k + 1) - 1].trailers = 0
      BY ONLY <1>1, <1>6, <1>7, Zenon
    <3>2. ~(ms[(k + 1) - 1].trailers > 0)
      BY ONLY <3>1
    <3> QED
      BY ONLY <3>2 DEF Strays
  <2>2. z = <<>>
    BY <1>5, <1>7
  <2> QED
    BY <1>1, <1>4, <2>1, <2>2
<1>8. CASE t # 0
  <2>1. t > 0 /\ 2 <= t + 1 /\ 1 <= t + 1 /\ t + 2 - 2 = t /\ t + 2 - 1 = t + 1
    BY <1>3, <1>8
  <2>2. PICK y, x : y = TrailersOf(ms, k, 2) /\ x = TrailersOf(ms, k, 1)
    OBVIOUS
  <2>3. Strays(ms, k + 1) = y
    BY <1>1, <1>6, <2>1, <2>2 DEF Strays
  <2>4. ms \in Seq(Message)
    BY StreamOf
  <2>5. /\ y \in Seq(Token) /\ Len(y) = t
        /\ \A j \in 1..(t + 1 - 2) : y[j] = Tok("trailer", k, 2 + j - 1)
        /\ y[t] = Tok("end", k, 0)
    <3>1. /\ y \in Seq(Token) /\ Len(y) = t + 2 - 2
          /\ \A j \in 1..(t + 1 - 2) : y[j] = Tok("trailer", k, 2 + j - 1)
          /\ y[t + 2 - 2] = Tok("end", k, 0)
      BY <1>1, <2>1, <2>2, <2>4, TrailersAre
    <3> QED
      BY <2>1, <3>1
  <2>6. /\ \A j \in 1..(t + 1 - 1) : x[j] = Tok("trailer", k, 1 + j - 1)
        /\ x[t + 1] = Tok("end", k, 0)
    <3>1. /\ \A j \in 1..(t + 1 - 1) : x[j] = Tok("trailer", k, 1 + j - 1)
          /\ x[t + 2 - 1] = Tok("end", k, 0)
      BY <1>1, <2>1, <2>2, <2>4, TrailersAre
    <3> QED
      BY <2>1, <3>1
  <2>7. PICK cs, h, B, S, m : /\ cs = ChunksOf(ms, k) /\ h = ms[k].lines + 1 /\ B = BodyEnd(ms[k])
                              /\ S = Start(ms[k], Len(ms[k].body) + 1) /\ m = ms[k]
    OBVIOUS
  <2>8. m.framing = "chunked"
    BY <1>1, <2>1, <2>7, StreamOf
  <2>9. /\ h \in Nat /\ E = h + B /\ B \in Nat /\ Len(cs) = B + t
    BY <1>1, <2>7, <2>8, EndsAre
  <2>10. \A j \in 1..Len(cs) : w[h + j] = cs[j]
    BY <1>1, <2>7, <2>8, WireIs
  <2>11. \A j \in 1..(t + 1) : cs[S + 1 + j] = x[j]
    BY <1>1, <2>2, <2>7, ChunkPlaces
  <2>12. B = S + 2 /\ S \in Nat
    <3>1. m \in Message
      BY <2>7, StreamOf
    <3>2. S \in Nat
      <4>1. Len(m.body) + 1 \in 1..(Len(m.body) + 1)
        BY <3>1, MessageFields
      <4> QED
        BY <2>7, <3>1, <4>1, Starts
    <3> QED
      BY <2>7, <3>2 DEF BodyEnd
  <2>13. ASSUME NEW i \in 1..t PROVE z[i] = y[i]
    <3>1. /\ B + i \in 1..Len(cs) /\ E + i = h + (B + i) /\ 1 + i \in 1..(t + 1)
          /\ B + i = S + 1 + (1 + i)
      BY <1>3, <2>9, <2>12
    <3>2. z[i] = x[1 + i]
      BY <1>5, <2>10, <2>11, <3>1
    <3>3. CASE i = t
      <4>1. 1 + i = t + 1
        BY <3>3
      <4> QED
        BY <2>5, <2>6, <3>2, <3>3, <4>1
    <3>4. CASE i # t
      <4>1. i \in 1..(t + 1 - 2) /\ 1 + i \in 1..(t + 1 - 1) /\ 1 + (1 + i) - 1 = 2 + i - 1
        BY <1>3, <3>4
      <4>2. x[1 + i] = Tok("trailer", k, 1 + (1 + i) - 1)
        BY <2>6, <4>1
      <4>3. y[i] = Tok("trailer", k, 2 + i - 1)
        BY <2>5, <4>1
      <4> QED
        BY <3>2, <4>1, <4>2, <4>3
    <3> QED
      BY <3>3, <3>4
  <2>14. z = y
    BY <1>5, <2>5, <2>13, SeqEqual
  <2> QED
    BY <1>1, <1>4, <2>3, <2>14
<1> QED
  BY <1>7, <1>8

\* extractLeftoverRaw() keeps what is in front of the parser when message k is done.
LEMMA LeftOver ==
    ASSUME NEW ms \in Streams, NEW k \in 1..Len(ms), Strays(ms, k) = <<>>,
           NEW raw \in Seq(Token), NEW rest \in Seq(Token), raw \o rest = Here(ms, k),
           Len(raw) >= Ends(ms, k)
    PROVE  /\ k + 1 \in 1..(Len(ms) + 1)
           /\ SubSeq(raw, Ends(ms, k) + 1, Len(raw)) \o rest = Here(ms, k + 1)
<1>1. k \in 1..(Len(ms) + 1) /\ k + 1 \in 1..(Len(ms) + 1) /\ k <= Len(ms)
  BY StreamOf
<1>2. PICK w, E, g : w = Wire[ms][k] /\ E = Ends(ms, k) /\ g = From[ms][k + 1]
  OBVIOUS
<1>3. w \in Seq(Token)
  BY <1>2, WireIs
<1>4. g \in Seq(Token)
  BY <1>1, <1>2, FromIs
<1>5. Here(ms, k) = w \o g
  BY <1>1, <1>2, HereIs
<1>6. E \in 0..Len(w) /\ E <= Len(raw)
  <2>1. E \in Nat /\ ms[k].trailers \in Nat /\ Len(w) = E + ms[k].trailers
    BY <1>2, EndsAre
  <2> QED
    BY <1>2, <2>1
<1>7. Both(raw, rest) = Both(w, g)
  BY <1>5 DEF Both
<1>8. Past(raw, rest, E) = Past(w, g, E)
  <2>1. raw \in Seq(Token)
    OBVIOUS
  <2>2. rest \in Seq(Token)
    OBVIOUS
  <2>3. E \in 0..Len(w)
    BY <1>6
  <2>4. E <= Len(raw)
    BY <1>6
  <2> QED
    BY ONLY <1>3, <1>4, <1>7, <2>1, <2>2, <2>3, <2>4, BehindBoth
<1>9. SubSeq(w, E + 1, Len(w)) = Strays(ms, k + 1)
  BY <1>2, TailIs
<1> QED
  BY <1>1, <1>2, <1>8, <1>9 DEF Here, Past
-----------------------------------------------------------------------------
(* The invariant *)

\* The message that is next.
Turn == Len(served) + 1

Shape ==
    /\ msgs \in Streams /\ unread \in Seq(Token) /\ req \in RequestType
    /\ phase \in {"reading", "file", "write", "sending", "closed"}
    /\ written \in Nat /\ written <= Len(req.body)
    /\ out \in Response /\ served \in Seq(Response)

\* What each phase knows of the request.
Stage ==
    /\ phase \in {"file", "write", "sending"} => req.complete
    /\ phase = "write" => req.error = 0
    /\ phase \in {"reading", "file"} => written = 0
    /\ phase = "closed" => req = NewRequest /\ written = 0
    /\ phase \in {"reading", "file"} /\ req.complete /\ req.error = 0
         => req.body = Payload(msgs, Turn)

\* The buffer is at the beginning of the message that is next, and parsed.
Place ==
    phase # "closed" =>
      /\ Turn \in 1..(Len(msgs) + 1)
      /\ req.raw \o unread = Here(msgs, Turn)
      /\ Parsed(msgs, Turn, req)

StreamInv == Shape /\ Stage /\ Place

LEMMA TurnIs ==
    ASSUME Shape
    PROVE  /\ Turn \in Nat /\ Turn >= 1 /\ Len(served) \in Nat /\ Len(msgs) \in Nat
           /\ req.raw \in Seq(Token) /\ req.body \in Seq(Token) /\ Len(req.raw) \in Nat
           /\ Len(req.body) \in Nat /\ Len(unread) \in Nat /\ req.consumed \in Nat
<1>1. served \in Seq(Response) /\ unread \in Seq(Token) /\ req \in RequestType /\ msgs \in Streams
  BY DEF Shape
<1>2. Len(msgs) \in Nat
  BY <1>1, StreamOf
<1>3. Len(served) \in Nat /\ Len(unread) \in Nat
  BY <1>1
<1>4. req.raw \in Seq(Token) /\ req.body \in Seq(Token) /\ req.consumed \in Nat
  BY <1>1 DEF RequestType
<1>5. Len(req.raw) \in Nat /\ Len(req.body) \in Nat
  BY <1>4
<1> QED
  BY <1>2, <1>3, <1>4, <1>5 DEF Turn

\* What nothing has been received of is parsed.
LEMMA BareParsed ==
    ASSUME NEW ms, NEW k, NEW r, r.raw = <<>>, Blank(r), ~r.complete, r.error = 0
    PROVE  Held(ms, k, r) /\ Parsed(ms, k, r)
<1>1. Held(ms, k, r)
  BY DEF Held
<1>2. EndOfHeaders(r) = 0
  <2>1. {p \in 2..Len(r.raw) : r.raw[p].t = "end"} = {}
    <3>1. Len(r.raw) = 0
      OBVIOUS
    <3>2. 2..0 = {}
      OBVIOUS
    <3> QED
      BY <3>1, <3>2
  <2> QED
    BY <2>1 DEF EndOfHeaders
<1> QED
  BY <1>1, <1>2 DEF Parsed, Blank

\* What is served is whole.
LEMMA ServedIs ==
    ASSUME NEW ms, NEW k, NEW r, Held(ms, k, r), r.complete, r.error = 0
    PROVE  Accepted(ms, k, r) /\ Whole(ms, k, r)
<1>1. ~TooBig(r) /\ ~Unfit(ms, k, r) /\ ~TooMuch(ms, k, r)
  BY DEF TooBig, Unfit, TooMuch
<1> QED
  BY <1>1 DEF Held

LEMMA FilePart ==
    ASSUME NEW s \in Seq(Token)
    PROVE  /\ ParseMultipart(s) \in Seq(Token) /\ Len(ParseMultipart(s)) \in Nat
           /\ Len(ParseMultipart(s)) <= Len(s)
           /\ Len(s) >= 2 => /\ Len(ParseMultipart(s)) = Len(s) - 2
                             /\ \A i \in 1..(Len(s) - 2) : ParseMultipart(s)[i] = s[1 + i]
           /\ ~(Len(s) >= 2) => ParseMultipart(s) = <<>>
<1>1. PICK l, p : l = Len(s) /\ p = ParseMultipart(s)
  OBVIOUS
<1>2. l \in Nat
  BY <1>1
<1>3. p = SubSeq(s, 2, l - 1)
  BY <1>1 DEF ParseMultipart
<1>4. CASE l >= 2
  <2>1. l - 1 \in Nat /\ 1 <= l - 1 /\ l - 1 <= Len(s) /\ (l - 1) - 1 = l - 2 /\ 1 + 1 = 2 /\ l - 2 <= l
        /\ l - 2 \in Nat
    BY <1>1, <1>2, <1>4
  <2>2. /\ SubSeq(s, 1 + 1, l - 1) \in Seq(Token) /\ Len(SubSeq(s, 1 + 1, l - 1)) = (l - 1) - 1
        /\ \A i \in 1..((l - 1) - 1) : SubSeq(s, 1 + 1, l - 1)[i] = s[1 + i]
    BY <2>1, Part
  <2>3. /\ p \in Seq(Token) /\ Len(p) = l - 2
        /\ \A i \in 1..(l - 2) : p[i] = s[1 + i]
    BY <1>3, <2>1, <2>2
  <2> QED
    BY <1>1, <1>4, <2>1, <2>3
<1>5. CASE ~(l >= 2)
  <2>1. 2 \in Int /\ l - 1 \in Int /\ l - 1 < 2
    BY <1>2, <1>5
  <2>2. p = <<>>
    BY <1>3, <2>1, SubSeqEmpty
  <2>3. <<>> \in Seq(Token) /\ Len(<<>>) = 0 /\ 0 <= l
    BY <1>2
  <2> QED
    BY <1>1, <1>5, <2>2, <2>3
<1> QED
  BY <1>4, <1>5

LEMMA Beginning == Init => StreamInv
<1> SUFFICES ASSUME Init PROVE StreamInv
  OBVIOUS
<1>1. msgs \in Streams /\ Len(msgs) \in Nat
  <2>1. msgs \in Streams
    BY DEF Init
  <2> QED
    BY <2>1, StreamOf
<1>2. served = <<>> /\ Turn = 1 /\ Turn \in 1..(Len(msgs) + 1)
  <2>1. served = <<>>
    BY DEF Init
  <2>2. Len(served) = 0
    BY <2>1
  <2> QED
    BY <1>1, <2>1, <2>2 DEF Turn
<1>3. Here(msgs, 1) = From[msgs][1] /\ From[msgs][1] \in Seq(Token)
  <2>1. Strays(msgs, 1) = <<>>
    BY DEF Strays
  <2>2. 1 \in 1..(Len(msgs) + 1)
    BY <1>2
  <2> QED
    BY <1>1, <2>1, <2>2, HereIs, FromIs
<1>4. req \in RequestType /\ req = NewRequest
  BY NewOne DEF Init
<1>5. /\ req.raw = <<>> /\ Blank(req) /\ ~req.complete /\ req.error = 0 /\ req.body = <<>>
  BY <1>4 DEF NewRequest, Blank
<1>6. Shape
  <2>1. unread \in Seq(Token)
    BY <1>3 DEF Init
  <2>2. phase \in {"reading", "file", "write", "sending", "closed"}
    BY DEF Init
  <2>3. written \in Nat /\ written <= Len(req.body)
    <3>1. Len(req.body) = 0 /\ written = 0
      BY <1>5 DEF Init
    <3> QED
      BY <3>1
  <2>4. out \in Response
    <3>1. <<>> \in Seq(Token)
      OBVIOUS
    <3> QED
      BY <3>1 DEF Init, Response
  <2>5. served \in Seq(Response)
    BY <1>2
  <2> QED
    BY <1>1, <1>4, <2>1, <2>2, <2>3, <2>4, <2>5 DEF Shape
<1>7. Stage
  BY <1>5 DEF Stage, Init
<1>8. Place
  <2>1. Parsed(msgs, Turn, req)
    BY <1>5, BareParsed
  <2>2. req.raw \o unread = unread
    <3>1. unread \in Seq(Token)
      BY <1>3 DEF Init
    <3> QED
      BY <1>5, <3>1, ConcatEmptySeq
  <2>3. unread = Here(msgs, Turn)
    BY <1>2, <1>3 DEF Init
  <2> QED
    BY <1>2, <2>1, <2>2, <2>3 DEF Place
<1> QED
  BY <1>6, <1>7, <1>8 DEF StreamInv

\* What a recv() of n tokens makes of the request and of what is behind it.
LEMMA TakeIn ==
    ASSUME Shape, Place, phase # "closed", NEW n \in 0..Len(unread)
    PROVE  LET q == ParseClientRequest(AppendToRaw(req, SubSeq(unread, 1, n)))
               rest == SubSeq(unread, n + 1, Len(unread))
           IN /\ q \in RequestType /\ rest \in Seq(Token)
              /\ q.raw \o rest = Here(msgs, Turn)
              /\ Parsed(msgs, Turn, q)
              /\ req.complete => q.complete /\ (q.error = 0 <=> req.error = 0)
              /\ q.complete /\ q.error = 0 => q.body = Payload(msgs, Turn)
<1>1. msgs \in Streams /\ unread \in Seq(Token) /\ req \in RequestType
  BY DEF Shape
<1>2. /\ Turn \in 1..(Len(msgs) + 1) /\ req.raw \o unread = Here(msgs, Turn)
      /\ Held(msgs, Turn, req)
  BY DEF Place, Parsed
<1>3. PICK x, y, k, r : /\ x = SubSeq(unread, 1, n) /\ y = SubSeq(unread, n + 1, Len(unread))
                        /\ k = Turn /\ r = AppendToRaw(req, SubSeq(unread, 1, n))
  OBVIOUS
<1>4. x \in Seq(Token) /\ y \in Seq(Token) /\ x \o y = unread
  <2>1. /\ SubSeq(unread, 1, n) \in Seq(Token)
        /\ SubSeq(unread, n + 1, Len(unread)) \in Seq(Token)
        /\ SubSeq(unread, 1, n) \o SubSeq(unread, n + 1, Len(unread)) = unread
    BY <1>1, CutAt
  <2> QED
    BY ONLY <1>3, <2>1
<1>5. PICK a : a = req.raw
  OBVIOUS
<1>6. a \in Seq(Token)
  BY <1>1, <1>5 DEF RequestType
<1>7. /\ r \in RequestType /\ r.raw = a \o x
      /\ r.head = req.head /\ r.headersParsed = req.headersParsed /\ r.complete = req.complete
      /\ r.error = req.error /\ r.body = req.body /\ r.consumed = req.consumed
  <2>1. r = AppendToRaw(req, x)
    BY <1>3
  <2>2. x \in Seq(Token)
    BY <1>4
  <2> QED
    BY <1>1, <1>5, <2>1, <2>2, Filled
<1>8. PICK b : b = a \o x
  OBVIOUS
<1>9. b \in Seq(Token)
  BY <1>1, <1>7, <1>8 DEF RequestType
<1>10. b \o y = Here(msgs, k)
  <2>1. x \in Seq(Token)
    BY <1>4
  <2>2. y \in Seq(Token)
    BY <1>4
  <2>3. (a \o x) \o y = a \o (x \o y)
    BY ONLY <1>6, <2>1, <2>2, Regrouped, SMTT(60)
  <2> QED
    BY <1>2, <1>3, <1>4, <1>5, <1>8, <2>3
<1>11. Opens(b, Here(msgs, k))
  <2>1. y \in Seq(Token)
    BY <1>4
  <2>2. Opens(b, b \o y)
    BY <1>9, <2>1, OpensIt
  <2> QED
    BY <1>10, <2>2
<1>12. Opens(a, b)
  <2>1. x \in Seq(Token)
    BY <1>4
  <2>2. Opens(a, a \o x)
    BY <1>6, <2>1, OpensIt
  <2> QED
    BY <1>8, <2>2
<1>13. Opens(r.raw, Here(msgs, k)) /\ Opens(req.raw, r.raw) /\ k \in 1..(Len(msgs) + 1)
       /\ Held(msgs, k, req)
  BY <1>2, <1>3, <1>5, <1>7, <1>8, <1>11, <1>12
<1>14. Held(msgs, k, r)
  BY <1>1, <1>7, <1>13, HeldOn
<1>15. PICK q : q = ParseClientRequest(r)
  OBVIOUS
<1>16. /\ q \in RequestType /\ q.raw = r.raw /\ Parsed(msgs, k, q)
       /\ r.complete => q.complete /\ (q.error = 0 <=> r.error = 0)
       /\ q.complete /\ q.error = 0 => q.body = Payload(msgs, k)
  BY <1>1, <1>7, <1>13, <1>14, <1>15, ParseStep
<1>17. q.raw \o y = Here(msgs, k)
  BY <1>7, <1>8, <1>10, <1>16
<1> QED
  BY <1>3, <1>4, <1>7, <1>15, <1>16, <1>17

LEMMA RecvKeeps ==
    ASSUME StreamInv, NEW n \in 1..RECV, Recv(n)
    PROVE  StreamInv'
<1>1. Shape /\ Stage /\ Place
  BY DEF StreamInv
<1>2. phase # "closed" /\ phase \in {"reading", "file", "write"}
  BY DEF Recv, Listens
<1>3. n \in 0..Len(unread) /\ n \in Nat
  <2>1. n \in Nat /\ n <= Len(unread) /\ Len(unread) \in Nat
    BY <1>1, TurnIs, LimitsAssumption DEF Recv
  <2> QED
    BY <2>1
<1>4. PICK k, q, y : /\ k = Turn /\ q = ParseClientRequest(AppendToRaw(req, SubSeq(unread, 1, n)))
                     /\ y = SubSeq(unread, n + 1, Len(unread))
  OBVIOUS
<1>5. /\ q \in RequestType /\ y \in Seq(Token)
      /\ q.raw \o y = Here(msgs, k)
      /\ Parsed(msgs, k, q)
      /\ req.complete => q.complete /\ (q.error = 0 <=> req.error = 0)
      /\ q.complete /\ q.error = 0 => q.body = Payload(msgs, k)
  BY <1>1, <1>2, <1>3, <1>4, TakeIn
<1>6. /\ req' = q /\ unread' = y /\ msgs' = msgs /\ phase' = phase /\ written' = written
      /\ out' = out /\ served' = served
  BY <1>4 DEF Recv
<1>7. Turn' = k
  BY <1>4, <1>6 DEF Turn
<1>8. written <= Len(q.body)
  <2>1. CASE phase \in {"reading", "file"}
    <3>1. written = 0
      BY <1>1, <2>1 DEF Stage
    <3>2. Len(q.body) \in Nat
      BY <1>5 DEF RequestType
    <3> QED
      BY <3>1, <3>2
  <2>2. CASE phase = "write"
    <3>1. req.complete /\ req.error = 0
      BY <1>1, <2>2 DEF Stage
    <3>2. q.body = Payload(msgs, k)
      BY <1>5, <3>1
    <3>3. Held(msgs, k, req) /\ k \in Nat /\ k >= 1 /\ msgs \in Streams
      BY <1>1, <1>2, <1>4, TurnIs DEF Place, Parsed, Shape
    <3>4. Accepted(msgs, k, req) /\ Whole(msgs, k, req)
      BY <3>1, <3>3, ServedIs
    <3>5. k \in 1..Len(msgs) /\ msgs \in Seq(Message)
      <4>1. k <= Len(msgs) /\ Len(msgs) \in Nat
        BY <3>3, <3>4, StreamOf DEF Accepted
      <4> QED
        BY <3>3, <4>1, StreamOf
    <3>6. PICK p : p = Payload(msgs, k)
      OBVIOUS
    <3>7. p \in Seq(Token)
      BY <3>5, <3>6, PayloadIs
    <3>8. req.body = p \/ req.body = ParseMultipart(p)
      BY <3>4, <3>6 DEF Whole
    <3>9. Len(ParseMultipart(p)) \in Nat /\ Len(ParseMultipart(p)) <= Len(p) /\ Len(p) \in Nat
      BY <3>7, FilePart
    <3>10. written \in Nat /\ written <= Len(req.body)
      BY <1>1 DEF Shape
    <3>11. CASE req.body = p
      BY <3>2, <3>6, <3>10, <3>11
    <3>12. CASE req.body = ParseMultipart(p)
      <4>1. written <= Len(ParseMultipart(p))
        BY <3>10, <3>12
      <4>2. written <= Len(p)
        BY <3>9, <3>10, <4>1
      <4> QED
        BY <3>2, <3>6, <4>2
    <3> QED
      BY <3>8, <3>11, <3>12
  <2> QED
    BY <1>2, <2>1, <2>2
<1>9. Shape'
  BY <1>1, <1>5, <1>6, <1>8 DEF Shape
<1>10. Stage'
  BY <1>1, <1>2, <1>5, <1>6, <1>7 DEF Stage
<1>11. Place'
  <2>1. k \in 1..(Len(msgs) + 1)
    BY <1>1, <1>2, <1>4 DEF Place
  <2> QED
    BY <1>5, <1>6, <1>7, <2>1 DEF Place
<1> QED
  BY <1>9, <1>10, <1>11 DEF StreamInv

\* What a handler that leaves the connection's bytes alone keeps.
LEMMA BuildKeeps ==
    ASSUME StreamInv, BuildPage \/ BuildFile \/ FileEnd
    PROVE  StreamInv'
<1>1. Shape /\ Stage /\ Place
  BY DEF StreamInv
<1>2. /\ req' = req /\ unread' = unread /\ msgs' = msgs /\ written' = written /\ served' = served
      /\ phase' \in {"file", "sending"} /\ phase # "closed" /\ req.complete
      /\ phase \in {"reading", "file"}
  BY <1>1 DEF BuildPage, BuildFile, FileEnd, Ready, Stage
<1>3. out' \in Response
  <2>1. CASE BuildPage \/ BuildFile
    <3>1. req.error \in Errors
      BY <1>1 DEF Shape, RequestType
    <3>2. <<>> \in Seq(Token)
      OBVIOUS
    <3>3. out' = [error |-> req.error, file |-> <<>>]
      BY <2>1 DEF BuildPage, BuildFile
    <3> QED
      BY <3>1, <3>2, <3>3 DEF Response, Errors
  <2>2. CASE FileEnd
    BY <1>1, <2>2 DEF FileEnd, Shape
  <2> QED
    BY <2>1, <2>2
<1>4. Turn' = Turn
  BY <1>2 DEF Turn
<1>5. Shape'
  BY <1>1, <1>2, <1>3 DEF Shape
<1>6. Stage'
  BY <1>1, <1>2, <1>4 DEF Stage
<1>7. Place'
  BY <1>1, <1>2, <1>4 DEF Place
<1> QED
  BY <1>5, <1>6, <1>7 DEF StreamInv

\* setBody() replaces nothing but the body.
LEMMA BodyKeeps ==
    ASSUME NEW ms, NEW k, NEW r \in RequestType, NEW s \in Seq(Token),
           Held(ms, k, r), r.complete, r.error = 0,
           s \in {Payload(ms, k), ParseMultipart(Payload(ms, k))}
    PROVE  Parsed(ms, k, [r EXCEPT !.body = s])
<1>1. PICK q : q = [r EXCEPT !.body = s]
  OBVIOUS
<1>2. /\ q \in RequestType /\ q.body = s
      /\ q.raw = r.raw /\ q.head = r.head /\ q.headersParsed = r.headersParsed
      /\ q.error = r.error /\ q.complete = r.complete /\ q.consumed = r.consumed
  BY <1>1, Rewritten
<1>3. Accepted(ms, k, r) /\ Whole(ms, k, r)
  BY ServedIs
<1>4. Accepted(ms, k, q) /\ Whole(ms, k, q)
  BY <1>2, <1>3 DEF Accepted, Whole
<1>5. Parsed(ms, k, q)
  BY <1>2, <1>4 DEF Parsed, Held
<1> QED
  BY <1>1, <1>5

LEMMA UploadKeeps ==
    ASSUME StreamInv, BuildUpload
    PROVE  StreamInv'
<1>1. Shape /\ Stage /\ Place
  BY DEF StreamInv
<1>2. PICK k, s : k = Turn /\ s = IF HeadersOf(req).form THEN ParseMultipart(req.body) ELSE req.body
  OBVIOUS
<1>3. /\ phase = "reading" /\ req.complete /\ req.error = 0
      /\ phase' = "write" /\ written' = 0 /\ out' = [error |-> 0, file |-> <<>>]
      /\ msgs' = msgs /\ unread' = unread /\ served' = served
  BY DEF BuildUpload, Ready
<1>4. req' = [req EXCEPT !.body = s]
  BY <1>2 DEF BuildUpload
<1>5. req \in RequestType /\ req.body \in Seq(Token)
  BY <1>1, TurnIs DEF Shape
<1>6. s \in Seq(Token)
  BY <1>2, <1>5, FilePart
<1>7. req.body = Payload(msgs, k)
  BY <1>1, <1>2, <1>3 DEF Stage
<1>8. Held(msgs, k, req)
  BY <1>1, <1>2, <1>3 DEF Place, Parsed
<1>9. Parsed(msgs, k, req')
  BY <1>2, <1>3, <1>4, <1>5, <1>6, <1>7, <1>8, BodyKeeps
<1>10. /\ req' \in RequestType /\ req'.body = s /\ req'.raw = req.raw
       /\ req'.error = req.error /\ req'.complete = req.complete
  BY <1>4, <1>5, <1>6, Rewritten
<1>11. Turn' = k
  BY <1>2, <1>3 DEF Turn
<1>12. Shape'
  <2>1. Len(s) \in Nat /\ 0 <= Len(s)
    BY <1>6
  <2>2. out' \in Response
    <3>1. <<>> \in Seq(Token)
      OBVIOUS
    <3> QED
      BY <1>3, <3>1 DEF Response
  <2> QED
    BY <1>1, <1>3, <1>10, <2>1, <2>2 DEF Shape
<1>13. Stage'
  BY <1>3, <1>10 DEF Stage
<1>14. Place'
  <2>1. k \in 1..(Len(msgs) + 1) /\ req.raw \o unread = Here(msgs, k)
    BY <1>1, <1>2, <1>3 DEF Place
  <2> QED
    BY <1>3, <1>9, <1>10, <1>11, <2>1 DEF Place
<1> QED
  BY <1>12, <1>13, <1>14 DEF StreamInv

\* What write() takes is behind what it took before.
LEMMA WriteIs ==
    ASSUME Shape, NEW n \in Nat, WriteBody(n)
    PROVE  /\ n \in 0..(Len(req.body) - written) /\ written + n \in Nat
           /\ written + n <= Len(req.body)
           /\ Remaining \in Seq(Token)
           /\ out.file \in Seq(Token)
           /\ out'.file = out.file \o SubSeq(Remaining, 1, n) /\ out'.error = out.error
           /\ out' \in Response
<1>1. PICK b, w, r, l : b = req.body /\ w = written /\ r = Remaining /\ l = Len(req.body)
  OBVIOUS
<1>2. b \in Seq(Token) /\ l \in Nat /\ w \in Nat /\ w <= l /\ l = Len(b) /\ l <= Len(b)
  BY <1>1, TurnIs DEF Shape
<1>3. r = SubSeq(b, w + 1, l)
  BY <1>1 DEF Remaining
<1>4. r \in Seq(Token) /\ Len(r) = l - w
  BY <1>2, <1>3, Part
<1>5. n <= l - w
  <2>1. n \in 1..Len(r) \/ (r = <<>> /\ n = 0)
    BY <1>1 DEF WriteBody
  <2>2. Len(r) \in Nat
    BY <1>4
  <2> QED
    BY <1>2, <1>4, <2>1, <2>2
<1>6. n \in 0..(l - w) /\ w + n \in Nat /\ w + n <= l
  BY <1>2, <1>5
<1>7. PICK s : s = SubSeq(r, 1, n)
  OBVIOUS
<1>8. s \in Seq(Token)
  <2>1. n \in 0..Len(r)
    BY <1>4, <1>6
  <2> QED
    BY <1>4, <1>7, <2>1, CutAt
<1>9. out.file \in Seq(Token) /\ out \in Response
  BY DEF Shape, Response
<1>10. PICK f : f = out.file \o s
  OBVIOUS
<1>11. f \in Seq(Token)
  BY <1>8, <1>9, <1>10, Joined
<1>12. out' = [out EXCEPT !.file = f]
  BY <1>1, <1>7, <1>10 DEF WriteBody
<1>13. out' \in Response /\ out'.file = f /\ out'.error = out.error
  BY <1>9, <1>11, <1>12 DEF Response
<1> QED
  BY <1>1, <1>4, <1>6, <1>7, <1>9, <1>10, <1>13

LEMMA WriteKeeps ==
    ASSUME StreamInv, NEW n \in Nat, WriteBody(n)
    PROVE  StreamInv'
<1>1. Shape /\ Stage /\ Place
  BY DEF StreamInv
<1>2. /\ phase = "write" /\ phase' \in {"sending", "write"} /\ written' = written + n
      /\ msgs' = msgs /\ unread' = unread /\ req' = req /\ served' = served
  BY DEF WriteBody
<1>3. written + n \in Nat /\ written + n <= Len(req.body) /\ out' \in Response
  BY <1>1, WriteIs
<1>4. req.complete /\ req.error = 0
  BY <1>1, <1>2 DEF Stage
<1>5. Turn' = Turn
  BY <1>2 DEF Turn
<1>6. Shape'
  BY <1>1, <1>2, <1>3 DEF Shape
<1>7. Stage'
  BY <1>2, <1>4 DEF Stage
<1>8. Place'
  BY <1>1, <1>2, <1>5 DEF Place
<1> QED
  BY <1>6, <1>7, <1>8 DEF StreamInv

\* A connection that stays had a message that could be served, to its last byte.
LEMMA StaysWhen ==
    ASSUME StreamInv, phase = "sending", WantsKeepAlive(req)
    PROVE  /\ Turn \in 1..Len(msgs) /\ Strays(msgs, Turn) = <<>>
           /\ Complaint(msgs[Turn]) = 0 /\ msgs[Turn].keep
           /\ req.consumed = Ends(msgs, Turn) /\ Len(req.raw) >= Ends(msgs, Turn)
<1>1. Shape /\ Stage /\ Place
  BY DEF StreamInv
<1>2. req.complete /\ req.error = 0
  BY <1>1 DEF Stage, WantsKeepAlive
<1>3. PICK k : k = Turn
  OBVIOUS
<1>4. Held(msgs, k, req)
  BY <1>1, <1>3 DEF Place, Parsed
<1>5. Accepted(msgs, k, req) /\ Whole(msgs, k, req)
  BY <1>2, <1>4, ServedIs
<1>6. k \in 1..Len(msgs)
  <2>1. k \in Nat /\ k >= 1 /\ Len(msgs) \in Nat /\ k <= Len(msgs)
    BY <1>1, <1>3, <1>5, TurnIs DEF Accepted
  <2> QED
    BY <2>1
<1>7. msgs[k].keep
  BY <1>5 DEF WantsKeepAlive, HeadersOf, Accepted
<1>8. Len(req.raw) >= Ends(msgs, k)
  <2>1. msgs \in Streams
    BY <1>1 DEF Shape
  <2>2. Ends(msgs, k) \in Nat
    BY <1>6, <2>1, EndsAre
  <2>3. Len(req.raw) >= (IF IsEmpty(msgs[k]) THEN Ends(msgs, k) + 1 ELSE Ends(msgs, k))
    BY <1>5, <1>6, <2>1, EndsAre DEF Whole
  <2>4. Len(req.raw) \in Nat
    BY <1>1, TurnIs
  <2> QED
    BY <2>2, <2>3, <2>4
<1> QED
  BY <1>3, <1>5, <1>6, <1>7, <1>8 DEF Accepted, Whole

LEMMA NewRaw ==
    ASSUME NEW s \in Seq(Token)
    PROVE  LET r == AppendToRaw(NewRequest, s) IN
           /\ r \in RequestType /\ r.raw = s /\ Blank(r) /\ ~r.complete /\ r.error = 0
<1>1. PICK r, v : r = AppendToRaw(v, s) /\ v = NewRequest
  OBVIOUS
<1>2. v \in RequestType
  BY <1>1, NewOne
<1>3. /\ v.raw = <<>> /\ v.head = 0 /\ ~v.headersParsed /\ ~v.complete /\ v.error = 0
      /\ v.body = <<>> /\ v.consumed = 0
  BY <1>1 DEF NewRequest
<1>4. /\ r \in RequestType /\ r.raw = v.raw \o s
      /\ r.head = v.head /\ r.headersParsed = v.headersParsed /\ r.complete = v.complete
      /\ r.error = v.error /\ r.body = v.body /\ r.consumed = v.consumed
  BY <1>1, <1>2, Filled
<1>5. r.raw = s
  BY <1>3, <1>4, ConcatEmptySeq
<1>6. Blank(r)
  BY <1>3, <1>4 DEF Blank
<1> QED
  BY <1>1, <1>3, <1>4, <1>5, <1>6

LEMMA SentKeeps ==
    ASSUME StreamInv, Sent
    PROVE  StreamInv'
<1>1. Shape /\ Stage /\ Place
  BY DEF StreamInv
<1>2. /\ phase = "sending" /\ served' = Append(served, out) /\ written' = 0
      /\ msgs' = msgs /\ unread' = unread /\ out' = out
  BY DEF Sent
<1>3. served' \in Seq(Response) /\ Len(served') = Len(served) + 1
  BY <1>1, <1>2 DEF Shape
<1>4. Turn' = Turn + 1
  BY <1>3 DEF Turn
<1>5. CASE ~WantsKeepAlive(req)
  <2>1. phase' = "closed" /\ req' = NewRequest
    BY <1>5 DEF Sent
  <2>2. 0 \in Nat /\ 0 <= Len(req'.body) /\ req' \in RequestType
    <3>1. Len(NewRequest.body) = 0
      BY DEF NewRequest
    <3> QED
      BY <2>1, <3>1, NewOne
  <2>3. Shape'
    BY <1>1, <1>2, <1>3, <2>1, <2>2 DEF Shape
  <2>4. Stage'
    BY <1>2, <2>1 DEF Stage
  <2>5. Place'
    BY <2>1 DEF Place
  <2> QED
    BY <2>3, <2>4, <2>5 DEF StreamInv
<1>6. CASE WantsKeepAlive(req)
  <2>1. PICK k : k = Turn
    OBVIOUS
  <2>2. /\ k \in 1..Len(msgs) /\ Strays(msgs, k) = <<>>
        /\ req.consumed = Ends(msgs, k) /\ Len(req.raw) >= Ends(msgs, k)
    BY <1>2, <1>6, <2>1, StaysWhen
  <2>3. PICK a, s, r, q : /\ a = req.raw /\ s = ExtractLeftoverRaw(req)
                          /\ r = AppendToRaw(NewRequest, s) /\ q = NextRequest(r)
    OBVIOUS
  <2>4. req' = q /\ phase' = "reading"
    BY <1>6, <2>3 DEF Sent
  <2>5. msgs \in Streams /\ unread \in Seq(Token) /\ a \in Seq(Token)
    BY <1>1, <2>3, TurnIs DEF Shape
  <2>6. a \o unread = Here(msgs, k) /\ Len(a) >= Ends(msgs, k)
    BY <1>1, <1>2, <2>1, <2>2, <2>3 DEF Place
  <2>7. s = SubSeq(a, Ends(msgs, k) + 1, Len(a))
    BY <2>2, <2>3 DEF ExtractLeftoverRaw
  <2>8. k + 1 \in 1..(Len(msgs) + 1) /\ s \o unread = Here(msgs, k + 1)
    BY <2>2, <2>5, <2>6, <2>7, LeftOver
  <2>9. s \in Seq(Token)
    <3>1. Ends(msgs, k) \in Nat /\ Len(a) \in Nat /\ Len(a) <= Len(a)
      BY <2>2, <2>5, EndsAre
    <3> QED
      BY <2>5, <2>6, <2>7, <3>1, Part
  <2>10. r \in RequestType /\ r.raw = s /\ Blank(r) /\ ~r.complete /\ r.error = 0
    BY <2>3, <2>9, NewRaw
  <2>11. /\ q \in RequestType /\ q.raw = s /\ Parsed(msgs, k + 1, q)
         /\ q.complete /\ q.error = 0 => q.body = Payload(msgs, k + 1)
    <3>1. CASE r.raw = <<>>
      <4>1. q = r
        BY <2>3, <3>1 DEF NextRequest
      <4>2. Parsed(msgs, k + 1, r)
        BY <2>10, <3>1, BareParsed
      <4> QED
        BY <2>10, <4>1, <4>2
    <3>2. CASE r.raw # <<>>
      <4>1. q = ParseClientRequest(r)
        BY <2>3, <3>2 DEF NextRequest
      <4>2. Opens(r.raw, Here(msgs, k + 1))
        <5>1. Opens(s, s \o unread)
          BY <2>5, <2>9, OpensIt
        <5> QED
          BY <2>8, <2>10, <5>1
      <4>3. Held(msgs, k + 1, r)
        BY <2>10 DEF Held
      <4>4. PICK j : j = k + 1
        OBVIOUS
      <4>5. /\ msgs \in Streams /\ j \in 1..(Len(msgs) + 1) /\ r \in RequestType
            /\ Opens(r.raw, Here(msgs, j)) /\ Held(msgs, j, r)
        BY <2>5, <2>8, <2>10, <4>2, <4>3, <4>4
      <4>6. /\ q \in RequestType /\ q.raw = r.raw /\ Parsed(msgs, j, q)
            /\ q.complete /\ q.error = 0 => q.body = Payload(msgs, j)
        BY <4>1, <4>5, ParseStep
      <4> QED
        BY <2>10, <4>4, <4>6
    <3> QED
      BY <3>1, <3>2
  <2>12. Turn' = k + 1
    BY <1>4, <2>1
  <2>13. Shape'
    <3>1. Len(q.body) \in Nat
      BY <2>11 DEF RequestType
    <3>2. 0 \in Nat /\ 0 <= Len(q.body)
      BY <3>1
    <3> QED
      BY <1>1, <1>2, <1>3, <2>4, <2>11, <3>2 DEF Shape
  <2>14. Stage'
    BY <1>2, <2>4, <2>11, <2>12 DEF Stage
  <2>15. Place'
    BY <1>2, <2>4, <2>8, <2>11, <2>12 DEF Place
  <2> QED
    BY <2>13, <2>14, <2>15 DEF StreamInv
<1> QED
  BY <1>5, <1>6

LEMMA StreamStep == StreamInv /\ [Next]_vars => StreamInv'
<1> SUFFICES ASSUME StreamInv, [Next]_vars PROVE StreamInv'
  OBVIOUS
<1>1. CASE Builds
  BY <1>1, BuildKeeps, UploadKeeps DEF Builds
<1>2. CASE Writes
  <2>1. PICK n \in 0..Len(req.body) : WriteBody(n)
    BY <1>2 DEF Writes
  <2>2. n \in Nat
    OBVIOUS
  <2> QED
    BY <2>1, <2>2, WriteKeeps
<1>3. CASE FileEnd
  BY <1>3, BuildKeeps
<1>4. CASE Sent
  BY <1>4, SentKeeps
<1>5. CASE Reads
  BY <1>5, RecvKeeps DEF Reads
<1>6. CASE UNCHANGED vars
  BY <1>6 DEF vars, StreamInv, Shape, Stage, Place, Turn
<1> QED
  BY <1>1, <1>2, <1>3, <1>4, <1>5, <1>6 DEF Next

LEMMA StreamAlways == Spec => []StreamInv
<1>1. Init => StreamInv
  BY Beginning
<1>2. StreamInv /\ [Next]_vars => StreamInv'
  BY StreamStep
<1> QED
  BY <1>1, <1>2, PTL DEF Spec

-----------------------------------------------------------------------------
(* What follows from it *)

LEMMA Bounds ==
    ASSUME StreamInv
    PROVE  TypeOK
<1>1. Shape /\ Stage /\ Place
  BY DEF StreamInv
<1>2. PICK k : k = Turn
  OBVIOUS
<1>3. req.head \in 0..Len(msgs) /\ req.consumed <= Len(req.raw)
  <2>1. CASE phase = "closed"
    <3>1. req = NewRequest
      BY <1>1, <2>1 DEF Stage
    <3>2. req.head = 0 /\ req.consumed = 0
      BY <3>1 DEF NewRequest
    <3> QED
      BY <1>1, <3>2, TurnIs
  <2>2. CASE phase # "closed"
    <3>1. Held(msgs, k, req) /\ msgs \in Streams
      BY <1>1, <1>2, <2>2 DEF Place, Parsed, Shape
    <3>2. k \in Nat /\ k >= 1 /\ Len(msgs) \in Nat /\ Len(req.raw) \in Nat
      BY <1>1, <1>2, TurnIs
    <3>3. req.head = 0 \/ (req.head = k /\ k <= Len(msgs))
      BY <3>1 DEF Held, Blank, TooMuch, Accepted
    <3>4. req.consumed = 0 \/ (Accepted(msgs, k, req) /\ Whole(msgs, k, req))
      BY <3>1 DEF Held, Blank, TooMuch
    <3>5. CASE Accepted(msgs, k, req) /\ Whole(msgs, k, req)
      <4>1. k \in 1..Len(msgs)
        BY <3>2, <3>5 DEF Accepted
      <4>2. Ends(msgs, k) \in Nat
        BY <3>1, <4>1, EndsAre
      <4>3. Len(req.raw) >= (IF IsEmpty(msgs[k]) THEN Ends(msgs, k) + 1 ELSE Ends(msgs, k))
        BY <3>1, <3>5, <4>1, EndsAre DEF Whole
      <4>4. req.consumed = Ends(msgs, k)
        BY <3>5 DEF Whole
      <4> QED
        BY <3>2, <3>3, <4>1, <4>2, <4>3, <4>4
    <3> QED
      BY <3>2, <3>3, <3>4, <3>5
  <2> QED
    BY <2>1, <2>2
<1>4. req \in [raw : Seq(Token), head : 0..Len(msgs), headersParsed : BOOLEAN,
               complete : BOOLEAN, error : {0, 400, 413, 431}, body : Seq(Token),
               consumed : Nat]
  BY <1>1, <1>3 DEF Shape, RequestType, Errors
<1>5. written \in 0..Len(req.body)
  BY <1>1, TurnIs DEF Shape
<1> QED
  BY <1>1, <1>3, <1>4, <1>5 DEF TypeOK, Shape

LEMMA Awaited ==
    ASSUME StreamInv
    PROVE  CompleteWhenWhole
<1>1. PICK k, ms : k = Len(served) + 1 /\ ms = msgs
  OBVIOUS
<1> SUFFICES ASSUME phase # "closed", k <= Len(ms),
                    Strays(ms, k) = <<>>, Complaint(ms[k]) = 0, req.error = 0
             PROVE  req.complete <=> HasArrived(ms, k, req.raw)
  BY <1>1 DEF CompleteWhenWhole
<1>2. Shape /\ Place
  BY DEF StreamInv
<1>3. k \in 1..(Len(ms) + 1) /\ req.raw \o unread = Here(ms, k) /\ Parsed(ms, k, req)
  BY <1>1, <1>2 DEF Place, Turn
<1>4. ms \in Streams /\ req \in RequestType /\ unread \in Seq(Token) /\ Len(req.raw) \in Nat
  BY <1>1, <1>2, TurnIs DEF Shape
<1>5. k \in 1..Len(ms)
  BY <1>3, <1>4, StreamOf
<1>6. ASSUME req.complete PROVE HasArrived(ms, k, req.raw)
  <2>1. Held(ms, k, req)
    BY <1>3 DEF Parsed
  <2> QED
    BY <1>6, <2>1, ServedIs DEF Whole
<1>7. ASSUME ~req.complete, ~req.headersParsed PROVE ~HasArrived(ms, k, req.raw)
  <2>1. EndOfHeaders(req) = 0
    BY <1>3, <1>7 DEF Parsed
  <2>2. Opens(req.raw, Here(ms, k))
    <3>1. PICK a : a = req.raw
      OBVIOUS
    <3>2. a \in Seq(Token)
      BY <1>4, <3>1 DEF RequestType
    <3>3. Opens(a, a \o unread)
      BY <1>4, <3>2, OpensIt
    <3> QED
      BY <1>3, <3>1, <3>3
  <2>3. EndOfHeaders(req) = IF Len(req.raw) >= ms[k].lines + 1 THEN ms[k].lines + 1 ELSE 0
    BY <1>3, <1>4, <2>2, HeaderSeen
  <2>4. PICK h, E, l : h = ms[k].lines + 1 /\ E = Ends(ms, k) /\ l = Len(req.raw)
    OBVIOUS
  <2>5. h \in Nat /\ h >= 2 /\ E \in Nat /\ l \in Nat
    BY <1>4, <1>5, <2>4, EndsAre
  <2>6. l < h
    BY <2>1, <2>3, <2>4, <2>5
  <2>7. h <= E
    <3>1. ms[k].framing \in {"none", "length", "chunked"}
      BY <1>4, <1>5, StreamOf
    <3>2. CASE ms[k].framing = "none"
      BY <1>4, <1>5, <2>4, <2>5, <3>2, EndsAre
    <3>3. CASE ms[k].framing = "length"
      <4>1. PICK s : s = Size(ms[k])
        OBVIOUS
      <4>2. s \in Nat /\ E = h + s
        BY <1>4, <1>5, <2>4, <3>3, <4>1, EndsAre
      <4> QED
        BY <2>5, <4>2
    <3>4. CASE ms[k].framing = "chunked"
      <4>1. PICK b : b = BodyEnd(ms[k])
        OBVIOUS
      <4>2. b \in Nat /\ E = h + b
        BY <1>4, <1>5, <2>4, <3>4, <4>1, EndsAre
      <4> QED
        BY <2>5, <4>2
    <3> QED
      BY <3>1, <3>2, <3>3, <3>4
  <2>8. HasArrived(ms, k, req.raw) <=> l >= (IF IsEmpty(ms[k]) THEN E + 1 ELSE E)
    BY <1>4, <1>5, <2>4, EndsAre
  <2> QED
    BY <2>5, <2>6, <2>7, <2>8
<1>8. ASSUME ~req.complete, req.headersParsed PROVE ~HasArrived(ms, k, req.raw)
  BY <1>3, <1>8 DEF Parsed
<1> QED
  BY <1>6, <1>7, <1>8

-----------------------------------------------------------------------------
(* The answers *)

\* The connection outlives message j.
Passes(ms, j) == Complaint(ms[j]) = 0 /\ ms[j].keep

\* A form with more behind it: a recv() in the middle of its write parses the
\* buffer again and brings the envelope back (finding 4, run form).
CutForm(ms, k) ==
    k \in 1..Len(ms) /\ ms[k].form /\ (k < Len(ms) \/ ms[k].trailers > 0)

\* What may answer message k.
Rightly(ms, k, o) ==
    \/ CutForm(ms, k)
    \/ /\ k <= Len(ms) /\ \A j \in 1..(k - 1) : Passes(ms, j)
       /\ Strays(ms, k) = <<>> /\ o = Expected(ms, k)
    \/ Strays(ms, k) # <<>> /\ o = [error |-> 400, file |-> <<>>]
    \/ MayPileUp(ms, k) /\ o = [error |-> 431, file |-> <<>>]

\* What has been written of the body is the beginning of what is to be written.
Writing(ms, k) ==
    /\ req.body = Content(ms, k)
    /\ out = [error |-> 0, file |-> SubSeq(Content(ms, k), 1, written)]

Truth ==
    /\ \A k \in DOMAIN served : Rightly(msgs, k, served[k])
    /\ phase # "closed" => \A j \in 1..(Turn - 1) : Passes(msgs, j)
    /\ phase \in {"file", "sending"} => Rightly(msgs, Turn, out)
    /\ phase = "write" => CutForm(msgs, Turn) \/ Writing(msgs, Turn)

LEMMA ContentIs ==
    ASSUME NEW ms \in Streams, NEW k \in 1..Len(ms)
    PROVE  /\ Content(ms, k) \in Seq(Token)
           /\ Content(ms, k) = IF ms[k].form THEN ParseMultipart(Payload(ms, k))
                               ELSE Payload(ms, k)
<1>1. PICK p, s, c : p = Payload(ms, k) /\ s = Size(ms[k]) /\ c = Content(ms, k)
  OBVIOUS
<1>2. ms \in Seq(Message)
  BY StreamOf
<1>3. p \in Seq(Token) /\ Len(p) = s /\ s \in Nat
  <2>1. p \in Seq(Token) /\ Len(p) = s
    BY <1>1, <1>2, PayloadIs
  <2>2. Len(p) \in Nat
    BY <2>1
  <2> QED
    BY <2>1, <2>2
<1>4. CASE ~ms[k].form
  BY <1>1, <1>3, <1>4 DEF Content
<1>5. CASE ms[k].form
  <2>1. c = [n \in 1..(s - 2) |-> Tok("data", k, n + 1)]
    BY <1>1, <1>5 DEF Content
  <2>2. k \in Nat
    BY StreamOf
  <2>3. PICK q : q = ParseMultipart(p)
    OBVIOUS
  <2>4. q \in Seq(Token)
    BY <1>3, <2>3, FilePart
  <2>5. CASE s >= 2
    <3>1. s - 2 \in Nat
      BY <1>3, <2>5
    <3>2. \A n \in 1..(s - 2) : Tok("data", k, n + 1) \in Token
      <4>1. ASSUME NEW n \in 1..(s - 2) PROVE Tok("data", k, n + 1) \in Token
        <5>1. n + 1 \in Nat
          OBVIOUS
        <5> QED
          BY <2>2, <5>1, Tokens
      <4> QED
        BY <4>1
    <3>3. c \in [1..(s - 2) -> Token]
      BY <2>1, <3>2
    <3>4. c \in Seq(Token) /\ Len(c) = s - 2
      BY <3>1, <3>3, SequenceOf
    <3>5. Len(q) = s - 2 /\ \A i \in 1..(s - 2) : q[i] = p[1 + i]
      BY <1>3, <2>3, <2>5, FilePart
    <3>6. ASSUME NEW i \in 1..(s - 2) PROVE c[i] = q[i]
      <4>1. 1 + i \in 1..s /\ 1 + i = i + 1 /\ i + 1 # 1 /\ i + 1 # s
        BY <1>3, <2>5
      <4>2. p[i + 1] = Tok("data", k, i + 1)
        <5>1. p = [n \in 1..s |->
                     Tok(IF ms[k].form /\ n \in {1, s} THEN "envelope" ELSE "data", k, n)]
          BY <1>1 DEF Payload
        <5> QED
          BY <4>1, <5>1
      <4>3. c[i] = Tok("data", k, i + 1)
        BY <2>1
      <4> QED
        BY <3>5, <4>1, <4>2, <4>3
    <3>7. c = q
      BY <2>4, <3>4, <3>5, <3>6, SeqEqual
    <3> QED
      BY <1>1, <1>5, <2>3, <2>4, <3>7
  <2>6. CASE ~(s >= 2)
    <3>1. q = <<>>
      BY <1>3, <2>3, <2>6, FilePart
    <3>2. 1..(s - 2) = {}
      BY <1>3, <2>6
    <3>3. c = <<>>
      BY <2>1, <3>2
    <3> QED
      BY <1>1, <1>5, <2>3, <2>4, <3>1, <3>3
  <2> QED
    BY <2>5, <2>6
<1> QED
  BY <1>4, <1>5

\* What is refused is refused as it must be.
LEMMA RefusalIsRight ==
    ASSUME NEW ms, NEW k, NEW r \in RequestType, Here(ms, k) \in Seq(Token),
           Opens(r.raw, Here(ms, k)), Held(ms, k, r), r.complete, r.error # 0,
           \A j \in 1..(k - 1) : Passes(ms, j)
    PROVE  Rightly(ms, k, [error |-> r.error, file |-> <<>>])
<1>1. TooBig(r) \/ Unfit(ms, k, r) \/ TooMuch(ms, k, r)
  BY DEF Held, Accepted
<1>2. CASE TooBig(r)
  <2>1. r.error = 431 /\ Len(r.raw) > MAXHEAD /\ Len(r.raw) <= Len(Here(ms, k))
    BY <1>2 DEF TooBig, Opens
  <2>2. Len(r.raw) \in Nat /\ Len(Here(ms, k)) \in Nat /\ MAXHEAD \in Nat
    BY LimitsAssumption DEF RequestType
  <2>3. Len(Here(ms, k)) > MAXHEAD
    BY <2>1, <2>2
  <2>4. MayPileUp(ms, k)
    BY <2>3 DEF MayPileUp, Here
  <2> QED
    BY <2>1, <2>4 DEF Rightly
<1>3. CASE Unfit(ms, k, r)
  <2>1. CASE Strays(ms, k) # <<>>
    BY <1>3, <2>1 DEF Rightly, Unfit
  <2>2. CASE Strays(ms, k) = <<>>
    <3>1. k <= Len(ms) /\ Complaint(ms[k]) = 400 /\ r.error = 400
      BY <1>3, <2>2 DEF Unfit
    <3>2. Expected(ms, k) = [error |-> 400, file |-> <<>>]
      BY <3>1 DEF Expected
    <3> QED
      BY <2>2, <3>1, <3>2 DEF Rightly
  <2> QED
    BY <2>1, <2>2
<1>4. CASE TooMuch(ms, k, r)
  <2>1. k <= Len(ms) /\ Complaint(ms[k]) = 413 /\ r.error = 413 /\ Strays(ms, k) = <<>>
    BY <1>4 DEF TooMuch
  <2>2. Expected(ms, k) = [error |-> 413, file |-> <<>>]
    BY <2>1 DEF Expected
  <2> QED
    BY <2>1, <2>2 DEF Rightly
<1> QED
  BY <1>1, <1>2, <1>3, <1>4

\* What is served is served with its content.
LEMMA ServiceIsRight ==
    ASSUME NEW ms, NEW k, NEW r, Held(ms, k, r), r.complete, r.error = 0,
           \A j \in 1..(k - 1) : Passes(ms, j)
    PROVE  Rightly(ms, k, [error |-> 0, file |-> Content(ms, k)])
<1>1. Accepted(ms, k, r) /\ Whole(ms, k, r)
  BY ServedIs
<1>2. k <= Len(ms) /\ Strays(ms, k) = <<>> /\ Complaint(ms[k]) = 0
  BY <1>1 DEF Accepted, Whole
<1>3. Expected(ms, k) = [error |-> 0, file |-> Content(ms, k)]
  BY <1>2 DEF Expected
<1> QED
  BY <1>2, <1>3 DEF Rightly

\* Writing on: what was written and what is written now are together its beginning.
LEMMA Further ==
    ASSUME NEW c \in Seq(Token), NEW w \in Nat, NEW n \in Nat, w + n <= Len(c)
    PROVE  SubSeq(c, 1, w) \o SubSeq(SubSeq(c, w + 1, Len(c)), 1, n) = SubSeq(c, 1, w + n)
<1>1. PICK a, r, l : a = SubSeq(c, 1, w) /\ r = SubSeq(c, w + 1, Len(c)) /\ l = Len(c)
  OBVIOUS
<1>2. PICK b, t : b = SubSeq(r, 0 + 1, n) /\ t = SubSeq(c, 0 + 1, w + n)
  OBVIOUS
<1>3. l \in Nat /\ w <= l /\ w + n \in Nat /\ w + n <= l /\ n <= l - w /\ 0 <= n /\ 0 <= w + n
      /\ 0 + 1 = 1 /\ (w + n) - 0 = w + n /\ n - 0 = n /\ w \in 0..l /\ l <= Len(c) /\ 0 \in Nat
  BY <1>1
<1>4. a \in Seq(Token) /\ Len(a) = w /\ \A i \in 1..w : a[i] = c[i]
  <2>1. 0 <= w /\ w <= Len(c) /\ w - 0 = w
    BY <1>1, <1>3
  <2>2. /\ SubSeq(c, 0 + 1, w) \in Seq(Token) /\ Len(SubSeq(c, 0 + 1, w)) = w - 0
        /\ \A i \in 1..(w - 0) : SubSeq(c, 0 + 1, w)[i] = c[0 + i]
    BY <1>3, <2>1, Part
  <2>3. \A i \in 1..w : 0 + i = i
    OBVIOUS
  <2> QED
    BY <1>1, <1>3, <2>1, <2>2, <2>3
<1>5. r \in Seq(Token) /\ Len(r) = l - w /\ \A i \in 1..(l - w) : r[i] = c[w + i]
  BY <1>1, <1>3, Part
<1>6. b \in Seq(Token) /\ Len(b) = n /\ \A i \in 1..n : b[i] = r[0 + i]
  <2>1. r \in Seq(Token) /\ n <= Len(r)
    BY <1>3, <1>5
  <2>2. /\ SubSeq(r, 0 + 1, n) \in Seq(Token) /\ Len(SubSeq(r, 0 + 1, n)) = n - 0
        /\ \A i \in 1..(n - 0) : SubSeq(r, 0 + 1, n)[i] = r[0 + i]
    BY <1>3, <2>1, Part
  <2> QED
    BY <1>2, <1>3, <2>2
<1>7. t \in Seq(Token) /\ Len(t) = w + n /\ \A i \in 1..(w + n) : t[i] = c[0 + i]
  <2>1. w + n <= Len(c)
    OBVIOUS
  <2>2. /\ SubSeq(c, 0 + 1, w + n) \in Seq(Token) /\ Len(SubSeq(c, 0 + 1, w + n)) = (w + n) - 0
        /\ \A i \in 1..((w + n) - 0) : SubSeq(c, 0 + 1, w + n)[i] = c[0 + i]
    BY <1>3, <2>1, Part
  <2> QED
    BY <1>2, <1>3, <2>2
<1>8. PICK d : d = a \o b
  OBVIOUS
<1>9. /\ d \in Seq(Token) /\ Len(d) = w + n
      /\ \A i \in 1..w : d[i] = a[i]
      /\ \A i \in 1..n : d[w + i] = b[i]
  <2>1. a \in Seq(Token)
    BY <1>4
  <2>2. b \in Seq(Token)
    BY <1>6
  <2>3. /\ d \in Seq(Token) /\ Len(d) = Len(a) + Len(b)
        /\ \A i \in 1..Len(a) : d[i] = a[i]
        /\ \A i \in 1..Len(b) : d[Len(a) + i] = b[i]
    BY ONLY <1>8, <2>1, <2>2, Joined
  <2> QED
    BY <1>4, <1>6, <2>3
<1>10. ASSUME NEW i \in 1..(w + n) PROVE d[i] = t[i]
  <2>1. CASE i <= w
    <3>1. i \in 1..w /\ 0 + i = i
      BY <2>1
    <3> QED
      BY <1>4, <1>7, <1>9, <3>1
  <2>2. CASE ~(i <= w)
    <3>1. PICK j : j = i - w
      OBVIOUS
    <3>2. j \in 1..n /\ w + j = i /\ 0 + j = j /\ 0 + i = i /\ j \in 1..(l - w)
      BY <1>3, <2>2, <3>1
    <3>3. d[i] = b[j] /\ b[j] = r[j] /\ r[j] = c[i]
      BY <1>5, <1>6, <1>9, <3>2
    <3> QED
      BY <1>7, <3>2, <3>3
  <2> QED
    BY <2>1, <2>2
<1>11. d = t
  BY <1>7, <1>9, <1>10, SeqEqual
<1> QED
  BY <1>1, <1>2, <1>3, <1>8, <1>11

LEMMA TruthAtFirst == Init => Truth
<1> SUFFICES ASSUME Init PROVE Truth
  OBVIOUS
<1>1. served = <<>> /\ phase = "reading"
  BY DEF Init
<1>2. Len(served) = 0 /\ Turn = 1
  <2>1. Len(served) = 0
    BY <1>1
  <2> QED
    BY <2>1 DEF Turn
<1>3. DOMAIN served = {} /\ 1..(Turn - 1) = {}
  BY <1>1, <1>2
<1> QED
  BY <1>1, <1>3 DEF Truth

\* What is served at this moment.
LEMMA InService ==
    ASSUME StreamInv, phase # "closed", req.complete, req.error = 0
    PROVE  /\ Turn \in 1..Len(msgs) /\ Held(msgs, Turn, req) /\ msgs \in Streams
           /\ Accepted(msgs, Turn, req) /\ Whole(msgs, Turn, req)
           /\ HeadersOf(req) = msgs[Turn]
<1>1. Shape /\ Place
  BY DEF StreamInv
<1>2. PICK k : k = Turn
  OBVIOUS
<1>3. Held(msgs, k, req) /\ msgs \in Streams /\ k \in 1..(Len(msgs) + 1)
  BY <1>1, <1>2 DEF Place, Parsed, Shape
<1>4. Accepted(msgs, k, req) /\ Whole(msgs, k, req)
  BY <1>3, ServedIs
<1>5. k \in 1..Len(msgs)
  <2>1. k <= Len(msgs) /\ Len(msgs) \in Nat
    BY <1>3, <1>4, StreamOf DEF Accepted
  <2> QED
    BY <1>3, <2>1
<1>6. HeadersOf(req) = msgs[k]
  BY <1>4 DEF Accepted, HeadersOf
<1> QED
  BY <1>2, <1>3, <1>4, <1>5, <1>6

LEMMA RecvTells ==
    ASSUME StreamInv, Truth, NEW n \in 1..RECV, Recv(n)
    PROVE  Truth'
<1>1. Shape /\ Stage /\ Place
  BY DEF StreamInv
<1>2. phase # "closed" /\ phase \in {"reading", "file", "write"}
  BY DEF Recv, Listens
<1>3. n \in 0..Len(unread) /\ n \in Nat /\ n >= 1 /\ n <= Len(unread)
  <2>1. n \in Nat /\ n >= 1 /\ n <= Len(unread) /\ Len(unread) \in Nat
    BY <1>1, TurnIs, LimitsAssumption DEF Recv
  <2> QED
    BY <2>1
<1>4. PICK k, q : k = Turn /\ q = ParseClientRequest(AppendToRaw(req, SubSeq(unread, 1, n)))
  OBVIOUS
<1>5. /\ req.complete => q.complete /\ (q.error = 0 <=> req.error = 0)
      /\ q.complete /\ q.error = 0 => q.body = Payload(msgs, k)
  BY <1>1, <1>2, <1>3, <1>4, TakeIn
<1>6. /\ req' = q /\ msgs' = msgs /\ phase' = phase /\ written' = written
      /\ out' = out /\ served' = served
  BY <1>4 DEF Recv
<1>7. Turn' = k
  BY <1>4, <1>6 DEF Turn
<1>8. ASSUME phase = "write", ~CutForm(msgs, k) PROVE Writing(msgs, k)'
  <2>1. req.complete /\ req.error = 0
    BY <1>1, <1>8 DEF Stage
  <2>2. /\ k \in 1..Len(msgs) /\ msgs \in Streams
        /\ Accepted(msgs, k, req) /\ Whole(msgs, k, req)
    BY <1>2, <1>4, <2>1, InService
  <2>3. ~msgs[k].form
    <3>1. SUFFICES ASSUME msgs[k].form PROVE FALSE
      OBVIOUS
    <3>2. k = Len(msgs) /\ msgs[k].trailers = 0
      <4>1. PICK t : t = msgs[k].trailers
        OBVIOUS
      <4>2. t \in Nat /\ Len(msgs) \in Nat
        BY <2>2, <4>1, EndsAre, StreamOf
      <4>3. ~(k < Len(msgs)) /\ ~(t > 0)
        BY <1>8, <2>2, <3>1, <4>1 DEF CutForm
      <4>4. t = 0
        BY ONLY <4>2, <4>3
      <4> QED
        BY <2>2, <4>1, <4>2, <4>3, <4>4
    <3>3. PICK a, w, E : a = req.raw /\ w = Wire[msgs][k] /\ E = Ends(msgs, k)
      OBVIOUS
    <3>4. E \in Nat /\ Len(w) = E
      BY <2>2, <3>2, <3>3, EndsAre
    <3>5. Len(a) >= E
      <4>1. Len(a) >= (IF IsEmpty(msgs[k]) THEN E + 1 ELSE E)
        BY <2>2, <3>3, EndsAre DEF Whole
      <4>2. Len(a) \in Nat
        BY <1>1, <3>3, TurnIs
      <4> QED
        BY <3>4, <4>1, <4>2
    <3>6. Here(msgs, k) = w
      <4>1. Here(msgs, k) = w \o From[msgs][k + 1]
        <5>1. Strays(msgs, k) = <<>> /\ k <= Len(msgs) /\ k \in 1..(Len(msgs) + 1)
          BY <2>2, StreamOf DEF Accepted
        <5> QED
          BY <2>2, <3>3, <5>1, HereIs
      <4>2. From[msgs][k + 1] = <<>>
        BY <2>2, <3>2, FromIs
      <4>3. w \in Seq(Token)
        BY <2>2, <3>3, WireIs
      <4> QED
        BY <4>1, <4>2, <4>3, ConcatEmptySeq
    <3>7. Len(a \o unread) = Len(a) + Len(unread)
      <4>1. a \in Seq(Token) /\ unread \in Seq(Token)
        BY <1>1, <3>3, TurnIs DEF Shape
      <4> QED
        BY <4>1, Joined
    <3>8. Len(a \o unread) = E
      BY <1>1, <1>2, <1>4, <3>3, <3>4, <3>6 DEF Place
    <3>9. Len(a) \in Nat /\ Len(unread) \in Nat
      BY <1>1, <3>3, TurnIs
    <3> QED
      BY <1>3, <3>4, <3>5, <3>7, <3>8, <3>9
  <2>4. q.body = Content(msgs, k)
    <3>1. Content(msgs, k) = Payload(msgs, k)
      BY <2>2, <2>3, ContentIs
    <3> QED
      BY <1>5, <2>1, <3>1
  <2>5. Writing(msgs, k)
    BY <1>4, <1>8 DEF Truth
  <2> QED
    BY <1>6, <2>4, <2>5 DEF Writing
<1>9. phase' = "write" => (CutForm(msgs, k) \/ Writing(msgs, k))'
  <2>1. CutForm(msgs, k)' <=> CutForm(msgs, k)
    BY <1>6 DEF CutForm
  <2> QED
    BY <1>6, <1>8, <2>1
<1> QED
  BY <1>2, <1>4, <1>6, <1>7, <1>9 DEF Truth

LEMMA BuildTells ==
    ASSUME StreamInv, Truth, BuildPage \/ BuildFile
    PROVE  Truth'
<1>1. Shape /\ Stage /\ Place
  BY DEF StreamInv
<1>2. /\ req' = req /\ msgs' = msgs /\ served' = served
      /\ phase' \in {"file", "sending"} /\ phase = "reading" /\ req.complete
      /\ out' = [error |-> req.error, file |-> <<>>]
      /\ req.error = 0 => HeadersOf(req).method = "GET"
  BY DEF BuildPage, BuildFile, Ready
<1>3. PICK k, o : k = Turn /\ o = [error |-> req.error, file |-> <<>>]
  OBVIOUS
<1>4. Turn' = k
  BY <1>2, <1>3 DEF Turn
<1>5. \A j \in 1..(k - 1) : Passes(msgs, j)
  BY <1>2, <1>3 DEF Truth
<1>6. Rightly(msgs, k, o)
  <2>1. CASE req.error # 0
    <3>1. /\ Held(msgs, k, req) /\ msgs \in Streams /\ k \in 1..(Len(msgs) + 1)
          /\ req.raw \o unread = Here(msgs, k) /\ req \in RequestType
      BY <1>1, <1>2, <1>3 DEF Place, Parsed, Shape
    <3>2. Here(msgs, k) \in Seq(Token)
      BY <3>1, HereIs
    <3>3. Opens(req.raw, Here(msgs, k))
      <4>1. PICK a : a = req.raw
        OBVIOUS
      <4>2. a \in Seq(Token) /\ unread \in Seq(Token)
        BY <1>1, <4>1, TurnIs DEF Shape
      <4>3. Opens(a, a \o unread)
        BY <4>2, OpensIt
      <4> QED
        BY <3>1, <4>1, <4>3
    <3> QED
      BY <1>2, <1>3, <1>5, <2>1, <3>1, <3>2, <3>3, RefusalIsRight
  <2>2. CASE req.error = 0
    <3>1. k \in 1..Len(msgs) /\ Held(msgs, k, req) /\ msgs \in Streams /\ HeadersOf(req) = msgs[k]
      BY <1>2, <1>3, <2>2, InService
    <3>2. msgs[k].framing = "none"
      BY <1>2, <2>2, <3>1, StreamOf
    <3>3. Content(msgs, k) = <<>>
      BY <3>1, <3>2, NoBody, ContentIs
    <3>4. Rightly(msgs, k, [error |-> 0, file |-> Content(msgs, k)])
      BY <1>2, <1>5, <2>2, <3>1, ServiceIsRight
    <3> QED
      BY <1>3, <2>2, <3>3, <3>4
  <2> QED
    BY <2>1, <2>2
<1> QED
  BY <1>2, <1>3, <1>4, <1>5, <1>6 DEF Truth

LEMMA UploadTells ==
    ASSUME StreamInv, Truth, BuildUpload
    PROVE  Truth'
<1>1. Shape /\ Stage /\ Place
  BY DEF StreamInv
<1>2. /\ phase = "reading" /\ req.complete /\ req.error = 0
      /\ phase' = "write" /\ written' = 0 /\ out' = [error |-> 0, file |-> <<>>]
      /\ msgs' = msgs /\ served' = served
  BY DEF BuildUpload, Ready
<1>3. PICK k, s : k = Turn /\ s = IF HeadersOf(req).form THEN ParseMultipart(req.body) ELSE req.body
  OBVIOUS
<1>4. req' = [req EXCEPT !.body = s]
  BY <1>3 DEF BuildUpload
<1>5. k \in 1..Len(msgs) /\ msgs \in Streams /\ HeadersOf(req) = msgs[k]
  BY <1>2, <1>3, InService
<1>6. req.body = Payload(msgs, k)
  BY <1>1, <1>2, <1>3 DEF Stage
<1>7. s = Content(msgs, k) /\ Content(msgs, k) \in Seq(Token)
  BY <1>3, <1>5, <1>6, ContentIs
<1>8. req'.body = s
  BY <1>1, <1>4 DEF Shape, RequestType
<1>9. SubSeq(Content(msgs, k), 1, 0) = <<>>
  <2>1. 1 \in Int /\ 0 \in Int /\ 0 < 1
    OBVIOUS
  <2> QED
    BY <1>7, <2>1, SubSeqEmpty
<1>10. Writing(msgs, k)'
  BY <1>2, <1>7, <1>8, <1>9 DEF Writing
<1>11. Turn' = k
  BY <1>2, <1>3 DEF Turn
<1> QED
  BY <1>2, <1>3, <1>10, <1>11 DEF Truth

LEMMA WriteTells ==
    ASSUME StreamInv, Truth, NEW n \in Nat, WriteBody(n)
    PROVE  Truth'
<1>1. Shape /\ Stage /\ Place
  BY DEF StreamInv
<1>2. /\ phase = "write" /\ written' = written + n
      /\ phase' = IF written + n >= Len(req.body) THEN "sending" ELSE "write"
      /\ msgs' = msgs /\ req' = req /\ served' = served
  BY DEF WriteBody
<1>3. PICK k : k = Turn
  OBVIOUS
<1>4. req.complete /\ req.error = 0
  BY <1>1, <1>2 DEF Stage
<1>5. k \in 1..Len(msgs) /\ msgs \in Streams /\ Held(msgs, k, req)
  BY <1>2, <1>3, <1>4, InService
<1>6. \A j \in 1..(k - 1) : Passes(msgs, j)
  BY <1>2, <1>3 DEF Truth
<1>7. Turn' = k
  BY <1>2, <1>3 DEF Turn
<1>8. CASE CutForm(msgs, k)
  <2>1. Rightly(msgs, k, out')
    BY <1>8 DEF Rightly
  <2> QED
    BY <1>2, <1>3, <1>7, <1>6, <1>8, <2>1 DEF Truth
<1> SUFFICES ASSUME ~CutForm(msgs, k) PROVE Truth'
  BY <1>8
<1>9. Writing(msgs, k)
  BY <1>2, <1>3 DEF Truth
<1>10. PICK c, w, z : c = Content(msgs, k) /\ w = written /\ z = w + n
  OBVIOUS
<1>11. c \in Seq(Token) /\ req.body = c /\ out = [error |-> 0, file |-> SubSeq(c, 1, w)]
  BY <1>5, <1>9, <1>10, ContentIs DEF Writing
<1>12. /\ z \in Nat /\ z <= Len(c) /\ w \in Nat /\ Len(c) \in Nat
      /\ out'.file = out.file \o SubSeq(Remaining, 1, n) /\ out'.error = out.error
      /\ out' \in Response
  BY <1>1, <1>10, <1>11, WriteIs, TurnIs DEF Shape
<1>13. out'.file = SubSeq(c, 1, z)
  <2>1. Remaining = SubSeq(c, w + 1, Len(c))
    BY <1>10, <1>11 DEF Remaining
  <2>2. SubSeq(c, 1, w) \o SubSeq(SubSeq(c, w + 1, Len(c)), 1, n) = SubSeq(c, 1, w + n)
    BY <1>10, <1>11, <1>12, Further
  <2>3. out.file = SubSeq(c, 1, w)
    BY <1>11
  <2> QED
    BY <1>10, <1>12, <2>1, <2>2, <2>3
<1>14. out' = [error |-> 0, file |-> SubSeq(c, 1, z)]
  <2>1. out'.error = 0
    BY <1>11, <1>12
  <2> QED
    BY <1>12, <1>13, <2>1 DEF Response
<1>15. CASE z >= Len(c)
  <2>1. z = Len(c) /\ phase' = "sending"
    BY <1>2, <1>10, <1>11, <1>12, <1>15
  <2>2. SubSeq(c, 1, z) = c
    BY <1>11, <2>1, SubSeqFull
  <2>3. Rightly(msgs, k, [error |-> 0, file |-> Content(msgs, k)])
    BY <1>4, <1>5, <1>6, ServiceIsRight
  <2>4. Rightly(msgs, k, out')
    BY <1>10, <1>14, <2>2, <2>3
  <2> QED
    BY <1>2, <1>3, <1>7, <1>6, <2>1, <2>4 DEF Truth
<1>16. CASE ~(z >= Len(c))
  <2>1. phase' = "write"
    BY <1>2, <1>10, <1>11, <1>16
  <2>2. Writing(msgs, k)'
    BY <1>2, <1>10, <1>11, <1>14 DEF Writing
  <2> QED
    BY <1>2, <1>3, <1>7, <1>6, <2>1, <2>2 DEF Truth
<1> QED
  BY <1>15, <1>16

LEMMA SentTells ==
    ASSUME StreamInv, Truth, Sent
    PROVE  Truth'
<1>1. Shape /\ Stage /\ Place
  BY DEF StreamInv
<1>2. /\ phase = "sending" /\ served' = Append(served, out) /\ msgs' = msgs
      /\ phase' = IF WantsKeepAlive(req) THEN "reading" ELSE "closed"
  BY DEF Sent
<1>3. PICK k, l : k = Turn /\ l = Len(served)
  OBVIOUS
<1>4. served \in Seq(Response) /\ out \in Response /\ l \in Nat /\ k = l + 1
  BY <1>1, <1>3, TurnIs DEF Shape, Turn
<1>5. Len(served') = k /\ served'[k] = out /\ \A j \in 1..l : served'[j] = served[j]
  BY <1>2, <1>3, <1>4
<1>6. DOMAIN served' = 1..k /\ DOMAIN served = 1..l
  <2>1. served' \in Seq(Response)
    BY <1>2, <1>4
  <2> QED
    BY <1>3, <1>4, <1>5, <2>1
<1>7. Rightly(msgs, k, out)
  BY <1>2, <1>3 DEF Truth
<1>8. ASSUME NEW j \in 1..k PROVE Rightly(msgs, j, served'[j])
  <2>1. CASE j = k
    BY <1>5, <1>7, <2>1
  <2>2. CASE j # k
    <3>1. j \in 1..l
      BY <1>4, <2>2
    <3> QED
      BY <1>5, <1>6, <3>1 DEF Truth
  <2> QED
    BY <2>1, <2>2
<1>9. Turn' = k + 1
  BY <1>5 DEF Turn
<1>10. ASSUME WantsKeepAlive(req), NEW j \in 1..k PROVE Passes(msgs, j)
  <2>1. CASE j = k
    BY <1>2, <1>3, <1>10, <2>1, StaysWhen DEF Passes
  <2>2. CASE j # k
    <3>1. j \in 1..(k - 1)
      BY <1>4, <2>2
    <3> QED
      BY <1>2, <1>3, <3>1 DEF Truth
  <2> QED
    BY <2>1, <2>2
<1>11. (k + 1) - 1 = k
  BY <1>4
<1>12. phase' # "closed" => WantsKeepAlive(req)
  BY <1>2
<1>13. phase' # "closed" => \A j \in 1..(Turn' - 1) : Passes(msgs, j)
  BY <1>9, <1>10, <1>11, <1>12
<1> QED
  BY <1>2, <1>6, <1>8, <1>13 DEF Truth

LEMMA TruthStep == StreamInv /\ Truth /\ [Next]_vars => Truth'
<1> SUFFICES ASSUME StreamInv, Truth, [Next]_vars PROVE Truth'
  OBVIOUS
<1>1. CASE Builds
  BY <1>1, BuildTells, UploadTells DEF Builds
<1>2. CASE Writes
  <2>1. PICK n \in 0..Len(req.body) : WriteBody(n)
    BY <1>2 DEF Writes
  <2>2. n \in Nat
    OBVIOUS
  <2> QED
    BY <2>1, <2>2, WriteTells
<1>3. CASE FileEnd
  <2>1. /\ phase = "file" /\ phase' = "sending" /\ msgs' = msgs /\ out' = out /\ served' = served
    BY <1>3 DEF FileEnd
  <2>2. Turn' = Turn
    BY <2>1 DEF Turn
  <2> QED
    BY <2>1, <2>2 DEF Truth
<1>4. CASE Sent
  BY <1>4, SentTells
<1>5. CASE Reads
  BY <1>5, RecvTells DEF Reads
<1>6. CASE UNCHANGED vars
  BY <1>6 DEF vars, Truth, Turn, Writing
<1> QED
  BY <1>1, <1>2, <1>3, <1>4, <1>5, <1>6 DEF Next

\* A message whose predecessors all leave the connection open is due an answer.
LEMMA IsDue ==
    ASSUME NEW ms \in Streams, NEW k \in 1..Len(ms), \A j \in 1..(k - 1) : Passes(ms, j)
    PROVE  k <= Due(ms)
<1>1. Len(ms) \in Nat /\ DOMAIN ms = 1..Len(ms) /\ k \in Nat /\ Len(ms) >= 1
  BY StreamOf
<1>2. PICK L : L = {j \in 1..Len(ms) : IsLast(ms, j)}
  OBVIOUS
<1>3. L \subseteq Nat /\ L # {}
  <2>1. Len(ms) \in 1..Len(ms) /\ IsLast(ms, Len(ms))
    BY <1>1 DEF IsLast
  <2> QED
    BY <1>1, <1>2, <2>1
<1>4. PICK d : d = Min(L)
  OBVIOUS
<1>5. d \in L /\ \A x \in L : d <= x
  BY <1>3, <1>4, LeastOf
<1>6. d \in DOMAIN ms /\ IsLast(ms, d) /\ \A j \in 1..(d - 1) : ~IsLast(ms, j)
  <2>1. d \in 1..Len(ms) /\ IsLast(ms, d) /\ d \in Nat
    BY <1>2, <1>5
  <2>2. ASSUME NEW j \in 1..(d - 1) PROVE ~IsLast(ms, j)
    <3>1. j \in 1..Len(ms) /\ ~(d <= j)
      BY <1>1, <2>1
    <3> QED
      BY <1>2, <1>5, <3>1
  <2> QED
    BY <1>1, <2>1, <2>2
<1>7. Due(ms) \in DOMAIN ms /\ IsLast(ms, Due(ms))
  BY <1>6 DEF Due
<1>8. ASSUME NEW j \in 1..(k - 1) PROVE ~IsLast(ms, j)
  <2>1. j # Len(ms)
    <3>1. PICK l : l = Len(ms)
      OBVIOUS
    <3>2. l \in Nat /\ k \in Nat /\ k <= l /\ j \in Nat /\ j < k
      BY <1>1, <3>1
    <3> QED
      BY ONLY <3>1, <3>2
  <2>2. Passes(ms, j)
    OBVIOUS
  <2> QED
    BY ONLY <2>1, <2>2 DEF Passes, IsLast
<1>9. ~(Due(ms) \in 1..(k - 1))
  BY <1>7, <1>8
<1>10. PICK e : e = Due(ms)
  OBVIOUS
<1>11. e \in 1..Len(ms) /\ ~(e \in 1..(k - 1))
  BY <1>1, <1>7, <1>9, <1>10
<1> QED
  BY <1>1, <1>10, <1>11

\* What the code answers: what AnswersWhatWasSent asks of it, and 400 to what is
\* left of trailers, to which it should answer nothing (finding 5, run trailers).
Answers(ms, k, o) ==
    \/ k <= Due(ms) /\ Strays(ms, k) = <<>> /\ o = Expected(ms, k)
    \/ Strays(ms, k) # <<>> /\ o = [error |-> 400, file |-> <<>>]
    \/ MayPileUp(ms, k) /\ o = [error |-> 431, file |-> <<>>]

\* Every message but a form with more behind it has such an answer.
AnswersButCutForms ==
    \A k \in DOMAIN served : CutForm(msgs, k) \/ Answers(msgs, k, served[k])

\* A form is the last message of its stream, and ends with its body.
FormsComeLast ==
    \A ms \in Streams : \A k \in 1..Len(ms) :
        ms[k].form => k = Len(ms) /\ ms[k].trailers = 0

LEMMA ToldRight ==
    ASSUME StreamInv, Truth
    PROVE  AnswersButCutForms
<1>1. msgs \in Streams /\ served \in Seq(Response)
  BY DEF StreamInv, Shape
<1>2. ASSUME NEW k \in DOMAIN served
      PROVE  CutForm(msgs, k) \/ Answers(msgs, k, served[k])
  <2>1. Rightly(msgs, k, served[k])
    BY DEF Truth
  <2>2. ASSUME k <= Len(msgs), \A j \in 1..(k - 1) : Passes(msgs, j) PROVE k <= Due(msgs)
    <3>1. k \in 1..Len(msgs)
      <4>1. k \in Nat /\ k >= 1 /\ Len(msgs) \in Nat
        <5>1. k \in 1..Len(served) /\ Len(served) \in Nat
          BY <1>1
        <5> QED
          BY <1>1, <5>1, StreamOf
      <4> QED
        BY <2>2, <4>1
    <3> QED
      BY <1>1, <2>2, <3>1, IsDue
  <2> QED
    BY <2>1, <2>2 DEF Rightly, Answers
<1> QED
  BY <1>2 DEF AnswersButCutForms

LEMMA NoneIsCut ==
    ASSUME FormsComeLast, msgs \in Streams, AnswersButCutForms
    PROVE  AnswersWhatWasSent
<1>1. ASSUME NEW k PROVE ~CutForm(msgs, k)
  <2> SUFFICES ASSUME CutForm(msgs, k) PROVE FALSE
    OBVIOUS
  <2>1. k \in 1..Len(msgs) /\ msgs[k].form /\ (k < Len(msgs) \/ msgs[k].trailers > 0)
    BY DEF CutForm
  <2>2. k = Len(msgs) /\ msgs[k].trailers = 0
    BY <2>1 DEF FormsComeLast
  <2>3. ~(0 > 0) /\ ~(Len(msgs) < Len(msgs))
    BY StreamOf
  <2> QED
    BY <2>1, <2>2, <2>3
<1>2. ASSUME NEW k \in DOMAIN served PROVE Answers(msgs, k, served[k])
  BY <1>1 DEF AnswersButCutForms
<1>3. ASSUME NEW k \in DOMAIN served, Strays(msgs, k) = <<>>
      PROVE  \/ k <= Due(msgs) /\ served[k] = Expected(msgs, k)
             \/ MayPileUp(msgs, k) /\ served[k] = [error |-> 431, file |-> <<>>]
  BY <1>2, <1>3 DEF Answers
<1> QED
  BY <1>3 DEF AnswersWhatWasSent

-----------------------------------------------------------------------------
(* The properties *)

\* Every variable has its type, the boundary of a request lies within its buffer
\* and no more of a body is written than there is (Request.cpp:69-98, 223;
\* Server.cpp:664-672), whatever a peer sends and however it is cut: also where a
\* recv() in the middle of a write replaces the body (finding 4).
THEOREM StreamIsTyped == Spec => []TypeOK
<1>1. StreamInv => TypeOK
  BY Bounds
<1> QED
  BY <1>1, StreamAlways, PTL

\* What is in the buffer and what is still to be received are together all that
\* is left to come: the messages that have not been answered and, in front of
\* them, what the parser has left of trailers.
HoldsTheRest == phase # "closed" => req.raw \o unread = Here(msgs, Turn)

\* No byte is lost or read twice across Keep-Alive resets (Request.cpp:44, 223);
\* of trailers all but the first are read as the beginning of the next request
\* (Request.cpp:186), which is finding 5.
THEOREM NoByteIsLost == Spec => []HoldsTheRest
<1>1. StreamInv => HoldsTheRest
  BY DEF StreamInv, Place, HoldsTheRest
<1> QED
  BY <1>1, StreamAlways, PTL

\* But for a body with trailers, the next request begins where the last one ended:
\* what is in the buffer and what is still to be received are together, at every
\* moment, the messages that have not been answered (Request.cpp:44, 96, 223).
THEOREM NothingIsSkipped == Spec => []BufferStartsAMessage
<1>1. StreamInv => BufferStartsAMessage
  <2> SUFFICES ASSUME StreamInv, phase # "closed", Strays(msgs, Turn) = <<>>
               PROVE  req.raw \o unread = From[msgs][Turn]
    BY DEF BufferStartsAMessage, Turn
  <2>1. msgs \in Streams /\ Turn \in 1..(Len(msgs) + 1) /\ req.raw \o unread = Here(msgs, Turn)
    BY DEF StreamInv, Shape, Place
  <2> QED
    BY <2>1, HereIs
<1> QED
  BY <1>1, StreamAlways, PTL

\* A request that is not refused is complete exactly when the last byte the
\* parser needs of it is in the buffer (Request.cpp:69-98, 196), whichever reads
\* brought it there and whatever stood in front of it.
THEOREM CompleteInTime == Spec => []CompleteWhenWhole
<1>1. StreamInv => CompleteWhenWhole
  BY Awaited
<1> QED
  BY <1>1, StreamAlways, PTL

\* The answers are those that the messages call for, in their order, and of each
\* body exactly its units (Request.cpp:69-98, 186-202; Response.cpp:537;
\* Server.cpp:204, 242, 259, 664-672), however the bytes are cut into reads and
\* the body into writes.  The code has three exceptions and no others: a form with
\* more behind it may be written with its envelope (run form), what is left of
\* trailers is answered 400 and never served (run trailers), and 431 may meet what
\* has piled up.  What comes before and after them is answered as it must be.
THEOREM AnswersHold == Spec => []AnswersButCutForms
<1>1. Init => Truth
  BY TruthAtFirst
<1>2. StreamInv /\ Truth /\ [Next]_vars => Truth'
  BY TruthStep
<1>3. StreamInv /\ Truth => AnswersButCutForms
  BY ToldRight
<1> QED
  BY <1>1, <1>2, <1>3, StreamAlways, PTL DEF Spec

\* Where forms come last, every message has the answer it calls for (the lines of
\* AnswersHold): a form then has nothing behind it that could be received while it
\* is written.
THEOREM AnswersAreRight ==
    ASSUME FormsComeLast
    PROVE  Spec => []AnswersWhatWasSent
<1>1. FormsComeLast
  OBVIOUS
<1>2. StreamInv /\ AnswersButCutForms => AnswersWhatWasSent
  BY <1>1, NoneIsCut DEF StreamInv, Shape
<1> QED
  BY <1>2, AnswersHold, StreamAlways, PTL
=============================================================================
