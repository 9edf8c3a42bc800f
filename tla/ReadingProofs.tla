---------------------------- MODULE ReadingProofs ----------------------------
(***************************************************************************)
(* The configuration file is read as what it means, and no token of it can *)
(* be left out unnoticed, for every set of files.                          *)
(*                                                                         *)
(* A file is a tree; as tokens it is a sequence of sequences.  Every block *)
(* and statement has a place in it, before which all that comes earlier in *)
(* the tree stands.  The invariant ties the parser's place to one of these *)
(* and what it has built to what the tree before it means; a token missing *)
(* further on changes nothing yet, and one missing here stops the parser,  *)
(* because what is there instead can be nothing the statement may go on    *)
(* with.                                                                   *)
(***************************************************************************)
EXTENDS SiteProofs, NaturalsInduction, WellFoundedInduction

-----------------------------------------------------------------------------
(* Sequences of sequences *)

\* What holds of a number if it holds of all below holds of every number.
LEMMA UpFrom ==
    ASSUME NEW G, 0 \in G, \A m \in Nat : m \in G => m + 1 \in G
    PROVE  Nat \subseteq G
<1> DEFINE B == Nat \ G
<1> SUFFICES ASSUME B # {} PROVE FALSE
  OBVIOUS
<1>1. Min(B) \in B /\ \A x \in B : Min(B) <= x
  BY LeastOf
<1>2. PICK m : m = Min(B)
  OBVIOUS
<1>3. m \in Nat /\ m \notin G /\ m # 0 /\ \A x \in Nat : x \notin G => m <= x
  BY <1>1, <1>2
<1>4. m - 1 \in Nat /\ ~(m <= m - 1) /\ (m - 1) + 1 = m
  BY <1>3
<1>5. m - 1 \in G
  BY <1>3, <1>4
<1> QED
  BY <1>3, <1>4, <1>5

\* Places, as numbers.
LEMMA Within ==
    /\ \A u, l, i, v \in Nat : v = u + l /\ 1 <= i /\ i <= l => u + i \in 1..v
    /\ \A o, a, l, i \in Nat : o + a + 2 <= l /\ 1 <= i /\ i <= a => o + 1 + i \in 1..l /\ o + 1 + i < o + a + 2
    /\ \A o, a, l \in Nat : o + a + 2 <= l => o + 1 \in 1..l /\ o + a + 2 \in 1..l /\ o + 1 < o + a + 2
    /\ \A o, a, l, n, i \in Nat : n = a + l + 3 /\ 1 <= i /\ i <= a => 1 + i \in 1..n /\ o + (1 + i) = o + 1 + i
    /\ \A n : \A j \in 0..(n - 1) : n \in Nat => j + 1 \in 1..n /\ j \in 0..n /\ j + 1 \in 0..n
OBVIOUS

LEMMA Behind == ASSUME NEW o \in Nat, NEW q \in Nat, o + 3 < q PROVE o + 2 < q /\ o + 3 + 1 <= q
OBVIOUS

LEMMA Lower == ASSUME NEW a \in Nat, NEW b \in Nat, NEW c \in Nat, a < b, b < c PROVE a < c
OBVIOUS

\* A slice.
LEMMA Sliced ==
    ASSUME NEW T, NEW w \in Seq(T), NEW i \in Nat \ {0}, NEW j \in Nat, i <= j, j <= Len(w)
    PROVE  /\ Len(SubSeq(w, i, j)) = j - i + 1 /\ SubSeq(w, i, j) \in Seq(T)
           /\ \A p \in 1..(j - i + 1) : SubSeq(w, i, j)[p] = w[i + p - 1]
OBVIOUS

\* The sequences of s put together, up to each.
Joined(f, s) ==
    \A i \in 1..Len(s) : f[i] = IF i = 1 THEN s[i] ELSE f[i - 1] \o s[i]

LEMMA JoinedExists ==
    ASSUME NEW T, NEW s \in Seq(Seq(T))
    PROVE  \E f \in [1..Len(s) -> Seq(T)] : Joined(f, s)
<1> DEFINE n == Len(s)
           Up(f, m) == \A i \in 1..n : i <= m => f[i] = IF i = 1 THEN s[i] ELSE f[i - 1] \o s[i]
           G == {m \in Nat : \E f \in [1..n -> Seq(T)] : Up(f, m)}
<1>1. n \in Nat /\ \A i \in 1..n : s[i] \in Seq(T)
  OBVIOUS
<1>2. 0 \in G
  <2>1. s \in [1..n -> Seq(T)] /\ Up(s, 0)
    OBVIOUS
  <2> QED
    BY <2>1
<1>3. ASSUME NEW m \in Nat, m \in G PROVE m + 1 \in G
  <2>1. PICK f \in [1..n -> Seq(T)] : Up(f, m)
    BY <1>3
  <2>2. CASE m + 1 \notin 1..n
    <3>1. \A i \in 1..n : i <= m + 1 => i <= m
      BY <1>1, <2>2
    <3>2. Up(f, m + 1)
      BY <2>1, <3>1
    <3> HIDE DEF Up
    <3> QED
      BY <2>1, <3>2
  <2>3. CASE m + 1 \in 1..n
    <3> DEFINE x == IF m + 1 = 1 THEN s[m + 1] ELSE f[m] \o s[m + 1]
               g == [f EXCEPT ![m + 1] = x]
    <3>1. x \in Seq(T)
      <4>1. CASE m = 0
        BY <1>1, <2>3, <4>1
      <4>2. CASE m # 0
        <5>0. m \in 1..n
          <6> HIDE DEF n
          <6> QED
            BY <1>1, <2>3, <4>2
        <5>1. f[m] \in Seq(T) /\ s[m + 1] \in Seq(T)
          BY <1>1, <2>1, <2>3, <5>0
        <5>2. f[m] \o s[m + 1] \in Seq(T)
          BY <5>1, ConcatProperties
        <5> QED
          BY <4>2, <5>2
      <4> QED
        BY <4>1, <4>2
    <3> HIDE DEF x
    <3>2. g \in [1..n -> Seq(T)] /\ g[m + 1] = x /\ \A i \in 1..n : i # m + 1 => g[i] = f[i]
      BY <2>3, <3>1
    <3> HIDE DEF g
    <3>3. ASSUME NEW i \in 1..n, i <= m + 1
          PROVE  g[i] = IF i = 1 THEN s[i] ELSE g[i - 1] \o s[i]
      <4>1. i \in Nat /\ (i # 1 => i - 1 \in 1..n /\ i - 1 # m + 1)
        BY <3>3
      <4>2. i # 1 => g[i - 1] = f[i - 1]
        BY <3>2, <4>1
      <4>3. CASE i = m + 1
        BY <3>2, <4>2, <4>3 DEF x
      <4>4. CASE i # m + 1
        <5>1. i <= m /\ g[i] = f[i]
          BY <3>2, <3>3, <4>1, <4>4
        <5> QED
          BY <2>1, <4>2, <5>1
      <4> QED
        BY <4>3, <4>4
    <3>4. Up(g, m + 1)
      BY <3>3
    <3> HIDE DEF Up
    <3> QED
      BY <3>2, <3>4
  <2> QED
    BY <2>2, <2>3
<1>4. n \in G
  <2> HIDE DEF G
  <2>1. Nat \subseteq G
    BY <1>2, <1>3, UpFrom
  <2> QED
    BY <1>1, <2>1
<1>5. PICK f \in [1..n -> Seq(T)] : Up(f, n)
  BY <1>4
<1>6. \A i \in 1..n : i <= n
  BY <1>1
<1> QED
  BY <1>5, <1>6 DEF Joined

LEMMA FlattenIs ==
    ASSUME NEW T, NEW s \in Seq(Seq(T)), s # <<>>
    PROVE  \E f \in [1..Len(s) -> Seq(T)] : Joined(f, s) /\ FlattenSeq(s) = f[Len(s)]
<1>1. Len(s) # 0 /\ Len(s) \in 1..Len(s)
  OBVIOUS
<1> DEFINE Defines(f) == f = [i \in 1..Len(s) |-> IF i = 1 THEN s[i] ELSE f[i - 1] \o s[i]]
<1>2. \E f : Defines(f)
  <2>1. PICK f \in [1..Len(s) -> Seq(T)] : Joined(f, s)
    BY JoinedExists
  <2>2. Defines(f)
    BY <2>1 DEF Joined
  <2> QED
    BY <2>2
<1>3. PICK f : f = CHOOSE g : Defines(g)
  OBVIOUS
<1>4. Defines(f)
  <2> HIDE DEF Defines
  <2> QED
    BY <1>2, <1>3
<1>5. FlattenSeq(s) = f[Len(s)]
  BY <1>1, <1>3 DEF FlattenSeq
<1>6. \A i \in 1..Len(s) : f[i] = IF i = 1 THEN s[i] ELSE f[i - 1] \o s[i]
  BY <1>4
<1>7. PICK h \in [1..Len(s) -> Seq(T)] : Joined(h, s)
  BY JoinedExists
<1> DEFINE G == {m \in Nat : m \in 1..Len(s) => f[m] = h[m]}
<1>8. 0 \in G
  OBVIOUS
<1>9. ASSUME NEW m \in Nat, m \in G PROVE m + 1 \in G
  <2> SUFFICES ASSUME m + 1 \in 1..Len(s) PROVE f[m + 1] = h[m + 1]
    OBVIOUS
  <2>1. m + 1 = 1 \/ m \in 1..Len(s)
    OBVIOUS
  <2>2. (m + 1) - 1 = m
    OBVIOUS
  <2>3. m + 1 # 1 => f[m] = h[m]
    BY <1>9, <2>1
  <2> HIDE DEF G
  <2>4. f[m + 1] = IF m + 1 = 1 THEN s[m + 1] ELSE f[m] \o s[m + 1]
    BY <1>6, <2>2
  <2>5. h[m + 1] = IF m + 1 = 1 THEN s[m + 1] ELSE h[m] \o s[m + 1]
    BY <1>7, <2>2 DEF Joined
  <2> QED
    BY <2>3, <2>4, <2>5
<1>10. \A m \in 1..Len(s) : f[m] = h[m]
  <2> HIDE DEF G
  <2>1. Nat \subseteq G
    BY <1>8, <1>9, UpFrom
  <2> QED
    BY <2>1 DEF G
<1> QED
  BY <1>1, <1>5, <1>7, <1>10

LEMMA FlattenEmpty == FlattenSeq(<<>>) = <<>>
BY DEF FlattenSeq

LEMMA FlattenTyped ==
    ASSUME NEW T, NEW s \in Seq(Seq(T))
    PROVE  FlattenSeq(s) \in Seq(T)
<1>1. CASE s = <<>>
  <2>1. FlattenSeq(s) = <<>>
    BY <1>1, FlattenEmpty
  <2> QED
    BY <2>1
<1>2. CASE s # <<>>
  <2>1. PICK f \in [1..Len(s) -> Seq(T)] : FlattenSeq(s) = f[Len(s)]
    BY <1>2, FlattenIs
  <2>2. Len(s) \in 1..Len(s)
    BY <1>2
  <2> QED
    BY <2>1, <2>2
<1> QED
  BY <1>1, <1>2

\* One sequence more.
LEMMA FlattenMore ==
    ASSUME NEW T, NEW s \in Seq(Seq(T)), NEW x \in Seq(T)
    PROVE  FlattenSeq(Append(s, x)) = FlattenSeq(s) \o x
<1> DEFINE u == Append(s, x)
           n == Len(s)
<1>1. /\ u \in Seq(Seq(T)) /\ u # <<>> /\ Len(u) = n + 1 /\ u[n + 1] = x /\ n \in Nat
      /\ \A i \in 1..n : u[i] = s[i]
  BY AppendProperties
<1> HIDE DEF u
<1>2. PICK g \in [1..(n + 1) -> Seq(T)] : Joined(g, u) /\ FlattenSeq(u) = g[n + 1]
  BY <1>1, FlattenIs
<1>3. \A i \in 1..(n + 1) : g[i] = IF i = 1 THEN u[i] ELSE g[i - 1] \o u[i]
  BY <1>1, <1>2 DEF Joined
<1>4. CASE s = <<>>
  <2>1. n = 0 /\ FlattenSeq(s) = <<>>
    BY <1>4, FlattenEmpty
  <2>2. g[1] = u[1]
    BY <1>3, <2>1
  <2>3. <<>> \o x = x
    BY ConcatEmptySeq
  <2> QED
    BY <1>1, <1>2, <2>1, <2>2, <2>3 DEF u
<1>5. CASE s # <<>>
  <2>1. PICK f \in [1..n -> Seq(T)] : Joined(f, s) /\ FlattenSeq(s) = f[n]
    BY <1>5, FlattenIs
  <2>2. \A i \in 1..n : f[i] = IF i = 1 THEN s[i] ELSE f[i - 1] \o s[i]
    BY <2>1 DEF Joined
  <2> DEFINE G == {m \in Nat : m \in 1..n => f[m] = g[m]}
  <2>3. 0 \in G
    OBVIOUS
  <2>4. ASSUME NEW m \in Nat, m \in G PROVE m + 1 \in G
    <3> SUFFICES ASSUME m + 1 \in 1..n PROVE f[m + 1] = g[m + 1]
      OBVIOUS
    <3>1. (m + 1) - 1 = m /\ (m + 1 = 1 \/ m \in 1..n)
      OBVIOUS
    <3>2. m + 1 # 1 => f[m] = g[m]
      BY <2>4, <3>1
    <3> HIDE DEF G
    <3>3. m + 1 \in 1..(n + 1) /\ u[m + 1] = s[m + 1]
      BY <1>1
    <3>4. f[m + 1] = IF m + 1 = 1 THEN s[m + 1] ELSE f[m] \o s[m + 1]
      BY <2>2, <3>1
    <3>5. g[m + 1] = IF m + 1 = 1 THEN u[m + 1] ELSE g[m] \o u[m + 1]
      BY <1>3, <3>1, <3>3
    <3> QED
      BY <3>2, <3>3, <3>4, <3>5
  <2>5. n \in 1..n /\ f[n] = g[n]
    <3> HIDE DEF G
    <3>1. Nat \subseteq G
      BY <2>3, <2>4, UpFrom
    <3>2. n \in 1..n
      BY <1>5
    <3>3. n \in G
      BY <1>1, <3>1
    <3> QED
      BY <3>2, <3>3 DEF G
  <2>6. n + 1 # 1 /\ (n + 1) - 1 = n /\ n + 1 \in 1..(n + 1)
    BY <1>1, <2>5
  <2>7. g[n + 1] = g[n] \o u[n + 1]
    BY <1>3, <2>6
  <2> QED
    BY <1>1, <1>2, <2>1, <2>5, <2>7 DEF u
<1> QED
  BY <1>4, <1>5

\* How far the first k of the sequences go.
Upto(s, k) == Len(FlattenSeq(SubSeq(s, 1, k)))

LEMMA Shorter ==
    ASSUME NEW T, NEW s \in Seq(T), NEW k \in 0..(Len(s) - 1)
    PROVE  /\ SubSeq(s, 1, k) \in Seq(T) /\ Len(SubSeq(s, 1, k)) = k
           /\ \A i \in 1..k : SubSeq(s, 1, k)[i] = s[i]
           /\ s[k + 1] \in T
           /\ SubSeq(s, 1, k + 1) = Append(SubSeq(s, 1, k), s[k + 1])
<1>1. k \in Nat /\ k + 1 \in Nat /\ k + 1 <= Len(s)
  OBVIOUS
<1>2. \A i \in 1..(k + 1) : s[i] \in T
  BY <1>1
<1>3. SubSeq(s, 1, k) \in Seq(T) /\ Len(SubSeq(s, 1, k)) = k /\ \A i \in 1..k : SubSeq(s, 1, k)[i] = s[i]
  BY <1>1, <1>2, SubSeqProperties
<1>4. /\ SubSeq(s, 1, k + 1) \in Seq(T) /\ Len(SubSeq(s, 1, k + 1)) = k + 1
      /\ \A i \in 1..(k + 1) : SubSeq(s, 1, k + 1)[i] = s[i]
  BY <1>1, <1>2, SubSeqProperties
<1> DEFINE a == SubSeq(s, 1, k)
           c == SubSeq(s, 1, k + 1)
           e == Append(a, s[k + 1])
<1> HIDE DEF a, c
<1>5. /\ e \in Seq(T) /\ Len(e) = k + 1 /\ e[k + 1] = s[k + 1] /\ \A i \in 1..k : e[i] = a[i]
  BY <1>1, <1>2, <1>3, AppendProperties DEF a
<1> HIDE DEF e
<1>6. \A i \in 1..(k + 1) : c[i] = e[i]
  <2> TAKE i \in 1..(k + 1)
  <2>1. i \in 1..k \/ i = k + 1
    BY <1>1
  <2> QED
    BY <1>3, <1>4, <1>5, <2>1 DEF a, c
<1>7. c = e
  BY <1>4, <1>5, <1>6, SeqEqual DEF c
<1> QED
  BY <1>1, <1>2, <1>3, <1>7 DEF a, c, e

LEMMA Begun0 ==
    ASSUME NEW T, NEW s \in Seq(T)
    PROVE  SubSeq(s, 1, 0) = <<>> /\ SubSeq(s, 1, Len(s)) = s
BY SubSeqEmpty, SubSeqFull

\* Where each of the sequences is when they are put together.
LEMMA Offsets ==
    ASSUME NEW T, NEW s \in Seq(Seq(T))
    PROVE  /\ Upto(s, 0) = 0 /\ Upto(s, Len(s)) = Len(FlattenSeq(s))
           /\ FlattenSeq(s) \in Seq(T)
           /\ \A k \in 0..Len(s) : Upto(s, k) \in Nat /\ Upto(s, k) <= Len(FlattenSeq(s))
           /\ \A k \in 0..(Len(s) - 1) :
                 /\ Upto(s, k + 1) = Upto(s, k) + Len(s[k + 1])
                 /\ \A i \in 1..Len(s[k + 1]) : FlattenSeq(s)[Upto(s, k) + i] = s[k + 1][i]
<1> DEFINE n == Len(s)
           F(k) == FlattenSeq(SubSeq(s, 1, k))
<1>1. n \in Nat
  OBVIOUS
<1>2. Upto(s, 0) = 0 /\ F(n) = FlattenSeq(s) /\ F(0) = <<>>
  <2>1. SubSeq(s, 1, 0) = <<>> /\ SubSeq(s, 1, n) = s
    BY Begun0
  <2>2. Len(<<>>) = 0
    OBVIOUS
  <2> QED
    BY <2>1, <2>2, FlattenEmpty DEF Upto
<1>3. \A k \in 0..n : F(k) \in Seq(T)
  <2> TAKE k \in 0..n
  <2>1. SubSeq(s, 1, k) \in Seq(Seq(T))
    OBVIOUS
  <2> QED
    BY <2>1, FlattenTyped
<1>4. ASSUME NEW k \in 0..(n - 1)
      PROVE  /\ k + 1 \in 1..n /\ k \in 0..n /\ s[k + 1] \in Seq(T)
             /\ F(k + 1) = F(k) \o s[k + 1]
  <2>1. /\ SubSeq(s, 1, k) \in Seq(Seq(T)) /\ s[k + 1] \in Seq(T)
        /\ SubSeq(s, 1, k + 1) = Append(SubSeq(s, 1, k), s[k + 1])
    BY Shorter
  <2>2. k + 1 \in 1..n /\ k \in 0..n
    BY <1>1
  <2>3. F(k + 1) = F(k) \o s[k + 1]
    BY <2>1, FlattenMore
  <2> QED
    BY <2>1, <2>2, <2>3
<1>5. \A k \in 0..n : Upto(s, k) = Len(F(k)) /\ Upto(s, k) \in Nat
  BY <1>3 DEF Upto
<1> HIDE DEF F
<1>6. ASSUME NEW k \in 0..(n - 1)
      PROVE  /\ Upto(s, k + 1) = Upto(s, k) + Len(s[k + 1])
             /\ \A i \in 1..Len(F(k)) : F(k + 1)[i] = F(k)[i]
             /\ \A i \in 1..Len(s[k + 1]) : F(k + 1)[Upto(s, k) + i] = s[k + 1][i]
  <2> DEFINE a == F(k)
             c == s[k + 1]
  <2>1. a \in Seq(T) /\ c \in Seq(T) /\ F(k + 1) = a \o c /\ Upto(s, k) = Len(a) /\ Upto(s, k + 1) = Len(a \o c)
    <3>1. k \in 0..n /\ k + 1 \in 0..n
      BY <1>1
    <3> QED
      BY <1>3, <1>4, <1>5, <3>1
  <2> HIDE DEF a, c
  <2>2. /\ Len(a \o c) = Len(a) + Len(c)
        /\ \A i \in 1..(Len(a) + Len(c)) : (a \o c)[i] = IF i <= Len(a) THEN a[i] ELSE c[i - Len(a)]
    BY <2>1, ConcatProperties
  <2>3. Len(a) \in Nat /\ Len(c) \in Nat
    BY <2>1
  <2>4. \A i \in 1..Len(a) : (a \o c)[i] = a[i]
    BY <2>2, <2>3
  <2>5. \A i \in 1..Len(c) : (a \o c)[Len(a) + i] = c[i]
    <3> TAKE i \in 1..Len(c)
    <3>1. Len(a) + i \in 1..(Len(a) + Len(c)) /\ ~(Len(a) + i <= Len(a)) /\ (Len(a) + i) - Len(a) = i
      BY <2>3
    <3> QED
      BY <2>2, <3>1
  <2> QED
    BY <2>1, <2>2, <2>4, <2>5 DEF a, c
\* What is there stays there.
<1>7. ASSUME NEW k \in 0..n
      PROVE  \A m \in k..n : Len(F(k)) <= Len(F(m)) /\ \A i \in 1..Len(F(k)) : F(m)[i] = F(k)[i]
  <2> DEFINE Ok(m) == Len(F(k)) <= Len(F(m)) /\ \A i \in 1..Len(F(k)) : F(m)[i] = F(k)[i]
             G == {x \in Nat : k + x <= n => Ok(k + x)}
  <2>1. 0 \in G
    <3>1. k + 0 = k /\ Len(F(k)) <= Len(F(k))
      BY <1>3, <1>5
    <3> QED
      BY <3>1
  <2>2. ASSUME NEW x \in Nat, x \in G PROVE x + 1 \in G
    <3> SUFFICES ASSUME k + (x + 1) <= n PROVE Ok(k + (x + 1))
      OBVIOUS
    <3>1. PICK m : m = k + x
      OBVIOUS
    <3>2. k + (x + 1) = m + 1 /\ m \in 0..(n - 1) /\ m \in 0..n /\ m + 1 \in 0..n
      BY <1>1, <3>1
    <3>3. Ok(m)
      BY <1>1, <2>2, <3>1, <3>2
    <3>4. Len(F(m + 1)) = Len(F(m)) + Len(s[m + 1]) /\ \A i \in 1..Len(F(m)) : F(m + 1)[i] = F(m)[i]
      BY <1>5, <1>6, <3>2
    <3>5. Len(s[m + 1]) \in Nat /\ Len(F(m)) \in Nat /\ Len(F(k)) \in Nat
      BY <1>3, <1>4, <3>2
    <3>6. Ok(m + 1)
      BY <3>3, <3>4, <3>5
    <3> QED
      BY <3>2, <3>6
  <2>3. ASSUME NEW m \in k..n PROVE Ok(m)
    <3> HIDE DEF G
    <3>1. Nat \subseteq G
      BY <2>1, <2>2, UpFrom
    <3>2. m - k \in G /\ k + (m - k) = m /\ m <= n
      BY <1>1, <3>1
    <3> QED
      BY <3>2 DEF G
  <2> QED
    BY <2>3
<1>8. \A k \in 0..n : Upto(s, k) <= Len(FlattenSeq(s)) /\ \A i \in 1..Upto(s, k) : FlattenSeq(s)[i] = F(k)[i]
  <2> TAKE k \in 0..n
  <2>1. n \in k..n
    BY <1>1
  <2> QED
    BY <1>2, <1>5, <1>7, <2>1
<1>9. ASSUME NEW k \in 0..(n - 1), NEW i \in 1..Len(s[k + 1])
      PROVE  FlattenSeq(s)[Upto(s, k) + i] = s[k + 1][i]
  <2>1. k + 1 \in 0..n /\ Upto(s, k) \in Nat /\ Upto(s, k) + i \in 1..Upto(s, k + 1)
    <3>1. PICK u, l, v : u = Upto(s, k) /\ l = Len(s[k + 1]) /\ v = Upto(s, k + 1)
      OBVIOUS
    <3>2. k \in 0..n /\ k + 1 \in 0..n /\ i \in Nat /\ 1 <= i /\ i <= l /\ l \in Nat
      BY <1>1, <1>4, <3>1
    <3>3. u \in Nat /\ v \in Nat /\ v = u + l
      BY <1>5, <1>6, <3>1, <3>2
    <3>4. u + i \in 1..v
      BY Zenon, <3>2, <3>3, Within
    <3> QED
      BY Zenon, <3>1, <3>2, <3>3, <3>4
  <2> QED
    BY <1>6, <1>8, <2>1
<1>10. Upto(s, n) = Len(FlattenSeq(s)) /\ FlattenSeq(s) \in Seq(T)
  BY <1>1, <1>2, <1>3, <1>5
<1> QED
  BY <1>2, <1>5, <1>6, <1>8, <1>9, <1>10

-----------------------------------------------------------------------------
(* What a file looks like *)

\* The punctuation, named, so that the proofs need not look at its spelling.
Opening == Word("{")
Closing == Word("}")
Ending  == Word(";")

Signs == Token \cup Punctuation
Marks == [token : Signs, spare : BOOLEAN]

LEMMA MarkIs ==
    ASSUME NEW x \in Signs, NEW c \in BOOLEAN
    PROVE  Mark(x, c) \in Marks /\ Mark(x, c).token = x /\ Mark(x, c).spare = c
BY DEF Mark, Marks

LEMMA SignsAre ==
    /\ Opening \in Signs /\ Closing \in Signs /\ Ending \in Signs
    /\ \A n \in String : Word(n) \in Signs
    /\ Plain \subseteq Signs
<1>1. Opening \in Punctuation /\ Closing \in Punctuation /\ Ending \in Punctuation
  BY Zenon DEF Punctuation, Opening, Closing, Ending
<1>2. \A n \in String : Word(n) \in Token
  BY DEF Token, Word
<1> QED
  BY <1>1, <1>2 DEF Signs, Plain

LEMMA WordIs == ASSUME NEW x, NEW y PROVE Word(x) = Word(y) <=> x = y
BY DEF Word

LEMMA SignsDiffer ==
    /\ Opening # Closing /\ Opening # Ending /\ Closing # Ending
    /\ \A n \in Names : Word(n) \notin {Opening, Closing, Ending}
    /\ Word("server") \notin {Opening, Closing, Ending}
    /\ \A x \in Plain : x \notin {Opening, Closing, Ending}
<1>1. "{" # "}" /\ "{" # ";" /\ "}" # ";"
  BY Zenon
<1>2. \A n \in Names : n # "{" /\ n # "}" /\ n # ";"
  BY Zenon DEF Names
<1>3. "server" # "{" /\ "server" # "}" /\ "server" # ";"
  BY Zenon
<1>4. \A x \in Plain : x \notin {Opening, Closing, Ending}
  BY Zenon DEF Plain, Punctuation, Opening, Closing, Ending
<1> QED
  BY <1>1, <1>2, <1>3, <1>4, WordIs, Zenon DEF Opening, Closing, Ending

LEMMA Joining ==
    ASSUME NEW T, NEW a \in Seq(T), NEW c \in Seq(T)
    PROVE  /\ a \o c \in Seq(T) /\ Len(a \o c) = Len(a) + Len(c)
           /\ Len(a) \in Nat /\ Len(c) \in Nat
           /\ \A i \in 1..Len(a) : (a \o c)[i] = a[i]
           /\ \A i \in 1..Len(c) : (a \o c)[Len(a) + i] = c[i]
<1>1. /\ a \o c \in Seq(T) /\ Len(a \o c) = Len(a) + Len(c)
      /\ \A i \in 1..(Len(a) + Len(c)) : (a \o c)[i] = IF i <= Len(a) THEN a[i] ELSE c[i - Len(a)]
  BY ConcatProperties
<1>2. Len(a) \in Nat /\ Len(c) \in Nat
  OBVIOUS
<1>3. \A i \in 1..Len(a) : (a \o c)[i] = a[i]
  BY <1>1, <1>2
<1>4. \A i \in 1..Len(c) : (a \o c)[Len(a) + i] = c[i]
  <2> TAKE i \in 1..Len(c)
  <2>1. Len(a) + i \in 1..(Len(a) + Len(c)) /\ ~(Len(a) + i <= Len(a)) /\ (Len(a) + i) - Len(a) = i
    BY <1>2
  <2> QED
    BY <1>1, <2>1
<1> QED
  BY <1>1, <1>2, <1>3, <1>4

LEMMA Single ==
    ASSUME NEW T, NEW x \in T
    PROVE  <<x>> \in Seq(T) /\ Len(<<x>>) = 1 /\ <<x>>[1] = x
OBVIOUS

\* A sequence between two elements.
LEMMA Between ==
    ASSUME NEW T, NEW x \in T, NEW a \in Seq(T), NEW y \in T, NEW m, m = <<x>> \o a \o <<y>>
    PROVE  /\ m \in Seq(T) /\ Len(a) \in Nat /\ Len(m) = Len(a) + 2
           /\ m[1] = x /\ m[Len(a) + 2] = y
           /\ \A i \in 1..Len(a) : m[1 + i] = a[i]
<1>0. PICK c, u, v : u = <<x>> /\ v = <<y>> /\ c = u \o a
  OBVIOUS
<1>1. /\ u \in Seq(T) /\ Len(u) = 1 /\ u[1] = x
      /\ v \in Seq(T) /\ Len(v) = 1 /\ v[1] = y
  BY <1>0, Single
<1>2. /\ c \in Seq(T) /\ Len(c) = 1 + Len(a) /\ Len(a) \in Nat
      /\ c[1] = x /\ \A i \in 1..Len(a) : c[1 + i] = a[i]
  <2>1. /\ c \in Seq(T) /\ Len(c) = Len(u) + Len(a) /\ Len(a) \in Nat
        /\ \A i \in 1..Len(u) : c[i] = u[i]
        /\ \A i \in 1..Len(a) : c[Len(u) + i] = a[i]
    BY <1>0, <1>1, Joining
  <2> QED
    BY <1>1, <2>1
<1>3. /\ m \in Seq(T) /\ Len(m) = Len(c) + Len(v)
      /\ \A i \in 1..Len(c) : m[i] = c[i]
      /\ \A i \in 1..Len(v) : m[Len(c) + i] = v[i]
  <2>1. m = c \o v
    BY <1>0
  <2> QED
    BY <1>1, <1>2, <2>1, Joining
<1>4. Len(m) = Len(a) + 2 /\ m[1] = x /\ m[Len(a) + 2] = y
  <2>1. 1 \in 1..Len(c) /\ 1 \in 1..Len(v) /\ Len(c) + 1 = Len(a) + 2
    BY <1>1, <1>2
  <2> QED
    BY <1>1, <1>2, <1>3, <2>1
<1>5. \A i \in 1..Len(a) : m[1 + i] = a[i]
  <2> TAKE i \in 1..Len(a)
  <2>1. 1 + i \in 1..Len(c)
    BY <1>2
  <2> QED
    BY <1>2, <1>3, <2>1
<1> QED
  BY <1>2, <1>3, <1>4, <1>5

\* A statement: its name, its arguments, ";".
LEMMA StatementShape ==
    ASSUME NEW d, d.name \in String, d.args \in Seq(Plain)
    PROVE  LET m == MarkedStatement(d)
               a == Len(d.args)
           IN /\ m \in Seq(Marks) /\ a \in Nat /\ Len(m) = a + 2
              /\ m[1].token = Word(d.name)
              /\ ~m[1].spare => a > 0 /\ d.args[1] \notin {Word(n) : n \in Names}
              /\ \A i \in 1..a : /\ m[1 + i].token = d.args[i]
                                 /\ ~m[1 + i].spare => d.name \notin Lists /\ (d.name = "allow_methods" => a = 1)
              /\ m[a + 2].token = Ending
              /\ ~m[a + 2].spare => d.name \notin Lists
<1>1. PICK w : w = d.args /\ w \in Seq(Signs)
  BY SignsAre, MoreToHold
<1>2. PICK a : a = Len(w) /\ a \in Nat /\ DOMAIN w = 1..a /\ (w = <<>> <=> a = 0) /\ \A k \in 1..a : w[k] \in Signs
  BY <1>1
<1>3. PICK first \in BOOLEAN : first <=> w = <<>> \/ w[1] \in {Word(n) : n \in Names}
  OBVIOUS
<1>4. PICK several \in BOOLEAN : several <=> d.name = "allow_methods" /\ a > 1
  OBVIOUS
<1>5. PICK lists \in BOOLEAN : lists <=> d.name \in Lists
  OBVIOUS
<1>6. PICK each \in BOOLEAN : each <=> lists \/ several
  OBVIOUS
<1>7. PICK x : x = Mark(Word(d.name), first) /\ x \in Marks /\ x.token = Word(d.name) /\ x.spare = first
  <2>1. Word(d.name) \in Signs
    BY SignsAre
  <2> QED
    BY <2>1, MarkIs
<1>8. PICK y : y = Mark(Ending, lists) /\ y \in Marks /\ y.token = Ending /\ y.spare = lists
  <2>1. Ending \in Signs
    BY SignsAre
  <2> QED
    BY <1>5, <2>1, MarkIs
<1>9. PICK s : s = [k \in 1..a |-> Mark(w[k], each)]
  OBVIOUS
<1>10. \A k \in 1..a : s[k] \in Marks /\ s[k].token = w[k] /\ s[k].spare = each
  BY <1>2, <1>9, MarkIs
<1>11. s \in Seq(Marks) /\ Len(s) = a
  <2>1. \A k \in 1..a : Mark(w[k], each) \in Marks
    BY <1>2, MarkIs
  <2> QED
    BY <1>2, <1>9, <2>1
<1>12. PICK m : m = <<x>> \o s \o <<y>>
  OBVIOUS
<1>13. m = MarkedStatement(d)
  <2>1. first = (w = <<>> \/ w[1] \in {Word(n) : n \in Names})
    BY <1>3
  <2>2. lists = (d.name \in Lists)
    BY <1>5
  <2>3. each = (d.name \in Lists \/ (d.name = "allow_methods" /\ Len(w) > 1))
    BY <1>2, <1>4, <1>5, <1>6
  <2> QED
    BY <1>1, <1>2, <1>7, <1>8, <1>9, <1>12, Zenon, <2>1, <2>2, <2>3 DEF MarkedStatement, Ending
<1>20. x \in Marks /\ y \in Marks
  BY <1>7, <1>8
<1>14. /\ m \in Seq(Marks) /\ Len(m) = a + 2
       /\ m[1] = x /\ m[a + 2] = y
       /\ \A i \in 1..a : m[1 + i] = s[i]
  BY <1>11, <1>12, <1>20, Between
<1>15. \A i \in 1..a :
          /\ m[1 + i].token = w[i]
          /\ ~m[1 + i].spare => d.name \notin Lists /\ (d.name = "allow_methods" => a = 1)
  <2> TAKE i \in 1..a
  <2>1. a >= 1 /\ (~(a > 1) => a = 1)
    BY <1>2
  <2> QED
    BY <1>4, <1>5, <1>6, <1>10, <1>14, <2>1
<1>16. ~x.spare => a > 0 /\ w[1] \notin {Word(n) : n \in Names}
  BY <1>2, <1>3, <1>7
<1>17. ~y.spare => d.name \notin Lists
  BY <1>5, <1>8
<1> QED
  BY <1>1, <1>2, <1>7, <1>8, <1>13, <1>14, <1>15, <1>16, <1>17

\* A block: its name, its arguments, and what is inside, in braces.
LEMMA BlockShape ==
    ASSUME NEW b, b.name \in String, b.args \in Seq(Plain), NEW inside \in Seq(Seq(Marks))
    PROVE  LET m == MarkedBlock(b, inside)
               f == FlattenSeq(inside)
               a == Len(b.args)
           IN /\ m \in Seq(Marks) /\ a \in Nat /\ Len(f) \in Nat /\ Len(m) = a + Len(f) + 3
              /\ m[1].token = Word(b.name)
              /\ \A i \in 1..a : m[1 + i].token = b.args[i]
              /\ m[a + 2].token = Opening
              /\ \A i \in 1..Len(f) : m[a + 2 + i] = f[i]
              /\ m[a + Len(f) + 3].token = Closing
<1>1. PICK x, y, z : x = Mark(Word(b.name), FALSE) /\ y = Mark(Opening, FALSE) /\ z = Mark(Closing, FALSE)
  OBVIOUS
<1>2. /\ x \in Marks /\ x.token = Word(b.name) /\ y \in Marks /\ y.token = Opening
      /\ z \in Marks /\ z.token = Closing
  BY <1>1, MarkIs, SignsAre
<1>0. PICK w : w = b.args /\ w \in Seq(Signs)
  BY SignsAre, MoreToHold
<1>3. DOMAIN w = 1..Len(w) /\ Len(w) \in Nat /\ \A k \in 1..Len(w) : w[k] \in Signs
  BY <1>0
<1>4. PICK s : s = [k \in DOMAIN w |-> Mark(w[k], FALSE)]
  OBVIOUS
<1>5. s \in Seq(Marks) /\ Len(s) = Len(w)
  <2>1. PICK a : a = Len(w) /\ a \in Nat
    BY <1>3
  <2>2. PICK no \in BOOLEAN : no = FALSE
    OBVIOUS
  <2>3. \A k \in 1..a : Mark(w[k], no) \in Marks
    BY <1>3, <2>1, MarkIs
  <2>5. s = [k \in 1..a |-> Mark(w[k], no)]
    BY <1>3, <1>4, <2>1, <2>2
  <2>4. s \in Seq(Marks) /\ Len(s) = a
    BY <2>1, <2>3, <2>5
  <2> QED
    BY <2>1, <2>4
<1>21. \A k \in 1..Len(w) : s[k].token = w[k]
  BY <1>3, <1>4, MarkIs
<1>22. x \in Marks /\ y \in Marks /\ z \in Marks
  BY <1>2
<1>6. PICK f : f = FlattenSeq(inside) /\ f \in Seq(Marks) /\ Len(f) \in Nat
  <2>1. FlattenSeq(inside) \in Seq(Marks)
    BY FlattenTyped
  <2> QED
    BY <2>1
<1>7. PICK h : h = <<x>> \o s \o <<y>>
  OBVIOUS
<1>8. PICK g, v : g = h \o f /\ v = <<z>>
  OBVIOUS
<1>9. PICK m : m = g \o v
  OBVIOUS
<1>16. m = MarkedBlock(b, inside)
  BY <1>0, <1>1, <1>4, <1>6, <1>7, <1>8, <1>9, Zenon DEF MarkedBlock, Opening, Closing
<1>17. /\ h \in Seq(Marks) /\ Len(s) \in Nat /\ Len(h) = Len(s) + 2
       /\ h[1] = x /\ h[Len(s) + 2] = y
       /\ \A i \in 1..Len(s) : h[1 + i] = s[i]
  BY <1>5, <1>7, <1>22, Between
<1>18. /\ g \in Seq(Marks) /\ Len(g) = Len(h) + Len(f)
       /\ \A i \in 1..Len(h) : g[i] = h[i]
       /\ \A i \in 1..Len(f) : g[Len(h) + i] = f[i]
  <2>1. f \in Seq(Marks) /\ h \in Seq(Marks) /\ g = h \o f
    BY <1>6, <1>8, <1>17
  <2> QED
    BY <2>1, Joining
<1>19. v \in Seq(Marks) /\ Len(v) = 1 /\ v[1] = z
  BY <1>8, <1>22, Single
<1>20. /\ m \in Seq(Marks) /\ Len(m) = Len(g) + 1
       /\ \A i \in 1..Len(g) : m[i] = g[i]
       /\ m[Len(g) + 1] = z
  <2>1. /\ m \in Seq(Marks) /\ Len(m) = Len(g) + Len(v)
        /\ \A i \in 1..Len(g) : m[i] = g[i]
        /\ \A i \in 1..Len(v) : m[Len(g) + i] = v[i]
    <3>1. g \in Seq(Marks) /\ v \in Seq(Marks) /\ m = g \o v
      BY <1>9, <1>18, <1>19
    <3> QED
      BY <3>1, Joining
  <2>2. 1 \in 1..Len(v)
    BY <1>19
  <2> QED
    BY <1>19, <2>1, <2>2
<1>10. PICK a, l : a = Len(w) /\ l = Len(f) /\ a \in Nat /\ l \in Nat /\ Len(h) = a + 2
                   /\ Len(g) = a + 2 + l /\ Len(s) = a
  BY <1>3, <1>5, <1>6, <1>17, <1>18
<1>11. Len(m) = a + l + 3 /\ m[a + l + 3] = z
  BY <1>20, <1>10
<1>12. m[1] = x
  <2>1. 1 \in 1..Len(h) /\ 1 \in 1..Len(g)
    BY <1>10
  <2> QED
    BY <1>17, <1>18, <1>20, <2>1
<1>13. \A i \in 1..a : m[1 + i].token = w[i]
  <2> TAKE i \in 1..a
  <2>1. 1 + i \in 1..Len(h) /\ 1 + i \in 1..Len(g)
    BY <1>10
  <2>2. m[1 + i] = s[i]
    BY <1>17, <1>18, <1>20, <1>10, <2>1
  <2> QED
    BY <1>21, <1>10, <2>2
<1>14. m[a + 2] = y
  <2>1. a + 2 \in 1..Len(h) /\ a + 2 \in 1..Len(g)
    BY <1>10
  <2> QED
    BY <1>17, <1>18, <1>20, <1>10, <2>1
<1>15. \A i \in 1..l : m[a + 2 + i] = f[i]
  <2> TAKE i \in 1..l
  <2>1. a + 2 + i \in 1..Len(g)
    BY <1>10
  <2> QED
    BY <1>18, <1>20, <1>10, <2>1
<1> QED
  BY <1>0, <1>2, <1>6, <1>10, <1>11, <1>12, <1>13, <1>14, <1>15, <1>16, <1>20

-----------------------------------------------------------------------------
(* Where everything is in a file *)

Items == Statements \cup Blocks(Statements)

\* The statements of a location, the directives of a server, the servers of a file, marked.
StatementsOf(d) == [k \in DOMAIN d.body |-> MarkedStatement(d.body[k])]
DirectivesOf(b) == [k \in DOMAIN b.body |-> MarkedLocation(b.body[k])]
ServersOf(t)    == [k \in DOMAIN t |-> MarkedServer(t[k])]

\* How many tokens there are before server k + 1, its directive j + 1, and statement i + 1 of that.
ServerAt(t, k)          == Upto(ServersOf(t), k)
DirectiveAt(t, k, j)    == ServerAt(t, k) + 2 + Upto(DirectivesOf(t[k + 1]), j)
StatementAt(t, k, j, i) == DirectiveAt(t, k, j) + 3 + Upto(StatementsOf(t[k + 1].body[j + 1]), i)

HasBody(d) == "body" \in DOMAIN d

LEMMA ItemIs ==
    ASSUME NEW d \in Items
    PROVE  /\ d.name \in String /\ d.args \in Seq(Plain)
           /\ HasBody(d) => d.body \in Seq(Statements)
           /\ ~HasBody(d) => d \in Statements
<1>1. CASE d \in Statements
  <2>1. d.name \in String /\ d.args \in Seq(Plain) /\ "body" \notin DOMAIN d
    BY <1>1 DEF Statements
  <2> QED
    BY <1>1, <2>1 DEF HasBody
<1>2. CASE d \in Blocks(Statements)
  <2>1. d.name \in String /\ d.args \in Seq(Plain) /\ d.body \in Seq(Statements) /\ "body" \in DOMAIN d
    BY <1>2 DEF Blocks
  <2> QED
    BY <2>1 DEF HasBody
<1> QED
  BY <1>1, <1>2 DEF Items, HasBody

LEMMA BlockIs ==
    ASSUME NEW S, NEW b \in Blocks(S)
    PROVE  b.name \in String /\ b.args \in Seq(Plain) /\ b.body \in Seq(S)
BY DEF Blocks

LEMMA StatementIs ==
    ASSUME NEW d \in Statements
    PROVE  d.name \in String /\ d.args \in Seq(Plain)
BY DEF Statements

LEMMA FileIs ==
    ASSUME NEW t, IsFile(t)
    PROVE  /\ t \in Seq(Blocks(Items)) /\ Len(t) \in Nat /\ t # <<>>
           /\ \A k \in 0..(Len(t) - 1) : t[k + 1] \in Blocks(Items) /\ IsServer(t[k + 1])
<1>1. t \in Seq(Blocks(Items)) /\ t # <<>> /\ \A k \in DOMAIN t : IsServer(t[k])
  BY DEF IsFile, Items
<1>2. Len(t) \in Nat /\ DOMAIN t = 1..Len(t) /\ \A k \in 1..Len(t) : t[k] \in Blocks(Items)
  BY <1>1
<1>3. \A k \in 0..(Len(t) - 1) : k + 1 \in 1..Len(t)
  BY <1>2
<1> QED
  BY <1>1, <1>2, <1>3

LEMMA SeqMade ==
    ASSUME NEW T, NEW n \in Nat, NEW s, s = [k \in 1..n |-> s[k]], \A k \in 1..n : s[k] \in T
    PROVE  s \in Seq(T) /\ Len(s) = n
OBVIOUS

LEMMA StatementsMarked ==
    ASSUME NEW d, d.body \in Seq(Statements)
    PROVE  /\ StatementsOf(d) \in Seq(Seq(Marks)) /\ Len(StatementsOf(d)) = Len(d.body)
           /\ \A k \in 1..Len(d.body) : StatementsOf(d)[k] = MarkedStatement(d.body[k])
<1>1. PICK n, w, s : n = Len(d.body) /\ w = d.body /\ s = StatementsOf(d)
  OBVIOUS
<1>2. n \in Nat /\ DOMAIN w = 1..n /\ \A k \in 1..n : w[k] \in Statements
  BY <1>1
<1>3. s = [k \in 1..n |-> MarkedStatement(w[k])]
  BY <1>1, <1>2 DEF StatementsOf
<1>4. \A k \in 1..n : s[k] = MarkedStatement(w[k])
  BY <1>3
<1>5. \A k \in 1..n : s[k] \in Seq(Marks)
  BY <1>2, <1>4, StatementIs, StatementShape
<1>6. s = [k \in 1..n |-> s[k]]
  BY <1>3
<1>7. s \in Seq(Seq(Marks)) /\ Len(s) = n
  BY Zenon, <1>2, <1>5, <1>6, SeqMade
<1> QED
  BY Zenon, <1>1, <1>2, <1>4, <1>7

LEMMA ItemMarked ==
    ASSUME NEW d \in Items
    PROVE  /\ MarkedLocation(d) \in Seq(Marks)
           /\ HasBody(d) => MarkedLocation(d) = MarkedBlock(d, StatementsOf(d))
           /\ ~HasBody(d) => MarkedLocation(d) = MarkedStatement(d)
<1>1. CASE HasBody(d)
  <2>1. MarkedLocation(d) = MarkedBlock(d, StatementsOf(d))
    BY <1>1 DEF HasBody, MarkedLocation, StatementsOf
  <2>2. d.name \in String /\ d.args \in Seq(Plain) /\ StatementsOf(d) \in Seq(Seq(Marks))
    BY <1>1, ItemIs, StatementsMarked
  <2>3. MarkedBlock(d, StatementsOf(d)) \in Seq(Marks)
    BY <2>2, BlockShape
  <2> QED
    BY <1>1, <2>1, <2>3
<1>2. CASE ~HasBody(d)
  <2>1. MarkedLocation(d) = MarkedStatement(d)
    BY <1>2 DEF HasBody, MarkedLocation
  <2>2. MarkedStatement(d) \in Seq(Marks)
    BY ItemIs, StatementShape
  <2> QED
    BY <1>2, <2>1, <2>2
<1> QED
  BY <1>1, <1>2

LEMMA DirectivesMarked ==
    ASSUME NEW b \in Blocks(Items)
    PROVE  /\ DirectivesOf(b) \in Seq(Seq(Marks)) /\ Len(DirectivesOf(b)) = Len(b.body)
           /\ \A k \in 1..Len(b.body) : DirectivesOf(b)[k] = MarkedLocation(b.body[k])
<1>1. PICK n, w, s : n = Len(b.body) /\ w = b.body /\ s = DirectivesOf(b)
  OBVIOUS
<1>2. n \in Nat /\ DOMAIN w = 1..n /\ \A k \in 1..n : w[k] \in Items
  BY <1>1, BlockIs
<1>3. s = [k \in 1..n |-> MarkedLocation(w[k])]
  BY <1>1, <1>2 DEF DirectivesOf
<1>4. \A k \in 1..n : s[k] = MarkedLocation(w[k])
  BY <1>3
<1>5. \A k \in 1..n : s[k] \in Seq(Marks)
  BY <1>2, <1>4, ItemMarked
<1>6. s = [k \in 1..n |-> s[k]]
  BY <1>3
<1>7. s \in Seq(Seq(Marks)) /\ Len(s) = n
  BY Zenon, <1>2, <1>5, <1>6, SeqMade
<1> QED
  BY Zenon, <1>1, <1>2, <1>4, <1>7

LEMMA ServerMarked ==
    ASSUME NEW b \in Blocks(Items)
    PROVE  MarkedServer(b) = MarkedBlock(b, DirectivesOf(b)) /\ MarkedServer(b) \in Seq(Marks)
<1>1. MarkedServer(b) = MarkedBlock(b, DirectivesOf(b))
  BY DEF MarkedServer, DirectivesOf
<1>2. b.name \in String /\ b.args \in Seq(Plain) /\ DirectivesOf(b) \in Seq(Seq(Marks))
  BY BlockIs, DirectivesMarked
<1> QED
  BY <1>1, <1>2, BlockShape

LEMMA ServersMarked ==
    ASSUME NEW t, IsFile(t)
    PROVE  /\ ServersOf(t) \in Seq(Seq(Marks)) /\ Len(ServersOf(t)) = Len(t)
           /\ \A k \in 0..(Len(t) - 1) : ServersOf(t)[k + 1] = MarkedServer(t[k + 1])
           /\ Marked(t) = FlattenSeq(ServersOf(t)) /\ Marked(t) \in Seq(Marks)
<1>1. PICK n, s : n = Len(t) /\ s = ServersOf(t)
  OBVIOUS
<1>2. n \in Nat /\ DOMAIN t = 1..n /\ \A k \in 1..n : t[k] \in Blocks(Items)
  BY <1>1, FileIs
<1>3. s = [k \in 1..n |-> MarkedServer(t[k])]
  BY <1>1, <1>2 DEF ServersOf
<1>4. \A k \in 1..n : s[k] = MarkedServer(t[k])
  BY <1>3
<1>5. \A k \in 1..n : s[k] \in Seq(Marks)
  BY <1>2, <1>4, ServerMarked
<1>6. s = [k \in 1..n |-> s[k]]
  BY <1>3
<1>7. s \in Seq(Seq(Marks)) /\ Len(s) = n
  BY <1>2, <1>5, <1>6, SeqMade
<1>8. Marked(t) = FlattenSeq(s) /\ FlattenSeq(s) \in Seq(Marks)
  <2>1. Marked(t) = FlattenSeq(s)
    BY <1>1 DEF Marked, ServersOf
  <2> QED
    BY <1>7, <2>1, FlattenTyped
<1>9. \A k \in 0..(n - 1) : k + 1 \in 1..n
  BY <1>2
<1> QED
  BY <1>1, <1>4, <1>7, <1>8, <1>9

TokenAt(m, p) == m[p].token
SpareAt(m, p) == m[p].spare
\* The sequence s stands in m, behind the first o elements.
Stands(m, o, s) == o + Len(s) <= Len(m) /\ \A i \in 1..Len(s) : m[o + i] = s[i]

LEMMA StandsAtStart == ASSUME NEW T, NEW s \in Seq(T) PROVE Stands(s, 0, s)
<1>1. Len(s) \in Nat
  OBVIOUS
<1>2. \A l \in Nat : 0 + l <= l /\ \A i \in 1..l : 0 + i = i
  OBVIOUS
<1> QED
  BY <1>1, <1>2 DEF Stands

LEMMA StandsInside ==
    ASSUME NEW T, NEW m \in Seq(T), NEW s \in Seq(Seq(T)), NEW o \in Nat, Stands(m, o, FlattenSeq(s)),
           NEW k \in 0..(Len(s) - 1)
    PROVE  Stands(m, o + Upto(s, k), s[k + 1]) /\ Upto(s, k) \in Nat
<1>1. PICK f, u, c : f = FlattenSeq(s) /\ u = Upto(s, k) /\ c = s[k + 1]
  OBVIOUS
<1>2. k \in 0..Len(s) /\ k + 1 \in 0..Len(s) /\ k + 1 \in 1..Len(s)
  OBVIOUS
<1>3. /\ f \in Seq(T) /\ u \in Nat /\ u + Len(c) <= Len(f)
      /\ \A i \in 1..Len(c) : f[u + i] = c[i]
  <2>1. Upto(s, k + 1) = u + Len(c) /\ Upto(s, k + 1) <= Len(f)
    BY <1>1, <1>2, Offsets
  <2> QED
    BY <1>1, <1>2, <2>1, Offsets
<1>4. c \in Seq(T) /\ Len(c) \in Nat /\ Len(f) \in Nat /\ Len(m) \in Nat
  BY <1>1, <1>2, <1>3
<1>5. o + Len(f) <= Len(m) /\ \A i \in 1..Len(f) : m[o + i] = f[i]
  BY <1>1 DEF Stands
<1>6. \A i \in 1..Len(c) : m[(o + u) + i] = c[i]
  <2> TAKE i \in 1..Len(c)
  <2>1. u + i \in 1..Len(f) /\ o + (u + i) = (o + u) + i
    BY <1>3, <1>4
  <2> QED
    BY <1>3, <1>5, <2>1
<1>7. (o + u) + Len(c) <= Len(m)
  <2>1. PICK x, y, z : x = Len(c) /\ y = Len(f) /\ z = Len(m)
    OBVIOUS
  <2>2. x \in Nat /\ y \in Nat /\ z \in Nat /\ u \in Nat /\ u + x <= y /\ o + y <= z
    BY Zenon, <1>3, <1>4, <1>5, <2>1
  <2>3. (o + u) + x <= z
    BY <2>2
  <2> QED
    BY Zenon, <2>1, <2>3
<1>8. Stands(m, o + u, c)
  BY Zenon, <1>6, <1>7 DEF Stands
<1> QED
  BY Zenon, <1>1, <1>3, <1>8

\* Behind o there is a block: its head, f inside, its end.
BlockAt(m, o, b, f) ==
    LET a == Len(b.args)
    IN /\ a \in Nat /\ Len(f) \in Nat /\ o + a + 3 + Len(f) <= Len(m)
       /\ TokenAt(m, o + 1) = Word(b.name)
       /\ \A i \in 1..a : TokenAt(m, o + 1 + i) = b.args[i]
       /\ TokenAt(m, o + a + 2) = Opening
       /\ Stands(m, o + a + 2, f)
       /\ TokenAt(m, o + a + 3 + Len(f)) = Closing

\* Behind o there is a statement, with what it takes to miss a token of it.
StatedAt(m, o, d) ==
    LET a == Len(d.args)
    IN /\ a \in Nat /\ o + a + 2 <= Len(m)
       /\ TokenAt(m, o + 1) = Word(d.name)
       /\ ~SpareAt(m, o + 1) => a > 0 /\ d.args[1] \notin {Word(n) : n \in Names}
       /\ \A i \in 1..a : /\ TokenAt(m, o + 1 + i) = d.args[i]
                          /\ ~SpareAt(m, o + 1 + i) => d.name \notin Lists /\ (d.name = "allow_methods" => a = 1)
       /\ TokenAt(m, o + a + 2) = Ending
       /\ ~SpareAt(m, o + a + 2) => d.name \notin Lists

LEMMA BlockStands ==
    ASSUME NEW b, b.name \in String, b.args \in Seq(Plain), NEW inside \in Seq(Seq(Marks)),
           NEW m \in Seq(Marks), NEW o \in Nat, Stands(m, o, MarkedBlock(b, inside))
    PROVE  /\ BlockAt(m, o, b, FlattenSeq(inside))
           /\ Len(MarkedBlock(b, inside)) = Len(b.args) + Len(FlattenSeq(inside)) + 3
<1>0. PICK w, a, f, l, x : /\ w = b.args /\ a = Len(w) /\ f = FlattenSeq(inside) /\ l = Len(f)
                           /\ x = MarkedBlock(b, inside)
  OBVIOUS
<1>10. /\ x \in Seq(Marks) /\ a \in Nat /\ l \in Nat /\ Len(x) = a + l + 3
       /\ TokenAt(x, 1) = Word(b.name)
       /\ \A i \in 1..a : TokenAt(x, 1 + i) = w[i]
       /\ TokenAt(x, a + 2) = Opening
       /\ \A i \in 1..l : x[a + 2 + i] = f[i]
       /\ TokenAt(x, a + l + 3) = Closing
  <2>1. /\ x \in Seq(Marks) /\ a \in Nat /\ l \in Nat /\ Len(x) = a + l + 3
        /\ x[1].token = Word(b.name) /\ \A i \in 1..a : x[1 + i].token = w[i]
        /\ x[a + 2].token = Opening /\ \A i \in 1..l : x[a + 2 + i] = f[i]
        /\ x[a + l + 3].token = Closing
    <3>1. /\ MarkedBlock(b, inside) \in Seq(Marks) /\ Len(b.args) \in Nat /\ Len(FlattenSeq(inside)) \in Nat
          /\ Len(MarkedBlock(b, inside)) = Len(b.args) + Len(FlattenSeq(inside)) + 3
          /\ MarkedBlock(b, inside)[1].token = Word(b.name)
          /\ \A i \in 1..Len(b.args) : MarkedBlock(b, inside)[1 + i].token = b.args[i]
          /\ MarkedBlock(b, inside)[Len(b.args) + 2].token = Opening
          /\ \A i \in 1..Len(FlattenSeq(inside)) : MarkedBlock(b, inside)[Len(b.args) + 2 + i] = FlattenSeq(inside)[i]
          /\ MarkedBlock(b, inside)[Len(b.args) + Len(FlattenSeq(inside)) + 3].token = Closing
      BY Zenon, BlockShape
    <3> QED
      BY Zenon, <1>0, <3>1
  <2> QED
    BY Zenon, <2>1 DEF TokenAt
<1>2. a \in Nat /\ l \in Nat /\ Len(x) = a + l + 3 /\ \A i \in 1..l : x[a + 2 + i] = f[i]
  BY <1>10
<1>3. o + Len(x) <= Len(m) /\ \A i \in 1..Len(x) : m[o + i] = x[i]
  BY <1>0 DEF Stands
<1>4. m[o + 1] = x[1] /\ m[o + a + 2] = x[a + 2] /\ m[o + a + 3 + l] = x[a + l + 3]
  <2>1. PICK c, e : c = a + 2 /\ e = a + l + 3
    OBVIOUS
  <2>2. 1 \in 1..Len(x) /\ c \in 1..Len(x) /\ e \in 1..Len(x)
    BY <1>2, <2>1
  <2>3. m[o + 1] = x[1] /\ m[o + c] = x[c] /\ m[o + e] = x[e]
    BY <1>3, <2>2
  <2>4. o + c = o + a + 2 /\ o + e = o + a + 3 + l
    BY <1>2, <2>1
  <2> QED
    BY <2>1, <2>3, <2>4
<1>5. \A i \in 1..a : m[o + 1 + i] = x[1 + i]
  <2> TAKE i \in 1..a
  <2>1. i \in Nat /\ 1 <= i /\ i <= a
    BY <1>2
  <2>2. PICK n : n = a + l + 3 /\ n \in Nat
    BY <1>2
  <2>3. a \in Nat /\ l \in Nat /\ Len(x) = n
    BY Zenon, <1>2, <2>2
  <2>4. 1 + i \in 1..n /\ o + (1 + i) = o + 1 + i
    BY <2>1, <2>2, <2>3, Within
  <2>5. m[o + (1 + i)] = x[1 + i]
    BY Zenon, <1>3, <2>3, <2>4
  <2> QED
    BY Zenon, <2>4, <2>5
<1>6. \A i \in 1..l : m[(o + a + 2) + i] = f[i]
  <2> TAKE i \in 1..l
  <2>1. a + 2 + i \in 1..Len(x) /\ o + (a + 2 + i) = (o + a + 2) + i
    BY <1>2
  <2> QED
    BY <1>2, <1>3, <2>1
<1>7. o + a + 3 + l <= Len(m) /\ (o + a + 2) + l <= Len(m)
  <2>1. Len(m) \in Nat
    OBVIOUS
  <2> QED
    BY <1>2, <1>3, <2>1
<1>8. Stands(m, o + a + 2, f)
  BY <1>0, <1>6, <1>7 DEF Stands
<1>9. \A i \in 1..a : TokenAt(m, o + 1 + i) = w[i]
  BY <1>10, <1>5 DEF TokenAt
<1> QED
  BY <1>0, <1>10, <1>2, <1>4, <1>7, <1>8, <1>9 DEF TokenAt, BlockAt

LEMMA StatementStands ==
    ASSUME NEW d, d.name \in String, d.args \in Seq(Plain), NEW m \in Seq(Marks), NEW o \in Nat,
           Stands(m, o, MarkedStatement(d))
    PROVE  StatedAt(m, o, d) /\ Len(d.args) \in Nat /\ Len(MarkedStatement(d)) = Len(d.args) + 2
<1>0. PICK w, a, x : w = d.args /\ a = Len(w) /\ x = MarkedStatement(d)
  OBVIOUS
<1>2. a \in Nat /\ Len(x) = a + 2
  BY <1>0, StatementShape DEF TokenAt, SpareAt
<1>10. /\ TokenAt(x, 1) = Word(d.name)
       /\ ~SpareAt(x, 1) => a > 0 /\ w[1] \notin {Word(n) : n \in Names}
  BY <1>0, StatementShape DEF TokenAt, SpareAt
<1>11. \A i \in 1..a : /\ TokenAt(x, 1 + i) = w[i]
                       /\ ~SpareAt(x, 1 + i) => d.name \notin Lists /\ (d.name = "allow_methods" => a = 1)
  BY <1>0, StatementShape DEF TokenAt, SpareAt
<1>12. TokenAt(x, a + 2) = Ending /\ (~SpareAt(x, a + 2) => d.name \notin Lists)
  BY <1>0, StatementShape DEF TokenAt, SpareAt
<1>3. o + Len(x) <= Len(m) /\ \A i \in 1..Len(x) : m[o + i] = x[i]
  BY <1>0 DEF Stands
<1>4. \A i \in Nat : i # 0 /\ i <= a + 2 => m[o + i] = x[i]
  BY <1>2, <1>3
<1>5. m[o + 1] = x[1] /\ m[o + a + 2] = x[a + 2] /\ o + a + 2 <= Len(m)
  <2>1. o + (a + 2) = o + a + 2
    BY <1>2
  <2>2. m[o + (a + 2)] = x[a + 2] /\ m[o + 1] = x[1] /\ o + (a + 2) <= Len(m)
    BY <1>2, <1>3, <1>4
  <2> QED
    BY <2>1, <2>2
<1>6. \A i \in 1..a : m[o + 1 + i] = x[1 + i]
  <2> TAKE i \in 1..a
  <2>1. 1 + i \in 1..Len(x) /\ o + (1 + i) = o + 1 + i
    BY <1>2
  <2> QED
    BY <1>3, <2>1
<1>7. /\ TokenAt(m, o + 1) = Word(d.name)
      /\ ~SpareAt(m, o + 1) => a > 0 /\ w[1] \notin {Word(n) : n \in Names}
      /\ TokenAt(m, o + a + 2) = Ending
      /\ ~SpareAt(m, o + a + 2) => d.name \notin Lists
  BY <1>5, <1>10, <1>12 DEF TokenAt, SpareAt
<1>8. \A i \in 1..a : /\ TokenAt(m, o + 1 + i) = w[i]
                      /\ ~SpareAt(m, o + 1 + i) => d.name \notin Lists /\ (d.name = "allow_methods" => a = 1)
  BY <1>6, <1>11 DEF TokenAt, SpareAt
<1> QED
  BY <1>0, <1>2, <1>5, <1>7, <1>8 DEF StatedAt

\* What may begin where a statement has ended.
Openers == {Word(n) : n \in Names} \cup {Closing}

LEMMA NameKnown ==
    ASSUME NEW d, OfServer(d) \/ OfLocation(d) \/ IsLocation(d)
    PROVE  d.name \in Names
<1>1. CASE OfEither(d)
  BY <1>1 DEF OfEither, One, Names
<1>2. CASE OfServer(d)
  BY <1>1, <1>2 DEF OfServer, One, Names
<1>3. CASE OfLocation(d)
  BY <1>1, <1>3 DEF OfLocation, One, Names
<1>4. CASE IsLocation(d)
  BY <1>4 DEF IsLocation, One, Names
<1> QED
  BY <1>2, <1>3, <1>4

\* Of the directives of a server, a location has a body, the others have none.
LEMMA DirectiveIs ==
    ASSUME NEW b \in Blocks(Items), IsServer(b), NEW j \in 0..(Len(b.body) - 1)
    PROVE  LET d == b.body[j + 1]
           IN /\ d \in Items /\ d.name \in Names /\ Len(b.body) \in Nat
              /\ HasBody(d) => IsLocation(d) /\ d.body \in Seq(Statements)
              /\ ~HasBody(d) => OfServer(d) /\ d \in Statements
<1>1. PICK w, n, d : w = b.body /\ n = Len(w) /\ d = w[j + 1]
  OBVIOUS
<1>2. w \in Seq(Items) /\ n \in Nat /\ DOMAIN w = 1..n /\ j + 1 \in 1..n
  BY <1>1, BlockIs
<1>3. d \in Items
  BY <1>1, <1>2
<1>4. IF HasBody(d) THEN IsLocation(d) ELSE OfServer(d)
  BY <1>1, <1>2 DEF IsServer, HasBody
<1>5. d.name \in Names
  BY <1>4, NameKnown
<1> QED
  BY <1>1, <1>2, <1>3, <1>4, <1>5, ItemIs

\* The statements of a location.
LEMMA StatementOf ==
    ASSUME NEW d, IsLocation(d), d.body \in Seq(Statements), NEW i \in 0..(Len(d.body) - 1)
    PROVE  LET e == d.body[i + 1]
           IN e \in Statements /\ OfLocation(e) /\ e.name \in Names /\ Len(d.body) \in Nat
<1>1. PICK w, n, e : w = d.body /\ n = Len(w) /\ e = w[i + 1]
  OBVIOUS
<1>2. n \in Nat /\ DOMAIN w = 1..n /\ i + 1 \in 1..n /\ e \in Statements
  BY <1>1
<1>3. OfLocation(e)
  BY <1>1, <1>2 DEF IsLocation
<1>4. e.name \in Names
  BY <1>3, NameKnown
<1> QED
  BY <1>1, <1>2, <1>3, <1>4

LEMMA ServerPlace ==
    ASSUME NEW t, IsFile(t), NEW k \in 0..(Len(t) - 1), NEW b, b = t[k + 1], NEW m, m = Marked(t)
    PROVE  /\ m \in Seq(Marks) /\ Len(m) \in Nat
           /\ ServerAt(t, k) \in Nat /\ DirectiveAt(t, k, 0) = ServerAt(t, k) + 2
           /\ TokenAt(m, ServerAt(t, k) + 1) = Word("server")
           /\ TokenAt(m, ServerAt(t, k) + 2) = Opening
           /\ Stands(m, ServerAt(t, k) + 2, FlattenSeq(DirectivesOf(b)))
           /\ DirectivesOf(b) \in Seq(Seq(Marks)) /\ Len(DirectivesOf(b)) = Len(b.body)
           /\ TokenAt(m, DirectiveAt(t, k, Len(b.body)) + 1) = Closing
           /\ ServerAt(t, k + 1) = DirectiveAt(t, k, Len(b.body)) + 1
           /\ ServerAt(t, k + 1) <= Len(m)
<1>1. PICK ss, s : ss = ServersOf(t) /\ s = ServerAt(t, k)
  OBVIOUS
<1>2. /\ m \in Seq(Marks) /\ m = FlattenSeq(ss) /\ ss \in Seq(Seq(Marks)) /\ Len(ss) = Len(t)
      /\ ss[k + 1] = MarkedServer(b)
  BY <1>1, ServersMarked
<1>3. b \in Blocks(Items) /\ IsServer(b)
  BY FileIs
<1>4. MarkedServer(b) = MarkedBlock(b, DirectivesOf(b))
  BY <1>3, ServerMarked
<1>5. Stands(m, 0, FlattenSeq(ss))
  BY <1>2, StandsAtStart
<1>6. s = Upto(ss, k)
  BY <1>1 DEF ServerAt
<1>7. Stands(m, s, MarkedBlock(b, DirectivesOf(b))) /\ s \in Nat
  <2>1. Stands(m, 0 + Upto(ss, k), ss[k + 1]) /\ Upto(ss, k) \in Nat
    BY <1>2, <1>5, StandsInside
  <2>2. 0 + s = s
    BY <1>6, <2>1
  <2> QED
    BY <1>2, <1>4, <1>6, <2>1, <2>2
<1>8. b.name = "server" /\ b.args = <<>> /\ b.name \in String /\ b.args \in Seq(Plain) /\ Len(b.args) = 0
  BY <1>3, BlockIs DEF IsServer
<1>9. DirectivesOf(b) \in Seq(Seq(Marks)) /\ Len(DirectivesOf(b)) = Len(b.body)
  BY <1>3, DirectivesMarked
<1>10. PICK f, l, x : f = FlattenSeq(DirectivesOf(b)) /\ l = Len(f) /\ x = MarkedBlock(b, DirectivesOf(b))
  OBVIOUS
<1>18. BlockAt(m, s, b, f) /\ Len(x) = Len(b.args) + l + 3
  BY <1>2, <1>7, <1>8, <1>9, <1>10, BlockStands
<1>11. /\ l \in Nat /\ s + 0 + 3 + l <= Len(m) /\ Len(x) = 0 + l + 3
       /\ TokenAt(m, s + 1) = Word("server")
       /\ TokenAt(m, s + 0 + 2) = Opening
       /\ Stands(m, s + 0 + 2, f)
       /\ TokenAt(m, s + 0 + 3 + l) = Closing
  BY <1>8, <1>10, <1>18 DEF BlockAt
<1>12. s + 0 + 2 = s + 2 /\ s + 0 + 3 + l = s + 3 + l
  BY <1>7, <1>11
<1>13. Upto(DirectivesOf(b), 0) = 0 /\ Upto(DirectivesOf(b), Len(b.body)) = l
  BY <1>9, <1>10, Offsets
<1>14. DirectiveAt(t, k, 0) = s + 2 + 0 /\ DirectiveAt(t, k, Len(b.body)) = s + 2 + l
  BY <1>1, <1>13 DEF DirectiveAt
<1>15. ServerAt(t, k + 1) = s + Len(x)
  <2>1. Upto(ss, k + 1) = Upto(ss, k) + Len(ss[k + 1])
    BY <1>2, Offsets
  <2> QED
    BY <1>1, <1>2, <1>4, <1>6, <1>10, <2>1 DEF ServerAt
<1>16. /\ DirectiveAt(t, k, 0) = s + 2 /\ DirectiveAt(t, k, Len(b.body)) + 1 = s + 3 + l
       /\ ServerAt(t, k + 1) = s + 3 + l /\ s + 3 + l <= Len(m) /\ Len(m) \in Nat
  <2>1. l \in Nat /\ s \in Nat /\ Len(x) = 0 + l + 3 /\ s + 0 + 3 + l <= Len(m)
    BY <1>7, <1>11
  <2> QED
    BY <1>2, <1>14, <1>15, <2>1
<1> QED
  BY <1>1, <1>2, <1>7, <1>9, <1>10, <1>11, <1>12, <1>16

LEMMA DirectivePlace ==
    ASSUME NEW t, IsFile(t), NEW k \in 0..(Len(t) - 1), NEW b, b = t[k + 1], NEW m, m = Marked(t),
           NEW j \in 0..(Len(b.body) - 1)
    PROVE  /\ DirectiveAt(t, k, j) \in Nat
           /\ Stands(m, DirectiveAt(t, k, j), MarkedLocation(b.body[j + 1]))
           /\ DirectiveAt(t, k, j + 1) = DirectiveAt(t, k, j) + Len(MarkedLocation(b.body[j + 1]))
<1>1. PICK ds, s, n, c : ds = DirectivesOf(b) /\ s = ServerAt(t, k) /\ n = Len(b.body)
                         /\ c = MarkedLocation(b.body[j + 1])
  OBVIOUS
<1>2. /\ m \in Seq(Marks) /\ s \in Nat /\ Stands(m, s + 2, FlattenSeq(ds))
      /\ ds \in Seq(Seq(Marks)) /\ Len(ds) = n
  BY <1>1, ServerPlace
<1>3. b \in Blocks(Items)
  BY FileIs
<1>4. n \in Nat /\ j \in 0..(Len(ds) - 1) /\ j + 1 \in 1..n /\ j \in 0..Len(ds) /\ s + 2 \in Nat
  <2>1. n \in Nat /\ j \in 0..(n - 1)
    <3>1. Len(ds) \in Nat
      BY Zenon, <1>2, LenProperties
    <3> QED
      BY Zenon, <1>1, <1>2, <3>1
  <2>2. j + 1 \in 1..n /\ j \in 0..n
    BY Zenon, <2>1, Within
  <2>3. s + 2 \in Nat
    BY <1>2
  <2> QED
    BY Zenon, <1>2, <2>1, <2>2, <2>3
<1>5. ds[j + 1] = c
  BY <1>1, <1>3, <1>4, DirectivesMarked
<1>6. Stands(m, (s + 2) + Upto(ds, j), ds[j + 1]) /\ Upto(ds, j) \in Nat
  BY <1>2, <1>4, StandsInside
<1>7. Upto(ds, j + 1) = Upto(ds, j) + Len(ds[j + 1])
  BY <1>2, <1>4, Offsets
<1>8. DirectiveAt(t, k, j) = s + 2 + Upto(ds, j) /\ DirectiveAt(t, k, j + 1) = s + 2 + Upto(ds, j + 1)
  BY <1>1 DEF DirectiveAt
<1>9. c \in Seq(Marks) /\ Len(c) \in Nat
  BY <1>2, <1>4, <1>5
<1>10. s + 2 + Upto(ds, j) \in Nat /\ DirectiveAt(t, k, j + 1) = DirectiveAt(t, k, j) + Len(c)
  <2>1. PICK x, y, z : x = Upto(ds, j) /\ y = Len(c) /\ z = Upto(ds, j + 1)
    OBVIOUS
  <2>2. x \in Nat /\ y \in Nat /\ z = x + y /\ s \in Nat
    BY Zenon, <1>2, <1>5, <1>6, <1>7, <1>9, <2>1
  <2>3. s + 2 + x \in Nat /\ s + 2 + z = (s + 2 + x) + y
    BY <2>2
  <2> QED
    BY Zenon, <1>8, <2>1, <2>3
<1> QED
  BY <1>1, <1>5, <1>6, <1>8, <1>10

LEMMA Sums ==
    ASSUME NEW o \in Nat, NEW l \in Nat
    PROVE  /\ o + (l + 2) = o + l + 2 /\ o + 1 + 1 = o + 2 /\ o + 1 + 2 = o + 3 /\ o + 3 + 0 = o + 3
           /\ o + 1 + 3 + l = o + 3 + l + 1 /\ o + (1 + l + 3) = o + 3 + l + 1
           /\ o + 3 + l \in Nat /\ o + 1 \in Nat /\ o + 3 \in Nat
OBVIOUS

LEMMA PlainStands ==
    ASSUME NEW d \in Statements, ~HasBody(d), NEW m \in Seq(Marks), NEW o \in Nat, Stands(m, o, MarkedLocation(d))
    PROVE  StatedAt(m, o, d) /\ o + Len(MarkedLocation(d)) = o + Len(d.args) + 2
<1>1. d \in Items
  BY DEF Items
<1>2. MarkedLocation(d) = MarkedStatement(d) /\ d.name \in String /\ d.args \in Seq(Plain)
  BY <1>1, ItemMarked, ItemIs
<1>3. StatedAt(m, o, d) /\ Len(d.args) \in Nat /\ Len(MarkedStatement(d)) = Len(d.args) + 2
  BY <1>2, StatementStands
<1> QED
  BY <1>2, <1>3, Sums

LEMMA LocationStands ==
    ASSUME NEW d \in Items, HasBody(d), IsLocation(d), NEW m \in Seq(Marks), NEW o \in Nat,
           Stands(m, o, MarkedLocation(d))
    PROVE  /\ Len(d.args) = 1 /\ Len(d.body) \in Nat
           /\ BlockAt(m, o, d, FlattenSeq(StatementsOf(d)))
           /\ TokenAt(m, o + 1) = Word("location")
           /\ TokenAt(m, o + 2) = d.args[1]
           /\ TokenAt(m, o + 3) = Opening
           /\ Stands(m, o + 3, FlattenSeq(StatementsOf(d)))
           /\ StatementsOf(d) \in Seq(Seq(Marks)) /\ Len(StatementsOf(d)) = Len(d.body)
           /\ o + 3 + Upto(StatementsOf(d), 0) = o + 3
           /\ o + 3 + Upto(StatementsOf(d), Len(d.body)) \in Nat
           /\ TokenAt(m, o + 3 + Upto(StatementsOf(d), Len(d.body)) + 1) = Closing
           /\ o + Len(MarkedLocation(d)) = o + 3 + Upto(StatementsOf(d), Len(d.body)) + 1
           /\ o + Len(MarkedLocation(d)) <= Len(m)
<1>1. d.body \in Seq(Statements)
  BY ItemIs
<1>2. MarkedLocation(d) = MarkedBlock(d, StatementsOf(d)) /\ d.name \in String /\ d.args \in Seq(Plain)
  BY ItemMarked, ItemIs
<1>3. StatementsOf(d) \in Seq(Seq(Marks)) /\ Len(StatementsOf(d)) = Len(d.body)
  BY <1>1, StatementsMarked
<1>4. PICK f, l : f = FlattenSeq(StatementsOf(d)) /\ l = Len(f)
  OBVIOUS
<1>5. d.name = "location" /\ Len(d.args) = 1
  BY DEF IsLocation, One
<1>6. BlockAt(m, o, d, f) /\ Len(MarkedBlock(d, StatementsOf(d))) = Len(d.args) + Len(f) + 3
  BY <1>2, <1>3, <1>4, BlockStands
<1>7. l \in Nat
  BY <1>4, <1>6 DEF BlockAt
<1>8. /\ TokenAt(m, o + 1) = Word("location")
      /\ TokenAt(m, o + 1 + 1) = d.args[1]
      /\ TokenAt(m, o + 1 + 2) = Opening
      /\ Stands(m, o + 1 + 2, f)
      /\ TokenAt(m, o + 1 + 3 + l) = Closing
  <2>1. 1 \in 1..1
    OBVIOUS
  <2> QED
    BY <1>4, <1>5, <1>6, <2>1 DEF BlockAt
<1>9. Upto(StatementsOf(d), 0) = 0 /\ Upto(StatementsOf(d), Len(d.body)) = l
  BY <1>3, <1>4, Offsets
<1>10. o + Len(MarkedLocation(d)) = o + (1 + l + 3)
  BY <1>2, <1>4, <1>5, <1>6
<1>11. o + Len(MarkedLocation(d)) <= Len(m)
  BY DEF Stands
<1>12. Len(d.body) \in Nat
  BY <1>1
<1> HIDE DEF Upto
<1> QED
  BY <1>3, <1>4, <1>5, <1>6, <1>7, <1>8, <1>9, <1>10, <1>11, <1>12, Sums

LEMMA StatementsStand ==
    ASSUME NEW d \in Items, HasBody(d), IsLocation(d), NEW m \in Seq(Marks), NEW o \in Nat,
           Stands(m, o, MarkedLocation(d)), NEW i \in 0..(Len(d.body) - 1)
    PROVE  /\ o + 3 + Upto(StatementsOf(d), i) \in Nat
           /\ StatedAt(m, o + 3 + Upto(StatementsOf(d), i), d.body[i + 1])
           /\ o + 3 + Upto(StatementsOf(d), i + 1)
                 = o + 3 + Upto(StatementsOf(d), i) + Len(d.body[i + 1].args) + 2
<1>1. d.body \in Seq(Statements) /\ Len(d.body) \in Nat
  BY ItemIs
<1>2. d.body[i + 1] \in Statements
  BY <1>1, StatementOf
<1>3. d.body[i + 1].name \in String /\ d.body[i + 1].args \in Seq(Plain)
  BY <1>2, StatementIs
<1>4. PICK c : c = MarkedStatement(d.body[i + 1])
  OBVIOUS
<1>5. /\ Stands(m, o + 3, FlattenSeq(StatementsOf(d)))
      /\ StatementsOf(d) \in Seq(Seq(Marks)) /\ Len(StatementsOf(d)) = Len(d.body)
  BY LocationStands
<1>6. i \in 0..(Len(StatementsOf(d)) - 1) /\ i + 1 \in 1..Len(d.body) /\ i \in 0..Len(StatementsOf(d))
      /\ o + 3 \in Nat
  BY <1>1, <1>5
<1>7. StatementsOf(d)[i + 1] = c
  BY <1>1, <1>4, <1>6, StatementsMarked
<1>8. PICK u : u = Upto(StatementsOf(d), i) /\ Stands(m, (o + 3) + u, c) /\ u \in Nat
  BY <1>5, <1>6, <1>7, StandsInside
<1>9. Upto(StatementsOf(d), i + 1) = u + Len(c)
  BY <1>5, <1>6, <1>7, <1>8, Offsets
<1>10. PICK p : p = o + 3 + u /\ p \in Nat
  BY <1>8
<1>11. StatedAt(m, p, d.body[i + 1]) /\ Len(d.body[i + 1].args) \in Nat /\ Len(c) = Len(d.body[i + 1].args) + 2
  BY <1>3, <1>4, <1>8, <1>10, StatementStands
<1>12. PICK l \in Nat : l = Len(d.body[i + 1].args)
  BY <1>11
<1>13. o + 3 + (u + (l + 2)) = p + l + 2
  BY <1>8, <1>10
<1> QED
  BY <1>8, <1>9, <1>10, <1>11, <1>12, <1>13

\* What begins where a statement of a location ends, or a directive of a server.
LEMMA NextStatement ==
    ASSUME NEW d \in Items, HasBody(d), IsLocation(d), NEW m \in Seq(Marks), NEW o \in Nat,
           Stands(m, o, MarkedLocation(d)), NEW i \in 0..Len(d.body)
    PROVE  /\ o + 3 + Upto(StatementsOf(d), i) \in Nat
           /\ o + 3 + Upto(StatementsOf(d), i) + 1 <= Len(m)
           /\ TokenAt(m, o + 3 + Upto(StatementsOf(d), i) + 1) \in Openers
<1>1. d.body \in Seq(Statements) /\ Len(d.body) \in Nat
  BY ItemIs
<1>2. CASE i = Len(d.body)
  <2>1. Closing \in Openers
    BY Zenon DEF Openers, Closing
  <2> QED
    BY <1>2, <2>1, LocationStands
<1>3. CASE i # Len(d.body)
  <2>1. i \in 0..(Len(d.body) - 1)
    BY <1>1, <1>3
  <2>2. PICK p, e : p = o + 3 + Upto(StatementsOf(d), i) /\ e = d.body[i + 1]
    OBVIOUS
  <2>3. p \in Nat /\ StatedAt(m, p, e)
    BY <2>1, <2>2, StatementsStand
  <2>4. e.name \in Names
    BY <1>1, <2>1, <2>2, StatementOf
  <2>5. TokenAt(m, p + 1) = Word(e.name) /\ Len(e.args) \in Nat /\ p + Len(e.args) + 2 <= Len(m)
    BY <2>3 DEF StatedAt
  <2>6. PICK a, l : a = Len(e.args) /\ l = Len(m) /\ a \in Nat /\ l \in Nat /\ p + a + 2 <= l
    BY <2>5
  <2>7. p + 1 <= l
    BY <2>3, <2>6
  <2>8. Word(e.name) \in Openers
    BY <2>4, Zenon DEF Openers
  <2> QED
    BY <2>2, <2>3, <2>5, <2>6, <2>7, <2>8
<1> QED
  BY <1>2, <1>3

LEMMA NextDirective ==
    ASSUME NEW t, IsFile(t), NEW k \in 0..(Len(t) - 1), NEW j \in 0..Len(t[k + 1].body)
    PROVE  /\ DirectiveAt(t, k, j) \in Nat /\ DirectiveAt(t, k, j) + 1 <= Len(Marked(t))
           /\ TokenAt(Marked(t), DirectiveAt(t, k, j) + 1) \in Openers
<1>1. PICK b, m : b = t[k + 1] /\ m = Marked(t)
  OBVIOUS
<1>2. b \in Blocks(Items) /\ IsServer(b)
  BY <1>1, FileIs
<1>3. PICK n : n = Len(b.body) /\ n \in Nat
  BY <1>2, BlockIs
<1>4. m \in Seq(Marks)
  BY <1>1, ServersMarked
<1>5. /\ TokenAt(m, DirectiveAt(t, k, n) + 1) = Closing /\ ServerAt(t, k + 1) = DirectiveAt(t, k, n) + 1
      /\ ServerAt(t, k + 1) <= Len(m) /\ ServerAt(t, k) \in Nat
      /\ DirectivesOf(b) \in Seq(Seq(Marks)) /\ Len(DirectivesOf(b)) = n
  BY <1>1, <1>3, ServerPlace
<1>6. DirectiveAt(t, k, n) \in Nat
  <2>1. Upto(DirectivesOf(b), n) \in Nat
    <3>1. n \in 0..Len(DirectivesOf(b))
      BY <1>3, <1>5
    <3> QED
      BY <1>5, <3>1, Offsets
  <2> QED
    BY <1>1, <1>5, <2>1 DEF DirectiveAt
<1>7. CASE j = n
  <2>1. Closing \in Openers
    BY Zenon DEF Openers, Closing
  <2> QED
    BY <1>1, <1>5, <1>6, <1>7, <2>1
<1>8. CASE j # n
  <2>1. j \in 0..(Len(b.body) - 1)
    BY <1>1, <1>3, <1>8
  <2>2. PICK d, o : d = b.body[j + 1] /\ o = DirectiveAt(t, k, j)
    OBVIOUS
  <2>3. /\ d.name \in Names /\ d \in Items
        /\ HasBody(d) => IsLocation(d)
        /\ ~HasBody(d) => d \in Statements
    BY <1>2, <2>1, <2>2, DirectiveIs
  <2>4. o \in Nat /\ Stands(m, o, MarkedLocation(d))
    BY <1>1, <2>1, <2>2, DirectivePlace
  <2>5. PICK l : l = Len(m) /\ l \in Nat
    BY <1>4
  <2>6. o + 1 <= l /\ TokenAt(m, o + 1) = Word(d.name)
    <3>1. CASE HasBody(d)
      <4>1. BlockAt(m, o, d, FlattenSeq(StatementsOf(d)))
        BY <1>4, <2>3, <2>4, <3>1, LocationStands
      <4>2. PICK f, a : f = Len(FlattenSeq(StatementsOf(d))) /\ a = Len(d.args)
                     /\ TokenAt(m, o + 1) = Word(d.name) /\ f \in Nat /\ a \in Nat /\ o + a + 3 + f <= l
        BY <2>5, <4>1 DEF BlockAt
      <4>3. o + 1 <= l
        BY <2>4, <2>5, <4>2
      <4> QED
        BY <4>2, <4>3
    <3>2. CASE ~HasBody(d)
      <4>1. StatedAt(m, o, d)
        BY <1>4, <2>3, <2>4, <3>2, PlainStands
      <4>2. PICK a : /\ a = Len(d.args) /\ a \in Nat
                     /\ TokenAt(m, o + 1) = Word(d.name) /\ o + a + 2 <= l
        BY <2>5, <4>1 DEF StatedAt
      <4>3. o + 1 <= l
        BY <2>4, <2>5, <4>2
      <4> QED
        BY <4>2, <4>3
    <3> QED
      BY <3>1, <3>2
  <2>7. Word(d.name) \in Openers
    BY <2>3, Zenon DEF Openers
  <2> QED
    BY <1>1, <2>2, <2>4, <2>5, <2>6, <2>7
<1> QED
  BY <1>1, <1>3, <1>7, <1>8

-----------------------------------------------------------------------------
(* Every file is balanced *)

\* Braces opened less braces closed, up to p.
Opens(s)    == {k \in 1..Len(s) : TokenAt(s, k) = Opening}
Closes(s)   == {k \in 1..Len(s) : TokenAt(s, k) = Closing}
Level(s, p) == Cardinality({k \in 1..p : k \in Opens(s)}) - Cardinality({k \in 1..p : k \in Closes(s)})
Bump(x)     == IF x = Opening THEN 1 ELSE IF x = Closing THEN -1 ELSE 0
Even(s)     == Level(s, Len(s)) = 0 /\ \A p \in 0..Len(s) : Level(s, p) >= 0

LEMMA CountStep ==
    ASSUME NEW S, NEW T, NEW p \in Nat, p + 1 \notin S \/ p + 1 \notin T
    PROVE  LET C(n) == Cardinality({k \in 1..n : k \in S}) - Cardinality({k \in 1..n : k \in T})
           IN /\ C(0) = 0 /\ C(p) \in Int
              /\ C(p + 1) = C(p) + (IF p + 1 \in S THEN 1 ELSE IF p + 1 \in T THEN -1 ELSE 0)
<1>1. /\ Cardinality({k \in 1..p : k \in S}) \in Nat /\ Cardinality({k \in 1..p : k \in T}) \in Nat
      /\ Cardinality({k \in 1..(p + 1) : k \in S}) = Cardinality({k \in 1..p : k \in S}) + (IF p + 1 \in S THEN 1 ELSE 0)
      /\ Cardinality({k \in 1..(p + 1) : k \in T}) = Cardinality({k \in 1..p : k \in T}) + (IF p + 1 \in T THEN 1 ELSE 0)
  BY OneMore
<1>2. {k \in 1..0 : k \in S} = {} /\ {k \in 1..0 : k \in T} = {}
  OBVIOUS
<1>3. Cardinality({}) = 0
  BY FS_EmptySet
<1>4. PICK a, c : a = Cardinality({k \in 1..p : k \in S}) /\ c = Cardinality({k \in 1..p : k \in T})
                  /\ a \in Nat /\ c \in Nat
  BY <1>1
<1>5. \A x \in {0, 1}, y \in {0, 1} : (a + x) - (c + y) = (a - c) + (x - y)
  BY <1>4
<1>6. a - c \in Int
  BY <1>4
<1> QED
  BY <1>1, <1>2, <1>3, <1>4, <1>5, <1>6

LEMMA LevelStep ==
    ASSUME NEW s \in Seq(Marks)
    PROVE  /\ Level(s, 0) = 0
           /\ \A p \in 0..Len(s) : Level(s, p) \in Int
           /\ \A p \in 0..(Len(s) - 1) : Level(s, p + 1) = Level(s, p) + Bump(TokenAt(s, p + 1))
<1>1. Opening # Closing
  BY SignsDiffer
<1>2. \A p \in Nat : p + 1 \notin Opens(s) \/ p + 1 \notin Closes(s)
  BY <1>1 DEF Opens, Closes
<1>3. \A p \in Nat :
         /\ Level(s, 0) = 0 /\ Level(s, p) \in Int
         /\ Level(s, p + 1) = Level(s, p) + (IF p + 1 \in Opens(s) THEN 1 ELSE IF p + 1 \in Closes(s) THEN -1
            ELSE 0)
  BY <1>2, CountStep DEF Level
<1>4. \A p \in 0..(Len(s) - 1) : Level(s, p + 1) = Level(s, p) + Bump(TokenAt(s, p + 1))
  <2> TAKE p \in 0..(Len(s) - 1)
  <2>1. p \in Nat /\ p + 1 \in 1..Len(s)
    OBVIOUS
  <2>2. /\ p + 1 \in Opens(s) <=> TokenAt(s, p + 1) = Opening
        /\ p + 1 \in Closes(s) <=> TokenAt(s, p + 1) = Closing
    BY <2>1 DEF Opens, Closes
  <2> QED
    BY <1>3, <2>1, <2>2 DEF Bump
<1>5. \A p \in 0..Len(s) : p \in Nat
  OBVIOUS
<1>6. 0 \in Nat
  OBVIOUS
<1> QED
  BY <1>3, <1>4, <1>5, <1>6

\* A sequence adds its own levels wherever it stands.
LEMMA LevelAlong ==
    ASSUME NEW s \in Seq(Marks), NEW a \in Seq(Marks), NEW o \in Nat, Stands(s, o, a)
    PROVE  \A i \in 0..Len(a) : Level(s, o + i) = Level(s, o) + Level(a, i)
<1>0. Len(a) \in Nat /\ Len(s) \in Nat
  OBVIOUS
<1>1. PICK n, l : n = Len(a) /\ l = Len(s) /\ n \in Nat /\ l \in Nat
  BY <1>0, Zenon
<1>2. o + n <= l /\ \A i \in 1..n : s[o + i] = a[i]
  BY <1>1 DEF Stands
<1> DEFINE Ok(i) == Level(s, o + i) = Level(s, o) + Level(a, i)
           G == {i \in Nat : i <= n => Ok(i)}
<1>3. 0 \in G
  <2>1. Level(a, 0) = 0 /\ Level(s, o) \in Int
    <3>1. o \in 0..Len(s)
      BY <1>1, <1>2
    <3> QED
      BY <3>1, LevelStep
  <2>2. o + 0 = o /\ Level(s, o) = Level(s, o) + 0
    BY <2>1
  <2> QED
    BY <2>1, <2>2
<1>4. ASSUME NEW i \in Nat, i \in G PROVE i + 1 \in G
  <2> SUFFICES ASSUME i + 1 <= n PROVE Ok(i + 1)
    OBVIOUS
  <2>1. /\ i <= n /\ i \in 0..(Len(a) - 1) /\ i \in 0..Len(a) /\ o + i \in 0..(Len(s) - 1) /\ o \in 0..Len(s)
        /\ i + 1 \in 1..n /\ (o + i) + 1 = o + (i + 1)
    BY <1>1, <1>2
  <2>2. TokenAt(s, (o + i) + 1) = TokenAt(a, i + 1)
    BY <1>2, <2>1 DEF TokenAt
  <2>3. Level(s, (o + i) + 1) = Level(s, o + i) + Bump(TokenAt(s, (o + i) + 1))
    BY <2>1, LevelStep
  <2>4. Level(a, i + 1) = Level(a, i) + Bump(TokenAt(a, i + 1))
    BY <2>1, LevelStep
  <2>5. PICK x, y, z : x = Level(s, o) /\ y = Level(a, i) /\ z = Bump(TokenAt(a, i + 1)) /\ x \in Int
        /\ y \in Int /\ z \in Int
    BY <2>1, LevelStep DEF Bump
  <2>6. Level(s, o + i) = x + y
    BY <1>4, <2>1, <2>5
  <2>7. (x + y) + z = x + (y + z)
    BY <2>5
  <2> QED
    BY <2>1, <2>2, <2>3, <2>4, <2>5, <2>6, <2>7
<1>5. Nat \subseteq G
  <2> HIDE DEF G
  <2> QED
    BY <1>3, <1>4, UpFrom
<1>6. \A i \in 0..Len(a) : i \in Nat /\ i <= n
  BY <1>1
<1> QED
  BY <1>5, <1>6

LEMMA NoBraces ==
    ASSUME NEW s \in Seq(Marks), \A p \in 1..Len(s) : TokenAt(s, p) \notin {Opening, Closing}
    PROVE  Even(s)
<1>1. PICK n : n = Len(s) /\ n \in Nat
  OBVIOUS
<1> DEFINE G == {i \in Nat : i <= n => Level(s, i) = 0}
<1>2. 0 \in G
  BY LevelStep
<1>3. ASSUME NEW i \in Nat, i \in G PROVE i + 1 \in G
  <2> SUFFICES ASSUME i + 1 <= n PROVE Level(s, i + 1) = 0
    OBVIOUS
  <2>1. i <= n /\ i \in 0..(Len(s) - 1) /\ i + 1 \in 1..Len(s)
    BY <1>1
  <2>2. Level(s, i + 1) = Level(s, i) + Bump(TokenAt(s, i + 1))
    BY <2>1, LevelStep
  <2>3. Bump(TokenAt(s, i + 1)) = 0
    BY <2>1 DEF Bump
  <2> QED
    BY <1>3, <2>1, <2>2, <2>3
<1>4. Nat \subseteq G
  <2> HIDE DEF G
  <2> QED
    BY <1>2, <1>3, UpFrom
<1>5. \A p \in 0..n : Level(s, p) = 0
  BY <1>1, <1>4
<1>6. n \in 0..n /\ 0 >= 0
  BY <1>1
<1> QED
  BY <1>1, <1>5, <1>6 DEF Even

LEMMA EvenStatement ==
    ASSUME NEW d, d.name \in Names, d.name \in String, d.args \in Seq(Plain)
    PROVE  Even(MarkedStatement(d))
<1>1. PICK x : x = MarkedStatement(d) /\ x \in Seq(Marks)
  BY StatementShape
<1>2. Stands(x, 0, x)
  BY <1>1, StandsAtStart
<1>3. StatedAt(x, 0, d) /\ Len(x) = Len(d.args) + 2 /\ Len(d.args) \in Nat
  BY <1>1, <1>2, StatementStands
<1>4. PICK w, a : w = d.args /\ a = Len(w) /\ w \in Seq(Plain) /\ a \in Nat
  BY <1>3
<1>5. /\ TokenAt(x, 0 + 1) = Word(d.name)
      /\ \A i \in 1..a : TokenAt(x, 0 + 1 + i) = w[i]
      /\ TokenAt(x, 0 + a + 2) = Ending
  BY <1>3, <1>4 DEF StatedAt
<1>6. Word(d.name) \notin {Opening, Closing} /\ Ending \notin {Opening, Closing}
  BY SignsDiffer
<1>7. \A i \in 1..a : w[i] \notin {Opening, Closing}
  <2>1. \A i \in 1..a : w[i] \in Plain
    BY <1>4
  <2> QED
    BY <2>1, SignsDiffer
<1>8. \A p \in 1..(a + 2) : p = 0 + 1 \/ p = 0 + a + 2 \/ \E i \in 1..a : p = 0 + 1 + i
  <2> TAKE p \in 1..(a + 2)
  <2>1. p # 1 /\ p # a + 2 => p - 1 \in 1..a /\ p = 0 + 1 + (p - 1)
    BY <1>4
  <2> QED
    BY <1>4, <2>1
<1>9. \A p \in 1..(a + 2) : TokenAt(x, p) \notin {Opening, Closing}
  BY <1>5, <1>6, <1>7, <1>8
<1> QED
  BY <1>1, <1>3, <1>4, <1>9, NoBraces

\* What is put together of even sequences is even.
LEMMA EvenFlatten ==
    ASSUME NEW s \in Seq(Seq(Marks)), \A k \in 1..Len(s) : Even(s[k])
    PROVE  Even(FlattenSeq(s))
<1>1. PICK f, n : f = FlattenSeq(s) /\ f \in Seq(Marks) /\ n = Len(s) /\ n \in Nat
  <2>1. FlattenSeq(s) \in Seq(Marks) /\ Len(s) \in Nat
    BY FlattenTyped
  <2> QED
    BY <2>1
<1>2. /\ Upto(s, 0) = 0 /\ Upto(s, n) = Len(f)
      /\ \A k \in 0..n : Upto(s, k) \in Nat /\ Upto(s, k) <= Len(f)
      /\ \A k \in 0..(n - 1) : Upto(s, k + 1) = Upto(s, k) + Len(s[k + 1])
  BY <1>1, Offsets
<1>3. Stands(f, 0, f)
  BY <1>1, StandsAtStart
<1> DEFINE Ok(k) == Level(f, Upto(s, k)) = 0 /\ \A p \in 0..Upto(s, k) : Level(f, p) >= 0
           G == {k \in Nat : k <= n => Ok(k)}
<1>4. 0 \in G
  <2>1. Level(f, 0) = 0 /\ \A p \in 0..0 : p = 0
    BY <1>1, LevelStep
  <2>2. Ok(0)
    BY <1>2, <2>1
  <2> QED
    BY <2>2
<1>5. ASSUME NEW k \in Nat, k \in G PROVE k + 1 \in G
  <2> SUFFICES ASSUME k + 1 <= n PROVE Ok(k + 1)
    OBVIOUS
  <2>1. k <= n /\ k \in 0..(n - 1) /\ k \in 0..n /\ k + 1 \in 1..n
    BY <1>1
  <2>2. PICK u, v, a : u = Upto(s, k) /\ v = Upto(s, k + 1) /\ a = s[k + 1]
    OBVIOUS
  <2>3. Level(f, u) = 0 /\ \A p \in 0..u : Level(f, p) >= 0
    BY <1>5, <2>1, <2>2
  <2>4. u \in Nat /\ v = u + Len(a) /\ a \in Seq(Marks) /\ Even(a)
    BY <1>1, <1>2, <2>1, <2>2
  <2>5. Stands(f, u, a)
    <3>1. Stands(f, 0 + u, a)
      BY <1>1, <1>3, <2>1, <2>2, StandsInside
    <3>2. 0 + u = u
      BY <2>4
    <3> QED
      BY <3>1, <3>2
  <2>6. \A i \in 0..Len(a) : Level(f, u + i) = 0 + Level(a, i)
    BY <1>1, <2>3, <2>4, <2>5, LevelAlong
  <2>7. PICK m : m = Len(a) /\ m \in Nat
    BY <2>4
  <2>8. \A i \in 0..m : Level(a, i) >= 0 /\ Level(a, i) \in Int
    BY <2>4, <2>7, LevelStep DEF Even
  <2>9. Level(a, m) = 0
    BY <2>4, <2>7 DEF Even
  <2>10. Level(f, u + m) = 0
    <3>1. m \in 0..m
      BY <2>7
    <3> QED
      BY <2>6, <2>7, <2>9, <3>1
  <2>11. ASSUME NEW p \in 0..v PROVE Level(f, p) >= 0
    <3>1. CASE p <= u
      <4>1. p \in 0..u
        BY <2>4, <3>1
      <4> QED
        BY <2>3, <4>1
    <3>2. CASE ~(p <= u)
      <4>1. p - u \in 0..m /\ u + (p - u) = p
        BY <2>4, <2>7, <3>2
      <4>2. Level(f, u + (p - u)) = 0 + Level(a, p - u)
        BY <2>6, <2>7, <4>1
      <4> QED
        BY <2>8, <4>1, <4>2
    <3> QED
      BY <3>1, <3>2
  <2> QED
    BY <2>2, <2>4, <2>7, <2>10, <2>11
<1>6. Nat \subseteq G
  <2> HIDE DEF G
  <2> QED
    BY <1>4, <1>5, UpFrom
<1>7. Ok(n)
  <2>1. n <= n
    BY <1>1
  <2> QED
    BY <1>1, <1>6, <2>1
<1> QED
  BY <1>1, <1>2, <1>7 DEF Even

\* And so is a block of such.
LEMMA EvenBlock ==
    ASSUME NEW b, b.name \in Names \cup {"server"}, b.name \in String, b.args \in Seq(Plain),
           NEW inside \in Seq(Seq(Marks)), \A k \in 1..Len(inside) : Even(inside[k])
    PROVE  Even(MarkedBlock(b, inside))
<1>1. PICK x, f : x = MarkedBlock(b, inside) /\ x \in Seq(Marks) /\ f = FlattenSeq(inside) /\ f \in Seq(Marks)
      /\ Even(f)
  <2>1. MarkedBlock(b, inside) \in Seq(Marks) /\ FlattenSeq(inside) \in Seq(Marks) /\ Even(FlattenSeq(inside))
    BY BlockShape, FlattenTyped, EvenFlatten
  <2> QED
    BY <2>1
<1>2. Stands(x, 0, x)
  BY <1>1, StandsAtStart
<1>3. BlockAt(x, 0, b, f) /\ Len(x) = Len(b.args) + Len(f) + 3
  BY <1>1, <1>2, BlockStands
<1>4. PICK w, a, l : w = b.args /\ a = Len(w) /\ w \in Seq(Plain) /\ l = Len(f)
  OBVIOUS
<1>5. /\ a \in Nat /\ l \in Nat
      /\ TokenAt(x, 0 + 1) = Word(b.name)
      /\ \A i \in 1..a : TokenAt(x, 0 + 1 + i) = w[i]
      /\ TokenAt(x, 0 + a + 2) = Opening
      /\ Stands(x, 0 + a + 2, f)
      /\ TokenAt(x, 0 + a + 3 + l) = Closing
  BY <1>3, <1>4 DEF BlockAt
<1>6. Len(x) = a + l + 3
  BY <1>3, <1>4
<1>7. Word(b.name) \notin {Opening, Closing}
  BY SignsDiffer
<1>8. \A i \in 1..a : w[i] \notin {Opening, Closing}
  <2>1. \A i \in 1..a : w[i] \in Plain
    BY <1>4
  <2> QED
    BY <2>1, SignsDiffer
<1>9. \A p \in 1..(a + 1) : p = 0 + 1 \/ \E i \in 1..a : p = 0 + 1 + i
  <2> TAKE p \in 1..(a + 1)
  <2>1. p # 1 => p - 1 \in 1..a /\ p = 0 + 1 + (p - 1)
    BY <1>5
  <2> QED
    BY <1>5, <2>1
<1>10. \A p \in 1..(a + 1) : TokenAt(x, p) \notin {Opening, Closing}
  BY <1>5, <1>7, <1>8, <1>9
<1> DEFINE G == {i \in Nat : i <= a + 1 => Level(x, i) = 0}
<1>11. 0 \in G
  BY <1>1, LevelStep
<1>12. ASSUME NEW i \in Nat, i \in G PROVE i + 1 \in G
  <2> SUFFICES ASSUME i + 1 <= a + 1 PROVE Level(x, i + 1) = 0
    OBVIOUS
  <2>1. i <= a + 1 /\ i \in 0..(Len(x) - 1) /\ i + 1 \in 1..(a + 1)
    BY <1>5, <1>6
  <2>2. Level(x, i + 1) = Level(x, i) + Bump(TokenAt(x, i + 1))
    BY <1>1, <2>1, LevelStep
  <2>3. Bump(TokenAt(x, i + 1)) = 0
    BY <1>10, <2>1 DEF Bump
  <2> QED
    BY <1>12, <2>1, <2>2, <2>3
<1>13. \A p \in 0..(a + 1) : Level(x, p) = 0
  <2> HIDE DEF G
  <2>1. Nat \subseteq G
    BY <1>11, <1>12, UpFrom
  <2> QED
    BY <1>5, <2>1 DEF G
<1> HIDE DEF G
<1>14. Level(x, a + 2) = 1
  <2>1. a + 1 \in 0..(Len(x) - 1) /\ a + 1 \in 0..(a + 1) /\ (a + 1) + 1 = a + 2 /\ 0 + a + 2 = a + 2
    BY <1>5, <1>6
  <2>2. Level(x, (a + 1) + 1) = Level(x, a + 1) + Bump(TokenAt(x, (a + 1) + 1))
    BY <1>1, <2>1, LevelStep
  <2>3. Bump(TokenAt(x, a + 2)) = 1
    BY <1>5, <2>1 DEF Bump
  <2> QED
    BY <1>13, <2>1, <2>2, <2>3
<1>15. \A i \in 0..l : Level(x, (a + 2) + i) = 1 + Level(f, i)
  <2>1. 0 + a + 2 = a + 2 /\ a + 2 \in Nat
    BY <1>5
  <2> QED
    BY <1>1, <1>4, <1>5, <1>14, <2>1, LevelAlong
<1>16. \A i \in 0..l : Level(f, i) >= 0 /\ Level(f, i) \in Int
  BY <1>1, <1>4, LevelStep DEF Even
<1>17. Level(x, a + 2 + l) = 1
  <2>1. l \in 0..l /\ (a + 2) + l = a + 2 + l /\ Level(f, l) = 0
    BY <1>1, <1>4, <1>5 DEF Even
  <2> QED
    BY <1>15, <2>1
<1>18. Level(x, a + l + 3) = 0
  <2>1. a + 2 + l \in 0..(Len(x) - 1) /\ (a + 2 + l) + 1 = a + l + 3 /\ 0 + a + 3 + l = a + l + 3
    BY <1>5, <1>6
  <2>2. Level(x, (a + 2 + l) + 1) = Level(x, a + 2 + l) + Bump(TokenAt(x, (a + 2 + l) + 1))
    BY <1>1, <2>1, LevelStep
  <2>3. Bump(TokenAt(x, a + l + 3)) = -1
    BY <1>5, <2>1, SignsDiffer DEF Bump
  <2> QED
    BY <1>17, <2>1, <2>2, <2>3
<1>19. ASSUME NEW p \in 0..(a + l + 3) PROVE Level(x, p) >= 0
  <2>1. p \in 0..(a + 1) \/ p = a + l + 3 \/ (p - (a + 2) \in 0..l /\ (a + 2) + (p - (a + 2)) = p)
    BY <1>5
  <2>2. CASE p - (a + 2) \in 0..l /\ (a + 2) + (p - (a + 2)) = p
    <3>1. PICK i : i = p - (a + 2) /\ i \in 0..l /\ (a + 2) + i = p
      BY <2>2
    <3>2. Level(x, p) = 1 + Level(f, i)
      BY <1>15, <3>1
    <3> QED
      BY <1>16, <3>1, <3>2
  <2> QED
    BY <1>13, <1>18, <2>1, <2>2
<1> QED
  BY <1>1, <1>6, <1>18, <1>19 DEF Even

LEMMA EvenFile == ASSUME NEW t, IsFile(t) PROVE Even(Marked(t))
<1>1. ASSUME NEW d, HasBody(d), d \in Items, IsLocation(d) PROVE Even(MarkedLocation(d))
  <2>1. d.body \in Seq(Statements) /\ d.name \in String /\ d.args \in Seq(Plain) /\ Len(d.body) \in Nat
    BY <1>1, ItemIs
  <2>2. MarkedLocation(d) = MarkedBlock(d, StatementsOf(d))
    BY <1>1, ItemMarked
  <2>3. /\ StatementsOf(d) \in Seq(Seq(Marks)) /\ Len(StatementsOf(d)) = Len(d.body)
        /\ \A k \in 1..Len(d.body) : StatementsOf(d)[k] = MarkedStatement(d.body[k])
    BY <2>1, StatementsMarked
  <2>4. ASSUME NEW k \in 1..Len(d.body) PROVE Even(MarkedStatement(d.body[k]))
    <3>1. k - 1 \in 0..(Len(d.body) - 1) /\ (k - 1) + 1 = k
      BY <2>1
    <3>2. d.body[(k - 1) + 1] \in Statements /\ d.body[(k - 1) + 1].name \in Names
      BY <1>1, <2>1, <3>1, StatementOf
    <3>3. d.body[k] \in Statements /\ d.body[k].name \in Names
      BY <3>1, <3>2
    <3> QED
      BY <3>3, StatementIs, EvenStatement
  <2>5. \A k \in 1..Len(StatementsOf(d)) : Even(StatementsOf(d)[k])
    BY <2>3, <2>4
  <2>6. d.name \in Names
    BY <1>1, NameKnown
  <2> QED
    BY <2>1, <2>2, <2>3, <2>5, <2>6, EvenBlock
<1>2. ASSUME NEW b \in Blocks(Items), IsServer(b) PROVE Even(MarkedServer(b))
  <2>1. b.name \in String /\ b.args \in Seq(Plain) /\ Len(b.body) \in Nat
    BY BlockIs
  <2>2. MarkedServer(b) = MarkedBlock(b, DirectivesOf(b))
    BY ServerMarked
  <2>3. /\ DirectivesOf(b) \in Seq(Seq(Marks)) /\ Len(DirectivesOf(b)) = Len(b.body)
        /\ \A k \in 1..Len(b.body) : DirectivesOf(b)[k] = MarkedLocation(b.body[k])
    BY DirectivesMarked
  <2>4. ASSUME NEW k \in 1..Len(b.body) PROVE Even(MarkedLocation(b.body[k]))
    <3>1. k - 1 \in 0..(Len(b.body) - 1) /\ (k - 1) + 1 = k
      BY <2>1
    <3>2. PICK d : d = b.body[(k - 1) + 1] /\ d = b.body[k]
      BY <3>1
    <3>3. /\ d \in Items /\ d.name \in Names
          /\ HasBody(d) => IsLocation(d)
          /\ ~HasBody(d) => d \in Statements
      BY <1>2, <3>1, <3>2, DirectiveIs
    <3>4. CASE HasBody(d)
      BY <1>1, <3>2, <3>3, <3>4
    <3>5. CASE ~HasBody(d)
      BY <3>2, <3>3, <3>5, StatementIs, EvenStatement, ItemMarked
    <3> QED
      BY <3>4, <3>5
  <2>5. \A k \in 1..Len(DirectivesOf(b)) : Even(DirectivesOf(b)[k])
    BY <2>3, <2>4
  <2>6. b.name \in Names \cup {"server"}
    BY <1>2 DEF IsServer
  <2> QED
    BY <2>1, <2>2, <2>3, <2>5, <2>6, EvenBlock
<1>3. /\ ServersOf(t) \in Seq(Seq(Marks)) /\ Len(ServersOf(t)) = Len(t)
      /\ \A k \in 0..(Len(t) - 1) : ServersOf(t)[k + 1] = MarkedServer(t[k + 1])
      /\ Marked(t) = FlattenSeq(ServersOf(t))
  BY ServersMarked
<1>4. ASSUME NEW k \in 1..Len(ServersOf(t)) PROVE Even(ServersOf(t)[k])
  <2>1. Len(t) \in Nat
    BY FileIs
  <2>2. k - 1 \in 0..(Len(t) - 1) /\ (k - 1) + 1 = k
    BY <1>3, <2>1
  <2>3. t[(k - 1) + 1] \in Blocks(Items) /\ IsServer(t[(k - 1) + 1])
    BY <2>2, FileIs
  <2> QED
    BY <1>2, <1>3, <2>2, <2>3
<1> QED
  BY <1>3, <1>4, EvenFlatten

-----------------------------------------------------------------------------
(* A file that lacks a token *)

At(p, x) == p <= Len(tokens) /\ tokens[p] = x

\* The tokens are those of m but for the q-th; beyond m, none is missing.
Lacks(m, q) ==
    /\ Len(tokens) = (IF q <= Len(m) THEN Len(m) - 1 ELSE Len(m))
    /\ \A p \in 1..Len(tokens) : tokens[p] = TokenAt(m, IF p < q THEN p ELSE p + 1)

LEMMA WrittenLacksNone ==
    ASSUME NEW t, IsFile(t), tokens = Written(t)
    PROVE  Lacks(Marked(t), Len(Marked(t)) + 1)
<1>1. PICK m, n : m = Marked(t) /\ n = Len(m)
  OBVIOUS
<1>2. m \in Seq(Marks) /\ n \in Nat /\ DOMAIN m = 1..n
  BY <1>1, ServersMarked
<1>3. tokens = [k \in 1..n |-> m[k].token]
  BY <1>1, <1>2 DEF Written
<1>4. tokens = [k \in 1..n |-> TokenAt(m, k)]
  BY <1>3 DEF TokenAt
<1>5. Len(tokens) = n /\ \A p \in 1..n : tokens[p] = TokenAt(m, p) /\ p < n + 1
  BY <1>2, <1>4
<1>6. ~(n + 1 <= n)
  BY <1>2
<1> QED
  BY <1>1, <1>5, <1>6 DEF Lacks

LEMMA WithoutLacksOne ==
    ASSUME NEW t, IsFile(t), NEW q \in 1..Len(Marked(t)), tokens = Without(t, q)
    PROVE  Lacks(Marked(t), q)
<1>1. PICK m, n : m = Marked(t) /\ n = Len(m)
  OBVIOUS
<1>2. m \in Seq(Marks) /\ n \in Nat /\ DOMAIN m = 1..n /\ q \in 1..n
  BY <1>1, ServersMarked
<1>3. PICK w : w = Written(t)
  OBVIOUS
<1>4. w = [k \in 1..n |-> TokenAt(m, k)]
  BY <1>1, <1>2, <1>3 DEF Written, TokenAt
<1>5. /\ w \in Seq(Signs) /\ Len(w) = n /\ \A p \in 1..n : w[p] = TokenAt(m, p)
  <2>1. \A k \in 1..n : TokenAt(m, k) \in Signs
    <3>1. \A k \in 1..n : m[k] \in Marks
      BY <1>1, <1>2
    <3> QED
      BY <3>1 DEF Marks, TokenAt
  <2> QED
    BY <1>2, <1>4, <2>1
<1>6. PICK a, c : a = SubSeq(w, 1, q - 1) /\ c = SubSeq(w, q + 1, n)
  OBVIOUS
<1>7. tokens = a \o c
  BY <1>3, <1>5, <1>6 DEF Without, RemoveAt
<1>8. a \in Seq(Signs) /\ Len(a) = q - 1 /\ \A i \in 1..(q - 1) : a[i] = w[i]
  BY <1>2, <1>5, <1>6
<1>9. c \in Seq(Signs) /\ Len(c) = n - q /\ \A i \in 1..(n - q) : c[i] = w[q + i]
  <2>1. \A i \in 1..(n - q) : (q + 1) + i - 1 = q + i
    BY <1>2
  <2>2. c \in Seq(Signs) /\ Len(c) = n - q
    BY <1>2, <1>5, <1>6
  <2> QED
    BY <1>2, <1>5, <1>6, <2>1, <2>2
<1>10. /\ Len(tokens) = (q - 1) + (n - q)
       /\ \A i \in 1..(q - 1) : tokens[i] = a[i]
       /\ \A i \in 1..(n - q) : tokens[(q - 1) + i] = c[i]
  <2>0. a \in Seq(Signs) /\ c \in Seq(Signs)
    BY <1>8, <1>9
  <2>1. /\ Len(a \o c) = Len(a) + Len(c)
        /\ \A i \in 1..Len(a) : (a \o c)[i] = a[i]
        /\ \A i \in 1..Len(c) : (a \o c)[Len(a) + i] = c[i]
    BY <2>0, Joining
  <2> QED
    BY <1>7, <1>8, <1>9, <2>1
<1>11. Len(tokens) = n - 1 /\ q <= n
  BY <1>2, <1>10
<1>12. ASSUME NEW p \in 1..(n - 1) PROVE tokens[p] = TokenAt(m, IF p < q THEN p ELSE p + 1)
  <2>1. CASE p < q
    <3>1. p \in 1..(q - 1) /\ p \in 1..n
      BY <1>2, <2>1
    <3> QED
      BY <1>5, <1>8, <1>10, <2>1, <3>1
  <2>2. CASE ~(p < q)
    <3>1. PICK i : i = p - (q - 1)
      OBVIOUS
    <3>2. i \in 1..(n - q) /\ (q - 1) + i = p /\ q + i = p + 1 /\ p + 1 \in 1..n
      BY <1>2, <2>2, <3>1
    <3>3. tokens[p] = c[i] /\ c[i] = w[p + 1] /\ w[p + 1] = TokenAt(m, p + 1)
      BY Zenon, <1>5, <1>9, <1>10, <3>2
    <3> QED
      BY Zenon, <2>2, <3>3
  <2> QED
    BY <2>1, <2>2
<1> QED
  BY <1>1, <1>11, <1>12 DEF Lacks

LEMMA DepthIs ==
    ASSUME NEW p
    PROVE  Depth(p) = Cardinality({k \in 1..p : At(k, Opening)}) - Cardinality({k \in 1..p : At(k, Closing)})
BY Zenon DEF Depth, Is, At, Opening, Closing

LEMMA DepthStep ==
    ASSUME tokens \in Seq(Token)
    PROVE  /\ Depth(0) = 0
           /\ \A p \in 0..(Len(tokens) - 1) : Depth(p + 1) = Depth(p) + Bump(tokens[p + 1])
<1> DEFINE O == {k \in Nat : At(k, Opening)}
           C == {k \in Nat : At(k, Closing)}
<1>1. \A p \in Nat : {k \in 1..p : At(k, Opening)} = {k \in 1..p : k \in O}
  OBVIOUS
<1>2. \A p \in Nat : {k \in 1..p : At(k, Closing)} = {k \in 1..p : k \in C}
  OBVIOUS
<1>3. \A p \in Nat : Depth(p) = Cardinality({k \in 1..p : k \in O}) - Cardinality({k \in 1..p : k \in C})
  BY <1>1, <1>2, DepthIs
<1>4. \A p \in Nat : p + 1 \notin O \/ p + 1 \notin C
  BY SignsDiffer DEF At
<1>5. \A p \in Nat : Depth(0) = 0 /\ Depth(p + 1) = Depth(p) + (IF p + 1 \in O THEN 1
      ELSE IF p + 1 \in C THEN -1 ELSE 0)
  <2> HIDE DEF O, C
  <2> TAKE p \in Nat
  <2>1. 0 \in Nat /\ p + 1 \in Nat
    OBVIOUS
  <2> DEFINE K(n) == Cardinality({k \in 1..n : k \in O}) - Cardinality({k \in 1..n : k \in C})
  <2>2. K(0) = 0 /\ K(p + 1) = K(p) + (IF p + 1 \in O THEN 1 ELSE IF p + 1 \in C THEN -1 ELSE 0)
    <3>1. p + 1 \notin O \/ p + 1 \notin C
      BY <1>4
    <3> QED
      BY <3>1, CountStep
  <2>3. \A n \in Nat : Depth(n) = K(n)
    BY <1>3
  <2> HIDE DEF K
  <2> QED
    BY <2>1, <2>2, <2>3
<1>6. ASSUME NEW p \in 0..(Len(tokens) - 1) PROVE Depth(p + 1) = Depth(p) + Bump(tokens[p + 1])
  <2>1. p \in Nat /\ p + 1 \in Nat /\ p + 1 <= Len(tokens)
    OBVIOUS
  <2>2. /\ p + 1 \in O <=> tokens[p + 1] = Opening
        /\ p + 1 \in C <=> tokens[p + 1] = Closing
    BY <2>1 DEF At
  <2> HIDE DEF O, C
  <2> QED
    BY <1>5, <2>1, <2>2 DEF Bump
<1>7. 0 \in Nat
  OBVIOUS
<1> HIDE DEF O, C
<1> QED
  BY <1>5, <1>6, <1>7

\* The braces that are counted are those of the file, but for a missing one.
LEMMA DepthAlong ==
    ASSUME tokens \in Seq(Token), NEW m \in Seq(Marks), NEW q \in 1..(Len(m) + 1), Lacks(m, q)
    PROVE  \A p \in 0..Len(tokens) :
              Depth(p) = IF p < q THEN Level(m, p) ELSE Level(m, p + 1) - Bump(TokenAt(m, q))
<1>0. Len(m) \in Nat /\ Len(tokens) \in Nat
  OBVIOUS
<1>1. PICK n, l : n = Len(m) /\ l = Len(tokens) /\ n \in Nat /\ l \in Nat
  BY <1>0
<1>2. l = (IF q <= n THEN n - 1 ELSE n) /\ \A p \in 1..l : tokens[p] = TokenAt(m, IF p < q THEN p ELSE p + 1)
  BY <1>1 DEF Lacks
<1>3. PICK g : g = Bump(TokenAt(m, q)) /\ g \in Int
  BY DEF Bump
<1> DEFINE Ok(p) == Depth(p) = IF p < q THEN Level(m, p) ELSE Level(m, p + 1) - g
           G == {p \in Nat : p <= l => Ok(p)}
<1>4. 0 \in G
  <2>1. Depth(0) = 0 /\ Level(m, 0) = 0
    BY DepthStep, LevelStep
  <2>2. 0 < q
    BY <1>1
  <2> QED
    BY <2>1, <2>2
<1>5. ASSUME NEW p \in Nat, p \in G PROVE p + 1 \in G
  <2> SUFFICES ASSUME p + 1 <= l PROVE Ok(p + 1)
    OBVIOUS
  <2>1. p <= l /\ p \in 0..(Len(tokens) - 1) /\ p + 1 \in 1..l
    BY <1>1
  <2>2. Depth(p + 1) = Depth(p) + Bump(tokens[p + 1])
    BY <2>1, DepthStep
  <2>3. CASE p + 1 < q
    <3>1. p < q /\ p \in 0..(Len(m) - 1)
      BY <1>1, <1>2, <2>3
    <3>2. Depth(p) = Level(m, p) /\ tokens[p + 1] = TokenAt(m, p + 1)
      BY <1>2, <1>5, <2>1, <2>3, <3>1
    <3>3. Level(m, p + 1) = Level(m, p) + Bump(TokenAt(m, p + 1))
      BY <3>1, LevelStep
    <3> QED
      BY <2>2, <2>3, <3>2, <3>3
  <2>4. CASE ~(p + 1 < q)
    <3>1. q <= n /\ p + 1 \in 0..(Len(m) - 1) /\ tokens[p + 1] = TokenAt(m, (p + 1) + 1)
      BY <1>1, <1>2, <2>1, <2>4
    <3>2. Level(m, (p + 1) + 1) = Level(m, p + 1) + Bump(TokenAt(m, (p + 1) + 1))
      BY <3>1, LevelStep
    <3>3. Depth(p) = Level(m, p + 1) - g
      <4>1. CASE p < q
        <5>1. q = p + 1 /\ p \in 0..(Len(m) - 1) /\ p \in 0..Len(m)
          BY <1>1, <2>4, <3>1, <4>1
        <5>2. Level(m, p + 1) = Level(m, p) + g /\ Level(m, p) \in Int
          BY <1>3, <5>1, LevelStep
        <5>3. Depth(p) = Level(m, p)
          BY <1>5, <2>1, <4>1
        <5> QED
          BY <1>3, <5>2, <5>3
      <4>2. CASE ~(p < q)
        BY <1>5, <2>1, <4>2
      <4> QED
        BY <4>1, <4>2
    <3>4. PICK x, y : /\ x = Level(m, p + 1) /\ x \in Int
                      /\ y = Bump(TokenAt(m, (p + 1) + 1)) /\ y \in Int
      <4>1. p + 1 \in 0..Len(m)
        BY <1>1, <3>1
      <4> QED
        BY <4>1, LevelStep DEF Bump
    <3>5. (x - g) + y = (x + y) - g
      BY <1>3, <3>4
    <3> QED
      BY <2>2, <2>4, <3>1, <3>2, <3>3, <3>4, <3>5
  <2> QED
    BY <2>3, <2>4
<1>6. Nat \subseteq G
  <2> HIDE DEF G
  <2> QED
    BY <1>4, <1>5, UpFrom
<1>7. \A p \in 0..Len(tokens) : p \in Nat /\ p <= l
  BY <1>1
<1> QED
  BY <1>3, <1>6, <1>7

\* A file is balanced, and no longer so without one of its braces.
LEMMA BalanceKept ==
    ASSUME NEW t, IsFile(t), tokens \in Seq(Token), Lacks(Marked(t), Len(Marked(t)) + 1)
    PROVE  tokens # <<>> /\ Balanced
<1>1. PICK m, n : m = Marked(t) /\ n = Len(m) /\ m \in Seq(Marks) /\ n \in Nat /\ Even(m)
  <2>1. Marked(t) \in Seq(Marks) /\ Len(Marked(t)) \in Nat /\ Even(Marked(t))
    BY ServersMarked, EvenFile
  <2> QED
    BY <2>1
<1>2. Len(tokens) = n
  BY <1>1 DEF Lacks
<1>3. \A p \in 0..n : Depth(p) = Level(m, p)
  <2>1. n + 1 \in 1..(Len(m) + 1) /\ \A p \in 0..n : p < n + 1
    BY <1>1
  <2> QED
    BY <1>1, <1>2, <2>1, DepthAlong
<1>4. Level(m, n) = 0 /\ \A p \in 0..n : Level(m, p) >= 0
  BY <1>1 DEF Even
<1>5. DOMAIN tokens = 1..n
  BY <1>2
<1>6. Depth(Len(tokens)) = 0 /\ \A p \in DOMAIN tokens : Depth(p) >= 0
  BY <1>1, <1>2, <1>3, <1>4, <1>5
<1>7. n # 0
  <2>1. Len(t) # 0 /\ 0 \in 0..(Len(t) - 1)
    BY FileIs
  <2>2. PICK s : /\ s = ServerAt(t, 0) /\ s \in Nat /\ DirectiveAt(t, 0, 0) = s + 2
    BY <2>1, ServerPlace
  <2>3. 0 \in 0..Len(t[0 + 1].body)
    <3>1. t[0 + 1] \in Blocks(Items)
      BY <2>1, FileIs
    <3>2. Len(t[0 + 1].body) \in Nat
      BY <3>1, BlockIs
    <3> QED
      BY <3>2
  <2>4. s + 2 + 1 <= n
    BY <1>1, <2>1, <2>2, <2>3, NextDirective
  <2> QED
    BY <1>1, <2>2, <2>4
<1>8. tokens # <<>>
  BY <1>2, <1>7
<1> QED
  BY <1>6, <1>8 DEF Balanced

LEMMA BalanceLost ==
    ASSUME NEW t, IsFile(t), tokens \in Seq(Token), NEW q \in 1..Len(Marked(t)), Lacks(Marked(t), q),
           TokenAt(Marked(t), q) \in {Opening, Closing}
    PROVE  ~Balanced
<1>1. PICK m, n : m = Marked(t) /\ n = Len(m) /\ m \in Seq(Marks) /\ n \in Nat /\ Even(m)
  <2>1. Marked(t) \in Seq(Marks) /\ Len(Marked(t)) \in Nat /\ Even(Marked(t))
    BY ServersMarked, EvenFile
  <2> QED
    BY <2>1
<1>2. Len(tokens) = n - 1
  BY <1>1 DEF Lacks
<1>3. q \in 1..(Len(m) + 1) /\ q \in 1..n /\ n - 1 \in 0..Len(tokens) /\ (n - 1) + 1 = n
  BY <1>1, <1>2
<1>4. Depth(n - 1) = IF n - 1 < q THEN Level(m, n - 1) ELSE Level(m, (n - 1) + 1) - Bump(TokenAt(m, q))
  BY <1>1, <1>3, DepthAlong
<1>5. Level(m, n) = 0
  BY <1>1 DEF Even
<1>6. Bump(TokenAt(m, q)) \in {1, -1}
  BY <1>1 DEF Bump
<1>7. Depth(n - 1) # 0
  <2>1. CASE n - 1 < q
    <3>1. q = n /\ n - 1 \in 0..(Len(m) - 1) /\ n - 1 \in 0..Len(m)
      BY <1>1, <1>3, <2>1
    <3>2. Level(m, (n - 1) + 1) = Level(m, n - 1) + Bump(TokenAt(m, (n - 1) + 1)) /\ Level(m, n - 1) \in Int
      BY <1>1, <3>1, LevelStep
    <3> QED
      BY <1>3, <1>4, <1>5, <1>6, <2>1, <3>1, <3>2
  <2>2. CASE ~(n - 1 < q)
    BY <1>3, <1>4, <1>5, <1>6, <2>2
  <2> QED
    BY <2>1, <2>2
<1> QED
  BY <1>2, <1>7 DEF Balanced

-----------------------------------------------------------------------------
(* What one directive more says *)

LEMMA AppendIs ==
    ASSUME NEW T, NEW s \in Seq(T), NEW x \in T, NEW u \in Seq(T), Len(u) = Len(s) + 1,
           u[Len(s) + 1] = x, \A k \in 1..Len(s) : u[k] = s[k]
    PROVE  u = Append(s, x)
<1>1. PICK n : n = Len(s) /\ n \in Nat
  OBVIOUS
<1>2. PICK c : c = Append(s, x)
  OBVIOUS
<1>3. c \in Seq(T) /\ Len(c) = n + 1 /\ c[n + 1] = x /\ \A k \in 1..n : c[k] = s[k]
  BY <1>1, <1>2, AppendProperties
<1>4. \A k \in 1..(n + 1) : k = n + 1 \/ k \in 1..n
  BY <1>1
<1>5. \A k \in 1..(n + 1) : c[k] = u[k]
  BY <1>1, <1>3, <1>4
<1> QED
  BY <1>1, <1>2, <1>3, <1>5, SeqEqual

LEMMA OneLonger ==
    ASSUME NEW T, NEW s \in Seq(T), NEW x \in T, NEW c, c = Append(s, x)
    PROVE  /\ c \in Seq(T) /\ Len(s) \in Nat /\ Len(c) = Len(s) + 1 /\ DOMAIN s = 1..Len(s)
           /\ DOMAIN c = 1..(Len(s) + 1)
           /\ c[Len(s) + 1] = x /\ \A k \in 1..Len(s) : c[k] = s[k]
BY AppendProperties

LEMMA Argued ==
    ASSUME NEW s \in Seq(Items)
    PROVE  \A k \in 1..Len(s) : s[k].name \in String /\ s[k].args \in Seq(Plain)
<1>1. \A k \in 1..Len(s) : s[k] \in Items
  OBVIOUS
<1> QED
  BY <1>1, ItemIs

LEMMA AllMore ==
    ASSUME NEW s \in Seq(Items), NEW d \in Items, NEW n
    PROVE  /\ All(s, n) \in Seq(Plain)
           /\ All(Append(s, d), n) = IF d.name = n THEN All(s, n) \o d.args ELSE All(s, n)
<1>1. PICK c : c = Append(s, d)
  OBVIOUS
<1>2. PICK l : l = Len(s)
  OBVIOUS
<1>3. /\ c \in Seq(Items) /\ l \in Nat /\ DOMAIN s = 1..l /\ DOMAIN c = 1..(l + 1)
      /\ c[l + 1] = d /\ \A k \in 1..l : c[k] = s[k]
  BY <1>1, <1>2, OneLonger
<1>4. <<>> \in Seq(Plain)
  OBVIOUS
<1>5. PICK a : a = [k \in 1..l |-> IF s[k].name = n THEN s[k].args ELSE <<>>]
  OBVIOUS
<1>6. PICK u : u = [k \in 1..(l + 1) |-> IF c[k].name = n THEN c[k].args ELSE <<>>]
  OBVIOUS
<1>7. PICK x : x = (IF d.name = n THEN d.args ELSE <<>>) /\ x \in Seq(Plain)
  BY <1>4, ItemIs
<1>8. \A k \in 1..l : a[k] \in Seq(Plain)
  <2>1. \A k \in 1..l : a[k] = s[k].args \/ a[k] = <<>>
    BY <1>5
  <2> QED
    BY <1>2, <1>4, <2>1, Argued
<1>9. a \in Seq(Seq(Plain)) /\ Len(a) = l
  BY <1>3, <1>5, <1>8
<1>10. u[l + 1] = x
  <2>1. l + 1 \in 1..(l + 1)
    BY <1>3
  <2> QED
    BY <1>3, <1>6, <1>7, <2>1
<1>11. \A k \in 1..l : u[k] = a[k]
  <2>1. \A k \in 1..l : k \in 1..(l + 1)
    BY <1>3
  <2> QED
    BY <1>3, <1>5, <1>6, <2>1
<1>12. \A k \in 1..(l + 1) : u[k] \in Seq(Plain)
  <2>1. \A k \in 1..(l + 1) : k = l + 1 \/ k \in 1..l
    BY <1>3
  <2> QED
    BY <1>7, <1>8, <1>10, <1>11, <2>1
<1>13. u \in Seq(Seq(Plain)) /\ Len(u) = l + 1
  <2>1. PICK r : r = l + 1 /\ r \in Nat
    BY <1>3
  <2>2. u = [k \in 1..r |-> u[k]] /\ \A k \in 1..r : u[k] \in Seq(Plain)
    BY <1>6, <1>12, <2>1
  <2> QED
    BY <2>1, <2>2, SeqMade
<1>14. u = Append(a, x)
  BY <1>7, <1>9, <1>10, <1>11, <1>13, AppendIs
<1>15. FlattenSeq(a) \in Seq(Plain) /\ FlattenSeq(u) = FlattenSeq(a) \o x
  BY <1>7, <1>9, <1>14, FlattenMore, FlattenTyped
<1>16. All(s, n) = FlattenSeq(a) /\ All(c, n) = FlattenSeq(u)
  BY <1>3, <1>5, <1>6 DEF All
<1>17. FlattenSeq(a) \o <<>> = FlattenSeq(a)
  BY <1>15, ConcatEmptySeq
<1> QED
  BY <1>1, <1>7, <1>15, <1>16, <1>17

LEMMA MaxOf == ASSUME NEW S, \E k \in S : \A j \in S : k >= j PROVE Max(S) \in S /\ \A j \in S : Max(S) >= j
BY DEF Max

LEMMA LargestIs ==
    ASSUME NEW n \in Nat, NEW S, S \subseteq 1..n
    PROVE  /\ S # {} => Max(S) \in S
           /\ \A k \in S : (\A j \in S : j <= k) => Max(S) = k
<1>1. \A k \in S : k \in Nat
  OBVIOUS
<1>2. ASSUME NEW k \in S, \A j \in S : j <= k PROVE Max(S) = k
  <2>1. \A j \in S : k >= j
    BY <1>1, <1>2
  <2>2. \E i \in S : \A j \in S : i >= j
    BY Zenon, <2>1
  <2>3. Max(S) \in S /\ \A j \in S : Max(S) >= j
    BY Zenon, <2>2, MaxOf
  <2>4. PICK x : x = Max(S)
    OBVIOUS
  <2>5. x \in Nat /\ k \in Nat /\ x <= k /\ x >= k
    BY <1>1, <1>2, <2>3, <2>4
  <2> QED
    BY <2>4, <2>5
<1>3. ASSUME S # {} PROVE Max(S) \in S
  <2>1. PICK k \in S : \A j \in S : j <= k
    BY <1>3, LastOf
  <2> QED
    BY <1>2, <2>1
<1> QED
  BY <1>2, <1>3

\* The last of some places, 0 for none.
LastIn(S) == IF S # {} THEN Max(S) ELSE 0

LEMMA LastOfMore ==
    ASSUME NEW n \in Nat, NEW S, S \subseteq 1..n
    PROVE  LastIn(S) \in {0} \cup (1..n) /\ LastIn(S \cup {n + 1}) = n + 1
<1>1. LastIn(S) \in {0} \cup (1..n)
  BY LargestIs DEF LastIn
<1>2. LastIn(S \cup {n + 1}) = n + 1
  <2>1. PICK V : V = S \cup {n + 1}
    OBVIOUS
  <2>2. PICK m : m = n + 1 /\ m \in Nat
    OBVIOUS
  <2>3. V \subseteq 1..m
    BY <2>1, <2>2
  <2>4. m \in V /\ \A j \in V : j <= m
    BY <2>1, <2>2
  <2>5. Max(V) = m
    BY <2>2, <2>3, <2>4, LargestIs
  <2>6. V # {}
    BY <2>4
  <2> QED
    BY <2>1, <2>2, <2>5, <2>6 DEF LastIn
<1> QED
  BY <1>1, <1>2

LEMMA SaidMore ==
    ASSUME NEW s \in Seq(Items), NEW d \in Items, NEW n, NEW default
    PROVE  Said(Append(s, d), n, default) = IF d.name = n THEN d.args ELSE Said(s, n, default)
<1>1. PICK c : c = Append(s, d)
  OBVIOUS
<1>2. PICK l : l = Len(s)
  OBVIOUS
<1>3. /\ c \in Seq(Items) /\ l \in Nat /\ Len(c) = l + 1
      /\ c[l + 1] = d /\ \A k \in 1..l : c[k] = s[k]
  BY <1>1, <1>2, OneLonger
<1>4. PICK S, U : S = {i \in 1..l : s[i].name = n} /\ U = {i \in 1..(l + 1) : c[i].name = n}
  OBVIOUS
<1>5. U = IF d.name = n THEN S \cup {l + 1} ELSE S
  <2>1. \A i \in 1..(l + 1) : i \in 1..l \/ i = l + 1
    BY <1>3
  <2>2. \A i \in 1..l : i \in 1..(l + 1)
    BY <1>3
  <2>3. l + 1 \in 1..(l + 1)
    BY <1>3
  <2> QED
    BY <1>3, <1>4, <2>1, <2>2, <2>3
<1>6. PICK x, y : x = LastIn(S) /\ y = LastIn(U)
  OBVIOUS
<1>7. x \in {0} \cup (1..l) /\ y = IF d.name = n THEN l + 1 ELSE x
  <2>1. S \subseteq 1..l
    BY <1>4
  <2>2. LastIn(S) \in {0} \cup (1..l) /\ LastIn(S \cup {l + 1}) = l + 1
    BY <1>3, <2>1, LastOfMore
  <2> QED
    BY <1>5, <1>6, <2>2
<1>8. Said(s, n, default) = IF x = 0 THEN default ELSE s[x].args
  BY <1>2, <1>4, <1>6 DEF Said, SelectLastInSeq, LastIn
<1>9. Said(c, n, default) = IF y = 0 THEN default ELSE c[y].args
  BY <1>3, <1>4, <1>6 DEF Said, SelectLastInSeq, LastIn
<1>10. l + 1 # 0
  BY <1>3
<1> QED
  BY <1>1, <1>3, <1>7, <1>8, <1>9, <1>10

LEMMA PathSaidMore ==
    ASSUME NEW s \in Seq(Items), NEW d \in Items, NEW n, d.name = n => d.args # <<>>
    PROVE  PathSaid(Append(s, d), n) = IF d.name = n THEN d.args[1].path ELSE PathSaid(s, n)
BY SaidMore DEF PathSaid

LEMMA PagesMore ==
    ASSUME NEW s \in Seq(Items), NEW d \in Items
    PROVE  PagesMeant(Append(s, d)) =
              [c \in CodesOf(d) \cup DOMAIN PagesMeant(s) |->
                 IF c \in CodesOf(d) THEN Last(d.args).path ELSE PagesMeant(s)[c]]
<1>1. PICK w : w = Append(s, d)
  OBVIOUS
<1>2. PICK l : l = Len(s)
  OBVIOUS
<1>3. /\ w \in Seq(Items) /\ l \in Nat /\ Len(w) = l + 1 /\ DOMAIN s = 1..l /\ DOMAIN w = 1..(l + 1)
      /\ w[l + 1] = d /\ \A k \in 1..l : w[k] = s[k]
  BY <1>1, <1>2, OneLonger
<1>4. PICK C, D : C = UNION {CodesOf(s[k]) : k \in 1..l} /\ D = UNION {CodesOf(w[k]) : k \in 1..(l + 1)}
  OBVIOUS
<1>5. (l + 1 \in 1..(l + 1)) /\ (\A k \in 1..l : k \in 1..(l + 1))
      /\ (\A k \in 1..(l + 1) : k = l + 1 \/ k \in 1..l)
  BY <1>3
<1>6. D = CodesOf(d) \cup C
  BY <1>3, <1>4, <1>5
<1> DEFINE S(c) == LastIn({i \in 1..l : c \in CodesOf(s[i])})
           U(c) == LastIn({i \in 1..(l + 1) : c \in CodesOf(w[i])})
<1>7. PagesMeant(s) = [c \in C |-> Last(s[S(c)].args).path]
  BY <1>2, <1>3, <1>4 DEF PagesMeant, SelectLastInSeq, LastIn
<1>8. PagesMeant(w) = [c \in D |-> Last(w[U(c)].args).path]
  BY <1>3, <1>4 DEF PagesMeant, SelectLastInSeq, LastIn
<1>9. ASSUME NEW c PROVE U(c) = IF c \in CodesOf(d) THEN l + 1 ELSE S(c)
  <2>1. PICK X, Y : X = {i \in 1..l : c \in CodesOf(s[i])} /\ Y = {i \in 1..(l + 1) : c \in CodesOf(w[i])}
    OBVIOUS
  <2>2. Y = IF c \in CodesOf(d) THEN X \cup {l + 1} ELSE X
    BY <1>3, <1>5, <2>1
  <2>3. X \subseteq 1..l
    BY <2>1
  <2>4. LastIn(X \cup {l + 1}) = l + 1
    BY <1>3, <2>3, LastOfMore
  <2> QED
    BY <2>1, <2>2, <2>4
<1>10. ASSUME NEW c \in C PROVE S(c) \in 1..l
  <2>1. PICK X : X = {i \in 1..l : c \in CodesOf(s[i])}
    OBVIOUS
  <2>2. X # {} /\ X \subseteq 1..l
    BY <1>4, <2>1
  <2>3. Max(X) \in X
    BY <1>3, <2>2, LargestIs
  <2> QED
    BY <2>1, <2>2, <2>3 DEF LastIn
<1> HIDE DEF S, U
<1>11. ASSUME NEW c \in D PROVE Last(w[U(c)].args).path = IF c \in CodesOf(d) THEN Last(d.args).path
      ELSE PagesMeant(s)[c]
  <2>1. CASE c \in CodesOf(d)
    BY <1>3, <1>9, <2>1
  <2>2. CASE c \notin CodesOf(d)
    <3>1. c \in C
      BY <1>6, <1>11, <2>2
    <3>2. PICK x : x = S(c) /\ x \in 1..l /\ U(c) = x
      BY <1>9, <1>10, <2>2, <3>1
    <3>3. w[x] = s[x]
      BY <1>3, <3>2
    <3> QED
      BY <1>7, <2>2, <3>1, <3>2, <3>3
  <2> QED
    BY <2>1, <2>2
<1>12. DOMAIN PagesMeant(s) = C
  BY <1>7
<1> QED
  BY <1>1, <1>6, <1>8, <1>11, <1>12

LEMMA HostMore ==
    ASSUME NEW s \in Seq(Plain), NEW x \in Plain, NEW w \in Seq(Plain), w = s \o <<x>>
    PROVE  HostMeant(w) = IF "num" \in DOMAIN x THEN HostMeant(s)
                          ELSE IF "host" \in DOMAIN x THEN x.host ELSE x.word
<1>1. PICK l : l = Len(s)
  OBVIOUS
<1>2. /\ l \in Nat /\ Len(w) = l + 1 /\ w[l + 1] = x /\ \A k \in 1..l : w[k] = s[k]
  <2>1. <<x>> \in Seq(Plain) /\ Len(<<x>>) = 1 /\ <<x>>[1] = x
    BY Single
  <2> QED
    BY <1>1, <2>1, Joining
<1>3. PICK S, U : S = {i \in 1..l : "num" \notin DOMAIN s[i]} /\ U = {i \in 1..(l + 1) : "num" \notin DOMAIN w[i]}
  OBVIOUS
<1>4. U = IF "num" \notin DOMAIN x THEN S \cup {l + 1} ELSE S
  <2>1. (l + 1 \in 1..(l + 1)) /\ (\A k \in 1..l : k \in 1..(l + 1))
        /\ (\A k \in 1..(l + 1) : k = l + 1 \/ k \in 1..l)
    BY <1>2
  <2> QED
    BY <1>2, <1>3, <2>1
<1>5. PICK a, b : a = LastIn(S) /\ b = LastIn(U)
  OBVIOUS
<1>6. a \in {0} \cup (1..l) /\ b = IF "num" \notin DOMAIN x THEN l + 1 ELSE a
  <2>1. S \subseteq 1..l
    BY <1>3
  <2>2. LastIn(S) \in {0} \cup (1..l) /\ LastIn(S \cup {l + 1}) = l + 1
    BY <1>2, <2>1, LastOfMore
  <2> QED
    BY <1>4, <1>5, <2>2
<1>7. HostMeant(s) = IF a = 0 THEN "0.0.0.0" ELSE IF "host" \in DOMAIN s[a] THEN s[a].host ELSE s[a].word
  BY Zenon, <1>1, <1>3, <1>5 DEF HostMeant, SelectLastInSeq, LastIn
<1>8. HostMeant(w) = IF b = 0 THEN "0.0.0.0" ELSE IF "host" \in DOMAIN w[b] THEN w[b].host ELSE w[b].word
  BY Zenon, <1>2, <1>3, <1>5 DEF HostMeant, SelectLastInSeq, LastIn
<1>9. l + 1 # 0 /\ (a # 0 => w[a] = s[a])
  BY <1>2, <1>6
<1> QED
  BY <1>2, <1>6, <1>7, <1>8, <1>9

LEMMA PortMore ==
    ASSUME NEW s \in Seq(Plain), NEW x \in Plain, NEW w \in Seq(Plain), w = s \o <<x>>
    PROVE  PortMeant(w) = IF "word" \in DOMAIN x THEN PortMeant(s)
                          ELSE IF "host" \in DOMAIN x THEN x.port ELSE x.num
<1>1. PICK l : l = Len(s)
  OBVIOUS
<1>2. /\ l \in Nat /\ Len(w) = l + 1 /\ w[l + 1] = x /\ \A k \in 1..l : w[k] = s[k]
  <2>1. <<x>> \in Seq(Plain) /\ Len(<<x>>) = 1 /\ <<x>>[1] = x
    BY Single
  <2> QED
    BY <1>1, <2>1, Joining
<1>3. PICK S, U : S = {i \in 1..l : "word" \notin DOMAIN s[i]} /\ U = {i \in 1..(l + 1) : "word" \notin DOMAIN w[i]}
  OBVIOUS
<1>4. U = IF "word" \notin DOMAIN x THEN S \cup {l + 1} ELSE S
  <2>1. (l + 1 \in 1..(l + 1)) /\ (\A k \in 1..l : k \in 1..(l + 1))
        /\ (\A k \in 1..(l + 1) : k = l + 1 \/ k \in 1..l)
    BY <1>2
  <2> QED
    BY <1>2, <1>3, <2>1
<1>5. PICK a, b : a = LastIn(S) /\ b = LastIn(U)
  OBVIOUS
<1>6. a \in {0} \cup (1..l) /\ b = IF "word" \notin DOMAIN x THEN l + 1 ELSE a
  <2>1. S \subseteq 1..l
    BY <1>3
  <2>2. LastIn(S) \in {0} \cup (1..l) /\ LastIn(S \cup {l + 1}) = l + 1
    BY <1>2, <2>1, LastOfMore
  <2> QED
    BY <1>4, <1>5, <2>2
<1>7. PortMeant(s) = IF a = 0 THEN 80 ELSE IF "host" \in DOMAIN s[a] THEN s[a].port ELSE s[a].num
  BY Zenon, <1>1, <1>3, <1>5 DEF PortMeant, SelectLastInSeq, LastIn
<1>8. PortMeant(w) = IF b = 0 THEN 80 ELSE IF "host" \in DOMAIN w[b] THEN w[b].port ELSE w[b].num
  BY Zenon, <1>2, <1>3, <1>5 DEF PortMeant, SelectLastInSeq, LastIn
<1>9. l + 1 # 0 /\ (a # 0 => w[a] = s[a])
  BY <1>2, <1>6
<1> QED
  BY <1>2, <1>6, <1>7, <1>8, <1>9

LocationOf(d) == LocationMeant(d.args[1].path, d.body)

LEMMA LocationsMore ==
    ASSUME NEW s \in Seq(Items), NEW d \in Items
    PROVE  LocationsMeant(Append(s, d)) =
              IF d.name = "location" THEN Append(LocationsMeant(s), LocationOf(d)) ELSE LocationsMeant(s)
<1>1. PICK w : w = Append(s, d)
  OBVIOUS
<1>2. PICK l : l = Len(s)
  OBVIOUS
<1>3. /\ w \in Seq(Items) /\ l \in Nat /\ DOMAIN s = 1..l /\ DOMAIN w = 1..(l + 1)
      /\ w[l + 1] = d /\ \A k \in 1..l : w[k] = s[k]
  BY <1>1, <1>2, OneLonger
<1>4. PICK T : T = {LocationOf(x) : x \in Items}
  OBVIOUS
<1>5. <<>> \in Seq(T) /\ \A x \in Items : <<LocationOf(x)>> \in Seq(T)
  BY <1>4
<1>6. PICK a : a = [k \in 1..l |-> IF s[k].name = "location" THEN <<LocationOf(s[k])>> ELSE <<>>]
  OBVIOUS
<1>7. PICK u : u = [k \in 1..(l + 1) |-> IF w[k].name = "location" THEN <<LocationOf(w[k])>> ELSE <<>>]
  OBVIOUS
<1>8. PICK x : x = (IF d.name = "location" THEN <<LocationOf(d)>> ELSE <<>>) /\ x \in Seq(T)
  BY <1>5
<1>9. \A k \in 1..l : a[k] \in Seq(T)
  <2>1. \A k \in 1..l : s[k] \in Items
    BY <1>2
  <2> QED
    BY <1>5, <1>6, <2>1
<1>10. a \in Seq(Seq(T)) /\ Len(a) = l
  BY <1>3, <1>6, <1>9
<1>11. (l + 1 \in 1..(l + 1)) /\ (\A k \in 1..l : k \in 1..(l + 1))
      /\ (\A k \in 1..(l + 1) : k = l + 1 \/ k \in 1..l)
  BY <1>3
<1>12. u[l + 1] = x
  BY <1>3, <1>7, <1>8, <1>11
<1>13. \A k \in 1..l : u[k] = a[k]
  BY <1>3, <1>6, <1>7, <1>11
<1>14. \A k \in 1..(l + 1) : u[k] \in Seq(T)
  BY <1>8, <1>9, <1>11, <1>12, <1>13
<1>15. u \in Seq(Seq(T)) /\ Len(u) = l + 1
  <2>1. PICK r : r = l + 1 /\ r \in Nat
    BY <1>3
  <2>2. u = [k \in 1..r |-> u[k]] /\ \A k \in 1..r : u[k] \in Seq(T)
    BY <1>7, <1>14, <2>1
  <2> QED
    BY <2>1, <2>2, SeqMade
<1>16. u = Append(a, x)
  BY <1>8, <1>10, <1>12, <1>13, <1>15, AppendIs
<1>17. FlattenSeq(a) \in Seq(T) /\ FlattenSeq(u) = FlattenSeq(a) \o x
  BY <1>8, <1>10, <1>16, FlattenMore, FlattenTyped
<1>18. LocationsMeant(s) = FlattenSeq(a) /\ LocationsMeant(w) = FlattenSeq(u)
  BY <1>3, <1>6, <1>7 DEF LocationsMeant, LocationOf
<1>19. FlattenSeq(a) \o <<>> = FlattenSeq(a)
  BY <1>17, ConcatEmptySeq
<1>20. LocationOf(d) \in T
  BY <1>4
<1>21. FlattenSeq(a) \o <<LocationOf(d)>> = Append(FlattenSeq(a), LocationOf(d))
  BY <1>17, <1>20
<1> QED
  BY <1>1, <1>8, <1>17, <1>18, <1>19, <1>21

\* What a server is after one directive more.
\* One directive more of each kind.
LEMMA ServerMore ==
    ASSUME NEW s \in Seq(Items), NEW d \in Items
    PROVE  LET v == ServerMeant(s)
               w == ServerMeant(Append(s, d))
           IN /\ d.name = "server_name" => w = [v EXCEPT !.names = @ \o d.args]
              /\ d.name = "index" => w = [v EXCEPT !.index = @ \o d.args]
              /\ d.name = "root" /\ d.args # <<>> => w = [v EXCEPT !.root = d.args[1].path]
              /\ d.name = "autoindex" => w = [v EXCEPT !.autoindex = d.args[1].word]
              /\ d.name = "client_max_body_size" => w = [v EXCEPT !.limit = Amount(d.args[1])]
              /\ d.name = "location" => w = [v EXCEPT !.locations = Append(@, LocationOf(d))]
              /\ d.name = "error_page" => 
                    w = [v EXCEPT !.pages = [c \in CodesOf(d) \cup DOMAIN @ |->
                                               IF c \in CodesOf(d) THEN Last(d.args).path ELSE @[c]]]
<1>1. PICK c : c = Append(s, d)
  OBVIOUS
<1>2. PICK ls, ns, ps, si, ro, au, ix, lo :
         /\ ls = All(s, "listen") /\ ns = All(s, "server_name") /\ ps = PagesMeant(s)
         /\ si = Said(s, "client_max_body_size", <<Number(1, "m")>>) /\ ro = PathSaid(s, "root")
         /\ au = Said(s, "autoindex", <<Word("off")>>) /\ ix = All(s, "index") /\ lo = LocationsMeant(s)
  OBVIOUS
<1>3. ServerMeant(s) = [host |-> HostMeant(ls), port |-> PortMeant(ls), names |-> ns, pages |-> ps,
                        limit |-> Amount(si[1]), root |-> ro, autoindex |-> au[1].word, index |-> ix,
                        locations |-> lo]
  BY <1>2 DEF ServerMeant
<1>4. PICK ls2, ns2, ps2, si2, ro2, au2, ix2, lo2 :
         /\ ls2 = All(c, "listen") /\ ns2 = All(c, "server_name") /\ ps2 = PagesMeant(c)
         /\ si2 = Said(c, "client_max_body_size", <<Number(1, "m")>>) /\ ro2 = PathSaid(c, "root")
         /\ au2 = Said(c, "autoindex", <<Word("off")>>) /\ ix2 = All(c, "index") /\ lo2 = LocationsMeant(c)
  OBVIOUS
<1>5. ServerMeant(c) = [host |-> HostMeant(ls2), port |-> PortMeant(ls2), names |-> ns2, pages |-> ps2,
                        limit |-> Amount(si2[1]), root |-> ro2, autoindex |-> au2[1].word, index |-> ix2,
                        locations |-> lo2]
  BY <1>4 DEF ServerMeant
<1>6. /\ ls2 = IF d.name = "listen" THEN ls \o d.args ELSE ls
      /\ ns2 = IF d.name = "server_name" THEN ns \o d.args ELSE ns
      /\ ix2 = IF d.name = "index" THEN ix \o d.args ELSE ix
  BY <1>1, <1>2, <1>4, AllMore
<1>7. /\ si2 = IF d.name = "client_max_body_size" THEN d.args ELSE si
      /\ au2 = IF d.name = "autoindex" THEN d.args ELSE au
  BY <1>1, <1>2, <1>4, SaidMore
<1>8. (d.name = "root" => d.args # <<>>) => ro2 = IF d.name = "root" THEN d.args[1].path ELSE ro
  BY <1>1, <1>2, <1>4, PathSaidMore
<1>9. lo2 = IF d.name = "location" THEN Append(lo, LocationOf(d)) ELSE lo
  BY <1>1, <1>2, <1>4, LocationsMore
<1>10. ps2 = [x \in CodesOf(d) \cup DOMAIN ps |-> IF x \in CodesOf(d) THEN Last(d.args).path ELSE ps[x]]
  <2>1. PagesMeant(Append(s, d)) =
          [x \in CodesOf(d) \cup DOMAIN PagesMeant(s) |->
             IF x \in CodesOf(d) THEN Last(d.args).path ELSE PagesMeant(s)[x]]
    BY PagesMore
  <2> QED
    BY Zenon, <1>1, <1>2, <1>4, <2>1
<1>11. d.name # "error_page" => ps2 = ps
  <2>1. d.name # "error_page" => CodesOf(d) = {}
    BY DEF CodesOf
  <2>2. ps = [x \in DOMAIN ps |-> ps[x]]
    BY <1>2 DEF PagesMeant
  <2> QED
    BY <1>10, <2>1, <2>2
<1> HIDE <1>10
<1>12. CASE d.name = "server_name"
  <2>1. ServerMeant(c) = [ServerMeant(s) EXCEPT !.names = ns2]
    <3>1. ls2 = ls /\ ps2 = ps /\ si2 = si /\ ro2 = ro /\ au2 = au /\ ix2 = ix /\ lo2 = lo
      BY <1>6, <1>7, <1>8, <1>9, <1>11, <1>12
    <3> QED
      BY <1>3, <1>5, <3>1
  <2>2. ServerMeant(s).names = ns /\ ns2 = ns \o d.args
    BY <1>3, <1>6, <1>12
  <2> QED
    BY <1>1, <1>12, <2>1, <2>2
<1>13. CASE d.name = "index"
  <2>1. ServerMeant(c) = [ServerMeant(s) EXCEPT !.index = ix2]
    <3>1. ls2 = ls /\ ns2 = ns /\ ps2 = ps /\ si2 = si /\ ro2 = ro /\ au2 = au /\ lo2 = lo
      BY <1>6, <1>7, <1>8, <1>9, <1>11, <1>13
    <3> QED
      BY <1>3, <1>5, <3>1
  <2>2. ServerMeant(s).index = ix /\ ix2 = ix \o d.args
    BY <1>3, <1>6, <1>13
  <2> QED
    BY <1>1, <1>13, <2>1, <2>2
<1>14. CASE d.name = "root" /\ d.args # <<>>
  BY <1>1, <1>3, <1>5, <1>6, <1>7, <1>8, <1>9, <1>11, <1>14
<1>15. CASE d.name = "autoindex"
  BY <1>1, <1>3, <1>5, <1>6, <1>7, <1>8, <1>9, <1>11, <1>15
<1>16. CASE d.name = "client_max_body_size"
  BY <1>1, <1>3, <1>5, <1>6, <1>7, <1>8, <1>9, <1>11, <1>16
<1>17. CASE d.name = "location"
  <2>1. ServerMeant(c) = [ServerMeant(s) EXCEPT !.locations = lo2]
    <3>1. ls2 = ls /\ ns2 = ns /\ ps2 = ps /\ si2 = si /\ ro2 = ro /\ au2 = au /\ ix2 = ix
      BY <1>6, <1>7, <1>8, <1>9, <1>11, <1>17
    <3> QED
      BY <1>3, <1>5, <3>1
  <2>2. ServerMeant(s).locations = lo /\ lo2 = Append(lo, LocationOf(d))
    BY <1>3, <1>9, <1>17
  <2> QED
    BY <1>1, <1>17, <2>1, <2>2
<1>18. CASE d.name = "error_page"
  <2>1. ServerMeant(c) = [ServerMeant(s) EXCEPT !.pages = ps2]
    BY <1>3, <1>5, <1>6, <1>7, <1>8, <1>9, <1>18
  <2>2. ServerMeant(s).pages = ps
    BY <1>3
  <2> QED
    BY <1>1, <1>10, <1>18, <2>1, <2>2
<1> QED
  BY Zenon, <1>1, <1>12, <1>13, <1>14, <1>15, <1>16, <1>17, <1>18

\* What a server is after one listen more.
HostHeard(v, x) == IF "num" \in DOMAIN x THEN v.host ELSE IF "host" \in DOMAIN x THEN x.host ELSE x.word
PortHeard(v, x) == IF "word" \in DOMAIN x THEN v.port ELSE IF "host" \in DOMAIN x THEN x.port ELSE x.num
Heard(v, x)     == [v EXCEPT !.host = HostHeard(v, x), !.port = PortHeard(v, x)]

LEMMA ServerListens ==
    ASSUME NEW s \in Seq(Items), NEW d \in Items, d.name = "listen", NEW x \in Plain, d.args = <<x>>
    PROVE  ServerMeant(Append(s, d)) = Heard(ServerMeant(s), x)
<1>1. PICK c : c = Append(s, d)
  OBVIOUS
<1>2. PICK ls, ns, ps, si, ro, au, ix, lo :
         /\ ls = All(s, "listen") /\ ns = All(s, "server_name") /\ ps = PagesMeant(s)
         /\ si = Said(s, "client_max_body_size", <<Number(1, "m")>>) /\ ro = PathSaid(s, "root")
         /\ au = Said(s, "autoindex", <<Word("off")>>) /\ ix = All(s, "index") /\ lo = LocationsMeant(s)
  OBVIOUS
<1>3. ServerMeant(s) = [host |-> HostMeant(ls), port |-> PortMeant(ls), names |-> ns, pages |-> ps,
                        limit |-> Amount(si[1]), root |-> ro, autoindex |-> au[1].word, index |-> ix,
                        locations |-> lo]
  BY <1>2 DEF ServerMeant
<1>4. ls \in Seq(Plain)
  BY <1>2, AllMore
<1>5. All(c, "listen") = ls \o <<x>> /\ All(c, "server_name") = ns /\ All(c, "index") = ix
  BY <1>1, <1>2, AllMore
<1>6. /\ Said(c, "client_max_body_size", <<Number(1, "m")>>) = si
      /\ Said(c, "autoindex", <<Word("off")>>) = au
  BY <1>1, <1>2, SaidMore
<1>7. PathSaid(c, "root") = ro
  BY <1>1, <1>2, PathSaidMore
<1>8. LocationsMeant(c) = lo
  BY <1>1, <1>2, LocationsMore
<1>9. PagesMeant(c) = ps
  <2>1. CodesOf(d) = {}
    BY DEF CodesOf
  <2>2. ps = [k \in DOMAIN ps |-> ps[k]]
    BY <1>2 DEF PagesMeant
  <2>3. PagesMeant(Append(s, d)) =
          [k \in CodesOf(d) \cup DOMAIN PagesMeant(s) |->
             IF k \in CodesOf(d) THEN Last(d.args).path ELSE PagesMeant(s)[k]]
    BY PagesMore
  <2> QED
    BY <1>1, <1>2, <2>1, <2>2, <2>3
<1>10. PICK w : w = ls \o <<x>> /\ w \in Seq(Plain)
  <2>1. <<x>> \in Seq(Plain)
    BY Single
  <2> QED
    BY <1>4, <2>1, Joining
<1>11. PICK h, p :
         /\ h = IF "num" \in DOMAIN x THEN HostMeant(ls) ELSE IF "host" \in DOMAIN x THEN x.host ELSE x.word
         /\ p = IF "word" \in DOMAIN x THEN PortMeant(ls) ELSE IF "host" \in DOMAIN x THEN x.port ELSE x.num
  OBVIOUS
<1>12. HostMeant(w) = h
  BY <1>4, <1>10, <1>11, HostMore
<1>13. PortMeant(w) = p
  BY <1>4, <1>10, <1>11, PortMore
<1>14. HostMeant(All(c, "listen")) = h /\ PortMeant(All(c, "listen")) = p
  BY <1>5, <1>10, <1>12, <1>13
<1>15. ServerMeant(c) = [ServerMeant(s) EXCEPT !.host = h, !.port = p]
  <2>1. PICK ns2, ix2, si2, au2 :
           /\ ns2 = All(c, "server_name") /\ ix2 = All(c, "index")
           /\ si2 = Said(c, "client_max_body_size", <<Number(1, "m")>>)
           /\ au2 = Said(c, "autoindex", <<Word("off")>>)
    OBVIOUS
  <2>2. ServerMeant(c) = [host |-> h, port |-> p, names |-> ns2, pages |-> ps,
                          limit |-> Amount(si2[1]), root |-> ro, autoindex |-> au2[1].word, index |-> ix2,
                          locations |-> lo]
    BY <1>7, <1>8, <1>9, <1>14, <2>1 DEF ServerMeant
  <2>3. ns2 = ns /\ ix2 = ix /\ si2 = si /\ au2 = au
    BY Zenon, <1>5, <1>6, <2>1
  <2>4. PICK v : v = [ServerMeant(s) EXCEPT !.host = h]
    OBVIOUS
  <2>5. PICK li, aw : li = Amount(si[1]) /\ aw = au[1].word
    OBVIOUS
  <2>6. v = [host |-> h, port |-> PortMeant(ls), names |-> ns, pages |-> ps, limit |-> li, root |-> ro,
             autoindex |-> aw, index |-> ix, locations |-> lo]
    BY <1>3, <2>4, <2>5
  <2>7. Amount(si2[1]) = li /\ au2[1].word = aw
    BY <2>3, <2>5
  <2>8. [v EXCEPT !.port = p] = ServerMeant(c)
    BY <2>2, <2>3, <2>6, <2>7
  <2> QED
    BY <2>4, <2>8
<1>16. ServerMeant(s).host = HostMeant(ls) /\ ServerMeant(s).port = PortMeant(ls)
  BY <1>3
<1> QED
  <2>1. h = HostHeard(ServerMeant(s), x) /\ p = PortHeard(ServerMeant(s), x)
    BY <1>11, <1>16 DEF HostHeard, PortHeard
  <2> QED
    BY <1>1, <1>15, <2>1 DEF Heard

\* What a location is after one directive more: v before, w after.
Returning(v, c, u) == [v EXCEPT !.code = c, !.url = u]
Limiting(v, n)     == [v EXCEPT !.limit = n, !.hasLimit = TRUE]

Grows(v, d, w) ==
    /\ d.name = "root" /\ d.args # <<>> => w = [v EXCEPT !.root = d.args[1].path]
    /\ d.name = "autoindex" => w = [v EXCEPT !.autoindex = d.args[1].word]
    /\ d.name = "index" => w = [v EXCEPT !.index = @ \o d.args]
    /\ d.name = "return" => w = Returning(v, d.args[1].num, d.args[2].path)
    /\ d.name = "client_max_body_size" /\ d.args # <<>> => w = Limiting(v, Amount(d.args[1]))
    /\ d.name = "upload_store" /\ d.args # <<>> => w = [v EXCEPT !.store = d.args[1].path]
    /\ d.name = "allow_methods" => w = [v EXCEPT !.methods = @ \o d.args]
    /\ d.name = "cgi_ext" => w = [v EXCEPT !.ext = d.args[1].word]
    /\ d.name = "cgi_pass" /\ d.args # <<>> => w = [v EXCEPT !.pass = d.args[1].path]

LEMMA LocationMore ==
    ASSUME NEW s \in Seq(Items), NEW d \in Items, NEW path
    PROVE  Grows(LocationMeant(path, s), d, LocationMeant(path, Append(s, d)))
<1>1. PICK c : c = Append(s, d)
  OBVIOUS
<1>2. PICK ro, au, ix, co, ur, hl, li, up, me, ex, pa :
         /\ ro = PathSaid(s, "root")
         /\ au = Said(s, "autoindex", <<Word("inherit")>>)[1].word
         /\ ix = All(s, "index")
         /\ co = Said(s, "return", <<Number(0, ""), Path(<<>>)>>)[1].num
         /\ ur = Said(s, "return", <<Number(0, ""), Path(<<>>)>>)[2].path
         /\ hl = (Said(s, "client_max_body_size", <<>>) # <<>>)
         /\ li = IF Said(s, "client_max_body_size", <<>>) = <<>> THEN 0
            ELSE Amount(Said(s, "client_max_body_size", <<>>)[1])
         /\ up = PathSaid(s, "upload_store")
         /\ me = All(s, "allow_methods")
         /\ ex = Said(s, "cgi_ext", <<Word("")>>)[1].word
         /\ pa = PathSaid(s, "cgi_pass")
  OBVIOUS
<1>3. LocationMeant(path, s) =
          [path |-> path, root |-> ro, autoindex |-> au, index |-> ix, code |-> co, url |-> ur,
                hasLimit |-> hl, limit |-> li, store |-> up, methods |-> me, ext |-> ex, pass |-> pa]
  BY Zenon, <1>2 DEF LocationMeant
<1>4. PICK ro2, au2, ix2, co2, ur2, hl2, li2, up2, me2, ex2, pa2 :
         /\ ro2 = PathSaid(c, "root")
         /\ au2 = Said(c, "autoindex", <<Word("inherit")>>)[1].word
         /\ ix2 = All(c, "index")
         /\ co2 = Said(c, "return", <<Number(0, ""), Path(<<>>)>>)[1].num
         /\ ur2 = Said(c, "return", <<Number(0, ""), Path(<<>>)>>)[2].path
         /\ hl2 = (Said(c, "client_max_body_size", <<>>) # <<>>)
         /\ li2 = IF Said(c, "client_max_body_size", <<>>) = <<>> THEN 0
            ELSE Amount(Said(c, "client_max_body_size", <<>>)[1])
         /\ up2 = PathSaid(c, "upload_store")
         /\ me2 = All(c, "allow_methods")
         /\ ex2 = Said(c, "cgi_ext", <<Word("")>>)[1].word
         /\ pa2 = PathSaid(c, "cgi_pass")
  OBVIOUS
<1>5. LocationMeant(path, c) =
          [path |-> path, root |-> ro2, autoindex |-> au2, index |-> ix2, code |-> co2, url |-> ur2,
                hasLimit |-> hl2, limit |-> li2, store |-> up2, methods |-> me2, ext |-> ex2, pass |-> pa2]
  BY Zenon, <1>4 DEF LocationMeant
<1>6. /\ ix2 = IF d.name = "index" THEN ix \o d.args ELSE ix
      /\ me2 = IF d.name = "allow_methods" THEN me \o d.args ELSE me
  BY <1>1, <1>2, <1>4, AllMore
<1>7. /\ au2 = IF d.name = "autoindex" THEN d.args[1].word ELSE au
      /\ ex2 = IF d.name = "cgi_ext" THEN d.args[1].word ELSE ex
  <2>1. PICK x1, x2 : x1 = <<Word("inherit")>> /\ x2 = <<Word("")>>
    OBVIOUS
  <2>2. au = Said(s, "autoindex", x1)[1].word /\ au2 = Said(c, "autoindex", x1)[1].word
    BY Zenon, <1>2, <1>4, <2>1
  <2>3. ex = Said(s, "cgi_ext", x2)[1].word /\ ex2 = Said(c, "cgi_ext", x2)[1].word
    BY Zenon, <1>2, <1>4, <2>1
  <2>4. Said(c, "autoindex", x1) = IF d.name = "autoindex" THEN d.args ELSE Said(s, "autoindex", x1)
    BY <1>1, SaidMore
  <2>5. Said(c, "cgi_ext", x2) = IF d.name = "cgi_ext" THEN d.args ELSE Said(s, "cgi_ext", x2)
    BY <1>1, SaidMore
  <2> QED
    BY <2>2, <2>3, <2>4, <2>5
<1>8. co2 = (IF d.name = "return" THEN d.args[1].num ELSE co) /\ ur2 = IF d.name = "return" THEN d.args[2].path
      ELSE ur
  <2>1. PICK x : x = <<Number(0, ""), Path(<<>>)>>
    OBVIOUS
  <2>2. Said(c, "return", x) = IF d.name = "return" THEN d.args ELSE Said(s, "return", x)
    BY <1>1, SaidMore
  <2>3. /\ co = Said(s, "return", x)[1].num /\ ur = Said(s, "return", x)[2].path
        /\ co2 = Said(c, "return", x)[1].num /\ ur2 = Said(c, "return", x)[2].path
    BY Zenon, <1>2, <1>4, <2>1
  <2> QED
    BY <2>2, <2>3
<1>9. PICK z, z2 : z = Said(s, "client_max_body_size", <<>>) /\ z2 = Said(c, "client_max_body_size", <<>>)
  OBVIOUS
<1>10. z2 = IF d.name = "client_max_body_size" THEN d.args ELSE z
  BY <1>1, <1>9, SaidMore
<1>11. /\ hl = (z # <<>>) /\ li = (IF z = <<>> THEN 0 ELSE Amount(z[1]))
       /\ hl2 = (z2 # <<>>) /\ li2 = (IF z2 = <<>> THEN 0 ELSE Amount(z2[1]))
  BY Zenon, <1>2, <1>4, <1>9
<1>12. d.name # "client_max_body_size" => hl2 = hl /\ li2 = li
  BY Zenon, <1>10, <1>11
<1>13. (d.name = "root" => d.args # <<>>) => ro2 = IF d.name = "root" THEN d.args[1].path ELSE ro
  BY <1>1, <1>2, <1>4, PathSaidMore
<1>14. (d.name = "upload_store" => d.args # <<>>) => up2 = IF d.name = "upload_store" THEN d.args[1].path ELSE up
  BY <1>1, <1>2, <1>4, PathSaidMore
<1>15. (d.name = "cgi_pass" => d.args # <<>>) => pa2 = IF d.name = "cgi_pass" THEN d.args[1].path ELSE pa
  BY <1>1, <1>2, <1>4, PathSaidMore
<1> HIDE <1>2, <1>4
<1>16. CASE d.name = "root" /\ d.args # <<>>
  <2>1. au2 = au /\ ix2 = ix /\ co2 = co /\ ur2 = ur /\ hl2 = hl /\ li2 = li /\ up2 = up /\ me2 = me
        /\ ex2 = ex /\ pa2 = pa
    BY <1>6, <1>7, <1>8, <1>12, <1>13, <1>14, <1>15, <1>16
  <2>2. ro2 = d.args[1].path
    BY <1>6, <1>7, <1>8, <1>10, <1>11, <1>13, <1>14, <1>15, <1>16
  <2>3. LocationMeant(path, c) = [LocationMeant(path, s) EXCEPT !.root = ro2]
    BY <1>3, <1>5, <2>1
  <2>4. LocationMeant(path, s).root = ro
    BY <1>3
  <2> QED
    BY Zenon, <1>1, <1>16, <2>2, <2>3, <2>4 DEF Grows
<1>17. CASE d.name = "autoindex"
  <2>1. ro2 = ro /\ ix2 = ix /\ co2 = co /\ ur2 = ur /\ hl2 = hl /\ li2 = li /\ up2 = up /\ me2 = me
        /\ ex2 = ex /\ pa2 = pa
    BY <1>6, <1>7, <1>8, <1>12, <1>13, <1>14, <1>15, <1>17
  <2>2. au2 = d.args[1].word
    BY <1>6, <1>7, <1>8, <1>10, <1>11, <1>13, <1>14, <1>15, <1>17
  <2>3. LocationMeant(path, c) = [LocationMeant(path, s) EXCEPT !.autoindex = au2]
    BY <1>3, <1>5, <2>1
  <2>4. LocationMeant(path, s).autoindex = au
    BY <1>3
  <2> QED
    BY Zenon, <1>1, <1>17, <2>2, <2>3, <2>4 DEF Grows
<1>18. CASE d.name = "index"
  <2>1. ro2 = ro /\ au2 = au /\ co2 = co /\ ur2 = ur /\ hl2 = hl /\ li2 = li /\ up2 = up /\ me2 = me
        /\ ex2 = ex /\ pa2 = pa
    BY <1>6, <1>7, <1>8, <1>12, <1>13, <1>14, <1>15, <1>18
  <2>2. ix2 = ix \o d.args
    BY <1>6, <1>7, <1>8, <1>10, <1>11, <1>13, <1>14, <1>15, <1>18
  <2>3. LocationMeant(path, c) = [LocationMeant(path, s) EXCEPT !.index = ix2]
    BY <1>3, <1>5, <2>1
  <2>4. LocationMeant(path, s).index = ix
    BY <1>3
  <2> QED
    BY Zenon, <1>1, <1>18, <2>2, <2>3, <2>4 DEF Grows
<1>19. CASE d.name = "return"
  <2>1. ro2 = ro /\ au2 = au /\ ix2 = ix /\ hl2 = hl /\ li2 = li /\ up2 = up /\ me2 = me /\ ex2 = ex /\ pa2 = pa
    BY <1>6, <1>7, <1>8, <1>12, <1>13, <1>14, <1>15, <1>19
  <2>2. co2 = d.args[1].num /\ ur2 = d.args[2].path
    BY <1>6, <1>7, <1>8, <1>10, <1>11, <1>13, <1>14, <1>15, <1>19
  <2>3. LocationMeant(path, c) = [LocationMeant(path, s) EXCEPT !.code = co2, !.url = ur2]
    <3>1. PICK v : v = [LocationMeant(path, s) EXCEPT !.code = co2]
      OBVIOUS
    <3>2. v = [path |-> path, root |-> ro, autoindex |-> au, index |-> ix, code |-> co2, url |-> ur,
          hasLimit |-> hl, limit |-> li, store |-> up, methods |-> me, ext |-> ex, pass |-> pa]
      BY <1>3, <3>1
    <3>3. LocationMeant(path, c) = [v EXCEPT !.url = ur2]
      BY <1>5, <2>1, <3>2
    <3> QED
      BY <3>1, <3>3
  <2>4. LocationMeant(path, s).code = co
    BY <1>3
  <2> QED
    BY Zenon, <1>1, <1>19, <2>2, <2>3, <2>4 DEF Grows, Returning
<1>20. CASE d.name = "client_max_body_size" /\ d.args # <<>>
  <2>1. ro2 = ro /\ au2 = au /\ ix2 = ix /\ co2 = co /\ ur2 = ur /\ up2 = up /\ me2 = me /\ ex2 = ex /\ pa2 = pa
    BY <1>6, <1>7, <1>8, <1>12, <1>13, <1>14, <1>15, <1>20
  <2>2. li2 = Amount(d.args[1]) /\ hl2 = TRUE
    BY Zenon, <1>6, <1>7, <1>8, <1>10, <1>11, <1>13, <1>14, <1>15, <1>20
  <2>3. LocationMeant(path, c) = [LocationMeant(path, s) EXCEPT !.limit = li2, !.hasLimit = hl2]
    <3>1. PICK v : v = [LocationMeant(path, s) EXCEPT !.limit = li2]
      OBVIOUS
    <3>2. v = [path |-> path, root |-> ro, autoindex |-> au, index |-> ix, code |-> co, url |-> ur,
          hasLimit |-> hl, limit |-> li2, store |-> up, methods |-> me, ext |-> ex, pass |-> pa]
      BY <1>3, <3>1
    <3>3. LocationMeant(path, c) = [v EXCEPT !.hasLimit = hl2]
      BY <1>5, <2>1, <3>2
    <3> QED
      BY <3>1, <3>3
  <2>4. LocationMeant(path, s).limit = li
    BY <1>3
  <2> QED
    BY Zenon, <1>1, <1>20, <2>2, <2>3, <2>4 DEF Grows, Limiting
<1>21. CASE d.name = "upload_store" /\ d.args # <<>>
  <2>1. ro2 = ro /\ au2 = au /\ ix2 = ix /\ co2 = co /\ ur2 = ur /\ hl2 = hl /\ li2 = li /\ me2 = me
        /\ ex2 = ex /\ pa2 = pa
    BY <1>6, <1>7, <1>8, <1>12, <1>13, <1>14, <1>15, <1>21
  <2>2. up2 = d.args[1].path
    BY <1>6, <1>7, <1>8, <1>10, <1>11, <1>13, <1>14, <1>15, <1>21
  <2>3. LocationMeant(path, c) = [LocationMeant(path, s) EXCEPT !.store = up2]
    BY <1>3, <1>5, <2>1
  <2>4. LocationMeant(path, s).store = up
    BY <1>3
  <2> QED
    BY Zenon, <1>1, <1>21, <2>2, <2>3, <2>4 DEF Grows
<1>22. CASE d.name = "allow_methods"
  <2>1. ro2 = ro /\ au2 = au /\ ix2 = ix /\ co2 = co /\ ur2 = ur /\ hl2 = hl /\ li2 = li /\ up2 = up
        /\ ex2 = ex /\ pa2 = pa
    BY <1>6, <1>7, <1>8, <1>12, <1>13, <1>14, <1>15, <1>22
  <2>2. me2 = me \o d.args
    BY <1>6, <1>7, <1>8, <1>10, <1>11, <1>13, <1>14, <1>15, <1>22
  <2>3. LocationMeant(path, c) = [LocationMeant(path, s) EXCEPT !.methods = me2]
    BY <1>3, <1>5, <2>1
  <2>4. LocationMeant(path, s).methods = me
    BY <1>3
  <2> QED
    BY Zenon, <1>1, <1>22, <2>2, <2>3, <2>4 DEF Grows
<1>23. CASE d.name = "cgi_ext"
  <2>1. ro2 = ro /\ au2 = au /\ ix2 = ix /\ co2 = co /\ ur2 = ur /\ hl2 = hl /\ li2 = li /\ up2 = up
        /\ me2 = me /\ pa2 = pa
    BY <1>6, <1>7, <1>8, <1>12, <1>13, <1>14, <1>15, <1>23
  <2>2. ex2 = d.args[1].word
    BY <1>6, <1>7, <1>8, <1>10, <1>11, <1>13, <1>14, <1>15, <1>23
  <2>3. LocationMeant(path, c) = [LocationMeant(path, s) EXCEPT !.ext = ex2]
    BY <1>3, <1>5, <2>1
  <2>4. LocationMeant(path, s).ext = ex
    BY <1>3
  <2> QED
    BY Zenon, <1>1, <1>23, <2>2, <2>3, <2>4 DEF Grows
<1>24. CASE d.name = "cgi_pass" /\ d.args # <<>>
  <2>1. ro2 = ro /\ au2 = au /\ ix2 = ix /\ co2 = co /\ ur2 = ur /\ hl2 = hl /\ li2 = li /\ up2 = up
        /\ me2 = me /\ ex2 = ex
    BY <1>6, <1>7, <1>8, <1>12, <1>13, <1>14, <1>15, <1>24
  <2>2. pa2 = d.args[1].path
    BY <1>6, <1>7, <1>8, <1>10, <1>11, <1>13, <1>14, <1>15, <1>24
  <2>3. LocationMeant(path, c) = [LocationMeant(path, s) EXCEPT !.pass = pa2]
    BY <1>3, <1>5, <2>1
  <2>4. LocationMeant(path, s).pass = pa
    BY <1>3
  <2> QED
    BY Zenon, <1>1, <1>24, <2>2, <2>3, <2>4 DEF Grows
<1> QED
  BY Zenon, <1>1, <1>16, <1>17, <1>18, <1>19, <1>20, <1>21, <1>22, <1>23, <1>24 DEF Grows

\* Where nothing is said, everything is as it is by default.
LEMMA NothingSaid ==
    /\ \A n : All(<<>>, n) = <<>>
    /\ \A n, x : Said(<<>>, n, x) = x
    /\ \A n : PathSaid(<<>>, n) = <<>>
    /\ PagesMeant(<<>>) = <<>> /\ LocationsMeant(<<>>) = <<>>
    /\ HostMeant(<<>>) = "0.0.0.0" /\ PortMeant(<<>>) = 80
<1>1. DOMAIN <<>> = {} /\ Len(<<>>) = 0 /\ 1..0 = {}
  OBVIOUS
<1>2. \A f : DOMAIN f = {} /\ f = [k \in {} |-> f[k]] => f = <<>>
  OBVIOUS
<1>3. ASSUME NEW n PROVE All(<<>>, n) = <<>>
  <2>1. PICK f : f = [k \in DOMAIN <<>> |-> IF <<>>[k].name = n THEN <<>>[k].args ELSE <<>>]
    OBVIOUS
  <2>2. f = <<>>
    BY <1>1, <1>2, <2>1
  <2> QED
    BY Zenon, <2>1, <2>2, FlattenEmpty DEF All
<1>4. ASSUME NEW n, NEW x PROVE Said(<<>>, n, x) = x
  <2>1. {i \in 1..Len(<<>>) : <<>>[i].name = n} = {}
    BY <1>1
  <2> QED
    BY Zenon, <2>1 DEF Said, SelectLastInSeq
<1>5. ASSUME NEW n PROVE PathSaid(<<>>, n) = <<>>
  BY Zenon, <1>4 DEF PathSaid
<1>6. PagesMeant(<<>>) = <<>>
  <2>1. UNION {CodesOf(<<>>[k]) : k \in DOMAIN <<>>} = {}
    BY <1>1
  <2>2. DOMAIN PagesMeant(<<>>) = {} /\ PagesMeant(<<>>) = [k \in {} |-> PagesMeant(<<>>)[k]]
    BY <2>1 DEF PagesMeant
  <2> QED
    BY <1>2, <2>2
<1>7. LocationsMeant(<<>>) = <<>>
  <2>1. PICK f : f = [k \in DOMAIN <<>> |->
        IF <<>>[k].name = "location" THEN <<LocationMeant(<<>>[k].args[1].path, <<>>[k].body)>> ELSE <<>>]
    OBVIOUS
  <2>2. f = <<>>
    BY <1>1, <1>2, <2>1
  <2> QED
    BY Zenon, <2>1, <2>2, FlattenEmpty DEF LocationsMeant
<1>8. HostMeant(<<>>) = "0.0.0.0" /\ PortMeant(<<>>) = 80
  <2>1. {i \in 1..Len(<<>>) : "num" \notin DOMAIN <<>>[i]} = {}
        /\ {i \in 1..Len(<<>>) : "word" \notin DOMAIN <<>>[i]} = {}
    BY <1>1
  <2> QED
    BY Zenon, <2>1 DEF HostMeant, PortMeant, SelectLastInSeq
<1> QED
  BY <1>3, <1>4, <1>5, <1>6, <1>7, <1>8

LEMMA ServerBegins == ServerMeant(<<>>) = NewServer
<1>1. /\ HostMeant(All(<<>>, "listen")) = "0.0.0.0" /\ PortMeant(All(<<>>, "listen")) = 80
      /\ All(<<>>, "server_name") = <<>> /\ PagesMeant(<<>>) = <<>>
      /\ PathSaid(<<>>, "root") = <<>> /\ All(<<>>, "index") = <<>> /\ LocationsMeant(<<>>) = <<>>
  BY NothingSaid
<1>2. Said(<<>>, "client_max_body_size", <<Number(1, "m")>>)[1] = Number(1, "m")
  BY NothingSaid
<1>3. Said(<<>>, "autoindex", <<Word("off")>>)[1].word = "off"
  <2>1. Said(<<>>, "autoindex", <<Word("off")>>) = <<Word("off")>>
    BY Zenon, NothingSaid
  <2> QED
    BY <2>1 DEF Word
<1>4. Amount(Number(1, "m")) = KILO * KILO
  <2>1. Number(1, "m").num = 1 /\ Number(1, "m").unit = "m"
    BY DEF Number
  <2>2. Factor("m") = KILO * KILO
    BY DEF Factor
  <2>3. PICK f : f = KILO * KILO
    OBVIOUS
  <2>4. f \in Nat
    BY <2>3, SizesAssumption
  <2>5. 1 * f = f
    BY <2>4
  <2> QED
    BY <2>1, <2>2, <2>3, <2>5 DEF Amount
<1> QED
  BY Zenon, <1>1, <1>2, <1>3, <1>4 DEF ServerMeant, NewServer

LEMMA LocationBegins == ASSUME NEW path PROVE LocationMeant(path, <<>>) = NewLocation(path)
<1>1. /\ PathSaid(<<>>, "root") = <<>> /\ PathSaid(<<>>, "upload_store") = <<>> /\ PathSaid(<<>>, "cgi_pass") = <<>>
      /\ All(<<>>, "index") = <<>> /\ All(<<>>, "allow_methods") = <<>>
      /\ Said(<<>>, "client_max_body_size", <<>>) = <<>>
  BY NothingSaid
<1>2. PICK x, y, z : x = <<Word("inherit")>> /\ y = <<Word("")>> /\ z = <<Number(0, ""), Path(<<>>)>>
  OBVIOUS
<1>3. x[1].word = "inherit" /\ y[1].word = "" /\ z[1].num = 0 /\ z[2].path = <<>>
  BY <1>2 DEF Word, Number, Path
<1>4. Said(<<>>, "autoindex", x) = x /\ Said(<<>>, "cgi_ext", y) = y /\ Said(<<>>, "return", z) = z
  BY NothingSaid
<1>5. /\ Said(<<>>, "autoindex", <<Word("inherit")>>)[1].word = "inherit"
      /\ Said(<<>>, "cgi_ext", <<Word("")>>)[1].word = ""
      /\ Said(<<>>, "return", <<Number(0, ""), Path(<<>>)>>)[1].num = 0
      /\ Said(<<>>, "return", <<Number(0, ""), Path(<<>>)>>)[2].path = <<>>
  BY Zenon, <1>2, <1>3, <1>4
<1>6. (Said(<<>>, "client_max_body_size", <<>>) # <<>>) = FALSE
  BY <1>1
<1> QED
  BY Zenon, <1>1, <1>5, <1>6 DEF LocationMeant, NewLocation

LEMMA MeantMore ==
    ASSUME NEW t, IsFile(t)
    PROVE  /\ Meant(SubSeq(t, 1, 0)) = <<>> /\ Meant(SubSeq(t, 1, Len(t))) = Meant(t)
           /\ \A k \in 0..(Len(t) - 1) :
                 Meant(SubSeq(t, 1, k + 1)) = Append(Meant(SubSeq(t, 1, k)), ServerMeant(t[k + 1].body))
<1>1. t \in Seq(Blocks(Items)) /\ Len(t) \in Nat
  BY FileIs
<1>2. SubSeq(t, 1, 0) = <<>> /\ SubSeq(t, 1, Len(t)) = t
  BY <1>1, Begun0
<1>3. Meant(<<>>) = <<>>
  <2>1. DOMAIN <<>> = {} /\ \A f : DOMAIN f = {} /\ f = [k \in {} |-> f[k]] => f = <<>>
    OBVIOUS
  <2>2. DOMAIN Meant(<<>>) = {} /\ Meant(<<>>) = [k \in {} |-> Meant(<<>>)[k]]
    BY <2>1 DEF Meant
  <2> QED
    BY <2>1, <2>2
<1>4. ASSUME NEW k \in 0..(Len(t) - 1)
      PROVE  Meant(SubSeq(t, 1, k + 1)) = Append(Meant(SubSeq(t, 1, k)), ServerMeant(t[k + 1].body))
  <2>1. PICK s, x, w : s = SubSeq(t, 1, k) /\ x = t[k + 1] /\ w = SubSeq(t, 1, k + 1)
    OBVIOUS
  <2>2. s \in Seq(Blocks(Items)) /\ Len(s) = k /\ x \in Blocks(Items) /\ w = Append(s, x)
    BY <1>1, <2>1, Shorter
  <2>3. k \in Nat
    BY <1>1
  <2>4. /\ w \in Seq(Blocks(Items)) /\ DOMAIN s = 1..k /\ DOMAIN w = 1..(k + 1)
        /\ w[k + 1] = x /\ \A i \in 1..k : w[i] = s[i]
    BY <2>2, OneLonger
  <2>5. PICK T : T = {ServerMeant(b.body) : b \in Blocks(Items)}
    OBVIOUS
  <2>6. (k + 1 \in 1..(k + 1)) /\ (\A i \in 1..k : i \in 1..(k + 1))
        /\ (\A i \in 1..(k + 1) : i = k + 1 \/ i \in 1..k)
    BY <2>3
  <2>7. PICK a, c, y : a = Meant(s) /\ c = Meant(w) /\ y = ServerMeant(x.body)
    OBVIOUS
  <2>8. a = [i \in 1..k |-> ServerMeant(s[i].body)] /\ c = [i \in 1..(k + 1) |-> ServerMeant(w[i].body)]
    BY <2>4, <2>7 DEF Meant
  <2>9. c[k + 1] = y /\ \A i \in 1..k : c[i] = a[i]
    BY <2>4, <2>6, <2>7, <2>8
  <2>10. y \in T
    BY <2>2, <2>5, <2>7
  <2>11. \A i \in 1..k : a[i] \in T
    <3>1. \A i \in 1..k : s[i] \in Blocks(Items)
      BY <2>2
    <3> QED
      BY <2>5, <2>8, <3>1
  <2>12. a \in Seq(T) /\ Len(a) = k
    <3>1. a = [i \in 1..k |-> a[i]]
      BY <2>8
    <3> QED
      BY <2>3, <2>11, <3>1, SeqMade
  <2>13. \A i \in 1..(k + 1) : c[i] \in T
    BY <2>6, <2>9, <2>10, <2>11
  <2>14. c \in Seq(T) /\ Len(c) = k + 1
    <3>1. PICK r : r = k + 1 /\ r \in Nat
      BY <2>3
    <3>2. c = [i \in 1..r |-> c[i]] /\ \A i \in 1..r : c[i] \in T
      BY <2>8, <2>13, <3>1
    <3> QED
      BY <3>1, <3>2, SeqMade
  <2>15. c = Append(a, y)
    BY <2>9, <2>10, <2>12, <2>14, AppendIs
  <2> QED
    BY <2>1, <2>7, <2>15
<1> QED
  BY Zenon, <1>2, <1>3, <1>4

-----------------------------------------------------------------------------
(* What the parser does with a token *)

LEMMA IsAt ==
    /\ \A p : Is(p, ";") <=> At(p, Ending)
    /\ \A p : Is(p, "}") <=> At(p, Closing)
    /\ \A p : Is(p, "{") <=> At(p, Opening)
    /\ \A p, n : Is(p, n) <=> At(p, Word(n))
BY Zenon DEF Is, At, Opening, Closing, Ending

LEMMA HasArgumentIs == HasArgument <=> pos + 1 <= Len(tokens) /\ ~At(pos + 1, Ending) /\ At(pos + 2, Ending)
BY Zenon, IsAt DEF HasArgument

\* What is done at a directive's name.
Deed(n) ==
    \/ n = "listen" /\ ParseListen
    \/ n = "server_name" /\ ParseServerName
    \/ n = "error_page" /\ ParseErrorPage
    \/ n = "client_max_body_size" /\ ParseClientMaxBodySize
    \/ n = "root" /\ ParseRoot
    \/ n = "autoindex" /\ ParseAutoindex
    \/ n = "index" /\ ParseIndex
    \/ n = "location" /\ BeginLocation
    \/ n = "return" /\ ParseReturn
    \/ n = "upload_store" /\ ParseUploadStore
    \/ n = "allow_methods" /\ ParseAllowMethods
    \/ n \in {"cgi_ext", "cgi_pass"} /\ ParseCgi /\ At(pos, Word(n))

\* What the parser does goes by the token it has come to.
LEMMA ParserSteps ==
    ASSUME ParserNext, block \in {"server", "location"}
    PROVE  \/ Unknown
           \/ At(pos, Closing) /\ (EndOfServer \/ EndOfLocation)
           \/ At(pos, Ending) /\ SkipSemicolon
           \/ \E n \in Names : At(pos, Word(n)) /\ Deed(n)
<1>1. ~CountBraces /\ ~Top
  BY DEF CountBraces, Top
<1>2. EndOfServer \/ EndOfLocation => At(pos, Closing)
  BY Zenon, IsAt DEF EndOfServer, EndOfLocation
<1>3. SkipSemicolon => At(pos, Ending)
  BY Zenon, IsAt DEF SkipSemicolon
<1>4. \A n, bs : Directive(n, bs) => At(pos, Word(n))
  BY Zenon, IsAt DEF Directive
<1>5. ParseListen => "listen" \in Names /\ At(pos, Word("listen")) /\ Deed("listen")
  BY Zenon, <1>4 DEF ParseListen, Deed, Names
<1>6. ParseServerName => "server_name" \in Names /\ At(pos, Word("server_name")) /\ Deed("server_name")
  BY Zenon, <1>4 DEF ParseServerName, Deed, Names
<1>7. ParseErrorPage => "error_page" \in Names /\ At(pos, Word("error_page")) /\ Deed("error_page")
  BY Zenon, <1>4 DEF ParseErrorPage, Deed, Names
<1>8. ParseClientMaxBodySize =>
        "client_max_body_size" \in Names /\ At(pos, Word("client_max_body_size")) /\ Deed("client_max_body_size")
  BY Zenon, <1>4 DEF ParseClientMaxBodySize, Deed, Names
<1>9. ParseRoot => "root" \in Names /\ At(pos, Word("root")) /\ Deed("root")
  BY Zenon, <1>4 DEF ParseRoot, Deed, Names
<1>10. ParseAutoindex => "autoindex" \in Names /\ At(pos, Word("autoindex")) /\ Deed("autoindex")
  BY Zenon, <1>4 DEF ParseAutoindex, Deed, Names
<1>11. ParseIndex => "index" \in Names /\ At(pos, Word("index")) /\ Deed("index")
  BY Zenon, <1>4 DEF ParseIndex, Deed, Names
<1>12. BeginLocation => "location" \in Names /\ At(pos, Word("location")) /\ Deed("location")
  BY Zenon, <1>4 DEF BeginLocation, Deed, Names
<1>13. ParseReturn => "return" \in Names /\ At(pos, Word("return")) /\ Deed("return")
  BY Zenon, <1>4 DEF ParseReturn, Deed, Names
<1>14. ParseUploadStore => "upload_store" \in Names /\ At(pos, Word("upload_store")) /\ Deed("upload_store")
  BY Zenon, <1>4 DEF ParseUploadStore, Deed, Names
<1>15. ParseAllowMethods => "allow_methods" \in Names /\ At(pos, Word("allow_methods")) /\ Deed("allow_methods")
  BY Zenon, <1>4 DEF ParseAllowMethods, Deed, Names
<1>16. ParseCgi => \E n \in {"cgi_ext", "cgi_pass"} : n \in Names /\ At(pos, Word(n)) /\ Deed(n)
  <2> SUFFICES ASSUME ParseCgi PROVE \E n \in {"cgi_ext", "cgi_pass"} : n \in Names /\ At(pos, Word(n)) /\ Deed(n)
    OBVIOUS
  <2>1. PICK n \in {"cgi_ext", "cgi_pass"} : Directive(n, {"location"})
    BY Zenon DEF ParseCgi
  <2>2. n \in Names
    BY <2>1 DEF Names
  <2> QED
    BY Zenon, <1>4, <2>1, <2>2 DEF Deed
<1> QED
  BY Zenon, <1>1, <1>2, <1>3, <1>5, <1>6, <1>7, <1>8, <1>9, <1>10, <1>11, <1>12, <1>13, <1>14, <1>15, <1>16
        DEF ParserNext

LEMMA NoOther == \A p, x, y : At(p, x) /\ At(p, y) => x = y
BY DEF At

\* At a name nothing else is done, and at no name nothing but what a sign asks for.
LEMMA AtName ==
    ASSUME ParserNext, block \in {"server", "location"}, NEW n \in Names, At(pos, Word(n))
    PROVE  Unknown \/ Deed(n)
BY Zenon, ParserSteps, NoOther, SignsDiffer, WordIs

LEMMA AtEnding ==
    ASSUME ParserNext, block \in {"server", "location"}, At(pos, Ending)
    PROVE  Unknown \/ SkipSemicolon
BY Zenon, ParserSteps, NoOther, SignsDiffer

LEMMA AtClosing ==
    ASSUME ParserNext, block \in {"server", "location"}, At(pos, Closing)
    PROVE  Unknown \/ EndOfServer \/ EndOfLocation
BY Zenon, ParserSteps, NoOther, SignsDiffer

LEMMA AtOther ==
    ASSUME ParserNext, block \in {"server", "location"}, NEW x, At(pos, x), x \notin {Closing, Ending},
           \A n \in Names : x # Word(n)
    PROVE  Unknown
BY Zenon, ParserSteps, NoOther

\* A name that the block has is not unknown.
Knows == [server   |-> {"listen", "server_name", "error_page", "client_max_body_size",
                        "root", "autoindex", "index", "location"},
          location |-> {"root", "autoindex", "index", "client_max_body_size", "return",
                        "upload_store", "allow_methods", "cgi_ext", "cgi_pass"}]

LEMMA KnownIs ==
    ASSUME block \in {"server", "location"}
    PROVE  /\ Unknown => ~At(pos, Closing) /\ ~At(pos, Ending)
           /\ \A n \in Knows[block] : Unknown => ~At(pos, Word(n))
<1>1. \A x, y : [server |-> x, location |-> y]["server"] = x /\ [server |-> x, location |-> y]["location"] = y
  OBVIOUS
<1>2. /\ "}" \in Known[block] /\ ";" \in Known[block]
      /\ \A n \in Knows[block] : n \in Known[block]
  <2>1. CASE block = "server"
    BY Zenon, <1>1, <2>1 DEF Known, Knows
  <2>2. CASE block = "location"
    BY Zenon, <1>1, <2>2 DEF Known, Knows
  <2> QED
    BY Zenon, <2>1, <2>2
<1> QED
  BY Zenon, <1>2, IsAt DEF Unknown

\* Before the missing token everything is in its place, behind it one place further to the front.
LEMMA Present ==
    ASSUME tokens \in Seq(Token), NEW m \in Seq(Marks), NEW q \in 1..(Len(m) + 1), Lacks(m, q),
           NEW r \in 1..Len(m)
    PROVE  /\ r < q => At(r, TokenAt(m, r))
           /\ q <= r /\ r < Len(m) => At(r, TokenAt(m, r + 1))
<1>1. PICK n, l : n = Len(tokens) /\ l = Len(m) /\ n \in Nat /\ l \in Nat
  <2>1. Len(tokens) \in Nat /\ Len(m) \in Nat
    OBVIOUS
  <2> QED
    BY <2>1
<1>2. n = (IF q <= l THEN l - 1 ELSE l) /\ \A p \in 1..n : tokens[p] = TokenAt(m, IF p < q THEN p ELSE p + 1)
  BY <1>1 DEF Lacks
<1>3. ASSUME r < q PROVE r \in 1..n /\ (IF r < q THEN r ELSE r + 1) = r
  BY <1>1, <1>2, <1>3
<1>4. ASSUME q <= r, r < l PROVE r \in 1..n /\ (IF r < q THEN r ELSE r + 1) = r + 1
  BY <1>1, <1>2, <1>4
<1>5. \A p \in 1..n : p <= Len(tokens)
  BY <1>1
<1> QED
  BY <1>1, <1>2, <1>3, <1>4, <1>5 DEF At

\* Where the next ";" is.
LEMMA SemicolonSeen ==
    ASSUME NEW p
    PROVE  Semicolon(p) = LET I == {i \in p..Len(tokens) : tokens[i] = Ending} IN IF I # {} THEN Min(I) ELSE 0
BY Zenon DEF Semicolon, SelectInSubSeq, Ending

LEMMA NextEnding ==
    ASSUME tokens \in Seq(Token), NEW p \in Nat \ {0}, Semicolon(p) # 0
    PROVE  /\ Semicolon(p) \in p..Len(tokens) /\ At(Semicolon(p), Ending)
           /\ \A i \in p..(Semicolon(p) - 1) : ~At(i, Ending)
<1>1. PICK I, n : I = {i \in p..Len(tokens) : tokens[i] = Ending} /\ n = Len(tokens)
  OBVIOUS
<1>2. n \in Nat
  BY <1>1
<1>3. Semicolon(p) = IF I # {} THEN Min(I) ELSE 0
  BY <1>1, SemicolonSeen
<1>4. I # {} /\ I \subseteq Nat
  <2>1. \A i \in p..n : i \in Nat
    BY <1>2
  <2> QED
    BY <1>1, <1>3, <2>1
<1>5. Min(I) \in I /\ \A x \in I : Min(I) <= x
  BY <1>4, LeastOf
<1>6. PICK k : k = Semicolon(p) /\ k \in I /\ k \in p..n /\ \A x \in I : k <= x
  BY <1>1, <1>3, <1>4, <1>5
<1>7. ASSUME NEW i \in p..(k - 1), At(i, Ending) PROVE FALSE
  <2>1. i \in p..n
    BY <1>2, <1>6, <1>7
  <2>2. i \in I
    BY <1>1, <1>7, <2>1 DEF At
  <2> QED
    BY <1>2, <1>6, <1>7, <2>2
<1>8. k <= n
  BY <1>2, <1>6
<1> QED
  BY <1>1, <1>6, <1>7, <1>8 DEF At

LEMMA FirstEnding ==
    ASSUME tokens \in Seq(Token), NEW p \in Nat \ {0}, NEW k \in Nat, p <= k, At(k, Ending),
           \A i \in p..(k - 1) : ~At(i, Ending)
    PROVE  Semicolon(p) = k
<1>1. PICK I, n : I = {i \in p..Len(tokens) : tokens[i] = Ending} /\ n = Len(tokens)
  OBVIOUS
<1>2. n \in Nat
  BY <1>1
<1>3. Semicolon(p) = IF I # {} THEN Min(I) ELSE 0
  BY <1>1, SemicolonSeen
<1>4. k \in I
  <2>1. k \in p..n /\ tokens[k] = Ending
    BY <1>1, <1>2 DEF At
  <2> QED
    BY <1>1, <2>1
<1>5. k # 0
  OBVIOUS
<1>6. Semicolon(p) # 0
  <2>1. I \subseteq Nat /\ I # {}
    <3>1. \A i \in p..n : i \in Nat
      BY <1>2
    <3> QED
      BY <1>1, <1>4, <3>1
  <2>2. Min(I) \in I
    BY <2>1, LeastOf
  <2>3. \A i \in I : i # 0
    BY <1>1, <1>2
  <2> QED
    BY <1>3, <2>1, <2>2, <2>3
<1>7. PICK s : s = Semicolon(p)
  OBVIOUS
<1>8. s \in p..n /\ At(s, Ending) /\ \A i \in p..(s - 1) : ~At(i, Ending)
  BY <1>1, <1>6, <1>7, NextEnding
<1>9. k <= n
  BY <1>1 DEF At
<1>10. ~(s < k)
  <2>1. s < k => s \in p..(k - 1)
    BY <1>2, <1>8
  <2> QED
    BY <1>8, <2>1
<1>11. ~(k < s)
  <2>1. k < s => k \in p..(s - 1)
    BY <1>2, <1>8
  <2> QED
    BY <1>8, <2>1
<1> QED
  BY <1>2, <1>7, <1>8, <1>10, <1>11

-----------------------------------------------------------------------------
(* A statement of which a token is missing *)

\* The directives of one argument, and the methods.
Singles == {"listen", "client_max_body_size", "root", "autoindex", "upload_store", "cgi_ext", "cgi_pass"}
MethodWords == {Word("GET"), Word("POST"), Word("DELETE")}

\* How a directive that is not refused moves the parser on.
Moves(n) ==
    \/ n \in Singles /\ HasArgument /\ pos' = pos + 2
    \/ n \in Lists /\ Semicolon(pos + 1) # 0 /\ pos' = Semicolon(pos + 1)
    \/ /\ n = "allow_methods" /\ Semicolon(pos + 1) > pos + 1 /\ Range(List) \subseteq MethodWords
       /\ pos' = Semicolon(pos + 1)
    \/ /\ n = "return" /\ IsDigits(Arg) /\ ~At(pos + 2, Ending) /\ At(pos + 3, Ending)
       /\ pos' = pos + 3

\* Nothing has changed but where the parser is and what it has read in this block.
Remains == tokens' = tokens /\ block' = block /\ servers' = servers /\ verdict' = verdict

Refuses == verdict' = "rejected" /\ tokens' = tokens

LEMMA ThrowRefuses == Throw => Refuses
BY DEF Throw, Refuses

\* It refuses the directive, or passes over it in one of four ways.
LEMMA DeedMoves ==
    ASSUME NEW n \in Names, n # "location", Deed(n)
    PROVE  Refuses \/ (Remains /\ Moves(n))
<1>1. \A p : Goto(p) => Remains /\ pos' = p
  BY DEF Goto, Remains
<1>2. CASE n = "listen"
  <2>1. ParseListen => Throw \/ (HasArgument /\ Goto(pos + 2))
    BY Zenon DEF ParseListen
  <2>2. ParseListen
    BY <1>2 DEF Deed
  <2> QED
    BY Zenon, <1>1, <1>2, <2>1, <2>2, ThrowRefuses DEF Moves, Singles
<1>3. CASE n = "server_name"
  <2>1. ParseServerName => Throw \/ (Semicolon(pos + 1) # 0 /\ Goto(Semicolon(pos + 1)))
    BY Zenon DEF ParseServerName
  <2>2. ParseServerName
    BY <1>3 DEF Deed
  <2> QED
    BY Zenon, <1>1, <1>3, <2>1, <2>2, ThrowRefuses DEF Moves, Lists
<1>4. CASE n = "error_page"
  <2>1. ParseErrorPage => Throw \/ (Semicolon(pos + 1) # 0 /\ Goto(Semicolon(pos + 1)))
    BY Zenon DEF ParseErrorPage
  <2>2. ParseErrorPage
    BY <1>4 DEF Deed
  <2> QED
    BY Zenon, <1>1, <1>4, <2>1, <2>2, ThrowRefuses DEF Moves, Lists
<1>5. CASE n = "index"
  <2>1. ParseIndex => Throw \/ (Semicolon(pos + 1) # 0 /\ Goto(Semicolon(pos + 1)))
    BY Zenon DEF ParseIndex
  <2>2. ParseIndex
    BY <1>5 DEF Deed
  <2> QED
    BY Zenon, <1>1, <1>5, <2>1, <2>2, ThrowRefuses DEF Moves, Lists
<1>6. CASE n = "client_max_body_size"
  <2>1. ParseClientMaxBodySize => Throw \/ (HasArgument /\ Goto(pos + 2))
    BY Zenon DEF ParseClientMaxBodySize
  <2>2. ParseClientMaxBodySize
    BY <1>6 DEF Deed
  <2> QED
    BY Zenon, <1>1, <1>6, <2>1, <2>2, ThrowRefuses DEF Moves, Singles
<1>7. CASE n = "root"
  <2>1. ParseRoot => Throw \/ (HasArgument /\ Goto(pos + 2))
    BY Zenon DEF ParseRoot
  <2>2. ParseRoot
    BY <1>7 DEF Deed
  <2> QED
    BY Zenon, <1>1, <1>7, <2>1, <2>2, ThrowRefuses DEF Moves, Singles
<1>8. CASE n = "autoindex"
  <2>1. ParseAutoindex => Throw \/ (HasArgument /\ Goto(pos + 2))
    BY Zenon DEF ParseAutoindex
  <2>2. ParseAutoindex
    BY <1>8 DEF Deed
  <2> QED
    BY Zenon, <1>1, <1>8, <2>1, <2>2, ThrowRefuses DEF Moves, Singles
<1>9. CASE n = "upload_store"
  <2>1. ParseUploadStore => Throw \/ (HasArgument /\ Goto(pos + 2))
    BY Zenon DEF ParseUploadStore
  <2>2. ParseUploadStore
    BY <1>9 DEF Deed
  <2> QED
    BY Zenon, <1>1, <1>9, <2>1, <2>2, ThrowRefuses DEF Moves, Singles
<1>10. CASE n \in {"cgi_ext", "cgi_pass"}
  <2>1. ParseCgi => Throw \/ (HasArgument /\ Goto(pos + 2))
    BY Zenon DEF ParseCgi
  <2>2. ParseCgi
    BY <1>10 DEF Deed
  <2> QED
    BY Zenon, <1>1, <1>10, <2>1, <2>2, ThrowRefuses DEF Moves, Singles
<1>11. CASE n = "allow_methods"
  <2>1. ParseAllowMethods => \/ Throw
                             \/ /\ Semicolon(pos + 1) > pos + 1 /\ Range(List) \subseteq MethodWords
                                /\ Goto(Semicolon(pos + 1))
    BY Zenon DEF ParseAllowMethods, MethodWords
  <2>2. ParseAllowMethods
    BY <1>11 DEF Deed
  <2> QED
    BY Zenon, <1>1, <1>11, <2>1, <2>2, ThrowRefuses DEF Moves
<1>12. CASE n = "return"
  <2>1. ParseReturn => \/ Throw
                       \/ IsDigits(Arg) /\ ~At(pos + 2, Ending) /\ At(pos + 3, Ending) /\ Goto(pos + 3)
    BY Zenon, IsAt DEF ParseReturn
  <2>2. ParseReturn
    BY <1>12 DEF Deed
  <2> QED
    BY Zenon, <1>1, <1>12, <2>1, <2>2, ThrowRefuses DEF Moves
<1> QED
  BY <1>2, <1>3, <1>4, <1>5, <1>6, <1>7, <1>8, <1>9, <1>10, <1>11, <1>12 DEF Names

\* What a statement looks like to the parser.
Shaped(d) ==
    /\ d.name \in Names /\ d.args \in Seq(Plain)
    /\ \/ d.name \in Singles /\ Len(d.args) = 1
       \/ d.name \in Lists
       \/ d.name = "allow_methods" /\ Len(d.args) > 0
       \/ d.name = "return" /\ Len(d.args) = 2 /\ ~IsDigits(d.args[2])

LEMMA ShapedIs ==
    ASSUME NEW d \in Statements, OfServer(d) \/ OfLocation(d)
    PROVE  Shaped(d) /\ d.name # "location"
<1>1. d.args \in Seq(Plain)
  BY StatementIs
<1>2. d.name \in Names
  BY NameKnown
<1>3. CASE OfEither(d)
  <2>1. d.args \in {<<Word("on")>>, <<Word("off")>>} => Len(d.args) = 1
    BY <1>1
  <2> QED
    BY <1>1, <1>2, <1>3, <2>1 DEF OfEither, One, Shaped, Singles, Lists
<1>4. CASE OfServer(d) /\ ~OfEither(d)
  BY <1>1, <1>2, <1>4 DEF OfServer, One, Shaped, Singles, Lists
<1>5. CASE OfLocation(d) /\ ~OfEither(d)
  <2>1. CASE d.name = "return" /\ Len(d.args) = 2 /\ IsDigits(d.args[1]) /\ "path" \in DOMAIN d.args[2]
    <3>1. d.args[2] \in Plain
      BY <1>1, <2>1
    <3>2. d.args[2] \in Token
      BY <3>1 DEF Plain
    <3>3. "num" \notin DOMAIN d.args[2]
      BY <2>1, <3>2 DEF Token
    <3> QED
      BY <1>1, <1>2, <2>1, <3>3 DEF Shaped, IsDigits
  <2>2. CASE d.name = "allow_methods" /\ d.args # <<>>
    <3>1. Len(d.args) > 0
      BY <1>1, <2>2
    <3> QED
      BY <1>1, <1>2, <2>2, <3>1 DEF Shaped
  <2>3. CASE \/ One(d, "upload_store", {"path"}) \/ One(d, "cgi_ext", {"word"}) \/ One(d, "cgi_pass", {"path"})
    BY <1>1, <1>2, <2>3 DEF One, Shaped, Singles
  <2> QED
    BY <1>5, <2>1, <2>2, <2>3 DEF OfLocation
<1> QED
  BY <1>3, <1>4, <1>5

\* The parser has come to p, or to the ";" before it, and no token before is missing.
Due(p, q) == p <= q /\ (pos = p \/ (pos + 1 = p /\ At(pos, Ending)))

\* The statement d is what the tokens from p on say.
Reads(p, d) ==
    /\ At(p, Word(d.name)) /\ At(p + Len(d.args) + 1, Ending)
    /\ \A i \in 1..Len(d.args) : At(p + i, d.args[i])

LEMMA SkipRemains == SkipSemicolon => Remains /\ pos' = pos + 1
BY DEF SkipSemicolon, Goto, Remains

LEMMA OpenersDiffer ==
    \A x \in Openers : x # Ending /\ x \notin MethodWords
<1>1. \A n \in Names : n \notin {"GET", "POST", "DELETE"}
  BY DEF Names
<1>2. \A n \in Names : Word(n) # Word("GET") /\ Word(n) # Word("POST") /\ Word(n) # Word("DELETE")
  BY Zenon, <1>1, WordIs
<1>3. \A x \in {"GET", "POST", "DELETE"} : x # "}"
  BY Zenon
<1>4. Closing # Word("GET") /\ Closing # Word("POST") /\ Closing # Word("DELETE")
  BY Zenon, <1>3, WordIs DEF Closing
<1> QED
  BY Zenon, <1>2, <1>4, SignsDiffer DEF Openers, MethodWords

\* The name is missing.
LEMMA NameLacks ==
    ASSUME ParserNext, block \in {"server", "location"},
           NEW x \in Plain, x \notin {Word(n) : n \in Names}, At(pos, x)
    PROVE  Refuses
<1>1. x \notin {Opening, Closing, Ending}
  BY SignsDiffer
<1>2. \A n \in Names : x # Word(n)
  OBVIOUS
<1>3. Unknown
  BY <1>1, <1>2, AtOther
<1> QED
  BY <1>3, ThrowRefuses DEF Unknown

LEMMA MoreSums == \A o, a \in Nat : o + 1 + a + 1 = o + a + 2 /\ o + a + 2 + 1 = o + a + 3 /\ o + 1 \in Nat \ {0}
OBVIOUS

\* A statement that is all there is read as such.
LEMMA WholeReads ==
    ASSUME tokens \in Seq(Token), NEW m \in Seq(Marks), NEW q \in 1..(Len(m) + 1), Lacks(m, q),
           NEW o \in Nat, NEW d, d.args \in Seq(Plain), StatedAt(m, o, d), o + Len(d.args) + 2 < q
    PROVE  Reads(o + 1, d)
<1>1. PICK a, l : a = Len(d.args) /\ l = Len(m) /\ a \in Nat /\ l \in Nat
  <2>1. Len(d.args) \in Nat /\ Len(m) \in Nat
    OBVIOUS
  <2> QED
    BY <2>1
<1>2. /\ o + a + 2 <= l /\ TokenAt(m, o + 1) = Word(d.name) /\ TokenAt(m, o + a + 2) = Ending
      /\ \A i \in 1..a : TokenAt(m, o + 1 + i) = d.args[i]
  BY <1>1 DEF StatedAt
<1>3. \A r \in 1..l : r < q => At(r, TokenAt(m, r))
  BY <1>1, Present
<1>9. q \in Nat /\ o + a + 2 < q /\ o + a + 2 \in Nat /\ o + 1 \in Nat
  BY <1>1
<1>4. o + 1 \in 1..l /\ o + 1 < q /\ o + a + 2 \in 1..l /\ o + a + 2 < q
  BY <1>1, <1>2, <1>9
<1>5. At(o + 1, Word(d.name)) /\ At(o + a + 2, Ending)
  BY <1>2, <1>3, <1>4
<1>6. ASSUME NEW i \in 1..a PROVE At(o + 1 + i, d.args[i])
  <2>1. PICK r : r = o + 1 + i /\ r \in 1..l /\ r < q
    <3>1. i \in Nat /\ 1 <= i /\ i <= a /\ o + 1 + i \in Nat
      BY <1>1
    <3>2. o + 1 + i \in 1..l /\ o + 1 + i < o + a + 2
      BY Zenon, <1>1, <1>2, <3>1, Within
    <3>3. o + 1 + i < q
      BY Zenon, <1>9, <3>1, <3>2, Lower
    <3> QED
      BY Zenon, <3>2, <3>3
  <2>2. At(r, TokenAt(m, r)) /\ TokenAt(m, r) = d.args[i]
    BY <1>2, <1>3, <2>1
  <2> QED
    BY Zenon, <2>1, <2>2
<1>7. o + 1 + a + 1 = o + a + 2
  BY Zenon, <1>1, MoreSums
<1> QED
  BY <1>1, <1>5, <1>6, <1>7 DEF Reads

\* A list ends where it should.
LEMMA ListEnds ==
    ASSUME tokens \in Seq(Token), pos \in Nat \ {0}, NEW d, d.args \in Seq(Plain), Reads(pos, d)
    PROVE  /\ Semicolon(pos + 1) = pos + Len(d.args) + 1 /\ List = d.args
<1>1. PICK a, n : a = Len(d.args) /\ n = Len(tokens) /\ a \in Nat /\ n \in Nat
  <2>1. Len(d.args) \in Nat /\ Len(tokens) \in Nat
    OBVIOUS
  <2> QED
    BY <2>1
<1>2. At(pos + a + 1, Ending) /\ \A i \in 1..a : At(pos + i, d.args[i])
  BY <1>1 DEF Reads
<1>3. \A i \in 1..a : d.args[i] \in Plain
  BY <1>1
<1>4. ASSUME NEW j \in (pos + 1)..(pos + a) PROVE ~At(j, Ending)
  <2>1. PICK i : i = j - pos /\ i \in 1..a /\ pos + i = j
    BY <1>1
  <2> QED
    BY <1>2, <1>3, <2>1, NoOther, SignsDiffer
<1>5. Semicolon(pos + 1) = pos + a + 1
  <2>1. PICK k : k = pos + a + 1 /\ k \in Nat /\ pos + 1 <= k /\ pos + 1 \in Nat \ {0} /\ k - 1 = pos + a
    BY <1>1
  <2>2. \A i \in (pos + 1)..(k - 1) : ~At(i, Ending)
    BY <1>4, <2>1
  <2>3. At(k, Ending)
    BY <1>2, <2>1
  <2> QED
    BY <2>1, <2>2, <2>3, FirstEnding
<1>6. List = d.args
  <2>1. PICK s : s = SubSeq(tokens, pos + 1, pos + a)
    OBVIOUS
  <2>2. PICK k : k = pos + a + 1 /\ k - 1 = pos + a /\ Semicolon(pos + 1) = k
    BY <1>1, <1>5
  <2>3. List = s
    BY <2>1, <2>2 DEF List
  <2>4. pos + a <= n
    <3>1. pos + a + 1 <= n
      BY <1>1, <1>2 DEF At
    <3> QED
      BY <1>1, <3>1
  <2>5. s \in Seq(Token) /\ Len(s) = a /\ \A i \in 1..a : s[i] = tokens[pos + i]
    <3>1. pos + a - (pos + 1) + 1 = a /\ \A i \in 1..a : pos + 1 + i - 1 = pos + i
      BY <1>1
    <3> QED
      BY <1>1, <2>1, <2>4, <3>1
  <2>6. \A i \in 1..a : s[i] = d.args[i]
    BY <1>2, <2>5 DEF At
  <2>7. d.args \in Seq(Token)
    <3>1. Plain \subseteq Token
      BY DEF Plain
    <3> QED
      BY <3>1, MoreToHold
  <2> QED
    BY <1>1, <2>3, <2>5, <2>6, <2>7, SeqEqual
<1> QED
  BY <1>1, <1>5, <1>6

\* The argument, or the ";" behind it.
LEMMA SingleLacks ==
    ASSUME tokens \in Seq(Token), NEW m \in Seq(Marks), NEW q \in 1..(Len(m) + 1), Lacks(m, q),
           NEW o \in Nat, NEW d, d.args \in Seq(Plain), StatedAt(m, o, d), Len(d.args) = 1,
           o + 4 <= Len(m), TokenAt(m, o + 4) \in Openers, pos = o + 1, o + 1 < q, HasArgument
    PROVE  o + 3 < q
<1>1. PICK l : l = Len(m) /\ l \in Nat
  <2>1. Len(m) \in Nat
    OBVIOUS
  <2> QED
    BY <2>1
<1>2. TokenAt(m, o + 3) = Ending
  BY DEF StatedAt
<1>3. \A r \in 1..l : q <= r /\ r < l => At(r, TokenAt(m, r + 1))
  BY <1>1, Present
<1>4. ~At(o + 2, Ending) /\ At(o + 3, Ending)
  <2>1. pos + 1 = o + 2 /\ pos + 2 = o + 3
    OBVIOUS
  <2> QED
    BY <2>1, HasArgumentIs
<1>5. ASSUME q = o + 2 PROVE FALSE
  <2>1. o + 2 \in 1..l /\ o + 2 < l /\ o + 2 + 1 = o + 3 /\ q <= o + 2
    BY <1>1, <1>5
  <2>2. At(o + 2, TokenAt(m, o + 2 + 1))
    BY <1>3, <2>1
  <2> QED
    BY <1>2, <1>4, <2>1, <2>2
<1>6. ASSUME q = o + 3 PROVE FALSE
  <2>1. o + 3 \in 1..l /\ o + 3 < l /\ o + 3 + 1 = o + 4 /\ q <= o + 3
    BY <1>1, <1>6
  <2>2. At(o + 3, TokenAt(m, o + 3 + 1))
    BY <1>3, <2>1
  <2> QED
    BY <1>4, <2>1, <2>2, NoOther, OpenersDiffer
<1>7. q \in Nat
  BY <1>1
<1> QED
  BY <1>5, <1>6, <1>7

LEMMA Places ==
    /\ \A o, a, k \in Nat : o + 1 < k /\ k < o + a + 2 => k - o - 1 \in 1..a /\ o + 1 + (k - o - 1) = k
    /\ \A o, a, k \in Nat : ~(o + a + 2 < k) /\ k # o + a + 2 => k < o + a + 2
    /\ \A o, a, l \in Nat : o + a + 3 <= l => o + a + 2 \in 1..l /\ o + a + 2 < l /\ o + a + 2 + 1 = o + a + 3
    /\ \A o, a, k \in Nat : k > o + a + 2 =>
          a + 1 \in 1..(k - 1 - (o + 2) + 1) /\ o + 2 + (a + 1) - 1 = o + a + 2
OBVIOUS

\* The path to return, the code, or the ";".
LEMMA ReturnLacks ==
    ASSUME tokens \in Seq(Token), NEW m \in Seq(Marks), NEW q \in 1..(Len(m) + 1), Lacks(m, q),
           NEW o \in Nat, NEW d, d.args \in Seq(Plain), StatedAt(m, o, d), Len(d.args) = 2,
           ~IsDigits(d.args[2]), o + 5 <= Len(m), TokenAt(m, o + 5) \in Openers, pos = o + 1, o + 1 < q,
           IsDigits(Arg), ~At(pos + 2, Ending), At(pos + 3, Ending)
    PROVE  o + 4 < q
<1>1. PICK l : l = Len(m) /\ l \in Nat
  <2>1. Len(m) \in Nat
    OBVIOUS
  <2> QED
    BY <2>1
<1>2. TokenAt(m, o + 4) = Ending /\ TokenAt(m, o + 3) = d.args[2]
  <2>1. 2 \in 1..Len(d.args) /\ o + Len(d.args) + 2 = o + 4 /\ o + 1 + 2 = o + 3
    OBVIOUS
  <2> QED
    BY <2>1 DEF StatedAt
<1>3. \A r \in 1..l : q <= r /\ r < l => At(r, TokenAt(m, r + 1))
  BY <1>1, Present
<1>4. ~At(o + 3, Ending) /\ At(o + 4, Ending) /\ Arg = tokens[o + 2]
  <2>1. pos + 1 = o + 2 /\ pos + 2 = o + 3 /\ pos + 3 = o + 4
    OBVIOUS
  <2> QED
    BY <2>1 DEF Arg
<1>5. ASSUME q = o + 2 PROVE FALSE
  <2>1. o + 2 \in 1..l /\ o + 2 < l /\ o + 2 + 1 = o + 3 /\ q <= o + 2
    BY <1>1, <1>5
  <2>2. At(o + 2, TokenAt(m, o + 2 + 1))
    BY <1>3, <2>1
  <2>3. tokens[o + 2] = d.args[2]
    BY <1>2, <2>1, <2>2 DEF At
  <2> QED
    BY <1>4, <2>3
<1>6. ASSUME q = o + 3 PROVE FALSE
  <2>1. o + 3 \in 1..l /\ o + 3 < l /\ o + 3 + 1 = o + 4 /\ q <= o + 3
    BY <1>1, <1>6
  <2>2. At(o + 3, TokenAt(m, o + 3 + 1))
    BY <1>3, <2>1
  <2> QED
    BY <1>2, <1>4, <2>1, <2>2
<1>7. ASSUME q = o + 4 PROVE FALSE
  <2>1. o + 4 \in 1..l /\ o + 4 < l /\ o + 4 + 1 = o + 5 /\ q <= o + 4
    BY <1>1, <1>7
  <2>2. At(o + 4, TokenAt(m, o + 4 + 1))
    BY <1>3, <2>1
  <2> QED
    BY <1>4, <2>1, <2>2, NoOther, OpenersDiffer
<1>8. q \in Nat
  BY <1>1
<1> QED
  BY <1>5, <1>6, <1>7, <1>8

\* The only method, or the ";": what follows is no method.
LEMMA MethodsLack ==
    ASSUME tokens \in Seq(Token), NEW m \in Seq(Marks), NEW q \in 1..(Len(m) + 1), Lacks(m, q),
           q <= Len(m) => ~SpareAt(m, q),
           NEW o \in Nat, NEW d, d.args \in Seq(Plain), StatedAt(m, o, d), d.name = "allow_methods",
           Len(d.args) > 0, o + Len(d.args) + 3 <= Len(m), TokenAt(m, o + Len(d.args) + 3) \in Openers,
           pos = o + 1, o + 1 < q, Semicolon(pos + 1) > pos + 1, Range(List) \subseteq MethodWords
    PROVE  o + Len(d.args) + 2 < q
<1>1. PICK a, l : a = Len(d.args) /\ l = Len(m) /\ a \in Nat /\ l \in Nat /\ o + a + 3 <= l /\ a > 0
  <2>1. Len(d.args) \in Nat /\ Len(m) \in Nat
    OBVIOUS
  <2> QED
    BY <2>1
<1>2. PICK n, k : n = Len(tokens) /\ k = Semicolon(pos + 1) /\ n \in Nat
  <2>1. Len(tokens) \in Nat
    OBVIOUS
  <2> QED
    BY <2>1
<1>3. /\ TokenAt(m, o + a + 2) = Ending /\ \A i \in 1..a : TokenAt(m, o + 1 + i) = d.args[i]
      /\ \A i \in 1..a : ~SpareAt(m, o + 1 + i) => a = 1
  BY <1>1 DEF StatedAt
<1>4. \A r \in 1..l : (r < q => At(r, TokenAt(m, r))) /\ (q <= r /\ r < l => At(r, TokenAt(m, r + 1)))
  BY <1>1, Present
<1>5. pos + 1 = o + 2 /\ o + 2 \in Nat \ {0}
  OBVIOUS
<1>6. k \in (o + 2)..n /\ k > o + 2 /\ At(k, Ending) /\ ~At(o + 2, Ending)
  <2>1. Semicolon(o + 2) = k
    BY <1>2, <1>5
  <2>2. k > o + 2
    BY <1>2, <1>5
  <2>3. k # 0
    <3>1. k = 0 => ~(k > o + 2)
      OBVIOUS
    <3> QED
      BY <2>2, <3>1
  <2>4. k \in (o + 2)..n /\ At(k, Ending) /\ \A i \in (o + 2)..(k - 1) : ~At(i, Ending)
    BY <1>2, <1>5, <2>1, <2>3, NextEnding
  <2>5. o + 2 \in (o + 2)..(k - 1)
    BY <1>2, <2>2, <2>4
  <2> QED
    BY <2>2, <2>4, <2>5
<1>7. ASSUME NEW i \in 1..a, q = o + 1 + i PROVE FALSE
  <2>1. ~SpareAt(m, q)
    BY <1>1, <1>7
  <2>2. a = 1
    BY <1>3, <1>7, <2>1
  <2>3. o + 2 \in 1..l /\ o + 2 < l /\ q <= o + 2 /\ o + 2 + 1 = o + a + 2
    BY <1>1, <1>7, <2>2
  <2>4. At(o + 2, TokenAt(m, o + 2 + 1))
    BY <1>4, <2>3
  <2> QED
    BY <1>3, <1>6, <2>3, <2>4
<1>8. ASSUME q = o + a + 2 PROVE FALSE
  <2>1. PICK r : r = o + a + 2 /\ r \in 1..l /\ r < l /\ q <= r /\ r + 1 = o + a + 3
    <3>1. o + a + 2 \in 1..l /\ o + a + 2 < l /\ o + a + 2 + 1 = o + a + 3
      BY <1>1, Places
    <3> QED
      BY <1>8, <3>1
  <2>2. PICK x : x = TokenAt(m, o + a + 3) /\ x \in Openers
    BY <1>1
  <2>3. At(r, x)
    BY <1>4, <2>1, <2>2
  <2>4. ~At(r, Ending)
    BY <2>2, <2>3, NoOther, OpenersDiffer
  <2>5. ASSUME NEW i \in 1..a PROVE ~At(o + 1 + i, Ending)
    <3>1. PICK s : s = o + 1 + i /\ s \in 1..l /\ s < q
      <4>1. i \in Nat /\ 1 <= i /\ i <= a /\ o + a + 2 <= l
        BY <1>1
      <4>2. o + 1 + i \in 1..l /\ o + 1 + i < o + a + 2
        BY Zenon, <1>1, <4>1, Within
      <4> QED
        BY Zenon, <1>8, <4>2
    <3>2. At(s, d.args[i])
      BY <1>3, <1>4, <3>1
    <3>3. d.args[i] \in Plain
      BY <1>1
    <3>4. ~At(s, Ending)
      BY <3>2, <3>3, NoOther, SignsDiffer
    <3> QED
      BY <3>1, <3>4
  <2>6. k > r
    <3>1. ASSUME k < r PROVE FALSE
      <4>1. k \in Nat /\ o + 1 < k /\ k < o + a + 2
        BY <1>2, <1>6, <2>1, <3>1
      <4>2. PICK i : i = k - o - 1 /\ i \in 1..a /\ o + 1 + i = k
        BY <1>1, <4>1, Places
      <4> QED
        BY Zenon, <1>6, <2>5, <4>2
    <3>2. k # r
      BY <1>6, <2>4
    <3>3. k \in Nat /\ r \in Nat
      BY <1>1, <1>2, <1>6, <2>1
    <3> QED
      BY <3>1, <3>2, <3>3
  <2>7. k - 1 \in Nat /\ k - 1 <= n
    BY <1>2, <1>6
  <2>8. PICK u : u = SubSeq(tokens, o + 2, k - 1)
    OBVIOUS
  <2>9. List = u
    BY <1>2, <1>5, <2>8 DEF List
  <2>10. /\ Len(u) = k - 1 - (o + 2) + 1 /\ u \in Seq(Token)
         /\ \A i \in 1..(k - 1 - (o + 2) + 1) : u[i] = tokens[o + 2 + i - 1]
    <3>1. k - 1 \in Nat /\ k - 1 <= Len(tokens) /\ o + 2 <= k - 1
      BY <1>2, <1>6, <2>7
    <3>2. PICK e, f : e = k - 1 /\ f = o + 2
      OBVIOUS
    <3>3. e \in Nat /\ f \in Nat \ {0} /\ f <= e /\ e <= Len(tokens)
      BY Zenon, <1>5, <3>1, <3>2
    <3>4. /\ Len(SubSeq(tokens, f, e)) = e - f + 1 /\ SubSeq(tokens, f, e) \in Seq(Token)
          /\ \A i \in 1..(e - f + 1) : SubSeq(tokens, f, e)[i] = tokens[f + i - 1]
      BY <3>3, Sliced
    <3>5. u = SubSeq(tokens, f, e)
      BY Zenon, <2>8, <3>2
    <3> QED
      BY Zenon, <3>2, <3>4, <3>5
  <2>11. a + 1 \in 1..(k - 1 - (o + 2) + 1) /\ o + 2 + (a + 1) - 1 = r
    <3>1. k \in Nat /\ k > o + a + 2
      BY <1>2, <1>6, <2>1, <2>6
    <3> QED
      BY <1>1, <2>1, <3>1, Places
  <2>12. u[a + 1] = tokens[r] /\ a + 1 \in DOMAIN u
    BY <2>10, <2>11
  <2>13. tokens[r] \in Range(u)
    BY <2>12 DEF Range
  <2> QED
    BY <2>2, <2>3, <2>9, <2>13, OpenersDiffer DEF At
<1>9. q \in Nat
  BY <1>1
<1>10. ASSUME ~(o + a + 2 < q), q # o + a + 2 PROVE FALSE
  <2>0. o + 1 < q /\ q < o + a + 2
    BY <1>1, <1>9, <1>10, Places
  <2>1. PICK i : i = q - o - 1 /\ i \in 1..a /\ q = o + 1 + i
    BY <1>1, <1>9, <2>0, Places
  <2> QED
    BY <1>7, <2>1
<1> QED
  BY <1>1, <1>8, <1>10

\* Nothing of a list but its name.
LEMMA ListLacks ==
    ASSUME NEW m \in Seq(Marks), NEW q \in 1..(Len(m) + 1), q <= Len(m) => ~SpareAt(m, q),
           NEW o \in Nat, NEW d, d.args \in Seq(Plain), StatedAt(m, o, d), d.name \in Lists, o + 1 < q
    PROVE  o + Len(d.args) + 2 < q
<1>1. PICK a, l : a = Len(d.args) /\ l = Len(m) /\ a \in Nat /\ l \in Nat
  <2>1. Len(d.args) \in Nat /\ Len(m) \in Nat
    OBVIOUS
  <2> QED
    BY <2>1
<1>2. /\ o + a + 2 <= l /\ (~SpareAt(m, o + a + 2) => d.name \notin Lists)
      /\ \A i \in 1..a : ~SpareAt(m, o + 1 + i) => d.name \notin Lists
  BY <1>1 DEF StatedAt
<1>3. q \in Nat /\ (q <= l => ~SpareAt(m, q))
  BY <1>1
<1>4. ASSUME q = o + a + 2 PROVE FALSE
  BY <1>1, <1>2, <1>3, <1>4
<1>5. ASSUME ~(o + a + 2 < q), q # o + a + 2 PROVE FALSE
  <2>0. o + 1 < q /\ q < o + a + 2
    BY <1>1, <1>3, <1>5, Places
  <2>1. PICK i : i = q - o - 1 /\ i \in 1..a /\ q = o + 1 + i
    BY <1>1, <1>3, <2>0, Places
  <2>2. q <= l
    BY <1>1, <1>2, <1>3, <1>5
  <2> QED
    BY <1>2, <1>3, <2>1, <2>2
<1> QED
  BY <1>1, <1>4, <1>5

LEMMA UnknownRefuses == Unknown => Refuses
BY ThrowRefuses DEF Unknown

\* Due to the one action that passes over a ";" a statement begins where it should.
LEMMA SkipDue ==
    ASSUME ParserNext, block \in {"server", "location"}, NEW p, NEW q, Due(p, q), pos # p
    PROVE  Refuses \/ (Remains /\ SkipSemicolon /\ Due(p, q)')
<1>1. p <= q /\ pos + 1 = p /\ At(pos, Ending)
  BY DEF Due
<1>2. Unknown \/ SkipSemicolon
  BY <1>1, AtEnding
<1>3. CASE SkipSemicolon
  <2>1. Remains /\ pos' = p
    BY <1>1, <1>3, SkipRemains
  <2> QED
    BY <1>1, <1>3, <2>1 DEF Due
<1> QED
  BY <1>2, <1>3, UnknownRefuses

\* If the tokens of m from o + 1 on are those of a statement, and no other may
\* follow, it is read as a whole or refused.
LEMMA StatementPassed ==
    ASSUME tokens \in Seq(Token), NEW m \in Seq(Marks), NEW q \in 1..(Len(m) + 1), Lacks(m, q),
           q <= Len(m) => ~SpareAt(m, q),
           NEW o \in Nat, NEW d, Shaped(d), d.name # "location", StatedAt(m, o, d),
           o + Len(d.args) + 3 <= Len(m), TokenAt(m, o + Len(d.args) + 3) \in Openers,
           ParserNext, block \in {"server", "location"}, Due(o + 1, q)
    PROVE  \/ Refuses
           \/ Remains /\ SkipSemicolon /\ Due(o + 1, q)'
           \/ pos = o + 1 /\ Reads(o + 1, d) /\ Deed(d.name) /\ Remains /\ Due(o + Len(d.args) + 3, q)'
<1>1. CASE pos # o + 1
  BY <1>1, SkipDue
<1>2. CASE pos = o + 1
  <2>1. PICK a, l : a = Len(d.args) /\ l = Len(m) /\ a \in Nat /\ l \in Nat /\ o + a + 3 <= l
    <3>1. Len(d.args) \in Nat /\ Len(m) \in Nat
      BY DEF Shaped
    <3> QED
      BY <3>1
  <2>2. d.name \in Names /\ d.args \in Seq(Plain)
    BY DEF Shaped
  <2>3. q \in Nat /\ o + 1 <= q /\ (q <= l => ~SpareAt(m, q))
    BY <1>2, <2>1 DEF Due
  <2>4. \A r \in 1..l : (r < q => At(r, TokenAt(m, r))) /\ (q <= r /\ r < l => At(r, TokenAt(m, r + 1)))
    BY <2>1, Present
  <2>5. CASE q = o + 1
    <3>1. ~SpareAt(m, o + 1)
      BY <2>1, <2>3, <2>5
    <3>2. a > 0 /\ d.args[1] \notin {Word(n) : n \in Names} /\ TokenAt(m, o + 1 + 1) = d.args[1]
      <4>1. a > 0 /\ d.args[1] \notin {Word(n) : n \in Names} /\ \A i \in 1..a : TokenAt(m, o + 1 + i) = d.args[i]
        BY <2>1, <3>1 DEF StatedAt
      <4>2. 1 \in 1..a
        BY <2>1, <4>1
      <4> QED
        BY <4>1, <4>2
    <3>3. d.args[1] \in Plain
      BY <2>1, <2>2, <3>2
    <3>4. o + 1 \in 1..l /\ o + 1 < l /\ q <= o + 1
      BY <2>1, <2>5
    <3>5. At(o + 1, TokenAt(m, o + 1 + 1))
      BY <2>4, <3>4
    <3>6. At(pos, d.args[1])
      BY <1>2, <3>2, <3>5
    <3> QED
      BY <3>2, <3>3, <3>6, NameLacks
  <2>6. CASE o + 1 < q
    <3>1. TokenAt(m, o + 1) = Word(d.name)
      BY DEF StatedAt
    <3>2. o + 1 \in 1..l
      BY <2>1
    <3>3. At(pos, Word(d.name))
      BY <1>2, <2>4, <2>6, <3>1, <3>2
    <3>4. CASE Unknown
      BY <3>4, UnknownRefuses
    <3>5. CASE Deed(d.name) /\ ~Refuses
      <4>1. Remains /\ Moves(d.name)
        BY <2>2, <3>5, DeedMoves
      <4>2. o + a + 2 < q
        <5>1. CASE d.name \in Singles /\ HasArgument
          <6>1. a = 1
            BY <2>1, <5>1 DEF Shaped, Singles, Lists
          <6>2. o + 4 <= Len(m) /\ TokenAt(m, o + 4) \in Openers /\ o + a + 2 = o + 3
            <7>1. o + a + 3 = o + 4 /\ o + a + 2 = o + 3
              BY <6>1
            <7> QED
              BY <2>1, <7>1
          <6>3. o + 3 < q
            BY <1>2, <2>1, <2>2, <2>6, <5>1, <6>1, <6>2, SingleLacks
          <6> QED
            BY <6>2, <6>3
        <5>2. CASE d.name \in Lists
          BY <2>1, <2>2, <2>3, <2>6, <5>2, ListLacks
        <5>3. CASE d.name = "allow_methods" /\ Semicolon(pos + 1) > pos + 1 /\ Range(List) \subseteq MethodWords
          <6>1. Len(d.args) > 0
            BY <5>3 DEF Shaped, Singles, Lists
          <6> QED
            BY <1>2, <2>1, <2>2, <2>6, <5>3, <6>1, MethodsLack
        <5>4. CASE d.name = "return" /\ IsDigits(Arg) /\ ~At(pos + 2, Ending) /\ At(pos + 3, Ending)
          <6>1. a = 2 /\ ~IsDigits(d.args[2])
            BY <2>1, <5>4 DEF Shaped, Singles, Lists
          <6>2. o + 5 <= Len(m) /\ TokenAt(m, o + 5) \in Openers /\ o + a + 2 = o + 4
            <7>1. o + a + 3 = o + 5 /\ o + a + 2 = o + 4
              BY <6>1
            <7> QED
              BY <2>1, <7>1
          <6>3. o + 4 < q
            BY <1>2, <2>1, <2>2, <2>6, <5>4, <6>1, <6>2, ReturnLacks
          <6> QED
            BY <6>2, <6>3
        <5> QED
          BY <4>1, <5>1, <5>2, <5>3, <5>4 DEF Moves
      <4>3. Reads(o + 1, d)
        BY <2>1, <2>2, <4>2, WholeReads
      <4>4. pos' = o + a + 2
        <5>1. CASE d.name \in Singles /\ pos' = pos + 2
          <6>1. a = 1
            BY <2>1, <5>1 DEF Shaped, Singles, Lists
          <6> QED
            BY <1>2, <5>1, <6>1
        <5>2. CASE pos' = Semicolon(pos + 1)
          <6>1. Semicolon(pos + 1) = pos + Len(d.args) + 1
            <7>1. pos \in Nat \ {0} /\ Reads(pos, d)
              BY <1>2, <4>3
            <7> QED
              BY <2>2, <7>1, ListEnds
          <6>2. o + 1 + a + 1 = o + a + 2
            BY <2>1, MoreSums
          <6> QED
            BY <1>2, <2>1, <5>2, <6>1, <6>2
        <5>3. CASE d.name = "return" /\ pos' = pos + 3
          <6>1. a = 2
            BY <2>1, <5>3 DEF Shaped, Singles, Lists
          <6> QED
            BY <1>2, <5>3, <6>1
        <5> QED
          BY <4>1, <5>1, <5>2, <5>3 DEF Moves
      <4>5. Due(o + a + 3, q)'
        <5>1. At(o + a + 2, Ending)
          <6>1. o + 1 + a + 1 = o + a + 2
            BY <2>1, MoreSums
          <6>2. At(o + 1 + a + 1, Ending)
            BY <2>1, <4>3 DEF Reads
          <6> QED
            BY <6>1, <6>2
        <5>2. At(o + a + 2, Ending)'
          BY <4>1, <5>1 DEF At, Remains, Ending
        <5>3. o + a + 3 <= q /\ pos' + 1 = o + a + 3
          BY <2>1, <2>3, <4>2, <4>4
        <5> QED
          BY <4>4, <5>2, <5>3 DEF Due
      <4> QED
        BY <1>2, <2>1, <3>5, <4>1, <4>3, <4>5
    <3> QED
      BY <2>2, <3>3, <3>4, <3>5, AtName
  <2> QED
    BY <2>1, <2>3, <2>5, <2>6
<1> QED
  BY <1>1, <1>2

-----------------------------------------------------------------------------
(* What a directive that is read as a whole makes of the configuration *)

LEMMA OneRead ==
    ASSUME pos \in Nat \ {0}, NEW d, d.args \in Seq(Plain), Len(d.args) = 1, Reads(pos, d)
    PROVE  HasArgument /\ Arg = d.args[1] /\ d.args[1] \in Plain /\ d.args[1] \in Token /\ d.args = <<d.args[1]>>
<1>1. d.args[1] \in Plain /\ d.args = <<d.args[1]>>
  OBVIOUS
<1>2. At(pos + 1, d.args[1]) /\ At(pos + 2, Ending)
  <2>1. 1 \in 1..Len(d.args) /\ pos + Len(d.args) + 1 = pos + 2
    OBVIOUS
  <2> QED
    BY <2>1 DEF Reads
<1>3. pos + 1 <= Len(tokens) /\ tokens[pos + 1] = d.args[1]
  BY <1>2 DEF At
<1>4. ~At(pos + 1, Ending)
  BY <1>1, <1>2, NoOther, SignsDiffer
<1>5. HasArgument
  BY <1>2, <1>3, <1>4, HasArgumentIs
<1>6. d.args[1] \in Token
  BY <1>1 DEF Plain
<1> QED
  BY <1>1, <1>3, <1>5, <1>6 DEF Arg

\* A token is of one kind.
LEMMA KindsDiffer ==
    ASSUME NEW x \in Token
    PROVE  /\ "path" \in DOMAIN x => PathOf(x) = x.path /\ ~IsDigits(x)
           /\ "word" \in DOMAIN x => WordOf(x) = x.word /\ "host" \notin DOMAIN x /\ "num" \notin DOMAIN x
           /\ "host" \in DOMAIN x => "num" \notin DOMAIN x /\ "word" \notin DOMAIN x
           /\ "num" \in DOMAIN x => "host" \notin DOMAIN x /\ "word" \notin DOMAIN x /\ x.num \in Nat
           /\ "num" \in DOMAIN x => "unit" \in DOMAIN x
BY DEF Token, PathOf, WordOf, IsDigits

LEMMA FactorIs == ASSUME NEW u PROVE Factor(u) \in Nat \ {0}
<1>1. KILO \in Nat \ {0}
  BY SizesAssumption
<1>2. \A x, y \in Nat \ {0} : x * y \in Nat \ {0}
  OBVIOUS
<1>3. KILO * KILO \in Nat \ {0} /\ KILO * KILO * KILO \in Nat \ {0}
  BY <1>1, <1>2
<1> QED
  BY <1>1, <1>3 DEF Factor

\* A size that fits is read as it is.
LEMMA SizeFits ==
    ASSUME NEW x \in Token, "unit" \in DOMAIN x
    PROVE  /\ SizesOf(x) # {}
           /\ "num" \in DOMAIN x /\ Amount(x) < WORD => SizesOf(x) = {Amount(x)}
<1>1. SizesOf(x) # {}
  <2>1. Leftovers # {}
    BY SizesAssumption
  <2> QED
    BY <2>1 DEF SizesOf
<1>2. ASSUME "num" \in DOMAIN x, Amount(x) < WORD PROVE SizesOf(x) = {Amount(x)}
  <2>1. PICK n, f : n = x.num /\ f = Factor(x.unit) /\ n \in Nat /\ f \in Nat \ {0}
    BY <1>2, KindsDiffer, FactorIs
  <2>2. WORD \in Nat
    BY SizesAssumption
  <2>3. PICK y : y = n * f
    OBVIOUS
  <2>4. Amount(x) = y
    BY <2>1, <2>3 DEF Amount
  <2>5. y \in Nat /\ n <= y
    <3>1. \A i \in Nat, j \in Nat \ {0} : i * j \in Nat /\ i <= i * j
      OBVIOUS
    <3> QED
      BY <2>1, <2>3, <3>1
  <2>6. y < WORD /\ ~(n >= WORD)
    BY <1>2, <2>1, <2>2, <2>4, <2>5
  <2>7. y % WORD = y
    BY <2>2, <2>5, <2>6
  <2>8. SizesOf(x) = {(i * f) % WORD : i \in {n}}
    BY <1>2, <2>1, <2>6 DEF SizesOf
  <2>9. SizesOf(x) = {(n * f) % WORD}
    BY <2>8
  <2> QED
    BY <2>3, <2>4, <2>7, <2>9
<1> QED
  BY <1>1, <1>2

\* A page is given for each code, and it is the last argument.
LEMMA PagesRead ==
    ASSUME NEW d, d.name = "error_page", d.args \in Seq(Plain), OfServer(d)
    PROVE  /\ DOMAIN PagesOf(d.args) = CodesOf(d)
           /\ \A c \in CodesOf(d) : PagesOf(d.args)[c] = Last(d.args).path
<1>1. PICK s, n : s = d.args /\ n = Len(s) /\ n \in Nat /\ DOMAIN s = 1..n
  OBVIOUS
<1>2. s # <<>> => "path" \in DOMAIN Last(s) /\ \A k \in 1..(n - 1) : IsDigits(s[k])
  BY <1>1 DEF OfServer, OfEither, One
<1>3. PICK P, C : /\ P = {k \in 1..n : ~IsDigits(s[k])}
                  /\ C = {s[k].num : k \in {j \in 1..n : IsDigits(s[j]) /\ \E i \in P : i > j}}
  OBVIOUS
<1>4. PagesOf(s) = [c \in C |-> PathOf(s[CHOOSE k \in P : \A j \in P : j <= k])]
  BY <1>1, <1>3 DEF PagesOf
<1>5. CodesOf(d) = {s[k].num : k \in 1..(n - 1)}
  BY <1>1 DEF CodesOf
<1>6. CASE s = <<>>
  <2>1. 1..n = {} /\ 1..(n - 1) = {}
    BY <1>1, <1>6
  <2>2. C = {} /\ CodesOf(d) = {}
    BY <1>3, <1>5, <2>1
  <2> QED
    BY <1>1, <1>4, <2>2
<1>7. CASE s # <<>>
  <2>1. n > 0
    BY <1>1, <1>7
  <2>2. Last(s) = s[n]
    BY <1>1 DEF Last
  <2>3. s[n] \in Token
    <3>1. s[n] \in Plain
      BY <1>1, <2>1
    <3> QED
      BY <3>1 DEF Plain
  <2>4. "path" \in DOMAIN s[n] /\ ~IsDigits(s[n]) /\ PathOf(s[n]) = s[n].path
    BY <1>2, <1>7, <2>2, <2>3, KindsDiffer
  <2>5. \A k \in 1..n : k = n \/ k \in 1..(n - 1)
    BY <1>1
  <2>6. P = {n}
    <3>1. \A k \in 1..n : IsDigits(s[k]) \/ k = n
      BY <1>2, <1>7, <2>5
    <3>2. n \in 1..n
      BY <1>1, <2>1
    <3> QED
      BY <1>3, <2>4, <3>1, <3>2
  <2>7. (CHOOSE k \in P : \A j \in P : j <= k) = n
    BY <1>1, <2>6
  <2>8. {j \in 1..n : IsDigits(s[j]) /\ \E i \in P : i > j} = 1..(n - 1)
    <3>1. \A j \in 1..(n - 1) : j \in 1..n /\ n > j
      BY <1>1
    <3>2. \A j \in 1..n : n > j => j \in 1..(n - 1)
      BY <1>1
    <3> QED
      BY <1>2, <1>7, <2>6, <3>1, <3>2
  <2>9. C = CodesOf(d)
    BY <1>3, <1>5, <2>8
  <2> QED
    BY <1>1, <1>4, <2>2, <2>4, <2>7, <2>9
<1> QED
  BY <1>6, <1>7

\* If it is a size, it is a number that fits.
SizeIs(d) == d.name = "client_max_body_size" => "num" \in DOMAIN d.args[1] /\ Amount(d.args[1]) < WORD

\* The directive d has been taken into the server's block as what it means.
TakenIn(d) ==
    /\ verdict' = "none"
    /\ d.name = "listen" => listens' = TRUE
    /\ d.name # "listen" => listens' = listens
    /\ \A s \in Seq(Items) : SizeIs(d) /\ server = ServerMeant(s) => server' = ServerMeant(Append(s, d))

LEMMA GotoKeeps == \A p : Goto(p) => verdict' = verdict
BY DEF Goto

LEMMA ListenTakenIn ==
    ASSUME tokens \in Seq(Token), pos \in Nat \ {0}, verdict = "none", block = "server",
           NEW d \in Statements, One(d, "listen", {"host", "num", "word"}), Reads(pos, d), Deed(d.name)
    PROVE  TakenIn(d)
<1>1. d.args \in Seq(Plain) /\ d \in Items /\ d.name = "listen" /\ Len(d.args) = 1
  BY StatementIs DEF Items, One
<1>2. PICK x : x = d.args[1]
  OBVIOUS
<1>3. HasArgument /\ Arg = x /\ x \in Plain /\ x \in Token /\ d.args = <<x>>
  BY <1>1, <1>2, OneRead
<1>4. ParseListen
  BY <1>1 DEF Deed
<1>5. /\ server' = IF "host" \in DOMAIN x THEN [server EXCEPT !.host = x.host, !.port = x.port]
                   ELSE IF "num" \in DOMAIN x THEN [server EXCEPT !.port = x.num]
                   ELSE [server EXCEPT !.host = WordOf(x)]
      /\ listens' = TRUE /\ verdict' = verdict
  BY Zenon, <1>3, <1>4, GotoKeeps DEF ParseListen
<1>6. "host" \in DOMAIN x \/ "num" \in DOMAIN x \/ "word" \in DOMAIN x
  BY <1>2 DEF One
<1>7. ASSUME NEW s \in Seq(Items), server = ServerMeant(s)
      PROVE  server' = ServerMeant(Append(s, d))
  <2>1. ServerMeant(Append(s, d)) = Heard(ServerMeant(s), x)
    BY <1>1, <1>3, ServerListens
  <2>2. PICK v : v = ServerMeant(s)
    OBVIOUS
  <2>3. v = [host |-> v.host, port |-> v.port, names |-> v.names, pages |-> v.pages, limit |-> v.limit,
             root |-> v.root, autoindex |-> v.autoindex, index |-> v.index, locations |-> v.locations]
    BY <2>2 DEF ServerMeant
  <2>4. server = v
    BY <1>7, <2>2
  <2>5. CASE "host" \in DOMAIN x
    <3>1. "num" \notin DOMAIN x /\ "word" \notin DOMAIN x
      BY <1>3, <2>5, KindsDiffer
    <3>2. ServerMeant(Append(s, d)) = [v EXCEPT !.host = x.host, !.port = x.port]
      BY <2>1, <2>2, <2>5, <3>1 DEF Heard, HostHeard, PortHeard
    <3> QED
      BY <1>5, <2>4, <2>5, <3>2
  <2>6. CASE "num" \in DOMAIN x
    <3>1. "host" \notin DOMAIN x /\ "word" \notin DOMAIN x
      BY <1>3, <2>6, KindsDiffer
    <3>2. ServerMeant(Append(s, d)) = [v EXCEPT !.host = v.host, !.port = x.num]
      BY <2>1, <2>2, <2>6, <3>1 DEF Heard, HostHeard, PortHeard
    <3>3. PICK p : p = [v EXCEPT !.port = x.num]
      OBVIOUS
    <3>4. [v EXCEPT !.host = v.host, !.port = x.num] = p
      BY <2>3, <3>3
    <3> QED
      BY <1>5, <2>4, <2>6, <3>1, <3>2, <3>3, <3>4
  <2>7. CASE "word" \in DOMAIN x
    <3>1. "host" \notin DOMAIN x /\ "num" \notin DOMAIN x /\ WordOf(x) = x.word
      BY <1>3, <2>7, KindsDiffer
    <3>2. ServerMeant(Append(s, d)) = [v EXCEPT !.host = x.word, !.port = v.port]
      BY <2>1, <2>2, <2>7, <3>1 DEF Heard, HostHeard, PortHeard
    <3>3. PICK p : p = [v EXCEPT !.host = x.word]
      OBVIOUS
    <3>4. [v EXCEPT !.host = x.word, !.port = v.port] = p
      BY <2>3, <3>3
    <3> QED
      BY <1>5, <2>4, <2>7, <3>1, <3>2, <3>3, <3>4
  <2> QED
    BY <1>6, <2>5, <2>6, <2>7
<1> QED
  BY <1>1, <1>5, <1>7 DEF TakenIn

\* Each directive that a server has.
LEMMA ServerTakenIn ==
    ASSUME tokens \in Seq(Token), pos \in Nat \ {0}, verdict = "none", block = "server",
           NEW d \in Statements, OfServer(d), Reads(pos, d), Deed(d.name)
    PROVE  TakenIn(d)
<1>1. d.args \in Seq(Plain) /\ d \in Items
  BY StatementIs DEF Items
<1>2. Semicolon(pos + 1) = pos + Len(d.args) + 1 /\ List = d.args /\ Semicolon(pos + 1) # 0
  <2>1. Semicolon(pos + 1) = pos + Len(d.args) + 1 /\ List = d.args
    BY <1>1, ListEnds
  <2>2. pos + Len(d.args) + 1 # 0
    BY <1>1
  <2> QED
    BY <2>1, <2>2
<1>3. ASSUME Len(d.args) = 1
      PROVE  HasArgument /\ Arg = d.args[1] /\ d.args[1] \in Token /\ d.args = <<d.args[1]>> /\ d.args # <<>>
  <2>1. d.args # <<>>
    <3>1. Len(<<>>) # 1
      OBVIOUS
    <3> QED
      BY Zenon, <1>3, <3>1
  <2> QED
    BY <1>1, <1>3, <2>1, OneRead
<1>4. CASE d.name = "server_name"
  <2>1. ParseServerName
    BY <1>4 DEF Deed
  <2>2. server' = [server EXCEPT !.names = @ \o d.args] /\ listens' = listens /\ verdict' = verdict
    BY Zenon, <1>2, <2>1, GotoKeeps DEF ParseServerName, SetServer
  <2>3. \A s \in Seq(Items) : ServerMeant(Append(s, d)) = [ServerMeant(s) EXCEPT !.names = @ \o d.args]
    BY <1>1, <1>4, ServerMore
  <2> QED
    BY <1>4, <2>2, <2>3 DEF TakenIn
<1>5. CASE d.name = "index"
  <2>1. ParseIndex
    BY <1>5 DEF Deed
  <2>2. server' = [server EXCEPT !.index = server.index \o d.args] /\ listens' = listens /\ verdict' = verdict
    BY Zenon, <1>2, <2>1, GotoKeeps DEF ParseIndex, SetEither, SetServer
  <2>3. \A s \in Seq(Items) : ServerMeant(Append(s, d)) = [ServerMeant(s) EXCEPT !.index = @ \o d.args]
    BY <1>1, <1>5, ServerMore
  <2> QED
    BY <1>5, <2>2, <2>3 DEF TakenIn
<1>6. CASE d.name = "error_page"
  <2>1. ParseErrorPage
    BY <1>6 DEF Deed
  <2>2. PICK pages : pages = PagesOf(d.args)
    OBVIOUS
  <2>3. /\ server' = [server EXCEPT !.pages = [c \in DOMAIN pages \cup DOMAIN server.pages |->
                                                IF c \in DOMAIN pages THEN pages[c] ELSE server.pages[c]]]
        /\ listens' = listens /\ verdict' = verdict
    BY Zenon, <1>2, <2>1, <2>2, GotoKeeps DEF ParseErrorPage, SetServer
  <2>4. DOMAIN pages = CodesOf(d) /\ \A c \in CodesOf(d) : pages[c] = Last(d.args).path
    BY <1>1, <1>6, <2>2, PagesRead
  <2>5. server' = [server EXCEPT !.pages = [c \in CodesOf(d) \cup DOMAIN server.pages |->
                                              IF c \in CodesOf(d) THEN Last(d.args).path ELSE server.pages[c]]]
    BY <2>3, <2>4
  <2>6. \A s \in Seq(Items) : ServerMeant(Append(s, d)) =
           [ServerMeant(s) EXCEPT !.pages = [c \in CodesOf(d) \cup DOMAIN @ |->
                                               IF c \in CodesOf(d) THEN Last(d.args).path ELSE @[c]]]
    BY <1>1, <1>6, ServerMore
  <2> QED
    BY <1>6, <2>3, <2>5, <2>6 DEF TakenIn
<1>7. CASE One(d, "root", {"path"})
  <2>1. d.name = "root" /\ Len(d.args) = 1 /\ "path" \in DOMAIN d.args[1]
    BY <1>7 DEF One
  <2>2. ParseRoot
    BY <2>1 DEF Deed
  <2>3. PathOf(d.args[1]) = d.args[1].path
    BY <1>3, <2>1, KindsDiffer
  <2>4. server' = [server EXCEPT !.root = d.args[1].path] /\ listens' = listens /\ verdict' = verdict
    BY Zenon, <1>3, <2>1, <2>2, <2>3, GotoKeeps DEF ParseRoot, SetEither, SetServer
  <2>5. \A s \in Seq(Items) : ServerMeant(Append(s, d)) = [ServerMeant(s) EXCEPT !.root = d.args[1].path]
    BY <1>1, <1>3, <2>1, ServerMore
  <2> QED
    BY <2>1, <2>4, <2>5 DEF TakenIn
<1>8. CASE d.name = "autoindex" /\ d.args \in {<<Word("on")>>, <<Word("off")>>}
  <2>1. Len(d.args) = 1 /\ d.args[1] \in {Word("on"), Word("off")}
    BY <1>8
  <2>2. ParseAutoindex
    BY <1>8 DEF Deed
  <2>3. server' = [server EXCEPT !.autoindex = d.args[1].word] /\ listens' = listens /\ verdict' = verdict
    BY Zenon, <1>3, <2>1, <2>2, GotoKeeps DEF ParseAutoindex, SetEither, SetServer
  <2>4. \A s \in Seq(Items) : ServerMeant(Append(s, d)) = [ServerMeant(s) EXCEPT !.autoindex = d.args[1].word]
    BY <1>1, <1>8, ServerMore
  <2> QED
    BY <1>8, <2>3, <2>4 DEF TakenIn
<1>9. CASE One(d, "client_max_body_size", {"unit"})
  <2>1. d.name = "client_max_body_size" /\ Len(d.args) = 1 /\ "unit" \in DOMAIN d.args[1]
    BY <1>9 DEF One
  <2>2. ParseClientMaxBodySize
    BY <2>1 DEF Deed
  <2>3. /\ SizesOf(d.args[1]) # {}
        /\ SizeIs(d) => SizesOf(d.args[1]) = {Amount(d.args[1])}
    BY <1>3, <2>1, SizeFits DEF SizeIs
  <2>4. PICK n \in SizesOf(d.args[1]) :
           server' = [server EXCEPT !.limit = n] /\ listens' = listens /\ verdict' = verdict
    BY Zenon, <1>3, <2>1, <2>2, <2>3, GotoKeeps DEF ParseClientMaxBodySize, SetServer
  <2>5. \A s \in Seq(Items) : ServerMeant(Append(s, d)) = [ServerMeant(s) EXCEPT !.limit = Amount(d.args[1])]
    BY <1>1, <2>1, ServerMore
  <2>6. SizeIs(d) => server' = [server EXCEPT !.limit = Amount(d.args[1])]
    BY <2>3, <2>4
  <2> QED
    BY <2>1, <2>4, <2>5, <2>6 DEF TakenIn
<1>10. CASE One(d, "listen", {"host", "num", "word"})
  BY <1>10, ListenTakenIn
<1> QED
  BY <1>4, <1>5, <1>6, <1>7, <1>8, <1>9, <1>10 DEF OfServer, OfEither

\* The directive d has been taken into the location's block as what it means.
TakenInside(d) ==
    /\ verdict' = "none" /\ server' = server /\ listens' = listens
    /\ \A path : \A s \in Seq(Items) :
          SizeIs(d) /\ location = LocationMeant(path, s) => location' = LocationMeant(path, Append(s, d))

\* Each directive that a location has.
LEMMA LocationTakenIn ==
    ASSUME tokens \in Seq(Token), pos \in Nat \ {0}, verdict = "none", block = "location",
           NEW d \in Statements, OfLocation(d), Reads(pos, d), Deed(d.name)
    PROVE  TakenInside(d)
<1>1. d.args \in Seq(Plain) /\ d \in Items
  BY StatementIs DEF Items
<1>2. Semicolon(pos + 1) = pos + Len(d.args) + 1 /\ List = d.args /\ Semicolon(pos + 1) # 0
  <2>1. Semicolon(pos + 1) = pos + Len(d.args) + 1 /\ List = d.args
    BY <1>1, ListEnds
  <2>2. pos + Len(d.args) + 1 # 0
    BY <1>1
  <2> QED
    BY <2>1, <2>2
<1>3. ASSUME Len(d.args) = 1
      PROVE  HasArgument /\ Arg = d.args[1] /\ d.args[1] \in Token /\ d.args = <<d.args[1]>> /\ d.args # <<>>
  <2>1. d.args # <<>>
    <3>1. Len(<<>>) # 1
      OBVIOUS
    <3> QED
      BY Zenon, <1>3, <3>1
  <2> QED
    BY <1>1, <1>3, <2>1, OneRead
<1>4. \A path : \A s \in Seq(Items) : Grows(LocationMeant(path, s), d, LocationMeant(path, Append(s, d)))
  BY <1>1, LocationMore
<1>5. block # "server"
  OBVIOUS
<1>6. CASE d.name = "index"
  <2>1. ParseIndex
    BY <1>6 DEF Deed
  <2>2. /\ location' = [location EXCEPT !.index = location.index \o d.args]
        /\ server' = server /\ listens' = listens /\ verdict' = verdict
    BY Zenon, <1>2, <1>5, <2>1, GotoKeeps DEF ParseIndex, SetEither, SetLocation
  <2>3. \A path : \A s \in Seq(Items) :
           LocationMeant(path, Append(s, d)) = [LocationMeant(path, s) EXCEPT !.index = @ \o d.args]
    BY <1>6, <1>4 DEF Grows
  <2> QED
    BY <2>2, <2>3 DEF TakenInside
<1>7. CASE d.name = "return" /\ Len(d.args) = 2 /\ IsDigits(d.args[1]) /\ "path" \in DOMAIN d.args[2]
  <2>1. ParseReturn
    BY <1>7 DEF Deed
  <2>2. d.args[1] \in Plain /\ d.args[2] \in Plain /\ d.args[2] \in Token
    BY <1>1, <1>7 DEF Plain
  <2>3. At(pos + 1, d.args[1]) /\ At(pos + 2, d.args[2]) /\ At(pos + 3, Ending)
    <3>1. 1 \in 1..Len(d.args) /\ 2 \in 1..Len(d.args) /\ pos + Len(d.args) + 1 = pos + 3
      BY <1>7
    <3> QED
      BY <3>1 DEF Reads
  <2>4. pos + 2 <= Len(tokens) /\ Arg = d.args[1] /\ tokens[pos + 2] = d.args[2]
    BY <2>3 DEF At, Arg
  <2>5. ~At(pos + 2, Ending)
    BY <2>2, <2>3, NoOther, SignsDiffer
  <2>6. ~Is(pos + 2, ";") /\ Is(pos + 3, ";")
    BY Zenon, <2>3, <2>5, IsAt
  <2>7. PathOf(tokens[pos + 2]) = d.args[2].path
    BY <1>7, <2>2, <2>4, KindsDiffer
  <2>8. /\ location' = [location EXCEPT !.code = Arg.num, !.url = PathOf(tokens[pos + 2])]
        /\ server' = server /\ listens' = listens /\ verdict' = verdict
    BY Zenon, <1>7, <2>1, <2>4, <2>6, GotoKeeps DEF ParseReturn, SetLocation
  <2>9. location' = Returning(location, d.args[1].num, d.args[2].path)
    BY Zenon, <2>4, <2>7, <2>8 DEF Returning
  <2>10. \A path : \A s \in Seq(Items) : LocationMeant(path, Append(s, d)) =
            Returning(LocationMeant(path, s), d.args[1].num, d.args[2].path)
    BY <1>7, <1>4 DEF Grows
  <2> QED
    BY <2>8, <2>9, <2>10 DEF TakenInside
<1>8. CASE One(d, "root", {"path"})
  <2>1. d.name = "root" /\ Len(d.args) = 1 /\ "path" \in DOMAIN d.args[1]
    BY <1>8 DEF One
  <2>2. ParseRoot
    BY <2>1 DEF Deed
  <2>3. PathOf(d.args[1]) = d.args[1].path
    BY <1>3, <2>1, KindsDiffer
  <2>4. /\ location' = [location EXCEPT !.root = d.args[1].path]
        /\ server' = server /\ listens' = listens /\ verdict' = verdict
    BY Zenon, <1>3, <1>5, <2>1, <2>2, <2>3, GotoKeeps DEF ParseRoot, SetEither, SetLocation
  <2>5. \A path : \A s \in Seq(Items) :
           LocationMeant(path, Append(s, d)) = [LocationMeant(path, s) EXCEPT !.root = d.args[1].path]
    BY <1>3, <1>4, <2>1 DEF Grows
  <2> QED
    BY <2>4, <2>5 DEF TakenInside
<1>9. CASE d.name = "autoindex" /\ d.args \in {<<Word("on")>>, <<Word("off")>>}
  <2>1. Len(d.args) = 1 /\ d.args[1] \in {Word("on"), Word("off")}
    BY <1>9
  <2>2. ParseAutoindex
    BY <1>9 DEF Deed
  <2>3. /\ location' = [location EXCEPT !.autoindex = d.args[1].word]
        /\ server' = server /\ listens' = listens /\ verdict' = verdict
    BY Zenon, <1>3, <1>5, <2>1, <2>2, GotoKeeps DEF ParseAutoindex, SetEither, SetLocation
  <2>4. \A path : \A s \in Seq(Items) :
           LocationMeant(path, Append(s, d)) = [LocationMeant(path, s) EXCEPT !.autoindex = d.args[1].word]
    BY <1>9, <1>4 DEF Grows
  <2> QED
    BY <2>3, <2>4 DEF TakenInside
<1>10. CASE One(d, "client_max_body_size", {"unit"})
  <2>1. d.name = "client_max_body_size" /\ Len(d.args) = 1 /\ "unit" \in DOMAIN d.args[1]
    BY <1>10 DEF One
  <2>2. ParseClientMaxBodySize
    BY <2>1 DEF Deed
  <2>3. /\ SizesOf(d.args[1]) # {}
        /\ SizeIs(d) => SizesOf(d.args[1]) = {Amount(d.args[1])}
    BY <1>3, <2>1, SizeFits DEF SizeIs
  <2>4. PICK n \in SizesOf(d.args[1]) :
           /\ location' = Limiting(location, n)
           /\ server' = server /\ listens' = listens /\ verdict' = verdict
    BY Zenon, <1>3, <1>5, <2>1, <2>2, <2>3, GotoKeeps DEF ParseClientMaxBodySize, SetLocation, Limiting
  <2>5. \A path : \A s \in Seq(Items) : LocationMeant(path, Append(s, d)) =
           Limiting(LocationMeant(path, s), Amount(d.args[1]))
    BY <1>3, <1>4, <2>1 DEF Grows
  <2>6. SizeIs(d) => location' = Limiting(location, Amount(d.args[1]))
    BY <2>3, <2>4
  <2> QED
    BY <2>4, <2>5, <2>6 DEF TakenInside
<1>11. CASE One(d, "upload_store", {"path"})
  <2>1. d.name = "upload_store" /\ Len(d.args) = 1 /\ "path" \in DOMAIN d.args[1]
    BY <1>11 DEF One
  <2>2. ParseUploadStore
    BY <2>1 DEF Deed
  <2>3. PathOf(d.args[1]) = d.args[1].path
    BY <1>3, <2>1, KindsDiffer
  <2>4. /\ location' = [location EXCEPT !.store = d.args[1].path]
        /\ server' = server /\ listens' = listens /\ verdict' = verdict
    BY Zenon, <1>3, <1>5, <2>1, <2>2, <2>3, GotoKeeps DEF ParseUploadStore, SetEither, SetLocation
  <2>5. \A path : \A s \in Seq(Items) :
           LocationMeant(path, Append(s, d)) = [LocationMeant(path, s) EXCEPT !.store = d.args[1].path]
    BY <1>3, <1>4, <2>1 DEF Grows
  <2> QED
    BY <2>4, <2>5 DEF TakenInside
<1>12. CASE One(d, "cgi_ext", {"word"})
  <2>1. d.name = "cgi_ext" /\ Len(d.args) = 1 /\ "word" \in DOMAIN d.args[1]
    BY <1>12 DEF One
  <2>2. ParseCgi /\ At(pos, Word("cgi_ext"))
    BY <2>1 DEF Deed
  <2>3. WordOf(d.args[1]) = d.args[1].word
    BY <1>3, <2>1, KindsDiffer
  <2>4. ~At(pos, Word("cgi_pass"))
    BY Zenon, <2>2, NoOther, WordIs
  <2>5. /\ location' = [location EXCEPT !.ext = d.args[1].word]
        /\ server' = server /\ listens' = listens /\ verdict' = verdict
    <3>1. PICK n \in {"cgi_ext", "cgi_pass"} :
             /\ Directive(n, {"location"}) /\ Goto(pos + 2)
             /\ SetLocation(IF n = "cgi_ext" THEN [location EXCEPT !.ext = WordOf(Arg)]
                                             ELSE [location EXCEPT !.pass = PathOf(Arg)])
      BY Zenon, <1>3, <2>1, <2>2 DEF ParseCgi
    <3>2. n = "cgi_ext"
      BY Zenon, <2>4, <3>1, IsAt DEF Directive
    <3> QED
      BY Zenon, <1>3, <2>1, <2>3, <3>1, <3>2, GotoKeeps DEF SetLocation
  <2>6. \A path : \A s \in Seq(Items) :
           LocationMeant(path, Append(s, d)) = [LocationMeant(path, s) EXCEPT !.ext = d.args[1].word]
    BY <1>4, <2>1 DEF Grows
  <2> QED
    BY <2>5, <2>6 DEF TakenInside
<1>13. CASE One(d, "cgi_pass", {"path"})
  <2>1. d.name = "cgi_pass" /\ Len(d.args) = 1 /\ "path" \in DOMAIN d.args[1]
    BY <1>13 DEF One
  <2>2. ParseCgi /\ At(pos, Word("cgi_pass"))
    BY <2>1 DEF Deed
  <2>3. PathOf(d.args[1]) = d.args[1].path
    BY <1>3, <2>1, KindsDiffer
  <2>4. ~At(pos, Word("cgi_ext"))
    BY Zenon, <2>2, NoOther, WordIs
  <2>5. /\ location' = [location EXCEPT !.pass = d.args[1].path]
        /\ server' = server /\ listens' = listens /\ verdict' = verdict
    <3>1. PICK n \in {"cgi_ext", "cgi_pass"} :
             /\ Directive(n, {"location"}) /\ Goto(pos + 2)
             /\ SetLocation(IF n = "cgi_ext" THEN [location EXCEPT !.ext = WordOf(Arg)]
                                             ELSE [location EXCEPT !.pass = PathOf(Arg)])
      BY Zenon, <1>3, <2>1, <2>2 DEF ParseCgi
    <3>2. n # "cgi_ext"
      BY Zenon, <2>4, <3>1, IsAt DEF Directive
    <3> QED
      BY Zenon, <1>3, <2>1, <2>3, <3>1, <3>2, GotoKeeps DEF SetLocation
  <2>6. \A path : \A s \in Seq(Items) :
           LocationMeant(path, Append(s, d)) = [LocationMeant(path, s) EXCEPT !.pass = d.args[1].path]
    BY <1>3, <1>4, <2>1 DEF Grows
  <2> QED
    BY <2>5, <2>6 DEF TakenInside
<1>14. CASE d.name = "allow_methods" /\ d.args # <<>> /\ Range(d.args) \subseteq MethodWords
  <2>1. ParseAllowMethods
    BY <1>14 DEF Deed
  <2>2. Semicolon(pos + 1) > pos + 1
    <3>1. Len(d.args) > 0
      BY <1>1, <1>14
    <3> QED
      BY <1>1, <1>2, <3>1
  <2>3. /\ location' = [location EXCEPT !.methods = @ \o d.args]
        /\ server' = server /\ listens' = listens /\ verdict' = verdict
    BY Zenon, <1>2, <1>14, <2>1, <2>2, GotoKeeps DEF ParseAllowMethods, SetLocation, MethodWords
  <2>4. \A path : \A s \in Seq(Items) :
           LocationMeant(path, Append(s, d)) = [LocationMeant(path, s) EXCEPT !.methods = @ \o d.args]
    BY <1>14, <1>4 DEF Grows
  <2> QED
    BY <2>3, <2>4 DEF TakenInside
<1> QED
  BY Zenon, <1>6, <1>7, <1>8, <1>9, <1>10, <1>11, <1>12, <1>13, <1>14 DEF OfLocation, OfEither, MethodWords

-----------------------------------------------------------------------------
(* How far the parser has come *)

\* No brace is missing: the braces are counted before anything is read.
Braced(m, q) == q <= Len(m) => TokenAt(m, q) \notin {Opening, Closing}

\* k server blocks have been read.
OnTop(t, q, k) ==
    /\ pos = ServerAt(t, k) + 1 /\ pos <= q
    /\ SizesFit(t) => servers = Meant(SubSeq(t, 1, k))

\* In block k + 1, j directives have been read.
ServerSoFar(t, k, j) ==
    /\ (\E x \in 1..j : t[k + 1].body[x].name = "listen") => listens = TRUE
    /\ SizesFit(t) => servers = Meant(SubSeq(t, 1, k)) /\ server = ServerMeant(SubSeq(t[k + 1].body, 1, j))

InServer(t, q, k, j) == Due(DirectiveAt(t, k, j) + 1, q) /\ ServerSoFar(t, k, j)

\* In the location that is directive j + 1, i statements have been read.
LocationSoFar(d, i) == location = LocationMeant(d.args[1].path, SubSeq(d.body, 1, i))

InLocation(t, q, k, j, i) ==
    /\ HasBody(t[k + 1].body[j + 1])
    /\ Due(StatementAt(t, k, j, i) + 1, q) /\ ServerSoFar(t, k, j)
    /\ SizesFit(t) => LocationSoFar(t[k + 1].body[j + 1], i)

Stage(t, q) ==
    \/ block = "file" /\ pos = 1 /\ servers = <<>>
    \/ /\ block # "file" /\ Braced(Marked(t), q)
       /\ \/ block = "top" /\ \E k \in 0..Len(t) : OnTop(t, q, k)
          \/ /\ block = "server"
             /\ \E k \in 0..(Len(t) - 1) : \E j \in 0..Len(t[k + 1].body) : InServer(t, q, k, j)
          \/ /\ block = "location"
             /\ \E k \in 0..(Len(t) - 1) : \E j \in 0..(Len(t[k + 1].body) - 1) :
                  \E i \in 0..Len(t[k + 1].body[j + 1].body) : InLocation(t, q, k, j, i)

\* What comes of the file t of which the q-th token is missing, or none.
Outcome(t, q) ==
    \/ verdict = "none" /\ Stage(t, q)
    \/ verdict = "rejected" /\ q <= Len(Marked(t))
    \/ verdict = "accepted" /\ q = Len(Marked(t)) + 1 /\ (SizesFit(t) => servers = Meant(t))

\* What is being read is the file t, but for the q-th token.
Missing(t, q) ==
    /\ IsFile(t) /\ q \in 1..(Len(Marked(t)) + 1) /\ Lacks(Marked(t), q)
    /\ q <= Len(Marked(t)) => ~SpareAt(Marked(t), q)

Typed == tokens \in Seq(Token) /\ pos \in Nat \ {0}

LEMMA MissingIs ==
    ASSUME NEW t, NEW q, Missing(t, q)
    PROVE  /\ Marked(t) \in Seq(Marks) /\ Len(Marked(t)) \in Nat /\ Len(t) \in Nat
           /\ q \in 1..(Len(Marked(t)) + 1) /\ q \in Nat
           /\ ~(q <= Len(Marked(t))) => q = Len(Marked(t)) + 1
<1>1. IsFile(t) /\ q \in 1..(Len(Marked(t)) + 1)
  BY DEF Missing
<1>2. Marked(t) \in Seq(Marks) /\ Len(t) \in Nat
  BY <1>1, ServersMarked, FileIs
<1>3. Len(Marked(t)) \in Nat
  BY <1>2
<1> QED
  BY <1>1, <1>2, <1>3

LEMMA Rejected ==
    ASSUME NEW t, NEW q, q <= Len(Marked(t)), Refuses
    PROVE  Outcome(t, q)'
BY DEF Refuses, Outcome

\* The braces are counted.
LEMMA FileStep ==
    ASSUME NEW t, NEW q, Missing(t, q), Typed, verdict = "none", ParserNext,
           block = "file", pos = 1, servers = <<>>
    PROVE  Outcome(t, q)'
<1>1. CountBraces
  BY DEF ParserNext, Top, EndOfServer, SkipSemicolon, Directive, ParseListen, ParseServerName, ParseErrorPage,
         ParseClientMaxBodySize, ParseRoot, ParseAutoindex, ParseIndex, BeginLocation, EndOfLocation, ParseReturn,
         ParseUploadStore, ParseAllowMethods, ParseCgi, Unknown
<1>2. IsFile(t) /\ tokens \in Seq(Token) /\ Lacks(Marked(t), q)
  BY DEF Missing, Typed
<1>3. CASE Throw
  <2>1. ~(tokens # <<>> /\ Balanced)
    BY <1>1, <1>3 DEF Throw, CountBraces
  <2>2. q <= Len(Marked(t))
    BY <1>2, <2>1, MissingIs, BalanceKept
  <2> QED
    BY <1>3, <2>2, Rejected, ThrowRefuses
<1>4. CASE tokens # <<>> /\ Balanced
  <2>1. block' = "top" /\ pos' = 1 /\ servers' = <<>> /\ verdict' = "none"
    BY <1>1, <1>4 DEF CountBraces
  <2>2. Braced(Marked(t), q)
    BY <1>2, <1>4, MissingIs, BalanceLost DEF Braced
  <2>3. ServerAt(t, 0) = 0
    <3>1. ServersOf(t) \in Seq(Seq(Marks))
      BY <1>2, ServersMarked
    <3> QED
      BY <3>1, Offsets DEF ServerAt
  <2>4. OnTop(t, q, 0)'
    <3>1. Meant(SubSeq(t, 1, 0)) = <<>>
      BY <1>2, MeantMore
    <3>2. pos' = 0 + 1 /\ pos' <= q
      BY <2>1, MissingIs
    <3> QED
      BY <2>1, <2>3, <3>1, <3>2 DEF OnTop
  <2>5. 0 \in 0..Len(t)
    BY MissingIs
  <2> QED
    BY <2>1, <2>2, <2>4, <2>5 DEF Outcome, Stage
<1> QED
  BY <1>1, <1>3, <1>4 DEF CountBraces

LEMMA TopIs ==
    ASSUME ParserNext, block = "top"
    PROVE  Top
BY DEF ParserNext, CountBraces, EndOfServer, SkipSemicolon, Directive, ParseListen, ParseServerName, ParseErrorPage,
       ParseClientMaxBodySize, ParseRoot, ParseAutoindex, ParseIndex, BeginLocation, EndOfLocation, ParseReturn,
       ParseUploadStore, ParseAllowMethods, ParseCgi, Unknown

\* The end of the file.
LEMMA TopEnds ==
    ASSUME NEW t, NEW q, Missing(t, q), Typed, verdict = "none", ParserNext, block = "top", OnTop(t, q, Len(t))
    PROVE  Outcome(t, q)'
<1>1. PICK l : l = Len(Marked(t))
  OBVIOUS
<1>2. IsFile(t) /\ Lacks(Marked(t), q) /\ l \in Nat /\ q \in 1..(l + 1)
  BY <1>1, MissingIs DEF Missing
<1>3. ServerAt(t, Len(t)) = l
  BY <1>1, <1>2, ServersMarked, Offsets DEF ServerAt
<1>4. pos = l + 1 /\ q = l + 1
  BY <1>2, <1>3 DEF OnTop
<1>5. Len(tokens) = l
  BY <1>1, <1>2, <1>4 DEF Lacks
<1>6. pos > Len(tokens)
  BY <1>2, <1>4, <1>5
<1>7. verdict' = "accepted" /\ servers' = servers
  BY <1>6, TopIs DEF Top
<1>8. SizesFit(t) => servers' = Meant(t)
  <2>1. Meant(SubSeq(t, 1, Len(t))) = Meant(t)
    BY <1>2, MeantMore
  <2> QED
    BY <1>7, <2>1 DEF OnTop
<1> QED
  BY <1>1, <1>4, <1>7, <1>8 DEF Outcome

\* A server block begins.
LEMMA TopGoesOn ==
    ASSUME NEW t, NEW q, Missing(t, q), Typed, verdict = "none", ParserNext, block = "top", Braced(Marked(t), q),
           NEW k \in 0..(Len(t) - 1), OnTop(t, q, k)
    PROVE  Outcome(t, q)'
<1>1. PICK l, o, m, b : l = Len(Marked(t)) /\ o = ServerAt(t, k) /\ m = Marked(t) /\ b = t[k + 1]
  OBVIOUS
<1>2. /\ IsFile(t) /\ Lacks(m, q) /\ l \in Nat /\ q \in 1..(l + 1) /\ q \in Nat /\ tokens \in Seq(Token)
      /\ m \in Seq(Marks) /\ l = Len(m)
  BY <1>1, MissingIs DEF Missing, Typed
<1>3. b \in Blocks(Items) /\ b.body \in Seq(Items) /\ Len(b.body) \in Nat
  <2>1. b \in Blocks(Items)
    BY <1>1, <1>2, FileIs
  <2>2. b.body \in Seq(Items)
    BY <2>1, BlockIs
  <2> QED
    BY <2>1, <2>2
<1>4. /\ o \in Nat /\ DirectiveAt(t, k, 0) = o + 2
      /\ TokenAt(m, o + 1) = Word("server") /\ TokenAt(m, o + 2) = Opening
  BY <1>1, <1>2, ServerPlace
<1>5. o + 3 <= l
  <2>1. DirectiveAt(t, k, 0) + 1 <= l
    <3>1. 0 \in 0..Len(b.body)
      BY <1>3
    <3> QED
      BY <1>1, <1>2, <3>1, NextDirective
  <2> QED
    BY <1>4, <2>1
<1>6. pos = o + 1 /\ o + 1 <= q
  BY <1>1 DEF OnTop
<1>7. \A r \in 1..l : (r < q => At(r, TokenAt(m, r))) /\ (q <= r /\ r < l => At(r, TokenAt(m, r + 1)))
  BY <1>2, Present
<1>8. q # o + 2
  <2>1. o + 2 <= l
    BY <1>2, <1>4, <1>5
  <2> QED
    BY <1>1, <1>4, <2>1 DEF Braced
<1>9. CASE q = o + 1
  <2>1. o + 1 \in 1..l /\ q <= o + 1 /\ o + 1 < l /\ o + 1 + 1 = o + 2
    BY <1>2, <1>4, <1>5, <1>9
  <2>2. At(pos, Opening)
    BY <1>4, <1>6, <1>7, <2>1
  <2>3. ~At(pos, Word("server")) /\ pos <= Len(tokens)
    BY <2>2, NoOther, SignsDiffer DEF At
  <2>4. ~(pos > Len(tokens))
    <3>1. Len(tokens) \in Nat /\ pos \in Nat
      BY DEF Typed
    <3> QED
      BY <2>3, <3>1
  <2>5. Throw
    BY Zenon, <2>3, <2>4, TopIs, IsAt DEF Top
  <2> QED
    BY <1>1, <2>1, <1>9, <2>5, Rejected, ThrowRefuses
<1>10. CASE q > o + 2
  <2>1. o + 1 \in 1..l /\ o + 1 < q /\ o + 2 \in 1..l /\ o + 2 < q /\ pos + 1 = o + 2 /\ pos + 2 = o + 3
    BY <1>2, <1>4, <1>5, <1>6, <1>10
  <2>2. At(pos, Word("server")) /\ At(pos + 1, Opening)
    BY <1>4, <1>6, <1>7, <2>1
  <2>3. ~(pos > Len(tokens))
    <3>1. Len(tokens) \in Nat /\ pos \in Nat
      BY DEF Typed
    <3> QED
      BY <2>2, <3>1 DEF At
  <2>4. Is(pos, "server") /\ Is(pos + 1, "{")
    BY Zenon, <2>2, IsAt
  <2>5. /\ pos' = pos + 2 /\ block' = "server" /\ server' = NewServer
        /\ servers' = servers /\ verdict' = verdict
    BY Zenon, <2>3, <2>4, TopIs DEF Top
  <2>6. Due(DirectiveAt(t, k, 0) + 1, q)'
    <3>1. pos' = DirectiveAt(t, k, 0) + 1 /\ pos' <= q
      BY <1>2, <1>4, <1>6, <1>10, <2>5
    <3> QED
      BY <3>1 DEF Due
  <2>7. ServerSoFar(t, k, 0)'
    <3>1. SubSeq(b.body, 1, 0) = <<>>
      BY <1>3, Begun0
    <3>2. server' = ServerMeant(SubSeq(t[k + 1].body, 1, 0))
      BY <1>1, <2>5, <3>1, ServerBegins
    <3>3. ~\E x \in 1..0 : t[k + 1].body[x].name = "listen"
      OBVIOUS
    <3> QED
      BY <2>5, <3>2, <3>3 DEF ServerSoFar, OnTop
  <2>8. 0 \in 0..Len(t[k + 1].body)
    BY <1>1, <1>3
  <2> QED
    BY <2>5, <2>6, <2>7, <2>8 DEF Outcome, Stage, InServer
<1> QED
  BY <1>2, <1>4, <1>6, <1>8, <1>9, <1>10

\* A ";" on its own is passed over.
LEMMA SkipOn ==
    ASSUME ParserNext, block \in {"server", "location"}, NEW p, NEW q, Due(p, q), pos # p
    PROVE  /\ Due(p, q)' /\ block' = block /\ verdict' = verdict
           /\ UNCHANGED <<servers, server, listens, location>>
<1>1. At(pos, Ending)
  BY DEF Due
<1>2. SkipSemicolon
  BY <1>1, AtEnding, KnownIs
<1>3. pos' = p /\ p <= q
  BY <1>2, SkipRemains DEF Due
<1>4. Due(p, q)'
  BY <1>3 DEF Due
<1> QED
  BY <1>2, <1>4 DEF SkipSemicolon, Goto

\* Of the block of the server k + 1.
LEMMA ServerHas ==
    ASSUME NEW t, NEW q, Missing(t, q), NEW k \in 0..(Len(t) - 1)
    PROVE  /\ t[k + 1] \in Blocks(Items) /\ IsServer(t[k + 1])
           /\ t[k + 1].body \in Seq(Items) /\ Len(t[k + 1].body) \in Nat
<1>1. t[k + 1] \in Blocks(Items) /\ IsServer(t[k + 1])
  BY FileIs DEF Missing
<1>2. t[k + 1].body \in Seq(Items)
  BY <1>1, BlockIs
<1> QED
  BY <1>1, <1>2

\* Before a directive, a ";" is passed over.
LEMMA SkippedInServer ==
    ASSUME NEW t, NEW q, Missing(t, q), verdict = "none", ParserNext, block = "server", Braced(Marked(t), q),
           NEW k \in 0..(Len(t) - 1), NEW j \in 0..Len(t[k + 1].body), InServer(t, q, k, j),
           pos # DirectiveAt(t, k, j) + 1
    PROVE  Outcome(t, q)'
<1>1. PICK p : p = DirectiveAt(t, k, j) + 1
  OBVIOUS
<1>2. Due(p, q) /\ pos # p
  BY <1>1 DEF InServer
<1>3. Due(p, q)' /\ block' = "server" /\ verdict' = "none" /\ UNCHANGED <<servers, server, listens>>
  BY <1>2, SkipOn
<1>4. Due(DirectiveAt(t, k, j) + 1, q)'
  BY <1>1, <1>3 DEF Due
<1>5. ServerSoFar(t, k, j)'
  BY <1>3 DEF InServer, ServerSoFar
<1> QED
  BY <1>3, <1>4, <1>5 DEF Outcome, Stage, InServer

\* The end of a server block.
LEMMA ServerEnds ==
    ASSUME NEW t, NEW q, Missing(t, q), Typed, verdict = "none", ParserNext, block = "server", Braced(Marked(t), q),
           NEW k \in 0..(Len(t) - 1), InServer(t, q, k, Len(t[k + 1].body)),
           pos = DirectiveAt(t, k, Len(t[k + 1].body)) + 1
    PROVE  Outcome(t, q)'
<1>1. PICK l, n, m, b : l = Len(Marked(t)) /\ m = Marked(t) /\ b = t[k + 1] /\ n = Len(b.body)
  OBVIOUS
<1>2. PICK o : o = DirectiveAt(t, k, n)
  OBVIOUS
<1>3. /\ IsFile(t) /\ Lacks(m, q) /\ l \in Nat /\ q \in 1..(l + 1) /\ q \in Nat /\ tokens \in Seq(Token)
      /\ m \in Seq(Marks) /\ l = Len(m)
  BY <1>1, MissingIs DEF Missing, Typed
<1>4. b \in Blocks(Items) /\ IsServer(b) /\ b.body \in Seq(Items) /\ n \in Nat
  BY <1>1, ServerHas
<1>5. o \in Nat /\ o + 1 <= l
  <2>1. n \in 0..Len(t[k + 1].body)
    BY <1>1, <1>4
  <2> QED
    BY <1>1, <1>2, <1>3, <2>1, NextDirective
<1>6. TokenAt(m, o + 1) = Closing /\ ServerAt(t, k + 1) = o + 1
  BY <1>1, <1>2, <1>3, ServerPlace
<1>7. pos = o + 1 /\ o + 1 <= q
  BY <1>1, <1>2 DEF InServer, Due
<1>8. o + 1 < q
  <2>1. q # o + 1
    BY <1>1, <1>5, <1>6 DEF Braced
  <2> QED
    BY <1>3, <1>5, <1>7, <2>1
<1>9. At(pos, Closing)
  <2>1. o + 1 \in 1..l
    BY <1>3, <1>5
  <2> QED
    BY <1>3, <1>6, <1>7, <1>8, <2>1, Present
<1>10. EndOfServer
  BY <1>9, AtClosing, KnownIs DEF EndOfLocation
<1>11. listens = TRUE
  <2>1. PICK x \in 1..n : b.body[x].name = "listen"
    BY <1>1, <1>4 DEF IsServer
  <2> QED
    BY <1>1, <2>1 DEF InServer, ServerSoFar
<1>12. /\ servers' = Append(servers, server) /\ pos' = pos + 1 /\ block' = "top" /\ verdict' = "none"
  BY <1>10, <1>11 DEF EndOfServer
<1>13. OnTop(t, q, k + 1)'
  <2>1. pos' = ServerAt(t, k + 1) + 1 /\ pos' <= q
    BY <1>3, <1>5, <1>6, <1>7, <1>8, <1>12
  <2>2. SubSeq(b.body, 1, n) = b.body
    BY <1>1, <1>4, Begun0
  <2>3. Meant(SubSeq(t, 1, k + 1)) = Append(Meant(SubSeq(t, 1, k)), ServerMeant(t[k + 1].body))
    BY <1>3, MeantMore
  <2>4. SizesFit(t) => servers' = Meant(SubSeq(t, 1, k + 1))
    BY <1>1, <1>12, <2>2, <2>3 DEF InServer, ServerSoFar
  <2> QED
    BY <2>1, <2>4 DEF OnTop
<1>14. k + 1 \in 0..Len(t)
  BY MissingIs
<1> QED
  BY <1>12, <1>13, <1>14 DEF Outcome, Stage

LEMMA FittingSizes ==
    ASSUME NEW t, NEW q, Missing(t, q), SizesFit(t), NEW k \in 0..(Len(t) - 1),
           NEW j \in 0..(Len(t[k + 1].body) - 1)
    PROVE  /\ SizeIs(t[k + 1].body[j + 1])
           /\ t[k + 1].body[j + 1].name = "location" =>
                 \A i \in DOMAIN t[k + 1].body[j + 1].body : SizeIs(t[k + 1].body[j + 1].body[i])
<1>1. t \in Seq(Blocks(Items)) /\ Len(t) \in Nat
  BY FileIs DEF Missing
<1>2. t[k + 1].body \in Seq(Items) /\ Len(t[k + 1].body) \in Nat
  BY ServerHas
<1>3. k + 1 \in DOMAIN t
  BY <1>1
<1>4. PICK b, x : b = t[k + 1].body /\ x = j + 1
  OBVIOUS
<1>5. x \in DOMAIN b
  BY <1>2, <1>4
<1>6. Fits(b) /\ \A y \in DOMAIN b : b[y].name = "location" => Fits(b[y].body)
  BY <1>3, <1>4 DEF SizesFit
<1>7. SizeIs(b[x]) /\ (b[x].name = "location" => \A i \in DOMAIN b[x].body : SizeIs(b[x].body[i]))
  BY <1>5, <1>6 DEF Fits, SizeIs
<1> QED
  BY <1>4, <1>7

\* One directive more has been said.
LEMMA ListenSaid ==
    ASSUME NEW t, NEW k, NEW j \in Nat, ServerSoFar(t, k, j), NEW d, d = t[k + 1].body[j + 1],
           d.name = "listen" => listens' = TRUE, d.name # "listen" => listens' = listens
    PROVE  (\E x \in 1..(j + 1) : t[k + 1].body[x].name = "listen") => listens' = TRUE
<1>1. \A x \in 1..(j + 1) : x = j + 1 \/ x \in 1..j
  OBVIOUS
<1> QED
  BY <1>1 DEF ServerSoFar

LEMMA KnowsIs ==
    /\ Knows["server"] = {"listen", "server_name", "error_page", "client_max_body_size",
                          "root", "autoindex", "index", "location"}
    /\ Knows["location"] = {"root", "autoindex", "index", "client_max_body_size", "return",
                            "upload_store", "allow_methods", "cgi_ext", "cgi_pass"}
<1>1. \A x, y : [server |-> x, location |-> y]["server"] = x /\ [server |-> x, location |-> y]["location"] = y
  OBVIOUS
<1> QED
  BY Zenon, <1>1 DEF Knows

LEMMA NamesAllowed ==
    ASSUME NEW d
    PROVE  /\ OfServer(d) => d.name \in Knows["server"]
           /\ OfLocation(d) => d.name \in Knows["location"]
<1>1. OfServer(d) => d.name \in Knows["server"]
  BY KnowsIs DEF OfServer, OfEither, One
<1>2. OfLocation(d) => d.name \in Knows["location"]
  BY KnowsIs DEF OfLocation, OfEither, One
<1> QED
  BY <1>1, <1>2

\* A directive of a server.
LEMMA ServerSays ==
    ASSUME NEW t, NEW q, Missing(t, q), Typed, verdict = "none", ParserNext, block = "server", Braced(Marked(t), q),
           NEW k \in 0..(Len(t) - 1), NEW j \in 0..(Len(t[k + 1].body) - 1), InServer(t, q, k, j),
           pos = DirectiveAt(t, k, j) + 1, ~HasBody(t[k + 1].body[j + 1])
    PROVE  Outcome(t, q)'
<1>1. PICK l, n, m, b, d : /\ l = Len(Marked(t)) /\ m = Marked(t) /\ b = t[k + 1] /\ n = Len(b.body)
                           /\ d = b.body[j + 1]
  OBVIOUS
<1>2. PICK o, a : o = DirectiveAt(t, k, j) /\ a = Len(d.args)
  OBVIOUS
<1>3. /\ IsFile(t) /\ Lacks(m, q) /\ l \in Nat /\ q \in 1..(l + 1) /\ q \in Nat /\ tokens \in Seq(Token)
      /\ m \in Seq(Marks) /\ l = Len(m) /\ (q <= l => ~SpareAt(m, q))
  BY <1>1, MissingIs DEF Missing, Typed
<1>4. b \in Blocks(Items) /\ IsServer(b) /\ b.body \in Seq(Items) /\ n \in Nat /\ j \in 0..(n - 1)
  BY <1>1, ServerHas
<1>5. d \in Items /\ d \in Statements /\ OfServer(d) /\ ~HasBody(d)
  BY <1>1, <1>4, DirectiveIs
<1>6. Shaped(d) /\ d.name # "location" /\ d.name \in Names /\ d.args \in Seq(Plain) /\ a \in Nat
  <2>1. Shaped(d) /\ d.name # "location"
    BY <1>5, ShapedIs
  <2>2. d.name \in Names /\ d.args \in Seq(Plain)
    BY <2>1 DEF Shaped
  <2> QED
    BY <1>2, <2>1, <2>2
<1>7. o \in Nat /\ Stands(m, o, MarkedLocation(d)) /\ DirectiveAt(t, k, j + 1) = o + Len(MarkedLocation(d))
  BY <1>1, <1>2, <1>3, <1>4, DirectivePlace
<1>8. StatedAt(m, o, d) /\ DirectiveAt(t, k, j + 1) = o + a + 2
  BY <1>2, <1>3, <1>5, <1>7, PlainStands
<1>9. o + a + 3 <= l /\ TokenAt(m, o + a + 3) \in Openers /\ DirectiveAt(t, k, j + 1) + 1 = o + a + 3
  <2>1. j + 1 \in 0..Len(t[k + 1].body)
    <3>1. j + 1 \in 0..n
      BY Zenon, <1>4, Within
    <3> QED
      BY Zenon, <1>1, <3>1
  <2>2. DirectiveAt(t, k, j + 1) + 1 <= l /\ TokenAt(m, DirectiveAt(t, k, j + 1) + 1) \in Openers
    BY <1>1, <1>3, <2>1, NextDirective
  <2>3. o + a + 2 + 1 = o + a + 3
    BY <1>6, <1>7
  <2> QED
    BY <1>8, <2>2, <2>3
<1>10. Due(o + 1, q) /\ ServerSoFar(t, k, j) /\ pos = o + 1
  BY <1>2 DEF InServer
<1>11. CASE Refuses
  <2>1. ASSUME q = l + 1 PROVE FALSE
    <3>1. Reads(o + 1, d)
      <4>1. o + a + 2 < q
        BY <1>3, <1>6, <1>7, <1>9, <2>1
      <4>2. o + Len(d.args) + 2 < q
        BY <1>2, <4>1
      <4> QED
        BY <1>3, <1>6, <1>7, <1>8, <4>2, WholeReads
    <3>2. At(pos, Word(d.name)) /\ Reads(pos, d)
      BY <1>10, <3>1 DEF Reads
    <3>3. Deed(d.name)
      <4>1. ~Unknown
        BY <1>5, <3>2, NamesAllowed, KnownIs
      <4> QED
        BY <1>6, <3>2, <4>1, AtName
    <3>4. TakenIn(d)
      BY <1>5, <3>2, <3>3, ServerTakenIn DEF Typed
    <3> QED
      BY <1>11, <3>4 DEF TakenIn, Refuses
  <2> QED
    BY <1>1, <1>3, <1>11, <2>1, MissingIs, Rejected
<1>12. ~(Remains /\ SkipSemicolon /\ Due(o + 1, q)')
  <2>1. ASSUME SkipSemicolon, Due(o + 1, q)' PROVE FALSE
    <3>1. pos' = o + 1 + 1
      BY <1>10, <2>1, SkipRemains
    <3>2. pos' = o + 1 \/ pos' + 1 = o + 1
      BY <2>1 DEF Due
    <3> QED
      BY <1>7, <3>1, <3>2
  <2> QED
    BY <2>1
<1>13. CASE Reads(o + 1, d) /\ Deed(d.name) /\ Remains /\ Due(o + a + 3, q)'
  <2>1. TakenIn(d)
    BY <1>5, <1>10, <1>13, ServerTakenIn DEF Typed
  <2>2. block' = "server" /\ servers' = servers /\ verdict' = "none"
    BY <1>13 DEF Remains
  <2>3. Due(DirectiveAt(t, k, j + 1) + 1, q)'
    BY <1>9, <1>13 DEF Due
  <2>4. ServerSoFar(t, k, j + 1)'
    <3>1. (\E x \in 1..(j + 1) : t[k + 1].body[x].name = "listen") => listens' = TRUE
      <4>1. /\ d.name = "listen" => listens' = TRUE
            /\ d.name # "listen" => listens' = listens
        BY <2>1 DEF TakenIn
      <4>2. j \in Nat /\ d = t[k + 1].body[j + 1]
        BY <1>1, <1>4
      <4> QED
        BY Zenon, <1>10, <4>1, <4>2, ListenSaid
    <3>2. SubSeq(b.body, 1, j) \in Seq(Items) /\ SubSeq(b.body, 1, j + 1) = Append(SubSeq(b.body, 1, j), d)
      BY <1>1, <1>4, Shorter
    <3>3. SizesFit(t) => server' = ServerMeant(SubSeq(b.body, 1, j + 1))
      <4>1. SizesFit(t) => SizeIs(d)
        BY <1>1, <1>4, FittingSizes
      <4>2. SizesFit(t) => server = ServerMeant(SubSeq(b.body, 1, j))
        BY <1>1, <1>10 DEF ServerSoFar
      <4> QED
        BY <2>1, <3>2, <4>1, <4>2 DEF TakenIn
    <3> QED
      BY <1>1, <1>10, <2>2, <3>1, <3>3 DEF ServerSoFar
  <2>5. j + 1 \in 0..Len(t[k + 1].body)
    BY <1>1, <1>4
  <2> QED
    BY <2>2, <2>3, <2>4, <2>5 DEF Outcome, Stage, InServer
<1>14. \/ Refuses
       \/ Remains /\ SkipSemicolon /\ Due(o + 1, q)'
       \/ pos = o + 1 /\ Reads(o + 1, d) /\ Deed(d.name) /\ Remains /\ Due(o + Len(d.args) + 3, q)'
  <2>1. o + Len(d.args) + 3 <= Len(m) /\ TokenAt(m, o + Len(d.args) + 3) \in Openers
    BY <1>2, <1>3, <1>9
  <2> QED
    BY <1>3, <1>6, <1>7, <1>8, <1>10, <2>1, StatementPassed
<1> QED
  BY <1>2, <1>11, <1>12, <1>13, <1>14

LEMMA BeginIs ==
    Deed("location") => /\ BeginLocation
                        /\ At(pos + 1, Opening) => Refuses
                        /\ pos + 1 <= Len(tokens) /\ ~At(pos + 1, Opening) /\ At(pos + 2, Opening) =>
                             /\ location' = NewLocation(PathOf(Arg)) /\ pos' = pos + 3 /\ block' = "location"
                             /\ UNCHANGED <<server, listens, servers, verdict>>
<1>1. Deed("location") => BeginLocation
  BY DEF Deed
<1>2. BeginLocation /\ At(pos + 1, Opening) => Refuses
  BY Zenon, IsAt, ThrowRefuses DEF BeginLocation
<1>3. BeginLocation /\ pos + 1 <= Len(tokens) /\ ~At(pos + 1, Opening) /\ At(pos + 2, Opening) =>
        /\ location' = NewLocation(PathOf(Arg)) /\ pos' = pos + 3 /\ block' = "location"
        /\ UNCHANGED <<tokens, server, listens, servers, verdict>>
  BY Zenon, IsAt DEF BeginLocation
<1>4. UNCHANGED <<tokens, server, listens, servers, verdict>> => UNCHANGED <<server, listens, servers, verdict>>
  OBVIOUS
<1> QED
  BY Zenon, <1>1, <1>2, <1>3, <1>4

\* A location begins.
LEMMA LocationStarts ==
    ASSUME NEW t, NEW q, Missing(t, q), Typed, verdict = "none", ParserNext, block = "server", Braced(Marked(t), q),
           NEW k \in 0..(Len(t) - 1), NEW j \in 0..(Len(t[k + 1].body) - 1), InServer(t, q, k, j),
           pos = DirectiveAt(t, k, j) + 1, HasBody(t[k + 1].body[j + 1])
    PROVE  Outcome(t, q)'
<1>1. PICK l, n, m, b, d : /\ l = Len(Marked(t)) /\ m = Marked(t) /\ b = t[k + 1] /\ n = Len(b.body)
                           /\ d = b.body[j + 1]
  OBVIOUS
<1>2. PICK o, x : o = DirectiveAt(t, k, j) /\ x = d.args[1]
  OBVIOUS
<1>3. /\ IsFile(t) /\ Lacks(m, q) /\ l \in Nat /\ q \in 1..(l + 1) /\ q \in Nat /\ tokens \in Seq(Token)
      /\ m \in Seq(Marks) /\ l = Len(m)
  BY <1>1, MissingIs DEF Missing, Typed
<1>4. b \in Blocks(Items) /\ IsServer(b) /\ b.body \in Seq(Items) /\ n \in Nat /\ j \in 0..(n - 1)
  BY <1>1, ServerHas
<1>5. d \in Items /\ HasBody(d) /\ IsLocation(d) /\ d.body \in Seq(Statements)
  BY <1>1, <1>4, DirectiveIs
<1>6. d.name = "location" /\ "path" \in DOMAIN x /\ x \in Plain /\ x \in Token
  <2>1. d.name = "location" /\ "path" \in DOMAIN x /\ Len(d.args) = 1 /\ d.args \in Seq(Plain)
    BY <1>2, <1>5, ItemIs DEF IsLocation, One
  <2>2. x \in Plain
    BY <1>2, <2>1
  <2> QED
    BY <2>1, <2>2 DEF Plain
<1>7. o \in Nat /\ Stands(m, o, MarkedLocation(d))
  BY <1>1, <1>2, <1>3, <1>4, DirectivePlace
<1>8. /\ TokenAt(m, o + 1) = Word("location") /\ TokenAt(m, o + 2) = x /\ TokenAt(m, o + 3) = Opening
      /\ o + 3 + Upto(StatementsOf(d), 0) = o + 3
  BY <1>2, <1>3, <1>5, <1>7, LocationStands
<1>9. o + 4 <= l
  <2>1. 0 \in 0..Len(d.body)
    BY <1>5
  <2>2. o + 3 + Upto(StatementsOf(d), 0) + 1 <= Len(m)
    BY <1>3, <1>5, <1>7, <2>1, NextStatement
  <2> QED
    BY <1>3, <1>7, <1>8, <2>2
<1>10. ServerSoFar(t, k, j) /\ pos = o + 1 /\ o + 1 <= q
  BY <1>2 DEF InServer, Due
<1>11. \A r \in 1..l : (r < q => At(r, TokenAt(m, r))) /\ (q <= r /\ r < l => At(r, TokenAt(m, r + 1)))
  BY <1>3, Present
<1>12. q # o + 3
  <2>1. o + 3 <= l
    BY <1>3, <1>7, <1>9
  <2> QED
    BY <1>1, <1>8, <2>1 DEF Braced
<1>13. x # Opening /\ x \notin {Word(n2) : n2 \in Names}
  <2>1. x # Opening
    BY <1>6, SignsDiffer
  <2>2. \A n2 : "path" \notin DOMAIN Word(n2)
    BY DEF Word
  <2> QED
    BY <1>6, <2>1, <2>2
<1>14. CASE q = o + 1
  <2>1. o + 1 \in 1..l /\ q <= o + 1 /\ o + 1 < l /\ o + 1 + 1 = o + 2 /\ q <= l
    BY <1>3, <1>7, <1>9, <1>14
  <2>2. At(pos, x)
    BY <1>8, <1>10, <1>11, <2>1
  <2>3. Refuses
    BY <1>6, <1>13, <2>2, NameLacks
  <2> QED
    BY <1>1, <2>1, <2>3, Rejected
<1>15. CASE o + 1 < q
  <2>1. At(pos, Word("location"))
    <3>1. o + 1 \in 1..l
      BY <1>3, <1>7, <1>9
    <3> QED
      BY <1>8, <1>10, <1>11, <1>15, <3>1
  <2>2. Deed("location")
    <3>1. "location" \in Knows["server"] /\ "location" \in Names
      BY KnowsIs DEF Names
    <3> QED
      BY <2>1, <3>1, AtName, KnownIs
  <2>3. CASE q = o + 2
    <3>1. o + 2 \in 1..l /\ q <= o + 2 /\ o + 2 < l /\ o + 2 + 1 = o + 3 /\ q <= l /\ pos + 1 = o + 2
      <4>1. o \in Nat /\ l \in Nat /\ o + 4 <= l /\ pos = o + 1 /\ q = o + 2
        BY Zenon, <1>3, <1>7, <1>9, <1>10, <2>3
      <4> QED
        BY ONLY <4>1
    <3>2. At(pos + 1, Opening)
      BY <1>8, <1>11, <3>1
    <3> QED
      BY <1>1, <2>2, <3>1, <3>2, BeginIs, Rejected
  <2>4. CASE o + 3 < q
    <3>1. /\ o + 2 \in 1..l /\ o + 2 < q /\ o + 3 \in 1..l /\ o + 3 < q /\ pos + 1 = o + 2 /\ pos + 2 = o + 3
          /\ pos + 3 = o + 3 + 1 /\ o + 3 + 1 <= q
      <4>1. o + 2 \in 1..l /\ o + 3 \in 1..l
        BY <1>3, <1>7, <1>9
      <4>2. o + 2 < q /\ o + 3 + 1 <= q
        BY Zenon, <1>3, <1>7, <2>4, Behind
      <4>3. pos + 1 = o + 2 /\ pos + 2 = o + 3 /\ pos + 3 = o + 3 + 1
        BY <1>7, <1>10
      <4> QED
        BY <2>4, <4>1, <4>2, <4>3
    <3>2. At(pos + 1, x) /\ At(pos + 2, Opening)
      BY <1>8, <1>11, <3>1
    <3>3. pos + 1 <= Len(tokens) /\ ~At(pos + 1, Opening) /\ Arg = x
      BY <1>13, <3>2 DEF At, Arg
    <3>4. /\ location' = NewLocation(PathOf(x)) /\ pos' = pos + 3 /\ block' = "location"
          /\ UNCHANGED <<server, listens, servers, verdict>>
      BY Zenon, <2>2, <3>2, <3>3, BeginIs
    <3>5. StatementAt(t, k, j, 0) + 1 = o + 3 + 1
      BY Zenon, <1>1, <1>2, <1>8 DEF StatementAt
    <3>6. Due(StatementAt(t, k, j, 0) + 1, q)'
      BY <3>1, <3>4, <3>5 DEF Due
    <3>7. ServerSoFar(t, k, j)'
      BY <1>10, <3>4 DEF ServerSoFar
    <3>8. LocationSoFar(d, 0)'
      <4>1. SubSeq(d.body, 1, 0) = <<>>
        BY <1>5, Begun0
      <4>2. PathOf(x) = d.args[1].path
        BY <1>2, <1>6, KindsDiffer
      <4>3. location' = LocationMeant(d.args[1].path, <<>>)
        BY <3>4, <4>2, LocationBegins
      <4> QED
        BY <4>1, <4>3 DEF LocationSoFar
    <3>9. 0 \in 0..Len(t[k + 1].body[j + 1].body)
      <4>1. 0 \in 0..Len(d.body)
        BY <1>5
      <4> QED
        BY Zenon, <1>1, <4>1
    <3>10. InLocation(t, q, k, j, 0)'
      BY <1>1, <1>5, <3>6, <3>7, <3>8 DEF InLocation
    <3> QED
      BY <3>4, <3>9, <3>10 DEF Outcome, Stage
  <2> QED
    BY <1>3, <1>7, <1>12, <1>15, <2>3, <2>4
<1> QED
  BY <1>3, <1>7, <1>10, <1>14, <1>15

\* And before a statement.
LEMMA SkippedInLocation ==
    ASSUME NEW t, NEW q, Missing(t, q), verdict = "none", ParserNext, block = "location", Braced(Marked(t), q),
           NEW k \in 0..(Len(t) - 1), NEW j \in 0..(Len(t[k + 1].body) - 1),
           NEW i \in 0..Len(t[k + 1].body[j + 1].body), InLocation(t, q, k, j, i),
           pos # StatementAt(t, k, j, i) + 1
    PROVE  Outcome(t, q)'
<1>1. PICK p : p = StatementAt(t, k, j, i) + 1
  OBVIOUS
<1>2. Due(p, q) /\ pos # p
  BY <1>1 DEF InLocation
<1>3. Due(p, q)' /\ block' = "location" /\ verdict' = "none" /\ UNCHANGED <<servers, server, listens, location>>
  BY <1>2, SkipOn
<1>4. Due(StatementAt(t, k, j, i) + 1, q)'
  BY <1>1, <1>3 DEF Due
<1>5. ServerSoFar(t, k, j)' /\ (SizesFit(t) => LocationSoFar(t[k + 1].body[j + 1], i))'
  BY <1>3 DEF InLocation, ServerSoFar, LocationSoFar
<1>6. InLocation(t, q, k, j, i)'
  BY <1>4, <1>5 DEF InLocation
<1> QED
  BY <1>3, <1>6 DEF Outcome, Stage

\* Of the location that is directive j + 1 of the server k + 1.
\* The directive j + 1 of block k + 1 is the location d, of n statements, behind o in m.
Located(t, k, j, d, n, m, o) ==
    /\ d \in Items /\ IsLocation(d) /\ d.name = "location" /\ d.body \in Seq(Statements)
    /\ n \in Nat
    /\ o \in Nat /\ Stands(m, o, MarkedLocation(d))
    /\ DirectiveAt(t, k, j + 1) = o + Len(MarkedLocation(d))
    /\ \A i : StatementAt(t, k, j, i) = o + 3 + Upto(StatementsOf(d), i)

LEMMA LocationHas ==
    ASSUME NEW t, NEW q, Missing(t, q), NEW k \in 0..(Len(t) - 1), NEW j \in 0..(Len(t[k + 1].body) - 1),
           NEW d, d = t[k + 1].body[j + 1], HasBody(d), NEW n, n = Len(d.body),
           NEW m, m = Marked(t), NEW o, o = DirectiveAt(t, k, j)
    PROVE  Located(t, k, j, d, n, m, o)
<1>1. PICK b : b = t[k + 1] /\ d = b.body[j + 1]
  OBVIOUS
<1>2. b \in Blocks(Items) /\ IsServer(b) /\ j \in 0..(Len(b.body) - 1)
  BY <1>1, ServerHas
<1>3. d \in Items /\ IsLocation(d) /\ d.body \in Seq(Statements)
  BY <1>1, <1>2, DirectiveIs
<1>4. Len(d.body) \in Nat
  BY <1>3
<1>5. d.name = "location"
  BY <1>3 DEF IsLocation, One
<1>6. /\ DirectiveAt(t, k, j) \in Nat /\ Stands(Marked(t), DirectiveAt(t, k, j), MarkedLocation(d))
      /\ DirectiveAt(t, k, j + 1) = DirectiveAt(t, k, j) + Len(MarkedLocation(d))
  BY <1>1, <1>2, DirectivePlace DEF Missing
<1>7. \A i : StatementAt(t, k, j, i) = DirectiveAt(t, k, j) + 3 + Upto(StatementsOf(d), i)
  BY Zenon, <1>1 DEF StatementAt
<1> QED
  BY Zenon, <1>3, <1>4, <1>5, <1>6, <1>7 DEF Located

\* The end of a location.
LEMMA LocationEnds ==
    ASSUME NEW t, NEW q, Missing(t, q), Typed, verdict = "none", ParserNext, block = "location",
           Braced(Marked(t), q), NEW k \in 0..(Len(t) - 1), NEW j \in 0..(Len(t[k + 1].body) - 1),
           InLocation(t, q, k, j, Len(t[k + 1].body[j + 1].body)),
           pos = StatementAt(t, k, j, Len(t[k + 1].body[j + 1].body)) + 1
    PROVE  Outcome(t, q)'
<1>1. PICK l, m, b, d, n : /\ l = Len(Marked(t)) /\ m = Marked(t) /\ b = t[k + 1] /\ d = b.body[j + 1]
                           /\ n = Len(d.body)
  OBVIOUS
<1>2. PICK u, o : u = DirectiveAt(t, k, j) /\ o = StatementAt(t, k, j, n)
  OBVIOUS
<1>3. /\ IsFile(t) /\ Lacks(m, q) /\ l \in Nat /\ q \in 1..(l + 1) /\ q \in Nat /\ tokens \in Seq(Token)
      /\ m \in Seq(Marks) /\ l = Len(m)
  BY <1>1, MissingIs DEF Missing, Typed
<1>4. HasBody(d)
  BY <1>1 DEF InLocation
<1>20. Located(t, k, j, d, n, m, u)
  <2>1. d = t[k + 1].body[j + 1] /\ n = Len(d.body) /\ m = Marked(t) /\ u = DirectiveAt(t, k, j)
    BY Zenon, <1>1, <1>2
  <2> QED
    BY Zenon, <1>4, <2>1, LocationHas
<1>5. /\ d \in Items /\ IsLocation(d) /\ d.name = "location" /\ d.body \in Seq(Statements) /\ n \in Nat
      /\ u \in Nat /\ Stands(m, u, MarkedLocation(d)) /\ DirectiveAt(t, k, j + 1) = u + Len(MarkedLocation(d))
      /\ o = u + 3 + Upto(StatementsOf(d), n)
  <2>1. /\ d \in Items /\ IsLocation(d) /\ d.name = "location" /\ d.body \in Seq(Statements) /\ n \in Nat
        /\ u \in Nat /\ Stands(m, u, MarkedLocation(d)) /\ DirectiveAt(t, k, j + 1) = u + Len(MarkedLocation(d))
        /\ \A y : StatementAt(t, k, j, y) = u + 3 + Upto(StatementsOf(d), y)
    BY Zenon, <1>20 DEF Located
  <2> QED
    BY Zenon, <1>2, <2>1
<1>6. /\ o \in Nat /\ TokenAt(m, o + 1) = Closing /\ u + Len(MarkedLocation(d)) = o + 1
      /\ u + Len(MarkedLocation(d)) <= Len(m)
  <2>1. PICK v : v = u + 3 + Upto(StatementsOf(d), Len(d.body))
    OBVIOUS
  <2>2. /\ v \in Nat /\ TokenAt(m, v + 1) = Closing /\ u + Len(MarkedLocation(d)) = v + 1
        /\ u + Len(MarkedLocation(d)) <= Len(m)
    BY Zenon, <1>3, <1>4, <1>5, <2>1, LocationStands
  <2>3. v = o
    BY Zenon, <1>1, <1>5, <2>1
  <2> QED
    BY Zenon, <2>2, <2>3
<1>7. o + 1 <= l /\ DirectiveAt(t, k, j + 1) = o + 1
  BY <1>3, <1>5, <1>6
<1>8. pos = o + 1 /\ o + 1 <= q /\ ServerSoFar(t, k, j) /\ (SizesFit(t) => LocationSoFar(d, n))
  BY <1>1, <1>2 DEF InLocation, Due
<1>9. o + 1 < q
  <2>1. q # o + 1
    BY <1>1, <1>6, <1>7 DEF Braced
  <2> QED
    BY <1>3, <1>6, <1>8, <2>1
<1>10. At(pos, Closing)
  <2>1. o + 1 \in 1..l
    BY <1>3, <1>6, <1>7
  <2> QED
    BY <1>3, <1>6, <1>8, <1>9, <2>1, Present
<1>11. EndOfLocation
  BY <1>10, AtClosing, KnownIs DEF EndOfServer
<1>12. /\ server' = [server EXCEPT !.locations = Append(@, location)] /\ pos' = pos + 1 /\ block' = "server"
       /\ UNCHANGED <<listens, servers, verdict>>
  BY <1>11 DEF EndOfLocation
<1>13. Due(DirectiveAt(t, k, j + 1) + 1, q)'
  <2>1. pos' = DirectiveAt(t, k, j + 1) + 1 /\ DirectiveAt(t, k, j + 1) + 1 <= q
    BY <1>3, <1>6, <1>7, <1>8, <1>9, <1>12
  <2> QED
    BY <2>1 DEF Due
<1>14. b.body \in Seq(Items) /\ j \in Nat /\ j \in 0..(Len(b.body) - 1)
  BY <1>1, ServerHas
<1>15. ServerSoFar(t, k, j + 1)'
  <2>1. (\E x \in 1..(j + 1) : t[k + 1].body[x].name = "listen") => listens' = TRUE
    <3>1. /\ d.name = "listen" => listens' = TRUE
          /\ d.name # "listen" => listens' = listens
      BY <1>5, <1>12
    <3>2. d = t[k + 1].body[j + 1]
      BY <1>1
    <3> QED
      BY Zenon, <1>8, <1>14, <3>1, <3>2, ListenSaid
  <2>2. SubSeq(b.body, 1, j) \in Seq(Items) /\ SubSeq(b.body, 1, j + 1) = Append(SubSeq(b.body, 1, j), d)
    BY <1>1, <1>14, Shorter
  <2>3. PICK s : s = SubSeq(b.body, 1, j)
    OBVIOUS
  <2>4. ServerMeant(Append(s, d)) = [ServerMeant(s) EXCEPT !.locations = Append(@, LocationOf(d))]
    BY <1>5, <2>2, <2>3, ServerMore
  <2>5. SizesFit(t) => server = ServerMeant(s) /\ location = LocationOf(d)
    <3>1. SubSeq(d.body, 1, n) = d.body
      BY <1>1, <1>5, Begun0
    <3> QED
      BY <1>1, <1>8, <2>3, <3>1 DEF ServerSoFar, LocationSoFar, LocationOf
  <2>6. SizesFit(t) => server' = ServerMeant(SubSeq(b.body, 1, j + 1))
    BY <1>12, <2>2, <2>3, <2>4, <2>5
  <2> QED
    BY <1>1, <1>8, <1>12, <2>1, <2>6 DEF ServerSoFar
<1>16. j + 1 \in 0..Len(t[k + 1].body)
  BY <1>1, <1>14
<1> QED
  BY <1>12, <1>13, <1>15, <1>16 DEF Outcome, Stage, InServer

\* A statement of a location.
LEMMA LocationSays ==
    ASSUME NEW t, NEW q, Missing(t, q), Typed, verdict = "none", ParserNext, block = "location",
           Braced(Marked(t), q), NEW k \in 0..(Len(t) - 1), NEW j \in 0..(Len(t[k + 1].body) - 1),
           NEW i \in 0..(Len(t[k + 1].body[j + 1].body) - 1), InLocation(t, q, k, j, i),
           pos = StatementAt(t, k, j, i) + 1
    PROVE  Outcome(t, q)'
<1>1. PICK l, m, b, d, n, e : /\ l = Len(Marked(t)) /\ m = Marked(t) /\ b = t[k + 1] /\ d = b.body[j + 1]
                              /\ n = Len(d.body) /\ e = d.body[i + 1]
  OBVIOUS
<1>2. PICK u, o, a : u = DirectiveAt(t, k, j) /\ o = StatementAt(t, k, j, i) /\ a = Len(e.args)
  OBVIOUS
<1>3. /\ IsFile(t) /\ Lacks(m, q) /\ l \in Nat /\ q \in 1..(l + 1) /\ q \in Nat /\ tokens \in Seq(Token)
      /\ m \in Seq(Marks) /\ l = Len(m) /\ (q <= l => ~SpareAt(m, q))
  BY <1>1, MissingIs DEF Missing, Typed
<1>4. HasBody(d)
  BY <1>1 DEF InLocation
<1>20. Located(t, k, j, d, n, m, u)
  <2>1. d = t[k + 1].body[j + 1] /\ n = Len(d.body) /\ m = Marked(t) /\ u = DirectiveAt(t, k, j)
    BY Zenon, <1>1, <1>2
  <2> QED
    BY Zenon, <1>4, <2>1, LocationHas
<1>5. /\ d \in Items /\ IsLocation(d) /\ d.name = "location" /\ d.body \in Seq(Statements) /\ n \in Nat
      /\ u \in Nat /\ Stands(m, u, MarkedLocation(d))
      /\ \A y : StatementAt(t, k, j, y) = u + 3 + Upto(StatementsOf(d), y)
  BY Zenon, <1>20 DEF Located
<1>6. i \in 0..(n - 1) /\ i + 1 \in 1..n /\ i + 1 \in 0..n
  <2>1. i \in 0..(n - 1)
    BY Zenon, <1>1
  <2> QED
    BY Zenon, <1>5, <2>1, Within
<1>7. e \in Statements /\ OfLocation(e) /\ e \in Items
  BY <1>1, <1>5, <1>6, StatementOf DEF Items
<1>8. Shaped(e) /\ e.name # "location" /\ e.name \in Names /\ e.args \in Seq(Plain) /\ a \in Nat
  <2>1. Shaped(e) /\ e.name # "location"
    BY <1>7, ShapedIs
  <2>2. e.name \in Names /\ e.args \in Seq(Plain)
    BY <2>1 DEF Shaped
  <2> QED
    BY <1>2, <2>1, <2>2
<1>9. o \in Nat /\ StatedAt(m, o, e) /\ StatementAt(t, k, j, i + 1) = o + a + 2
  <2>1. o = u + 3 + Upto(StatementsOf(d), i)
    BY <1>2, <1>5
  <2>2. /\ u + 3 + Upto(StatementsOf(d), i) \in Nat
        /\ StatedAt(m, u + 3 + Upto(StatementsOf(d), i), e)
        /\ u + 3 + Upto(StatementsOf(d), i + 1) = u + 3 + Upto(StatementsOf(d), i) + Len(e.args) + 2
    <3>1. i \in 0..(Len(d.body) - 1) /\ d.body[i + 1] = e
      BY <1>1, <1>6
    <3>2. /\ u + 3 + Upto(StatementsOf(d), i) \in Nat
          /\ StatedAt(m, u + 3 + Upto(StatementsOf(d), i), d.body[i + 1])
          /\ u + 3 + Upto(StatementsOf(d), i + 1) = u + 3 + Upto(StatementsOf(d), i) + Len(d.body[i + 1].args) + 2
      BY <1>3, <1>4, <1>5, <3>1, StatementsStand
    <3> QED
      BY Zenon, <3>1, <3>2
  <2> QED
    BY Zenon, <1>2, <1>5, <2>1, <2>2
<1>10. o + a + 3 <= l /\ TokenAt(m, o + a + 3) \in Openers /\ StatementAt(t, k, j, i + 1) + 1 = o + a + 3
  <2>1. PICK p : p = u + 3 + Upto(StatementsOf(d), i + 1)
    OBVIOUS
  <2>2. p + 1 <= Len(m) /\ TokenAt(m, p + 1) \in Openers
    BY <1>1, <1>3, <1>4, <1>5, <1>6, <2>1, NextStatement
  <2>3. p = o + a + 2
    BY <1>5, <1>9, <2>1
  <2>4. o + a + 2 + 1 = o + a + 3
    BY <1>8, <1>9
  <2> QED
    BY <1>3, <1>9, <2>2, <2>3, <2>4
<1>11. Due(o + 1, q) /\ ServerSoFar(t, k, j) /\ (SizesFit(t) => LocationSoFar(d, i)) /\ pos = o + 1
  BY <1>1, <1>2 DEF InLocation
<1>12. CASE Refuses
  <2>1. ASSUME q = l + 1 PROVE FALSE
    <3>1. Reads(o + 1, e)
      <4>1. o + a + 2 < q
        BY <1>3, <1>8, <1>9, <1>10, <2>1
      <4>2. o + Len(e.args) + 2 < q
        BY <1>2, <4>1
      <4> QED
        BY <1>3, <1>8, <1>9, <4>2, WholeReads
    <3>2. At(pos, Word(e.name)) /\ Reads(pos, e)
      BY <1>11, <3>1 DEF Reads
    <3>3. Deed(e.name)
      <4>1. ~Unknown
        BY <1>7, <3>2, NamesAllowed, KnownIs
      <4> QED
        BY <1>8, <3>2, <4>1, AtName
    <3>4. TakenInside(e)
      BY <1>7, <3>2, <3>3, LocationTakenIn DEF Typed
    <3> QED
      BY <1>12, <3>4 DEF TakenInside, Refuses
  <2> QED
    BY <1>1, <1>3, <1>12, <2>1, MissingIs, Rejected
<1>13. ~(Remains /\ SkipSemicolon /\ Due(o + 1, q)')
  <2>1. ASSUME SkipSemicolon, Due(o + 1, q)' PROVE FALSE
    <3>1. pos' = o + 1 + 1
      BY <1>11, <2>1, SkipRemains
    <3>2. pos' = o + 1 \/ pos' + 1 = o + 1
      BY <2>1 DEF Due
    <3> QED
      BY <1>9, <3>1, <3>2
  <2> QED
    BY <2>1
<1>14. CASE Reads(o + 1, e) /\ Deed(e.name) /\ Remains /\ Due(o + a + 3, q)'
  <2>1. TakenInside(e)
    BY <1>7, <1>11, <1>14, LocationTakenIn DEF Typed
  <2>2. block' = "location" /\ servers' = servers /\ server' = server /\ listens' = listens /\ verdict' = "none"
    BY <1>14, <2>1 DEF Remains, TakenInside
  <2>3. Due(StatementAt(t, k, j, i + 1) + 1, q)'
    BY <1>10, <1>14 DEF Due
  <2>4. ServerSoFar(t, k, j)'
    BY <1>11, <2>2 DEF ServerSoFar
  <2>5. SizesFit(t) => LocationSoFar(d, i + 1)'
    <3>1. SubSeq(d.body, 1, i) \in Seq(Items) /\ SubSeq(d.body, 1, i + 1) = Append(SubSeq(d.body, 1, i), e)
      <4>1. d.body \in Seq(Items)
        <5>1. Statements \subseteq Items
          BY DEF Items
        <5> QED
          BY <1>5, <5>1, MoreToHold
      <4> QED
        BY <1>1, <1>6, <4>1, Shorter
    <3>2. SizesFit(t) => SizeIs(e)
      <4>1. DOMAIN d.body = 1..n
        BY Zenon, <1>1, <1>5, LenProperties
      <4>2. i + 1 \in DOMAIN d.body
        BY Zenon, <1>6, <4>1
      <4> QED
        BY <1>1, <1>5, <4>2, FittingSizes
    <3>3. SizesFit(t) => location = LocationMeant(d.args[1].path, SubSeq(d.body, 1, i))
      BY <1>11 DEF LocationSoFar
    <3> QED
      BY <2>1, <3>1, <3>2, <3>3 DEF TakenInside, LocationSoFar
  <2>6. i + 1 \in 0..Len(t[k + 1].body[j + 1].body)
    BY Zenon, <1>1, <1>6
  <2>7. InLocation(t, q, k, j, i + 1)'
    BY <1>1, <1>4, <2>3, <2>4, <2>5 DEF InLocation
  <2> QED
    BY <2>2, <2>6, <2>7 DEF Outcome, Stage
<1>15. \/ Refuses
       \/ Remains /\ SkipSemicolon /\ Due(o + 1, q)'
       \/ pos = o + 1 /\ Reads(o + 1, e) /\ Deed(e.name) /\ Remains /\ Due(o + Len(e.args) + 3, q)'
  <2>1. o + Len(e.args) + 3 <= Len(m) /\ TokenAt(m, o + Len(e.args) + 3) \in Openers
    BY <1>2, <1>3, <1>10
  <2> QED
    BY <1>3, <1>8, <1>9, <1>11, <2>1, StatementPassed
<1> QED
  BY <1>2, <1>12, <1>13, <1>14, <1>15

-----------------------------------------------------------------------------
(* The theorems *)

LEMMA TokensStay == ParserNext => tokens' = tokens
<1> USE DEF Throw, Goto
<1>1. CountBraces \/ Top \/ EndOfServer \/ SkipSemicolon \/ BeginLocation \/ EndOfLocation \/ Unknown
      => tokens' = tokens
  BY DEF CountBraces, Top, EndOfServer, SkipSemicolon, BeginLocation, EndOfLocation, Unknown
<1>2. ParseListen \/ ParseServerName \/ ParseErrorPage \/ ParseClientMaxBodySize => tokens' = tokens
  BY DEF ParseListen, ParseServerName, ParseErrorPage, ParseClientMaxBodySize
<1>3. ParseRoot \/ ParseAutoindex \/ ParseIndex \/ ParseReturn => tokens' = tokens
  BY DEF ParseRoot, ParseAutoindex, ParseIndex, ParseReturn
<1>4. ParseUploadStore \/ ParseAllowMethods \/ ParseCgi => tokens' = tokens
  BY DEF ParseUploadStore, ParseAllowMethods, ParseCgi
<1> QED
  BY <1>1, <1>2, <1>3, <1>4 DEF ParserNext

\* Wherever the parser is, it goes on as it should.
LEMMA StageNext ==
    ASSUME NEW t, NEW q, Missing(t, q), Typed, verdict = "none", ParserNext, Stage(t, q)
    PROVE  Outcome(t, q)'
<1>1. CASE block = "file" /\ pos = 1 /\ servers = <<>>
  BY <1>1, FileStep
<1>2. ASSUME block = "top", Braced(Marked(t), q), NEW k \in 0..Len(t), OnTop(t, q, k) PROVE Outcome(t, q)'
  <2>1. k = Len(t) \/ k \in 0..(Len(t) - 1)
    BY MissingIs
  <2> QED
    BY <1>2, <2>1, TopEnds, TopGoesOn
<1>3. ASSUME block = "server", Braced(Marked(t), q), NEW k \in 0..(Len(t) - 1), NEW j \in 0..Len(t[k + 1].body),
             InServer(t, q, k, j)
      PROVE  Outcome(t, q)'
  <2>1. j = Len(t[k + 1].body) \/ j \in 0..(Len(t[k + 1].body) - 1)
    BY ServerHas
  <2>2. CASE pos # DirectiveAt(t, k, j) + 1
    BY <1>3, <2>2, SkippedInServer
  <2>3. CASE pos = DirectiveAt(t, k, j) + 1 /\ j = Len(t[k + 1].body)
    BY <1>3, <2>3, ServerEnds
  <2>4. CASE pos = DirectiveAt(t, k, j) + 1 /\ j \in 0..(Len(t[k + 1].body) - 1)
    BY <1>3, <2>4, ServerSays, LocationStarts
  <2> QED
    BY <2>1, <2>2, <2>3, <2>4
<1>4. ASSUME block = "location", Braced(Marked(t), q), NEW k \in 0..(Len(t) - 1),
             NEW j \in 0..(Len(t[k + 1].body) - 1), NEW i \in 0..Len(t[k + 1].body[j + 1].body),
             InLocation(t, q, k, j, i)
      PROVE  Outcome(t, q)'
  <2>1. PICK n : n = Len(t[k + 1].body[j + 1].body)
    OBVIOUS
  <2>2. n \in Nat
    <3>1. HasBody(t[k + 1].body[j + 1])
      BY <1>4 DEF InLocation
    <3> QED
      <4>1. Located(t, k, j, t[k + 1].body[j + 1], n, Marked(t), DirectiveAt(t, k, j))
        BY Zenon, <2>1, <3>1, LocationHas
      <4> QED
        BY Zenon, <4>1 DEF Located
  <2>3. i = n \/ i \in 0..(n - 1)
    BY <2>1, <2>2
  <2>4. CASE pos # StatementAt(t, k, j, i) + 1
    BY <1>4, <2>4, SkippedInLocation
  <2>5. CASE pos = StatementAt(t, k, j, i) + 1 /\ i = n
    BY <1>4, <2>1, <2>5, LocationEnds
  <2>6. CASE pos = StatementAt(t, k, j, i) + 1 /\ i \in 0..(n - 1)
    BY <1>4, <2>1, <2>6, LocationSays
  <2> QED
    BY <2>3, <2>4, <2>5, <2>6
<1> QED
  BY Zenon, <1>1, <1>2, <1>3, <1>4 DEF Stage

\* Whatever token is missing from whatever file, or none.
ReadingInv ==
    /\ Parsed /\ tokens \in Files
    /\ \A t \in Texts : \A q : Missing(t, q) => Outcome(t, q)

LEMMA ReadingInit == SiteInit => ReadingInv
<1> SUFFICES ASSUME SiteInit PROVE ReadingInv
  OBVIOUS
<1>1. /\ tokens \in Files /\ pos = 1 /\ block = "file" /\ servers = <<>> /\ verdict = "none"
  BY DEF SiteInit, ParserInit
<1>2. \A t, q : Outcome(t, q)
  BY <1>1 DEF Outcome, Stage
<1> QED
  BY <1>1, <1>2, ParsedInit DEF ReadingInv

LEMMA ReadingNext == ReadingInv /\ [SiteNext]_siteVars => ReadingInv'
<1> SUFFICES ASSUME ReadingInv, [SiteNext]_siteVars PROVE ReadingInv'
  OBVIOUS
<1>1. Parsed'
  BY ParsedNext DEF ReadingInv
<1>2. CASE UNCHANGED parserVars
  <2>1. UNCHANGED <<tokens, pos, block, server, listens, location, servers, verdict>>
    BY <1>2 DEF parserVars
  <2>2. ASSUME NEW t, NEW q PROVE Missing(t, q)' => Missing(t, q)
    BY <2>1 DEF Missing, Lacks
  <2>3. ASSUME NEW t, NEW q, Outcome(t, q) PROVE Outcome(t, q)'
    <3>1. Stage(t, q) => Stage(t, q)'
      <4>1. \A p : Due(p, q) => Due(p, q)'
        BY <2>1 DEF Due, At, Ending
      <4>2. \A k, j : ServerSoFar(t, k, j) => ServerSoFar(t, k, j)'
        BY <2>1 DEF ServerSoFar
      <4>3. \A d, i : LocationSoFar(d, i) => LocationSoFar(d, i)'
        BY <2>1 DEF LocationSoFar
      <4>4. \A k : OnTop(t, q, k) => OnTop(t, q, k)'
        BY <2>1 DEF OnTop
      <4>5. \A k, j : InServer(t, q, k, j) => InServer(t, q, k, j)'
        BY <4>1, <4>2 DEF InServer
      <4>6. \A k, j, i : InLocation(t, q, k, j, i) => InLocation(t, q, k, j, i)'
        BY <4>1, <4>2, <4>3 DEF InLocation
      <4> QED
        BY <2>1, <4>4, <4>5, <4>6 DEF Stage
    <3> QED
      BY <2>1, <2>3, <3>1 DEF Outcome
  <2> QED
    BY <1>1, <2>1, <2>2, <2>3 DEF ReadingInv
<1>3. CASE ParserNext
  <2>1. tokens' = tokens /\ verdict = "none"
    BY <1>3, TokensStay DEF ParserNext
  <2>2. ASSUME NEW t, NEW q PROVE Missing(t, q)' => Missing(t, q)
    BY <2>1 DEF Missing, Lacks
  <2>3. ASSUME NEW t \in Texts, NEW q, Missing(t, q) PROVE Outcome(t, q)'
    <3>1. Stage(t, q)
      BY <2>1, <2>3 DEF ReadingInv, Outcome
    <3>2. Typed
      BY DEF ReadingInv, Parsed, Typed
    <3> QED
      BY <1>3, <2>1, <2>3, <3>1, <3>2, StageNext
  <2> QED
    BY <1>1, <2>1, <2>2, <2>3 DEF ReadingInv
<1> QED
  BY <1>2, <1>3 DEF SiteNext, Parse, Start, Answers, siteVars

LEMMA WrittenIs ==
    ASSUME NEW t, IsFile(t)
    PROVE  DOMAIN Written(t) = 1..Len(Marked(t)) /\ DOMAIN Marked(t) = 1..Len(Marked(t)) /\ Len(Marked(t)) \in Nat
<1>1. Marked(t) \in Seq(Marks)
  BY ServersMarked
<1> QED
  BY <1>1 DEF Written

\* A file is read as what it means and never refused, whatever blocks and
\* directives it has, in whatever order (ConfigParser.cpp:88-170).
THEOREM ReadAsMeant == SiteSpec => []ReadsWhatIsMeant
<1>1. ReadingInv => ReadsWhatIsMeant
  <2> SUFFICES ASSUME ReadingInv, verdict # "none", NEW t \in Texts, tokens = Texted[t]
               PROVE  verdict = "accepted" /\ (t \in Fitting => servers = Meaning[t])
    BY DEF ReadsWhatIsMeant
  <2>1. IsFile(t) /\ tokens = Written(t)
    BY TextsAssumption DEF Texted
  <2>2. PICK q : q = Len(Marked(t)) + 1
    OBVIOUS
  <2>3. Missing(t, q) /\ ~(q <= Len(Marked(t)))
    <3>1. Lacks(Marked(t), q) /\ Len(Marked(t)) \in Nat
      BY <2>1, <2>2, WrittenLacksNone, WrittenIs
    <3> QED
      BY <2>1, <2>2, <3>1 DEF Missing
  <2>4. verdict = "accepted" /\ (SizesFit(t) => servers = Meant(t))
    BY <2>3 DEF ReadingInv, Outcome
  <2> QED
    BY <2>4 DEF Fitting, Meaning
<1> QED
  BY <1>1, ReadingInit, ReadingNext, PTL DEF SiteSpec

\* "throwing std::runtime_error on anything malformed" (ConfigParser.hpp:38): no
\* file with a token missing is accepted, but for the tokens that a file is
\* well formed without, and for those of lists (ConfigParser.cpp:204, 218, 328).
THEOREM OmissionsCaught == SiteSpec => []CatchesOmissions
<1>1. ReadingInv => CatchesOmissions
  <2> SUFFICES ASSUME ReadingInv, verdict = "accepted"
               PROVE  (\E t \in Texts : tokens = Texted[t]) \/ tokens \in Spared
    BY DEF CatchesOmissions
  <2>1. \/ \E t \in Texts : tokens = Written(t)
        \/ \E t \in Texts : \E k \in DOMAIN Written(t) : tokens = Without(t, k)
    BY FilesAssumption DEF ReadingInv
  <2>2. CASE \E t \in Texts : tokens = Written(t)
    BY <2>2 DEF Texted
  <2>3. ASSUME NEW t \in Texts, NEW k \in DOMAIN Written(t), tokens = Without(t, k)
        PROVE  tokens \in Spared
    <3>1. IsFile(t)
      BY TextsAssumption
    <3>2. k \in 1..Len(Marked(t)) /\ k \in DOMAIN Marked(t) /\ Len(Marked(t)) \in Nat
      BY <3>1, WrittenIs
    <3>3. CASE SpareAt(Marked(t), k)
      BY <2>3, <3>2, <3>3 DEF SpareAt, Spared, WithoutSpare
    <3>4. CASE ~SpareAt(Marked(t), k)
      <4>1. Lacks(Marked(t), k)
        BY <2>3, <3>1, <3>2, WithoutLacksOne
      <4>2. Missing(t, k)
        BY <3>1, <3>2, <3>4, <4>1 DEF Missing
      <4>3. k = Len(Marked(t)) + 1
        BY <4>2 DEF ReadingInv, Outcome
      <4> QED
        BY <3>2, <4>3
    <3> QED
      BY <3>3, <3>4
  <2> QED
    BY <2>1, <2>2, <2>3
<1> QED
  BY <1>1, ReadingInit, ReadingNext, PTL DEF SiteSpec
=============================================================================
