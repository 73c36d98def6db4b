-------------------------- MODULE UdsStreamProofs --------------------------
(***************************************************************************)
(* Theorems about Uds: in both directions every byte and every message     *)
(* arrives once, whole and in order, however the socket splits and joins   *)
(* frames, as long as a reader has not taken JSON for a binary part; and   *)
(* that is the only reason for which a reader refuses what it is sent.     *)
(***************************************************************************)
EXTENDS UdsProofs, UdsChannel, FiniteSetTheorems

-----------------------------------------------------------------------------
(* Induction over an interval, and what FlattenSeq returns *)

LEMMA Induction ==
  ASSUME NEW n \in Nat, NEW T, 0 \in T,
         \A i \in 0 .. n - 1 : i \in T => i + 1 \in T
  PROVE  \A i \in 0 .. n : i \in T
  <1> DEFINE R == {p \in Nat \X Nat : p[1] < p[2]}
             bad == {i \in 0 .. n : i \notin T}
  <1>1. IsWellFoundedOn(R, Nat)
    BY NatLessThanWellFounded DEF OpToRel
  <1> SUFFICES ASSUME bad # {} PROVE FALSE
    OBVIOUS
  <1>2. bad \subseteq Nat
    OBVIOUS
  <1>3. PICK i \in bad : \A j \in bad : ~(<<j, i>> \in R)
    <2> HIDE DEF R, bad
    <2> QED BY <1>1, <1>2, WFMin
  <1>4. i \in 1 .. n /\ i - 1 \in 0 .. n - 1 /\ i \notin T
    OBVIOUS
  <1>5. i - 1 \notin bad
    <2>1. <<i - 1, i>> \in Nat \X Nat /\ <<i - 1, i>>[1] < <<i - 1, i>>[2]
      BY <1>4
    <2> QED BY <1>3, <2>1
  <1>6. i - 1 \in T
    BY <1>4, <1>5
  <1>7. (i - 1) + 1 \in T
    BY <1>4, <1>6
  <1> QED
    BY <1>4, <1>7

\* Concatenation, as a symbol of its own: the steps below need no more of it than
\* these facts.
Cat(x, y) == x \o y

LEMMA CatType ==
  ASSUME NEW S, NEW x \in Seq(S), NEW y \in Seq(S)
  PROVE  Cat(x, y) \in Seq(S) /\ Len(Cat(x, y)) = Len(x) + Len(y)
  BY ConcatProperties DEF Cat

LEMMA CatAssoc ==
  ASSUME NEW S, NEW x \in Seq(S), NEW y \in Seq(S), NEW z \in Seq(S)
  PROVE  Cat(Cat(x, y), z) = Cat(x, Cat(y, z))
  BY ConcatAssociative DEF Cat

LEMMA CatEmpty ==
  ASSUME NEW S, NEW x \in Seq(S)
  PROVE  Cat(x, << >>) = x /\ Cat(<< >>, x) = x
  BY ConcatEmptySeq DEF Cat

LEMMA CatCancel ==
  ASSUME NEW S, NEW x \in Seq(S), NEW y \in Seq(S), NEW z \in Seq(S), Cat(x, y) = Cat(x, z)
  PROVE  y = z
  BY ConcatSimplifications DEF Cat

\* f joins the sequences of ss from the left: what FlattenSeq computes.
Joins(f, ss) == f = [i \in 1 .. Len(ss) |-> IF i = 1 THEN ss[i] ELSE f[i - 1] \o ss[i]]

\* The join, place by place.
LEMMA JoinsAt ==
  ASSUME NEW f, NEW ss, Joins(f, ss), Len(ss) \in Nat
  PROVE  /\ Len(ss) # 0 => f[1] = ss[1]
         /\ \A i \in 1 .. Len(ss) - 1 : f[i + 1] = Cat(f[i], ss[i + 1])
  <1> DEFINE F(j) == IF j = 1 THEN ss[j] ELSE Cat(f[j - 1], ss[j])
  <1>1. f = [j \in 1 .. Len(ss) |-> F(j)]
    BY DEF Joins, Cat
  <1> HIDE DEF F
  <1>2. \A j \in 1 .. Len(ss) : f[j] = F(j)
    BY <1>1, Zenon
  <1>3. Len(ss) # 0 => f[1] = ss[1]
    BY <1>2 DEF F
  <1>4. ASSUME NEW i \in 1 .. Len(ss) - 1 PROVE f[i + 1] = Cat(f[i], ss[i + 1])
    <2>1. i + 1 \in 1 .. Len(ss) /\ i + 1 # 1 /\ i + 1 - 1 = i
      OBVIOUS
    <2>2. F(i + 1) = Cat(f[i], ss[i + 1])
      BY <2>1 DEF F
    <2> QED BY <1>2, <2>1, <2>2
  <1> QED
    BY <1>3, <1>4

Joined(ss) == CHOOSE f : Joins(f, ss)

LEMMA FlattenIs ==
  ASSUME NEW ss
  PROVE  /\ Len(ss) # 0 => FlattenSeq(ss) = Joined(ss)[Len(ss)]
         /\ Len(ss) = 0 => FlattenSeq(ss) = ss
  BY DEF FlattenSeq, Joins, Joined

LEMMA JoinsExists ==
  ASSUME NEW S, NEW ss \in Seq(Seq(S))
  PROVE  Joins(Joined(ss), ss)
  <1> DEFINE Part(n, f) ==
               \A i \in 1 .. n : f[i] = IF i = 1 THEN ss[i] ELSE f[i - 1] \o ss[i]
             T == {n \in 0 .. Len(ss) : \E f \in [1 .. n -> Seq(S)] : Part(n, f)}
  <1>1. Len(ss) \in Nat /\ \A i \in 1 .. Len(ss) : ss[i] \in Seq(S)
    BY LenProperties, ElementOfSeq
  <1>2. 0 \in T
    <2>1. \E f \in [1 .. 0 -> Seq(S)] : Part(0, f)
      <3>1. [i \in 1 .. 0 |-> << >>] \in [1 .. 0 -> Seq(S)]
        OBVIOUS
      <3>2. Part(0, [i \in 1 .. 0 |-> << >>])
        OBVIOUS
      <3> HIDE DEF Part
      <3> QED BY <3>1, <3>2
    <2>2. 0 \in 0 .. Len(ss)
      BY <1>1
    <2> HIDE DEF Part
    <2> QED BY <2>1, <2>2
  <1>3. ASSUME NEW n \in 0 .. Len(ss) - 1, n \in T PROVE n + 1 \in T
    <2>1. PICK f \in [1 .. n -> Seq(S)] : Part(n, f)
      BY <1>3
    <2> DEFINE last == IF n = 0 THEN ss[n + 1] ELSE f[n] \o ss[n + 1]
               g == [i \in 1 .. n + 1 |-> IF i = n + 1 THEN last ELSE f[i]]
    <2>2. n + 1 \in 1 .. Len(ss) /\ ss[n + 1] \in Seq(S) /\ n \in Nat
      BY <1>1
    <2>3. last \in Seq(S)
      <3>1. n # 0 => f[n] \in Seq(S)
        BY <2>2
      <3> QED BY <2>2, <3>1, ConcatProperties
    <2>4. g \in [1 .. n + 1 -> Seq(S)]
      <3> HIDE DEF last
      <3> QED BY <2>2, <2>3
    <2>5. Part(n + 1, g)
      <3> SUFFICES ASSUME NEW i \in 1 .. n + 1
                   PROVE  g[i] = IF i = 1 THEN ss[i] ELSE g[i - 1] \o ss[i]
        OBVIOUS
      <3>1. CASE i = n + 1
        <4>1. n # 0 => g[n] = f[n]
          BY <2>2
        <4> QED BY <2>2, <3>1, <4>1
      <3>2. CASE i # n + 1
        <4>1. i \in 1 .. n /\ (i # 1 => i - 1 \in 1 .. n)
          BY <2>2, <3>2
        <4>2. g[i] = f[i] /\ (i # 1 => g[i - 1] = f[i - 1])
          BY <2>2, <3>2, <4>1
        <4> QED BY <2>1, <4>1, <4>2
      <3> QED BY <3>1, <3>2
    <2> HIDE DEF g, Part
    <2> QED BY <2>2, <2>4, <2>5
  <1>4. Len(ss) \in T
    <2> HIDE DEF T
    <2>1. \A i \in 0 .. Len(ss) : i \in T
      BY <1>1, <1>2, <1>3, Induction
    <2> QED BY <1>1, <2>1
  <1>5. PICK f \in [1 .. Len(ss) -> Seq(S)] : Part(Len(ss), f)
    BY <1>4
  <1>6. Joins(f, ss)
    BY <1>5 DEF Joins
  <1> QED
    BY <1>6 DEF Joined

Agree(f, g, n) == \A i \in 1 .. n : f[i] = g[i]

\* Two joins are equal as long as the sequences joined are.
LEMMA JoinsAgree ==
  ASSUME NEW S, NEW ss \in Seq(Seq(S)), NEW tt \in Seq(Seq(S)), NEW n \in Nat,
         n <= Len(ss), n <= Len(tt), Agree(ss, tt, n),
         NEW f, NEW g, Joins(f, ss), Joins(g, tt)
  PROVE  \A i \in 1 .. n : f[i] \in Seq(S) /\ f[i] = g[i]
  <1> DEFINE T == {i \in 0 .. n : i # 0 => f[i] \in Seq(S) /\ f[i] = g[i]}
  <1>1. Len(ss) \in Nat /\ Len(tt) \in Nat /\ \A i \in 1 .. Len(ss) : ss[i] \in Seq(S)
    BY LenProperties, ElementOfSeq
  <1>0. \A i \in 1 .. n : ss[i] = tt[i]
    BY DEF Agree
  <1>2. /\ Len(ss) # 0 => f[1] = ss[1]
        /\ Len(tt) # 0 => g[1] = tt[1]
        /\ \A i \in 1 .. Len(ss) - 1 : f[i + 1] = Cat(f[i], ss[i + 1])
        /\ \A i \in 1 .. Len(tt) - 1 : g[i + 1] = Cat(g[i], tt[i + 1])
    <2> HIDE DEF T
    <2> QED BY <1>1, JoinsAt
  <1>3. 0 \in T
    OBVIOUS
  <1>4. ASSUME NEW i \in 0 .. n - 1, i \in T PROVE i + 1 \in T
    <2>1. i + 1 \in 1 .. n /\ i + 1 \in 0 .. n /\ ss[i + 1] = tt[i + 1] /\ ss[i + 1] \in Seq(S)
      BY <1>0, <1>1
    <2>2. CASE i = 0
      BY <1>1, <1>2, <2>1, <2>2
    <2>3. CASE i # 0
      <3>1. f[i] \in Seq(S) /\ f[i] = g[i]
        BY <1>4, <2>3
      <3>2. i \in 1 .. Len(ss) - 1 /\ i \in 1 .. Len(tt) - 1
        BY <1>1, <2>3
      <3>3. f[i + 1] = Cat(f[i], ss[i + 1]) /\ g[i + 1] = Cat(f[i], ss[i + 1])
        BY <1>2, <2>1, <3>1, <3>2
      <3>4. Cat(f[i], ss[i + 1]) \in Seq(S)
        BY <2>1, <3>1, CatType
      <3> QED BY <2>1, <3>3, <3>4
    <2> QED BY <2>2, <2>3
  <1> HIDE DEF T
  <1>5. \A i \in 0 .. n : i \in T
    BY <1>3, <1>4, Induction
  <1> QED
    BY <1>5 DEF T

LEMMA FlattenType ==
  ASSUME NEW S, NEW ss \in Seq(Seq(S))
  PROVE  FlattenSeq(ss) \in Seq(S)
  <1>1. Len(ss) \in Nat
    BY LenProperties
  <1>2. CASE Len(ss) = 0
    <2>1. ss = << >>
      BY <1>2, EmptySeq
    <2> QED BY <1>2, <2>1, FlattenIs, EmptySeq
  <1>3. CASE Len(ss) # 0
    <2>1. \A i \in 1 .. Len(ss) : Joined(ss)[i] \in Seq(S)
      BY <1>1, JoinsExists, JoinsAgree DEF Agree
    <2> QED BY <1>1, <1>3, <2>1, FlattenIs, SMTT(30)
  <1> QED
    BY <1>2, <1>3

\* What is appended comes last.
LEMMA FlattenAppend ==
  ASSUME NEW S, NEW ss \in Seq(Seq(S)), NEW x \in Seq(S)
  PROVE  FlattenSeq(Append(ss, x)) = Cat(FlattenSeq(ss), x)
  <1> DEFINE tt == Append(ss, x)
             n == Len(ss)
             f == Joined(ss)
             g == Joined(tt)
  <1>1. /\ n \in Nat /\ tt \in Seq(Seq(S)) /\ Len(tt) = n + 1 /\ tt[n + 1] = x
        /\ \A i \in 1 .. n : ss[i] = tt[i]
    BY LenProperties, AppendProperties
  <1> HIDE DEF tt
  <1>2. /\ Joins(f, ss) /\ Joins(g, tt)
    BY <1>1, JoinsExists
  <1>3. FlattenSeq(tt) = g[n + 1] /\ (n # 0 => FlattenSeq(ss) = f[n])
    BY <1>1, FlattenIs
  <1>4. n = 0 => FlattenSeq(ss) = << >> /\ Cat(<< >>, x) = x
    BY FlattenIs, EmptySeq, CatEmpty
  <1> HIDE DEF n, f, g
  <1>5. /\ n = 0 => g[n + 1] = x
        /\ n # 0 => g[n + 1] = Cat(g[n], x)
    <2>0. Joins(g, tt) /\ Len(tt) \in Nat /\ Len(tt) # 0
      BY <1>1, <1>2
    <2>1. /\ g[1] = tt[1]
          /\ \A i \in 1 .. Len(tt) - 1 : g[i + 1] = Cat(g[i], tt[i + 1])
      BY <2>0, JoinsAt, SMTT(30)
    <2>2. n # 0 => n \in 1 .. Len(tt) - 1
      BY <1>1
    <2>3. n = 0 => n + 1 = 1
      OBVIOUS
    <2> QED BY <1>1, <2>1, <2>2, <2>3
  <1>6. n # 0 => f[n] = g[n]
    <2>1. n \in Nat /\ n <= Len(ss) /\ n <= Len(tt)
      BY <1>1 DEF n
    <2>0. tt \in Seq(Seq(S)) /\ Joins(f, ss) /\ Joins(g, tt) /\ Agree(ss, tt, n)
      BY <1>1, <1>2 DEF Agree
    <2>2. \A i \in 1 .. n : f[i] \in Seq(S) /\ f[i] = g[i]
      BY <2>0, <2>1, JoinsAgree
    <2>3. n # 0 => n \in 1 .. n
      BY <2>1
    <2> QED BY <2>2, <2>3
  <1> QED
    BY <1>3, <1>4, <1>5, <1>6 DEF tt

\* The first comes first.
LEMMA FlattenHead ==
  ASSUME NEW S, NEW ss \in Seq(Seq(S)), ss # << >>
  PROVE  FlattenSeq(ss) = Cat(Head(ss), FlattenSeq(Tail(ss)))
  <1> DEFINE tt == Tail(ss)
             n == Len(tt)
             f == Joined(ss)
             g == Joined(tt)
             h == ss[1]
             T == {i \in 0 .. n : f[i + 1] = Cat(h, IF i = 0 THEN << >> ELSE g[i])}
  <1>1. /\ tt \in Seq(Seq(S)) /\ n \in Nat /\ Len(ss) = n + 1 /\ Head(ss) = h
        /\ \A i \in 1 .. n : tt[i] = ss[i + 1]
        /\ \A i \in 1 .. n + 1 : ss[i] \in Seq(S)
        /\ h \in Seq(S)
    BY HeadTailProperties, LenProperties, ElementOfSeq, EmptySeq
  <1> HIDE DEF tt
  <1>2. Joins(f, ss) /\ Joins(g, tt)
    BY <1>1, JoinsExists
  <1>3. FlattenSeq(ss) = f[n + 1]
    BY <1>1, FlattenIs
  <1>4. FlattenSeq(tt) = IF n = 0 THEN << >> ELSE g[n]
    <2>1. n = 0 => tt = << >>
      BY <1>1, EmptySeq
    <2> QED BY <1>1, <2>1, FlattenIs
  <1> HIDE DEF f, g, T
  <1>5. /\ f[1] = h
        /\ \A i \in 1 .. n : f[i + 1] = Cat(f[i], ss[i + 1])
        /\ n # 0 => g[1] = tt[1]
        /\ \A i \in 1 .. n - 1 : g[i + 1] = Cat(g[i], tt[i + 1])
    <2>1. Len(ss) - 1 = n /\ Len(ss) # 0 /\ Len(ss) \in Nat /\ Len(tt) = n
      BY <1>1
    <2> HIDE DEF n
    <2>2. f[1] = ss[1] /\ \A i \in 1 .. Len(ss) - 1 : f[i + 1] = Cat(f[i], ss[i + 1])
      BY <1>2, <2>1, JoinsAt
    <2>3. Joins(g, tt) /\ Len(tt) \in Nat
      BY <1>1, <1>2
    <2>4. /\ Len(tt) # 0 => g[1] = tt[1]
          /\ \A i \in 1 .. Len(tt) - 1 : g[i + 1] = Cat(g[i], tt[i + 1])
      BY <2>3, JoinsAt
    <2> QED BY <2>1, <2>2, <2>4
  <1>6. \A i \in 1 .. n : g[i] \in Seq(S)
    <2>1. n <= Len(tt)
      BY <1>1
    <2> HIDE DEF n
    <2> QED BY <1>1, <1>2, <2>1, JoinsAgree DEF Agree
  <1> HIDE DEF n, h
  <1>7. 0 \in T
    <2>1. Cat(h, << >>) = h /\ 0 \in 0 .. n
      BY <1>1, CatEmpty
    <2> QED BY <1>5, <2>1 DEF T
  <1>8. ASSUME NEW i \in 0 .. n - 1, i \in T PROVE i + 1 \in T
    <2>1. /\ i + 1 \in 1 .. n /\ i + 1 \in 0 .. n /\ i \in Nat
          /\ i + 1 # 0 /\ (i # 0 => i \in 1 .. n - 1 /\ i \in 1 .. n)
      BY <1>1
    <2> DEFINE j == i + 1
               z == ss[j + 1]
    <2>2. tt[j] = z /\ z \in Seq(S) /\ f[j + 1] = Cat(f[j], z)
      <3>1. j + 1 \in 1 .. n + 1
        BY <1>1, <2>1
      <3> QED BY <1>1, <1>5, <2>1, <3>1
    <2>3. f[j] = Cat(h, IF i = 0 THEN << >> ELSE g[i])
      BY <1>8 DEF T
    <2>4. CASE i = 0
      <3>1. g[j] = z
        BY <1>1, <1>5, <2>1, <2>2, <2>4
      <3>2. f[j] = h
        BY <1>5, <2>4
      <3> QED BY <2>1, <2>2, <3>1, <3>2 DEF T
    <2>5. CASE i # 0
      <3>1. g[j] = Cat(g[i], z)
        BY <1>5, <2>1, <2>2, <2>5
      <3>2. f[j] = Cat(h, g[i]) /\ g[i] \in Seq(S)
        BY <1>6, <2>1, <2>3, <2>5
      <3> HIDE DEF z
      <3>3. Cat(Cat(h, g[i]), z) = Cat(h, Cat(g[i], z))
        <4>1. h \in Seq(S) /\ g[i] \in Seq(S) /\ z \in Seq(S)
          BY <1>1, <2>2, <3>2
        <4> QED BY <4>1, CatAssoc
      <3>4. f[j + 1] = Cat(h, g[j])
        BY <2>2, <3>1, <3>2, <3>3
      <3> QED BY <2>1, <3>4 DEF T
    <2> QED BY <2>4, <2>5
  <1>9. n \in T
    <2>1. \A i \in 0 .. n : i \in T
      BY <1>1, <1>7, <1>8, Induction
    <2> QED BY <1>1, <2>1
  <1> QED
    BY <1>1, <1>3, <1>4, <1>9 DEF tt, T


-----------------------------------------------------------------------------
(* Beginnings and rests *)

LEMMA SubSeqAt ==
  ASSUME NEW S, NEW x \in Seq(S), NEW p \in Nat \ {0}, NEW q \in Nat, p <= q + 1, q <= Len(x)
  PROVE  /\ SubSeq(x, p, q) \in Seq(S) /\ Len(SubSeq(x, p, q)) = q - p + 1
         /\ \A i \in 1 .. q - p + 1 : SubSeq(x, p, q)[i] = x[p + i - 1]
  <1>1. Len(x) \in Nat /\ \A i \in 1 .. Len(x) : x[i] \in S
    BY LenProperties, ElementOfSeq
  <1>2. \A i \in p .. q : x[i] \in S
    BY <1>1
  <1>3. /\ SubSeq(x, p, q) \in Seq(S)
        /\ Len(SubSeq(x, p, q)) = IF p <= q THEN q - p + 1 ELSE 0
        /\ \A i \in 1 .. q - p + 1 : SubSeq(x, p, q)[i] = x[p + i - 1]
    BY <1>2, SubSeqProperties
  <1> QED
    BY <1>3

LEMMA FirstAt ==
  ASSUME NEW S, NEW x \in Seq(S), NEW n \in 0 .. Len(x)
  PROVE  /\ First(x, n) \in Seq(S) /\ Len(First(x, n)) = n
         /\ \A i \in 1 .. n : First(x, n)[i] = x[i]
  <1>1. Len(x) \in Nat
    BY LenProperties
  <1>2. First(x, n) = SubSeq(x, 1, n)
    BY <1>1 DEF First
  <1>3. n - 1 + 1 = n /\ 1 <= n + 1 /\ n \in Nat /\ n <= Len(x) /\ \A i \in 1 .. n : 1 + i - 1 = i
    BY <1>1
  <1>4. /\ SubSeq(x, 1, n) \in Seq(S) /\ Len(SubSeq(x, 1, n)) = n - 1 + 1
        /\ \A i \in 1 .. n - 1 + 1 : SubSeq(x, 1, n)[i] = x[1 + i - 1]
    BY <1>3, SubSeqAt
  <1> QED
    BY <1>2, <1>3, <1>4

LEMMA AfterAt ==
  ASSUME NEW S, NEW x \in Seq(S), NEW n \in 0 .. Len(x)
  PROVE  /\ After(x, n) \in Seq(S) /\ Len(After(x, n)) = Len(x) - n
         /\ \A i \in 1 .. Len(x) - n : After(x, n)[i] = x[n + i]
  <1>1. Len(x) \in Nat
    BY LenProperties
  <1>2. /\ n + 1 \in Nat \ {0} /\ Len(x) - (n + 1) + 1 = Len(x) - n /\ n + 1 <= Len(x) + 1
        /\ \A i \in 1 .. Len(x) - n : n + 1 + i - 1 = n + i
    BY <1>1
  <1> DEFINE p == n + 1
             q == Len(x)
  <1>3. /\ SubSeq(x, p, q) \in Seq(S) /\ Len(SubSeq(x, p, q)) = q - p + 1
        /\ \A i \in 1 .. q - p + 1 : SubSeq(x, p, q)[i] = x[p + i - 1]
    <2>1. p \in Nat \ {0} /\ q \in Nat /\ p <= q + 1 /\ q <= Len(x)
      BY <1>1, <1>2
    <2> HIDE DEF p, q
    <2> QED BY <2>1, SubSeqAt
  <1> QED
    BY <1>1, <1>2, <1>3 DEF After

\* A sequence is its beginning and its rest.
LEMMA FirstAfter ==
  ASSUME NEW S, NEW x \in Seq(S), NEW n \in Nat
  PROVE  Cat(First(x, n), After(x, n)) = x
  <1>1. Len(x) \in Nat
    BY LenProperties
  <1>2. CASE n \in 0 .. Len(x)
    <2> DEFINE y == First(x, n)
               z == After(x, n)
    <2>1. /\ y \in Seq(S) /\ Len(y) = n /\ \A i \in 1 .. n : y[i] = x[i]
          /\ z \in Seq(S) /\ Len(z) = Len(x) - n /\ \A i \in 1 .. Len(x) - n : z[i] = x[n + i]
      BY <1>2, FirstAt, AfterAt
    <2> HIDE DEF y, z
    <2>2. /\ y \o z \in Seq(S) /\ Len(y \o z) = Len(y) + Len(z)
          /\ \A i \in 1 .. Len(y) + Len(z) : (y \o z)[i] = IF i <= Len(y) THEN y[i] ELSE z[i - Len(y)]
      BY <2>1, ConcatProperties
    <2>3. Len(y \o z) = Len(x)
      BY <1>1, <1>2, <2>1, <2>2
    <2>4. ASSUME NEW i \in 1 .. Len(x) PROVE (y \o z)[i] = x[i]
      <3>1. CASE i <= n
        BY <1>1, <1>2, <2>1, <2>2, <3>1
      <3>2. CASE ~(i <= n)
        <4>1. i - n \in 1 .. Len(x) - n /\ n + (i - n) = i
          BY <1>1, <1>2, <3>2
        <4>2. (y \o z)[i] = z[i - n]
          BY <1>1, <1>2, <2>1, <2>2, <3>2
        <4> QED BY <2>1, <4>1, <4>2
      <3> QED BY <3>1, <3>2
    <2>5. y \o z = x
      BY <2>2, <2>3, <2>4, SeqEqual
    <2> QED BY <2>5 DEF Cat, y, z
  <1>3. CASE n \notin 0 .. Len(x)
    <2>1. First(x, n) = SubSeq(x, 1, Len(x)) /\ After(x, n) = SubSeq(x, n + 1, Len(x))
      BY <1>1, <1>3 DEF First, After
    <2>2. SubSeq(x, 1, Len(x)) = x
      BY SubSeqFull
    <2>3. SubSeq(x, n + 1, Len(x)) = << >>
      BY <1>1, <1>3, SubSeqEmpty
    <2> QED BY <2>1, <2>2, <2>3, CatEmpty
  <1> QED
    BY <1>2, <1>3

\* What is cut off the front of a joined sequence is cut off its first part.
LEMMA CutCat ==
  ASSUME NEW S, NEW x \in Seq(S), NEW y \in Seq(S), NEW n \in 0 .. Len(x)
  PROVE  /\ First(Cat(x, y), n) = First(x, n)
         /\ After(Cat(x, y), n) = Cat(After(x, n), y)
  <1> DEFINE z == Cat(x, y)
  <1>1. /\ z \in Seq(S) /\ Len(z) = Len(x) + Len(y)
        /\ \A i \in 1 .. Len(x) + Len(y) : z[i] = IF i <= Len(x) THEN x[i] ELSE y[i - Len(x)]
    BY ConcatProperties DEF Cat
  <1>2. Len(x) \in Nat /\ Len(y) \in Nat
    BY LenProperties
  <1> HIDE DEF z
  <1>3. n \in 0 .. Len(z)
    BY <1>1, <1>2
  <1>4. First(z, n) = First(x, n)
    <2>1. /\ First(z, n) \in Seq(S) /\ Len(First(z, n)) = n
          /\ \A i \in 1 .. n : First(z, n)[i] = z[i]
      BY <1>1, <1>3, FirstAt
    <2>2. /\ First(x, n) \in Seq(S) /\ Len(First(x, n)) = n
          /\ \A i \in 1 .. n : First(x, n)[i] = x[i]
      BY FirstAt
    <2>3. \A i \in 1 .. n : z[i] = x[i]
      BY <1>1, <1>2
    <2>4. \A i \in 1 .. Len(First(z, n)) : First(z, n)[i] = First(x, n)[i]
      BY <2>1, <2>2, <2>3
    <2> DEFINE u == First(z, n)
               v == First(x, n)
    <2>5. u \in Seq(S) /\ v \in Seq(S) /\ Len(u) = Len(v) /\ \A i \in 1 .. Len(u) : u[i] = v[i]
      BY <2>1, <2>2, <2>4
    <2> HIDE DEF u, v
    <2>6. u = v
      BY <2>5, SeqEqual
    <2> QED BY <2>6 DEF u, v
  <1>5. After(z, n) = Cat(After(x, n), y)
    <2>1. Cat(First(z, n), After(z, n)) = z /\ Cat(First(x, n), After(x, n)) = x
      BY <1>1, <1>3, FirstAfter
    <2> DEFINE a == First(x, n)
               b == After(x, n)
               c == After(z, n)
    <2>2. a \in Seq(S) /\ b \in Seq(S) /\ c \in Seq(S)
      BY <1>1, <1>3, FirstAt, AfterAt
    <2>3. Cat(a, c) = z /\ Cat(a, b) = x
      BY <1>4, <2>1
    <2> HIDE DEF a, b, c
    <2>4. z = Cat(Cat(a, b), y)
      BY <2>3 DEF z
    <2>5. Cat(Cat(a, b), y) = Cat(a, Cat(b, y)) /\ Cat(b, y) \in Seq(S)
      BY <2>2, CatAssoc, CatType
    <2>6. c = Cat(b, y)
      <3>1. Cat(a, c) = Cat(a, Cat(b, y))
        BY <2>3, <2>4, <2>5
      <3> QED BY <2>2, <2>5, <3>1, CatCancel
    <2> QED BY <2>6 DEF b, c
  <1> QED
    BY <1>4, <1>5 DEF z

-----------------------------------------------------------------------------
(* The bytes of messages *)

LEMMA FrameAt ==
  ASSUME NEW m \in Message
  PROVE  /\ Frame(m) \in Seq(Byte)
         /\ Len(Frame(m)) = MetaLength + JsonLength[m] + BinaryLength[m]
         /\ \A i \in 1 .. Len(Frame(m)) : Frame(m)[i] = [of |-> m, at |-> i]
         /\ MetaLength \in Nat \ {0} /\ JsonLength[m] \in Nat \ {0} /\ BinaryLength[m] \in Nat
  <1> DEFINE n == MetaLength + JsonLength[m] + BinaryLength[m]
  <1>1. MetaLength \in Nat \ {0} /\ JsonLength[m] \in Nat \ {0} /\ BinaryLength[m] \in Nat
    BY FrameAssumption
  <1>2. n \in Nat
    BY <1>1
  <1>3. Frame(m) = [i \in 1 .. n |-> [of |-> m, at |-> i]]
    BY DEF Frame
  <1> HIDE DEF n
  <1>4. Len(Frame(m)) = n
    BY <1>2, <1>3
  <1>5. \A i \in 1 .. n : Frame(m)[i] = [of |-> m, at |-> i]
    BY <1>3
  <1>6. Frame(m) \in Seq(Byte)
    BY FrameType DEF Bytes
  <1> QED
    BY <1>1, <1>4, <1>5, <1>6 DEF n

FrameSeq(s) == [i \in DOMAIN s |-> Frame(s[i])]

LEMMA FrameSeqType ==
  ASSUME NEW s \in Seq(Message)
  PROVE  /\ FrameSeq(s) \in Seq(Seq(Byte)) /\ Len(FrameSeq(s)) = Len(s)
         /\ \A i \in 1 .. Len(s) : FrameSeq(s)[i] = Frame(s[i])
  <1>1. Len(s) \in Nat /\ DOMAIN s = 1 .. Len(s) /\ \A i \in 1 .. Len(s) : s[i] \in Message
    BY LenProperties, ElementOfSeq
  <1>2. \A i \in 1 .. Len(s) : Frame(s[i]) \in Seq(Byte)
    BY <1>1, FrameAt
  <1> DEFINE F(i) == Frame(s[i])
             n == Len(s)
  <1>3. FrameSeq(s) = [i \in 1 .. n |-> F(i)]
    BY <1>1 DEF FrameSeq
  <1>4. n \in Nat /\ \A i \in 1 .. n : F(i) \in Seq(Byte)
    BY <1>1, <1>2
  <1> HIDE DEF F, n
  <1>5. [i \in 1 .. n |-> F(i)] \in Seq(Seq(Byte)) /\ Len([i \in 1 .. n |-> F(i)]) = n
    BY <1>4
  <1>6. \A i \in 1 .. n : FrameSeq(s)[i] = F(i)
    BY <1>3
  <1> QED
    BY <1>3, <1>5, <1>6 DEF F, n

\* What is left of the messages, behind the first k.
Left(s, k) == Frames(After(s, k))

LEMMA LeftType ==
  ASSUME NEW s \in Seq(Message), NEW k \in 0 .. Len(s)
  PROVE  Left(s, k) \in Seq(Byte)
  <1>1. After(s, k) \in Seq(Message)
    BY AfterAt
  <1>2. FrameSeq(After(s, k)) \in Seq(Seq(Byte))
    BY <1>1, FrameSeqType
  <1>3. FlattenSeq(FrameSeq(After(s, k))) \in Seq(Byte)
    BY <1>2, FlattenType
  <1> QED
    BY <1>3 DEF Left, Frames, FrameSeq

LEMMA LeftNone ==
  ASSUME NEW s \in Seq(Message)
  PROVE  Left(s, Len(s)) = << >>
  <1>1. Len(s) \in 0 .. Len(s)
    BY LenProperties
  <1> DEFINE t == After(s, Len(s))
  <1>2. t \in Seq(Message) /\ Len(t) = Len(s) - Len(s)
    BY <1>1, AfterAt
  <1>3. Len(t) = 0
    BY <1>1, <1>2
  <1> HIDE DEF t
  <1>4. FrameSeq(t) \in Seq(Seq(Byte)) /\ Len(FrameSeq(t)) = 0
    BY <1>2, <1>3, FrameSeqType
  <1>5. FrameSeq(t) = << >>
    BY <1>4, EmptySeq
  <1>6. FlattenSeq(FrameSeq(t)) = FrameSeq(t)
    BY <1>4, FlattenIs
  <1> QED
    BY <1>5, <1>6 DEF Left, Frames, FrameSeq, t

\* A new message comes last.
LEMMA LeftAppend ==
  ASSUME NEW s \in Seq(Message), NEW k \in 0 .. Len(s), NEW m \in Message
  PROVE  Left(Append(s, m), k) = Cat(Left(s, k), Frame(m))
  <1> DEFINE t == After(s, k)
             u == After(Append(s, m), k)
  <1>1. Len(s) \in Nat
    BY LenProperties
  <1>2. /\ Append(s, m) \in Seq(Message) /\ Len(Append(s, m)) = Len(s) + 1
        /\ \A i \in 1 .. Len(s) : Append(s, m)[i] = s[i]
        /\ Append(s, m)[Len(s) + 1] = m
    BY AppendProperties
  <1>3. /\ t \in Seq(Message) /\ Len(t) = Len(s) - k
        /\ \A i \in 1 .. Len(s) - k : t[i] = s[k + i]
    BY AfterAt
  <1>4. /\ u \in Seq(Message) /\ Len(u) = Len(s) + 1 - k
        /\ \A i \in 1 .. Len(s) + 1 - k : u[i] = Append(s, m)[k + i]
    <2> DEFINE v == Append(s, m)
    <2>1. v \in Seq(Message) /\ k \in 0 .. Len(v) /\ Len(v) = Len(s) + 1
      BY <1>1, <1>2
    <2> HIDE DEF v
    <2>2. /\ After(v, k) \in Seq(Message) /\ Len(After(v, k)) = Len(v) - k
          /\ \A i \in 1 .. Len(v) - k : After(v, k)[i] = v[k + i]
      BY <2>1, AfterAt
    <2>3. /\ After(v, k) \in Seq(Message) /\ Len(After(v, k)) = Len(s) + 1 - k
          /\ \A i \in 1 .. Len(s) + 1 - k : After(v, k)[i] = v[k + i]
      BY <1>1, <2>1, <2>2
    <2> HIDE DEF u
    <2>4. u = After(v, k)
      BY DEF u, v
    <2>5. u \in Seq(Message) /\ Len(u) = Len(s) + 1 - k
      BY <2>3, <2>4
    <2>6. \A i \in 1 .. Len(s) + 1 - k : u[i] = v[k + i]
      BY <2>3, <2>4
    <2> QED BY <2>5, <2>6 DEF v
  <1> HIDE DEF t, u
  <1>5. /\ \A i \in 1 .. Len(s) - k : u[i] = t[i]
        /\ u[Len(s) - k + 1] = m
    BY <1>1, <1>2, <1>3, <1>4
  <1> DEFINE ft == FrameSeq(t)
             fu == FrameSeq(u)
             x == Frame(m)
  <1>6. /\ ft \in Seq(Seq(Byte)) /\ Len(ft) = Len(t) /\ \A i \in 1 .. Len(t) : ft[i] = Frame(t[i])
        /\ fu \in Seq(Seq(Byte)) /\ Len(fu) = Len(u) /\ \A i \in 1 .. Len(u) : fu[i] = Frame(u[i])
        /\ x \in Seq(Byte)
    BY <1>3, <1>4, FrameSeqType, FrameAt
  <1>7. \A i \in 1 .. Len(s) + 1 - k : fu[i] = IF i <= Len(s) - k THEN ft[i] ELSE x
    <2> SUFFICES ASSUME NEW i \in 1 .. Len(s) + 1 - k
                 PROVE  fu[i] = IF i <= Len(s) - k THEN ft[i] ELSE x
      OBVIOUS
    <2> HIDE DEF ft, fu
    <2>1. fu[i] = Frame(u[i])
      BY <1>4, <1>6
    <2>2. CASE i <= Len(s) - k
      <3>1. i \in 1 .. Len(s) - k
        BY <1>1, <2>2
      <3>2. ft[i] = Frame(t[i]) /\ u[i] = t[i]
        BY <1>3, <1>5, <1>6, <3>1
      <3> QED BY <2>1, <2>2, <3>2
    <2>3. CASE ~(i <= Len(s) - k)
      <3>1. i = Len(s) - k + 1
        BY <1>1, <2>3
      <3>2. u[i] = m
        BY <1>5, <3>1
      <3> QED BY <2>1, <2>3, <3>2
    <2> QED BY <2>2, <2>3
  <1> HIDE DEF ft, fu, x
  <1>8. fu = Append(ft, x)
    <2>1. /\ Append(ft, x) \in Seq(Seq(Byte)) /\ Len(Append(ft, x)) = Len(ft) + 1
          /\ \A i \in 1 .. Len(ft) : Append(ft, x)[i] = ft[i]
          /\ Append(ft, x)[Len(ft) + 1] = x
      BY <1>6, AppendProperties
    <2> DEFINE w == Append(ft, x)
    <2>2. w \in Seq(Seq(Byte)) /\ Len(fu) = Len(w) /\ \A i \in 1 .. Len(fu) : fu[i] = w[i]
      BY <1>1, <1>3, <1>4, <1>6, <1>7, <2>1
    <2> HIDE DEF w
    <2>3. fu = w
      BY <1>6, <2>2, SeqEqual
    <2> QED BY <2>3 DEF w
  <1>9. FlattenSeq(fu) = Cat(FlattenSeq(ft), x)
    BY <1>6, <1>8, FlattenAppend
  <1> QED
    BY <1>9 DEF Left, Frames, FrameSeq, ft, fu, x, t, u

\* The next message comes first.
LEMMA LeftNext ==
  ASSUME NEW s \in Seq(Message), NEW k \in 0 .. Len(s) - 1
  PROVE  Left(s, k) = Cat(Frame(s[k + 1]), Left(s, k + 1))
  <1> DEFINE t == After(s, k)
             u == After(s, k + 1)
  <1>1. Len(s) \in Nat /\ k \in 0 .. Len(s) /\ k + 1 \in 0 .. Len(s) /\ k \in Nat
    BY LenProperties
  <1>2. /\ t \in Seq(Message) /\ Len(t) = Len(s) - k
        /\ \A i \in 1 .. Len(s) - k : t[i] = s[k + i]
    BY <1>1, AfterAt
  <1>3. /\ u \in Seq(Message) /\ Len(u) = Len(s) - (k + 1)
        /\ \A i \in 1 .. Len(s) - (k + 1) : u[i] = s[k + 1 + i]
    <2> DEFINE j == k + 1
    <2>1. j \in 0 .. Len(s)
      BY <1>1
    <2> HIDE DEF j
    <2>2. /\ After(s, j) \in Seq(Message) /\ Len(After(s, j)) = Len(s) - j
          /\ \A i \in 1 .. Len(s) - j : After(s, j)[i] = s[j + i]
      BY <2>1, AfterAt
    <2> QED BY <2>2 DEF j
  <1> HIDE DEF t, u
  <1>4. /\ Len(t) = Len(u) + 1 /\ Len(u) \in Nat /\ t[1] = s[k + 1]
        /\ \A i \in 1 .. Len(u) : u[i] = t[i + 1]
    BY <1>1, <1>2, <1>3
  <1> DEFINE ft == FrameSeq(t)
             fu == FrameSeq(u)
  <1>5. /\ ft \in Seq(Seq(Byte)) /\ Len(ft) = Len(t) /\ \A i \in 1 .. Len(t) : ft[i] = Frame(t[i])
        /\ fu \in Seq(Seq(Byte)) /\ Len(fu) = Len(u) /\ \A i \in 1 .. Len(u) : fu[i] = Frame(u[i])
    BY <1>2, <1>3, FrameSeqType
  <1>6. ft[1] = Frame(s[k + 1]) /\ \A i \in 1 .. Len(u) : fu[i] = ft[i + 1]
    BY <1>4, <1>5
  <1> HIDE DEF ft, fu
  <1>7. ft # << >>
    BY <1>4, <1>5, EmptySeq
  <1>8. /\ Tail(ft) \in Seq(Seq(Byte)) /\ Len(Tail(ft)) = Len(ft) - 1
        /\ \A i \in 1 .. Len(Tail(ft)) : Tail(ft)[i] = ft[i + 1]
        /\ Head(ft) = ft[1]
    BY <1>5, <1>7, HeadTailProperties
  <1>9. fu = Tail(ft)
    <2> DEFINE w == Tail(ft)
    <2>1. w \in Seq(Seq(Byte)) /\ Len(fu) = Len(w) /\ \A i \in 1 .. Len(fu) : fu[i] = w[i]
      BY <1>4, <1>5, <1>6, <1>8
    <2> HIDE DEF w
    <2>2. fu = w
      BY <1>5, <2>1, SeqEqual
    <2> QED BY <2>2 DEF w
  <1>10. FlattenSeq(ft) = Cat(Head(ft), FlattenSeq(Tail(ft)))
    BY <1>5, <1>7, FlattenHead
  <1>11. FlattenSeq(ft) = Cat(Frame(s[k + 1]), FlattenSeq(fu))
    BY <1>6, <1>8, <1>9, <1>10
  <1> QED
    BY <1>11 DEF Left, Frames, FrameSeq, ft, fu, t, u

\* Two ways to cut the same bytes in two.
LEMMA CutSame ==
  ASSUME NEW S, NEW x \in Seq(S), NEW y \in Seq(S), NEW u \in Seq(S), NEW v \in Seq(S),
         Cat(x, y) = Cat(u, v), NEW n \in Nat, n <= Len(x), n <= Len(u)
  PROVE  First(x, n) = First(u, n) /\ Cat(After(x, n), y) = Cat(After(u, n), v)
  <1>1. n \in 0 .. Len(x) /\ n \in 0 .. Len(u)
    BY LenProperties
  <1>2. First(Cat(x, y), n) = First(x, n) /\ After(Cat(x, y), n) = Cat(After(x, n), y)
    BY <1>1, CutCat
  <1>3. First(Cat(u, v), n) = First(u, n) /\ After(Cat(u, v), n) = Cat(After(u, n), v)
    BY <1>1, CutCat
  <1> QED
    BY <1>2, <1>3

LEMMA SameAt ==
  ASSUME NEW S, NEW x \in Seq(S), NEW y \in Seq(S), NEW u \in Seq(S), NEW v \in Seq(S),
         Cat(x, y) = Cat(u, v), NEW i \in Nat \ {0}, i <= Len(x), i <= Len(u)
  PROVE  x[i] = u[i]
  <1>1. First(x, i) = First(u, i)
    BY CutSame
  <1>2. i \in 0 .. Len(x) /\ i \in 0 .. Len(u) /\ i \in 1 .. i
    BY LenProperties
  <1>3. First(x, i)[i] = x[i]
    BY <1>2, FirstAt
  <1>4. First(u, i)[i] = u[i]
    BY <1>2, FirstAt
  <1> QED
    BY <1>1, <1>3, <1>4

\* A frame is cut into its parts.
LEMMA FrameCut ==
  ASSUME NEW m \in Message
  PROVE  /\ After(Frame(m), 0) = Frame(m)
         /\ First(Frame(m), MetaLength) = Meta(m)
         /\ After(Frame(m), MetaLength) \in Seq(Byte)
         /\ Len(After(Frame(m), MetaLength)) = JsonLength[m] + BinaryLength[m]
         /\ First(After(Frame(m), MetaLength), JsonLength[m]) = Json(m)
         /\ After(After(Frame(m), MetaLength), JsonLength[m]) = Binary(m)
         /\ After(Frame(m), MetaLength + JsonLength[m]) = Binary(m)
         /\ Binary(m) \in Seq(Byte) /\ Len(Binary(m)) = BinaryLength[m]
  <1> DEFINE F == Frame(m)
             M == MetaLength
             J == JsonLength[m]
             B == BinaryLength[m]
             A == After(F, M)
  <1>1. /\ F \in Seq(Byte) /\ Len(F) = M + J + B
        /\ M \in Nat \ {0} /\ J \in Nat \ {0} /\ B \in Nat
    BY FrameAt
  <1>2. After(F, 0) = F
    <2> HIDE DEF F
    <2>1. SubSeq(F, 1, Len(F)) = F
      BY <1>1, SubSeqFull
    <2> QED BY <2>1 DEF After
  <1>3. First(F, M) = Meta(m)
    <2>1. M < Len(F) \/ M = Len(F)
      BY <1>1
    <2>2. First(F, M) = SubSeq(F, 1, M)
      BY <2>1 DEF First
    <2> QED BY <2>2 DEF Meta
  <1>4. /\ A \in Seq(Byte) /\ Len(A) = J + B /\ \A i \in 1 .. J + B : A[i] = F[M + i]
    <2>1. M \in 0 .. Len(F) /\ Len(F) - M = J + B
      BY <1>1
    <2> HIDE DEF F, M, J, B
    <2>2. /\ After(F, M) \in Seq(Byte) /\ Len(After(F, M)) = Len(F) - M
          /\ \A i \in 1 .. Len(F) - M : After(F, M)[i] = F[M + i]
      BY <1>1, <2>1, AfterAt
    <2> QED BY <2>1, <2>2
  <1>5. First(A, J) = Json(m)
    <2> DEFINE G == Json(m)
    <2> HIDE DEF A
    <2>1. First(A, J) \in Seq(Byte) /\ Len(First(A, J)) = J /\ \A i \in 1 .. J : First(A, J)[i] = A[i]
      <3>1. J \in 0 .. Len(A)
        BY <1>1, <1>4
      <3> HIDE DEF J
      <3> QED BY <1>4, <3>1, FirstAt
    <2>2. G \in Seq(Byte) /\ Len(G) = J /\ \A i \in 1 .. J : G[i] = F[M + i]
      <3> DEFINE p == M + 1
                 q == M + J
      <3>1. p \in Nat \ {0} /\ q \in Nat /\ p <= q + 1 /\ q <= Len(F) /\ q - p + 1 = J
            /\ \A i \in 1 .. J : p + i - 1 = M + i
        BY <1>1, SMTT(30)
      <3>2. G = SubSeq(F, p, q)
        BY DEF Json
      <3> HIDE DEF p, q, F, G, J, M
      <3>3. /\ SubSeq(F, p, q) \in Seq(Byte) /\ Len(SubSeq(F, p, q)) = q - p + 1
            /\ \A i \in 1 .. q - p + 1 : SubSeq(F, p, q)[i] = F[p + i - 1]
        BY <1>1, <3>1, SubSeqAt
      <3> QED BY <3>1, <3>2, <3>3
    <2>3. \A i \in 1 .. J : A[i] = F[M + i]
      BY <1>1, <1>4
    <2> DEFINE u == First(A, J)
    <2>4. u \in Seq(Byte) /\ Len(u) = Len(G) /\ \A i \in 1 .. Len(u) : u[i] = G[i]
      BY <2>1, <2>2, <2>3
    <2> HIDE DEF u, G
    <2>5. u = G
      BY <2>2, <2>4, SeqEqual
    <2> QED BY <2>5 DEF u, G
  <1>6. /\ After(A, J) \in Seq(Byte) /\ Len(After(A, J)) = B
        /\ \A i \in 1 .. B : After(A, J)[i] = A[J + i]
    <2>1. J \in 0 .. Len(A) /\ Len(A) - J = B
      BY <1>1, <1>4
    <2> HIDE DEF A, J, B
    <2>2. /\ After(A, J) \in Seq(Byte) /\ Len(After(A, J)) = Len(A) - J
          /\ \A i \in 1 .. Len(A) - J : After(A, J)[i] = A[J + i]
      BY <1>4, <2>1, AfterAt
    <2> QED BY <2>1, <2>2
  <1>7. After(F, M + J) = Binary(m)
    BY DEF After, Binary
  <1>8. /\ Binary(m) \in Seq(Byte) /\ Len(Binary(m)) = B
        /\ \A i \in 1 .. B : Binary(m)[i] = F[M + J + i]
    <2> DEFINE n == M + J
    <2>1. n \in 0 .. Len(F) /\ Len(F) - n = B
      BY <1>1
    <2> HIDE DEF F, n, B
    <2>2. /\ After(F, n) \in Seq(Byte) /\ Len(After(F, n)) = Len(F) - n
          /\ \A i \in 1 .. Len(F) - n : After(F, n)[i] = F[n + i]
      BY <1>1, <2>1, AfterAt
    <2>3. After(F, n) = Binary(m)
      BY <1>7 DEF n
    <2> QED BY <2>1, <2>2, <2>3 DEF n
  <1>9. After(A, J) = Binary(m)
    <2> DEFINE u == After(A, J)
               v == Binary(m)
    <2>1. \A i \in 1 .. B : u[i] = v[i]
      <3> SUFFICES ASSUME NEW i \in 1 .. B PROVE u[i] = v[i]
        OBVIOUS
      <3>1. u[i] = A[J + i] /\ v[i] = F[M + J + i]
        BY <1>6, <1>8
      <3>2. J + i \in 1 .. J + B /\ M + (J + i) = M + J + i
        BY <1>1
      <3>3. A[J + i] = F[M + (J + i)]
        BY <1>4, <3>2
      <3> QED BY <3>1, <3>2, <3>3
    <2>2. u \in Seq(Byte) /\ v \in Seq(Byte) /\ Len(u) = Len(v) /\ \A i \in 1 .. Len(u) : u[i] = v[i]
      BY <1>6, <1>8, <2>1
    <2> HIDE DEF u, v
    <2>3. u = v
      BY <2>2, SeqEqual
    <2> QED BY <2>3 DEF u, v
  <1> QED
    BY <1>2, <1>3, <1>4, <1>5, <1>7, <1>8, <1>9

\* By its first byte a part is known.
LEMMA PartsKnown ==
  ASSUME NEW m \in Message
  PROVE  /\ Len(Meta(m)) = MetaLength /\ Meta(m)[1] = [of |-> m, at |-> 1]
         /\ Len(Json(m)) = JsonLength[m] /\ Json(m)[1] = [of |-> m, at |-> MetaLength + 1]
         /\ After(Frame(m), MetaLength)[1] = [of |-> m, at |-> MetaLength + 1]
         /\ BinaryLength[m] # 0 =>
              Binary(m)[1] = [of |-> m, at |-> MetaLength + JsonLength[m] + 1]
  <1> DEFINE F == Frame(m)
             M == MetaLength
             J == JsonLength[m]
             B == BinaryLength[m]
  <1>1. /\ F \in Seq(Byte) /\ Len(F) = M + J + B /\ \A i \in 1 .. Len(F) : F[i] = [of |-> m, at |-> i]
        /\ M \in Nat \ {0} /\ J \in Nat \ {0} /\ B \in Nat
    BY FrameAt
  <1>2. 1 \in 1 .. Len(F) /\ M + 1 \in 1 .. Len(F) /\ (B # 0 => M + J + 1 \in 1 .. Len(F))
    BY <1>1, SMTT(30)
  <1>3. /\ F[1] = [of |-> m, at |-> 1] /\ F[M + 1] = [of |-> m, at |-> M + 1]
        /\ B # 0 => F[M + J + 1] = [of |-> m, at |-> M + J + 1]
    BY <1>1, <1>2
  <1>4. Len(Meta(m)) = M /\ Meta(m)[1] = F[1]
    <2>1. M \in 0 .. Len(F) /\ 1 \in 1 .. M
      BY <1>1
    <2> HIDE DEF F, M
    <2>2. Len(First(F, M)) = M /\ First(F, M)[1] = F[1]
      BY <1>1, <2>1, FirstAt
    <2> QED BY <2>2, FrameCut DEF F, M
  <1> DEFINE A == After(F, M)
  <1>5. A \in Seq(Byte) /\ Len(A) = J + B /\ A[1] = F[M + 1]
    <2>1. M \in 0 .. Len(F) /\ 1 \in 1 .. Len(F) - M /\ Len(F) - M = J + B
      BY <1>1
    <2> HIDE DEF F, M, J, B
    <2>2. A \in Seq(Byte) /\ Len(A) = Len(F) - M /\ A[1] = F[M + 1]
      BY <1>1, <2>1, AfterAt, ZenonT(30)
    <2> QED BY <2>1, <2>2
  <1>6. Len(Json(m)) = J /\ Json(m)[1] = A[1]
    <2>1. J \in 0 .. Len(A) /\ 1 \in 1 .. J
      BY <1>1, <1>5
    <2>2. First(A, J) = Json(m)
      BY FrameCut
    <2> HIDE DEF A, J
    <2>3. Len(First(A, J)) = J /\ First(A, J)[1] = A[1]
      BY <1>5, <2>1, FirstAt
    <2> QED BY <2>2, <2>3 DEF J
  <1>7. B # 0 => Binary(m)[1] = F[M + J + 1]
    <2> DEFINE n == M + J
    <2>1. n \in 0 .. Len(F) /\ (B # 0 => 1 \in 1 .. Len(F) - n)
      BY <1>1
    <2>2. After(F, n) = Binary(m)
      BY FrameCut
    <2> HIDE DEF F, n, B
    <2>3. B # 0 => After(F, n)[1] = F[n + 1]
      BY <1>1, <2>1, AfterAt
    <2> QED BY <2>2, <2>3 DEF n
  <1> QED
    BY <1>3, <1>4, <1>5, <1>6, <1>7

-----------------------------------------------------------------------------
(* A reader on its way through the messages *)

\* The first k of the messages s have been read; the reader is in the next one, and
\* what follows its buffer are the bytes of way.
Stands(s, k, r, way) ==
  /\ k \in 0 .. Len(s)
  /\ r.binary = << >>
  /\ ~r.has_meta => r.ctx = None /\ Cat(r.buff, way) = Left(s, k)
  /\ r.has_meta =>
       /\ k < Len(s)
       /\ r.json_length = JsonLength[s[k + 1]]
       /\ r.binary_length = BinaryLength[s[k + 1]]
       /\ r.ctx \in {None, s[k + 1]}
       /\ r.ctx # None => r.binary_length # 0
       /\ Cat(r.buff, way) = Cat(After(Frame(s[k + 1]), Taken(r)), Left(s, k + 1))

\* The message the reader is in.
LEMMA StandsIn ==
  ASSUME NEW s \in Seq(Message), NEW k, k \in 0 .. Len(s), k < Len(s)
  PROVE  /\ s[k + 1] \in Message /\ k + 1 \in 0 .. Len(s) /\ k \in 0 .. Len(s) - 1
         /\ Left(s, k) = Cat(Frame(s[k + 1]), Left(s, k + 1))
         /\ Left(s, k + 1) \in Seq(Byte)
  <1>1. Len(s) \in Nat /\ \A i \in 1 .. Len(s) : s[i] \in Message
    BY LenProperties, ElementOfSeq
  <1>2. k + 1 \in 1 .. Len(s) /\ k + 1 \in 0 .. Len(s) /\ k \in 0 .. Len(s) - 1
    BY <1>1
  <1>3. Left(s, k) = Cat(Frame(s[k + 1]), Left(s, k + 1))
    BY <1>2, LeftNext
  <1>4. Left(s, k + 1) \in Seq(Byte)
    <2> DEFINE j == k + 1
    <2> HIDE DEF j
    <2>1. j \in 0 .. Len(s)
      BY <1>2 DEF j
    <2>2. Left(s, j) \in Seq(Byte)
      BY <2>1, LeftType
    <2> QED BY <2>2 DEF j
  <1> QED
    BY <1>1, <1>2, <1>3, <1>4

\* What the reader has taken, its buffer and the bytes on the way are what is left.
LEMMA StandsCarries ==
  ASSUME NEW s \in Seq(Message), NEW k, NEW r \in Req, NEW way \in Seq(Byte), Stands(s, k, r, way)
  PROVE  Cat(Cat(First(Left(s, k), Taken(r)), r.buff), way) = Left(s, k)
  <1> DEFINE b == r.buff
             l == Left(s, k)
  <1>1. k \in 0 .. Len(s) /\ b \in Seq(Byte)
    BY DEF Stands, Req
  <1>2. l \in Seq(Byte)
    BY <1>1, LeftType
  <1>3. CASE ~r.has_meta
    <2>1. Taken(r) = 0 /\ Cat(b, way) = l
      BY <1>3 DEF Taken, Stands
    <2>2. First(l, 0) = << >>
      <3> HIDE DEF l
      <3>1. 0 \in 0 .. Len(l)
        BY <1>2, LenProperties
      <3>2. First(l, 0) \in Seq(Byte) /\ Len(First(l, 0)) = 0
        BY <1>2, <3>1, FirstAt
      <3> QED BY <3>2, EmptySeq
    <2> HIDE DEF b, l
    <2>3. Cat(<< >>, b) = b
      BY <1>1, CatEmpty
    <2> QED BY <2>1, <2>2, <2>3 DEF b, l
  <1>4. CASE r.has_meta
    <2> DEFINE m == s[k + 1]
               F == Frame(m)
               v == Left(s, k + 1)
               n == Taken(r)
    <2>1. k < Len(s) /\ Cat(b, way) = Cat(After(F, n), v) /\ r.json_length = JsonLength[m]
      BY <1>4 DEF Stands
    <2>2. m \in Message /\ l = Cat(F, v) /\ v \in Seq(Byte)
      BY <1>1, <2>1, StandsIn
    <2>3. /\ F \in Seq(Byte) /\ Len(F) = MetaLength + JsonLength[m] + BinaryLength[m]
          /\ MetaLength \in Nat \ {0} /\ JsonLength[m] \in Nat \ {0} /\ BinaryLength[m] \in Nat
      BY <2>2, FrameAt
    <2>4. n \in 0 .. Len(F)
      BY <1>4, <2>1, <2>3 DEF Taken
    <2> HIDE DEF m, F, v, n, b, l
    <2>5. First(l, n) = First(F, n) /\ First(F, n) \in Seq(Byte) /\ After(F, n) \in Seq(Byte)
      BY <2>2, <2>3, <2>4, CutCat, FirstAt, AfterAt
    <2> DEFINE x == First(F, n)
               y == After(F, n)
    <2>6. Cat(x, y) = F
      BY <2>3, <2>4, FirstAfter
    <2> HIDE DEF x, y
    <2>7. x \in Seq(Byte) /\ y \in Seq(Byte) /\ First(l, n) = x /\ Cat(b, way) = Cat(y, v)
      BY <2>1, <2>5 DEF x, y
    <2>8. Cat(Cat(x, b), way) = Cat(x, Cat(b, way)) /\ Cat(x, Cat(y, v)) = Cat(Cat(x, y), v)
      BY <1>1, <2>2, <2>7, CatAssoc
    <2>9. Cat(Cat(x, b), way) = l
      BY <2>2, <2>6, <2>7, <2>8
    <2> QED BY <2>7, <2>9 DEF b, l, n
  <1> QED
    BY <1>3, <1>4

\* Bytes on the way join the buffer.
LEMMA StandsAdd ==
  ASSUME NEW s \in Seq(Message), NEW k, NEW r \in Req, NEW d \in Seq(Byte), NEW v \in Seq(Byte),
         NEW n \in Nat, Stands(s, k, r, Cat(d, v))
  PROVE  Stands(s, k, Add(r, First(d, n)), Cat(After(d, n), v))
  <1> DEFINE x == First(d, n)
             y == After(d, n)
             b == r.buff
             t == Add(r, x)
  <1>1. x \in Seq(Byte) /\ y \in Seq(Byte) /\ Cat(x, y) = d /\ b \in Seq(Byte)
    BY Parts, FirstAfter DEF Req
  <1>2. /\ t.buff = Cat(b, x)
        /\ t.has_meta = r.has_meta /\ t.json_length = r.json_length
        /\ t.binary_length = r.binary_length /\ t.ctx = r.ctx /\ t.binary = r.binary
    BY DEF Add, Req, Cat
  <1>3. Taken(t) = Taken(r)
    BY <1>2 DEF Taken
  <1> HIDE DEF x, y, b, t
  <1>4. Cat(y, v) \in Seq(Byte)
    BY <1>1, CatType
  <1>5. Cat(Cat(b, x), Cat(y, v)) = Cat(b, Cat(x, Cat(y, v))) /\ Cat(x, Cat(y, v)) = Cat(Cat(x, y), v)
    BY <1>1, <1>4, CatAssoc
  <1>6. Cat(t.buff, Cat(y, v)) = Cat(r.buff, Cat(d, v))
    BY <1>1, <1>2, <1>5 DEF b
  <1>7. Stands(s, k, t, Cat(y, v))
    BY <1>2, <1>3, <1>6 DEF Stands
  <1> QED
    BY <1>7 DEF t, x, y

\* A new message is behind what was on the way.
LEMMA StandsAppend ==
  ASSUME NEW s \in Seq(Message), NEW k, NEW r \in Req, NEW way \in Seq(Byte), NEW m \in Message,
         Stands(s, k, r, way)
  PROVE  Stands(Append(s, m), k, r, Cat(way, Frame(m)))
  <1> DEFINE t == Append(s, m)
             b == r.buff
             x == Frame(m)
  <1>1. b \in Seq(Byte) /\ x \in Seq(Byte) /\ k \in 0 .. Len(s) /\ Len(s) \in Nat
    BY FrameAt, LenProperties DEF Req, Stands
  <1>2. t \in Seq(Message) /\ Len(t) = Len(s) + 1 /\ \A i \in 1 .. Len(s) : t[i] = s[i]
    BY AppendProperties
  <1>3. Left(t, k) = Cat(Left(s, k), x) /\ k \in 0 .. Len(t)
    <2>1. Left(t, k) = Cat(Left(s, k), x)
      BY <1>1, LeftAppend
    <2> QED BY <1>1, <1>2, <2>1
  <1>4. Cat(b, Cat(way, x)) = Cat(Cat(b, way), x)
    <2> HIDE DEF b, x
    <2> QED BY <1>1, CatAssoc
  <1>5. CASE ~r.has_meta
    <2>1. r.binary = << >> /\ r.ctx = None /\ Cat(b, way) = Left(s, k)
      BY <1>5 DEF Stands
    <2>2. Cat(b, Cat(way, x)) = Left(t, k)
      BY <1>3, <1>4, <2>1
    <2> HIDE DEF t, x
    <2>3. Stands(t, k, r, Cat(way, x))
      BY <1>3, <1>5, <2>1, <2>2 DEF Stands
    <2> QED BY <2>3 DEF t, x
  <1>6. CASE r.has_meta
    <2> DEFINE j == k + 1
               v == Left(s, j)
               a == After(Frame(s[j]), Taken(r))
    <2>1. k < Len(s) /\ Cat(b, way) = Cat(a, v) /\ r.json_length = JsonLength[s[j]]
      BY <1>6 DEF Stands
    <2>2. s[j] \in Message /\ j \in 0 .. Len(s) /\ v \in Seq(Byte)
      BY <1>1, <2>1, StandsIn
    <2>3. t[j] = s[j] /\ k < Len(t)
      BY <1>1, <1>2, <2>1
    <2>4. Left(t, j) = Cat(v, x)
      <3> HIDE DEF j
      <3> QED BY <2>2, LeftAppend
    <2>5. a \in Seq(Byte)
      <3>1. Taken(r) \in 0 .. Len(Frame(s[j])) /\ Frame(s[j]) \in Seq(Byte)
        <4>1. /\ Frame(s[j]) \in Seq(Byte)
              /\ Len(Frame(s[j])) = MetaLength + JsonLength[s[j]] + BinaryLength[s[j]]
              /\ MetaLength \in Nat /\ JsonLength[s[j]] \in Nat /\ BinaryLength[s[j]] \in Nat
          BY <2>2, FrameAt
        <4> QED BY <1>6, <2>1, <4>1, SMTT(30) DEF Taken
      <3> QED BY <3>1, AfterAt
    <2> HIDE DEF a, v, x, b
    <2>6. Cat(Cat(a, v), x) = Cat(a, Cat(v, x))
      BY <1>1, <2>2, <2>5, CatAssoc
    <2>7. Cat(b, Cat(way, x)) = Cat(a, Left(t, j))
      BY <1>4, <2>1, <2>4, <2>6
    <2>8. /\ r.binary = << >> /\ r.json_length = JsonLength[s[j]]
          /\ r.binary_length = BinaryLength[s[j]] /\ r.ctx \in {None, s[j]}
          /\ r.ctx # None => r.binary_length # 0
      BY <1>6 DEF Stands, j
    <2> HIDE DEF t, x
    <2>9. Cat(r.buff, Cat(way, x)) = Cat(After(Frame(t[j]), Taken(r)), Left(t, j))
      BY <2>3, <2>7 DEF a, b
    <2>10. Stands(t, k, r, Cat(way, x))
      BY <1>3, <1>6, <2>3, <2>8, <2>9 DEF Stands, j
    <2> QED BY <2>10 DEF t, x
  <1> QED
    BY <1>5, <1>6

-----------------------------------------------------------------------------
(* What a turn makes of it *)

\* The buffer is not all of the part the reader waits for.
Short(r) ==
  Len(r.buff) < IF ~r.has_meta THEN MetaLength
                ELSE IF r.ctx = None THEN r.json_length ELSE r.binary_length

\* No whole frame; a torn one; the next message, whole; or the refusal of its binary part.
Outcome(s, k, read, way) ==
  \/ read.res = "null" /\ Stands(s, k, read.req, way) /\ Short(read.req)
  \/ read.res = "frame" /\ read.req.ctx = None
  \/ /\ read.res = "frame" /\ k < Len(s)
     /\ Call(read.req) = CallOf(s[k + 1])
     /\ Stands(s, k + 1, Reset(read.req), way)
  \/ read.res = "Invalid JSON." /\ AwaitsBinary(read.req)

\* A whole frame has been taken off the buffer.
LEMMA Whole ==
  ASSUME NEW s \in Seq(Message), NEW k, k \in 0 .. Len(s), k < Len(s), NEW t \in Req,
         NEW way, t.ctx = s[k + 1], t.binary = Binary(s[k + 1]), Cat(t.buff, way) = Left(s, k + 1)
  PROVE  Outcome(s, k, Result("frame", t), way)
  <1>1. Call(t) = CallOf(s[k + 1])
    BY DEF Call, CallOf
  <1>2. k + 1 \in 0 .. Len(s)
    BY StandsIn
  <1>3. Reset(t).buff = t.buff /\ ~Reset(t).has_meta /\ Reset(t).ctx = None /\ Reset(t).binary = << >>
    BY DEF Reset, NewReq
  <1>4. Stands(s, k + 1, Reset(t), way)
    BY <1>2, <1>3 DEF Stands
  <1>5. Result("frame", t).res = "frame" /\ Result("frame", t).req = t
    BY DEF Result
  <1> QED
    BY <1>1, <1>4, <1>5 DEF Outcome

\* The last step of a turn, about the binary part.
LEMMA BinaryTurn ==
  ASSUME NEW s \in Seq(Message), NEW k, NEW r \in Req, NEW way \in Seq(Byte),
         Stands(s, k, r, way), r.has_meta, r.ctx = None => Len(r.buff) < r.json_length
  PROVE  Outcome(s, k, ReadBinary(r), way)
  <1> DEFINE m == s[k + 1]
             v == Left(s, k + 1)
             x == r.buff
             n == r.binary_length
             t == [r EXCEPT !.binary = First(r.buff, r.binary_length),
                            !.buff = After(r.buff, r.binary_length)]
  <1>1. /\ k \in 0 .. Len(s) /\ k < Len(s) /\ r.ctx \in {None, m}
        /\ r.json_length = JsonLength[m] /\ n = BinaryLength[m]
    BY DEF Stands
  <1>2. m \in Message /\ v \in Seq(Byte) /\ x \in Seq(Byte) /\ n \in Nat
    BY <1>1, StandsIn DEF Req
  <1>3. CASE ~(n # 0 /\ Len(x) >= n)
    <2>1. ReadBinary(r) = Result("null", r)
      BY <1>3 DEF ReadBinary
    <2>2. r.ctx # None => Len(x) < n
      <3>1. r.ctx # None => n # 0
        BY DEF Stands
      <3>2. Len(x) \in Nat
        BY <1>2, LenProperties
      <3> HIDE DEF x, n
      <3> QED BY <1>2, <1>3, <3>1, <3>2
    <2>3. Short(r)
      BY <2>2 DEF Short
    <2> QED BY <2>1, <2>3 DEF Outcome, Result
  <1>4. CASE n # 0 /\ Len(x) >= n
    <2>1. ReadBinary(r) = Result("frame", t)
      BY <1>4 DEF ReadBinary
    <2>2. t.binary = First(x, n) /\ t.buff = After(x, n) /\ t.ctx = r.ctx
      BY DEF Req
    <2>3. t \in Req
      <3>1. First(x, n) \in Seq(Byte) /\ After(x, n) \in Seq(Byte)
        BY <1>2, Parts
      <3> QED BY <3>1 DEF Req
    <2> HIDE DEF t
    <2>4. CASE r.ctx = None
      BY <2>1, <2>2, <2>4 DEF Outcome, Result
    <2>5. CASE r.ctx # None
      <3>1. Taken(r) = MetaLength + JsonLength[m]
        BY <1>1, <2>5 DEF Taken
      <3>2. /\ Cat(x, way) = Cat(Binary(m), v)
            /\ Binary(m) \in Seq(Byte) /\ Len(Binary(m)) = n
        BY <1>1, <1>2, <3>1, FrameCut DEF Stands
      <3> DEFINE b == Binary(m)
      <3> HIDE DEF b, m, v, x, n
      <3>3. First(x, n) = First(b, n) /\ Cat(After(x, n), way) = Cat(After(b, n), v)
        <4>1. /\ Cat(x, way) = Cat(b, v) /\ b \in Seq(Byte) /\ Len(b) = n /\ n <= Len(x)
              /\ n <= Len(b)
          BY <1>2, <1>4, <3>2 DEF b
        <4> QED BY <1>2, <4>1, CutSame
      <3>4. First(b, n) = b /\ After(b, n) = << >>
        <4>1. b \in Seq(Byte) /\ Len(b) = n /\ n \in 0 .. Len(b)
          BY <1>2, <3>2 DEF b
        <4>2. Cat(First(b, n), After(b, n)) = b
          BY <1>2, <4>1, FirstAfter
        <4>3. /\ First(b, n) \in Seq(Byte)
              /\ After(b, n) \in Seq(Byte) /\ Len(After(b, n)) = Len(b) - n
          BY <4>1, FirstAt, AfterAt
        <4>4. Len(After(b, n)) = 0
          BY <1>2, <4>1, <4>3
        <4>5. After(b, n) = << >>
          BY <4>3, <4>4, EmptySeq
        <4> QED BY <4>2, <4>3, <4>5, CatEmpty
      <3>5. Cat(<< >>, v) = v
        BY <1>2, CatEmpty
      <3>6. t.ctx = m /\ t.binary = b /\ Cat(t.buff, way) = v
        BY <1>1, <2>2, <2>5, <3>3, <3>4, <3>5
      <3>7. Outcome(s, k, Result("frame", t), way)
        BY <1>1, <2>3, <3>6, Whole DEF b, m, v
      <3> QED BY <2>1, <3>7
    <2> QED BY <2>4, <2>5
  <1> QED
    BY <1>3, <1>4

\* A turn behind a meta.
LEMMA JsonTurn ==
  ASSUME NEW s \in Seq(Message), NEW k, NEW r \in Req, NEW way \in Seq(Byte),
         Stands(s, k, r, way), r.has_meta
  PROVE  Outcome(s, k, ReadJson[r], way)
  <1> DEFINE m == s[k + 1]
             v == Left(s, k + 1)
             x == r.buff
             n == r.json_length
             A == After(Frame(m), MetaLength)
             c == CHOOSE c \in Jsons(r) : TRUE
             t == [r EXCEPT !.ctx = c, !.buff = After(r.buff, r.json_length)]
  <1>1. ReadJson[r] =
          IF Len(x) < n THEN ReadBinary(r)
          ELSE IF Jsons(r) = {} THEN Result("Invalid JSON.", Cleared(r))
          ELSE IF r.binary_length = 0 THEN Result("frame", t) ELSE ReadBinary(t)
    BY DEF ReadJson
  <1>2. /\ k \in 0 .. Len(s) /\ k < Len(s) /\ r.ctx \in {None, m}
        /\ n = JsonLength[m] /\ r.binary_length = BinaryLength[m] /\ r.binary = << >>
        /\ r.ctx # None => r.binary_length # 0
    BY DEF Stands
  <1>3. m \in Message /\ v \in Seq(Byte) /\ x \in Seq(Byte) /\ n \in Nat \ {0}
        /\ MetaLength \in Nat \ {0} /\ Len(x) \in Nat
    BY <1>2, StandsIn, FrameAt, LenProperties DEF Req
  <1>4. CASE Len(x) < n
    BY <1>1, <1>4, BinaryTurn
  <1>5. CASE ~(Len(x) < n) /\ r.ctx # None
    <2>1. Jsons(r) = {}
      <3> SUFFICES ASSUME NEW j \in Jsons(r) PROVE FALSE
        OBVIOUS
      <3>1. j \in Message /\ First(x, n) = Json(j)
        BY DEF Jsons
      <3>2. First(x, n)[1] = x[1]
        <4>1. n \in 0 .. Len(x) /\ 1 \in 1 .. n
          BY <1>3, <1>5
        <4> HIDE DEF n, x
        <4> QED BY <1>3, <4>1, FirstAt
      <3>3. /\ Cat(x, way) = Cat(Binary(m), v) /\ Binary(m) \in Seq(Byte)
            /\ Len(Binary(m)) \in Nat \ {0}
        <4>1. Taken(r) = MetaLength + JsonLength[m]
          BY <1>2, <1>5 DEF Taken
        <4>2. BinaryLength[m] \in Nat \ {0}
          BY <1>2, <1>3, <1>5, FrameAt
        <4> QED BY <1>2, <1>3, <4>1, <4>2, FrameCut DEF Stands
      <3>4. x[1] = Binary(m)[1]
        <4> DEFINE b == Binary(m)
        <4>1. b \in Seq(Byte) /\ Cat(x, way) = Cat(b, v) /\ 1 <= Len(b) /\ 1 <= Len(x)
          BY <1>3, <1>5, <3>3
        <4> HIDE DEF b, x, v
        <4>2. x[1] = b[1]
          BY <1>3, <4>1, SameAt
        <4> QED BY <4>2 DEF b
      <3>5. Binary(m)[1] = [of |-> m, at |-> MetaLength + JsonLength[m] + 1]
        BY <1>2, <1>3, <1>5, PartsKnown
      <3>6. Json(j)[1] = [of |-> j, at |-> MetaLength + 1]
        BY <3>1, PartsKnown
      <3>7. MetaLength + 1 = MetaLength + JsonLength[m] + 1
        <4>1. [of |-> m, at |-> MetaLength + JsonLength[m] + 1] = [of |-> j, at |-> MetaLength + 1]
          BY <3>1, <3>2, <3>4, <3>5, <3>6
        <4>2. [of |-> m, at |-> MetaLength + JsonLength[m] + 1].at = MetaLength + JsonLength[m] + 1
              /\ [of |-> j, at |-> MetaLength + 1].at = MetaLength + 1
          OBVIOUS
        <4> QED BY <4>1, <4>2
      <3> QED BY <1>2, <1>3, <3>7
    <2>2. ReadJson[r] = Result("Invalid JSON.", Cleared(r))
      BY <1>1, <1>5, <2>1
    <2>3. AwaitsBinary(Cleared(r))
      BY <1>5 DEF AwaitsBinary, Cleared, Req
    <2> DEFINE read == Result("Invalid JSON.", Cleared(r))
    <2>4. read.res = "Invalid JSON." /\ read.req = Cleared(r)
      BY DEF Result
    <2> HIDE DEF read
    <2>5. Outcome(s, k, read, way)
      BY <2>3, <2>4 DEF Outcome
    <2> QED BY <2>2, <2>5 DEF read
  <1>6. CASE ~(Len(x) < n) /\ r.ctx = None
    <2>1. Cat(x, way) = Cat(A, v) /\ A \in Seq(Byte) /\ Len(A) = n + BinaryLength[m]
      <3>1. Taken(r) = MetaLength
        BY <1>6 DEF Taken
      <3> QED BY <1>2, <1>3, <3>1, FrameCut DEF Stands
    <2>2. First(x, n) = First(A, n) /\ Cat(After(x, n), way) = Cat(After(A, n), v)
      <3>1. n <= Len(x) /\ n <= Len(A) /\ n \in Nat
        BY <1>3, <1>6, <2>1, FrameAt, SMTT(30)
      <3> HIDE DEF x, n, A, v
      <3> QED BY <1>3, <2>1, <3>1, CutSame
    <2>3. First(x, n) = Json(m) /\ Cat(After(x, n), way) = Cat(Binary(m), v)
      BY <1>2, <1>3, <2>2, FrameCut
    <2>4. Jsons(r) = {m}
      <3>1. m \in Jsons(r)
        BY <1>3, <2>3 DEF Jsons
      <3>2. ASSUME NEW j \in Jsons(r) PROVE j = m
        <4>1. j \in Message /\ Json(j) = Json(m)
          BY <2>3 DEF Jsons
        <4>2. Json(j)[1] = [of |-> j, at |-> MetaLength + 1] /\ Json(m)[1] = [of |-> m, at |-> MetaLength + 1]
          BY <1>3, <4>1, PartsKnown
        <4>3. [of |-> j, at |-> MetaLength + 1].of = j /\ [of |-> m, at |-> MetaLength + 1].of = m
          OBVIOUS
        <4> QED BY <4>1, <4>2, <4>3
      <3> QED BY <3>1, <3>2
    <2>5. c = m
      BY <2>4
    <2>6. /\ t.ctx = m /\ t.buff = After(x, n) /\ t.has_meta /\ t.json_length = n
          /\ t.binary_length = r.binary_length /\ t.binary = << >>
      BY <1>2, <2>5 DEF Req
    <2>7. t \in Req
      <3>1. After(x, n) \in Seq(Byte)
        BY <1>3, Parts
      <3>2. c \in Message
        BY <1>3, <2>5
      <3> HIDE DEF c
      <3> QED BY <3>1, <3>2 DEF Req
    <2> HIDE DEF t, c
    <2>8. m # None
      BY <1>3, FrameAssumption
    <2>9. CASE r.binary_length = 0
      <3>1. ReadJson[r] = Result("frame", t)
        BY <1>1, <1>6, <2>4, <2>9
      <3>2. Binary(m) = << >>
        <4>1. Binary(m) \in Seq(Byte) /\ Len(Binary(m)) = 0
          BY <1>2, <1>3, <2>9, FrameCut
        <4> QED BY <4>1, EmptySeq
      <3>3. Cat(t.buff, way) = v
        <4>1. Cat(<< >>, v) = v
          BY <1>3, CatEmpty
        <4> QED BY <2>3, <2>6, <3>2, <4>1
      <3>4. Outcome(s, k, Result("frame", t), way)
        BY <1>2, <2>6, <2>7, <3>2, <3>3, Whole
      <3> QED BY <3>1, <3>4
    <2>10. CASE r.binary_length # 0
      <3>1. ReadJson[r] = ReadBinary(t)
        BY <1>1, <1>6, <2>4, <2>10
      <3>2. Taken(t) = MetaLength + JsonLength[m]
        BY <1>2, <2>6, <2>8 DEF Taken
      <3>3. Cat(t.buff, way) = Cat(After(Frame(m), Taken(t)), v)
        BY <1>3, <2>3, <2>6, <3>2, FrameCut
      <3>4. Stands(s, k, t, way)
        BY <1>2, <2>6, <2>10, <3>3 DEF Stands
      <3>5. Outcome(s, k, ReadBinary(t), way)
        BY <2>6, <2>7, <2>8, <3>4, BinaryTurn
      <3> QED BY <3>1, <3>5
    <2> QED BY <2>9, <2>10
  <1> QED
    BY <1>4, <1>5, <1>6

\* The next bytes are those of the next message.
LEMMA BuffAt ==
  ASSUME NEW s \in Seq(Message), NEW k, NEW r \in Req, NEW way \in Seq(Byte),
         Stands(s, k, r, way), ~r.has_meta, r.buff # << >>
  PROVE  /\ k < Len(s) /\ Cat(r.buff, way) = Cat(Frame(s[k + 1]), Left(s, k + 1))
         /\ \A i \in 1 .. Len(r.buff) :
              i <= Len(Frame(s[k + 1])) => r.buff[i] = [of |-> s[k + 1], at |-> i]
  <1> DEFINE m == s[k + 1]
             v == Left(s, k + 1)
             x == r.buff
             F == Frame(m)
  <1>1. k \in 0 .. Len(s) /\ Cat(x, way) = Left(s, k) /\ x \in Seq(Byte) /\ Len(s) \in Nat
    BY LenProperties DEF Stands, Req
  <1>2. k < Len(s)
    <2> SUFFICES ASSUME k = Len(s) PROVE FALSE
      BY <1>1
    <2>1. Left(s, k) = << >>
      BY LeftNone
    <2> HIDE DEF x
    <2>2. Cat(x, way) = << >> /\ Len(Cat(x, way)) = Len(x) + Len(way)
      BY <1>1, <2>1, CatType
    <2>3. Len(<< >>) = 0 /\ Len(x) \in Nat /\ Len(way) \in Nat
      BY <1>1, EmptySeq, LenProperties
    <2>4. Len(x) = 0
      BY <2>2, <2>3
    <2> QED BY <1>1, <2>4, EmptySeq DEF x
  <1>3. m \in Message /\ v \in Seq(Byte) /\ Left(s, k) = Cat(F, v)
    BY <1>1, <1>2, StandsIn
  <1>4. F \in Seq(Byte) /\ \A i \in 1 .. Len(F) : F[i] = [of |-> m, at |-> i]
    BY <1>3, FrameAt
  <1>5. Len(x) \in Nat /\ Len(F) \in Nat
    BY <1>1, <1>4, LenProperties
  <1>6. ASSUME NEW i \in 1 .. Len(x), i <= Len(F) PROVE x[i] = [of |-> m, at |-> i]
    <2>1. i \in Nat \ {0} /\ i <= Len(x) /\ i \in 1 .. Len(F)
      BY <1>5, <1>6
    <2> HIDE DEF x, F, v, m
    <2>2. x[i] = F[i]
      BY <1>1, <1>3, <1>4, <1>6, <2>1, SameAt
    <2> QED BY <1>4, <2>1, <2>2
  <1> QED
    BY <1>1, <1>2, <1>3, <1>6

\* The first ":" is the end of the meta, and the buffer reaches it as soon as it has one,
\* or as a meta is long.
LEMMA FirstColon ==
  ASSUME NEW s \in Seq(Message), NEW k, NEW r \in Req, NEW way \in Seq(Byte),
         Stands(s, k, r, way), ~r.has_meta, Colons(r) # {} \/ MetaLength <= Len(r.buff)
  PROVE  /\ r.buff # << >> /\ MetaLength <= Len(r.buff)
         /\ Colons(r) # {} /\ MetaEnd(r) = MetaLength
  <1> DEFINE m == s[k + 1]
             x == r.buff
  <1>1. x \in Seq(Byte) /\ Len(x) \in Nat /\ DOMAIN x = 1 .. Len(x)
    BY LenProperties DEF Req
  <1>2. MetaLength \in Nat \ {0} /\ MaxMeta \in Nat /\ MetaLength <= MaxMeta
    BY FrameAssumption
  <1>3. x # << >>
    <2>1. CASE Colons(r) # {}
      BY <2>1 DEF Colons
    <2>2. CASE MetaLength <= Len(x)
      BY <1>1, <1>2, <2>2, EmptySeq
    <2> QED BY <2>1, <2>2
  <1>4. /\ k < Len(s) /\ k \in 0 .. Len(s)
        /\ \A i \in 1 .. Len(x) : i <= Len(Frame(m)) => x[i] = [of |-> m, at |-> i]
    BY <1>3, BuffAt DEF Stands
  <1>5. m \in Message
    BY <1>4, StandsIn
  <1>6. MetaLength <= Len(Frame(m))
    <2>1. /\ Len(Frame(m)) = MetaLength + JsonLength[m] + BinaryLength[m]
          /\ JsonLength[m] \in Nat /\ BinaryLength[m] \in Nat
      BY <1>5, FrameAt
    <2> QED BY <1>2, <2>1
  <1> HIDE DEF m
  <1>7. ASSUME NEW i \in Colons(r) PROVE MetaLength <= i /\ i \in 1 .. Len(x)
    <2>1. i \in 1 .. Len(x) /\ IsColon(x[i])
      BY <1>1, <1>7 DEF Colons
    <2> SUFFICES ASSUME i < MetaLength PROVE FALSE
      BY <1>2, <2>1
    <2>2. Len(Frame(m)) \in Nat
      BY <1>5, FrameAt, LenProperties
    <2>3. x[i] = [of |-> m, at |-> i]
      BY <1>2, <1>4, <1>6, <2>1, <2>2
    <2>4. x[i].of = m /\ x[i].at = i
      BY <2>3
    <2>5. PICK j \in BodyColons[m] : i = MetaLength + j
      BY <1>2, <2>1, <2>4 DEF IsColon
    <2>6. j \in Nat
      BY <1>5, FrameAssumption
    <2> QED BY <1>2, <2>1, <2>5, <2>6
  <1>8. MetaLength <= Len(x)
    <2>1. CASE Colons(r) # {}
      <3>1. PICK i \in Colons(r) : TRUE
        BY <2>1
      <3>2. MetaLength <= i /\ i \in 1 .. Len(x)
        BY <1>7
      <3> QED BY <1>1, <1>2, <3>2
    <2>2. CASE MetaLength <= Len(x)
      BY <2>2
    <2> QED BY <2>1, <2>2
  <1>9. MetaLength \in Colons(r)
    <2>1. MetaLength \in 1 .. Len(x) /\ x[MetaLength] = [of |-> m, at |-> MetaLength]
      BY <1>1, <1>2, <1>4, <1>6, <1>8
    <2>2. x[MetaLength].at = MetaLength
      BY <2>1
    <2> QED BY <1>1, <2>1, <2>2 DEF Colons, IsColon
  <1>10. MetaEnd(r) = MetaLength
    <2>1. \A j \in Colons(r) : MetaLength <= j /\ j \in Nat
      BY <1>1, <1>7
    <2>2. \A i \in Colons(r) : (\A j \in Colons(r) : i <= j) <=> i = MetaLength
      BY <1>2, <1>9, <2>1
    <2> QED BY <1>9, <2>2 DEF MetaEnd
  <1> QED
    BY <1>3, <1>8, <1>9, <1>10

\* The meta found is that of the next message.
LEMMA FirstMeta ==
  ASSUME NEW s \in Seq(Message), NEW k, NEW r \in Req, NEW way \in Seq(Byte),
         Stands(s, k, r, way), ~r.has_meta, Colons(r) # {}
  PROVE  /\ Metas(r) = {s[k + 1]} /\ s[k + 1] \in Message /\ k < Len(s)
         /\ Cat(After(r.buff, MetaLength), way) = Cat(After(Frame(s[k + 1]), MetaLength), Left(s, k + 1))
  <1> DEFINE m == s[k + 1]
             v == Left(s, k + 1)
             x == r.buff
             F == Frame(m)
  <1>1. x # << >> /\ MetaLength <= Len(x) /\ MetaEnd(r) = MetaLength
    BY FirstColon
  <1>2. k < Len(s) /\ k \in 0 .. Len(s) /\ Cat(x, way) = Cat(F, v) /\ x \in Seq(Byte)
    BY <1>1, BuffAt, ZenonT(30) DEF Stands, Req
  <1>3. m \in Message /\ v \in Seq(Byte)
    BY <1>2, StandsIn
  <1>4. F \in Seq(Byte) /\ MetaLength \in Nat /\ MetaLength <= Len(F)
    <2>1. /\ F \in Seq(Byte) /\ Len(F) = MetaLength + JsonLength[m] + BinaryLength[m]
          /\ MetaLength \in Nat /\ JsonLength[m] \in Nat /\ BinaryLength[m] \in Nat
      BY <1>3, FrameAt
    <2> QED BY <2>1
  <1>5. First(x, MetaLength) = First(F, MetaLength) /\ Cat(After(x, MetaLength), way) = Cat(After(F, MetaLength), v)
    <2> HIDE DEF x, F, v
    <2> QED BY <1>1, <1>2, <1>3, <1>4, CutSame
  <1>6. First(x, MetaEnd(r)) = Meta(m)
    BY <1>1, <1>3, <1>5, FrameCut
  <1>7. m \in Metas(r)
    BY <1>3, <1>6 DEF Metas
  <1>8. ASSUME NEW j \in Metas(r) PROVE j = m
    <2>1. j \in Message /\ Meta(j) = Meta(m)
      BY <1>6 DEF Metas
    <2>2. Meta(j)[1] = [of |-> j, at |-> 1] /\ Meta(m)[1] = [of |-> m, at |-> 1]
      BY <1>3, <2>1, PartsKnown
    <2>3. [of |-> j, at |-> 1].of = j /\ [of |-> m, at |-> 1].of = m
      OBVIOUS
    <2> QED BY <2>1, <2>2, <2>3
  <1> QED
    BY <1>2, <1>3, <1>5, <1>7, <1>8

\* A turn: read_block finds the next message whole, or goes on in it, or has torn it, or
\* refuses its binary part.
LEMMA BlockTurn ==
  ASSUME NEW s \in Seq(Message), NEW k, NEW r \in Req, NEW way \in Seq(Byte), Stands(s, k, r, way)
  PROVE  Outcome(s, k, ReadBlock(r), way)
  <1>1. CASE r.has_meta
    <2>1. ReadBlock(r) = ReadJson[r]
      BY <1>1 DEF ReadBlock, ReadBody
    <2> QED BY <1>1, <2>1, JsonTurn
  <1>2. CASE ~r.has_meta /\ Colons(r) = {}
    <2>1. /\ Len(r.buff) \in Nat /\ MetaLength \in Nat /\ MaxMeta \in Nat
          /\ MetaLength <= MaxMeta
      BY LenProperties, FrameAssumption DEF Req
    <2>2. Len(r.buff) < MetaLength
      BY <1>2, <2>1, FirstColon
    <2>3. ~(Len(r.buff) > MaxMeta)
      BY <2>1, <2>2
    <2>4. ReadBlock(r) = Result("null", r)
      BY <1>2, <2>3 DEF ReadBlock, ReadBody
    <2>5. Short(r)
      BY <1>2, <2>2 DEF Short
    <2> QED BY <2>4, <2>5 DEF Outcome, Result
  <1>3. CASE ~r.has_meta /\ Colons(r) # {}
    <2> DEFINE m == s[k + 1]
               v == Left(s, k + 1)
               c == CHOOSE c \in Metas(r) : TRUE
               t == [r EXCEPT !.has_meta = TRUE, !.json_length = JsonLength[c],
                              !.binary_length = BinaryLength[c],
                              !.buff = After(r.buff, MetaEnd(r))]
    <2>1. /\ Metas(r) = {m} /\ m \in Message /\ k < Len(s)
          /\ Cat(After(r.buff, MetaLength), way) = Cat(After(Frame(m), MetaLength), v)
          /\ MetaEnd(r) = MetaLength
      BY <1>3, FirstMeta, FirstColon
    <2>2. ReadBlock(r) = ReadJson[t]
      BY <1>3, <2>1 DEF ReadBlock, ReadBody
    <2>3. c = m
      BY <2>1
    <2>4. /\ t.has_meta /\ t.json_length = JsonLength[m] /\ t.binary_length = BinaryLength[m]
          /\ t.buff = After(r.buff, MetaLength) /\ t.ctx = r.ctx /\ t.binary = r.binary
      BY <2>1, <2>3 DEF Req
    <2>5. t \in Req
      <3>1. JsonLength[m] \in Nat /\ BinaryLength[m] \in Nat /\ MetaLength \in Nat
        BY <2>1, FrameAt
      <3>2. After(r.buff, MetaLength) \in Seq(Byte)
        BY <3>1, Parts DEF Req
      <3> HIDE DEF m, c
      <3> QED BY <2>1, <2>3, <3>1, <3>2 DEF Req
    <2> HIDE DEF t, c
    <2>6. r.ctx = None /\ r.binary = << >> /\ k \in 0 .. Len(s)
      BY <1>3 DEF Stands
    <2>7. Taken(t) = MetaLength
      BY <2>4, <2>6 DEF Taken
    <2>8. Stands(s, k, t, way)
      BY <2>1, <2>4, <2>6, <2>7 DEF Stands
    <2>9. Outcome(s, k, ReadJson[t], way)
      BY <2>4, <2>5, <2>8, JsonTurn
    <2> QED BY <2>2, <2>9
  <1> QED
    BY <1>1, <1>2, <1>3

\* A reader that waits for the rest of a part has the beginning of what is left of a frame.
LEMMA ShortBegun ==
  ASSUME NEW s \in Seq(Message), NEW k, NEW r \in Req, NEW way \in Seq(Byte),
         Stands(s, k, r, way), Short(r)
  PROVE  IsEmpty(r) \/ Begun(r)
  <1> SUFFICES ASSUME r.buff # << >> PROVE Begun(r)
    BY DEF IsEmpty
  <1> DEFINE m == s[k + 1]
             v == Left(s, k + 1)
             x == r.buff
             A == After(Frame(m), Taken(r))
  <1>1. x \in Seq(Byte) /\ Len(x) \in Nat
    BY LenProperties DEF Req
  <1>2. k \in 0 .. Len(s) /\ k < Len(s)
    <2>1. CASE r.has_meta
      BY <2>1 DEF Stands
    <2>2. CASE ~r.has_meta
      BY <2>2, BuffAt DEF Stands
    <2> QED BY <2>1, <2>2
  <1>3. m \in Message /\ v \in Seq(Byte)
    BY <1>2, StandsIn
  <1>4. /\ MetaLength \in Nat /\ JsonLength[m] \in Nat /\ BinaryLength[m] \in Nat
        /\ Frame(m) \in Seq(Byte) /\ Len(Frame(m)) = MetaLength + JsonLength[m] + BinaryLength[m]
    BY <1>3, FrameAt
  <1>5. /\ A \in Seq(Byte) /\ Cat(x, way) = Cat(A, v) /\ Len(x) < Len(A)
    <2>1. CASE ~r.has_meta
      <3>1. Taken(r) = 0
        BY <2>1 DEF Taken
      <3>2. A = Frame(m)
        BY <1>3, <3>1, FrameCut
      <3>3. Cat(x, way) = Cat(Frame(m), v)
        BY <2>1, BuffAt
      <3>4. Len(x) < MetaLength
        BY <2>1 DEF Short
      <3> HIDE DEF x, m, v
      <3> QED BY <1>1, <1>4, <3>2, <3>3, <3>4
    <2>2. CASE r.has_meta /\ r.ctx = None
      <3>1. Taken(r) = MetaLength
        BY <2>2 DEF Taken
      <3>2. A \in Seq(Byte) /\ Len(A) = JsonLength[m] + BinaryLength[m]
        BY <1>3, <3>1, FrameCut
      <3>3. Cat(x, way) = Cat(A, v) /\ r.json_length = JsonLength[m]
        BY <2>2 DEF Stands
      <3>4. Len(x) < JsonLength[m]
        BY <2>2, <3>3 DEF Short
      <3> HIDE DEF x, A, m, v
      <3> QED BY <1>1, <1>4, <3>2, <3>3, <3>4
    <2>3. CASE r.has_meta /\ r.ctx # None
      <3>1. r.json_length = JsonLength[m] /\ r.binary_length = BinaryLength[m]
        BY <2>3 DEF Stands
      <3>2. Taken(r) = MetaLength + JsonLength[m]
        BY <2>3, <3>1 DEF Taken
      <3>3. A \in Seq(Byte) /\ Len(A) = BinaryLength[m]
        BY <1>3, <3>2, FrameCut
      <3>4. Cat(x, way) = Cat(A, v)
        BY <2>3 DEF Stands
      <3>5. Len(x) < BinaryLength[m]
        BY <2>3, <3>1 DEF Short
      <3> QED BY <3>3, <3>4, <3>5
    <2> QED BY <2>1, <2>2, <2>3
  <1>6. First(A, Len(x)) = x
    <2> HIDE DEF x, A, v, m
    <2>1. Len(A) \in Nat
      BY <1>5, LenProperties
    <2>2. First(x, Len(x)) = First(A, Len(x))
      BY <1>1, <1>3, <1>5, <2>1, CutSame
    <2>3. Cat(First(x, Len(x)), After(x, Len(x))) = x
      BY <1>1, FirstAfter
    <2>4. /\ First(x, Len(x)) \in Seq(Byte)
          /\ After(x, Len(x)) \in Seq(Byte) /\ Len(After(x, Len(x))) = Len(x) - Len(x)
      <3>1. Len(x) \in 0 .. Len(x)
        BY <1>1
      <3> QED BY <1>1, <3>1, FirstAt, AfterAt
    <2>5. After(x, Len(x)) = << >>
      BY <1>1, <2>4, EmptySeq
    <2> QED BY <2>2, <2>3, <2>4, <2>5, CatEmpty
  <1> QED
    BY <1>3, <1>5, <1>6 DEF Begun, IsEmpty

-----------------------------------------------------------------------------
(* Which messages were handed out *)

\* Of the first k messages those with a handler were, in their order.
Handed(s, handlers, out, k) ==
  LET called == {i \in 1 .. k : s[i] \in handlers}
  IN  \E f \in [DOMAIN out -> called] :
        /\ \A i \in called : \E j \in DOMAIN out : f[j] = i
        /\ \A i, j \in DOMAIN out : i < j => f[i] < f[j]
        /\ \A j \in DOMAIN out : out[j] = CallOf(s[f[j]])

\* No message is added among those.
LEMMA HandedAppend ==
  ASSUME NEW s \in Seq(Message), NEW m \in Message, NEW handlers, NEW out,
         NEW k \in 0 .. Len(s), Handed(s, handlers, out, k)
  PROVE  Handed(Append(s, m), handlers, out, k)
  <1> DEFINE t == Append(s, m)
             called == {i \in 1 .. k : s[i] \in handlers}
  <1>1. \A i \in 1 .. k : t[i] = s[i]
    <2>1. Len(s) \in Nat /\ \A i \in 1 .. Len(s) : t[i] = s[i]
      BY LenProperties, AppendProperties
    <2> QED BY <2>1
  <1> HIDE DEF t
  <1>2. {i \in 1 .. k : t[i] \in handlers} = called
    BY <1>1
  <1>3. PICK f \in [DOMAIN out -> called] :
          /\ \A i \in called : \E j \in DOMAIN out : f[j] = i
          /\ \A i, j \in DOMAIN out : i < j => f[i] < f[j]
          /\ \A j \in DOMAIN out : out[j] = CallOf(s[f[j]])
    BY DEF Handed
  <1>4. \A j \in DOMAIN out : out[j] = CallOf(t[f[j]])
    <2>1. \A j \in DOMAIN out : f[j] \in 1 .. k
      BY <1>3
    <2> QED BY <1>1, <1>3, <2>1
  <1>5. Handed(t, handlers, out, k)
    BY <1>2, <1>3, <1>4 DEF Handed
  <1> QED
    BY <1>5 DEF t

\* The next message had no handler.
LEMMA HandedSkip ==
  ASSUME NEW s, NEW handlers, NEW out, NEW k \in Nat, Handed(s, handlers, out, k),
         s[k + 1] \notin handlers
  PROVE  Handed(s, handlers, out, k + 1)
  <1>1. {i \in 1 .. k + 1 : s[i] \in handlers} = {i \in 1 .. k : s[i] \in handlers}
    <2>1. \A i : i \in 1 .. k + 1 <=> i \in 1 .. k \/ i = k + 1
      OBVIOUS
    <2> QED BY <2>1
  <1> QED
    BY <1>1 DEF Handed

\* The next message had one.
LEMMA HandedNext ==
  ASSUME NEW s, NEW handlers, NEW S, NEW out \in Seq(S), NEW k \in Nat,
         Handed(s, handlers, out, k), s[k + 1] \in handlers, CallOf(s[k + 1]) \in S
  PROVE  Handed(s, handlers, Append(out, CallOf(s[k + 1])), k + 1)
  <1> DEFINE n == Len(out)
             new == Append(out, CallOf(s[k + 1]))
             called == {i \in 1 .. k : s[i] \in handlers}
             more == {i \in 1 .. k + 1 : s[i] \in handlers}
  <1>1. /\ n \in Nat /\ DOMAIN out = 1 .. n
        /\ new \in Seq(S) /\ Len(new) = n + 1 /\ DOMAIN new = 1 .. n + 1
        /\ \A j \in 1 .. n : new[j] = out[j]
        /\ new[n + 1] = CallOf(s[k + 1])
    <2>1. n \in Nat /\ DOMAIN out = 1 .. n
      BY LenProperties
    <2>2. /\ new \in Seq(S) /\ Len(new) = n + 1
          /\ \A j \in 1 .. n : new[j] = out[j]
          /\ new[n + 1] = CallOf(s[k + 1])
      BY AppendProperties
    <2>3. DOMAIN new = 1 .. n + 1
      <3> HIDE DEF new
      <3> QED BY <2>2, LenProperties
    <2> QED BY <2>1, <2>2, <2>3
  <1>2. more = called \cup {k + 1} /\ called \subseteq 1 .. k
    OBVIOUS
  <1>3. PICK f \in [1 .. n -> called] :
          /\ \A i \in called : \E j \in 1 .. n : f[j] = i
          /\ \A i, j \in 1 .. n : i < j => f[i] < f[j]
          /\ \A j \in 1 .. n : out[j] = CallOf(s[f[j]])
    <2>1. PICK f \in [DOMAIN out -> called] :
            /\ \A i \in called : \E j \in DOMAIN out : f[j] = i
            /\ \A i, j \in DOMAIN out : i < j => f[i] < f[j]
            /\ \A j \in DOMAIN out : out[j] = CallOf(s[f[j]])
      BY DEF Handed
    <2> HIDE DEF n, called
    <2>2. DOMAIN out = 1 .. n
      BY <1>1
    <2> QED BY <2>1, <2>2
  <1> HIDE DEF n, new, called, more
  <1> DEFINE g == [j \in 1 .. n + 1 |-> IF j = n + 1 THEN k + 1 ELSE f[j]]
  <1>4. /\ g[n + 1] = k + 1
        /\ \A j \in 1 .. n : g[j] = f[j] /\ f[j] \in called /\ j \in 1 .. n + 1
        /\ \A j \in 1 .. n + 1 : j # n + 1 => j \in 1 .. n
    BY <1>1, <1>3, SMTT(30)
  <1>5. g \in [1 .. n + 1 -> more]
    <2>1. \A j \in 1 .. n + 1 : (IF j = n + 1 THEN k + 1 ELSE f[j]) \in more
      BY <1>2, <1>4
    <2> QED BY <2>1
  <1> HIDE DEF g
  <1>6. \A i \in more : \E j \in 1 .. n + 1 : g[j] = i
    <2> SUFFICES ASSUME NEW i \in more PROVE \E j \in 1 .. n + 1 : g[j] = i
      OBVIOUS
    <2>1. CASE i = k + 1
      BY <1>1, <1>4, <2>1
    <2>2. CASE i \in called
      BY <1>3, <1>4, <2>2
    <2> QED BY <1>2, <2>1, <2>2
  <1>7. \A i, j \in 1 .. n + 1 : i < j => g[i] < g[j]
    <2> SUFFICES ASSUME NEW i \in 1 .. n + 1, NEW j \in 1 .. n + 1, i < j PROVE g[i] < g[j]
      OBVIOUS
    <2>0. i \in 1 .. n
      BY <1>1
    <2>1. i \in 1 .. n /\ g[i] = f[i] /\ f[i] \in 1 .. k
      BY <1>2, <1>4, <2>0
    <2>2. CASE j = n + 1
      BY <1>4, <2>1, <2>2
    <2>3. CASE j # n + 1
      <3>1. j \in 1 .. n /\ g[j] = f[j]
        BY <1>4, <2>3
      <3> QED BY <1>3, <2>1, <3>1
    <2> QED BY <2>2, <2>3
  <1>8. \A j \in 1 .. n + 1 : new[j] = CallOf(s[g[j]])
    <2> SUFFICES ASSUME NEW j \in 1 .. n + 1 PROVE new[j] = CallOf(s[g[j]])
      OBVIOUS
    <2>1. CASE j = n + 1
      BY <1>1, <1>4, <2>1
    <2>2. CASE j # n + 1
      BY <1>1, <1>3, <1>4, <2>2
    <2> QED BY <2>1, <2>2
  <1>9. Handed(s, handlers, new, k + 1)
    <2>1. /\ \A i \in more : \E j \in DOMAIN new : g[j] = i
          /\ \A i, j \in DOMAIN new : i < j => g[i] < g[j]
          /\ \A j \in DOMAIN new : new[j] = CallOf(s[g[j]])
          /\ g \in [DOMAIN new -> more]
      BY <1>1, <1>5, <1>6, <1>7, <1>8
    <2> QED BY <2>1 DEF Handed, more
  <1> QED
    BY <1>9 DEF new

-----------------------------------------------------------------------------
(* A direction of the connection *)

\* The reader is on its way through the messages, and those it has read were handed out.
Going(s, handlers, out, r, way) ==
  \E k \in 0 .. Len(s) : Stands(s, k, r, way) /\ Handed(s, handlers, out, k)

LEMMA GoingCarries ==
  ASSUME NEW s \in Seq(Message), NEW handlers, NEW out, NEW r \in Req, NEW way \in Seq(Byte),
         Going(s, handlers, out, r, way)
  PROVE  Carried(s, handlers, out, r, way)
  <1>1. PICK k \in 0 .. Len(s) : Stands(s, k, r, way) /\ Handed(s, handlers, out, k)
    BY DEF Going
  <1>2. Cat(Cat(First(Left(s, k), Taken(r)), r.buff), way) = Left(s, k)
    BY <1>1, StandsCarries
  <1>3. First(Frames(After(s, k)), Taken(r)) \o r.buff \o way = Frames(After(s, k))
    BY <1>2 DEF Cat, Left
  <1> QED
    BY <1>1, <1>3 DEF Carried, Handed

LEMMA GoingAppend ==
  ASSUME NEW s \in Seq(Message), NEW handlers, NEW out, NEW r \in Req, NEW way \in Seq(Byte),
         NEW m \in Message, Going(s, handlers, out, r, way)
  PROVE  Going(Append(s, m), handlers, out, r, Cat(way, Frame(m)))
  <1>1. PICK k \in 0 .. Len(s) : Stands(s, k, r, way) /\ Handed(s, handlers, out, k)
    BY DEF Going
  <1>2. Stands(Append(s, m), k, r, Cat(way, Frame(m))) /\ Handed(Append(s, m), handlers, out, k)
    BY <1>1, StandsAppend, HandedAppend
  <1>3. k \in 0 .. Len(Append(s, m))
    BY <1>2 DEF Stands
  <1> QED
    BY <1>2, <1>3 DEF Going

LEMMA GoingAdd ==
  ASSUME NEW s \in Seq(Message), NEW handlers, NEW out, NEW r \in Req, NEW d \in Seq(Byte),
         NEW v \in Seq(Byte), NEW n \in Nat, Going(s, handlers, out, r, Cat(d, v))
  PROVE  Going(s, handlers, out, Add(r, First(d, n)), Cat(After(d, n), v))
  <1>1. PICK k \in 0 .. Len(s) : Stands(s, k, r, Cat(d, v)) /\ Handed(s, handlers, out, k)
    BY DEF Going
  <1>2. Stands(s, k, Add(r, First(d, n)), Cat(After(d, n), v))
    BY <1>1, StandsAdd
  <1> QED
    BY <1>1, <1>2 DEF Going

\* What a turn of the reader makes of a direction.
GoesOn(s, handlers, out, read, way) ==
  \/ read.res = "null" /\ Going(s, handlers, out, read.req, way)
  \/ read.res = "frame" /\ read.req.ctx = None
  \/ /\ read.res = "frame"
     /\ Going(s, handlers, IF read.req.ctx \in handlers THEN Append(out, Call(read.req)) ELSE out,
              Reset(read.req), way)
  \/ read.res = "Invalid JSON." /\ AwaitsBinary(read.req)

LEMMA GoingTurn ==
  ASSUME NEW s \in Seq(Message), NEW handlers,
         NEW out \in Seq([ctx : handlers, bytes : Bytes]), NEW r \in Req, NEW way \in Seq(Byte),
         Going(s, handlers, out, r, way)
  PROVE  GoesOn(s, handlers, out, ReadBlock(r), way)
  <1> DEFINE read == ReadBlock(r)
  <1>1. PICK k \in 0 .. Len(s) : Stands(s, k, r, way) /\ Handed(s, handlers, out, k)
    BY DEF Going
  <1>2. Outcome(s, k, read, way)
    BY <1>1, BlockTurn
  <1>3. read.req \in Req
    BY ReadBlockType DEF Reads
  <1> HIDE DEF read
  <1>4. CASE read.res = "null" /\ Stands(s, k, read.req, way) /\ Short(read.req)
    <2>1. GoesOn(s, handlers, out, read, way)
      BY <1>1, <1>4 DEF GoesOn, Going
    <2> QED BY <2>1 DEF read
  <1>5. CASE read.res = "frame" /\ read.req.ctx = None
    <2>1. GoesOn(s, handlers, out, read, way)
      BY <1>5 DEF GoesOn
    <2> QED BY <2>1 DEF read
  <1>6. CASE /\ read.res = "frame" /\ k < Len(s)
             /\ Call(read.req) = CallOf(s[k + 1])
             /\ Stands(s, k + 1, Reset(read.req), way)
    <2>1. read.req.ctx = s[k + 1]
      BY <1>6 DEF Call, CallOf
    <2>2. k \in Nat /\ k + 1 \in 0 .. Len(s)
      BY <1>6 DEF Stands
    <2>3. CASE read.req.ctx \in handlers
      <3>1. CallOf(s[k + 1]) \in [ctx : handlers, bytes : Bytes]
        BY <1>3, <1>6, <2>3, CallType
      <3>2. Handed(s, handlers, Append(out, CallOf(s[k + 1])), k + 1)
        BY <1>1, <2>1, <2>2, <2>3, <3>1, HandedNext
      <3>3. Going(s, handlers, Append(out, Call(read.req)), Reset(read.req), way)
        BY <1>6, <2>2, <3>2 DEF Going
      <3>4. GoesOn(s, handlers, out, read, way)
        BY <1>6, <2>3, <3>3 DEF GoesOn
      <3> QED BY <3>4 DEF read
    <2>4. CASE read.req.ctx \notin handlers
      <3>1. Handed(s, handlers, out, k + 1)
        BY <1>1, <2>1, <2>2, <2>4, HandedSkip
      <3>2. Going(s, handlers, out, Reset(read.req), way)
        BY <1>6, <2>2, <3>1 DEF Going
      <3>3. GoesOn(s, handlers, out, read, way)
        BY <1>6, <2>4, <3>2 DEF GoesOn
      <3> QED BY <3>3 DEF read
    <2> QED BY <2>3, <2>4
  <1>7. CASE read.res = "Invalid JSON." /\ AwaitsBinary(read.req)
    <2>1. GoesOn(s, handlers, out, read, way)
      BY <1>7 DEF GoesOn
    <2> QED BY <2>1 DEF read
  <1> QED
    BY <1>2, <1>4, <1>5, <1>6, <1>7 DEF Outcome

-----------------------------------------------------------------------------
(* The inductive invariant *)

DownWay == Cat(Cat(down, chunk), FlattenSeq(rx))

Streams ==
  Running => /\ "req" \in torn \/ Going(sent, Handled, dispatched, req, DownWay)
             /\ "reader" \in torn \/ Going(pushed, Served, served, reader, up)

Inv == Streams /\ RefusesOnlyBinary

LEMMA WayType ==
  ASSUME TypeOK
  PROVE  /\ down \in Seq(Byte) /\ chunk \in Seq(Byte) /\ up \in Seq(Byte)
         /\ rx \in Seq(Seq(Byte)) /\ FlattenSeq(rx) \in Seq(Byte)
         /\ Cat(chunk, FlattenSeq(rx)) \in Seq(Byte)
         /\ DownWay \in Seq(Byte) /\ DownWay = Cat(down, Cat(chunk, FlattenSeq(rx)))
  <1>1. down \in Seq(Byte) /\ chunk \in Seq(Byte) /\ up \in Seq(Byte) /\ rx \in Seq(Seq(Byte))
    BY DEF TypeOK, Bytes
  <1> DEFINE f == FlattenSeq(rx)
  <1>2. f \in Seq(Byte)
    BY <1>1, FlattenType
  <1> HIDE DEF f
  <1>3. Cat(chunk, f) \in Seq(Byte) /\ Cat(down, chunk) \in Seq(Byte)
    BY <1>1, <1>2, CatType
  <1>4. Cat(Cat(down, chunk), f) = Cat(down, Cat(chunk, f)) /\ Cat(Cat(down, chunk), f) \in Seq(Byte)
    BY <1>1, <1>2, <1>3, CatAssoc, CatType
  <1> QED
    BY <1>1, <1>2, <1>3, <1>4 DEF DownWay, f

\* A message given to the channel goes to the end of the way.
LEMMA GivenWay ==
  ASSUME TypeOK, NEW m \in Message, rx' = Append(rx, Frame(m)), UNCHANGED <<chunk, down>>
  PROVE  DownWay' = Cat(DownWay, Frame(m))
  <1> DEFINE f == FlattenSeq(rx)
             x == Frame(m)
             a == Cat(down, chunk)
  <1>1. rx \in Seq(Seq(Byte)) /\ f \in Seq(Byte) /\ x \in Seq(Byte) /\ a \in Seq(Byte)
    BY WayType, FrameAt, CatType
  <1>2. FlattenSeq(rx') = Cat(f, x)
    BY <1>1, FlattenAppend
  <1>3. Cat(down', chunk') = a
    OBVIOUS
  <1> HIDE DEF f, x, a
  <1>4. Cat(a, Cat(f, x)) = Cat(Cat(a, f), x)
    BY <1>1, CatAssoc
  <1>5. DownWay' = Cat(a, Cat(f, x))
    BY <1>2, <1>3 DEF DownWay
  <1>6. DownWay = Cat(a, f)
    BY DEF DownWay, a, f
  <1> QED
    BY <1>4, <1>5, <1>6 DEF x

\* TakeChunk and Write leave the way as it is.
LEMMA WriterWay ==
  ASSUME TypeOK, Fits, TakeChunk \/ Write
  PROVE  DownWay' = DownWay
  <1>1. CASE TakeChunk
    <2> DEFINE x == Head(rx)
               f == FlattenSeq(Tail(rx))
    <2>1. rx \in Seq(Seq(Byte)) /\ rx # << >> /\ down \in Seq(Byte) /\ chunk = << >>
      BY <1>1, WayType DEF TakeChunk
    <2>2. FlattenSeq(rx) = Cat(x, f)
      BY <2>1, FlattenHead
    <2>3. x \in Seq(Byte) /\ Tail(rx) \in Seq(Seq(Byte))
      BY <2>1, HeadTailProperties
    <2>4. f \in Seq(Byte)
      BY <2>3, FlattenType
    <2>5. down' = down /\ chunk' = x /\ FlattenSeq(rx') = f
      BY <1>1 DEF TakeChunk
    <2> HIDE DEF x, f
    <2>6. Cat(down, << >>) = down /\ Cat(Cat(down, x), f) = Cat(down, Cat(x, f))
      BY <2>1, <2>3, <2>4, CatEmpty, CatAssoc
    <2> QED BY <2>1, <2>2, <2>5, <2>6 DEF DownWay
  <1>2. CASE Write
    <2> DEFINE n == Capacity - Len(down)
               x == First(chunk, n)
               y == After(chunk, n)
    <2>1. n \in Nat
      <3>1. Len(down) \in Nat
        BY LenProperties DEF TypeOK, Bytes
      <3> QED BY <3>1, UdsAssumption DEF Fits
    <2>2. down \in Seq(Byte) /\ chunk \in Seq(Byte)
      BY WayType
    <2>3. down' = Cat(down, x) /\ chunk' = y /\ rx' = rx
      BY <1>2 DEF Write, channel, Cat
    <2> HIDE DEF n
    <2>4. x \in Seq(Byte) /\ y \in Seq(Byte) /\ Cat(x, y) = chunk
      BY <2>1, <2>2, Parts, FirstAfter
    <2> HIDE DEF x, y
    <2>5. Cat(Cat(down, x), y) = Cat(down, Cat(x, y))
      BY <2>2, <2>4, CatAssoc
    <2> QED BY <2>3, <2>4, <2>5 DEF DownWay
  <1> QED
    BY <1>1, <1>2

\* What is true of one direction stays so in steps that do not touch it.
DownSame == UNCHANGED <<sent, dispatched, req, down, chunk, rx>>
UpSame == UNCHANGED <<pushed, served, reader, up>>

LEMMA SameKept ==
  /\ DownSame => DownWay' = DownWay
                 /\ (Going(sent, Handled, dispatched, req, DownWay)
                     => Going(sent, Handled, dispatched, req, DownWay)')
  /\ UpSame => (Going(pushed, Served, served, reader, up)
                => Going(pushed, Served, served, reader, up)')
  <1>1. DownSame => DownWay' = DownWay
    BY DEF DownSame, DownWay
  <1>2. DownSame => sent' = sent /\ dispatched' = dispatched /\ req' = req
    BY DEF DownSame
  <1>3. UpSame => pushed' = pushed /\ served' = served /\ reader' = reader /\ up' = up
    BY DEF UpSame
  <1> QED
    BY <1>1, <1>2, <1>3

\* A message goes into the channel; if a turn of the read task does it, by its reply.
LEMMA Given ==
  ASSUME TypeOK, NEW m \in Message, Going(sent, Handled, dispatched, req, DownWay),
         sent' = Append(sent, m), rx' = Append(rx, Frame(m)),
         UNCHANGED <<dispatched, req, down, chunk>>
  PROVE  Going(sent, Handled, dispatched, req, DownWay)'
  <1>1. sent \in Seq(Message) /\ req \in Req /\ DownWay \in Seq(Byte)
    BY WayType DEF TypeOK
  <1>2. Going(Append(sent, m), Handled, dispatched, req, Cat(DownWay, Frame(m)))
    BY <1>1, GoingAppend
  <1>3. DownWay' = Cat(DownWay, Frame(m))
    BY GivenWay
  <1>4. Going(sent', Handled, dispatched', req', DownWay')
    BY <1>2, <1>3
  <1> QED
    BY <1>4

\* The steps of the write task, and of those who give it messages.
LEMMA StreamsWriter ==
  ASSUME TypeOK, Fits, Inv, (\E m \in Sends : Send(m)) \/ Resume \/ TakeChunk \/ Write
  PROVE  Inv'
  <1>1. UNCHANGED <<torn, exited>> /\ UpSame /\ req' = req /\ Running
    BY DEF Send, Resume, TakeChunk, Write, UpSame, javascript, pushing, readTask
  <1>2. Streams'
    <2>1. Going(sent, Handled, dispatched, req, DownWay)
          => Going(sent, Handled, dispatched, req, DownWay)'
      <3> SUFFICES ASSUME Going(sent, Handled, dispatched, req, DownWay)
                   PROVE  Going(sent, Handled, dispatched, req, DownWay)'
        OBVIOUS
      <3>1. CASE \E m \in Sends : Send(m)
        <4>1. PICK m \in Sends : Send(m)
          BY <3>1
        <4>2. m \in Message
          BY UdsAssumption
        <4>3. /\ sent' = Append(sent, m) /\ rx' = Append(rx, Frame(m))
              /\ UNCHANGED <<dispatched, req, down, chunk>>
          BY <4>1 DEF Send, writer, javascript
        <4> QED BY <4>2, <4>3, Given
      <3>2. CASE Resume
        <4>1. DownSame
          BY <3>2 DEF Resume, DownSame, channel, javascript
        <4> QED BY <4>1, SameKept
      <3>3. CASE TakeChunk \/ Write
        <4>1. DownWay' = DownWay
          BY <3>3, WriterWay
        <4>2. sent' = sent /\ dispatched' = dispatched /\ req' = req
          BY <3>3 DEF TakeChunk, Write, channel, javascript
        <4>3. Going(sent', Handled, dispatched', req', DownWay')
          BY <4>1, <4>2
        <4> QED BY <4>3
      <3> QED BY <3>1, <3>2, <3>3
    <2> QED BY <1>1, <2>1, SameKept DEF Inv, Streams, Running
  <1>3. RefusesOnlyBinary'
    BY <1>1 DEF Running, RefusesOnlyBinary
  <1> QED
    BY <1>2, <1>3 DEF Inv

\* The steps of the read task.
LEMMA StreamsReadTask ==
  ASSUME TypeOK, Fits, Inv, Read \/ ReadTurn \/ Disconnect
  PROVE  Inv'
  <1>0. /\ pushed \in Seq(Message) /\ served \in Seq([ctx : Served, bytes : Bytes])
        /\ reader \in Req /\ up \in Seq(Byte)
    BY DEF TypeOK, Bytes
  <1>1. CASE Disconnect
    <2>1. UNCHANGED <<torn, exited, req, reader>> /\ DownSame /\ UpSame /\ Running
      BY <1>1 DEF Disconnect, DownSame, UpSame, channel, writer, javascript, pushing
    <2> QED BY <2>1, SameKept DEF Inv, Streams, Running, RefusesOnlyBinary
  <1>2. CASE Read
    <2>1. /\ UNCHANGED <<torn, exited, pushed, served>> /\ DownSame /\ Running
      BY <1>2 DEF Read, DownSame, channel, writer, javascript, pushing
    <2>2. PICK n \in ReadSizes : reader' = Add(reader, First(up, n)) /\ up' = After(up, n)
      BY <1>2 DEF Read
    <2>3. Going(pushed, Served, served, reader, up) => Going(pushed, Served, served, reader, up)'
      <3>1. n \in Nat /\ << >> \in Seq(Byte)
        BY UdsAssumption, EmptySeq
      <3>2. Cat(up, << >>) = up /\ Cat(After(up, n), << >>) = After(up, n)
        <4>1. After(up, n) \in Seq(Byte)
          BY <1>0, <3>1, Parts
        <4> QED BY <1>0, <4>1, CatEmpty
      <3>3. Going(pushed, Served, served, reader, Cat(up, << >>))
            => Going(pushed, Served, served, Add(reader, First(up, n)), Cat(After(up, n), << >>))
        BY <1>0, <3>1, GoingAdd
      <3>4. Going(pushed, Served, served, reader, up)
            => Going(pushed', Served, served', reader', up')
        BY <2>1, <2>2, <3>2, <3>3
      <3> QED BY <3>4
    <2> QED BY <2>1, <2>3, SameKept DEF Inv, Streams, Running, RefusesOnlyBinary
  <1>3. CASE ReadTurn
    <2>1. PICK read \in {ReadBlock(reader)} : Serve(read) \/ Spin(read) \/ Refuse(read)
      BY <1>3 DEF ReadTurn
    <2>2. Running /\ UNCHANGED <<req, dispatched, down, chunk, pushed, up>>
      BY <1>3 DEF ReadTurn, Serve, Spin, Refuse, writer, javascript, pushing
    <2>3. Going(pushed, Served, served, reader, up) => GoesOn(pushed, Served, served, read, up)
      BY <1>0, <2>1, GoingTurn
    <2>4. CASE Serve(read)
      <3>1. read.res = "frame" /\ exited' = exited /\ reader' = Reset(read.req)
        BY <2>4 DEF Serve
      <3>2. torn' = IF read.req.ctx = None THEN torn \cup {"reader"} ELSE torn
        BY <2>4 DEF Serve, Tear
      <3>3. Going(sent, Handled, dispatched, req, DownWay)
            => Going(sent, Handled, dispatched, req, DownWay)'
        <4>1. CASE read.req.ctx \in Served
          <5>1. Reply[read.req.ctx] \in Message
            BY <4>1, UdsAssumption
          <5>2. sent' = Append(sent, Reply[read.req.ctx]) /\ rx' = Append(rx, Frame(Reply[read.req.ctx]))
            BY <2>4, <4>1 DEF Serve
          <5> DEFINE m == Reply[read.req.ctx]
          <5> HIDE DEF m
          <5>3. m \in Message /\ sent' = Append(sent, m) /\ rx' = Append(rx, Frame(m))
            BY <5>1, <5>2 DEF m
          <5> QED BY <2>2, <5>3, Given
        <4>2. CASE read.req.ctx \notin Served
          <5>1. DownSame
            BY <2>2, <2>4, <4>2 DEF Serve, DownSame, channel
          <5> QED BY <5>1, SameKept
        <4> QED BY <4>1, <4>2
      <3>4. read.req.ctx # None /\ Going(pushed, Served, served, reader, up)
            => Going(pushed, Served, served, reader, up)'
        <4> SUFFICES ASSUME read.req.ctx # None, Going(pushed, Served, served, reader, up)
                     PROVE  Going(pushed, Served, served, reader, up)'
          OBVIOUS
        <4>1. Going(pushed, Served, IF read.req.ctx \in Served THEN Append(served, Call(read.req)) ELSE served,
                    Reset(read.req), up)
          BY <2>3, <3>1 DEF GoesOn
        <4>2. served' = IF read.req.ctx \in Served THEN Append(served, Call(read.req)) ELSE served
          BY <2>4 DEF Serve
        <4>3. Going(pushed', Served, served', reader', up')
          BY <2>2, <3>1, <4>1, <4>2
        <4> QED BY <4>3
      <3>5. Streams'
        BY <2>2, <3>1, <3>2, <3>3, <3>4 DEF Inv, Streams, Running
      <3>6. RefusesOnlyBinary'
        BY <2>2, <3>1 DEF RefusesOnlyBinary, Running
      <3> QED BY <3>5, <3>6 DEF Inv
    <2>5. CASE Spin(read)
      <3>1. read.res = "null" /\ UNCHANGED <<exited, torn, served>> /\ reader' = read.req /\ DownSame
        BY <2>2, <2>5 DEF Spin, DownSame, channel
      <3>2. Going(pushed, Served, served, reader, up) => Going(pushed, Served, served, read.req, up)
        BY <2>3, <3>1 DEF GoesOn
      <3>3. Going(pushed, Served, served, reader, up) => Going(pushed', Served, served', reader', up')
        BY <2>2, <3>1, <3>2
      <3>4. Streams'
        BY <2>2, <3>1, <3>3, SameKept DEF Inv, Streams, Running
      <3> QED BY <2>2, <3>1, <3>4 DEF Inv, RefusesOnlyBinary, Running
    <2>6. CASE Refuse(read)
      <3>1. /\ read.res \notin {"frame", "null"} /\ reader' = read.req /\ torn' = torn
            /\ exited' = "Block read error."
        BY <2>6 DEF Refuse
      <3>2. "reader" \in torn \/ AwaitsBinary(read.req)
        BY <2>2, <2>3, <3>1 DEF Inv, Streams, GoesOn
      <3>3. RefusesOnlyBinary'
        BY <3>1, <3>2 DEF RefusesOnlyBinary
      <3> QED BY <3>1, <3>3 DEF Inv, Streams, Running
    <2> QED BY <2>1, <2>4, <2>5, <2>6
  <1> QED
    BY <1>1, <1>2, <1>3

\* The steps of JavaScript.
LEMMA StreamsJavaScript ==
  ASSUME TypeOK, Fits, Inv,
         \/ \E m \in Pushes : Push(m)
         \/ Stop \/ Data \/ Turn
         \/ \E m \in Handled : Return(m)
  PROVE  Inv'
  <1>0. /\ sent \in Seq(Message) /\ dispatched \in Seq([ctx : Handled, bytes : Bytes])
        /\ req \in Req /\ DownWay \in Seq(Byte)
        /\ pushed \in Seq(Message) /\ reader \in Req /\ up \in Seq(Byte)
    BY WayType DEF TypeOK, Bytes
  <1>1. CASE Stop \/ \E m \in Handled : Return(m)
    <2>1. UNCHANGED <<torn, exited, req, reader>> /\ DownSame /\ UpSame /\ Running
      BY <1>1 DEF Stop, Return, Idle, DownSame, UpSame, native, channel, writer, javascript,
                  pushing, readTask
    <2> QED BY <2>1, SameKept DEF Inv, Streams, Running, RefusesOnlyBinary
  <1>2. CASE \E m \in Pushes : Push(m)
    <2>1. PICK m \in Pushes : Push(m)
      BY <1>2
    <2>2. m \in Message
      BY UdsAssumption
    <2>3. /\ UNCHANGED <<torn, exited, served, reader>> /\ DownSame /\ Running
          /\ pushed' = Append(pushed, m) /\ up' = Cat(up, Frame(m))
      BY <2>1 DEF Push, Idle, DownSame, native, channel, writer, javascript, readTask, Cat
    <2>4. Going(pushed, Served, served, reader, up)
          => Going(Append(pushed, m), Served, served, reader, Cat(up, Frame(m)))
      BY <1>0, <2>2, GoingAppend
    <2>5. Going(pushed, Served, served, reader, up) => Going(pushed', Served, served', reader', up')
      BY <2>3, <2>4
    <2>6. Streams'
      BY <2>3, <2>5, SameKept DEF Inv, Streams, Running
    <2> QED BY <2>3, <2>6 DEF Inv, RefusesOnlyBinary, Running
  <1>3. CASE Data
    <2>1. /\ UNCHANGED <<torn, exited, sent, dispatched, chunk, rx>> /\ UpSame /\ Running
      BY <1>3 DEF Data, Idle, UpSame, native, channel, writer, pushing, readTask
    <2>2. PICK n \in ReadSizes : req' = Add(req, First(down, n)) /\ down' = After(down, n)
      BY <1>3 DEF Data
    <2> DEFINE v == Cat(chunk, FlattenSeq(rx))
    <2>3. n \in Nat /\ down \in Seq(Byte) /\ v \in Seq(Byte) /\ DownWay = Cat(down, v)
      BY WayType, UdsAssumption
    <2>4. DownWay' = Cat(After(down, n), v)
      <3> DEFINE f == FlattenSeq(rx)
                 y == After(down, n)
      <3>1. y \in Seq(Byte) /\ chunk \in Seq(Byte) /\ f \in Seq(Byte)
        BY <2>3, WayType, Parts
      <3>2. FlattenSeq(rx') = f /\ down' = y /\ chunk' = chunk
        BY <2>1, <2>2
      <3> HIDE DEF f, y
      <3>3. Cat(Cat(y, chunk), f) = Cat(y, Cat(chunk, f))
        BY <3>1, CatAssoc
      <3> QED BY <3>2, <3>3 DEF DownWay, f, y
    <2> HIDE DEF v
    <2>5. Going(sent, Handled, dispatched, req, Cat(down, v))
          => Going(sent, Handled, dispatched, Add(req, First(down, n)), Cat(After(down, n), v))
      BY <1>0, <2>3, GoingAdd
    <2>6. Going(sent, Handled, dispatched, req, DownWay)
          => Going(sent', Handled, dispatched', req', DownWay')
      BY <2>1, <2>2, <2>3, <2>4, <2>5
    <2>7. Streams'
      BY <2>1, <2>6, SameKept DEF Inv, Streams, Running
    <2> QED BY <2>1, <2>7 DEF Inv, RefusesOnlyBinary, Running
  <1>4. CASE Turn
    <2>1. PICK read \in {ReadBlock(req)} : Dispatch(read) \/ Incomplete(read) \/ Reject(read)
      BY <1>4 DEF Turn
    <2>2. Running /\ UpSame /\ UNCHANGED <<sent, rx, chunk, down>>
      BY <1>4 DEF Turn, Dispatch, Incomplete, Reject, UpSame, native, channel, writer, pushing, readTask
    <2>3. DownWay' = DownWay
      BY <2>2 DEF DownWay
    <2>4. Going(sent, Handled, dispatched, req, DownWay)
          => GoesOn(sent, Handled, dispatched, read, DownWay)
      BY <1>0, <2>1, GoingTurn
    <2>5. CASE Dispatch(read)
      <3>1. read.res = "frame" /\ exited' = exited /\ req' = Reset(read.req)
        BY <2>5 DEF Dispatch
      <3>2. torn' = IF read.req.ctx = None THEN torn \cup {"req"} ELSE torn
        BY <2>5 DEF Dispatch, Tear
      <3>3. dispatched' = IF read.req.ctx \in Handled THEN Append(dispatched, Call(read.req)) ELSE dispatched
        BY <2>5 DEF Dispatch
      <3>4. read.req.ctx # None /\ Going(sent, Handled, dispatched, req, DownWay)
            => Going(sent', Handled, dispatched', req', DownWay')
        <4> SUFFICES ASSUME read.req.ctx # None, Going(sent, Handled, dispatched, req, DownWay)
                     PROVE  Going(sent', Handled, dispatched', req', DownWay')
          OBVIOUS
        <4>1. Going(sent, Handled,
                    IF read.req.ctx \in Handled THEN Append(dispatched, Call(read.req)) ELSE dispatched,
                    Reset(read.req), DownWay)
          BY <2>4, <3>1 DEF GoesOn
        <4> QED BY <2>2, <2>3, <3>1, <3>3, <4>1
      <3>5. Streams'
        BY <2>2, <3>1, <3>2, <3>4, SameKept DEF Inv, Streams, Running
      <3> QED BY <2>2, <3>1, <3>5 DEF Inv, RefusesOnlyBinary, Running
    <2>6. CASE Incomplete(read)
      <3>1. read.res = "null" /\ UNCHANGED <<exited, torn, dispatched>> /\ req' = read.req
        BY <2>6 DEF Incomplete
      <3>2. Going(sent, Handled, dispatched, req, DownWay)
            => Going(sent, Handled, dispatched, read.req, DownWay)
        BY <2>4, <3>1 DEF GoesOn
      <3>3. Going(sent, Handled, dispatched, req, DownWay)
            => Going(sent', Handled, dispatched', req', DownWay')
        BY <2>2, <2>3, <3>1, <3>2
      <3>4. Streams'
        BY <2>2, <3>1, <3>3, SameKept DEF Inv, Streams, Running
      <3> QED BY <2>2, <3>1, <3>4 DEF Inv, RefusesOnlyBinary, Running
    <2>7. CASE Reject(read)
      <3>1. /\ read.res \notin {"frame", "null"} /\ req' = read.req /\ torn' = torn
            /\ exited' = read.res
        BY <2>7 DEF Reject
      <3>2. "req" \in torn \/ (read.res = "Invalid JSON." /\ AwaitsBinary(read.req))
        BY <2>2, <2>4, <3>1 DEF Inv, Streams, GoesOn
      <3>3. exited' \in Results \ {"frame", "null"}
        BY <1>0, <2>1, <3>1, ReadBlockType DEF Reads
      <3>4. exited' # "no" /\ exited' # "Block read error."
        BY <3>3 DEF Results
      <3>5. RefusesOnlyBinary'
        BY <3>1, <3>2, <3>4 DEF RefusesOnlyBinary
      <3> QED BY <3>4, <3>5 DEF Inv, Streams, Running
    <2> QED BY <2>1, <2>5, <2>6, <2>7
  <1> QED
    BY <1>1, <1>2, <1>3, <1>4

LEMMA InvInit == Init => Inv
  <1> SUFFICES ASSUME Init PROVE Inv
    OBVIOUS
  <1>1. << >> \in Seq(Byte) /\ << >> \in Seq(Message) /\ << >> \in Seq(Seq(Byte)) /\ Len(<< >>) = 0
    BY EmptySeq
  <1>2. FlattenSeq(<< >>) = << >>
    BY <1>1, FlattenIs
  <1>3. Cat(<< >>, << >>) = << >>
    BY <1>1, CatEmpty
  <1>4. DownWay = << >>
    BY <1>2, <1>3 DEF Init, DownWay
  <1>5. Left(<< >>, 0) = << >>
    BY <1>1, LeftNone
  <1>6. Stands(<< >>, 0, NewReq, << >>)
    BY <1>1, <1>3, <1>5 DEF Stands, NewReq
  <1>7. ASSUME NEW h PROVE Handed(<< >>, h, << >>, 0)
    <2> DEFINE called == {i \in 1 .. 0 : << >>[i] \in h}
    <2>1. called = {} /\ DOMAIN << >> = {}
      OBVIOUS
    <2>2. << >> \in [DOMAIN << >> -> called]
      BY <2>1
    <2>3. \E f \in [DOMAIN << >> -> called] :
            /\ \A i \in called : \E j \in DOMAIN << >> : f[j] = i
            /\ \A i, j \in DOMAIN << >> : i < j => f[i] < f[j]
            /\ \A j \in DOMAIN << >> : << >>[j] = CallOf(<< >>[f[j]])
      BY <2>1, <2>2
    <2> QED BY <2>3 DEF Handed
  <1>8. ASSUME NEW h PROVE Going(<< >>, h, << >>, NewReq, << >>)
    <2>1. 0 \in 0 .. Len(<< >>)
      BY <1>1
    <2> QED BY <1>6, <1>7, <2>1 DEF Going
  <1> QED
    BY <1>4, <1>8 DEF Init, Inv, Streams, RefusesOnlyBinary, Running

\* In each direction the messages handed out, the frame begun, the buffer and the bytes
\* on their way are what was sent; where that ends, a reader has torn a frame or refused
\* a binary part (the two tests of read_body, uds.rs:175 and 213, index.ts:108 and 136).
THEOREM Invariance == Spec => []Inv
  <1>1. TypeOK /\ Fits /\ Inv /\ [Next]_vars => Inv'
    <2> SUFFICES ASSUME TypeOK, Fits, Inv, [Next]_vars PROVE Inv'
      OBVIOUS
    <2>1. CASE UNCHANGED vars
      <3>1. DownSame /\ UpSame /\ UNCHANGED <<torn, exited, req, reader>>
        BY <2>1 DEF vars, DownSame, UpSame
      <3> QED BY <3>1, SameKept DEF Inv, Streams, Running, RefusesOnlyBinary
    <2> QED
      BY <2>1, Steps, StreamsWriter, StreamsReadTask, StreamsJavaScript
  <1> QED
    BY <1>1, InvInit, TypeCorrect, PTL DEF Spec

\* However the socket splits and joins, no byte is lost, repeated or swapped, and handlers
\* are called in the order of the sends, each message once and with its own binary part,
\* unless a reader took JSON for a binary part (uds.rs:337-412, index.ts:272-295).
THEOREM StreamKept == Spec => []StreamIntact
  <1>1. TypeOK /\ Inv => StreamIntact
    <2> SUFFICES ASSUME TypeOK, Inv PROVE StreamIntact
      OBVIOUS
    <2>1. /\ sent \in Seq(Message) /\ pushed \in Seq(Message) /\ req \in Req /\ reader \in Req
          /\ DownWay \in Seq(Byte) /\ up \in Seq(Byte)
      BY WayType DEF TypeOK, Bytes
    <2>2. Going(sent, Handled, dispatched, req, DownWay) => DownIntact
      <3>1. Going(sent, Handled, dispatched, req, DownWay)
            => Carried(sent, Handled, dispatched, req, DownWay)
        BY <2>1, GoingCarries
      <3>2. DownWay = down \o chunk \o FlattenSeq(rx)
        BY DEF DownWay, Cat
      <3> QED BY <3>1, <3>2 DEF DownIntact
    <2>3. Going(pushed, Served, served, reader, up) => UpIntact
      BY <2>1, GoingCarries DEF UpIntact
    <2> QED BY <2>2, <2>3 DEF Inv, Streams, StreamIntact
  <1> QED
    BY <1>1, Invariance, TypeCorrect, PTL

\* The process exits over well formed frames in the two cases of read_body only: a binary
\* part parsed as JSON, and what is left of a frame that was torn.
THEOREM RefusalsKnown == Spec => []RefusesOnlyBinary
  <1>1. Inv => RefusesOnlyBinary
    BY DEF Inv
  <1> QED
    BY <1>1, Invariance, PTL

-----------------------------------------------------------------------------
(* Uds implements two channels *)

\* The less has been read, the more is left.
LEMMA LeftShrinks ==
  ASSUME NEW s \in Seq(Message), NEW i \in 0 .. Len(s), NEW j \in 0 .. Len(s), i < j
  PROVE  Len(Left(s, j)) < Len(Left(s, i))
  <1> DEFINE n == Len(s) - i
             L(d) == Len(Left(s, i + d))
             T == {d \in 0 .. n : d # 0 => L(d) < L(0)}
  <1>1. Len(s) \in Nat /\ n \in Nat /\ \A d \in 0 .. n : i + d \in 0 .. Len(s)
    BY LenProperties
  <1>2. \A d \in 0 .. n : L(d) \in Nat
    <2> SUFFICES ASSUME NEW d \in 0 .. n PROVE L(d) \in Nat
      OBVIOUS
    <2> DEFINE k == i + d
    <2>1. k \in 0 .. Len(s)
      BY <1>1
    <2> HIDE DEF k
    <2>2. Left(s, k) \in Seq(Byte)
      BY <2>1, LeftType
    <2>3. Len(Left(s, k)) \in Nat
      BY <2>2, LenProperties
    <2> QED BY <2>3 DEF k
  <1>3. ASSUME NEW d \in 0 .. n - 1 PROVE L(d + 1) < L(d)
    <2> DEFINE k == i + d
    <2>1. k \in 0 .. Len(s) /\ k < Len(s) /\ i + (d + 1) = k + 1
      BY <1>1
    <2> HIDE DEF k
    <2>2. /\ s[k + 1] \in Message /\ Left(s, k) = Cat(Frame(s[k + 1]), Left(s, k + 1))
          /\ Left(s, k + 1) \in Seq(Byte)
      BY <2>1, StandsIn
    <2>3. /\ Frame(s[k + 1]) \in Seq(Byte)
          /\ Len(Frame(s[k + 1])) = MetaLength + JsonLength[s[k + 1]] + BinaryLength[s[k + 1]]
          /\ MetaLength \in Nat \ {0} /\ JsonLength[s[k + 1]] \in Nat
          /\ BinaryLength[s[k + 1]] \in Nat
      BY <2>2, FrameAt
    <2>4. Len(Left(s, k)) = Len(Frame(s[k + 1])) + Len(Left(s, k + 1))
      BY <2>2, <2>3, CatType
    <2>5. Len(Left(s, k + 1)) \in Nat
      BY <2>2, LenProperties
    <2>6. Len(Left(s, k + 1)) < Len(Left(s, k))
      <3> DEFINE a == JsonLength[s[k + 1]]
                 b == BinaryLength[s[k + 1]]
                 c == Len(Left(s, k + 1))
      <3>1. /\ MetaLength \in Nat \ {0} /\ a \in Nat /\ b \in Nat /\ c \in Nat
            /\ Len(Left(s, k)) = MetaLength + a + b + c
        BY <2>3, <2>4, <2>5
      <3> HIDE DEF a, b, c
      <3> QED BY <3>1 DEF c
    <2> QED BY <2>1, <2>6 DEF k
  <1> HIDE DEF L
  <1>4. 0 \in T
    BY <1>1
  <1>5. ASSUME NEW d \in 0 .. n - 1, d \in T PROVE d + 1 \in T
    <2>1. d \in 0 .. n /\ d + 1 \in 0 .. n /\ 0 \in 0 .. n
      BY <1>1
    <2>2. L(d + 1) < L(d) /\ (d # 0 => L(d) < L(0))
      BY <1>3, <1>5
    <2>3. L(d) \in Nat /\ L(d + 1) \in Nat /\ L(0) \in Nat
      BY <1>2, <2>1
    <2>4. L(d + 1) < L(0)
      BY <2>2, <2>3
    <2> QED BY <2>1, <2>4
  <1>6. \A d \in 0 .. n : d \in T
    <2> HIDE DEF T, n
    <2> QED BY <1>1, <1>4, <1>5, Induction
  <1>7. j - i \in 0 .. n /\ j - i # 0 /\ i + (j - i) = j /\ i + 0 = i
    BY <1>1
  <1>8. L(j - i) < L(0)
    BY <1>6, <1>7
  <1> QED BY <1>7, <1>8 DEF L

\* Counted by its bytes, the place of a reader is the one it stands at.
LEMMA PlaceIs ==
  ASSUME NEW s \in Seq(Message), NEW k, NEW r \in Req, NEW way \in Seq(Byte), Stands(s, k, r, way)
  PROVE  Unread(s, r, way) = After(s, k) /\ k \in 0 .. Len(s)
  <1> DEFINE b == r.buff
             l == Left(s, k)
             n == Taken(r)
             behind == {i \in 1 .. Len(s) : Len(Frames(After(s, i - 1))) > n + Len(b \o way)}
  <1>1. k \in 0 .. Len(s) /\ b \in Seq(Byte) /\ Len(s) \in Nat
    BY LenProperties DEF Stands, Req
  <1>2. l \in Seq(Byte) /\ Len(l) \in Nat
    <2>1. l \in Seq(Byte)
      BY <1>1, LeftType
    <2> QED BY <2>1, LenProperties
  <1>3. n \in 0 .. Len(l)
    <2>1. CASE ~r.has_meta
      BY <1>2, <2>1 DEF Taken
    <2>2. CASE r.has_meta
      <3> DEFINE m == s[k + 1]
      <3>1. k < Len(s) /\ r.json_length = JsonLength[m]
        BY <2>2 DEF Stands
      <3>2. m \in Message /\ l = Cat(Frame(m), Left(s, k + 1)) /\ Left(s, k + 1) \in Seq(Byte)
        BY <1>1, <3>1, StandsIn
      <3> HIDE DEF m, l
      <3>3. /\ Frame(m) \in Seq(Byte)
            /\ Len(Frame(m)) = MetaLength + JsonLength[m] + BinaryLength[m]
            /\ MetaLength \in Nat /\ JsonLength[m] \in Nat /\ BinaryLength[m] \in Nat
        BY <3>2, FrameAt
      <3>4. Len(l) = Len(Frame(m)) + Len(Left(s, k + 1)) /\ Len(Left(s, k + 1)) \in Nat
        BY <3>2, <3>3, CatType, LenProperties
      <3>5. n = MetaLength \/ n = MetaLength + JsonLength[m]
        BY <2>2, <3>1 DEF Taken
      <3> DEFINE a == JsonLength[m]
                 c == BinaryLength[m]
                 d == Len(Left(s, k + 1))
      <3>6. /\ MetaLength \in Nat /\ a \in Nat /\ c \in Nat /\ d \in Nat
            /\ Len(l) = MetaLength + a + c + d
            /\ n = MetaLength \/ n = MetaLength + a
        BY <3>3, <3>4, <3>5
      <3> HIDE DEF a, c, d, n
      <3> QED BY <3>6
    <2> QED BY <2>1, <2>2
  <1>4. n + Len(b \o way) = Len(l)
    <2> DEFINE x == First(l, n)
    <2>1. Cat(Cat(x, b), way) = l
      BY StandsCarries
    <2> HIDE DEF l, n, b
    <2>2. x \in Seq(Byte) /\ Len(x) = n
      BY <1>2, <1>3, FirstAt
    <2> HIDE DEF x
    <2>3. Cat(x, b) \in Seq(Byte) /\ Len(Cat(x, b)) = n + Len(b)
      BY <1>1, <2>2, CatType
    <2>4. Len(l) = n + Len(b) + Len(way)
      BY <2>1, <2>3, CatType
    <2>5. Len(Cat(b, way)) = Len(b) + Len(way)
      BY <1>1, CatType
    <2>6. Len(b) \in Nat /\ Len(way) \in Nat /\ n \in Nat
      BY <1>1, <1>2, <1>3, LenProperties
    <2> QED BY <2>4, <2>5, <2>6 DEF Cat
  <1>5. behind = {i \in 1 .. Len(s) : Len(Left(s, i - 1)) > Len(l)}
    BY <1>4 DEF Left
  <1>6. ASSUME NEW i \in 1 .. Len(s) PROVE Len(Left(s, i - 1)) > Len(l) <=> i <= k
    <2> DEFINE j == i - 1
    <2>1. j \in 0 .. Len(s) /\ (i <= k <=> j < k)
      BY <1>1
    <2> HIDE DEF j
    <2>2. Len(Left(s, j)) \in Nat
      BY <2>1, LeftType, LenProperties
    <2>3. CASE j < k
      <3>1. Len(l) < Len(Left(s, j))
        BY <1>1, <2>1, <2>3, LeftShrinks
      <3> QED BY <1>2, <2>1, <2>2, <2>3, <3>1 DEF j
    <2>4. CASE j = k
      BY <1>1, <1>2, <2>1, <2>4 DEF j
    <2>5. CASE k < j
      <3>1. Len(Left(s, j)) < Len(l)
        BY <1>1, <2>1, <2>5, LeftShrinks
      <3> QED BY <1>1, <1>2, <2>1, <2>2, <2>5, <3>1 DEF j
    <2> QED BY <1>1, <2>1, <2>3, <2>4, <2>5
  <1>7. behind = 1 .. k
    <2> HIDE DEF behind, l
    <2> QED BY <1>1, <1>5, <1>6
  <1>8. Cardinality(1 .. k) = k
    BY <1>1, FS_Interval
  <1>9. Place(s, r, way) = Cardinality(behind)
    BY DEF Place
  <1> QED BY <1>1, <1>7, <1>8, <1>9 DEF Unread

\* A message behind the others is the last one unread.
LEMMA AfterAppend ==
  ASSUME NEW S, NEW s \in Seq(S), NEW k \in 0 .. Len(s), NEW m \in S
  PROVE  After(Append(s, m), k) = Append(After(s, k), m)
  <1> DEFINE t == Append(s, m)
             a == After(s, k)
             u == After(t, k)
             v == Append(a, m)
  <1>1. Len(s) \in Nat
    BY LenProperties
  <1>2. t \in Seq(S) /\ Len(t) = Len(s) + 1 /\ t[Len(s) + 1] = m
        /\ \A i \in 1 .. Len(s) : t[i] = s[i]
    BY AppendProperties
  <1> HIDE DEF t
  <1>3. t \in Seq(S) /\ k \in 0 .. Len(t)
    BY <1>1, <1>2
  <1>4. u \in Seq(S) /\ Len(u) = Len(t) - k /\ \A i \in 1 .. Len(t) - k : u[i] = t[k + i]
    BY <1>3, AfterAt
  <1>5. a \in Seq(S) /\ Len(a) = Len(s) - k /\ \A i \in 1 .. Len(s) - k : a[i] = s[k + i]
    BY AfterAt
  <1> HIDE DEF a, u
  <1>6. v \in Seq(S) /\ Len(v) = Len(a) + 1 /\ v[Len(a) + 1] = m
        /\ \A i \in 1 .. Len(a) : v[i] = a[i]
    BY <1>5, AppendProperties
  <1> HIDE DEF v
  <1>7. Len(u) = Len(v)
    BY <1>1, <1>2, <1>4, <1>5, <1>6
  <1>8. ASSUME NEW i \in 1 .. Len(u) PROVE u[i] = v[i]
    <2>1. CASE i <= Len(s) - k
      <3>1. i \in 1 .. Len(s) - k /\ k + i \in 1 .. Len(s) /\ i \in 1 .. Len(t) - k
        BY <1>1, <1>2, <1>4, <2>1
      <3>2. u[i] = s[k + i]
        BY <1>2, <1>4, <3>1
      <3>3. v[i] = s[k + i]
        BY <1>5, <1>6, <3>1
      <3> QED BY <3>2, <3>3
    <2>2. CASE ~(i <= Len(s) - k)
      <3>1. i = Len(a) + 1 /\ k + i = Len(s) + 1 /\ i \in 1 .. Len(t) - k
        BY <1>1, <1>2, <1>4, <1>5, <2>2
      <3> QED BY <1>2, <1>4, <1>6, <3>1
    <2> QED BY <2>1, <2>2
  <1>9. u = v
    BY <1>4, <1>6, <1>7, <1>8, SeqEqual
  <1> QED BY <1>9 DEF a, t, u, v

\* The next message is the first one unread.
LEMMA AfterNext ==
  ASSUME NEW S, NEW s \in Seq(S), NEW k, k \in 0 .. Len(s), k < Len(s)
  PROVE  /\ After(s, k) # << >> /\ Head(After(s, k)) = s[k + 1]
         /\ Tail(After(s, k)) = After(s, k + 1)
  <1> DEFINE j == k + 1
             a == After(s, k)
             u == Tail(a)
             v == After(s, j)
  <1>1. Len(s) \in Nat /\ k \in Nat
    BY LenProperties
  <1>2. j \in 0 .. Len(s) /\ 1 \in 1 .. Len(s) - k /\ Len(s) - k # 0 /\ j = k + 1
    BY <1>1
  <1>3. a \in Seq(S) /\ Len(a) = Len(s) - k /\ \A i \in 1 .. Len(s) - k : a[i] = s[k + i]
    BY AfterAt
  <1> HIDE DEF j
  <1>4. v \in Seq(S) /\ Len(v) = Len(s) - j /\ \A i \in 1 .. Len(s) - j : v[i] = s[j + i]
    BY <1>2, AfterAt
  <1> HIDE DEF a, v
  <1>5. a # << >>
    BY <1>2, <1>3, EmptySeq
  <1>6. Head(a) = a[1] /\ u \in Seq(S) /\ Len(u) = Len(a) - 1
        /\ \A i \in 1 .. Len(u) : u[i] = a[i + 1]
    BY <1>3, <1>5, HeadTailProperties
  <1> HIDE DEF u
  <1>7. Head(a) = s[k + 1]
    BY <1>2, <1>3, <1>6
  <1>8. Len(u) = Len(v)
    BY <1>1, <1>2, <1>3, <1>4, <1>6
  <1>9. ASSUME NEW i \in 1 .. Len(u) PROVE u[i] = v[i]
    <2>1. /\ i + 1 \in 1 .. Len(s) - k /\ i \in 1 .. Len(s) - j /\ k + (i + 1) = j + i
      BY <1>1, <1>2, <1>4, <1>8
    <2>2. u[i] = s[k + (i + 1)]
      BY <1>3, <1>6, <2>1
    <2>3. v[i] = s[j + i]
      BY <1>4, <2>1
    <2> QED BY <2>1, <2>2, <2>3
  <1>10. u = v
    BY <1>4, <1>6, <1>8, <1>9, SeqEqual
  <1> QED BY <1>5, <1>7, <1>10 DEF a, j, u, v

\* What a step of a direction makes of its queue: a new message is put in,
LEMMA UnreadAppend ==
  ASSUME NEW s \in Seq(Message), NEW handlers, NEW out, NEW r \in Req, NEW way \in Seq(Byte),
         NEW m \in Message, Going(s, handlers, out, r, way)
  PROVE  Unread(Append(s, m), r, Cat(way, Frame(m))) = Append(Unread(s, r, way), m)
  <1>1. PICK k \in 0 .. Len(s) : Stands(s, k, r, way)
    BY DEF Going
  <1>2. Stands(Append(s, m), k, r, Cat(way, Frame(m)))
    BY <1>1, StandsAppend
  <1>3. Append(s, m) \in Seq(Message) /\ Cat(way, Frame(m)) \in Seq(Byte)
    BY AppendProperties, FrameAt, CatType
  <1>4. Unread(Append(s, m), r, Cat(way, Frame(m))) = After(Append(s, m), k)
    <2> DEFINE t == Append(s, m)
               w == Cat(way, Frame(m))
    <2> HIDE DEF t, w
    <2>1. t \in Seq(Message) /\ w \in Seq(Byte) /\ Stands(t, k, r, w)
      BY <1>2, <1>3 DEF t, w
    <2>2. Unread(t, r, w) = After(t, k)
      BY <2>1, PlaceIs
    <2> QED BY <2>2 DEF t, w
  <1>5. Unread(s, r, way) = After(s, k)
    BY <1>1, PlaceIs
  <1> QED BY <1>4, <1>5, AfterAppend

\* bytes are read into the buffer,
LEMMA UnreadAdd ==
  ASSUME NEW s \in Seq(Message), NEW handlers, NEW out, NEW r \in Req, NEW d \in Seq(Byte),
         NEW v \in Seq(Byte), NEW n \in Nat, Going(s, handlers, out, r, Cat(d, v))
  PROVE  Unread(s, Add(r, First(d, n)), Cat(After(d, n), v)) = Unread(s, r, Cat(d, v))
  <1> DEFINE t == Add(r, First(d, n))
             w == Cat(After(d, n), v)
  <1>1. PICK k \in 0 .. Len(s) : Stands(s, k, r, Cat(d, v))
    BY DEF Going
  <1>2. Stands(s, k, t, w)
    BY <1>1, StandsAdd
  <1>3. First(d, n) \in Seq(Byte) /\ After(d, n) \in Seq(Byte) /\ r.buff \in Seq(Byte)
    BY Parts DEF Req
  <1>4. t \in Req /\ w \in Seq(Byte) /\ Cat(d, v) \in Seq(Byte)
    <2>1. Cat(r.buff, First(d, n)) \in Seq(Byte)
      BY <1>3, CatType
    <2>2. t \in Req
      BY <2>1 DEF Add, Req, Cat
    <2>3. w \in Seq(Byte)
      BY <1>3, CatType
    <2> QED BY <2>2, <2>3, CatType
  <1> HIDE DEF t, w
  <1>5. Unread(s, t, w) = After(s, k)
    BY <1>2, <1>4, PlaceIs
  <1>6. Unread(s, r, Cat(d, v)) = After(s, k)
    BY <1>1, <1>4, PlaceIs
  <1> QED BY <1>5, <1>6 DEF t, w

\* or the reader takes a turn.
Turns(s, r, read, way) ==
  \/ /\ read.res = "null" /\ Unread(s, read.req, way) = Unread(s, r, way)
     /\ IsEmpty(read.req) \/ Begun(read.req)
  \/ read.res = "frame" /\ read.req.ctx = None
  \/ /\ read.res = "frame" /\ Unread(s, r, way) # << >> /\ read.req.ctx \in Message
     /\ read.req.ctx = Head(Unread(s, r, way))
     /\ Call(read.req) = CallOf(Head(Unread(s, r, way)))
     /\ Unread(s, Reset(read.req), way) = Tail(Unread(s, r, way))
  \/ read.res = "Invalid JSON."

LEMMA UnreadTurn ==
  ASSUME NEW s \in Seq(Message), NEW handlers, NEW out, NEW r \in Req, NEW way \in Seq(Byte),
         Going(s, handlers, out, r, way)
  PROVE  Turns(s, r, ReadBlock(r), way)
  <1> DEFINE read == ReadBlock(r)
  <1>1. PICK k \in 0 .. Len(s) : Stands(s, k, r, way)
    BY DEF Going
  <1>2. Outcome(s, k, read, way)
    BY <1>1, BlockTurn
  <1>3. read.req \in Req
    BY ReadBlockType DEF Reads
  <1>4. Unread(s, r, way) = After(s, k)
    BY <1>1, PlaceIs
  <1> HIDE DEF read
  <1>5. CASE read.res = "null" /\ Stands(s, k, read.req, way) /\ Short(read.req)
    <2>1. Unread(s, read.req, way) = After(s, k)
      BY <1>3, <1>5, PlaceIs
    <2>2. IsEmpty(read.req) \/ Begun(read.req)
      BY <1>3, <1>5, ShortBegun
    <2>3. Turns(s, r, read, way)
      BY <1>4, <1>5, <2>1, <2>2 DEF Turns
    <2> QED BY <2>3 DEF read
  <1>6. CASE /\ read.res = "frame" /\ k < Len(s)
             /\ Call(read.req) = CallOf(s[k + 1])
             /\ Stands(s, k + 1, Reset(read.req), way)
    <2>1. read.req.ctx = s[k + 1] /\ s[k + 1] \in Message
      BY <1>6, StandsIn DEF Call, CallOf
    <2>2. Reset(read.req) \in Req
      BY <1>3, ResetType
    <2>3. Unread(s, Reset(read.req), way) = After(s, k + 1)
      <3> DEFINE j == k + 1
                 q == Reset(read.req)
      <3> HIDE DEF j, q
      <3>1. Stands(s, j, q, way) /\ q \in Req
        BY <1>6, <2>2 DEF j, q
      <3>2. Unread(s, q, way) = After(s, j)
        BY <3>1, PlaceIs
      <3> QED BY <3>2 DEF j, q
    <2>4. /\ After(s, k) # << >> /\ Head(After(s, k)) = s[k + 1]
          /\ Tail(After(s, k)) = After(s, k + 1)
      BY <1>6, AfterNext
    <2>5. Turns(s, r, read, way)
      BY <1>4, <1>6, <2>1, <2>3, <2>4 DEF Turns
    <2> QED BY <2>5 DEF read
  <1>7. CASE read.res = "frame" /\ read.req.ctx = None
    <2>1. Turns(s, r, read, way)
      BY <1>7, Zenon DEF Turns
    <2> QED BY <2>1 DEF read
  <1>8. CASE read.res = "Invalid JSON." /\ AwaitsBinary(read.req)
    <2>1. Turns(s, r, read, way)
      BY <1>8, Zenon DEF Turns
    <2> QED BY <2>1 DEF read
  <1> QED
    BY <1>2, <1>5, <1>6, <1>7, <1>8, Zenon DEF Outcome

\* What was handed out is a beginning of what is.
LEMMA PrefixAppend ==
  ASSUME NEW S, NEW s \in Seq(S), NEW x \in S
  PROVE  IsPrefix(s, s) /\ IsPrefix(s, Append(s, x))
  <1> DEFINE t == Append(s, x)
             n == Len(s)
             u == SubSeq(t, 1, n)
  <1>1. n \in Nat /\ SubSeq(s, 1, n) = s
    BY LenProperties, SubSeqFull
  <1>2. t \in Seq(S) /\ Len(t) = n + 1 /\ \A i \in 1 .. n : t[i] = s[i]
    BY AppendProperties
  <1> HIDE DEF t
  <1>3. u \in Seq(S) /\ Len(u) = n /\ \A i \in 1 .. n : u[i] = t[i]
    <2>1. t \in Seq(S) /\ n \in 0 .. Len(t) /\ n < Len(t)
      BY <1>1, <1>2
    <2> HIDE DEF n
    <2>2. /\ First(t, n) \in Seq(S) /\ Len(First(t, n)) = n
          /\ \A i \in 1 .. n : First(t, n)[i] = t[i]
      BY <2>1, FirstAt
    <2>3. First(t, n) = u
      BY <2>1 DEF First
    <2> QED BY <2>2, <2>3
  <1> HIDE DEF u
  <1>4. u = s
    <2>1. Len(u) = Len(s) /\ \A i \in 1 .. Len(u) : u[i] = s[i]
      BY <1>2, <1>3
    <2> QED BY <1>3, <2>1, SeqEqual
  <1>5. n <= Len(t) /\ n <= n
    BY <1>1, <1>2
  <1> QED BY <1>1, <1>4, <1>5 DEF IsPrefix, u, t

\* A step of a channel, or of nobody: from the queue q, what was handed out o and b to
\* those with a 1.
Moves(handlers, q, o, b, q1, o1, b1) ==
  \/ q1 = q /\ o1 = o /\ (b1 <=> b)
  \/ ~b /\ ~b1 /\ o1 = o /\ \E m \in Message : q1 = Append(q, m)
  \/ /\ ~b /\ ~b1 /\ q # << >> /\ q1 = Tail(q)
     /\ o1 = IF Head(q) \in handlers THEN Append(o, CallOf(Head(q))) ELSE o
  \/ b1 /\ q1 = << >> /\ o1 = o
  \/ b /\ b1 /\ q1 = q /\ IsPrefix(o, o1)

DownMoves == Moves(Handled, DownQueue, dispatched, DownBroken, DownQueue', dispatched', DownBroken')
UpMoves == Moves(Served, UpQueue, served, UpBroken, UpQueue', served', UpBroken')

DownStep == [Down!Next]_(Down!vars)
UpStep == [Up!Next]_(Up!vars)

LEMMA DownIsStep ==
  ASSUME DownMoves
  PROVE  DownStep
  <1>0. /\ (DownBroken' <=> DownBroken) => DownBroken' = DownBroken
        /\ DownBroken' => DownBroken' = TRUE
    BY Zenon DEF DownBroken
  <1>1. CASE DownQueue' = DownQueue /\ dispatched' = dispatched /\ (DownBroken' <=> DownBroken)
    BY <1>0, <1>1, Zenon DEF DownStep, Down!vars
  <1>2. CASE /\ ~DownBroken /\ ~DownBroken' /\ dispatched' = dispatched
             /\ \E m \in Message : DownQueue' = Append(DownQueue, m)
    BY <1>0, <1>2, Zenon DEF DownStep, Down!Next, Down!Put
  <1>3. CASE /\ ~DownBroken /\ ~DownBroken' /\ DownQueue # << >> /\ DownQueue' = Tail(DownQueue)
             /\ dispatched' = IF Head(DownQueue) \in Handled
                              THEN Append(dispatched, CallOf(Head(DownQueue))) ELSE dispatched
    BY <1>0, <1>3, Zenon DEF DownStep, Down!Next, Down!Take
  <1>4. CASE DownBroken' /\ DownQueue' = << >> /\ dispatched' = dispatched
    BY <1>0, <1>4, Zenon DEF DownStep, Down!Next, Down!Break
  <1>5. CASE /\ DownBroken /\ DownBroken' /\ DownQueue' = DownQueue
             /\ IsPrefix(dispatched, dispatched')
    BY <1>0, <1>5, Zenon DEF DownStep, Down!Next, Down!Wander, Down!IsPrefix, IsPrefix
  <1> QED
    BY <1>1, <1>2, <1>3, <1>4, <1>5, Zenon DEF DownMoves, Moves

LEMMA UpIsStep ==
  ASSUME UpMoves
  PROVE  UpStep
  <1>0. /\ (UpBroken' <=> UpBroken) => UpBroken' = UpBroken
        /\ UpBroken' => UpBroken' = TRUE
    BY Zenon DEF UpBroken
  <1>1. CASE UpQueue' = UpQueue /\ served' = served /\ (UpBroken' <=> UpBroken)
    BY <1>0, <1>1, Zenon DEF UpStep, Up!vars
  <1>2. CASE /\ ~UpBroken /\ ~UpBroken' /\ served' = served
             /\ \E m \in Message : UpQueue' = Append(UpQueue, m)
    BY <1>0, <1>2, Zenon DEF UpStep, Up!Next, Up!Put
  <1>3. CASE /\ ~UpBroken /\ ~UpBroken' /\ UpQueue # << >> /\ UpQueue' = Tail(UpQueue)
             /\ served' = IF Head(UpQueue) \in Served
                          THEN Append(served, CallOf(Head(UpQueue))) ELSE served
    BY <1>0, <1>3, Zenon DEF UpStep, Up!Next, Up!Take
  <1>4. CASE UpBroken' /\ UpQueue' = << >> /\ served' = served
    BY <1>0, <1>4, Zenon DEF UpStep, Up!Next, Up!Break
  <1>5. CASE UpBroken /\ UpBroken' /\ UpQueue' = UpQueue /\ IsPrefix(served, served')
    BY <1>0, <1>5, Zenon DEF UpStep, Up!Next, Up!Wander, Up!IsPrefix, IsPrefix
  <1> QED
    BY <1>1, <1>2, <1>3, <1>4, <1>5, Zenon DEF UpMoves, Moves

\* The queues, before and after a step.
LEMMA QueueIs ==
  /\ DownQueue = IF DownBroken THEN << >> ELSE Unread(sent, req, DownWay)
  /\ DownQueue' = IF DownBroken' THEN << >> ELSE Unread(sent', req', DownWay')
  /\ UpQueue = IF UpBroken THEN << >> ELSE Unread(pushed, reader, up)
  /\ UpQueue' = IF UpBroken' THEN << >> ELSE Unread(pushed', reader', up')
  <1>1. DownQueue = IF DownBroken THEN << >> ELSE Unread(sent, req, DownWay)
    BY DEF DownQueue, DownWay, Cat
  <1>2. DownQueue' = IF DownBroken' THEN << >> ELSE Unread(sent', req', DownWay')
    BY DEF DownQueue, DownWay, Cat
  <1>3. UpQueue = IF UpBroken THEN << >> ELSE Unread(pushed, reader, up)
    BY DEF UpQueue
  <1>4. UpQueue' = IF UpBroken' THEN << >> ELSE Unread(pushed', reader', up')
    BY DEF UpQueue
  <1> QED BY <1>1, <1>2, <1>3, <1>4

\* A direction that is left alone, or that is at its end.
LEMMA DownRests ==
  ASSUME \/ DownSame /\ (DownBroken' <=> DownBroken)
         \/ dispatched' = dispatched /\ DownBroken'
  PROVE  DownMoves
  <1>1. CASE DownSame /\ (DownBroken' <=> DownBroken)
    <2>1. sent' = sent /\ req' = req /\ DownWay' = DownWay /\ dispatched' = dispatched
      BY <1>1, SameKept DEF DownSame
    <2>2. DownQueue' = DownQueue
      BY <1>1, <2>1, QueueIs, Zenon
    <2> QED BY <1>1, <2>1, <2>2, Zenon DEF DownMoves, Moves
  <1>2. CASE dispatched' = dispatched /\ DownBroken'
    <2>1. DownQueue' = << >>
      BY <1>2, QueueIs, Zenon
    <2> QED BY <1>2, <2>1, Zenon DEF DownMoves, Moves
  <1> QED BY <1>1, <1>2

LEMMA UpRests ==
  ASSUME \/ UpSame /\ (UpBroken' <=> UpBroken)
         \/ served' = served /\ UpBroken'
  PROVE  UpMoves
  <1>1. CASE UpSame /\ (UpBroken' <=> UpBroken)
    <2>1. pushed' = pushed /\ reader' = reader /\ up' = up /\ served' = served
      BY <1>1 DEF UpSame
    <2>2. UpQueue' = UpQueue
      BY <1>1, <2>1, QueueIs, Zenon
    <2> QED BY <1>1, <2>1, <2>2, Zenon DEF UpMoves, Moves
  <1>2. CASE served' = served /\ UpBroken'
    <2>1. UpQueue' = << >>
      BY <1>2, QueueIs, Zenon
    <2> QED BY <1>2, <2>1, Zenon DEF UpMoves, Moves
  <1> QED BY <1>1, <1>2

\* A message goes into the channel of the write task.
LEMMA DownGiven ==
  ASSUME TypeOK, Inv, NEW m \in Message, Running, Running', UNCHANGED torn,
         sent' = Append(sent, m), rx' = Append(rx, Frame(m)),
         UNCHANGED <<dispatched, req, down, chunk>>
  PROVE  DownMoves
  <1>1. DownBroken' <=> DownBroken
    BY DEF DownBroken
  <1>2. CASE DownBroken
    BY <1>1, <1>2, DownRests
  <1>3. CASE ~DownBroken
    <2>1. Going(sent, Handled, dispatched, req, DownWay)
      BY <1>3 DEF Inv, Streams, DownBroken
    <2>2. sent \in Seq(Message) /\ req \in Req /\ DownWay \in Seq(Byte)
      BY WayType DEF TypeOK
    <2>3. Unread(Append(sent, m), req, Cat(DownWay, Frame(m))) = Append(Unread(sent, req, DownWay), m)
      BY <2>1, <2>2, UnreadAppend
    <2>4. DownWay' = Cat(DownWay, Frame(m))
      BY GivenWay
    <2>5. Unread(sent', req', DownWay') = Append(Unread(sent, req, DownWay), m)
      BY <2>3, <2>4, Zenon
    <2>6. DownQueue' = Append(DownQueue, m)
      BY <1>1, <1>3, <2>5, QueueIs, Zenon
    <2> QED BY <1>1, <1>3, <2>6, Zenon DEF DownMoves, Moves
  <1> QED BY <1>2, <1>3

\* The steps of the write task, and of those who give it messages.
LEMMA ChannelsWriter ==
  ASSUME TypeOK, Fits, Inv, (\E m \in Sends : Send(m)) \/ Resume \/ TakeChunk \/ Write
  PROVE  DownMoves /\ UpMoves
  <1>1. UNCHANGED <<torn, exited, dispatched>> /\ UpSame /\ req' = req /\ Running
    BY DEF Send, Resume, TakeChunk, Write, UpSame, javascript, pushing, readTask
  <1>2. (UpBroken' <=> UpBroken) /\ (DownBroken' <=> DownBroken) /\ Running'
    BY <1>1 DEF UpBroken, DownBroken, Running
  <1>3. UpMoves
    BY <1>1, <1>2, UpRests
  <1>4. DownMoves
    <2>1. CASE \E m \in Sends : Send(m)
      <3>1. PICK m \in Sends : Send(m)
        BY <2>1
      <3>2. m \in Message
        BY UdsAssumption
      <3>3. /\ sent' = Append(sent, m) /\ rx' = Append(rx, Frame(m))
            /\ UNCHANGED <<dispatched, req, down, chunk, torn>>
        BY <3>1 DEF Send, writer, javascript
      <3> QED BY <1>1, <1>2, <3>2, <3>3, DownGiven
    <2>2. CASE Resume
      <3>1. DownSame
        BY <2>2 DEF Resume, DownSame, channel, javascript
      <3> QED BY <1>2, <3>1, DownRests
    <2>3. CASE TakeChunk \/ Write
      <3>1. DownWay' = DownWay
        BY <2>3, WriterWay
      <3>2. sent' = sent
        BY <2>3 DEF TakeChunk, Write, channel
      <3>3. DownQueue' = DownQueue
        BY <1>1, <1>2, <3>1, <3>2, QueueIs, Zenon
      <3> QED BY <1>1, <1>2, <3>3, Zenon DEF DownMoves, Moves
    <2> QED BY <2>1, <2>2, <2>3
  <1> QED BY <1>3, <1>4

\* The steps of the read task.
LEMMA ChannelsReadTask ==
  ASSUME TypeOK, Inv, Read \/ ReadTurn \/ Disconnect
  PROVE  DownMoves /\ UpMoves
  <1>0. /\ pushed \in Seq(Message) /\ served \in Seq([ctx : Served, bytes : Bytes])
        /\ reader \in Req /\ up \in Seq(Byte)
    BY DEF TypeOK, Bytes
  <1>1. Running
    BY DEF Read, ReadTurn, Disconnect
  <1>2. ASSUME ~UpBroken PROVE Going(pushed, Served, served, reader, up)
    BY <1>2 DEF Inv, Streams, UpBroken
  <1>3. CASE Disconnect
    <2>1. UNCHANGED <<torn, exited>> /\ DownSame /\ UpSame
      BY <1>3 DEF Disconnect, DownSame, UpSame, channel, writer, javascript, pushing
    <2>2. (DownBroken' <=> DownBroken) /\ (UpBroken' <=> UpBroken)
      BY <2>1 DEF DownBroken, UpBroken, Running
    <2> QED BY <2>1, <2>2, DownRests, UpRests
  <1>4. CASE Read
    <2>1. /\ UNCHANGED <<torn, exited, pushed, served>> /\ DownSame
      BY <1>4 DEF Read, DownSame, channel, writer, javascript, pushing
    <2>2. (DownBroken' <=> DownBroken) /\ (UpBroken' <=> UpBroken)
      BY <2>1 DEF DownBroken, UpBroken, Running
    <2>3. PICK n \in ReadSizes : reader' = Add(reader, First(up, n)) /\ up' = After(up, n)
      BY <1>4 DEF Read
    <2>4. ASSUME ~UpBroken PROVE Unread(pushed', reader', up') = Unread(pushed, reader, up)
      <3>1. n \in Nat /\ << >> \in Seq(Byte)
        BY UdsAssumption, EmptySeq
      <3>2. Cat(up, << >>) = up /\ Cat(After(up, n), << >>) = After(up, n)
        <4>1. After(up, n) \in Seq(Byte)
          BY <1>0, <3>1, Parts
        <4> QED BY <1>0, <4>1, CatEmpty
      <3>3. Going(pushed, Served, served, reader, Cat(up, << >>))
        BY <1>2, <2>4, <3>2, Zenon
      <3>4. Unread(pushed, Add(reader, First(up, n)), Cat(After(up, n), << >>))
              = Unread(pushed, reader, Cat(up, << >>))
        BY <1>0, <3>1, <3>3, UnreadAdd
      <3> QED BY <2>1, <2>3, <3>2, <3>4, Zenon
    <2>5. UpQueue' = UpQueue
      BY <2>2, <2>4, QueueIs, Zenon
    <2>6. UpMoves
      BY <2>1, <2>2, <2>5, Zenon DEF UpMoves, Moves
    <2> QED BY <2>1, <2>2, <2>6, DownRests
  <1>5. CASE ReadTurn
    <2>1. PICK read \in {ReadBlock(reader)} : Serve(read) \/ Spin(read) \/ Refuse(read)
      BY <1>5 DEF ReadTurn
    <2>2. UNCHANGED <<req, dispatched, down, chunk, pushed, up>>
      BY <1>5 DEF ReadTurn, Serve, Spin, Refuse, writer, javascript, pushing
    <2>3. ASSUME ~UpBroken PROVE Turns(pushed, reader, read, up)
      BY <1>0, <1>2, <2>1, <2>3, UnreadTurn
    <2>4. CASE Serve(read)
      <3>1. read.res = "frame" /\ exited' = exited /\ reader' = Reset(read.req)
        BY <2>4 DEF Serve
      <3>2. torn' = IF read.req.ctx = None THEN torn \cup {"reader"} ELSE torn
        BY <2>4 DEF Serve, Tear
      <3>3. served' = IF read.req.ctx \in Served THEN Append(served, Call(read.req)) ELSE served
        BY <2>4 DEF Serve
      <3>4. (DownBroken' <=> DownBroken) /\ Running'
        BY <1>1, <3>1, <3>2 DEF DownBroken, Running
      <3>5. DownMoves
        <4>1. CASE read.req.ctx \in Served
          <5> DEFINE m == Reply[read.req.ctx]
          <5>1. m \in Message
            BY <4>1, UdsAssumption
          <5>2. sent' = Append(sent, m) /\ rx' = Append(rx, Frame(m))
            BY <2>4, <4>1 DEF Serve
          <5>3. read.req.ctx # None
            BY <4>1, UdsAssumption, FrameAssumption
          <5>4. torn' = torn
            BY <3>2, <5>3
          <5> HIDE DEF m
          <5> QED BY <1>1, <2>2, <3>4, <5>1, <5>2, <5>4, DownGiven
        <4>2. CASE read.req.ctx \notin Served
          <5>1. DownSame
            BY <2>2, <2>4, <4>2 DEF Serve, DownSame, channel
          <5> QED BY <3>4, <5>1, DownRests
        <4> QED BY <4>1, <4>2
      <3>6. UpMoves
        <4>1. CASE UpBroken
          <5>1. UpBroken'
            BY <3>2, <4>1, <1>1 DEF UpBroken
          <5>2. IsPrefix(served, served')
            <6>1. read.req \in Req
              BY <1>0, <2>1, ReadBlockType DEF Reads
            <6>2. read.req.ctx \in Served => Call(read.req) \in [ctx : Served, bytes : Bytes]
              BY <6>1, CallType
            <6>3. CASE read.req.ctx \in Served
              BY <1>0, <3>3, <6>2, <6>3, PrefixAppend
            <6>4. CASE served' = served
              <7>1. Len(served) \in Nat
                BY <1>0, LenProperties
              <7> QED BY <6>4, <7>1 DEF IsPrefix
            <6> QED BY <3>3, <6>3, <6>4
          <5>3. UpQueue' = UpQueue
            BY <4>1, <5>1, QueueIs, Zenon
          <5> QED BY <4>1, <5>1, <5>2, <5>3, Zenon DEF UpMoves, Moves
        <4>2. CASE ~UpBroken /\ read.req.ctx = None
          <5>1. UpBroken'
            BY <3>2, <4>2 DEF UpBroken
          <5>2. served' = served
            BY <3>3, <4>2, UdsAssumption, FrameAssumption
          <5> QED BY <5>1, <5>2, UpRests
        <4>3. CASE ~UpBroken /\ read.req.ctx # None
          <5>1. ~UpBroken'
            BY <3>1, <3>2, <4>3 DEF UpBroken, Running
          <5> DEFINE q == Unread(pushed, reader, up)
          <5>2. /\ q # << >> /\ read.req.ctx = Head(q) /\ Call(read.req) = CallOf(Head(q))
                /\ Unread(pushed, Reset(read.req), up) = Tail(q)
            BY <2>3, <3>1, <4>3 DEF Turns
          <5>3. UpQueue = q /\ UpQueue' = Tail(q)
            BY <2>2, <3>1, <4>3, <5>1, <5>2, QueueIs, Zenon
          <5> HIDE DEF q
          <5>4. served' = IF Head(UpQueue) \in Served
                          THEN Append(served, CallOf(Head(UpQueue))) ELSE served
            BY <3>3, <5>2, <5>3, Zenon
          <5> QED BY <4>3, <5>1, <5>2, <5>3, <5>4, Zenon DEF UpMoves, Moves
        <4> QED BY <4>1, <4>2, <4>3
      <3> QED BY <3>5, <3>6
    <2>5. CASE Spin(read)
      <3>1. read.res = "null" /\ UNCHANGED <<exited, torn, served>> /\ reader' = read.req /\ DownSame
        BY <2>2, <2>5 DEF Spin, DownSame, channel
      <3>2. (DownBroken' <=> DownBroken) /\ (UpBroken' <=> UpBroken)
        BY <3>1 DEF DownBroken, UpBroken, Running
      <3>3. ~UpBroken => Unread(pushed, read.req, up) = Unread(pushed, reader, up)
        BY <2>3, <3>1 DEF Turns
      <3>4. UpQueue' = UpQueue
        BY <2>2, <3>1, <3>2, <3>3, QueueIs, Zenon
      <3>5. UpMoves
        BY <3>1, <3>2, <3>4, Zenon DEF UpMoves, Moves
      <3> QED BY <3>1, <3>2, <3>5, DownRests
    <2>6. CASE Refuse(read)
      <3>1. exited' = "Block read error." /\ served' = served
        BY <2>6 DEF Refuse
      <3>2. DownBroken' /\ UpBroken'
        BY <3>1 DEF DownBroken, UpBroken, Running
      <3> QED BY <2>2, <3>1, <3>2, DownRests, UpRests
    <2> QED BY <2>1, <2>4, <2>5, <2>6
  <1> QED BY <1>3, <1>4, <1>5

\* The steps of JavaScript.
LEMMA ChannelsJavaScript ==
  ASSUME TypeOK, Inv,
         \/ \E m \in Pushes : Push(m)
         \/ Stop \/ Data \/ Turn
         \/ \E m \in Handled : Return(m)
  PROVE  DownMoves /\ UpMoves
  <1>0. /\ sent \in Seq(Message) /\ dispatched \in Seq([ctx : Handled, bytes : Bytes])
        /\ req \in Req /\ DownWay \in Seq(Byte)
        /\ pushed \in Seq(Message) /\ reader \in Req /\ up \in Seq(Byte)
    BY WayType DEF TypeOK, Bytes
  <1>1. Running
    BY DEF Push, Stop, Data, Turn, Return, Idle
  <1>2. ASSUME ~DownBroken PROVE Going(sent, Handled, dispatched, req, DownWay)
    BY <1>2 DEF Inv, Streams, DownBroken
  <1>3. CASE Stop \/ \E m \in Handled : Return(m)
    <2>1. UNCHANGED <<torn, exited>> /\ DownSame /\ UpSame
      BY <1>3 DEF Stop, Return, DownSame, UpSame, native, channel, writer, javascript,
                  pushing, readTask
    <2>2. (DownBroken' <=> DownBroken) /\ (UpBroken' <=> UpBroken)
      BY <2>1 DEF DownBroken, UpBroken, Running
    <2> QED BY <2>1, <2>2, DownRests, UpRests
  <1>4. CASE \E m \in Pushes : Push(m)
    <2>1. PICK m \in Pushes : Push(m)
      BY <1>4
    <2>2. m \in Message
      BY UdsAssumption
    <2>3. /\ UNCHANGED <<torn, exited, served, reader>> /\ DownSame
          /\ pushed' = Append(pushed, m) /\ up' = Cat(up, Frame(m))
      BY <2>1 DEF Push, DownSame, native, channel, writer, javascript, readTask, Cat
    <2>4. (DownBroken' <=> DownBroken) /\ (UpBroken' <=> UpBroken)
      BY <2>3 DEF DownBroken, UpBroken, Running
    <2>5. CASE UpBroken
      BY <2>3, <2>4, <2>5, DownRests, UpRests
    <2>6. CASE ~UpBroken
      <3>1. Going(pushed, Served, served, reader, up)
        BY <2>6 DEF Inv, Streams, UpBroken
      <3>2. Unread(Append(pushed, m), reader, Cat(up, Frame(m))) = Append(Unread(pushed, reader, up), m)
        BY <1>0, <2>2, <3>1, UnreadAppend
      <3>3. UpQueue' = Append(UpQueue, m)
        BY <2>3, <2>4, <2>6, <3>2, QueueIs, Zenon
      <3>4. UpMoves
        BY <2>2, <2>3, <2>4, <2>6, <3>3, Zenon DEF UpMoves, Moves
      <3> QED BY <2>3, <2>4, <3>4, DownRests
    <2> QED BY <2>5, <2>6
  <1>5. CASE Data
    <2>1. /\ UNCHANGED <<torn, exited, sent, dispatched, chunk, rx>> /\ UpSame
      BY <1>5 DEF Data, UpSame, native, channel, writer, pushing, readTask
    <2>2. (DownBroken' <=> DownBroken) /\ (UpBroken' <=> UpBroken)
      BY <2>1 DEF DownBroken, UpBroken, Running
    <2>3. PICK n \in ReadSizes : req' = Add(req, First(down, n)) /\ down' = After(down, n)
      BY <1>5 DEF Data
    <2>4. ASSUME ~DownBroken PROVE Unread(sent', req', DownWay') = Unread(sent, req, DownWay)
      <3> DEFINE v == Cat(chunk, FlattenSeq(rx))
                 f == FlattenSeq(rx)
                 y == After(down, n)
      <3>1. n \in Nat /\ down \in Seq(Byte) /\ v \in Seq(Byte) /\ DownWay = Cat(down, v)
        BY WayType, UdsAssumption
      <3>2. y \in Seq(Byte) /\ chunk \in Seq(Byte) /\ f \in Seq(Byte)
        BY <3>1, WayType, Parts
      <3>3. FlattenSeq(rx') = f /\ down' = y /\ chunk' = chunk
        BY <2>1, <2>3
      <3> HIDE DEF f, y
      <3>4. Cat(Cat(y, chunk), f) = Cat(y, Cat(chunk, f))
        BY <3>2, CatAssoc
      <3>5. DownWay' = Cat(y, v)
        BY <3>3, <3>4 DEF DownWay, f
      <3> HIDE DEF v
      <3>6. Going(sent, Handled, dispatched, req, Cat(down, v))
        BY <1>2, <2>4, <3>1, Zenon
      <3>7. Unread(sent, Add(req, First(down, n)), Cat(After(down, n), v))
              = Unread(sent, req, Cat(down, v))
        BY <1>0, <3>1, <3>6, UnreadAdd
      <3> QED BY <2>1, <2>3, <3>1, <3>5, <3>7, Zenon DEF y
    <2>5. DownQueue' = DownQueue
      BY <2>2, <2>4, QueueIs, Zenon
    <2>6. DownMoves
      BY <2>1, <2>2, <2>5, Zenon DEF DownMoves, Moves
    <2> QED BY <2>1, <2>2, <2>6, UpRests
  <1>6. CASE Turn
    <2>1. PICK read \in {ReadBlock(req)} : Dispatch(read) \/ Incomplete(read) \/ Reject(read)
      BY <1>6 DEF Turn
    <2>2. UpSame /\ UNCHANGED <<sent, rx, chunk, down>>
      BY <1>6 DEF Turn, Dispatch, Incomplete, Reject, UpSame, native, channel, writer, pushing, readTask
    <2>3. DownWay' = DownWay
      BY <2>2 DEF DownWay
    <2>4. ASSUME ~DownBroken PROVE Turns(sent, req, read, DownWay)
      BY <1>0, <1>2, <2>1, <2>4, UnreadTurn
    <2>5. CASE Dispatch(read)
      <3>1. read.res = "frame" /\ exited' = exited /\ req' = Reset(read.req)
        BY <2>5 DEF Dispatch
      <3>2. torn' = IF read.req.ctx = None THEN torn \cup {"req"} ELSE torn
        BY <2>5 DEF Dispatch, Tear
      <3>3. dispatched' = IF read.req.ctx \in Handled THEN Append(dispatched, Call(read.req))
                                                     ELSE dispatched
        BY <2>5 DEF Dispatch
      <3>4. UpMoves
        <4>1. UpBroken' <=> UpBroken
          BY <3>1, <3>2 DEF UpBroken, Running
        <4> QED BY <2>2, <4>1, UpRests
      <3>5. DownMoves
        <4>1. CASE DownBroken
          <5>1. DownBroken'
            BY <3>2, <4>1, <1>1 DEF DownBroken
          <5>2. IsPrefix(dispatched, dispatched')
            <6>1. read.req \in Req
              BY <1>0, <2>1, ReadBlockType DEF Reads
            <6>2. read.req.ctx \in Handled => Call(read.req) \in [ctx : Handled, bytes : Bytes]
              BY <6>1, CallType
            <6>3. CASE read.req.ctx \in Handled
              BY <1>0, <3>3, <6>2, <6>3, PrefixAppend
            <6>4. CASE dispatched' = dispatched
              <7>1. Len(dispatched) \in Nat
                BY <1>0, LenProperties
              <7> QED BY <6>4, <7>1 DEF IsPrefix
            <6> QED BY <3>3, <6>3, <6>4
          <5>3. DownQueue' = DownQueue
            BY <4>1, <5>1, QueueIs, Zenon
          <5> QED BY <4>1, <5>1, <5>2, <5>3, Zenon DEF DownMoves, Moves
        <4>2. CASE ~DownBroken /\ read.req.ctx = None
          <5>1. DownBroken'
            BY <3>2, <4>2 DEF DownBroken
          <5>2. dispatched' = dispatched
            BY <3>3, <4>2, UdsAssumption, FrameAssumption
          <5> QED BY <5>1, <5>2, DownRests
        <4>3. CASE ~DownBroken /\ read.req.ctx # None
          <5>1. ~DownBroken'
            BY <3>1, <3>2, <4>3 DEF DownBroken, Running
          <5> DEFINE q == Unread(sent, req, DownWay)
          <5>2. /\ q # << >> /\ read.req.ctx = Head(q) /\ Call(read.req) = CallOf(Head(q))
                /\ Unread(sent, Reset(read.req), DownWay) = Tail(q)
            BY <2>4, <3>1, <4>3 DEF Turns
          <5>3. DownQueue = q /\ DownQueue' = Tail(q)
            BY <2>2, <2>3, <3>1, <4>3, <5>1, <5>2, QueueIs, Zenon
          <5> HIDE DEF q
          <5>4. dispatched' = IF Head(DownQueue) \in Handled
                              THEN Append(dispatched, CallOf(Head(DownQueue))) ELSE dispatched
            BY <3>3, <5>2, <5>3, Zenon
          <5> QED BY <4>3, <5>1, <5>2, <5>3, <5>4, Zenon DEF DownMoves, Moves
        <4> QED BY <4>1, <4>2, <4>3
      <3> QED BY <3>4, <3>5
    <2>6. CASE Incomplete(read)
      <3>1. read.res = "null" /\ UNCHANGED <<exited, torn, dispatched>> /\ req' = read.req
        BY <2>6 DEF Incomplete
      <3>2. (DownBroken' <=> DownBroken) /\ (UpBroken' <=> UpBroken)
        BY <3>1 DEF DownBroken, UpBroken, Running
      <3>3. ~DownBroken => Unread(sent, read.req, DownWay) = Unread(sent, req, DownWay)
        BY <2>4, <3>1 DEF Turns
      <3>4. DownQueue' = DownQueue
        BY <2>2, <2>3, <3>1, <3>2, <3>3, QueueIs, Zenon
      <3>5. DownMoves
        BY <3>1, <3>2, <3>4, Zenon DEF DownMoves, Moves
      <3> QED BY <2>2, <3>2, <3>5, UpRests
    <2>7. CASE Reject(read)
      <3>1. read.res \notin {"frame", "null"} /\ exited' = read.res /\ dispatched' = dispatched
        BY <2>7 DEF Reject
      <3>2. exited' # "no"
        <4>1. exited' \in Results \ {"frame", "null"}
          BY <1>0, <2>1, <3>1, ReadBlockType DEF Reads
        <4> QED BY <4>1 DEF Results
      <3>3. DownBroken' /\ UpBroken'
        BY <3>2 DEF DownBroken, UpBroken, Running
      <3>4. served' = served
        BY <2>2 DEF UpSame
      <3> QED BY <3>1, <3>3, <3>4, DownRests, UpRests
    <2> QED BY <2>1, <2>5, <2>6, <2>7
  <1> QED BY <1>3, <1>4, <1>5, <1>6

\* Of no messages, none is unread.
LEMMA UnreadNone ==
  ASSUME NEW messages \in Seq(Message), Len(messages) = 0, NEW handled, NEW results,
         NEW r \in Req, NEW way \in Seq(Byte), Going(messages, handled, results, r, way)
  PROVE  Unread(messages, r, way) = << >>
  <1>1. PICK k \in 0 .. Len(messages) : Stands(messages, k, r, way)
    BY DEF Going
  <1>2. k = 0
    BY <1>1
  <1>3. Unread(messages, r, way) = After(messages, k)
    BY <1>1, PlaceIs
  <1>4. After(messages, k) \in Seq(Message) /\ Len(After(messages, k)) = Len(messages) - k
    BY AfterAt
  <1> QED BY <1>2, <1>3, <1>4, EmptySeq

\* In both directions Uds implements Channel, whatever the sizes of frames, socket and
\* reads, and however many workers there are: what send() and push() are given leaves a
\* queue in the order it was put in, to the handler of its topic and with its own binary
\* part, until a reader has torn a frame or the process exits (uds.rs:337-412,
\* index.ts:272-295).
THEOREM KeepsChannels == Spec => ImplementsChannels
  <1>1. Init => Down!Init /\ Up!Init
    <2> SUFFICES ASSUME Init PROVE Down!Init /\ Up!Init
      OBVIOUS
    <2>1. /\ sent = << >> /\ pushed = << >> /\ dispatched = << >> /\ served = << >>
          /\ torn = {} /\ Running
      BY DEF Init, Running
    <2>2. Going(sent, Handled, dispatched, req, DownWay) /\ Going(pushed, Served, served, reader, up)
      BY <2>1, InvInit DEF Inv, Streams
    <2>3. ASSUME NEW r, NEW way, NEW h, Going(<< >>, h, << >>, r, way), r \in Req, way \in Seq(Byte)
          PROVE  Unread(<< >>, r, way) = << >>
      BY <2>3, EmptySeq, UnreadNone
    <2>4. TypeOK
      BY TypeInit
    <2>5. req \in Req /\ reader \in Req /\ DownWay \in Seq(Byte) /\ up \in Seq(Byte)
      BY <2>4, WayType DEF TypeOK
    <2>6. Unread(sent, req, DownWay) = << >> /\ Unread(pushed, reader, up) = << >>
      BY <2>1, <2>2, <2>3, <2>5
    <2>7. DownBroken = FALSE /\ UpBroken = FALSE
      BY <2>1, Zenon DEF DownBroken, UpBroken
    <2>8. DownQueue = << >> /\ UpQueue = << >>
      BY <2>6, <2>7, QueueIs
    <2> QED BY <2>1, <2>7, <2>8 DEF Down!Init, Up!Init
  <1>2. TypeOK /\ Fits /\ Inv /\ [Next]_vars => DownStep /\ UpStep
    <2> SUFFICES ASSUME TypeOK, Fits, Inv, [Next]_vars PROVE DownMoves /\ UpMoves
      BY DownIsStep, UpIsStep
    <2>1. CASE UNCHANGED vars
      <3>1. DownSame /\ UpSame /\ UNCHANGED <<torn, exited>>
        BY <2>1 DEF vars, DownSame, UpSame
      <3>2. (DownBroken' <=> DownBroken) /\ (UpBroken' <=> UpBroken)
        BY <3>1 DEF DownBroken, UpBroken, Running
      <3> QED BY <3>1, <3>2, DownRests, UpRests
    <2> QED
      BY <2>1, Steps, ChannelsWriter, ChannelsReadTask, ChannelsJavaScript
  <1> QED
    BY <1>1, <1>2, Invariance, TypeCorrect, PTL
       DEF Spec, DownStep, UpStep, ImplementsChannels, Down!Spec, Up!Spec

-----------------------------------------------------------------------------
(* Where the loops can spin *)

\* A turn finds no frame only if it leaves the buffer empty, which ends its loop, or with
\* the beginning of a frame whose rest is not there yet.
Advances(r) ==
  LET read == ReadBlock(r)
  IN  read.res = "null" => IsEmpty(read.req) \/ Begun(read.req)

\* Every other turn of a loop takes a message off its queue (ImplementsChannels).
LoopsAdvance ==
  /\ looping /\ ~DownBroken => Advances(req)
  /\ reading = "looping" /\ ~UpBroken => Advances(reader)

LEMMA GoingAdvances ==
  ASSUME NEW s \in Seq(Message), NEW handlers, NEW out, NEW r \in Req, NEW way \in Seq(Byte),
         Going(s, handlers, out, r, way)
  PROVE  Advances(r)
  <1>1. Turns(s, r, ReadBlock(r), way)
    BY UnreadTurn
  <1> QED BY <1>1 DEF Turns, Advances

\* The loops of both ends spin nowhere but in front of the beginning of a frame, whatever
\* the sizes of frames, socket and reads (index.ts:276-294, uds.rs:364-412).
THEOREM LoopsGoOn == Spec => []LoopsAdvance
  <1>1. TypeOK /\ Inv => LoopsAdvance
    <2> SUFFICES ASSUME TypeOK, Inv PROVE LoopsAdvance
      OBVIOUS
    <2>1. /\ sent \in Seq(Message) /\ req \in Req /\ DownWay \in Seq(Byte)
          /\ pushed \in Seq(Message) /\ reader \in Req /\ up \in Seq(Byte)
      BY WayType DEF TypeOK, Bytes
    <2>2. ASSUME ~DownBroken PROVE Advances(req)
      <3>1. Going(sent, Handled, dispatched, req, DownWay)
        BY <2>2 DEF Inv, Streams, DownBroken
      <3> QED BY <2>1, <3>1, GoingAdvances
    <2>3. ASSUME ~UpBroken PROVE Advances(reader)
      <3>1. Going(pushed, Served, served, reader, up)
        BY <2>3 DEF Inv, Streams, UpBroken
      <3> QED BY <2>1, <3>1, GoingAdvances
    <2> QED BY <2>2, <2>3 DEF LoopsAdvance
  <1> QED
    BY <1>1, Invariance, TypeCorrect, PTL

=============================================================================
