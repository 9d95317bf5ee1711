----------------------------- MODULE DataFacts -----------------------------
(***************************************************************************)
(* Facts about data that several proofs need: least and greatest elements  *)
(* of sets of numbers, as scans over tables find them, and the sequence    *)
(* FlattenSeq puts together from several ones.                             *)
(***************************************************************************)
EXTENDS Integers, SequencesExt, SequenceTheorems, WellFoundedInduction, TLAPS

\* A scan from the start of a table finds the first entry it looks for.
LEMMA LeastExists ==
    ASSUME NEW S, S \subseteq Nat, S # {}
    PROVE  \E x \in S : \A y \in S : x <= y
<1>1. \E x \in S : \A y \in S : <<y, x>> \notin OpToRel(<, Nat)
    BY NatLessThanWellFounded, WFMin
<1>2. \A x, y \in Nat : x <= y \/ <<y, x>> \in OpToRel(<, Nat)
    BY DEF OpToRel
<1> QED BY <1>1, <1>2

\* A scan from the end finds the last one.
LEMMA GreatestExists ==
    ASSUME NEW n \in Nat, NEW S, S \subseteq 0..n, S # {}
    PROVE  \E x \in S : \A y \in S : y <= x
<1> DEFINE T == {n - x : x \in S}
<1>0. PICK z \in S : TRUE
    OBVIOUS
<1>1. T \subseteq Nat /\ T # {}
  <2>1. \A x \in S : n - x \in Nat
    OBVIOUS
  <2>2. n - z \in T
    OBVIOUS
  <2> QED BY <2>1, <2>2
<1>2. PICK t \in T : \A u \in T : t <= u
    BY <1>1, LeastExists
<1>3. PICK x \in S : t = n - x
    OBVIOUS
<1>4. \A y \in S : y <= x
    BY <1>2, <1>3
<1> QED BY <1>4

\* Room for one more copy: a product bound that needs distributivity.
LEMMA ProductBound ==
    ASSUME NEW n \in Nat, NEW m \in Nat, NEW r \in 0..m
    PROVE  /\ n * r \in Nat
           /\ n * (r + 1) = n * r + n
           /\ n * r + n <= n * (m + 1)
<1>1. n * r \in Nat /\ n * (r + 1) = n * r + n
    OBVIOUS
<1>2. n * (m - r) >= 0
    OBVIOUS
<1>3. n * (m + 1) = n * (m - r) + n * r + n
    OBVIOUS
<1> QED BY <1>1, <1>2, <1>3
-----------------------------------------------------------------------------
\* FlattenSeq adds one sequence after the other.
LEMMA FlattenSteps ==
    ASSUME NEW S, NEW ss \in Seq(Seq(S)), ss # <<>>
    PROVE  \E flat : /\ \A i \in 1..Len(ss) : flat[i] = IF i = 1 THEN ss[i] ELSE flat[i-1] \o ss[i]
                     /\ FlattenSeq(ss) = flat[Len(ss)]
<1> DEFINE n == Len(ss)
           Joins(f, m) == f \in [1..m -> Seq(S)]
                /\ \A i \in 1..m : f[i] = IF i = 1 THEN ss[i] ELSE f[i-1] \o ss[i]
           long == {m \in 1..n : ~ \E f : Joins(f, m)}
           flat == CHOOSE f : f = [i \in 1..n |-> IF i = 1 THEN ss[i] ELSE f[i-1] \o ss[i]]
<1>1. n \in Nat /\ \A i \in 1..n : ss[i] \in Seq(S)
    BY LenProperties, ElementOfSeq
<1>3. n # 0
    BY EmptySeq
<1>4. QED
  <2>1. \E f : Joins(f, n)
    <3>0. n \in 1..n /\ (n \notin long => \E f : Joins(f, n))
        BY <1>1, <1>3
    <3> SUFFICES ASSUME long # {} PROVE FALSE
        BY <3>0
    <3>1. PICK m \in long : \A k \in long : m <= k
      <4>1. long \subseteq Nat
        BY <1>1
      <4> HIDE DEF long
      <4> QED BY <4>1, LeastExists
    <3>2. CASE m = 1
      <4>1. Joins([i \in 1..1 |-> ss[i]], 1)
        BY <1>1, <1>3
      <4> QED BY <3>1, <3>2, <4>1
    <3>3. CASE m # 1
      <4>0. long \subseteq 1..n
        OBVIOUS
      <4>1. m \in 1..n /\ m - 1 \in 1..n /\ m - 1 \notin long
        <5> HIDE DEF long
        <5> QED BY <3>1, <3>3, <1>1, <4>0
      <4>n. m \in Nat /\ m \in 1..m /\ \A k \in 1..m - 1 : k \in 1..m /\ k # m
        <5> HIDE DEF long
        <5> QED BY <4>1, <1>1
      <4>2. PICK f : Joins(f, m - 1)
        BY <4>1
      <4> DEFINE g == [i \in 1..m |-> IF i = m THEN f[m-1] \o ss[m] ELSE f[i]]
      <4>3. f[m-1] \in Seq(S) /\ ss[m] \in Seq(S)
        BY <4>1, <4>2, <1>1
      <4>4. f[m-1] \o ss[m] \in Seq(S)
        BY <4>3, ConcatProperties
      <4>5. g \in [1..m -> Seq(S)]
        BY <4>1, <4>2, <4>4
      <4>6. \A i \in 1..m : g[i] = IF i = 1 THEN ss[i] ELSE g[i-1] \o ss[i]
        <5> TAKE i \in 1..m
        <5>0. g[m] = f[m-1] \o ss[m] /\ \A k \in 1..m - 1 : g[k] = f[k]
            BY <4>n
        <5> HIDE DEF g
        <5>1. CASE i = m
          <6>1. m - 1 \in 1..m - 1
            BY <4>1
          <6>2. g[m-1] = f[m-1]
            BY <5>0, <6>1
          <6> QED BY <5>0, <5>1, <6>2, <3>3
        <5>2. CASE i # m
          <6>1. i \in 1..m - 1 /\ (i # 1 => i - 1 \in 1..m - 1)
            BY <5>2, <4>1
          <6>2. f[i] = IF i = 1 THEN ss[i] ELSE f[i-1] \o ss[i]
            BY <6>1, <4>2
          <6>3. g[i] = f[i] /\ (i # 1 => g[i-1] = f[i-1])
            BY <5>0, <6>1
          <6> QED BY <6>2, <6>3
        <5> QED BY <5>1, <5>2
      <4>7. Joins(g, m)
        BY <4>5, <4>6
      <4> QED BY <3>1, <4>7
    <3> QED BY <3>2, <3>3
  <2>2. PICK f : Joins(f, n)
    BY <2>1
  <2>3. f = [i \in 1..n |-> IF i = 1 THEN ss[i] ELSE f[i-1] \o ss[i]]
    BY <2>2
  <2>4. flat = [i \in 1..n |-> IF i = 1 THEN ss[i] ELSE flat[i-1] \o ss[i]]
    BY <2>3
  <2>5. FlattenSeq(ss) = flat[n]
    BY <1>3 DEF FlattenSeq
  <2>6. \A i \in 1..n : flat[i] = IF i = 1 THEN ss[i] ELSE flat[i-1] \o ss[i]
    <3>1. TAKE i \in 1..n
    <3> QED BY <2>4
  <2> HIDE DEF flat
  <2> QED BY <2>5, <2>6

\* What all the sequences are and two of them put together are, too, holds of
\* their flattened sequence.
LEMMA FlattenClosed ==
    ASSUME NEW S, NEW ss \in Seq(Seq(S)), ss # <<>>,
           NEW L, \A i \in 1..Len(ss) : ss[i] \in L,
           \A s, t \in L : s \o t \in L
    PROVE  FlattenSeq(ss) \in L
<1> DEFINE n == Len(ss)
<1>1. n \in Nat \ {0}
    BY EmptySeq, LenProperties
<1>2. PICK flat : /\ \A i \in 1..n : flat[i] = IF i = 1 THEN ss[i] ELSE flat[i-1] \o ss[i]
                  /\ FlattenSeq(ss) = flat[n]
    BY FlattenSteps
<1> DEFINE odd == {i \in 1..n : flat[i] \notin L}
<1>3. odd = {}
  <2> SUFFICES ASSUME odd # {} PROVE FALSE
    OBVIOUS
  <2>1. PICK m \in odd : \A k \in odd : m <= k
    <3>1. odd \subseteq Nat
        BY <1>1
    <3> HIDE DEF odd
    <3> QED BY <3>1, LeastExists
  <2>2. CASE m = 1
    BY <1>2, <2>1, <2>2
  <2>3. CASE m # 1
    <3>1. m - 1 \in 1..n /\ m - 1 \notin odd
        BY <2>1, <2>3, <1>1
    <3>2. flat[m-1] \in L /\ ss[m] \in L
        BY <3>1, <2>1
    <3>3. flat[m] = flat[m-1] \o ss[m]
        BY <1>2, <2>1, <2>3
    <3> QED BY <2>1, <3>2, <3>3
  <2> QED BY <2>2, <2>3
<1>4. n \in 1..n
    BY <1>1
<1> QED BY <1>2, <1>3, <1>4

\* Sequences put together one after the other are a sequence.
LEMMA FlattenType ==
    ASSUME NEW S, NEW ss \in Seq(Seq(S))
    PROVE  FlattenSeq(ss) \in Seq(S)
<1>1. CASE ss = <<>>
  <2>1. Len(ss) = 0
    BY <1>1
  <2> QED BY <1>1, <2>1 DEF FlattenSeq
<1>2. CASE ss # <<>>
  <2>1. \A s, t \in Seq(S) : s \o t \in Seq(S)
    BY ConcatProperties
  <2>2. \A i \in 1..Len(ss) : ss[i] \in Seq(S)
    BY ElementOfSeq
  <2> QED BY <1>2, <2>1, <2>2, FlattenClosed
<1> QED BY <1>1, <1>2

\* No element of the sequences is lost.
LEMMA FlattenKeeps ==
    ASSUME NEW S, NEW ss \in Seq(Seq(S)), NEW i \in 1..Len(ss), NEW x \in S,
           \E j \in 1..Len(ss[i]) : ss[i][j] = x
    PROVE  \E j \in 1..Len(FlattenSeq(ss)) : FlattenSeq(ss)[j] = x
<1> DEFINE n == Len(ss)
           Has(s) == \E j \in 1..Len(s) : s[j] = x
           F == FlattenSeq(ss)
<1>0. n \in Nat /\ i \in 1..n /\ ss # <<>> /\ \A k \in 1..n : ss[k] \in Seq(S)
    BY LenProperties, ElementOfSeq
<1>1. \A s, t \in Seq(S) : Has(s) \/ Has(t) => Has(s \o t)
  <2> SUFFICES ASSUME NEW s \in Seq(S), NEW t \in Seq(S), Has(s) \/ Has(t) PROVE Has(s \o t)
    OBVIOUS
  <2>1. /\ Len(s) \in Nat /\ Len(t) \in Nat /\ Len(s \o t) = Len(s) + Len(t)
        /\ \A k \in 1..Len(s) + Len(t) : (s \o t)[k] = IF k <= Len(s) THEN s[k] ELSE t[k - Len(s)]
    BY ConcatProperties, LenProperties
  <2>2. CASE Has(s)
    <3>1. PICK k \in 1..Len(s) : s[k] = x
        BY <2>2
    <3> QED BY <2>1, <3>1
  <2>3. CASE Has(t)
    <3>1. PICK k \in 1..Len(t) : t[k] = x
        BY <2>3
    <3>2. /\ Len(s) + k \in 1..Len(s) + Len(t) /\ ~(Len(s) + k <= Len(s))
          /\ (Len(s) + k) - Len(s) = k
        BY <2>1, <3>1
    <3> QED BY <2>1, <3>1, <3>2
  <2> QED BY <2>2, <2>3
<1>2. PICK flat : /\ \A k \in 1..n : flat[k] = IF k = 1 THEN ss[k] ELSE flat[k-1] \o ss[k]
                  /\ F = flat[n]
    BY <1>0, FlattenSteps
<1> DEFINE odd == {k \in 1..n : ~(flat[k] \in Seq(S) /\ (k >= i => Has(flat[k])))}
<1>3. odd = {}
  <2> SUFFICES ASSUME odd # {} PROVE FALSE
    OBVIOUS
  <2>1. PICK m \in odd : \A k \in odd : m <= k
    <3>1. odd \subseteq Nat
        BY <1>0
    <3> HIDE DEF odd
    <3> QED BY <3>1, LeastExists
  <2>2. m \in 1..n /\ Has(ss[i])
    OBVIOUS
  <2>3. CASE m = 1
    <3>1. flat[m] = ss[m] /\ ss[m] \in Seq(S)
        BY <1>0, <1>2, <2>2, <2>3
    <3>2. m >= i => m = i
        BY <1>0, <2>3
    <3> QED BY <2>1, <2>2, <3>1, <3>2
  <2>4. CASE m # 1
    <3>1. m - 1 \in 1..n /\ m - 1 \notin odd
        BY <2>1, <2>4, <1>0
    <3>2. flat[m-1] \in Seq(S) /\ (m - 1 >= i => Has(flat[m-1])) /\ ss[m] \in Seq(S)
        BY <3>1, <1>0, <2>2
    <3>3. flat[m] = flat[m-1] \o ss[m]
        BY <1>2, <2>2, <2>4
    <3>4. flat[m] \in Seq(S)
        BY <3>2, <3>3, ConcatProperties
    <3>5. m >= i => m - 1 >= i \/ m = i
        BY <1>0, <2>2
    <3>6. m >= i => Has(flat[m-1]) \/ Has(ss[m])
        BY <2>2, <3>2, <3>5
    <3>7. m >= i => Has(flat[m])
      <4> HIDE DEF Has
      <4> QED BY <1>1, <3>2, <3>3, <3>6
    <3> QED BY <2>1, <3>4, <3>7
  <2> QED BY <2>3, <2>4
<1>4. n \in 1..n /\ n >= i
    BY <1>0
<1>5. Has(flat[n])
  <2> HIDE DEF Has
  <2> QED BY <1>3, <1>4
<1> QED BY <1>2, <1>5

\* How a concatenation is recognised.
LEMMA JoinIs ==
    ASSUME NEW S, NEW s \in Seq(S), NEW u \in Seq(S), NEW w \in Seq(S),
           Len(w) = Len(s) + Len(u), \A i \in 1..Len(s) : w[i] = s[i],
           \A i \in 1..Len(u) : w[Len(s) + i] = u[i]
    PROVE  s \o u = w
<1>1. Len(s) \in Nat /\ Len(u) \in Nat
    BY LenProperties
<1>2. /\ s \o u \in Seq(S) /\ Len(s \o u) = Len(s) + Len(u)
      /\ \A i \in 1..Len(s) + Len(u) : (s \o u)[i] = IF i <= Len(s) THEN s[i] ELSE u[i - Len(s)]
    BY ConcatProperties
<1>3. \A i \in 1..Len(s) + Len(u) : w[i] = IF i <= Len(s) THEN s[i] ELSE u[i - Len(s)]
  <2> TAKE i \in 1..Len(s) + Len(u)
  <2>1. CASE i <= Len(s)
    BY <1>1, <2>1
  <2>2. CASE ~(i <= Len(s))
    <3>1. i - Len(s) \in 1..Len(u) /\ Len(s) + (i - Len(s)) = i
        BY <1>1, <2>2
    <3> QED BY <2>2, <3>1
  <2> QED BY <2>1, <2>2
<1> QED BY <1>2, <1>3, SeqEqual

\* Short lists, written out.
LEMMA Tuples ==
    ASSUME NEW x, NEW y, NEW z
    PROVE  /\ <<x>> \o <<y>> = <<x, y>>
           /\ <<x>> \o <<y, z>> = <<x, y, z>>
           /\ <<x, y>> \o <<z>> = <<x, y, z>>
<1> DEFINE S == {x, y, z}
<1>1. x \in S /\ y \in S /\ z \in S
    OBVIOUS
<1> HIDE DEF S
<1>2. /\ <<x>> \in Seq(S) /\ Len(<<x>>) = 1 /\ <<x>>[1] = x
      /\ <<y>> \in Seq(S) /\ Len(<<y>>) = 1 /\ <<y>>[1] = y
      /\ <<z>> \in Seq(S) /\ Len(<<z>>) = 1 /\ <<z>>[1] = z
    BY <1>1
<1>3. /\ <<x, y>> \in Seq(S) /\ Len(<<x, y>>) = 2 /\ <<x, y>>[1] = x /\ <<x, y>>[2] = y
      /\ <<y, z>> \in Seq(S) /\ Len(<<y, z>>) = 2 /\ <<y, z>>[1] = y /\ <<y, z>>[2] = z
    BY <1>1
<1>4. /\ <<x, y, z>> \in Seq(S) /\ Len(<<x, y, z>>) = 3
      /\ <<x, y, z>>[1] = x /\ <<x, y, z>>[2] = y /\ <<x, y, z>>[3] = z
    BY <1>1
<1>6. 1..1 = {1} /\ 1..2 = {1, 2}
    OBVIOUS
<1>7. <<x>> \o <<y>> = <<x, y>>
  <2>1. /\ Len(<<x, y>>) = Len(<<x>>) + Len(<<y>>)
        /\ \A i \in 1..Len(<<x>>) : <<x, y>>[i] = <<x>>[i]
    BY <1>2, <1>3, <1>6
  <2>2. \A i \in 1..Len(<<y>>) : <<x, y>>[Len(<<x>>) + i] = <<y>>[i]
    BY <1>2, <1>3, <1>6
  <2> QED BY <1>2, <1>3, <2>1, <2>2, JoinIs
<1>8. <<x>> \o <<y, z>> = <<x, y, z>>
  <2>1. /\ Len(<<x, y, z>>) = Len(<<x>>) + Len(<<y, z>>)
        /\ \A i \in 1..Len(<<x>>) : <<x, y, z>>[i] = <<x>>[i]
        /\ \A i \in 1..Len(<<y, z>>) : <<x, y, z>>[Len(<<x>>) + i] = <<y, z>>[i]
    BY <1>2, <1>3, <1>4, <1>6
  <2> QED BY <1>2, <1>3, <1>4, <2>1, JoinIs
<1>9. <<x, y>> \o <<z>> = <<x, y, z>>
  <2>1. /\ Len(<<x, y, z>>) = Len(<<x, y>>) + Len(<<z>>)
        /\ \A i \in 1..Len(<<x, y>>) : <<x, y, z>>[i] = <<x, y>>[i]
        /\ \A i \in 1..Len(<<z>>) : <<x, y, z>>[Len(<<x, y>>) + i] = <<z>>[i]
    BY <1>2, <1>3, <1>4, <1>6
  <2> QED BY <1>2, <1>3, <1>4, <2>1, JoinIs
<1> QED BY <1>7, <1>8, <1>9

LEMMA Quadruple ==
    ASSUME NEW x, NEW y, NEW z, NEW w
    PROVE  <<x, y, z>> \o <<w>> = <<x, y, z, w>>
<1> DEFINE S == {x, y, z, w}
<1>1. x \in S /\ y \in S /\ z \in S /\ w \in S
    OBVIOUS
<1> HIDE DEF S
<1>2. <<w>> \in Seq(S) /\ Len(<<w>>) = 1 /\ <<w>>[1] = w
    BY <1>1
<1>3. /\ <<x, y, z>> \in Seq(S) /\ Len(<<x, y, z>>) = 3
      /\ <<x, y, z>>[1] = x /\ <<x, y, z>>[2] = y /\ <<x, y, z>>[3] = z
    BY <1>1
<1>4. /\ <<x, y, z, w>> \in Seq(S) /\ Len(<<x, y, z, w>>) = 4 /\ <<x, y, z, w>>[1] = x
      /\ <<x, y, z, w>>[2] = y /\ <<x, y, z, w>>[3] = z /\ <<x, y, z, w>>[4] = w
    BY <1>1
<1>5. 1..1 = {1} /\ 1..3 = {1, 2, 3}
    OBVIOUS
<1>6. /\ Len(<<x, y, z, w>>) = Len(<<x, y, z>>) + Len(<<w>>)
      /\ \A i \in 1..Len(<<x, y, z>>) : <<x, y, z, w>>[i] = <<x, y, z>>[i]
      /\ \A i \in 1..Len(<<w>>) : <<x, y, z, w>>[Len(<<x, y, z>>) + i] = <<w>>[i]
    BY <1>2, <1>3, <1>4, <1>5
<1> QED BY <1>2, <1>3, <1>4, <1>6, JoinIs
=============================================================================
