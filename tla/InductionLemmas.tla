--------------------------- MODULE InductionLemmas ---------------------------
(***************************************************************************)
(* Induction over the numbers, and what it says of FlattenSeq, for the     *)
(* proofs of several components.                                           *)
(*                                                                         *)
(* The library's induction theorems take a predicate as a parameter, which *)
(* the provers cannot instantiate.  That a set of numbers has a least      *)
(* element needs no such parameter, and is enough: UpTo takes the set of   *)
(* the numbers that a formula holds for.  A recursive function is a CHOOSE *)
(* to the provers; FlattensExists and FlattensUnique say, by UpTo, that    *)
(* the one inside FlattenSeq exists and is determined by its equation.     *)
(***************************************************************************)
EXTENDS Integers, Sequences, SequencesExt, SequenceTheorems, WellFoundedInduction, TLAPS

\* A set of numbers has a least element.
LEMMA LeastNat == ASSUME NEW T \in SUBSET Nat, T # {} PROVE \E n \in T : \A m \in T : ~(m < n)
<1>1. PICK n \in T : \A m \in T : ~(<<m, n>> \in OpToRel(<, Nat))
  BY NatLessThanWellFounded, WFMin
<1>2. ASSUME NEW m \in T PROVE ~(m < n)
  <2>1. m \in Nat /\ n \in Nat
    OBVIOUS
  <2> QED BY <1>1, <2>1 DEF OpToRel
<1> QED BY <1>2

\* Induction up to a bound: S is the set of the numbers that have the property.
LEMMA UpTo == ASSUME NEW n \in Nat, NEW S, 0 \in S, \A i \in 0 .. n - 1 : i \in S => i + 1 \in S
              PROVE  \A i \in 0 .. n : i \in S
<1> SUFFICES ASSUME NEW j \in 0 .. n, j \notin S PROVE FALSE
  OBVIOUS
<1> DEFINE T == {i \in 0 .. n : i \notin S}
<1>1. T \in SUBSET Nat /\ T # {}
  OBVIOUS
<1>2. PICK k \in T : \A m \in T : ~(m < k)
  <2> HIDE DEF T
  <2> QED BY <1>1, LeastNat
<1>3. k - 1 \in 0 .. n - 1 /\ k - 1 \in S /\ (k - 1) + 1 = k
  BY <1>2
<1>4. (k - 1) + 1 \in S
  BY <1>3
<1> QED BY <1>2, <1>3, <1>4

-----------------------------------------------------------------------------
\* f is the sequence of the first n prefixes of s, flattened.
Flattens(f, n, s) == f = [i \in 1 .. n |-> IF i = 1 THEN s[i] ELSE f[i - 1] \o s[i]]

\* There is such a sequence ...
LEMMA FlattensExists ==
    ASSUME NEW S, NEW N \in Nat, NEW s \in [1 .. N -> Seq(S)]
    PROVE  \E f \in [1 .. N -> Seq(S)] : Flattens(f, N, s)
<1> DEFINE Good(n) == \E f \in [1 .. n -> Seq(S)] : Flattens(f, n, s)
           Fine == {n \in 0 .. N : Good(n)}
<1>1. Good(0)
  <2> DEFINE f == [i \in 1 .. 0 |-> <<>>]
  <2>1. f \in [1 .. 0 -> Seq(S)] /\ Flattens(f, 0, s)
    BY DEF Flattens
  <2> QED BY <2>1
<1>2. ASSUME NEW n \in 0 .. N - 1, Good(n) PROVE Good(n + 1)
  <2>1. PICK f \in [1 .. n -> Seq(S)] : Flattens(f, n, s)
    BY <1>2
  <2> DEFINE e == IF n = 0 THEN s[1] ELSE f[n] \o s[n + 1]
             g == [i \in 1 .. n + 1 |-> IF i = n + 1 THEN e ELSE f[i]]
  <2>2. e \in Seq(S)
    <3>1. s[n + 1] \in Seq(S)
      OBVIOUS
    <3>2. n # 0 => f[n] \in Seq(S)
      OBVIOUS
    <3> QED BY <3>1, <3>2, ConcatProperties
  <2>3. g \in [1 .. n + 1 -> Seq(S)]
    BY <2>2
  <2>4. ASSUME NEW i \in 1 .. n + 1 PROVE g[i] = IF i = 1 THEN s[i] ELSE g[i - 1] \o s[i]
    <3>1. CASE i = n + 1
      BY <3>1
    <3>2. CASE i # n + 1
      <4>1. i \in 1 .. n /\ (i # 1 => i - 1 \in 1 .. n)
        BY <3>2
      <4>2. f[i] = IF i = 1 THEN s[i] ELSE f[i - 1] \o s[i]
        BY <2>1, <4>1 DEF Flattens
      <4>3. g[i] = f[i] /\ (i # 1 => g[i - 1] = f[i - 1])
        BY <4>1, <3>2
      <4> QED BY <4>2, <4>3
    <3> QED BY <3>1, <3>2
  <2>5. Flattens(g, n + 1, s)
    <3>1. g = [i \in 1 .. n + 1 |-> g[i]]
      OBVIOUS
    <3> HIDE DEF g
    <3> QED BY <3>1, <2>4 DEF Flattens
  <2> HIDE DEF g
  <2> QED BY <2>3, <2>5
<1> HIDE DEF Good
<1>3. \A i \in 0 .. N : i \in Fine
  <2>1. 0 \in Fine /\ \A i \in 0 .. N - 1 : i \in Fine => i + 1 \in Fine
    BY <1>1, <1>2
  <2> HIDE DEF Fine
  <2> QED BY <2>1, UpTo
<1>4. Good(N)
  BY <1>3
<1> QED BY <1>4 DEF Good

\* t begins with the first n elements of s.
Begins(s, n, t) == \A i \in 1 .. n : s[i] = t[i]

\* ... and where s and t are the same, theirs are the same.
LEMMA FlattensUnique ==
    ASSUME NEW s, NEW t, NEW f, NEW g, NEW m \in Nat, NEW n \in Nat, m <= n,
           Flattens(f, m, s), Flattens(g, n, t),
           Begins(s, m, t)
    PROVE  Begins(f, m, g)
<1> DEFINE Same == {i \in 0 .. m : i # 0 => f[i] = g[i]}
<1>1. 0 \in Same
  OBVIOUS
<1>2. ASSUME NEW i \in 0 .. m - 1, i \in Same PROVE i + 1 \in Same
  <2>1. f[i + 1] = IF i = 0 THEN s[i + 1] ELSE f[i] \o s[i + 1]
    <3> DEFINE F(j) == IF j = 1 THEN s[j] ELSE f[j - 1] \o s[j]
    <3>1. f = [j \in 1 .. m |-> F(j)]
      BY DEF Flattens
    <3>2. f[i + 1] = F(i + 1)
      <4> HIDE DEF F
      <4> QED BY <3>1
    <3> QED BY <3>2
  <2>2. g[i + 1] = IF i = 0 THEN t[i + 1] ELSE g[i] \o t[i + 1]
    <3> DEFINE F(j) == IF j = 1 THEN t[j] ELSE g[j - 1] \o t[j]
    <3>1. g = [j \in 1 .. n |-> F(j)]
      BY DEF Flattens
    <3>2. g[i + 1] = F(i + 1)
      <4> HIDE DEF F
      <4> QED BY <3>1
    <3> QED BY <3>2
  <2>3. s[i + 1] = t[i + 1] /\ (i # 0 => f[i] = g[i])
    BY <1>2 DEF Begins
  <2>4. f[i + 1] = g[i + 1]
    BY <2>1, <2>2, <2>3
  <2> QED BY <2>4
<1>3. \A i \in 0 .. m : i \in Same
  <2> HIDE DEF Same
  <2> QED BY <1>1, <1>2, UpTo
<1> QED BY <1>3 DEF Begins

\* FlattenSeq takes the last of them.
LEMMA FlattenIsLastPrefix ==
    ASSUME NEW S, NEW s \in Seq(Seq(S)), s # <<>>
    PROVE  \E f \in [1 .. Len(s) -> Seq(S)] : Flattens(f, Len(s), s) /\ FlattenSeq(s) = f[Len(s)]
<1> DEFINE F == CHOOSE f : f = [i \in 1 .. Len(s) |-> IF i = 1 THEN s[i] ELSE f[i - 1] \o s[i]]
<1>1. FlattenSeq(s) = F[Len(s)]
  <2>1. Len(s) # 0
    OBVIOUS
  <2> QED BY <2>1 DEF FlattenSeq
<1>2. Len(s) \in Nat /\ s \in [1 .. Len(s) -> Seq(S)] /\ Len(s) \in 1 .. Len(s)
  BY LenProperties
<1>3. PICK g \in [1 .. Len(s) -> Seq(S)] : Flattens(g, Len(s), s)
  BY <1>2, FlattensExists
<1>4. Flattens(F, Len(s), s)
  BY <1>3 DEF Flattens
<1> HIDE DEF F
<1>5. Begins(s, Len(s), s)
  BY DEF Begins
<1>6. Begins(F, Len(s), g)
  BY <1>2, <1>3, <1>4, <1>5, FlattensUnique
<1> QED BY <1>1, <1>2, <1>3, <1>6 DEF Begins

\* Another element goes to the end of what there is.
LEMMA FlattenAppend ==
    ASSUME NEW S, NEW s \in Seq(Seq(S)), NEW e \in Seq(S)
    PROVE  /\ FlattenSeq(s) \in Seq(S)
           /\ FlattenSeq(Append(s, e)) = FlattenSeq(s) \o e
<1> DEFINE longer == Append(s, e)
<1>1. /\ longer \in Seq(Seq(S)) /\ Len(longer) = Len(s) + 1 /\ longer[Len(longer)] = e /\ longer # <<>>
      /\ \A i \in 1 .. Len(s) : longer[i] = s[i]
      /\ Len(s) \in Nat
  BY AppendProperties, LenProperties
<1> HIDE DEF longer
<1>2. PICK g \in [1 .. Len(longer) -> Seq(S)] : Flattens(g, Len(longer), longer) /\ FlattenSeq(longer) = g[Len(longer)]
  BY <1>1, FlattenIsLastPrefix
<1>3. g[Len(longer)] = IF Len(longer) = 1 THEN e ELSE g[Len(s)] \o e
  <2> DEFINE F(j) == IF j = 1 THEN longer[j] ELSE g[j - 1] \o longer[j]
  <2>1. g = [j \in 1 .. Len(longer) |-> F(j)]
    BY <1>2 DEF Flattens
  <2>2. g[Len(longer)] = F(Len(longer))
    <3> HIDE DEF F
    <3> QED BY <1>1, <2>1
  <2> QED BY <1>1, <2>2
<1>4. CASE s = <<>>
  <2>1. FlattenSeq(s) = <<>>
    BY <1>4 DEF FlattenSeq
  <2>2. FlattenSeq(longer) = e
    BY <1>1, <1>2, <1>3, <1>4
  <2>3. <<>> \o e = e /\ <<>> \in Seq(S)
    BY ConcatEmptySeq
  <2> QED BY <2>1, <2>2, <2>3 DEF longer
<1>5. CASE s # <<>>
  <2>1. PICK f \in [1 .. Len(s) -> Seq(S)] : Flattens(f, Len(s), s) /\ FlattenSeq(s) = f[Len(s)]
    BY <1>5, FlattenIsLastPrefix
  <2>2. Len(s) \in Nat /\ Len(longer) \in Nat /\ Len(s) \in 1 .. Len(s) /\ Len(longer) # 1
        /\ Len(s) <= Len(longer)
    BY <1>1, <1>5
  <2>3. Begins(f, Len(s), g)
    <3>1. Begins(s, Len(s), longer)
      BY <1>1 DEF Begins
    <3> QED BY <1>2, <2>1, <2>2, <3>1, FlattensUnique
  <2> QED BY <1>2, <1>3, <2>1, <2>2, <2>3 DEF longer, Begins
<1> QED BY <1>4, <1>5

\* Where the elements of flat, which is s flattened, were in s, whose elements
\* are empty or have one element.
Sources(h, flat, s, n) ==
    /\ h \in [1 .. Len(flat) -> 1 .. n]
    /\ \A i \in 1 .. Len(flat) : s[h[i]] = << flat[i] >>
    /\ \A i, j \in 1 .. Len(flat) : h[i] = h[j] => i = j

\* Each element of such a sequence, flattened, comes from a place of its own.
LEMMA FlattenOnes ==
    ASSUME NEW S, NEW N \in Nat, NEW s \in [1 .. N -> Seq(S)],
           \A i \in 1 .. N : s[i] = <<>> \/ \E a \in S : s[i] = <<a>>
    PROVE  /\ FlattenSeq(s) \in Seq(S)
           /\ \E h : Sources(h, FlattenSeq(s), s, N)
<1> DEFINE Upto(n) == [i \in 1 .. n |-> s[i]]
           Good(n) == /\ FlattenSeq(Upto(n)) \in Seq(S)
                      /\ \E h : Sources(h, FlattenSeq(Upto(n)), s, n)
           Fine == {n \in 0 .. N : Good(n)}
<1>1. Good(0)
  <2>1. Upto(0) = <<>>
    OBVIOUS
  <2>2. FlattenSeq(Upto(0)) = <<>> /\ <<>> \in Seq(S) /\ Len(<<>>) = 0
    BY <2>1, EmptySeq DEF FlattenSeq
  <2>3. Sources([i \in 1 .. 0 |-> i], <<>>, s, 0)
    BY <2>2 DEF Sources
  <2> QED BY <2>2, <2>3
<1>2. ASSUME NEW n \in 0 .. N - 1, Good(n) PROVE Good(n + 1)
  <2> DEFINE flat == FlattenSeq(Upto(n))
             e == s[n + 1]
  <2>1. PICK h : Sources(h, flat, s, n)
    BY <1>2
  <2>2. Upto(n) \in Seq(Seq(S)) /\ e \in Seq(S) /\ Upto(n + 1) = Append(Upto(n), e)
    <3>1. /\ Upto(n) \in Seq(Seq(S)) /\ Len(Upto(n)) = n /\ e \in Seq(S)
          /\ Upto(n + 1) \in Seq(Seq(S)) /\ Len(Upto(n + 1)) = n + 1
      <4>1. \A i \in 1 .. n + 1 : s[i] \in Seq(S)
        OBVIOUS
      <4> QED BY <4>1
    <3>2. \A i \in 1 .. n : Upto(n + 1)[i] = Upto(n)[i]
      OBVIOUS
    <3>3. Upto(n + 1)[n + 1] = e
      OBVIOUS
    <3> HIDE DEF Upto, e
    <3>4. /\ Append(Upto(n), e) \in Seq(Seq(S)) /\ Len(Append(Upto(n), e)) = n + 1
          /\ \A i \in 1 .. n + 1 : Append(Upto(n), e)[i] = Upto(n + 1)[i]
      BY <3>1, <3>2, <3>3, AppendProperties
    <3> QED BY <3>1, <3>4, SeqEqual
  <2>3. FlattenSeq(Upto(n + 1)) = flat \o e /\ flat \in Seq(S)
    <3> HIDE DEF Upto, e
    <3> QED BY <2>2, FlattenAppend
  <2>4. CASE e = <<>>
    <3>1. flat \o e = flat
      <4> HIDE DEF flat
      <4> QED BY <2>3, <2>4, ConcatEmptySeq
    <3>2. Sources(h, flat, s, n + 1)
      <4> HIDE DEF flat
      <4> QED BY <2>1 DEF Sources
    <3> QED BY <2>3, <3>1, <3>2
  <2>5. ASSUME NEW a \in S, e = <<a>> PROVE Good(n + 1)
    <3> DEFINE more == flat \o <<a>>
               len == Len(flat)
               g == [i \in 1 .. len + 1 |-> IF i = len + 1 THEN n + 1 ELSE h[i]]
    <3>1. /\ more \in Seq(S) /\ Len(more) = len + 1 /\ more[len + 1] = a /\ len \in Nat
          /\ \A i \in 1 .. len : more[i] = flat[i]
      <4> HIDE DEF flat
      <4> QED BY <2>3, ConcatProperties, LenProperties
    <3> HIDE DEF flat, more, len
    <3>2. g \in [1 .. len + 1 -> 1 .. n + 1]
      BY <2>1, <3>1 DEF Sources, len
    <3> HIDE DEF g
    <3>3. /\ g[len + 1] = n + 1 /\ \A i \in 1 .. len : g[i] = h[i] /\ h[i] \in 1 .. n
          /\ \A i \in 1 .. len : s[h[i]] = << flat[i] >>
      <4>1. /\ h \in [1 .. len -> 1 .. n]
            /\ \A i \in 1 .. len : s[h[i]] = << flat[i] >>
        BY <2>1 DEF Sources, len
      <4>2. g[len + 1] = n + 1 /\ \A i \in 1 .. len : g[i] = h[i]
        BY <3>1 DEF g
      <4> QED BY <4>1, <4>2
    <3>4. ASSUME NEW i \in 1 .. len + 1 PROVE s[g[i]] = << more[i] >>
      <4>1. CASE i = len + 1
        BY <2>5, <3>1, <3>3, <4>1
      <4>2. CASE i # len + 1
        BY <3>1, <3>3, <4>2
      <4> QED BY <4>1, <4>2
    <3>5. ASSUME NEW i \in 1 .. len + 1, NEW j \in 1 .. len + 1, g[i] = g[j] PROVE i = j
      <4>1. \A k \in 1 .. len + 1 : k # len + 1 => k \in 1 .. len /\ g[k] = h[k] /\ g[k] # n + 1
        BY <3>1, <3>3
      <4>2. CASE i = len + 1 \/ j = len + 1
        BY <3>3, <3>5, <4>1, <4>2
      <4>3. CASE i # len + 1 /\ j # len + 1
        BY <2>1, <3>5, <4>1, <4>3 DEF Sources, len
      <4> QED BY <4>2, <4>3
    <3>6. Sources(g, more, s, n + 1)
      BY <3>1, <3>2, <3>4, <3>5 DEF Sources
    <3>7. FlattenSeq(Upto(n + 1)) = more
      BY <2>3, <2>5 DEF more
    <3> HIDE DEF Upto
    <3> QED BY <3>1, <3>6, <3>7
  <2>6. e = <<>> \/ \E a \in S : e = <<a>>
    OBVIOUS
  <2> QED BY <2>4, <2>5, <2>6
<1>3. \A n \in 0 .. N : n \in Fine
  <2> HIDE DEF Good
  <2>1. 0 \in Fine /\ \A n \in 0 .. N - 1 : n \in Fine => n + 1 \in Fine
    BY <1>1, <1>2
  <2> HIDE DEF Fine
  <2> QED BY <2>1, UpTo
<1>4. Upto(N) = s
  OBVIOUS
<1>5. Good(N)
  <2> HIDE DEF Good
  <2> QED BY <1>3
<1> HIDE DEF Upto
<1> QED BY <1>4, <1>5

-----------------------------------------------------------------------------
\* The first n elements of s, and how long they are, flattened.
Firsts(s, n)  == [i \in 1 .. n |-> s[i]]
Bound(s, n) == Len(FlattenSeq(Firsts(s, n)))

LEMMA FirstsAppend ==
    ASSUME NEW S, NEW N \in Nat, NEW s \in [1 .. N -> Seq(S)], NEW n \in 0 .. N - 1
    PROVE  /\ Firsts(s, n) \in Seq(Seq(S)) /\ s[n + 1] \in Seq(S)
           /\ Firsts(s, n + 1) = Append(Firsts(s, n), s[n + 1])
<1> DEFINE a == Firsts(s, n)
           b == Firsts(s, n + 1)
           e == s[n + 1]
<1>1. /\ a \in Seq(Seq(S)) /\ Len(a) = n /\ e \in Seq(S)
      /\ b \in Seq(Seq(S)) /\ Len(b) = n + 1
      /\ \A i \in 1 .. n : b[i] = a[i]
      /\ b[n + 1] = e
  <2>1. \A i \in 1 .. n + 1 : s[i] \in Seq(S)
    OBVIOUS
  <2> QED BY <2>1 DEF Firsts
<1> HIDE DEF a, b, e
<1>2. /\ Append(a, e) \in Seq(Seq(S)) /\ Len(Append(a, e)) = n + 1
      /\ \A i \in 1 .. n + 1 : Append(a, e)[i] = b[i]
  BY <1>1, AppendProperties
<1>3. b = Append(a, e)
  BY <1>1, <1>2, SeqEqual
<1> QED BY <1>1, <1>3 DEF a, b, e

\* What is where in flat: the elements of s one behind the other, up to the nth.
Places(flat, s, n) ==
    \A k \in 0 .. n - 1 :
        /\ Bound(s, k) \in Nat /\ Bound(s, k) + Len(s[k + 1]) <= Bound(s, n)
        /\ \A i \in 1 .. Len(s[k + 1]) : flat[Bound(s, k) + i] = s[k + 1][i]

\* Nothing else is there.
Covers(s, n) ==
    \A p \in 1 .. Bound(s, n) : \E k \in 0 .. n - 1 : \E i \in 1 .. Len(s[k + 1]) :
        p = Bound(s, k) + i

LEMMA FlattenPlaces ==
    ASSUME NEW S, NEW N \in Nat, NEW s \in [1 .. N -> Seq(S)]
    PROVE  /\ FlattenSeq(s) \in Seq(S) /\ Len(FlattenSeq(s)) = Bound(s, N)
           /\ Bound(s, 0) = 0
           /\ \A n \in 0 .. N : Bound(s, n) \in Nat /\ Covers(s, n)
                                /\ Places(FlattenSeq(Firsts(s, n)), s, n)
           /\ \A n \in 0 .. N - 1 : Bound(s, n + 1) = Bound(s, n) + Len(s[n + 1])
           /\ Places(FlattenSeq(s), s, N) /\ Covers(s, N)
<1> DEFINE flat(n) == FlattenSeq(Firsts(s, n))
           Good(n) == /\ flat(n) \in Seq(S) /\ Bound(s, n) \in Nat
                      /\ Places(flat(n), s, n) /\ Covers(s, n)
           Fine == {n \in 0 .. N : Good(n)}
<1>1. \A n \in 0 .. N - 1 : flat(n) \in Seq(S) /\ flat(n + 1) = flat(n) \o s[n + 1]
                            /\ s[n + 1] \in Seq(S)
  BY FirstsAppend, FlattenAppend
<1>2. flat(0) = <<>> /\ Bound(s, 0) = 0
  <2>1. Firsts(s, 0) = <<>>
    BY DEF Firsts
  <2>2. FlattenSeq(<<>>) = <<>> /\ Len(<<>>) = 0
    BY DEF FlattenSeq
  <2> QED BY <2>1, <2>2 DEF Bound
<1>3. Good(0)
  <2>1. <<>> \in Seq(S)
    OBVIOUS
  <2>2. Places(flat(0), s, 0)
    <3>1. 0 .. 0 - 1 = {}
      OBVIOUS
    <3> QED BY <3>1 DEF Places
  <2>3. Covers(s, 0)
    <3>1. 1 .. Bound(s, 0) = {}
      BY <1>2
    <3> QED BY <3>1 DEF Covers
  <2>4. Bound(s, 0) \in Nat
    BY <1>2
  <2> HIDE DEF flat
  <2> QED BY <1>2, <2>1, <2>2, <2>3, <2>4
<1>4. ASSUME NEW n \in 0 .. N - 1, Good(n)
      PROVE  /\ Good(n + 1)
             /\ Bound(s, n + 1) = Bound(s, n) + Len(s[n + 1])
  <2> DEFINE a == flat(n)
             b == flat(n + 1)
             e == s[n + 1]
  <2>1. a \in Seq(S) /\ e \in Seq(S) /\ b = a \o e /\ Bound(s, n) = Len(a) /\ Bound(s, n + 1) = Len(b)
    BY <1>1 DEF Bound
  <2>2. Places(a, s, n) /\ Covers(s, n)
    BY <1>4
  <2> HIDE DEF flat, a, b, e
  <2>3. /\ b \in Seq(S) /\ Len(b) = Len(a) + Len(e) /\ Len(a) \in Nat /\ Len(e) \in Nat
        /\ Len(b) \in Nat
        /\ \A i \in 1 .. Len(a) : b[i] = a[i]
        /\ \A i \in 1 .. Len(e) : b[Len(a) + i] = e[i]
    <3>1. Len(a) \in Nat /\ Len(e) \in Nat
      BY <2>1, LenProperties
    <3>2. /\ a \o e \in Seq(S) /\ Len(a \o e) = Len(a) + Len(e)
          /\ \A i \in 1 .. Len(a) + Len(e) : (a \o e)[i] = IF i <= Len(a) THEN a[i] ELSE e[i - Len(a)]
      BY <2>1, ConcatProperties
    <3> HIDE DEF a, e
    <3>3. \A i \in 1 .. Len(a) : i \in 1 .. Len(a) + Len(e) /\ i <= Len(a)
      BY <3>1
    <3>4. \A i \in 1 .. Len(e) : /\ Len(a) + i \in 1 .. Len(a) + Len(e) /\ ~(Len(a) + i <= Len(a))
                                 /\ Len(a) + i - Len(a) = i
      BY <3>1
    <3> QED BY <2>1, <3>1, <3>2, <3>3, <3>4
  <2>4. Bound(s, n + 1) = Bound(s, n) + Len(e)
    BY <2>1, <2>3
  <2>5. ASSUME NEW k \in 0 .. n
        PROVE  /\ Bound(s, k) \in Nat /\ Bound(s, k) + Len(s[k + 1]) <= Bound(s, n + 1)
               /\ \A i \in 1 .. Len(s[k + 1]) : b[Bound(s, k) + i] = s[k + 1][i]
    <3>1. CASE k = n
      <4>1. Bound(s, k) = Len(a) /\ s[k + 1] = e
        BY <2>1, <3>1 DEF e
      <4>2. Bound(s, k) \in Nat /\ Bound(s, k) + Len(s[k + 1]) <= Bound(s, n + 1)
        BY <2>1, <2>3, <4>1
      <4>3. \A i \in 1 .. Len(e) : b[Len(a) + i] = e[i]
        BY <2>3
      <4> QED BY <4>1, <4>2, <4>3
    <3>2. CASE k # n
      <4>1. k \in 0 .. n - 1 /\ s[k + 1] \in Seq(S)
        BY <3>2
      <4> DEFINE w == s[k + 1]
      <4>2. Len(w) \in Nat
        BY <4>1, LenProperties
      <4>3. /\ Bound(s, k) \in Nat /\ Bound(s, k) + Len(w) <= Len(a)
            /\ \A i \in 1 .. Len(w) : a[Bound(s, k) + i] = w[i]
        BY <2>1, <2>2, <4>1 DEF Places
      <4> HIDE DEF w
      <4>4. \A i \in 1 .. Len(w) : Bound(s, k) + i \in 1 .. Len(a)
        BY <2>3, <4>2, <4>3
      <4>5. Bound(s, k) + Len(w) <= Bound(s, n + 1)
        BY <2>1, <2>3, <4>2, <4>3
      <4> QED BY <2>3, <4>3, <4>4, <4>5 DEF w
    <3> QED BY <3>1, <3>2
  <2>6. Places(b, s, n + 1)
    BY <2>5 DEF Places
  <2>7. ASSUME NEW p \in 1 .. Bound(s, n + 1)
        PROVE  \E k \in 0 .. n : \E i \in 1 .. Len(s[k + 1]) : p = Bound(s, k) + i
    <3>1. CASE p \in 1 .. Bound(s, n)
      BY <2>2, <3>1 DEF Covers
    <3>2. CASE p \notin 1 .. Bound(s, n)
      <4>1. p - Bound(s, n) \in 1 .. Len(e) /\ p = Bound(s, n) + (p - Bound(s, n))
        BY <2>1, <2>3, <2>4, <3>2
      <4> QED BY <4>1 DEF e
    <3> QED BY <3>1, <3>2
  <2>8. Covers(s, n + 1)
    BY <2>7 DEF Covers
  <2> QED BY <2>1, <2>3, <2>4, <2>6, <2>8 DEF b, e
<1> HIDE DEF Good, flat
<1>5. \A n \in 0 .. N : n \in Fine
  <2>1. 0 \in Fine /\ \A n \in 0 .. N - 1 : n \in Fine => n + 1 \in Fine
    BY <1>3, <1>4
  <2> HIDE DEF Fine
  <2> QED BY <2>1, UpTo
<1>6. Firsts(s, N) = s
  BY DEF Firsts
<1>7. \A n \in 0 .. N : Good(n)
  BY <1>5
<1>8. Bound(s, N) = Len(FlattenSeq(s)) /\ flat(N) = FlattenSeq(s)
  BY <1>6 DEF Bound, flat
<1>9. N \in 0 .. N
  OBVIOUS
<1> QED BY <1>2, <1>4, <1>7, <1>8, <1>9 DEF Good, flat
=============================================================================
