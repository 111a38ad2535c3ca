------------------------------- MODULE Counting -------------------------------
(***************************************************************************)
(* How many elements of a sequence are in a set, what is in a sequence and *)
(* what follows what in it, and what the operations on queues do to that:  *)
(* lemmas for proofs about requests that are under way.                    *)
(***************************************************************************)
EXTENDS SequencesExt, FiniteSetTheorems, SequenceTheorems, TLAPS

Hits(s, S) == {i \in DOMAIN s : s[i] \in S}
Count(s, S) == Cardinality(Hits(s, S))

-----------------------------------------------------------------------------
\* A count is a number, and counts something or nothing.
LEMMA CountType ==
  ASSUME NEW T, NEW s \in Seq(T), NEW S
  PROVE  /\ IsFiniteSet(Hits(s, S)) /\ Count(s, S) \in Nat
         /\ Count(s, S) > 0 <=> \E i \in DOMAIN s : s[i] \in S
<1>1. DOMAIN s = 1 .. Len(s) /\ Len(s) \in Nat OBVIOUS
<1>2. IsFiniteSet(1 .. Len(s)) BY <1>1, FS_Interval
<1>3. Hits(s, S) \in SUBSET (1 .. Len(s)) BY <1>1 DEF Hits
<1>4. IsFiniteSet(Hits(s, S)) BY <1>2, <1>3, FS_Subset
<1>5. Count(s, S) \in Nat BY <1>4, FS_CardinalityType DEF Count
<1>6. Count(s, S) = 0 <=> Hits(s, S) = {} BY <1>4, FS_EmptySet DEF Count
<1>7. Hits(s, S) = {} <=> ~ \E i \in DOMAIN s : s[i] \in S BY DEF Hits
<1>8. Count(s, S) > 0 <=> Hits(s, S) # {} BY <1>5, <1>6
<1> QED BY <1>4, <1>5, <1>7, <1>8

\* Sequences alike in what is counted have the same count.
LEMMA CountAlike ==
  ASSUME NEW T, NEW s \in Seq(T), NEW r \in Seq(T), NEW S, NEW R, Len(r) = Len(s),
         \A i \in 1 .. Len(s) : r[i] \in R <=> s[i] \in S
  PROVE  Count(r, R) = Count(s, S)
<1>1. DOMAIN s = 1 .. Len(s) /\ DOMAIN r = 1 .. Len(s) OBVIOUS
<1>2. Hits(r, R) = Hits(s, S) BY <1>1 DEF Hits
<1> QED BY <1>2 DEF Count

LEMMA CountNone ==
  ASSUME NEW T, NEW s \in Seq(T), NEW S, \A i \in 1 .. Len(s) : s[i] \notin S
  PROVE  Count(s, S) = 0
<1>1. DOMAIN s = 1 .. Len(s) OBVIOUS
<1>2. ~ (Count(s, S) > 0) /\ Count(s, S) \in Nat BY <1>1, CountType
<1> QED BY <1>2

LEMMA CountAll ==
  ASSUME NEW T, NEW s \in Seq(T), NEW S, \A i \in 1 .. Len(s) : s[i] \in S
  PROVE  Count(s, S) = Len(s)
<1>1. DOMAIN s = 1 .. Len(s) /\ Len(s) \in Nat OBVIOUS
<1>2. Hits(s, S) = 1 .. Len(s) BY <1>1 DEF Hits
<1>3. Cardinality(1 .. Len(s)) = Len(s) BY <1>1, FS_Interval
<1> QED BY <1>2, <1>3 DEF Count

LEMMA CountEmpty == ASSUME NEW S PROVE Count(<<>>, S) = 0
<1>1. Hits(<<>>, S) = {} BY DEF Hits
<1> QED BY <1>1, FS_EmptySet DEF Count

\* More is counted in a larger set.
LEMMA CountWithin ==
  ASSUME NEW T, NEW s \in Seq(T), NEW S, NEW R, R \subseteq S
  PROVE  Count(s, R) <= Count(s, S)
<1>1. IsFiniteSet(Hits(s, S)) BY CountType
<1>2. Hits(s, R) \in SUBSET Hits(s, S) BY DEF Hits
<1> QED BY <1>1, <1>2, FS_Subset DEF Count

LEMMA CountConcat ==
  ASSUME NEW T, NEW s \in Seq(T), NEW r \in Seq(T), NEW S
  PROVE  Count(s \o r, S) = Count(s, S) + Count(r, S)
<1> DEFINE q == s \o r
           B == {i \in Len(s) + 1 .. Len(s) + Len(r) : r[i - Len(s)] \in S}
           f == [i \in Hits(r, S) |-> i + Len(s)]
<1>1. /\ q \in Seq(T) /\ Len(q) = Len(s) + Len(r) /\ Len(s) \in Nat /\ Len(r) \in Nat
      /\ DOMAIN q = 1 .. Len(s) + Len(r) /\ DOMAIN s = 1 .. Len(s) /\ DOMAIN r = 1 .. Len(r)
  OBVIOUS
<1>2. /\ \A i \in 1 .. Len(s) : q[i] = s[i]
      /\ \A i \in Len(s) + 1 .. Len(s) + Len(r) : q[i] = r[i - Len(s)]
  OBVIOUS
<1> HIDE DEF q
<1>3. Hits(q, S) = Hits(s, S) \cup B
  <2>1. ASSUME NEW i \in Hits(q, S) PROVE i \in Hits(s, S) \cup B
    <3>1. i \in 1 .. Len(s) + Len(r) /\ q[i] \in S BY <1>1 DEF Hits
    <3>2. CASE i <= Len(s)
      <4>1. i \in 1 .. Len(s) BY <1>1, <3>1, <3>2
      <4> QED BY <1>1, <1>2, <3>1, <4>1 DEF Hits
    <3>3. CASE i > Len(s)
      <4>1. i \in Len(s) + 1 .. Len(s) + Len(r) BY <1>1, <3>1, <3>3
      <4> QED BY <1>2, <3>1, <4>1
    <3> QED BY <1>1, <3>1, <3>2, <3>3
  <2>2. ASSUME NEW i \in Hits(s, S) PROVE i \in Hits(q, S)
    <3>1. i \in 1 .. Len(s) /\ i \in 1 .. Len(s) + Len(r) /\ s[i] \in S BY <1>1 DEF Hits
    <3> QED BY <1>1, <1>2, <3>1 DEF Hits
  <2>3. ASSUME NEW i \in B PROVE i \in Hits(q, S)
    <3>1. i \in Len(s) + 1 .. Len(s) + Len(r) /\ r[i - Len(s)] \in S OBVIOUS
    <3>2. i \in 1 .. Len(s) + Len(r) BY <1>1, <3>1
    <3> QED BY <1>1, <1>2, <3>1, <3>2 DEF Hits
  <2> QED BY <2>1, <2>2, <2>3
<1>4. Hits(s, S) \cap B = {} BY <1>1 DEF Hits
<1>5. IsFiniteSet(Hits(s, S)) /\ IsFiniteSet(Hits(r, S)) BY CountType
<1>6. f \in Bijection(Hits(r, S), B)
  <2>1. ASSUME NEW i \in Hits(r, S) PROVE f[i] \in B
    <3>1. i \in 1 .. Len(r) /\ r[i] \in S BY <1>1 DEF Hits
    <3>2. f[i] = i + Len(s) /\ (i + Len(s)) - Len(s) = i /\ i + Len(s) \in Len(s) + 1 .. Len(s) + Len(r)
      BY <1>1, <3>1
    <3> QED BY <3>1, <3>2
  <2>2. \A i, j \in Hits(r, S) : f[i] = f[j] => i = j BY <1>1 DEF Hits
  <2>3. ASSUME NEW j \in B PROVE \E i \in Hits(r, S) : f[i] = j
    <3>1. j - Len(s) \in 1 .. Len(r) /\ r[j - Len(s)] \in S BY <1>1
    <3>2. j - Len(s) \in Hits(r, S) BY <1>1, <3>1 DEF Hits
    <3>3. f[j - Len(s)] = j BY <1>1, <3>2
    <3> QED BY <3>2, <3>3
  <2>4. f \in [Hits(r, S) -> B] BY <2>1
  <2> HIDE DEF f, B
  <2>5. DOMAIN f = Hits(r, S) BY <2>4
  <2> QED BY <2>2, <2>3, <2>4, <2>5 DEF Bijection, Injection, Surjection, IsInjective
<1>7. IsFiniteSet(B) /\ Cardinality(B) = Cardinality(Hits(r, S))
  <2> HIDE DEF f, B
  <2>1. ExistsBijection(Hits(r, S), B) BY <1>6 DEF ExistsBijection
  <2> QED BY <1>5, <2>1, FS_Bijection
<1> HIDE DEF B, f
<1>8. Cardinality(Hits(q, S)) = Cardinality(Hits(s, S)) + Cardinality(B) - Cardinality({})
  BY <1>3, <1>4, <1>5, <1>7, FS_Union
<1>9. Cardinality(Hits(s, S)) \in Nat /\ Cardinality(B) \in Nat /\ Cardinality({}) = 0
  BY <1>5, <1>7, FS_CardinalityType, FS_EmptySet
<1> QED BY <1>7, <1>8, <1>9 DEF Count, q

LEMMA CountOne ==
  ASSUME NEW x, NEW S
  PROVE  Count(<<x>>, S) = IF x \in S THEN 1 ELSE 0
<1>1. Hits(<<x>>, S) = IF x \in S THEN {1} ELSE {} BY DEF Hits
<1> QED BY <1>1, FS_EmptySet, FS_Singleton DEF Count

LEMMA CountAppend ==
  ASSUME NEW T, NEW s \in Seq(T), NEW x \in T, NEW S
  PROVE  Count(Append(s, x), S) = Count(s, S) + (IF x \in S THEN 1 ELSE 0)
<1>1. Append(s, x) = s \o <<x>> /\ <<x>> \in Seq(T) OBVIOUS
<1>2. Count(s \o <<x>>, S) = Count(s, S) + Count(<<x>>, S) BY <1>1, CountConcat
<1> QED BY <1>1, <1>2, CountOne

LEMMA CountTail ==
  ASSUME NEW T, NEW s \in Seq(T), s # <<>>, NEW S
  PROVE  Count(s, S) = Count(Tail(s), S) + (IF Head(s) \in S THEN 1 ELSE 0)
<1>1. s = <<Head(s)>> \o Tail(s) /\ <<Head(s)>> \in Seq(T) /\ Tail(s) \in Seq(T) OBVIOUS
<1>2. Count(<<Head(s)>> \o Tail(s), S) = Count(<<Head(s)>>, S) + Count(Tail(s), S)
  BY <1>1, CountConcat
<1>3. Count(<<Head(s)>>, S) = IF Head(s) \in S THEN 1 ELSE 0 BY CountOne
<1>4. Count(Tail(s), S) \in Nat BY <1>1, CountType
<1>5. Count(s, S) = Count(<<Head(s)>> \o Tail(s), S) BY <1>1
<1> QED BY <1>2, <1>3, <1>4, <1>5

LEMMA CountRemoveAt ==
  ASSUME NEW T, NEW s \in Seq(T), NEW i \in 1 .. Len(s), NEW S
  PROVE  /\ RemoveAt(s, i) \in Seq(T)
         /\ Count(s, S) = Count(RemoveAt(s, i), S) + (IF s[i] \in S THEN 1 ELSE 0)
<1> DEFINE a == SubSeq(s, 1, i - 1)
           b == SubSeq(s, i + 1, Len(s))
<1>1. a \in Seq(T) /\ b \in Seq(T) /\ <<s[i]>> \in Seq(T) OBVIOUS
<1>2. s = (a \o <<s[i]>>) \o b
  <2>1. /\ Len(a) = i - 1 /\ Len(b) = Len(s) - i /\ \A j \in 1 .. i - 1 : a[j] = s[j]
        /\ \A j \in 1 .. Len(s) - i : b[j] = s[i + j]
    OBVIOUS
  <2> DEFINE c == (a \o <<s[i]>>) \o b
  <2> HIDE DEF a, b
  <2>2. Len(a \o <<s[i]>>) = i /\ a \o <<s[i]>> \in Seq(T) BY <1>1, <2>1
  <2>3. /\ \A j \in 1 .. i - 1 : (a \o <<s[i]>>)[j] = a[j]
        /\ (a \o <<s[i]>>)[i] = s[i]
    BY <1>1, <2>1
  <2>4. c \in Seq(T) /\ Len(c) = Len(s) BY <1>1, <2>1, <2>2
  <2>5. /\ \A j \in 1 .. i : c[j] = (a \o <<s[i]>>)[j]
        /\ \A j \in i + 1 .. Len(s) : c[j] = b[j - i]
    BY <1>1, <2>1, <2>2
  <2> HIDE DEF c
  <2>6. ASSUME NEW j \in 1 .. Len(s) PROVE c[j] = s[j]
    <3>1. CASE j < i BY <2>1, <2>3, <2>5, <3>1
    <3>2. CASE j = i
      <4>1. j \in 1 .. i BY <3>2
      <4>2. c[j] = (a \o <<s[i]>>)[j] BY <2>5, <4>1
      <4> QED BY <2>3, <3>2, <4>2
    <3>3. CASE j > i
      <4>1. j - i \in 1 .. Len(s) - i /\ i + (j - i) = j /\ j \in i + 1 .. Len(s) BY <3>3
      <4>2. c[j] = b[j - i] /\ b[j - i] = s[i + (j - i)] BY <2>1, <2>5, <4>1
      <4> QED BY <4>1, <4>2
    <3> QED BY <3>1, <3>2, <3>3
  <2>7. c = s BY <2>4, <2>6
  <2> QED BY <2>7 DEF c
<1>3. RemoveAt(s, i) = a \o b BY DEF RemoveAt
<1> HIDE DEF a, b
<1>4. Count(a \o b, S) = Count(a, S) + Count(b, S) BY <1>1, CountConcat
<1>5. Count(a \o <<s[i]>>, S) = Count(a, S) + Count(<<s[i]>>, S) BY <1>1, CountConcat
<1>6. a \o <<s[i]>> \in Seq(T) /\ a \o b \in Seq(T) BY <1>1
<1>7. Count((a \o <<s[i]>>) \o b, S) = Count(a \o <<s[i]>>, S) + Count(b, S)
  BY <1>1, <1>6, CountConcat
<1>8. Count(<<s[i]>>, S) = IF s[i] \in S THEN 1 ELSE 0 BY CountOne
<1>9. Count(a, S) \in Nat /\ Count(b, S) \in Nat BY <1>1, CountType
<1>10. Count(s, S) = Count((a \o <<s[i]>>) \o b, S) BY <1>2
<1> QED BY <1>3, <1>4, <1>5, <1>6, <1>7, <1>8, <1>9, <1>10

\* The elements of a set, one after the other.
LEMMA CountSet ==
  ASSUME NEW T, NEW X, X \subseteq T, IsFiniteSet(X), NEW S
  PROVE  /\ SetToSeq(X) \in Seq(T)
         /\ \A i \in 1 .. Len(SetToSeq(X)) : SetToSeq(X)[i] \in X
         /\ Count(SetToSeq(X), S) = Cardinality(X \cap S)
<1> DEFINE n == Cardinality(X)
           s == SetToSeq(X)
<1>1. n \in Nat /\ ExistsBijection(1 .. n, X) BY FS_CardinalityType
<1>2. PICK g : g \in Bijection(1 .. n, X) BY <1>1 DEF ExistsBijection
<1>3. g \in [1 .. n -> X] /\ IsInjective(g) BY <1>2 DEF Bijection, Injection
<1>4. s \in [1 .. n -> X] /\ IsInjective(s) BY <1>3 DEF SetToSeq
<1> HIDE DEF s
<1>5. s \in Surjection(1 .. n, X)
  <2>1. s \in Injection(1 .. n, X) BY <1>4 DEF Injection
  <2>2. Cardinality(1 .. n) = n BY <1>1, FS_Interval
  <2> QED BY <2>1, <2>2, FS_Injection
<1>6. s \in Seq(X) /\ s \in Seq(T) /\ Len(s) = n /\ DOMAIN s = 1 .. n BY <1>1, <1>4
<1> DEFINE H == Hits(s, S)
           f == [i \in H |-> s[i]]
<1>7. f \in Bijection(H, X \cap S)
  <2>1. f \in [H -> X \cap S] BY <1>4, <1>6 DEF Hits
  <2>2. \A i, j \in H : f[i] = f[j] => i = j BY <1>4, <1>6 DEF Hits, IsInjective
  <2>3. ASSUME NEW x \in X \cap S PROVE \E i \in H : f[i] = x
    <3>1. PICK i \in 1 .. n : s[i] = x BY <1>5 DEF Surjection
    <3>2. i \in H BY <1>6, <3>1 DEF Hits
    <3> QED BY <3>1, <3>2
  <2> HIDE DEF f, H
  <2>4. DOMAIN f = H BY <2>1
  <2> QED BY <2>1, <2>2, <2>3, <2>4 DEF Bijection, Injection, Surjection, IsInjective
<1>8. IsFiniteSet(H) BY <1>6, CountType
<1>9. Cardinality(X \cap S) = Cardinality(H)
  <2> HIDE DEF f, H
  <2>1. ExistsBijection(H, X \cap S) BY <1>7 DEF ExistsBijection
  <2> QED BY <1>8, <2>1, FS_Bijection
<1>10. \A i \in 1 .. Len(s) : s[i] \in X BY <1>4, <1>6
<1> QED BY <1>6, <1>9, <1>10 DEF Count, s

LEMMA CountInsertAt ==
  ASSUME NEW T, NEW s \in Seq(T), NEW i \in 1 .. Len(s) + 1, NEW e \in T, NEW S
  PROVE  /\ InsertAt(s, i, e) \in Seq(T)
         /\ Count(InsertAt(s, i, e), S) = Count(s, S) + (IF e \in S THEN 1 ELSE 0)
<1>. DEFINE a == SubSeq(s, 1, i - 1)
            b == SubSeq(s, i, Len(s))
<1>1. a \in Seq(T) /\ b \in Seq(T) /\ <<e>> \in Seq(T) /\ a \o <<e>> \in Seq(T)
  OBVIOUS
<1>2. s = a \o b
  <2>. DEFINE q == a \o b
  <2>1. /\ Len(a) = i - 1 /\ Len(b) = Len(s) - (i - 1)
        /\ \A j \in 1 .. i - 1 : a[j] = s[j]
        /\ \A j \in 1 .. Len(s) - (i - 1) : b[j] = s[(i - 1) + j]
    OBVIOUS
  <2>. HIDE DEF a, b
  <2>2. q \in Seq(T) /\ Len(q) = Len(s)
    BY <1>1, <2>1
  <2>3. /\ \A j \in 1 .. i - 1 : q[j] = a[j]
        /\ \A j \in i .. Len(s) : q[j] = b[j - (i - 1)]
    BY <1>1, <2>1
  <2>. HIDE DEF q
  <2>4. ASSUME NEW j \in 1 .. Len(s) PROVE q[j] = s[j]
    <3>1. CASE j < i
      BY <2>1, <2>3, <3>1
    <3>2. CASE j >= i
      <4>1. j - (i - 1) \in 1 .. Len(s) - (i - 1) /\ (i - 1) + (j - (i - 1)) = j /\ j \in i .. Len(s)
        BY <3>2
      <4>2. q[j] = b[j - (i - 1)] /\ b[j - (i - 1)] = s[(i - 1) + (j - (i - 1))]
        BY <2>1, <2>3, <4>1
      <4>. QED  BY <4>1, <4>2
    <3>. QED  BY <3>1, <3>2
  <2>5. q = s
    BY <2>2, <2>4
  <2>. QED  BY <2>5 DEF q
<1>3. InsertAt(s, i, e) = (a \o <<e>>) \o b
  BY DEF InsertAt
<1>4. Count(<<e>>, S) = IF e \in S THEN 1 ELSE 0
  BY CountOne
<1>. HIDE DEF a, b
<1>5. /\ Count(s, S) = Count(a, S) + Count(b, S)
      /\ Count(a \o <<e>>, S) = Count(a, S) + Count(<<e>>, S)
      /\ Count((a \o <<e>>) \o b, S) = Count(a \o <<e>>, S) + Count(b, S)
  BY <1>1, <1>2, CountConcat
<1>6. Count(a, S) \in Nat /\ Count(b, S) \in Nat
  BY <1>1, CountType
<1>. QED  BY <1>1, <1>3, <1>4, <1>5, <1>6

\* What is found in one place only counts at most once.
LEMMA CountOnce ==
  ASSUME NEW T, NEW s \in Seq(T), NEW S,
         \A i, j \in DOMAIN s : s[i] \in S /\ s[j] \in S => i = j
  PROVE  Count(s, S) <= 1
<1>1. CASE \A i \in 1 .. Len(s) : s[i] \notin S
  BY <1>1, CountNone
<1>2. CASE \E i \in DOMAIN s : s[i] \in S
  <2>1. PICK i \in DOMAIN s : s[i] \in S
    BY <1>2
  <2>2. Hits(s, S) = {i}
    BY <2>1 DEF Hits
  <2>3. Cardinality({i}) = 1
    BY FS_Singleton
  <2>. QED  BY <2>2, <2>3 DEF Count
<1>. QED  BY <1>1, <1>2

-----------------------------------------------------------------------------
(* What is in a queue, and what comes after it *)

Has(s, m) == \E k \in DOMAIN s : s[k] = m

\* Every m in s has an n behind it.
Follows(s, m, n) == \A k \in DOMAIN s : s[k] = m => \E j \in DOMAIN s : j > k /\ s[j] = n

\* Where the elements of s \o r are.
LEMMA ConcatElements ==
  ASSUME NEW T, NEW s \in Seq(T), NEW r \in Seq(T)
  PROVE  /\ s \o r \in Seq(T)
         /\ DOMAIN s = 1 .. Len(s) /\ DOMAIN r = 1 .. Len(r) /\ Len(s) \in Nat /\ Len(r) \in Nat
         /\ DOMAIN (s \o r) = 1 .. Len(s) + Len(r)
         /\ \A k \in DOMAIN s : (s \o r)[k] = s[k]
         /\ \A k \in DOMAIN r : (s \o r)[Len(s) + k] = r[k]
         /\ \A k \in DOMAIN (s \o r) : k \in DOMAIN s \/ (k > Len(s) /\ k - Len(s) \in DOMAIN r /\ (s \o r)[k] = r[k - Len(s)])
OBVIOUS

LEMMA AppendConcat ==
  ASSUME NEW T, NEW s \in Seq(T), NEW r \in Seq(T), NEW x \in T
  PROVE  s \o Append(r, x) = (s \o r) \o <<x>>
<1>1. Append(r, x) = r \o <<x>> /\ <<x>> \in Seq(T)
  OBVIOUS
<1>. QED  BY <1>1, ConcatAssociative

\* What is at the head of s is at the head of s \o r.
LEMMA TailConcat ==
  ASSUME NEW T, NEW s \in Seq(T), NEW r \in Seq(T), s # <<>>
  PROVE  /\ s \o r \in Seq(T) /\ s \o r # <<>>
         /\ Head(s \o r) = Head(s) /\ Tail(s \o r) = Tail(s) \o r
<1>. DEFINE a == Tail(s \o r)
            b == Tail(s) \o r
<1>1. /\ s \o r \in Seq(T) /\ s \o r # <<>> /\ Head(s \o r) = Head(s)
      /\ a \in Seq(T) /\ b \in Seq(T) /\ Len(a) = Len(b)
  OBVIOUS
<1>2. ASSUME NEW i \in 1 .. Len(a) PROVE a[i] = b[i]
  OBVIOUS
<1>. HIDE DEF a, b
<1>3. a = b
  BY <1>1, <1>2
<1>. QED  BY <1>1, <1>3 DEF a, b

LEMMA HasConcat ==
  ASSUME NEW T, NEW s \in Seq(T), NEW r \in Seq(T), NEW m
  PROVE  Has(s \o r, m) <=> Has(s, m) \/ Has(r, m)
<1>. DEFINE q == s \o r
<1>1. /\ DOMAIN s = 1 .. Len(s) /\ DOMAIN r = 1 .. Len(r) /\ Len(s) \in Nat /\ Len(r) \in Nat
      /\ DOMAIN q = 1 .. Len(s) + Len(r)
      /\ \A k \in DOMAIN s : q[k] = s[k]
      /\ \A k \in DOMAIN r : q[Len(s) + k] = r[k]
      /\ \A k \in DOMAIN q : k \in DOMAIN s \/ (k > Len(s) /\ k - Len(s) \in DOMAIN r /\ q[k] = r[k - Len(s)])
  BY ConcatElements
<1>. HIDE DEF q
<1>2. Has(q, m) => Has(s, m) \/ Has(r, m)
  BY <1>1 DEF Has
<1>3. Has(s, m) => Has(q, m)
  BY <1>1 DEF Has
<1>4. ASSUME NEW k \in DOMAIN r, r[k] = m PROVE Has(q, m)
  <2>1. Len(s) + k \in DOMAIN q /\ q[Len(s) + k] = m
    BY <1>1, <1>4
  <2>. QED  BY <2>1 DEF Has
<1>. QED  BY <1>2, <1>3, <1>4 DEF Has, q

LEMMA HasOne == ASSUME NEW x, NEW m PROVE Has(<<x>>, m) <=> x = m
BY DEF Has

LEMMA HasAppend ==
  ASSUME NEW T, NEW s \in Seq(T), NEW x \in T, NEW m
  PROVE  Append(s, x) \in Seq(T) /\ (Has(Append(s, x), m) <=> Has(s, m) \/ x = m)
<1>1. Append(s, x) = s \o <<x>> /\ <<x>> \in Seq(T) /\ Append(s, x) \in Seq(T)
  OBVIOUS
<1>2. Has(s \o <<x>>, m) <=> Has(s, m) \/ Has(<<x>>, m)
  BY <1>1, HasConcat
<1>. QED  BY <1>1, <1>2, HasOne

LEMMA HasTail ==
  ASSUME NEW T, NEW s \in Seq(T), s # <<>>, NEW m
  PROVE  /\ Tail(s) \in Seq(T) /\ Head(s) \in T
         /\ Has(s, m) <=> Head(s) = m \/ Has(Tail(s), m)
<1>1. s = <<Head(s)>> \o Tail(s) /\ <<Head(s)>> \in Seq(T) /\ Tail(s) \in Seq(T) /\ Head(s) \in T
  OBVIOUS
<1>2. Has(<<Head(s)>> \o Tail(s), m) <=> Has(<<Head(s)>>, m) \/ Has(Tail(s), m)
  BY <1>1, HasConcat
<1>. QED  BY <1>1, <1>2, HasOne

LEMMA HasRemoveAt ==
  ASSUME NEW T, NEW s \in Seq(T), NEW i \in 1 .. Len(s), NEW m
  PROVE  Has(s, m) <=> s[i] = m \/ Has(RemoveAt(s, i), m)
<1>1. RemoveAt(s, i) \in Seq(T)
  BY CountRemoveAt
<1>2. Count(s, {m}) = Count(RemoveAt(s, i), {m}) + (IF s[i] \in {m} THEN 1 ELSE 0)
  BY CountRemoveAt
<1>3. /\ Count(s, {m}) \in Nat /\ Count(RemoveAt(s, i), {m}) \in Nat
      /\ Count(s, {m}) > 0 <=> Has(s, m)
      /\ Count(RemoveAt(s, i), {m}) > 0 <=> Has(RemoveAt(s, i), m)
  BY <1>1, CountType DEF Has
<1>. QED  BY <1>2, <1>3

LEMMA HasInsertAt ==
  ASSUME NEW T, NEW s \in Seq(T), NEW i \in 1 .. Len(s) + 1, NEW e \in T, NEW m
  PROVE  Has(InsertAt(s, i, e), m) <=> e = m \/ Has(s, m)
<1>1. InsertAt(s, i, e) \in Seq(T)
  BY CountInsertAt
<1>2. Count(InsertAt(s, i, e), {m}) = Count(s, {m}) + (IF e \in {m} THEN 1 ELSE 0)
  BY CountInsertAt
<1>3. /\ Count(s, {m}) \in Nat /\ Count(InsertAt(s, i, e), {m}) \in Nat
      /\ Count(s, {m}) > 0 <=> Has(s, m)
      /\ Count(InsertAt(s, i, e), {m}) > 0 <=> Has(InsertAt(s, i, e), m)
  BY <1>1, CountType DEF Has
<1>. QED  BY <1>2, <1>3

LEMMA FollowsConcat ==
  ASSUME NEW T, NEW s \in Seq(T), NEW r \in Seq(T), NEW m, NEW n,
         Follows(s, m, n) \/ Has(r, n), Follows(r, m, n)
  PROVE  Follows(s \o r, m, n)
<1>. DEFINE q == s \o r
<1>1. /\ DOMAIN s = 1 .. Len(s) /\ DOMAIN r = 1 .. Len(r) /\ Len(s) \in Nat /\ Len(r) \in Nat
      /\ DOMAIN q = 1 .. Len(s) + Len(r)
      /\ \A k \in DOMAIN s : q[k] = s[k]
      /\ \A k \in DOMAIN r : q[Len(s) + k] = r[k]
      /\ \A k \in DOMAIN q : k \in DOMAIN s \/ (k > Len(s) /\ k - Len(s) \in DOMAIN r /\ q[k] = r[k - Len(s)])
  BY ConcatElements
<1>. HIDE DEF q
<1>2. ASSUME NEW k \in DOMAIN q, q[k] = m
      PROVE  \E j \in DOMAIN q : j > k /\ q[j] = n
  <2>1. CASE k \in DOMAIN s /\ Follows(s, m, n)
    BY <1>1, <1>2, <2>1 DEF Follows
  <2>2. CASE k \in DOMAIN s /\ Has(r, n)
    <3>1. PICK j \in DOMAIN r : r[j] = n
      BY <2>2 DEF Has
    <3>2. Len(s) + j \in DOMAIN q /\ Len(s) + j > k /\ q[Len(s) + j] = n
      BY <1>1, <2>2, <3>1
    <3>. QED  BY <3>2
  <2>3. CASE k \notin DOMAIN s
    <3>1. k - Len(s) \in DOMAIN r /\ r[k - Len(s)] = m
      BY <1>1, <1>2, <2>3
    <3>2. PICK j \in DOMAIN r : j > k - Len(s) /\ r[j] = n
      BY <3>1 DEF Follows
    <3>3. Len(s) + j \in DOMAIN q /\ Len(s) + j > k /\ q[Len(s) + j] = n
      BY <1>1, <3>2
    <3>. QED  BY <3>3
  <2>. QED  BY <2>1, <2>2, <2>3
<1>. QED  BY <1>2 DEF Follows, q

LEMMA FollowsTail ==
  ASSUME NEW T, NEW s \in Seq(T), s # <<>>, NEW m, NEW n, Follows(s, m, n)
  PROVE  Follows(Tail(s), m, n) /\ (Head(s) = m => Has(Tail(s), n))
<1>. DEFINE t == Tail(s)
<1>1. /\ DOMAIN s = 1 .. Len(s) /\ Len(s) \in Nat /\ 1 \in DOMAIN s /\ s[1] = Head(s)
      /\ DOMAIN t = 1 .. Len(s) - 1
      /\ \A k \in DOMAIN t : t[k] = s[k + 1]
  OBVIOUS
<1>. HIDE DEF t
<1>2. ASSUME NEW k \in DOMAIN s, k > 1 PROVE k - 1 \in DOMAIN t /\ t[k - 1] = s[k]
  BY <1>1, <1>2
<1>3. ASSUME NEW k \in DOMAIN t, t[k] = m
      PROVE  \E j \in DOMAIN t : j > k /\ t[j] = n
  <2>1. k + 1 \in DOMAIN s /\ s[k + 1] = m
    BY <1>1, <1>3
  <2>2. PICK j \in DOMAIN s : j > k + 1 /\ s[j] = n
    BY <2>1 DEF Follows
  <2>3. j > 1 /\ j - 1 > k
    BY <1>1, <2>2
  <2>. QED  BY <1>2, <2>2, <2>3
<1>4. ASSUME Head(s) = m PROVE Has(t, n)
  <2>1. PICK j \in DOMAIN s : j > 1 /\ s[j] = n
    BY <1>1, <1>4 DEF Follows
  <2>. QED  BY <1>2, <2>1 DEF Has
<1>. QED  BY <1>3, <1>4 DEF Follows, t

\* Where nothing is to be followed.
LEMMA FollowsNone ==
  ASSUME NEW s, NEW m, NEW n, ~Has(s, m)
  PROVE  Follows(s, m, n)
BY DEF Has, Follows

\* Of more than one, something is left.
LEMMA TailNotEmpty ==
  ASSUME NEW T, NEW s \in Seq(T), Len(s) > 1
  PROVE  Tail(s) # <<>>
<1> DEFINE t == Tail(s)
<1>1. s # <<>> /\ Len(s) \in Nat
  OBVIOUS
<1>2. Len(t) = Len(s) - 1
  BY <1>1, HeadTailProperties
<1>3. Len(t) # 0
  BY <1>1, <1>2
<1>4. Len(<<>>) = 0
  BY EmptySeq
<1>5. t = <<>> => Len(t) = Len(<<>>)
  OBVIOUS
<1> HIDE DEF t
<1>6. t # <<>>
  BY <1>3, <1>4, <1>5
<1>. QED  BY <1>6 DEF t

\* A set written as a sequence, in some order.
LEMMA Enumerated ==
  ASSUME NEW X, IsFiniteSet(X), NEW s \in SetToSeqs(X)
  PROVE  /\ s \in Seq(X)
         /\ \A i, j \in DOMAIN s : s[i] = s[j] => i = j
         /\ \A x : Has(s, x) <=> x \in X
<1>. DEFINE n == Cardinality(X)
<1>1. n \in Nat
  BY FS_CardinalityType
<1>2. s \in [1 .. n -> X] /\ \A i, j \in 1 .. n : i # j => s[i] # s[j]
  BY DEF SetToSeqs
<1>. HIDE DEF n
<1>3. s \in Seq(X) /\ DOMAIN s = 1 .. n
  BY <1>1, <1>2
<1>4. s \in Surjection(1 .. n, X)
  <2>1. s \in Injection(1 .. n, X)
    BY <1>2 DEF Injection, IsInjective
  <2>2. Cardinality(1 .. n) = n
    BY <1>1, FS_Interval
  <2>. QED  BY <2>1, <2>2, FS_Injection DEF n
<1>5. \A x : Has(s, x) <=> x \in X
  BY <1>2, <1>3, <1>4 DEF Has, Surjection
<1>. QED  BY <1>2, <1>3, <1>5
=============================================================================
