----------------------------- MODULE ListsProofs -----------------------------
(***************************************************************************)
(* Facts about lists that the proofs of the pages need.  What a filter     *)
(* leaves of a list is a recursive function, and the facts about it are    *)
(* got by the least number that would be an exception.                     *)
(***************************************************************************)
EXTENDS Lists, WellFoundedInduction, FiniteSetTheorems, TLAPS

\* A set of numbers has a least one: induction is by the least number that is an exception.
LEMMA LeastNumber ==
    ASSUME NEW T, T \subseteq Nat, T # {}
    PROVE  \E m \in T : \A n \in T : m <= n
<1>1. PICK m \in T : \A y \in T : ~ (<<y, m>> \in OpToRel(<, Nat))
  BY WFMin, NatLessThanWellFounded
<1>2. \A y \in T : ~ (y < m)
  BY <1>1 DEF OpToRel
<1> QED
  BY <1>2

\* What is left of the first n elements.
IsUpTo(s, S, f, m) ==
    f = [n \in 0 .. m |-> IF n = 0 THEN <<>>
                          ELSE IF s[n] \in S THEN Append(f[n - 1], s[n]) ELSE f[n - 1]]

\* There is a function that says what is left of the first n elements.
LEMMA UpToExists ==
    ASSUME NEW s, NEW S, NEW m \in Nat
    PROVE  \E f : IsUpTo(s, S, f, m)
<1> DEFINE Exceptions == {n \in Nat : ~ \E f : IsUpTo(s, S, f, n)}
<1> SUFFICES ASSUME Exceptions # {}
             PROVE  FALSE
  OBVIOUS
<1>1. PICK n \in Exceptions : \A k \in Exceptions : n <= k
  BY LeastNumber
<1>2. n # 0
  <2>1. IsUpTo(s, S, [k \in 0 .. 0 |-> <<>>], 0)
    BY DEF IsUpTo
  <2> QED
    BY <2>1
<1>3. PICK f : IsUpTo(s, S, f, n - 1)
  <2>1. n - 1 \in Nat /\ n - 1 \notin Exceptions
    BY <1>1, <1>2
  <2> QED
    BY <2>1
<1> DEFINE g == [k \in 0 .. n |-> IF k = n THEN IF s[n] \in S THEN Append(f[n - 1], s[n]) ELSE f[n - 1] ELSE f[k]]
<1>4. IsUpTo(s, S, g, n)
  <2>1. n \in Nat
    OBVIOUS
  <2>2. \A k \in 0 .. n : g[k] = IF k = 0 THEN <<>>
                                 ELSE IF s[k] \in S THEN Append(g[k - 1], s[k]) ELSE g[k - 1]
    <3> TAKE k \in 0 .. n
    <3>1. CASE k = n
      BY <1>2, <2>1, <3>1
    <3>2. CASE k # n
      <4>1. k \in 0 .. n - 1 /\ (k # 0 => k - 1 \in 0 .. n - 1 /\ k - 1 # n)
        BY <2>1, <3>2
      <4>2. f[k] = IF k = 0 THEN <<>>
                   ELSE IF s[k] \in S THEN Append(f[k - 1], s[k]) ELSE f[k - 1]
        BY <1>3, <4>1 DEF IsUpTo
      <4>3. g[k] = f[k] /\ (k # 0 => g[k - 1] = f[k - 1])
        BY <2>1, <3>2, <4>1
      <4> HIDE DEF g
      <4> QED
        BY <4>2, <4>3
    <3> QED
      BY <3>1, <3>2
  <2> HIDE DEF g
  <2>3. g = [k \in 0 .. n |-> g[k]]
    BY DEF g
  <2> QED
    BY <2>2, <2>3 DEF IsUpTo
<1> QED
  BY <1>4

\* What is left of the whole list is what that function says at its length.
LEMMA UpTo ==
    ASSUME NEW s, NEW S, Len(s) \in Nat
    PROVE  \E f : IsUpTo(s, S, f, Len(s)) /\ Within(s, S) = f[Len(s)]
<1> DEFINE f == CHOOSE f : f = [n \in 0 .. Len(s) |-> IF n = 0 THEN <<>>
                          ELSE IF s[n] \in S THEN Append(f[n - 1], s[n]) ELSE f[n - 1]]
<1>1. IsUpTo(s, S, f, Len(s))
  <2>1. \E h : h = [n \in 0 .. Len(s) |-> IF n = 0 THEN <<>>
                          ELSE IF s[n] \in S THEN Append(h[n - 1], s[n]) ELSE h[n - 1]]
    <3>1. PICK h : IsUpTo(s, S, h, Len(s))
      BY UpToExists
    <3> QED
      BY <3>1 DEF IsUpTo
  <2>2. f = [n \in 0 .. Len(s) |-> IF n = 0 THEN <<>>
                          ELSE IF s[n] \in S THEN Append(f[n - 1], s[n]) ELSE f[n - 1]]
    BY <2>1
  <2> QED
    BY <2>2 DEF IsUpTo
<1>2. Within(s, S) = f[Len(s)]
  BY DEF Within
<1> QED
  BY <1>1, <1>2

\* The list w is what S leaves of the first n elements of s, and h says where each was.
Places(s, S, n, w, h) ==
    /\ h \in [1 .. Len(w) -> 1 .. n]
    /\ \A k \in 1 .. Len(w) : w[k] = s[h[k]] /\ s[h[k]] \in S
    /\ \A j, k \in 1 .. Len(w) : j < k => h[j] < h[k]
    /\ \A i \in 1 .. n : s[i] \in S => \E k \in 1 .. Len(w) : h[k] = i

\* What f leaves of the first n elements is a list of them, each at its place.
IsPlaced(A, s, S, f, n) == f[n] \in Seq(A) /\ \E h : Places(s, S, n, f[n], h)

\* One more element is placed after the ones there were, or is left out.
LEMMA PlacesGrow ==
    ASSUME NEW A, NEW s \in Seq(A), NEW S, NEW n \in Nat, n + 1 \in 1 .. Len(s),
           NEW f, IsUpTo(s, S, f, Len(s)), IsPlaced(A, s, S, f, n)
    PROVE  IsPlaced(A, s, S, f, n + 1)
<1> DEFINE w == f[n]
<1>a. PICK h : w \in Seq(A) /\ Places(s, S, n, w, h)
  BY DEF IsPlaced
<1>b. f[n + 1] = IF s[n + 1] \in S THEN Append(w, s[n + 1]) ELSE w
  <2>1. n + 1 \in 0 .. Len(s) /\ n + 1 # 0 /\ (n + 1) - 1 = n
    OBVIOUS
  <2> QED
    BY <2>1 DEF IsUpTo
<1> HIDE DEF w
<1>c. SUFFICES \E v \in Seq(A) : \E g : /\ v = IF s[n + 1] \in S THEN Append(w, s[n + 1]) ELSE w
                                        /\ Places(s, S, n + 1, v, g)
  BY <1>b DEF IsPlaced
<1>1. CASE s[n + 1] \notin S
  <2>1. Places(s, S, n + 1, w, h)
    BY <1>1, <1>a DEF Places
  <2> QED
    BY <1>1, <1>a, <2>1
<1>2. CASE s[n + 1] \in S
  <2> DEFINE v == Append(w, s[n + 1])
             g == [k \in 1 .. Len(v) |-> IF k = Len(v) THEN n + 1 ELSE h[k]]
  <2>1. /\ v \in Seq(A) /\ Len(v) = Len(w) + 1 /\ v[Len(v)] = s[n + 1]
        /\ \A k \in 1 .. Len(w) : v[k] = w[k]
    BY <1>a
  <2>2. g \in [1 .. Len(v) -> 1 .. n + 1]
    BY <1>a, <2>1 DEF Places
  <2> HIDE DEF v
  <2>3. g[Len(v)] = n + 1 /\ \A k \in 1 .. Len(w) : g[k] = h[k] /\ h[k] \in 1 .. n
    BY <1>a, <2>1 DEF Places
  <2> HIDE DEF g
  <2>4. \A k \in 1 .. Len(v) : k = Len(v) \/ k \in 1 .. Len(w)
    BY <1>a, <2>1
  <2>5. \A k \in 1 .. Len(v) : v[k] = s[g[k]] /\ s[g[k]] \in S
    BY <1>2, <1>a, <2>1, <2>3, <2>4 DEF Places
  <2>6. \A j, k \in 1 .. Len(v) : j < k => g[j] < g[k]
    <3> SUFFICES ASSUME NEW j \in 1 .. Len(v), NEW k \in 1 .. Len(v), j < k
                 PROVE  g[j] < g[k]
      OBVIOUS
    <3>1. j \in 1 .. Len(w) /\ g[j] = h[j] /\ h[j] \in 1 .. n
      <4>1. j # Len(v)
        BY <1>a, <2>1
      <4> QED
        BY <2>3, <2>4, <4>1
    <3>2. CASE k = Len(v)
      BY <2>3, <3>1, <3>2
    <3>3. CASE k \in 1 .. Len(w)
      <4>1. h[j] < h[k] /\ g[k] = h[k]
        BY <1>a, <2>3, <3>1, <3>3 DEF Places
      <4> QED
        BY <3>1, <4>1
    <3> QED
      BY <2>4, <3>2, <3>3
  <2>7. \A i \in 1 .. n + 1 : s[i] \in S => \E k \in 1 .. Len(v) : g[k] = i
    <3> TAKE i \in 1 .. n + 1
    <3> HAVE s[i] \in S
    <3>1. CASE i = n + 1
      BY <2>1, <2>3, <3>1
    <3>2. CASE i \in 1 .. n
      <4>1. PICK k \in 1 .. Len(w) : h[k] = i
        BY <1>a, <3>2 DEF Places
      <4> QED
        BY <2>1, <2>3, <4>1
    <3> QED
      BY <3>1, <3>2
  <2>8. Places(s, S, n + 1, v, g)
    BY <2>2, <2>5, <2>6, <2>7 DEF Places
  <2> QED
    BY <1>2, <2>1, <2>8 DEF v
<1> QED
  BY <1>1, <1>2

\* What is left of a list is elements of it, each at a place of its own.
LEMMA WithinPlaces ==
    ASSUME NEW A, NEW s \in Seq(A), NEW S
    PROVE  Within(s, S) \in Seq(A) /\ \E h : Places(s, S, Len(s), Within(s, S), h)
<1>1. PICK f : IsUpTo(s, S, f, Len(s)) /\ Within(s, S) = f[Len(s)]
  BY UpTo
<1> DEFINE Exceptions == {n \in 0 .. Len(s) : ~ IsPlaced(A, s, S, f, n)}
<1>2. IsPlaced(A, s, S, f, 0)
  <2>1. f[0] = <<>>
    BY <1>1 DEF IsUpTo
  <2>2. Places(s, S, 0, <<>>, <<>>)
    BY DEF Places
  <2> QED
    BY <2>1, <2>2 DEF IsPlaced
<1>3. ASSUME Exceptions # {}
      PROVE  FALSE
  <2>1. Exceptions \subseteq Nat
    OBVIOUS
  <2> HIDE DEF Exceptions
  <2>2. PICK n \in Exceptions : \A k \in Exceptions : n <= k
    BY <1>3, <2>1, LeastNumber
  <2>3. n \in 1 .. Len(s)
    BY <1>2, <2>2 DEF Exceptions
  <2>4. IsPlaced(A, s, S, f, n - 1)
    BY <2>2, <2>3 DEF Exceptions
  <2>5. IsPlaced(A, s, S, f, (n - 1) + 1)
    BY <1>1, <2>3, <2>4, PlacesGrow
  <2> QED
    BY <2>2, <2>3, <2>5 DEF Exceptions
<1>4. IsPlaced(A, s, S, f, Len(s))
  BY <1>3
<1> QED
  BY <1>1, <1>4 DEF IsPlaced

\* What a list is left of, as its users cite it: elements of it in their order, every one that
\* is in S, and no more of them than there were.
LEMMA WithinTheList ==
    ASSUME NEW A, NEW s \in Seq(A), NEW S
    PROVE  /\ Within(s, S) \in Seq(A) /\ Len(Within(s, S)) \in Nat /\ Len(Within(s, S)) <= Len(s)
           /\ \E h \in [1 .. Len(Within(s, S)) -> 1 .. Len(s)] :
                 /\ \A k \in 1 .. Len(Within(s, S)) : Within(s, S)[k] = s[h[k]] /\ s[h[k]] \in S
                 /\ \A j, k \in 1 .. Len(Within(s, S)) : j < k => h[j] < h[k]
                 /\ \A i \in 1 .. Len(s) : s[i] \in S => \E k \in 1 .. Len(Within(s, S)) : h[k] = i
<1> DEFINE w == Within(s, S)
<1>1. w \in Seq(A) /\ \E h : Places(s, S, Len(s), w, h)
  BY WithinPlaces
<1> HIDE DEF w
<1>2. PICK h : /\ h \in [1 .. Len(w) -> 1 .. Len(s)]
               /\ \A k \in 1 .. Len(w) : w[k] = s[h[k]] /\ s[h[k]] \in S
               /\ \A j, k \in 1 .. Len(w) : j < k => h[j] < h[k]
               /\ \A i \in 1 .. Len(s) : s[i] \in S => \E k \in 1 .. Len(w) : h[k] = i
  BY <1>1 DEF Places
<1>3. Len(w) \in Nat /\ Len(s) \in Nat /\ \A k \in 1 .. Len(w) : h[k] \in 1 .. Len(s)
  BY <1>1, <1>2
<1> DEFINE Low == {k \in 1 .. Len(w) : h[k] < k}
<1>4. ASSUME Low # {}
      PROVE  FALSE
  <2>1. Low \subseteq Nat
    BY <1>3
  <2> HIDE DEF Low
  <2>2. PICK m \in Low : \A n \in Low : m <= n
    BY <1>4, <2>1, LeastNumber
  <2>3. m \in 1 .. Len(w) /\ h[m] < m /\ m # 1
    BY <1>3, <2>2 DEF Low
  <2>4. m - 1 \in 1 .. Len(w) /\ m - 1 < m /\ h[m - 1] >= m - 1
    BY <1>3, <2>1, <2>2, <2>3 DEF Low
  <2>5. h[m - 1] < h[m]
    BY <1>2, <2>3, <2>4
  <2> QED
    BY <1>3, <2>3, <2>4, <2>5
<1>5. Len(w) <= Len(s)
  <2>1. CASE Len(w) = 0
    BY <1>3, <2>1
  <2>2. CASE Len(w) # 0
    <3>1. Len(w) \in 1 .. Len(w) /\ Len(w) \notin Low
      BY <1>3, <1>4, <2>2
    <3>2. h[Len(w)] >= Len(w) /\ h[Len(w)] \in 1 .. Len(s)
      BY <1>3, <3>1
    <3> QED
      BY <1>3, <3>2
  <2> QED
    BY <2>1, <2>2
<1> QED
  BY <1>1, <1>2, <1>3, <1>5 DEF w

\* A list with nothing in it.
LEMMA NothingIn ==
    ASSUME NEW s, s = <<>>
    PROVE  Len(s) = 0
OBVIOUS

\* The whole of a list is the list.
LEMMA TheWholeList ==
    ASSUME NEW A, NEW s \in Seq(A)
    PROVE  SubSeq(s, 1, Len(s)) = s
OBVIOUS

\* A list with one more element, and where it is.
LEMMA Appended ==
    ASSUME NEW A, NEW s \in Seq(A), NEW e \in A
    PROVE  /\ Append(s, e) \in Seq(A) /\ Len(Append(s, e)) = Len(s) + 1
           /\ Append(s, e)[Len(s) + 1] = e /\ \A i \in 1 .. Len(s) : Append(s, e)[i] = s[i]
OBVIOUS

\* The places of a list, and what is at them.
LEMMA ElementsOf ==
    ASSUME NEW A, NEW s \in Seq(A)
    PROVE  Len(s) \in Nat /\ DOMAIN s = 1 .. Len(s) /\ \A i \in 1 .. Len(s) : s[i] \in A
OBVIOUS

\* A list of length nought has nothing in it.
LEMMA NothingLeft ==
    ASSUME NEW A, NEW s \in Seq(A), Len(s) = 0
    PROVE  s = <<>>
OBVIOUS

\* A list of at most one that has something in it has one thing.
LEMMA OneIn ==
    ASSUME NEW A, NEW s \in Seq(A), Len(s) \in 0 .. 1, s # <<>>
    PROVE  Len(s) = 1 /\ s[1] \in A /\ DOMAIN s = {1} /\ s = <<s[1]>>
OBVIOUS

\* What a list holds last is last in what is left of it, if it is left.
LEMMA LastKept ==
    ASSUME NEW A, NEW s \in Seq(A), NEW S, Len(s) > 0, s[Len(s)] \in S
    PROVE  Len(Within(s, S)) > 0 /\ Within(s, S)[Len(Within(s, S))] = s[Len(s)]
<1> DEFINE w == Within(s, S)
<1>1. PICK h \in [1 .. Len(w) -> 1 .. Len(s)] :
         /\ \A k \in 1 .. Len(w) : w[k] = s[h[k]] /\ s[h[k]] \in S
         /\ \A j, k \in 1 .. Len(w) : j < k => h[j] < h[k]
         /\ \A j \in 1 .. Len(s) : s[j] \in S => \E k \in 1 .. Len(w) : h[k] = j
  BY WithinTheList
<1>2. Len(w) \in Nat /\ Len(s) \in Nat
  BY WithinTheList
<1> HIDE DEF w
<1>3. PICK k \in 1 .. Len(w) : h[k] = Len(s)
  BY <1>1, <1>2
<1>4. ASSUME k < Len(w)
      PROVE  FALSE
  <2>1. Len(w) \in 1 .. Len(w)
    BY <1>2, <1>3
  <2>2. h[k] < h[Len(w)] /\ h[Len(w)] \in 1 .. Len(s)
    BY <1>1, <1>4, <2>1
  <2> QED
    BY <1>2, <1>3, <2>2
<1>5. k = Len(w)
  BY <1>2, <1>3, <1>4
<1>6. w[Len(w)] = s[Len(s)]
  BY <1>1, <1>3, <1>5
<1> QED
  BY <1>2, <1>3, <1>6 DEF w

\* A list of some is a list of more.
LEMMA ListOfMore ==
    ASSUME NEW A, NEW B, A \subseteq B, NEW s \in Seq(A)
    PROVE  s \in Seq(B)
OBVIOUS

\* A list that holds nothing twice is as long as what it holds is many.
LEMMA DistinctAreCounted ==
    ASSUME NEW A, NEW s \in Seq(A), \A i, j \in 1 .. Len(s) : s[i] = s[j] => i = j
    PROVE  IsFiniteSet({s[i] : i \in DOMAIN s}) /\ Cardinality({s[i] : i \in DOMAIN s}) = Len(s)
<1> DEFINE n == Len(s)
           R == {s[i] : i \in DOMAIN s}
<1>1. n \in Nat /\ s \in [1 .. n -> R]
  BY ElementsOf
<1>2. \A r \in R : \E i \in 1 .. n : s[i] = r
  BY ElementsOf
<1>3. ExistsBijection(1 .. n, R)
  <2> HIDE DEF R
  <2>1. s \in Injection(1 .. n, R) /\ s \in Surjection(1 .. n, R)
    BY <1>1, <1>2 DEF Injection, Surjection, IsInjective
  <2> QED
    BY <2>1 DEF ExistsBijection, Bijection
<1> HIDE DEF R
<1>4. IsFiniteSet(R) /\ Cardinality(R) = n
  BY <1>1, <1>3, FS_NatBijection, FS_CountingElements
<1> QED
  BY <1>4 DEF R

\* What is left of such a list holds nothing twice.
LEMMA DistinctAreLeft ==
    ASSUME NEW A, NEW s \in Seq(A), NEW S, \A i, j \in 1 .. Len(s) : s[i] = s[j] => i = j
    PROVE  \A i, j \in 1 .. Len(Within(s, S)) : Within(s, S)[i] = Within(s, S)[j] => i = j
<1> DEFINE w == Within(s, S)
<1>1. PICK h \in [1 .. Len(w) -> 1 .. Len(s)] :
         /\ \A k \in 1 .. Len(w) : w[k] = s[h[k]] /\ s[h[k]] \in S
         /\ \A j, k \in 1 .. Len(w) : j < k => h[j] < h[k]
  BY WithinTheList
<1>2. Len(w) \in Nat /\ Len(s) \in Nat
  BY WithinTheList
<1> HIDE DEF w
<1>3. ASSUME NEW i \in 1 .. Len(w), NEW j \in 1 .. Len(w), w[i] = w[j]
      PROVE  i = j
  <2>1. h[i] = h[j] /\ h[i] \in 1 .. Len(s)
    BY <1>1, <1>3
  <2>2. ~(i < j) /\ ~(j < i)
    BY <1>1, <1>2, <2>1
  <2> QED
    BY <1>2, <2>2
<1> QED
  BY <1>3 DEF w

\* Nor does one that something new is put at the end of.
LEMMA DistinctWithOneMore ==
    ASSUME NEW A, NEW s \in Seq(A), NEW e \in A, \A i \in 1 .. Len(s) : s[i] # e,
           \A i, j \in 1 .. Len(s) : s[i] = s[j] => i = j
    PROVE  \A i, j \in 1 .. Len(Append(s, e)) : Append(s, e)[i] = Append(s, e)[j] => i = j
<1>1. /\ Len(Append(s, e)) = Len(s) + 1 /\ Append(s, e)[Len(s) + 1] = e /\ Len(s) \in Nat
      /\ \A i \in 1 .. Len(s) : Append(s, e)[i] = s[i]
  BY Appended, ElementsOf
<1>2. ASSUME NEW i \in 1 .. Len(s) + 1, NEW j \in 1 .. Len(s) + 1, Append(s, e)[i] = Append(s, e)[j]
      PROVE  i = j
  <2>1. CASE i \in 1 .. Len(s) /\ j \in 1 .. Len(s)
    BY <1>1, <1>2, <2>1
  <2>2. CASE i = Len(s) + 1 /\ j \in 1 .. Len(s)
    BY <1>1, <1>2, <2>2
  <2>3. CASE j = Len(s) + 1 /\ i \in 1 .. Len(s)
    BY <1>1, <1>2, <2>3
  <2> QED
    BY <1>1, <2>1, <2>2, <2>3
<1> QED
  BY <1>1, <1>2
=============================================================================
