---------------------------- MODULE ListingLemmas ----------------------------
(* Facts about the sequences of Listings. *)
EXTENDS Listings, Integers, FiniteSetTheorems, WellFoundedInduction, TLAPS

\* Appending to the back adds one element (push_back, Vec::push).
LEMMA AppendFacts ==
    ASSUME NEW S, NEW s \in Seq(S), NEW e \in S
    PROVE  /\ Append(s, e) \in Seq(S)
           /\ Elements(Append(s, e)) = Elements(s) \cup {e}
           /\ NoRepeats(s) /\ e \notin Elements(s) => NoRepeats(Append(s, e))
  BY DEF Elements, NoRepeats

\* Removing position i of a sequence without repeats removes one element.
LEMMA WithoutFacts ==
    ASSUME NEW S, NEW s \in Seq(S), NEW i \in DOMAIN s, NoRepeats(s)
    PROVE  /\ Without(s, i) \in Seq(S)
           /\ Elements(Without(s, i)) = Elements(s) \ {s[i]}
           /\ NoRepeats(Without(s, i))
  <1> DEFINE w == Without(s, i)
  <1>1. /\ Len(s) \in Nat
        /\ DOMAIN s = 1 .. Len(s)
        /\ \A k \in 1 .. Len(s) : s[k] \in S
    OBVIOUS
  <1>2. /\ w = [k \in 1 .. Len(s) - 1 |-> IF k < i THEN s[k] ELSE s[k + 1]]
        /\ DOMAIN w = 1 .. Len(s) - 1
    BY DEF Without
  <1>3. \A k \in 1 .. Len(s) - 1 : w[k] = IF k < i THEN s[k] ELSE s[k + 1]
    BY <1>2
  <1>4. w \in Seq(S)
    <2>1. w \in [1 .. Len(s) - 1 -> S]
      BY <1>1, <1>2, <1>3
    <2>2. Len(s) - 1 \in Nat
      BY <1>1
    <2> QED
      BY <2>1, <2>2
  <1>5. Elements(w) = Elements(s) \ {s[i]}
    <2>1. ASSUME NEW x \in Elements(w)
          PROVE  x \in Elements(s) \ {s[i]}
      <3>1. PICK k \in 1 .. Len(s) - 1 : x = w[k]
        BY <1>2 DEF Elements
      <3>2. CASE k < i
        BY <3>1, <3>2, <1>1, <1>3 DEF Elements, NoRepeats
      <3>3. CASE ~(k < i)
        BY <3>1, <3>3, <1>1, <1>3 DEF Elements, NoRepeats
      <3> QED
        BY <3>2, <3>3
    <2>2. ASSUME NEW x \in Elements(s) \ {s[i]}
          PROVE  x \in Elements(w)
      <3>1. PICK k \in 1 .. Len(s) : x = s[k] /\ k # i
        BY <1>1 DEF Elements
      <3>2. CASE k < i
        <4>1. k \in 1 .. Len(s) - 1 /\ w[k] = x
          BY <3>1, <3>2, <1>1, <1>3
        <4> QED
          BY <4>1, <1>2 DEF Elements
      <3>3. CASE ~(k < i)
        <4>1. k - 1 \in 1 .. Len(s) - 1 /\ w[k - 1] = x
          BY <3>1, <3>3, <1>1, <1>3
        <4> QED
          BY <4>1, <1>2 DEF Elements
      <3> QED
        BY <3>2, <3>3
    <2> QED
      BY <2>1, <2>2
  <1>6. NoRepeats(w)
    <2> SUFFICES ASSUME NEW k \in 1 .. Len(s) - 1, NEW m \in 1 .. Len(s) - 1,
                        w[k] = w[m]
                 PROVE  k = m
      BY <1>2 DEF NoRepeats
    <2> QED
      BY <1>1, <1>3 DEF NoRepeats
  <1> QED
    BY <1>4, <1>5, <1>6

\* Dropping the front of a sequence without repeats removes one element.
LEMMA TailFacts ==
    ASSUME NEW S, NEW s \in Seq(S), s # <<>>, NoRepeats(s)
    PROVE  /\ Tail(s) \in Seq(S)
           /\ Head(s) \in Elements(s)
           /\ Elements(s) \subseteq S
           /\ Elements(Tail(s)) = Elements(s) \ {Head(s)}
           /\ NoRepeats(Tail(s))
  <1>1. 1 \in DOMAIN s /\ Head(s) = s[1]
    OBVIOUS
  <1>2. /\ Len(Tail(s)) = Len(s) - 1
        /\ \A k \in 1 .. Len(s) - 1 : Tail(s)[k] = s[k + 1]
        /\ Tail(s) \in Seq(S)
    OBVIOUS
  <1>3. /\ Len(Without(s, 1)) = Len(s) - 1
        /\ \A k \in 1 .. Len(s) - 1 : Without(s, 1)[k] = s[k + 1]
        /\ Without(s, 1) \in Seq(S)
    BY <1>1, WithoutFacts DEF Without
  <1>4. Tail(s) = Without(s, 1)
    BY <1>2, <1>3
  <1>5. Head(s) \in Elements(s) /\ Elements(s) \subseteq S
    BY <1>1 DEF Elements
  <1>6. /\ Elements(Without(s, 1)) = Elements(s) \ {s[1]}
        /\ NoRepeats(Without(s, 1))
    BY <1>1, WithoutFacts
  <1> QED
    BY <1>1, <1>2, <1>4, <1>5, <1>6

\* Concatenating sequences without common elements (push_front or push_back
\* for each element) joins their elements.
LEMMA ConcatFacts ==
    ASSUME NEW T, NEW f \in Seq(T), NEW s \in Seq(T),
           NoRepeats(f), NoRepeats(s), Elements(f) \cap Elements(s) = {}
    PROVE  /\ f \o s \in Seq(T)
           /\ Elements(f \o s) = Elements(f) \cup Elements(s)
           /\ NoRepeats(f \o s)
  <1>1. /\ f \o s \in Seq(T)
        /\ Len(f \o s) = Len(f) + Len(s)
        /\ \A i \in 1 .. Len(f) + Len(s) :
               (f \o s)[i] = IF i <= Len(f) THEN f[i] ELSE s[i - Len(f)]
    OBVIOUS
  <1> DEFINE fs == f \o s
  <1> HIDE DEF fs
  <1>2. DOMAIN fs = 1 .. Len(f) + Len(s) /\ Len(f) \in Nat /\ Len(s) \in Nat
        /\ DOMAIN f = 1 .. Len(f) /\ DOMAIN s = 1 .. Len(s)
    BY <1>1 DEF fs
  <1>3. \A i \in 1 .. Len(f) + Len(s) :
               fs[i] = IF i <= Len(f) THEN f[i] ELSE s[i - Len(f)]
    BY <1>1 DEF fs
  <1>4. Elements(fs) = Elements(f) \cup Elements(s)
    <2>1. ASSUME NEW x \in Elements(fs)
          PROVE  x \in Elements(f) \cup Elements(s)
      <3>1. PICK i \in 1 .. Len(f) + Len(s) : x = fs[i]
        BY <1>2 DEF Elements
      <3>2. CASE i <= Len(f)
        BY <3>1, <3>2, <1>2, <1>3 DEF Elements
      <3>3. CASE ~(i <= Len(f))
        <4>1. i - Len(f) \in 1 .. Len(s) /\ x = s[i - Len(f)]
          BY <3>1, <3>3, <1>2, <1>3
        <4> QED
          BY <4>1, <1>2 DEF Elements
      <3> QED
        BY <3>2, <3>3
    <2>2. ASSUME NEW x \in Elements(f)
          PROVE  x \in Elements(fs)
      <3>1. PICK i \in 1 .. Len(f) : x = f[i]
        BY <1>2 DEF Elements
      <3>2. i \in 1 .. Len(f) + Len(s) /\ fs[i] = x
        BY <3>1, <1>2, <1>3
      <3> QED
        BY <3>2, <1>2 DEF Elements
    <2>3. ASSUME NEW x \in Elements(s)
          PROVE  x \in Elements(fs)
      <3>1. PICK i \in 1 .. Len(s) : x = s[i]
        BY <1>2 DEF Elements
      <3>2. /\ i + Len(f) \in 1 .. Len(f) + Len(s)
            /\ ~(i + Len(f) <= Len(f)) /\ (i + Len(f)) - Len(f) = i
        BY <1>2
      <3>3. fs[i + Len(f)] = x
        BY <3>1, <3>2, <1>3
      <3> QED
        BY <3>2, <3>3, <1>2 DEF Elements
    <2> QED
      BY <2>1, <2>2, <2>3
  <1>5. NoRepeats(fs)
    <2> SUFFICES ASSUME NEW i \in 1 .. Len(f) + Len(s),
                        NEW k \in 1 .. Len(f) + Len(s), fs[i] = fs[k]
                 PROVE  i = k
      BY <1>2 DEF NoRepeats
    <2>1. CASE i <= Len(f) /\ k <= Len(f)
      BY <2>1, <1>2, <1>3 DEF NoRepeats
    <2>2. CASE i > Len(f) /\ k > Len(f)
      <3>1. /\ i - Len(f) \in DOMAIN s /\ k - Len(f) \in DOMAIN s
            /\ s[i - Len(f)] = s[k - Len(f)]
        BY <2>2, <1>2, <1>3
      <3>2. i - Len(f) = k - Len(f)
        BY <3>1 DEF NoRepeats
      <3> QED
        BY <3>2, <1>2
    <2>3. CASE i <= Len(f) /\ k > Len(f)
      <3>1. fs[i] \in Elements(f)
        BY <2>3, <1>2, <1>3 DEF Elements
      <3>2. fs[k] \in Elements(s)
        BY <2>3, <1>2, <1>3 DEF Elements
      <3> QED
        BY <3>1, <3>2
    <2>4. CASE i > Len(f) /\ k <= Len(f)
      <3>1. fs[k] \in Elements(f)
        BY <2>4, <1>2, <1>3 DEF Elements
      <3>2. fs[i] \in Elements(s)
        BY <2>4, <1>2, <1>3 DEF Elements
      <3> QED
        BY <3>1, <3>2
    <2> QED
      BY <2>1, <2>2, <2>3, <2>4, <1>2
  <1> QED
    BY <1>1, <1>4, <1>5 DEF fs

\* An ordering of a finite set is a sequence of exactly its elements.
LEMMA OrderingFacts ==
    ASSUME NEW S, IsFiniteSet(S), NEW f \in Orderings(S)
    PROVE  f \in Seq(S) /\ Elements(f) = S /\ NoRepeats(f)
  <1>1. Cardinality(S) \in Nat
    BY FS_CardinalityType
  <1>2. f \in [1 .. Cardinality(S) -> S] /\ Elements(f) = S /\ NoRepeats(f)
    BY DEF Orderings, NoRepeats
  <1> QED
    BY <1>1, <1>2

\* Putting an ordering of a finite set S in front of a sequence adds exactly
\* the elements of S.
LEMMA PrependFacts ==
    ASSUME NEW T, NEW s \in Seq(T), NoRepeats(s),
           NEW S \in SUBSET T, IsFiniteSet(S), S \cap Elements(s) = {},
           NEW f \in Orderings(S)
    PROVE  /\ f \o s \in Seq(T)
           /\ Elements(f \o s) = S \cup Elements(s)
           /\ NoRepeats(f \o s)
  <1>1. f \in Seq(T) /\ Elements(f) = S /\ NoRepeats(f)
    <2>1. f \in Seq(S)
      BY OrderingFacts
    <2> QED
      BY <2>1, OrderingFacts
  <1> QED
    BY <1>1, ConcatFacts

\* A nonempty set of natural numbers has a least element.
LEMMA LeastNumber ==
    ASSUME NEW T \in SUBSET Nat, T # {}
    PROVE  \E x \in T : \A y \in T : ~ (y < x)
  <1> DEFINE R == {ss \in Nat \X Nat : ss[1] < ss[2]}
  <1>1. IsWellFoundedOn(R, Nat)
    BY NatLessThanWellFounded DEF OpToRel
  <1>2. PICK x \in T : \A y \in T : ~ (<<y, x>> \in R)
    <2> HIDE DEF R
    <2> QED
      BY <1>1, WFMin
  <1> QED
    BY <1>2

Increasing(f) == \A i, k \in DOMAIN f : i < k => f[i] < f[k]

\* Positions can be put in ascending order, by going through them from the
\* first to the last.
LEMMA AscendingOrderExists ==
    ASSUME NEW L \in Nat, NEW S \in SUBSET (1 .. L)
    PROVE  \E f \in Orderings(S) : Increasing(f)
  <1> DEFINE Upto(n) == S \cap (1 .. n)
             Good(n) == \E f \in Orderings(Upto(n)) : Increasing(f)
             Bad == {n \in 0 .. L : ~ Good(n)}
  <1>1. \A n \in 0 .. L : IsFiniteSet(Upto(n)) /\ Cardinality(Upto(n)) \in Nat
    <2> SUFFICES ASSUME NEW n \in 0 .. L
                 PROVE  IsFiniteSet(Upto(n)) /\ Cardinality(Upto(n)) \in Nat
      OBVIOUS
    <2>1. IsFiniteSet(1 .. n)
      BY FS_Interval
    <2> QED
      BY <2>1, FS_Subset, FS_CardinalityType
  <1>2. Good(0)
    <2>1. Upto(0) = {}
      OBVIOUS
    <2>2. Cardinality({}) = 0
      BY FS_EmptySet
    <2>3. <<>> \in Orderings({}) /\ Increasing(<<>>)
      <3>1. <<>> \in [1 .. 0 -> {}] /\ DOMAIN <<>> = {}
        OBVIOUS
      <3>2. Elements(<<>>) = {}
        BY <3>1 DEF Elements
      <3>3. NoRepeats(<<>>) /\ Increasing(<<>>)
        BY <3>1 DEF NoRepeats, Increasing
      <3> QED
        BY <2>2, <3>1, <3>2, <3>3 DEF Orderings
    <2> QED
      BY <2>1, <2>3
  <1>3. ASSUME NEW n \in 0 .. L, n # 0, Good(n - 1)
        PROVE  Good(n)
    <2>1. n - 1 \in 0 .. L
      BY <1>3
    <2>2. CASE n \notin S
      <3>1. Upto(n) = Upto(n - 1)
        BY <2>2
      <3> QED
        BY <1>3, <3>1
    <2>3. CASE n \in S
      <3> DEFINE U == Upto(n - 1)
                 c == Cardinality(U)
      <3>1. Upto(n) = U \cup {n} /\ n \notin U
        BY <2>3
      <3>2. PICK f \in Orderings(U) : Increasing(f)
        BY <1>3
      <3>3. c \in Nat /\ IsFiniteSet(U)
        BY <1>1, <2>1
      <3>4. Cardinality(U \cup {n}) = c + 1
        BY <3>1, <3>3, FS_AddElement
      <3>5. f \in [1 .. c -> U] /\ Elements(f) = U /\ NoRepeats(f)
        BY <3>2 DEF Orderings
      <3>6. \A x \in U : x \in Int /\ x < n
        OBVIOUS
      <3> DEFINE g == [i \in 1 .. c + 1 |-> IF i = c + 1 THEN n ELSE f[i]]
      <3> HIDE DEF U, c
      <3>7. g \in [1 .. c + 1 -> U \cup {n}]
        BY <3>3, <3>5
      <3>8. g[c + 1] = n /\ \A i \in 1 .. c : g[i] = f[i] /\ f[i] \in U
        BY <3>3, <3>5
      <3> HIDE DEF g
      <3>9. Elements(g) = U \cup {n}
        <4>1. \A x \in U : \E i \in 1 .. c : f[i] = x
          BY <3>5 DEF Elements
        <4> QED
          BY <3>3, <3>7, <3>8, <4>1 DEF Elements
      <3>10. Increasing(g)
        <4> SUFFICES ASSUME NEW i \in 1 .. c + 1, NEW k \in 1 .. c + 1, i < k
                     PROVE  g[i] < g[k]
          BY <3>7 DEF Increasing
        <4>1. i \in 1 .. c
          BY <3>3
        <4>2. CASE k = c + 1
          BY <3>6, <3>8, <4>1, <4>2
        <4>3. CASE k \in 1 .. c
          BY <3>2, <3>5, <3>8, <4>1, <4>3 DEF Increasing
        <4> QED
          BY <3>3, <4>2, <4>3
      <3>11. NoRepeats(g)
        <4> SUFFICES ASSUME NEW i \in 1 .. c + 1, NEW k \in 1 .. c + 1, i < k, g[i] = g[k]
                     PROVE  FALSE
          BY <3>3, <3>7 DEF NoRepeats
        <4>1. g[i] < g[k] /\ g[i] \in Int
          <5>1. g[i] \in Int
            BY <3>6, <3>7
          <5> QED
            BY <3>7, <3>10, <5>1 DEF Increasing
        <4> QED
          BY <4>1
      <3>12. g \in Orderings(U \cup {n})
        BY <3>4, <3>7, <3>9, <3>11 DEF Orderings
      <3> QED
        BY <3>1, <3>10, <3>12
    <2> QED
      BY <2>2, <2>3
  <1>4. Bad = {}
    <2> SUFFICES ASSUME Bad # {} PROVE FALSE
      OBVIOUS
    <2>1. PICK n \in Bad : \A m \in Bad : ~ (m < n)
      <3>1. Bad \in SUBSET Nat
        OBVIOUS
      <3> HIDE DEF Bad
      <3> QED
        BY <3>1, LeastNumber
    <2> HIDE DEF Good
    <2>2. n \in 0 .. L /\ n # 0 /\ ~ Good(n)
      BY <1>2, <2>1
    <2>3. n - 1 \in 0 .. L /\ n - 1 \notin Bad
      BY <2>1, <2>2
    <2> QED
      BY <1>3, <2>2, <2>3
  <1>5. Good(L)
    <2> HIDE DEF Good
    <2> QED
      BY <1>4
  <1>6. Upto(L) = S
    OBVIOUS
  <1> QED
    BY <1>5, <1>6

\* retain keeps elements of the list, at the positions it is to keep, each
\* once and in their order.
LEMMA RetainedFacts ==
    ASSUME NEW T, NEW s \in Seq(T), NEW kept \in SUBSET (DOMAIN s)
    PROVE  /\ Retained(s, kept) \in Seq(T)
           /\ \E f : /\ f \in [DOMAIN Retained(s, kept) -> kept]
                     /\ \A k \in DOMAIN Retained(s, kept) : Retained(s, kept)[k] = s[f[k]]
                     /\ Elements(f) = kept /\ NoRepeats(f) /\ Increasing(f)
  <1> DEFINE f == AscendingOrder(kept)
             c == Cardinality(kept)
  <1>1. Len(s) \in Nat /\ DOMAIN s = 1 .. Len(s) /\ \A i \in DOMAIN s : s[i] \in T
    OBVIOUS
  <1>2. \E g \in Orderings(kept) : Increasing(g)
    BY <1>1, AscendingOrderExists
  <1>3. f \in Orderings(kept) /\ Increasing(f)
    BY <1>2 DEF AscendingOrder, Increasing
  <1>4. c \in Nat
    <2>1. IsFiniteSet(DOMAIN s)
      BY <1>1, FS_Interval
    <2> QED
      BY <2>1, FS_Subset, FS_CardinalityType
  <1>5. f \in [1 .. c -> kept] /\ Elements(f) = kept /\ NoRepeats(f)
    BY <1>3 DEF Orderings
  <1>6. Retained(s, kept) = [k \in 1 .. c |-> s[f[k]]]
    BY DEF Retained
  <1> HIDE DEF f, c
  <1>7. [k \in 1 .. c |-> s[f[k]]] \in Seq(T)
    <2>1. [k \in 1 .. c |-> s[f[k]]] \in [1 .. c -> T]
      BY <1>1, <1>5
    <2> QED
      BY <1>4, <2>1
  <1>8. DOMAIN Retained(s, kept) = 1 .. c
    BY <1>6
  <1>9. \A k \in 1 .. c : Retained(s, kept)[k] = s[f[k]]
    BY <1>6
  <1> QED
    BY <1>3, <1>5, <1>6, <1>7, <1>8, <1>9

\* A first element that is kept stays the first.
LEMMA RetainedHead ==
    ASSUME NEW T, NEW s \in Seq(T), NEW kept \in SUBSET (DOMAIN s), 1 \in kept
    PROVE  Retained(s, kept) # <<>> /\ Head(Retained(s, kept)) = Head(s)
  <1> DEFINE w == Retained(s, kept)
  <1>1. w \in Seq(T)
    BY RetainedFacts
  <1>2. PICK f : /\ f \in [DOMAIN w -> kept]
                 /\ \A k \in DOMAIN w : w[k] = s[f[k]]
                 /\ Elements(f) = kept /\ Increasing(f)
    BY RetainedFacts
  <1>3. DOMAIN w = 1 .. Len(w) /\ Len(w) \in Nat /\ DOMAIN s = 1 .. Len(s) /\ Len(s) \in Nat
    BY <1>1
  <1> HIDE DEF w
  <1>4. PICK k \in 1 .. Len(w) : f[k] = 1
    BY <1>2, <1>3 DEF Elements
  <1>5. 1 \in DOMAIN w /\ f[1] \in kept
    BY <1>2, <1>3, <1>4
  <1>6. f[1] = 1
    BY <1>2, <1>3, <1>4, <1>5 DEF Increasing
  <1>7. w[1] = s[1]
    BY <1>2, <1>5, <1>6
  <1>8. w # <<>> /\ s # <<>>
    BY <1>1, <1>3, <1>5
  <1> QED
    BY <1>1, <1>7, <1>8 DEF w

=============================================================================
