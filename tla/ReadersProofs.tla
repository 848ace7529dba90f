--------------------------- MODULE ReadersProofs ---------------------------
(***************************************************************************)
(* Proofs about Readers, for every set of jobs, instances and sources,     *)
(* every page and batch size and every limit: pages of the job listing and *)
(* of the dataset catalog are exact, and so is a walk through the pages;   *)
(* batches and rows of an import have the numbers of their rows, limits    *)
(* are exact, and what Validate accepted Apply can read.                   *)
(***************************************************************************)
EXTENDS Readers, FiniteSetTheorems, SequenceTheorems, WellFoundedInduction, TLAPS

(* The order of the naturals is well founded: a set of naturals that is    *)
(* not empty has a least element.                                          *)
LEMMA LeastNumber ==
    ASSUME NEW T, T \subseteq Nat, T # {}
    PROVE  \E n \in T : \A m \in T : n <= m
<1>1. IsWellFoundedOn(OpToRel(<, Nat), Nat)
    BY NatLessThanWellFounded
<1> DEFINE R == OpToRel(<, Nat)
<1>2. \A x, y \in Nat : x < y => <<x, y>> \in R
    BY DEF OpToRel
<1>3. IsWellFoundedOn(R, Nat)
    BY <1>1
<1> HIDE DEF R
<1>4. \E x \in T : \A y \in T : ~ (<<y, x>> \in R)
    BY <1>3, WFMin
<1>5. PICK x \in T : \A y \in T : ~ (<<y, x>> \in R)
    BY <1>4
<1>6. ASSUME NEW y \in T PROVE x <= y
    <2>1. x \in Nat /\ y \in Nat
        OBVIOUS
    <2>2. ~(y < x)
        BY <1>2, <1>5, <2>1
    <2> QED
        BY <2>1, <2>2
<1> QED
    BY <1>6

(* Induction over the naturals, for a set instead of a predicate.          *)
LEMMA Induction ==
    ASSUME NEW S, 0 \in S, \A n \in Nat : n \in S => n + 1 \in S
    PROVE  \A n \in Nat : n \in S
<1> DEFINE T == Nat \ S
<1>1. SUFFICES ASSUME T # {} PROVE FALSE
    OBVIOUS
<1>2. PICK n \in T : \A m \in T : n <= m
    BY <1>1, LeastNumber
<1>3. n \in Nat /\ n # 0 /\ n - 1 \in Nat
    OBVIOUS
<1>4. n - 1 \in S
    BY <1>2, <1>3
<1>5. (n - 1) + 1 = n
    BY <1>3
<1> QED
    BY <1>3, <1>4, <1>5
-----------------------------------------------------------------------------
(* An order R, a set of pairs, that is strict and total on S.              *)
StrictOrder(S, R) ==
    /\ \A a \in S : ~(<<a, a>> \in R)
    /\ \A a, b, c \in S : <<a, b>> \in R /\ <<b, c>> \in R => <<a, c>> \in R
    /\ \A a, b \in S : a # b => <<a, b>> \in R \/ <<b, a>> \in R
Below(S, R, x) == {y \in S : <<y, x>> \in R}
Place(S, R, x) == Cardinality(Below(S, R, x))
Ascending(s, R) == \A m, n \in DOMAIN s : m < n => <<s[m], s[n]>> \in R

(* The number of elements before x is below the number of elements, and it *)
(* grows with x.                                                           *)
LEMMA PlaceGrows ==
    ASSUME NEW S, NEW R, IsFiniteSet(S), StrictOrder(S, R)
    PROVE  /\ \A x \in S : Place(S, R, x) \in 0..(Cardinality(S) - 1)
           /\ \A x, y \in S : <<x, y>> \in R => Place(S, R, x) < Place(S, R, y)
           /\ \A x, y \in S : x # y => Place(S, R, x) # Place(S, R, y)
<1>0. Cardinality(S) \in Nat
    BY FS_CardinalityType
<1>1. \A x : IsFiniteSet(Below(S, R, x)) /\ Place(S, R, x) \in Nat
    <2> SUFFICES ASSUME NEW x PROVE IsFiniteSet(Below(S, R, x)) /\ Place(S, R, x) \in Nat
        OBVIOUS
    <2>1. Below(S, R, x) \in SUBSET S
        BY DEF Below
    <2>2. IsFiniteSet(Below(S, R, x))
        BY <2>1, FS_Subset
    <2> QED
        BY <2>2, FS_CardinalityType DEF Place
<1>2. ASSUME NEW x \in S, NEW U, Below(S, R, x) \cup {x} \subseteq U, IsFiniteSet(U)
      PROVE  Place(S, R, x) + 1 <= Cardinality(U)
    <2>1. x \notin Below(S, R, x)
        BY DEF Below, StrictOrder
    <2>2. IsFiniteSet(Below(S, R, x) \cup {x})
            /\ Cardinality(Below(S, R, x) \cup {x}) = Place(S, R, x) + 1
        BY <1>1, <2>1, FS_AddElement DEF Place
    <2>3. Cardinality(Below(S, R, x) \cup {x}) <= Cardinality(U)
        BY <1>2, FS_Subset
    <2> QED
        BY <2>2, <2>3
<1>3. ASSUME NEW x \in S PROVE Place(S, R, x) \in 0..(Cardinality(S) - 1)
    <2>1. Below(S, R, x) \cup {x} \subseteq S
        BY DEF Below
    <2>2. Place(S, R, x) + 1 <= Cardinality(S)
        BY <1>2, <2>1
    <2> QED
        BY <1>0, <1>1, <2>2
<1>4. ASSUME NEW x \in S, NEW y \in S, <<x, y>> \in R
      PROVE  Place(S, R, x) < Place(S, R, y)
    <2>1. Below(S, R, x) \cup {x} \subseteq Below(S, R, y)
        BY <1>4 DEF Below, StrictOrder
    <2>2. Place(S, R, x) + 1 <= Place(S, R, y)
        BY <1>1, <1>2, <2>1 DEF Place
    <2> QED
        BY <1>1, <2>2
<1>5. ASSUME NEW x \in S, NEW y \in S, x # y
      PROVE  Place(S, R, x) # Place(S, R, y)
    <2>1. <<x, y>> \in R \/ <<y, x>> \in R
        BY <1>5 DEF StrictOrder
    <2>2. Place(S, R, x) < Place(S, R, y) \/ Place(S, R, y) < Place(S, R, x)
        BY <1>4, <2>1
    <2> QED
        BY <1>1, <2>2
<1> QED
    BY <1>3, <1>4, <1>5

(* Every place is taken.                                                   *)
LEMMA PlaceIsTaken ==
    ASSUME NEW S, NEW R, IsFiniteSet(S), StrictOrder(S, R),
           NEW n \in 1..Cardinality(S)
    PROVE  \E x \in S : Place(S, R, x) = n - 1
<1> DEFINE P == 0..(Cardinality(S) - 1)
           f == [x \in S |-> Place(S, R, x)]
<1>1. Cardinality(S) \in Nat
    BY FS_CardinalityType
<1>2. f \in [S -> P]
    BY PlaceGrows
<1>3. \A x, y \in S : f[x] = f[y] => x = y
    BY PlaceGrows
<1>4. IsFiniteSet(P) /\ Cardinality(P) = Cardinality(S)
    <2> DEFINE b == Cardinality(S) - 1
    <2>1. b \in Int /\ (IF 0 > b THEN 0 ELSE b - 0 + 1) = Cardinality(S)
        BY <1>1
    <2> HIDE DEF b
    <2>2. IsFiniteSet(0..b) /\ Cardinality(0..b) = Cardinality(S)
        BY <2>1, FS_Interval
    <2> QED
        BY <2>2 DEF b
<1> HIDE DEF P, f
<1>5. f \in Injection(S, P)
    BY <1>2, <1>3 DEF Injection, IsInjective
<1>6. f \in Surjection(S, P)
    BY <1>4, <1>5, FS_Injection
<1>7. \A k \in P : \E x \in S : f[x] = k
    BY <1>6 DEF Surjection
<1>8. n - 1 \in P
    BY <1>1 DEF P
<1>9. PICK x \in S : f[x] = n - 1
    BY <1>7, <1>8
<1> QED
    BY <1>9 DEF f

(* A finite set can be sorted.                                             *)
LEMMA SortExists ==
    ASSUME NEW S, NEW R, IsFiniteSet(S), StrictOrder(S, R)
    PROVE  \E s \in SetToSeqs(S) : Ascending(s, R)
<1> DEFINE D == 1..Cardinality(S)
           s == [n \in D |-> CHOOSE x \in S : Place(S, R, x) = n - 1]
<1>1. Cardinality(S) \in Nat
    BY FS_CardinalityType
<1>2. \A n \in D : s[n] \in S /\ Place(S, R, s[n]) = n - 1
    BY PlaceIsTaken, Zenon
<1>3. s \in [D -> S]
    BY <1>2, Zenon
<1> HIDE DEF s
<1>4. \A m, n \in D : m # n => s[m] # s[n]
    BY <1>1, <1>2
<1>5. ASSUME NEW m \in D, NEW n \in D, m < n
      PROVE  <<s[m], s[n]>> \in R
    <2>1. s[m] \in S /\ s[n] \in S /\ s[m] # s[n]
        BY <1>1, <1>2, <1>4, <1>5
    <2>2. ~(<<s[n], s[m]>> \in R)
        <3>1. Place(S, R, s[m]) < Place(S, R, s[n])
            BY <1>1, <1>2, <1>5
        <3>2. Place(S, R, s[m]) \in Nat /\ Place(S, R, s[n]) \in Nat
            BY <1>1, <2>1, PlaceGrows
        <3> QED
            BY <2>1, <3>1, <3>2, PlaceGrows
    <2> QED
        BY <2>1, <2>2 DEF StrictOrder
<1>6. s \in SetToSeqs(S)
    BY <1>3, <1>4 DEF SetToSeqs
<1>7. Ascending(s, R)
    BY <1>3, <1>5 DEF Ascending
<1> QED
    BY <1>6, <1>7

(* In a sorted sequence, the element at position n is in place n - 1.      *)
LEMMA SortedPlaces ==
    ASSUME NEW S, NEW R, IsFiniteSet(S), StrictOrder(S, R),
           NEW s \in SetToSeqs(S), Ascending(s, R)
    PROVE  /\ Cardinality(S) \in Nat
           /\ s \in [1..Cardinality(S) -> S]
           /\ \A m, n \in 1..Cardinality(S) : m # n => s[m] # s[n]
           /\ \A x \in S : \E n \in 1..Cardinality(S) : s[n] = x
           /\ \A n \in 1..Cardinality(S) : Place(S, R, s[n]) = n - 1
<1> DEFINE D == 1..Cardinality(S)
<1>1. Cardinality(S) \in Nat
    BY FS_CardinalityType
<1>2. s \in [D -> S] /\ \A m, n \in D : m # n => s[m] # s[n]
    BY DEF SetToSeqs
<1>3. IsFiniteSet(D) /\ Cardinality(D) = Cardinality(S)
    BY <1>1, FS_Interval
<1>4. s \in Injection(D, S)
    BY <1>2 DEF Injection, IsInjective
<1>5. s \in Surjection(D, S)
    BY <1>3, <1>4, FS_Injection
<1>6. \A x \in S : \E n \in D : s[n] = x
    BY <1>5 DEF Surjection
<1>7. ASSUME NEW n \in D PROVE Place(S, R, s[n]) = n - 1
    <2> DEFINE B == Below(S, R, s[n])
               g == [m \in 1..(n - 1) |-> s[m]]
    <2>1. \A m \in 1..(n - 1) : m \in D /\ s[m] \in B
        BY <1>1, <1>2 DEF Below, Ascending
    <2>2. \A y \in B : \E m \in 1..(n - 1) : s[m] = y
        <3> SUFFICES ASSUME NEW y \in B PROVE \E m \in 1..(n - 1) : s[m] = y
            OBVIOUS
        <3>1. y \in S /\ <<y, s[n]>> \in R
            BY DEF Below
        <3>2. PICK m \in D : s[m] = y
            BY <1>6, <3>1
        <3>3. m # n
            BY <1>2, <3>1, <3>2 DEF StrictOrder
        <3>4. ~(n < m)
            <4>1. SUFFICES ASSUME n < m PROVE FALSE
                OBVIOUS
            <4>2. <<s[n], s[m]>> \in R
                BY <1>2, <4>1 DEF Ascending
            <4> QED
                BY <1>2, <3>1, <3>2, <4>2 DEF StrictOrder
        <3> QED
            BY <1>1, <3>2, <3>3, <3>4
    <2> HIDE DEF B
    <2>3. g \in [1..(n - 1) -> B] /\ \A y \in B : \E m \in 1..(n - 1) : g[m] = y
        BY <2>1, <2>2
    <2>4. \A m, k \in 1..(n - 1) : g[m] = g[k] => m = k
        BY <1>2, <2>1
    <2>5. n - 1 \in Nat /\ IsFiniteSet(1..(n - 1)) /\ Cardinality(1..(n - 1)) = n - 1
        <3> DEFINE b == n - 1
        <3>1. b \in Nat /\ b \in Int /\ (IF 1 > b THEN 0 ELSE b - 1 + 1) = b
            BY <1>1
        <3> HIDE DEF b
        <3>2. IsFiniteSet(1..b) /\ Cardinality(1..b) = b
            BY <3>1, FS_Interval
        <3> QED
            BY <3>1, <3>2 DEF b
    <2> HIDE DEF g
    <2>6. g \in Bijection(1..(n - 1), B)
        BY <2>3, <2>4 DEF Bijection, Injection, Surjection, IsInjective
    <2>7. ExistsBijection(1..(n - 1), B)
        BY <2>6 DEF ExistsBijection
    <2>8. Cardinality(B) = n - 1
        BY <2>5, <2>7, FS_Bijection
    <2> QED
        BY <2>8 DEF B, Place
<1> QED
    BY <1>1, <1>2, <1>6, <1>7
-----------------------------------------------------------------------------
(* The page arithmetic: what is received fits, pages and sizes are         *)
(* positive, and an offset below Half is exact while one between Half and  *)
(* 2 * Half is negative.                                                   *)
LEMMA PageArithmetic ==
    /\ Half \in Nat /\ MaxSize \in Nat /\ MaxSize < Half /\ DefaultSize \in 1..MaxSize
    /\ \A n \in Int : Int32(n) \in Signed
    /\ \A n \in Nat : n < Half => Int32(n) = n
    /\ \A n \in Nat : n >= Half /\ n < 2 * Half => Int32(n) < 0
    /\ \A n \in Nat : Int32(n) = n => n < Half
<1>1. Half \in Nat /\ MaxSize \in Nat /\ MaxSize < Half /\ DefaultSize \in 1..MaxSize
    BY PagingAssumption DEF Half
<1>2. Half > 0
    BY <1>1
<1>3. ASSUME NEW n \in Int PROVE Int32(n) \in Signed
    <2> DEFINE low == n % (2 * Half)
    <2>1. low \in 0..(2 * Half - 1)
        BY <1>1, <1>2
    <2>2. Int32(n) = IF low < Half THEN low ELSE low - 2 * Half
        BY DEF Int32
    <2> HIDE DEF low
    <2> QED
        BY <1>1, <2>1, <2>2 DEF Signed
<1>4. ASSUME NEW n \in Nat, n < 2 * Half
      PROVE  Int32(n) = IF n < Half THEN n ELSE n - 2 * Half
    <2>1. n % (2 * Half) = n
        BY <1>1, <1>2, <1>4
    <2> QED
        BY <2>1 DEF Int32
<1>5. ASSUME NEW n \in Nat, n < Half PROVE Int32(n) = n
    BY <1>1, <1>4, <1>5
<1>6. ASSUME NEW n \in Nat, n >= Half, n < 2 * Half PROVE Int32(n) < 0
    BY <1>1, <1>4, <1>6
<1>7. ASSUME NEW n \in Nat, Int32(n) = n PROVE n < Half
    BY <1>1, <1>3, <1>7 DEF Signed
<1> QED
    BY <1>1, <1>3, <1>5, <1>6, <1>7

(* The page and the size a request is answered with are the ones it asked  *)
(* for, brought within the bounds.                                         *)
LEMMA PageAndSize ==
    /\ \A transport \in Transports : \A n \in Sent(transport) :
           Received(transport, n) \in Signed
    /\ \A n \in Signed : PageOf(n) \in 1..(Half - 1) /\ PageOf(n) \in Signed
    /\ \A n \in Signed : SizeOf(n) \in 1..MaxSize
    /\ \A n \in Signed : n \in Int
    /\ \A transport \in Transports : \A n \in Signed :
           ShownPage(transport, n) = PageOf(n) /\ ShownSize(transport, n) = SizeOf(n)
<1>1. Half \in Nat /\ MaxSize \in Nat /\ MaxSize < Half /\ DefaultSize \in 1..MaxSize
    BY PageArithmetic
<1>2. \A n \in Signed : n \in Int
    BY <1>1 DEF Signed
<1>3. \A n \in Unsigned : n \in Int
    BY <1>1 DEF Unsigned
<1>4. ASSUME NEW transport \in Transports, NEW n \in Sent(transport)
      PROVE  Received(transport, n) \in Signed
    BY <1>3, PageArithmetic DEF Sent, Received
<1>5. ASSUME NEW n \in Signed PROVE PageOf(n) \in 1..(Half - 1) /\ PageOf(n) \in Signed
    BY <1>1 DEF PageOf, Signed
<1>6. ASSUME NEW n \in Signed PROVE SizeOf(n) \in 1..MaxSize
    BY <1>1, <1>2 DEF SizeOf
<1>7. ASSUME NEW transport \in Transports, NEW n \in Signed
      PROVE  ShownPage(transport, n) = PageOf(n) /\ ShownSize(transport, n) = SizeOf(n)
    BY <1>1, <1>2 DEF ShownPage, ShownSize, PageOf, SizeOf
<1> QED
    BY <1>2, <1>4, <1>5, <1>6, <1>7

SliceLength(N, offset, size) ==
    IF offset + size < N THEN size ELSE IF offset < N THEN N - offset ELSE 0

(* The elements of a slice.                                                *)
LEMMA SliceElements ==
    ASSUME NEW S, NEW s \in Seq(S), NEW offset \in Nat, NEW size \in Nat
    PROVE  /\ SliceLength(Len(s), offset, size) \in Nat
           /\ Slice(s, offset, size) \in Seq(S)
           /\ Len(Slice(s, offset, size)) = SliceLength(Len(s), offset, size)
           /\ \A m \in 1..SliceLength(Len(s), offset, size) :
                  offset + m \in 1..Len(s) /\ Slice(s, offset, size)[m] = s[offset + m]
<1> DEFINE N == Len(s)
           items == Slice(s, offset, size)
           k == SliceLength(N, offset, size)
           last == IF offset + size < N THEN offset + size ELSE N
<1>1. N \in Nat
    OBVIOUS
<1>2. items = SubSeq(s, offset + 1, last)
    BY DEF Slice
<1>3. last \in Nat /\ k \in Nat /\ last <= N
    BY <1>1 DEF SliceLength
<1>4. k = IF offset + 1 <= last THEN last - offset ELSE 0
    BY <1>1 DEF SliceLength
<1> HIDE DEF items, last, k
<1>5. \A m \in 1..k : offset + m \in 1..N
    BY <1>1, <1>3, <1>4
<1>6. items \in Seq(S) /\ Len(items) = k /\ \A m \in 1..k : items[m] = s[offset + m]
    BY <1>2, <1>3, <1>4, <1>5
<1> QED
    BY <1>3, <1>5, <1>6 DEF items, k

(* A slice of a sorted sequence holds the elements whose place is in the   *)
(* range of the slice.                                                     *)
LEMMA SliceOfSorted ==
    ASSUME NEW S, NEW R, IsFiniteSet(S), StrictOrder(S, R),
           NEW s \in SetToSeqs(S), Ascending(s, R),
           NEW offset \in Nat, NEW size \in Nat
    PROVE  LET items == Slice(s, offset, size) IN
           /\ items \in Seq(S) /\ Len(items) \in Nat /\ Len(items) <= size
           /\ Len(items) < size => Cardinality(S) < offset + size
           /\ Ascending(items, R)
           /\ \A m, n \in 1..Len(items) : m # n => items[m] # items[n]
           /\ \A x : (\E m \in 1..Len(items) : items[m] = x)
                        <=> x \in S /\ Place(S, R, x) \in offset..(offset + size - 1)
<1> DEFINE items == Slice(s, offset, size)
           N == Cardinality(S)
           k == SliceLength(N, offset, size)
<1>1. /\ N \in Nat /\ s \in [1..N -> S]
      /\ \A m, n \in 1..N : m # n => s[m] # s[n]
      /\ \A x \in S : \E n \in 1..N : s[n] = x
      /\ \A n \in 1..N : Place(S, R, s[n]) = n - 1
    BY SortedPlaces
<1>1a. s \in Seq(S) /\ Len(s) = N
    BY <1>1
<1>1b. items = Slice(s, offset, size) /\ k = SliceLength(N, offset, size)
    OBVIOUS
<1> HIDE DEF N, items, k
<1>2. /\ k \in Nat /\ items \in Seq(S) /\ Len(items) = k
      /\ \A m \in 1..k : offset + m \in 1..N /\ items[m] = s[offset + m]
    <2>1. /\ SliceLength(Len(s), offset, size) \in Nat
          /\ Slice(s, offset, size) \in Seq(S)
          /\ Len(Slice(s, offset, size)) = SliceLength(Len(s), offset, size)
          /\ \A m \in 1..SliceLength(Len(s), offset, size) :
                 offset + m \in 1..Len(s) /\ Slice(s, offset, size)[m] = s[offset + m]
        BY <1>1a, SliceElements
    <2> QED
        BY <1>1a, <1>1b, <2>1, Zenon
<1>3. k <= size /\ (k < size => N < offset + size)
    BY <1>1, <1>1b DEF SliceLength
<1>3a. \A n \in 1..N : n - 1 \in offset..(offset + size - 1) <=> n - offset \in 1..k
    BY <1>1, <1>1b DEF SliceLength
<1>4. ASSUME NEW m \in 1..k, NEW n \in 1..k, m # n PROVE items[m] # items[n]
    <2>1. offset + m \in 1..N /\ offset + n \in 1..N
        BY <1>2
    <2>2. offset + m # offset + n
        BY <1>2, <1>4
    <2> QED
        BY <1>1, <1>2, <2>1, <2>2
<1>5. Ascending(items, R)
    <2> SUFFICES ASSUME NEW m \in 1..k, NEW n \in 1..k, m < n
                 PROVE  <<items[m], items[n]>> \in R
        BY <1>2 DEF Ascending
    <2>1. offset + m \in 1..N /\ offset + n \in 1..N
        BY <1>2
    <2>1a. offset + m < offset + n
        BY <1>2
    <2>2. <<s[offset + m], s[offset + n]>> \in R
        BY <1>1, <2>1, <2>1a DEF Ascending
    <2> QED
        BY <1>2, <2>2
<1>6. ASSUME NEW m \in 1..k
      PROVE  items[m] \in S /\ Place(S, R, items[m]) \in offset..(offset + size - 1)
    <2>1. offset + m \in 1..N /\ items[m] = s[offset + m]
        BY <1>2
    <2>2. Place(S, R, items[m]) = offset + m - 1
        BY <1>1, <2>1
    <2> QED
        BY <1>2, <1>3, <2>2
<1>7. ASSUME NEW x \in S, Place(S, R, x) \in offset..(offset + size - 1)
      PROVE  \E m \in 1..k : items[m] = x
    <2>1. PICK n \in 1..N : s[n] = x
        BY <1>1
    <2>2. n - 1 \in offset..(offset + size - 1)
        BY <1>1, <1>7, <2>1
    <2>3. n - offset \in 1..k
        BY <1>3a, <2>2
    <2>4. items[n - offset] = s[offset + (n - offset)] /\ offset + (n - offset) = n
        BY <1>1, <1>2, <2>3
    <2> QED
        BY <2>1, <2>3, <2>4
<1> QED
    BY <1>2, <1>3, <1>4, <1>5, <1>6, <1>7 DEF items, N
-----------------------------------------------------------------------------
QueryRecord ==
    [stage: {"idle", "count", "select", "answered", "failed"}, transport: Transports,
     rawPage: Signed, rawSize: Signed, total: Nat, moved: BOOLEAN, items: Seq(Jobs),
     page: Int, size: Int]
WalkRecord ==
    [next: Nat, size: Nat, kept: SUBSET Jobs, seen: Seq(Jobs), entered: BOOLEAN,
     left: BOOLEAN, over: {"no", "short", "total"}]

ListingTyped ==
    /\ table \in [Jobs -> Row \cup {NoRow}]
    /\ query \in QueryRecord
    /\ walk \in WalkRecord

(* The order of the listing as a set of pairs, and a rank in it.           *)
JobOrder(t) ==
    {x \in Jobs \X Jobs :
        t[x[1]].at > t[x[2]].at \/ (t[x[1]].at = t[x[2]].at /\ x[1] > x[2])}
RankIn(t, j) == Place(Listed(t), JobOrder(t), j)

(* What holds of a walk that goes on: its next page starts where the pages *)
(* read end, the last offset did not overflow, no job that was read and is *)
(* still listed comes after that place unless one entered, and every job   *)
(* that stayed and comes before it was read unless one left.               *)
Place0(w) == (w.next - 1) * w.size
WalkGoesOn(t, q, w) ==
    /\ w.over = "no" /\ w.size \in 1..MaxSize
    /\ w.next = 1 \/ (w.next - 2) * w.size < Half
    /\ ~w.entered => \A n \in 1..Len(w.seen) :
           w.seen[n] \in Listed(t) => RankIn(t, w.seen[n]) < Place0(w)
    /\ ~w.left => \A j \in w.kept :
           RankIn(t, j) < Place0(w) => \E n \in 1..Len(w.seen) : w.seen[n] = j
    /\ q.stage \in {"count", "select"} =>
           PageOf(q.rawPage) = w.next /\ SizeOf(q.rawSize) = w.size
    /\ q.stage = "select" /\ ~w.entered => Cardinality(Listed(t)) <= q.total

Exact(w) ==
    /\ w.over # "no" /\ ~w.left /\ (w.over = "total" => ~w.entered)
        => \A j \in w.kept : \E n \in 1..Len(w.seen) : w.seen[n] = j
    /\ ~w.entered => \A m, n \in 1..Len(w.seen) : w.seen[m] = w.seen[n] => m = n

ListingInv ==
    /\ ListingTyped
    /\ walk.kept \subseteq Listed(table)
    /\ query.stage = "select" /\ ~query.moved => query.total = Cardinality(Listed(table))
    /\ Exact(walk)
    /\ walk.next > 0 => WalkGoesOn(table, query, walk)
-----------------------------------------------------------------------------
Tables == [Jobs -> Row \cup {NoRow}]

(* The rows of a table: a row of the listing is not NoRow, and ids and     *)
(* times are numbers.                                                      *)
LEMMA TableRows ==
    ASSUME NEW t \in Tables
    PROVE  /\ Listed(t) \subseteq Jobs /\ IsFiniteSet(Listed(t))
           /\ Cardinality(Listed(t)) \in Nat
           /\ \A j \in Jobs : j \in Nat /\ t[j].at \in Nat /\ t[j].match \in BOOLEAN
           /\ \A j \in Listed(t) : t[j] # NoRow
<1>1. Listed(t) \in SUBSET Jobs
    BY DEF Listed
<1>2. IsFiniteSet(Listed(t))
    BY <1>1, ListingAssumption, FS_Subset
<1>3. Cardinality(Listed(t)) \in Nat
    BY <1>2, FS_CardinalityType
<1>4. ASSUME NEW j \in Jobs
      PROVE  j \in Nat /\ t[j].at \in Nat /\ t[j].match \in BOOLEAN
    <2>1. t[j] \in Row \/ t[j] = NoRow
        BY DEF Tables
    <2>2. t[j] = NoRow => t[j].at \in Nat /\ t[j].match \in BOOLEAN
        BY DEF NoRow
    <2>3. t[j] \in Row => t[j].at \in Times /\ t[j].match \in BOOLEAN
        BY DEF Row
    <2>4. \A x : (x \in Jobs => x \in Nat) /\ (x \in Times => x \in Nat)
        BY ListingAssumption, Zenon
    <2>5. CASE t[j] = NoRow
        BY <2>2, <2>4, <2>5
    <2>6. CASE t[j] \in Row
        BY <2>3, <2>4, <2>6
    <2> QED
        BY <2>1, <2>5, <2>6
<1>5. ASSUME NEW j \in Listed(t) PROVE t[j] # NoRow
    BY DEF Listed, NoRow
<1> QED
    BY <1>1, <1>2, <1>3, <1>4, <1>5

(* Times and ids order the listing totally.                                *)
LEMMA JobOrderIsStrict ==
    ASSUME NEW t \in Tables
    PROVE  StrictOrder(Listed(t), JobOrder(t))
<1>1. \A j \in Listed(t) : j \in Jobs /\ j \in Nat /\ t[j].at \in Nat
    BY TableRows
<1>2. ASSUME NEW a \in Jobs, NEW b \in Jobs
      PROVE  <<a, b>> \in JobOrder(t) <=>
                 t[a].at > t[b].at \/ (t[a].at = t[b].at /\ a > b)
    BY DEF JobOrder
<1>3. ASSUME NEW a \in Listed(t) PROVE ~(<<a, a>> \in JobOrder(t))
    BY <1>1, <1>2
<1>4. ASSUME NEW a \in Listed(t), NEW b \in Listed(t), NEW c \in Listed(t),
             <<a, b>> \in JobOrder(t), <<b, c>> \in JobOrder(t)
      PROVE  <<a, c>> \in JobOrder(t)
    <2>1. t[a].at > t[b].at \/ (t[a].at = t[b].at /\ a > b)
        BY <1>1, <1>2, <1>4
    <2>2. t[b].at > t[c].at \/ (t[b].at = t[c].at /\ b > c)
        BY <1>1, <1>2, <1>4
    <2>3. t[a].at > t[c].at \/ (t[a].at = t[c].at /\ a > c)
        BY <1>1, <2>1, <2>2
    <2> QED
        BY <1>1, <1>2, <2>3
<1>5. ASSUME NEW a \in Listed(t), NEW b \in Listed(t), a # b
      PROVE  <<a, b>> \in JobOrder(t) \/ <<b, a>> \in JobOrder(t)
    BY <1>1, <1>2, <1>5
<1> QED
    BY <1>3, <1>4, <1>5 DEF StrictOrder

(* The sequence SELECT ... ORDER BY returns a slice of.                    *)
LEMMA SortedJobs ==
    ASSUME table \in Tables
    PROVE  /\ Sorted(Listed(table), JobBefore) \in SetToSeqs(Listed(table))
           /\ Ascending(Sorted(Listed(table), JobBefore), JobOrder(table))
           /\ \A a, b \in Jobs : JobBefore(a, b) <=> <<a, b>> \in JobOrder(table)
           /\ \A j \in Jobs : Rank(j) = RankIn(table, j)
<1> DEFINE S == Listed(table)
           R == JobOrder(table)
<1>1. \A a, b \in Jobs : JobBefore(a, b) <=> <<a, b>> \in R
    BY DEF JobBefore, JobOrder
<1>2. S \subseteq Jobs /\ IsFiniteSet(S) /\ StrictOrder(S, R)
    BY TableRows, JobOrderIsStrict
<1>3. \A j \in Jobs : Rank(j) = RankIn(table, j)
    <2> SUFFICES ASSUME NEW j \in Jobs PROVE Rank(j) = RankIn(table, j)
        OBVIOUS
    <2>1. {k \in S : JobBefore(k, j)} = {k \in S : <<k, j>> \in R}
        BY <1>1, <1>2
    <2> QED
        BY <2>1 DEF Rank, RankIn, Place, Below
<1>4. PICK s \in SetToSeqs(S) : Ascending(s, R)
    BY <1>2, SortExists
<1>5. \A x \in SetToSeqs(S) : \A m \in DOMAIN x : x[m] \in Jobs
    BY <1>2 DEF SetToSeqs
<1>6. \A x \in SetToSeqs(S) :
          (\A m, n \in DOMAIN x : m < n => JobBefore(x[m], x[n])) <=> Ascending(x, R)
    BY <1>1, <1>5, Zenon DEF Ascending
<1>7. Sorted(S, JobBefore) = CHOOSE x \in SetToSeqs(S) :
          \A m, n \in DOMAIN x : m < n => JobBefore(x[m], x[n])
    BY DEF Sorted
<1> HIDE DEF S, R
<1>8. /\ Sorted(S, JobBefore) \in SetToSeqs(S)
      /\ \A m, n \in DOMAIN Sorted(S, JobBefore) :
            m < n => JobBefore(Sorted(S, JobBefore)[m], Sorted(S, JobBefore)[n])
    BY <1>4, <1>6, <1>7, Zenon
<1>9. Ascending(Sorted(S, JobBefore), R)
    BY <1>6, <1>8, Zenon
<1> QED
    BY <1>1, <1>3, <1>8, <1>9 DEF S, R

(* A rank only grows when jobs enter the listing and the times of the      *)
(* others stay the same.                                                   *)
LEMMA RankGrows ==
    ASSUME NEW t \in Tables, NEW u \in Tables, Listed(t) \subseteq Listed(u),
           \A a \in Listed(t) : t[a].at = u[a].at,
           NEW j \in Listed(t)
    PROVE  /\ RankIn(t, j) \in Nat /\ RankIn(u, j) \in Nat
           /\ RankIn(t, j) <= RankIn(u, j)
<1> DEFINE A == Below(Listed(t), JobOrder(t), j)
           B == Below(Listed(u), JobOrder(u), j)
<1>1. A \in SUBSET B
    BY TableRows DEF Below, JobOrder
<1>2. B \in SUBSET Listed(u)
    BY DEF Below
<1>3. IsFiniteSet(B)
    BY <1>2, TableRows, FS_Subset
<1> HIDE DEF A, B
<1>4. IsFiniteSet(A) /\ Cardinality(A) <= Cardinality(B)
    BY <1>1, <1>3, FS_Subset
<1>5. Cardinality(A) \in Nat /\ Cardinality(B) \in Nat
    BY <1>3, <1>4, FS_CardinalityType
<1> QED
    BY <1>4, <1>5 DEF A, B, RankIn, Place
-----------------------------------------------------------------------------
(* No walk is in progress and none is over.                                *)
LEMMA NoWalkIsExact ==
    /\ NoWalk \in WalkRecord /\ NoWalk.next = 0 /\ NoWalk.kept = {}
    /\ Exact(NoWalk)
<1>1. NoWalk \in WalkRecord
    <2>1. <<>> \in Seq(Jobs) /\ {} \in SUBSET Jobs /\ 0 \in Nat
        OBVIOUS
    <2> QED
        BY <2>1 DEF NoWalk, WalkRecord
<1>2. NoWalk.next = 0 /\ NoWalk.kept = {}
    BY DEF NoWalk
<1>3. NoWalk.over = "no" /\ NoWalk.seen = <<>>
    BY DEF NoWalk
<1>4. \A m, n \in 1..Len(NoWalk.seen) : NoWalk.seen[m] = NoWalk.seen[n] => m = n
    BY <1>3
<1> QED
    BY <1>1, <1>2, <1>3, <1>4 DEF Exact

(* The invariant of the listing holds before the first request.            *)
LEMMA ListingInvInit == Init => ListingInv
<1> SUFFICES ASSUME Init PROVE ListingInv
    OBVIOUS
<1>1. table \in Tables /\ query = NoQuery /\ walk = NoWalk
    BY DEF Init, ListingInit, Tables
<1>2. NoQuery \in QueryRecord /\ NoQuery.stage = "idle"
    <2>1. 0 \in Nat /\ 0 \in Int /\ 1 \in Signed /\ <<>> \in Seq(Jobs)
        BY PageArithmetic DEF Signed
    <2>2. NoQuery \in QueryRecord
        BY <2>1 DEF NoQuery, QueryRecord, Transports
    <2> QED
        BY <2>2 DEF NoQuery
<1>3. ListingTyped
    BY <1>1, <1>2, NoWalkIsExact DEF ListingTyped, Tables
<1> QED
    BY <1>1, <1>2, <1>3, NoWalkIsExact DEF ListingInv

(* A request starts.                                                       *)
LEMMA ListJobsKeeps ==
    ASSUME ListingInv,
           NEW transport \in Transports, NEW page \in Sent(transport), NEW size \in Sent(transport),
           ListJobs(transport, page, size)
    PROVE  ListingInv'
<1> DEFINE a == Received(transport, page)
           b == Received(transport, size)
<1>1. a \in Signed /\ b \in Signed
    BY PageAndSize
<1> HIDE DEF a, b
<1>2. /\ query' = [NoQuery EXCEPT !.stage = "count", !.transport = transport,
                                  !.rawPage = a, !.rawSize = b]
      /\ walk' = Walk(PageOf(a), SizeOf(b)) /\ table' = table
    BY DEF ListJobs, a, b
<1>3. query' \in QueryRecord
    <2>1. 0 \in Nat /\ 0 \in Int /\ <<>> \in Seq(Jobs)
        OBVIOUS
    <2>2. query' = [stage |-> "count", transport |-> transport, rawPage |-> a, rawSize |-> b,
                    total |-> 0, moved |-> FALSE, items |-> <<>>, page |-> 0, size |-> 0]
        BY <1>2 DEF NoQuery
    <2> QED
        BY <1>1, <2>1, <2>2 DEF QueryRecord
<1>4. query'.stage = "count" /\ query'.rawPage = a /\ query'.rawSize = b
    BY <1>2 DEF NoQuery
<1>5. PageOf(a) \in 1..(Half - 1) /\ SizeOf(b) \in 1..MaxSize /\ MaxSize \in Nat /\ Half \in Nat
    BY <1>1, PageAndSize, PageArithmetic
<1>6. table \in Tables /\ walk \in WalkRecord /\ Listed(table) \subseteq Jobs
    BY TableRows DEF ListingInv, ListingTyped, Tables
<1>7. CASE PageOf(a) = 1
    <2>1. walk' = [next |-> 1, size |-> SizeOf(b), kept |-> Listed(table), seen |-> <<>>,
                   entered |-> FALSE, left |-> FALSE, over |-> "no"]
        BY <1>2, <1>7 DEF Walk, NoWalk
    <2>2. 1 \in Nat /\ SizeOf(b) \in Nat /\ Listed(table) \in SUBSET Jobs /\ <<>> \in Seq(Jobs)
        BY <1>5, <1>6
    <2>3. walk' \in WalkRecord
        BY <2>1, <2>2 DEF WalkRecord
    <2>4. /\ walk'.next = 1 /\ walk'.size = SizeOf(b) /\ walk'.kept = Listed(table)
          /\ walk'.seen = <<>> /\ walk'.over = "no"
        BY <2>1
    <2>5. Exact(walk')
        <3>1. \A m, n \in 1..Len(walk'.seen) : walk'.seen[m] = walk'.seen[n] => m = n
            BY <2>4
        <3> QED
            BY <2>4, <3>1 DEF Exact
    <2>6. WalkGoesOn(table', query', walk')
        <3>1. Place0(walk') = 0
            BY <1>5, <2>4 DEF Place0
        <3>2. \A j \in walk'.kept : ~(RankIn(table', j) < Place0(walk'))
            <4> SUFFICES ASSUME NEW j \in Listed(table) PROVE ~(RankIn(table, j) < 0)
                BY <1>2, <2>4, <3>1
            <4>1. RankIn(table, j) \in Nat
                BY <1>6, RankGrows
            <4> QED
                BY <4>1
        <3>3. \A n \in 1..Len(walk'.seen) : FALSE
            BY <2>4
        <3> QED
            BY <1>4, <1>5, <1>7, <2>4, <3>2, <3>3 DEF WalkGoesOn
    <2> QED
        BY <1>2, <1>3, <1>4, <1>6, <2>3, <2>4, <2>5, <2>6
        DEF ListingInv, ListingTyped, Tables
<1>8. CASE PageOf(a) # 1 /\ PageOf(a) = walk.next /\ SizeOf(b) = walk.size
    <2>1. walk' = walk /\ walk.next > 0
        BY <1>2, <1>5, <1>8 DEF Walk
    <2>2. WalkGoesOn(table, query, walk)
        BY <2>1 DEF ListingInv
    <2>3. WalkGoesOn(table', query', walk')
        BY <1>2, <1>4, <1>8, <2>1, <2>2 DEF WalkGoesOn
    <2> QED
        BY <1>2, <1>3, <1>4, <1>6, <2>1, <2>3 DEF ListingInv, ListingTyped, Tables
<1>9. CASE PageOf(a) # 1 /\ ~(PageOf(a) = walk.next /\ SizeOf(b) = walk.size)
    <2>1. walk' = NoWalk
        BY <1>2, <1>9 DEF Walk
    <2> QED
        BY <1>2, <1>3, <1>4, <1>6, <2>1, NoWalkIsExact DEF ListingInv, ListingTyped, Tables
<1> QED
    BY <1>7, <1>8, <1>9

(* COUNT.                                                                  *)
LEMMA CountKeeps ==
    ASSUME ListingInv, Count
    PROVE  ListingInv'
<1> DEFINE N == Cardinality(Listed(table))
<1>1. table \in Tables /\ walk \in WalkRecord /\ query \in QueryRecord
    BY DEF ListingInv, ListingTyped, Tables
<1>2. N \in Nat
    BY <1>1, TableRows
<1>3. query' = [query EXCEPT !.stage = "select", !.total = N] /\ query.stage = "count"
        /\ table' = table /\ walk' = walk
    BY DEF Count
<1> HIDE DEF N
<1>4. query' \in QueryRecord
    BY <1>1, <1>2, <1>3, Zenon DEF QueryRecord
<1>5. /\ query'.stage = "select" /\ query'.total = N
      /\ query'.rawPage = query.rawPage /\ query'.rawSize = query.rawSize
    BY <1>1, <1>3 DEF QueryRecord
<1>6. ASSUME walk.next > 0 PROVE WalkGoesOn(table', query', walk')
    <2>1. WalkGoesOn(table, query, walk)
        BY <1>6 DEF ListingInv
    <2> QED
        BY <1>2, <1>3, <1>5, <2>1 DEF WalkGoesOn, N
<1> QED
    BY <1>1, <1>3, <1>4, <1>5, <1>6 DEF ListingInv, ListingTyped, Tables, N

(* A statement fails.                                                      *)
LEMMA StatementFailsKeeps ==
    ASSUME ListingInv, StatementFails
    PROVE  ListingInv'
<1>1. table \in Tables /\ query \in QueryRecord
    BY DEF ListingInv, ListingTyped, Tables
<1>2. query' = [query EXCEPT !.stage = "failed"] /\ walk' = NoWalk /\ table' = table
    BY DEF StatementFails
<1>3. query' \in QueryRecord
    BY <1>1, <1>2, Zenon DEF QueryRecord
<1>4. query'.stage = "failed"
    BY <1>1, <1>2 DEF QueryRecord
<1> QED
    BY <1>1, <1>2, <1>3, <1>4, NoWalkIsExact DEF ListingInv, ListingTyped, Tables
-----------------------------------------------------------------------------
(* Another request or a worker changes a row: the ranks of the jobs that   *)
(* stay move only with the jobs that enter and leave.                      *)
LEMMA WriteKeeps ==
    ASSUME ListingInv, NEW j \in Jobs, NEW row \in Row \cup {NoRow}, Write(j, row)
    PROVE  ListingInv'
<1> DEFINE t == [table EXCEPT ![j] = row]
           in == Listed(t) \ Listed(table)
           out == Listed(table) \ Listed(t)
<1>1. table \in Tables /\ walk \in WalkRecord /\ query \in QueryRecord
    BY DEF ListingInv, ListingTyped, Tables
<1>2. t \in Tables
    BY <1>1 DEF Tables
<1>3. /\ table[j] # NoRow => row = NoRow \/ row.at = table[j].at
      /\ table' = t
      /\ query' = [query EXCEPT !.moved = @ \/ (query.stage = "select" /\ in \cup out # {})]
      /\ walk' = [walk EXCEPT !.kept = @ \ out, !.entered = @ \/ in # {}, !.left = @ \/ out # {}]
    BY DEF Write
<1>4. \A a \in Jobs : a \in Listed(t) /\ a \in Listed(table) => t[a].at = table[a].at
    <2> SUFFICES ASSUME NEW a \in Jobs, a \in Listed(t), a \in Listed(table)
                 PROVE  t[a].at = table[a].at
        OBVIOUS
    <2>1. t[a] # NoRow /\ table[a] # NoRow
        BY <1>1, <1>2, TableRows
    <2>2. t[a] = IF a = j THEN row ELSE table[a]
        BY <1>1 DEF Tables
    <2> QED
        BY <1>3, <2>1, <2>2
<1> HIDE DEF t
<1>5. Listed(t) \subseteq Jobs /\ Listed(table) \subseteq Jobs
    BY <1>1, <1>2, TableRows
<1> HIDE DEF in, out
<1>6. query' \in QueryRecord
    BY <1>1, <1>3, Zenon DEF QueryRecord
<1>7. walk' \in WalkRecord
    <2>1. walk.kept \ out \in SUBSET Jobs
        BY <1>1 DEF WalkRecord
    <2> QED
        BY <1>1, <1>3, <2>1, Zenon DEF WalkRecord
<1>8. /\ query'.stage = query.stage /\ query'.total = query.total
      /\ query'.rawPage = query.rawPage /\ query'.rawSize = query.rawSize
    BY <1>1, <1>3 DEF QueryRecord
<1>9. query.stage = "select" /\ ~query'.moved => ~query.moved /\ in \cup out = {}
    BY <1>1, <1>3 DEF QueryRecord
<1>10. /\ walk'.next = walk.next /\ walk'.size = walk.size /\ walk'.seen = walk.seen
       /\ walk'.over = walk.over /\ walk'.kept = walk.kept \ out
    BY <1>1, <1>3 DEF WalkRecord
<1>11. (~walk'.entered => ~walk.entered /\ in = {}) /\ (~walk'.left => ~walk.left /\ out = {})
    BY <1>1, <1>3 DEF WalkRecord
<1>12. /\ in = {} => Listed(t) \subseteq Listed(table)
       /\ out = {} => Listed(table) \subseteq Listed(t)
    BY DEF in, out
<1>13. walk'.kept \subseteq Listed(t)
    BY <1>10 DEF ListingInv, out
<1>14. query.stage = "select" /\ ~query'.moved => query'.total = Cardinality(Listed(t))
    <2> SUFFICES ASSUME query.stage = "select", ~query'.moved
                 PROVE  query'.total = Cardinality(Listed(t))
        OBVIOUS
    <2>1. Listed(t) = Listed(table)
        BY <1>9 DEF in, out
    <2> QED
        BY <1>8, <1>9, <2>1 DEF ListingInv
<1>15. Exact(walk')
    <2>1. Exact(walk)
        BY DEF ListingInv
    <2> QED
        BY <1>10, <1>11, <2>1 DEF Exact
<1>16. ASSUME walk.next > 0 PROVE WalkGoesOn(t, query', walk')
    <2>1. WalkGoesOn(table, query, walk)
        BY <1>16 DEF ListingInv
    <2>2. Place0(walk') = Place0(walk) /\ Place0(walk) \in Int
        BY <1>1, <1>10 DEF Place0, WalkRecord
    <2>3. walk.over = "no" /\ walk.size \in 1..MaxSize
            /\ (walk.next = 1 \/ (walk.next - 2) * walk.size < Half)
        BY <2>1 DEF WalkGoesOn
    <2>4. ASSUME ~walk'.entered, NEW n \in 1..Len(walk.seen), walk.seen[n] \in Listed(t)
          PROVE  RankIn(t, walk.seen[n]) < Place0(walk)
        <3>1. Listed(t) \subseteq Listed(table) /\ ~walk.entered
            BY <1>11, <1>12, <2>4
        <3>2. RankIn(table, walk.seen[n]) < Place0(walk)
            BY <2>1, <2>4, <3>1 DEF WalkGoesOn
        <3>3. \A a \in Listed(t) : t[a].at = table[a].at
            BY <1>4, <1>5, <3>1
        <3>4. /\ RankIn(t, walk.seen[n]) \in Nat /\ RankIn(table, walk.seen[n]) \in Nat
              /\ RankIn(t, walk.seen[n]) <= RankIn(table, walk.seen[n])
            BY <1>1, <1>2, <2>4, <3>1, <3>3, RankGrows
        <3> QED
            BY <2>2, <3>2, <3>4
    <2>5. ASSUME ~walk'.left, NEW k \in walk'.kept, RankIn(t, k) < Place0(walk)
          PROVE  \E n \in 1..Len(walk.seen) : walk.seen[n] = k
        <3>1. /\ Listed(table) \subseteq Listed(t) /\ ~walk.left
              /\ k \in walk.kept /\ k \in Listed(table)
            BY <1>10, <1>11, <1>12, <2>5 DEF ListingInv
        <3>2. \A a \in Listed(table) : table[a].at = t[a].at
            BY <1>4, <1>5, <3>1
        <3>3. /\ RankIn(table, k) \in Nat /\ RankIn(t, k) \in Nat
              /\ RankIn(table, k) <= RankIn(t, k)
            BY <1>1, <1>2, <3>1, <3>2, RankGrows
        <3>4. RankIn(table, k) < Place0(walk)
            BY <2>2, <2>5, <3>3
        <3> QED
            BY <2>1, <3>1, <3>4 DEF WalkGoesOn
    <2>6. query'.stage \in {"count", "select"} =>
              PageOf(query'.rawPage) = walk'.next /\ SizeOf(query'.rawSize) = walk'.size
        BY <1>8, <1>10, <2>1 DEF WalkGoesOn
    <2>7. ASSUME query'.stage = "select", ~walk'.entered
          PROVE  Cardinality(Listed(t)) <= query'.total
        <3>1. Listed(t) \in SUBSET Listed(table) /\ ~walk.entered
            BY <1>11, <1>12, <2>7
        <3>2. IsFiniteSet(Listed(table)) /\ Cardinality(Listed(table)) \in Nat
                /\ Cardinality(Listed(t)) \in Nat /\ query.total \in Nat
            BY <1>1, <1>2, TableRows DEF QueryRecord
        <3>3. Cardinality(Listed(t)) <= Cardinality(Listed(table))
            BY <3>1, <3>2, FS_Subset
        <3>4. Cardinality(Listed(table)) <= query.total
            BY <1>8, <2>1, <2>7, <3>1 DEF WalkGoesOn
        <3> QED
            BY <1>8, <3>2, <3>3, <3>4
    <2> QED
        BY <1>10, <2>2, <2>3, <2>4, <2>5, <2>6, <2>7 DEF WalkGoesOn
<1> QED
    BY <1>2, <1>3, <1>6, <1>7, <1>8, <1>10, <1>13, <1>14, <1>15, <1>16
    DEF ListingInv, ListingTyped, Tables

(* What a concatenation holds.                                             *)
LEMMA ConcatElements ==
    ASSUME NEW S, NEW s \in Seq(S), NEW u \in Seq(S)
    PROVE  /\ s \o u \in Seq(S) /\ Len(s) \in Nat /\ Len(u) \in Nat
           /\ Len(s \o u) = Len(s) + Len(u)
           /\ \A n \in 1..Len(s) : n \in 1..Len(s \o u) /\ (s \o u)[n] = s[n]
           /\ \A n \in 1..Len(u) :
                  Len(s) + n \in 1..Len(s \o u) /\ (s \o u)[Len(s) + n] = u[n]
           /\ \A n \in 1..Len(s \o u) : n \in 1..Len(s) \/ n - Len(s) \in 1..Len(u)
           /\ \A n \in 1..Len(s \o u) :
                  n - Len(s) \in 1..Len(u) => (s \o u)[n] = u[n - Len(s)]
<1>1. Len(s) \in Nat /\ Len(u) \in Nat /\ s \o u \in Seq(S) /\ Len(s \o u) = Len(s) + Len(u)
    OBVIOUS
<1>2. \A n \in 1..Len(s) : n \in 1..Len(s \o u) /\ (s \o u)[n] = s[n]
    BY <1>1
<1>3. \A n \in 1..Len(u) : Len(s) + n \in 1..Len(s \o u) /\ (s \o u)[Len(s) + n] = u[n]
    BY <1>1
<1>4. \A n \in 1..Len(s \o u) : n \in 1..Len(s) \/ n - Len(s) \in 1..Len(u)
    BY <1>1
<1>5. \A n \in 1..Len(s \o u) : n - Len(s) \in 1..Len(u) => (s \o u)[n] = u[n - Len(s)]
    BY <1>1
<1> QED
    BY <1>1, <1>2, <1>3, <1>4, <1>5

Has(s, x) == \E n \in 1..Len(s) : s[n] = x

(* The members of a concatenation are those of its parts.                  *)
LEMMA ConcatMembers ==
    ASSUME NEW S, NEW s \in Seq(S), NEW u \in Seq(S), NEW x
    PROVE  Has(s \o u, x) <=> Has(s, x) \/ Has(u, x)
<1>1. ASSUME NEW n \in 1..Len(s \o u), (s \o u)[n] = x
      PROVE  (\E k \in 1..Len(s) : s[k] = x) \/ (\E k \in 1..Len(u) : u[k] = x)
    BY <1>1, ConcatElements
<1>2. ASSUME NEW k \in 1..Len(s), s[k] = x
      PROVE  \E n \in 1..Len(s \o u) : (s \o u)[n] = x
    BY <1>2, ConcatElements
<1>3. ASSUME NEW k \in 1..Len(u), u[k] = x
      PROVE  \E n \in 1..Len(s \o u) : (s \o u)[n] = x
    <2>1. Len(s) + k \in 1..Len(s \o u) /\ (s \o u)[Len(s) + k] = u[k]
        BY ConcatElements
    <2> QED
        BY <1>3, <2>1
<1> QED
    BY <1>1, <1>2, <1>3 DEF Has

(* A concatenation has no member twice if its parts have none twice and    *)
(* none in common.                                                         *)
LEMMA ConcatInjective ==
    ASSUME NEW S, NEW s \in Seq(S), NEW u \in Seq(S),
           \A m, n \in 1..Len(s) : s[m] = s[n] => m = n,
           \A m, n \in 1..Len(u) : u[m] = u[n] => m = n,
           \A m \in 1..Len(s), n \in 1..Len(u) : s[m] # u[n]
    PROVE  \A m, n \in 1..Len(s \o u) : (s \o u)[m] = (s \o u)[n] => m = n
<1>1. Len(s) \in Nat
    OBVIOUS
<1>2. \A n \in 1..Len(s) : n \in 1..Len(s \o u) /\ (s \o u)[n] = s[n]
    BY ConcatElements
<1>3. \A n \in 1..Len(s \o u) : n \in 1..Len(s) \/ n - Len(s) \in 1..Len(u)
    BY ConcatElements
<1>4. \A n \in 1..Len(s \o u) : n - Len(s) \in 1..Len(u) => (s \o u)[n] = u[n - Len(s)]
    BY ConcatElements
<1> SUFFICES ASSUME NEW m \in 1..Len(s \o u), NEW n \in 1..Len(s \o u),
                    (s \o u)[m] = (s \o u)[n]
             PROVE  m = n
    OBVIOUS
<1>5. CASE m \in 1..Len(s) /\ n \in 1..Len(s)
    BY <1>2, <1>5
<1>6. CASE m - Len(s) \in 1..Len(u) /\ n - Len(s) \in 1..Len(u)
    <2>1. m - Len(s) = n - Len(s)
        BY <1>4, <1>6
    <2>2. m \in Int /\ n \in Int
        OBVIOUS
    <2> QED
        BY <1>1, <2>1, <2>2
<1>7. CASE m \in 1..Len(s) /\ n - Len(s) \in 1..Len(u)
    BY <1>2, <1>4, <1>7
<1>8. CASE n \in 1..Len(s) /\ m - Len(s) \in 1..Len(u)
    BY <1>2, <1>4, <1>8
<1> QED
    BY <1>3, <1>5, <1>6, <1>7, <1>8
-----------------------------------------------------------------------------
(* What SELECT finds at an offset that is not negative.                    *)
SelectItems == Slice(Sorted(Listed(table), JobBefore), Offset(QueryPage, QuerySize), QuerySize)

(* SELECT finds the rows whose ranks are on the page, in their order.      *)
LEMMA SelectedItems ==
    ASSUME table \in Tables, query \in QueryRecord, Offset(QueryPage, QuerySize) >= 0
    PROVE  /\ Offset(QueryPage, QuerySize) \in Nat /\ QuerySize \in 1..MaxSize
           /\ QueryPage \in 1..(Half - 1)
           /\ SelectItems \in Seq(Jobs) /\ Len(SelectItems) \in Nat
           /\ Len(SelectItems) < QuerySize =>
                  Cardinality(Listed(table)) < Offset(QueryPage, QuerySize) + QuerySize
           /\ Ascending(SelectItems, JobOrder(table))
           /\ \A m, n \in 1..Len(SelectItems) : SelectItems[m] = SelectItems[n] => m = n
           /\ \A x : (\E m \in 1..Len(SelectItems) : SelectItems[m] = x)
                  <=> x \in Listed(table) /\ RankIn(table, x) \in Offset(QueryPage, QuerySize)
                          ..(Offset(QueryPage, QuerySize) + QuerySize - 1)
<1> DEFINE offset == Offset(QueryPage, QuerySize)
           list == Sorted(Listed(table), JobBefore)
<1>1. query.rawPage \in Signed /\ query.rawSize \in Signed
    BY DEF QueryRecord
<1>2. QueryPage \in 1..(Half - 1) /\ QuerySize \in 1..MaxSize
    BY <1>1, PageAndSize DEF QueryPage, QuerySize
<1>3. Half \in Nat /\ MaxSize \in Nat
    BY PageArithmetic
<1>4. (QueryPage - 1) * QuerySize \in Int
    BY <1>2, <1>3
<1>5. offset \in Signed
    BY <1>4, PageArithmetic DEF Offset
<1>6. offset \in Nat /\ QuerySize \in Nat
    BY <1>2, <1>3, <1>5, PageAndSize
<1>7. /\ list \in SetToSeqs(Listed(table)) /\ Ascending(list, JobOrder(table))
      /\ IsFiniteSet(Listed(table)) /\ StrictOrder(Listed(table), JobOrder(table))
      /\ Listed(table) \subseteq Jobs
    BY SortedJobs, JobOrderIsStrict, TableRows
<1>8. SelectItems = Slice(list, offset, QuerySize)
    BY DEF SelectItems
<1> HIDE DEF offset, list
<1>9. /\ SelectItems \in Seq(Listed(table)) /\ Len(SelectItems) \in Nat
      /\ Len(SelectItems) < QuerySize => Cardinality(Listed(table)) < offset + QuerySize
      /\ Ascending(SelectItems, JobOrder(table))
      /\ \A m, n \in 1..Len(SelectItems) : m # n => SelectItems[m] # SelectItems[n]
      /\ \A x : (\E m \in 1..Len(SelectItems) : SelectItems[m] = x)
                  <=> x \in Listed(table)
                        /\ Place(Listed(table), JobOrder(table), x)
                               \in offset..(offset + QuerySize - 1)
    BY <1>6, <1>7, <1>8, SliceOfSorted
<1>10. SelectItems \in Seq(Jobs)
    BY <1>7, <1>9
<1> QED
    BY <1>2, <1>6, <1>9, <1>10 DEF RankIn, offset

(* The next page of a walk starts where the pages read so far end: its     *)
(* offset is exact, or negative and refused.                               *)
LEMMA WalkOffset ==
    ASSUME WalkGoesOn(table, query, walk), walk \in WalkRecord, walk.next > 0,
           query.stage = "select"
    PROVE  /\ QueryPage = walk.next /\ QuerySize = walk.size /\ Place0(walk) \in Nat
           /\ Offset(QueryPage, QuerySize) < 0
                \/ (Offset(QueryPage, QuerySize) = Place0(walk) /\ Place0(walk) < Half)
<1>1. QueryPage = walk.next /\ QuerySize = walk.size
    BY DEF WalkGoesOn, QueryPage, QuerySize
<1>2. walk.size \in 1..MaxSize /\ (walk.next = 1 \/ (walk.next - 2) * walk.size < Half)
    BY DEF WalkGoesOn
<1>3. walk.next \in Nat /\ Half \in Nat /\ MaxSize \in Nat /\ MaxSize < Half
    BY PageArithmetic DEF WalkRecord
<1>4. walk.next \in Int /\ walk.size \in Int /\ walk.size >= 1 /\ walk.size < Half
    BY <1>2, <1>3
<1>5. Place0(walk) = (walk.next - 2) * walk.size + walk.size
    BY <1>4 DEF Place0
<1>6. walk.next = 1 => Place0(walk) = 0
    BY <1>4 DEF Place0
<1>7. Place0(walk) \in Int /\ (walk.next - 2) * walk.size \in Int
    BY <1>4 DEF Place0
<1>8. walk.next >= 2 => (walk.next - 2) * walk.size >= 0
    BY <1>4
<1>9. Place0(walk) \in Nat /\ Place0(walk) < 2 * Half
    <2>1. CASE walk.next = 1
        BY <1>3, <1>4, <1>6, <2>1
    <2>2. CASE walk.next # 1
        <3>1. walk.next >= 2
            BY <1>3, <2>2
        <3> QED
            BY <1>2, <1>3, <1>4, <1>5, <1>7, <1>8, <2>2, <3>1
    <2> QED
        BY <2>1, <2>2
<1>10. Offset(QueryPage, QuerySize) = Int32(Place0(walk))
    BY <1>1 DEF Offset, Place0
<1>11. CASE Place0(walk) < Half
    BY <1>1, <1>9, <1>10, <1>11, PageArithmetic
<1>12. CASE Place0(walk) >= Half
    BY <1>1, <1>9, <1>10, <1>12, PageArithmetic
<1> QED
    BY <1>3, <1>9, <1>11, <1>12

(* SELECT: the page goes on where the last one ended.                      *)
LEMMA SelectKeeps ==
    ASSUME ListingInv, Select
    PROVE  ListingInv'
<1> DEFINE offset == Offset(QueryPage, QuerySize)
<1>1. table \in Tables /\ walk \in WalkRecord /\ query \in QueryRecord /\ query.stage = "select"
    BY DEF ListingInv, ListingTyped, Tables, Select
<1>2. table' = table
    BY DEF Select
<1>3. CASE offset < 0
    <2>1. query' = [query EXCEPT !.stage = "failed"] /\ walk' = NoWalk
        BY <1>3 DEF Select
    <2>2. query' \in QueryRecord
        BY <1>1, <2>1, Zenon DEF QueryRecord
    <2>3. query'.stage = "failed"
        BY <1>1, <2>1 DEF QueryRecord
    <2> QED
        BY <1>1, <1>2, <2>1, <2>2, <2>3, NoWalkIsExact DEF ListingInv, ListingTyped, Tables
<1>4. CASE ~(offset < 0)
    <2> DEFINE a == ShownPage(query.transport, query.rawPage)
               b == ShownSize(query.transport, query.rawSize)
    <2>1. /\ query' = [query EXCEPT !.stage = "answered", !.items = SelectItems,
                                    !.page = a, !.size = b]
          /\ walk' = Continued(SelectItems)
        BY <1>4 DEF Select, SelectItems
    <2>2. offset >= 0
        <3>1. query.rawPage \in Signed /\ query.rawSize \in Signed
            BY <1>1 DEF QueryRecord
        <3>2. QueryPage \in Int /\ QuerySize \in Int
            BY <3>1, PageAndSize, PageArithmetic DEF QueryPage, QuerySize
        <3>3. offset \in Int
            BY <3>2, PageArithmetic, PageAndSize DEF Offset
        <3> QED
            BY <1>4, <3>3
    <2>3. /\ offset \in Nat /\ QuerySize \in 1..MaxSize /\ QueryPage \in 1..(Half - 1)
          /\ SelectItems \in Seq(Jobs) /\ Len(SelectItems) \in Nat
          /\ Len(SelectItems) < QuerySize => Cardinality(Listed(table)) < offset + QuerySize
          /\ \A m, n \in 1..Len(SelectItems) : SelectItems[m] = SelectItems[n] => m = n
          /\ \A x : (\E m \in 1..Len(SelectItems) : SelectItems[m] = x)
                  <=> x \in Listed(table) /\ RankIn(table, x) \in offset..(offset + QuerySize - 1)
        BY <1>1, <2>2, SelectedItems
    <2>4. a \in Int /\ b \in Int
        <3>1. query.transport \in Transports /\ query.rawPage \in Signed /\ query.rawSize \in Signed
            BY <1>1 DEF QueryRecord
        <3>2. PageOf(query.rawPage) \in Int /\ SizeOf(query.rawSize) \in Int
            BY <3>1, PageAndSize, PageArithmetic
        <3> QED
            BY <3>1, <3>2, PageAndSize
    <2> HIDE DEF a, b
    <2>5. query' \in QueryRecord
        BY <1>1, <2>1, <2>3, <2>4, Zenon DEF QueryRecord
    <2>6. query'.stage = "answered"
        BY <1>1, <2>1 DEF QueryRecord
    <2>7. CASE walk.next = 0
        <3>1. walk' = walk
            BY <2>1, <2>7 DEF Continued
        <3> QED
            BY <1>1, <1>2, <2>5, <2>6, <2>7, <3>1 DEF ListingInv, ListingTyped, Tables
    <2>8. CASE walk.next # 0
        <3>1. walk.next > 0 /\ walk.next \in Nat /\ walk.size \in Nat /\ walk.seen \in Seq(Jobs)
            BY <1>1, <2>8 DEF WalkRecord
        <3>2. WalkGoesOn(table, query, walk)
            BY <3>1 DEF ListingInv
        <3>3. /\ QueryPage = walk.next /\ QuerySize = walk.size
              /\ offset = Place0(walk) /\ Place0(walk) < Half
            BY <1>1, <1>4, <3>1, <3>2, WalkOffset
        <3> DEFINE P == Place0(walk)
                   short == Len(SelectItems) < walk.size
                   last == walk.next * walk.size >= query.total
                   next == IF short \/ last THEN 0 ELSE walk.next + 1
                   over == IF short THEN "short" ELSE IF last THEN "total" ELSE walk.over
                   seen == walk.seen \o SelectItems
        <3>4. walk' = [walk EXCEPT !.seen = seen, !.next = next, !.over = over]
            BY <2>1, <2>8, <3>3 DEF Continued
        <3>5. walk.over = "no" /\ walk.size \in 1..MaxSize
            BY <3>2 DEF WalkGoesOn
        <3>6. next \in Nat /\ over \in {"no", "short", "total"} /\ seen \in Seq(Jobs)
            BY <2>3, <3>1, <3>5
        <3>7. walk.next * walk.size = P + walk.size /\ P \in Nat
            <4>1. P = (walk.next - 1) * walk.size
                BY DEF Place0
            <4> QED
                BY <2>3, <3>1, <3>3, <4>1
        <3>8. \A x : (\E n \in 1..Len(seen) : seen[n] = x) <=>
                  (\E n \in 1..Len(walk.seen) : walk.seen[n] = x)
                    \/ (x \in Listed(table) /\ RankIn(table, x) \in P..(P + walk.size - 1))
            <4>1. SelectItems \in Seq(Jobs) /\ walk.seen \in Seq(Jobs)
                BY <2>3, <3>1
            <4>2. \A x : Has(seen, x) <=> Has(walk.seen, x) \/ Has(SelectItems, x)
                BY <4>1, ConcatMembers
            <4> HIDE DEF seen
            <4> QED
                BY <2>3, <3>3, <4>2 DEF Has
        <3>9. over # "no" => short \/ last
            BY <3>5
        <3>10. next # 0 => ~short /\ ~last /\ next = walk.next + 1 /\ over = "no"
            BY <3>5
        <3>11. over = "total" => last
            BY <3>5
        <3>12. over # "no" /\ over # "total" => short
            BY <3>5
        <3> HIDE DEF next, over, seen, P
        <3>13. walk' \in WalkRecord
            BY <1>1, <3>4, <3>6, Zenon DEF WalkRecord
        <3>14. /\ walk'.seen = seen /\ walk'.next = next /\ walk'.over = over
               /\ walk'.kept = walk.kept /\ walk'.size = walk.size
               /\ walk'.entered = walk.entered /\ walk'.left = walk.left
            BY <1>1, <3>4 DEF WalkRecord
        <3>15. ASSUME NEW j \in Listed(table) PROVE RankIn(table, j) \in Nat
                   /\ RankIn(table, j) < Cardinality(Listed(table))
                   /\ Cardinality(Listed(table)) \in Nat
            <4>1. IsFiniteSet(Listed(table)) /\ StrictOrder(Listed(table), JobOrder(table))
                    /\ Cardinality(Listed(table)) \in Nat
                BY <1>1, TableRows, JobOrderIsStrict
            <4>2. Place(Listed(table), JobOrder(table), j) \in 0..(Cardinality(Listed(table)) - 1)
                BY <4>1, PlaceGrows
            <4> QED
                BY <4>1, <4>2 DEF RankIn
        <3>16. ASSUME ~walk.left, NEW j \in walk.kept, RankIn(table, j) < P + walk.size
               PROVE  \E n \in 1..Len(seen) : seen[n] = j
            <4>1. j \in Listed(table)
                BY DEF ListingInv
            <4>2. RankIn(table, j) \in Nat
                BY <3>15, <4>1
            <4>3. CASE RankIn(table, j) < P
                BY <3>2, <3>8, <3>16, <4>3 DEF WalkGoesOn, P
            <4>4. CASE ~(RankIn(table, j) < P)
                <5>1. RankIn(table, j) \in P..(P + walk.size - 1)
                    BY <3>1, <3>7, <3>16, <4>2, <4>4
                <5> QED
                    BY <3>8, <4>1, <5>1
            <4> QED
                BY <4>3, <4>4
        <3>17. ASSUME over # "no", ~walk.left, over = "total" => ~walk.entered, NEW j \in walk.kept
               PROVE  \E n \in 1..Len(seen) : seen[n] = j
            <4>1. j \in Listed(table)
                BY DEF ListingInv
            <4>2. Cardinality(Listed(table)) \in Nat /\ RankIn(table, j) \in Nat
                    /\ RankIn(table, j) < Cardinality(Listed(table)) /\ query.total \in Nat
                BY <1>1, <3>15, <4>1 DEF QueryRecord
            <4>3. CASE over # "total"
                <5>1. Cardinality(Listed(table)) < P + walk.size
                    BY <2>3, <3>3, <3>12, <3>17, <4>3 DEF P
                <5> QED
                    BY <3>1, <3>7, <3>16, <3>17, <4>2, <5>1
            <4>4. CASE over = "total"
                <5>1. P + walk.size >= query.total
                    BY <3>7, <3>11, <4>4
                <5>2. Cardinality(Listed(table)) <= query.total
                    BY <1>1, <3>2, <3>17, <4>4 DEF WalkGoesOn
                <5> QED
                    BY <3>1, <3>7, <3>16, <3>17, <4>2, <5>1, <5>2
            <4> QED
                BY <4>3, <4>4
        <3>18. ASSUME ~walk.entered
               PROVE  \A m, n \in 1..Len(seen) : seen[m] = seen[n] => m = n
            <4>1. \A m, n \in 1..Len(walk.seen) : walk.seen[m] = walk.seen[n] => m = n
                BY <3>18 DEF ListingInv, Exact
            <4>2. ASSUME NEW m \in 1..Len(walk.seen), NEW n \in 1..Len(SelectItems)
                  PROVE  walk.seen[m] # SelectItems[n]
                <5>1. SelectItems[n] \in Listed(table)
                        /\ RankIn(table, SelectItems[n]) \in P..(P + walk.size - 1)
                    BY <2>3, <3>3 DEF P
                <5>2. walk.seen[m] \in Listed(table) => RankIn(table, walk.seen[m]) < P
                    BY <3>2, <3>18 DEF WalkGoesOn, P
                <5> QED
                    BY <3>1, <3>7, <5>1, <5>2
            <4> QED
                <5>1. SelectItems \in Seq(Jobs) /\ walk.seen \in Seq(Jobs)
                    BY <2>3, <3>1
                <5>2. \A m, n \in 1..Len(SelectItems) : SelectItems[m] = SelectItems[n] => m = n
                    BY <2>3
                <5> QED
                    BY <4>1, <4>2, <5>1, <5>2, ConcatInjective DEF seen
        <3>19. Exact(walk')
            BY <3>14, <3>17, <3>18 DEF Exact
        <3>20. ASSUME next > 0 PROVE WalkGoesOn(table, query', walk')
            <4>1. next = walk.next + 1 /\ over = "no"
                BY <3>10, <3>20
            <4>2. Place0(walk') = P + walk.size
                <5>1. walk'.next - 1 = walk.next
                    BY <3>1, <3>14, <4>1
                <5> QED
                    BY <3>7, <3>14, <5>1 DEF Place0
            <4>3. (walk'.next - 2) * walk'.size < Half
                <5>1. walk'.next - 2 = walk.next - 1
                    BY <3>1, <3>14, <4>1
                <5> QED
                    BY <3>3, <3>14, <5>1 DEF Place0
            <4>4. ASSUME ~walk.entered, NEW n \in 1..Len(seen), seen[n] \in Listed(table)
                  PROVE  RankIn(table, seen[n]) < P + walk.size
                <5>1. CASE RankIn(table, seen[n]) \in P..(P + walk.size - 1)
                    BY <3>1, <3>7, <5>1
                <5>2. CASE \E m \in 1..Len(walk.seen) : walk.seen[m] = seen[n]
                    <6>1. RankIn(table, seen[n]) < P
                        BY <3>2, <4>4, <5>2 DEF WalkGoesOn, P
                    <6>2. RankIn(table, seen[n]) \in Nat
                        BY <3>15, <4>4
                    <6> QED
                        BY <3>1, <3>7, <6>1, <6>2
                <5> QED
                    BY <3>8, <4>4, <5>1, <5>2
            <4> QED
                BY <2>6, <3>5, <3>14, <3>16, <4>1, <4>2, <4>3, <4>4 DEF WalkGoesOn
        <3> QED
            BY <1>1, <1>2, <2>5, <2>6, <3>13, <3>14, <3>19, <3>20
            DEF ListingInv, ListingTyped, Tables
    <2> QED
        BY <2>7, <2>8
<1> QED
    BY <1>3, <1>4
-----------------------------------------------------------------------------
(* Every step of the three parts keeps the invariant of the listing.       *)
LEMMA ListingInvNext == ListingInv /\ [Next]_vars => ListingInv'
<1> SUFFICES ASSUME ListingInv, [Next]_vars PROVE ListingInv'
    OBVIOUS
<1>1. CASE ListingNext
    <2>1. ASSUME NEW transport \in Transports, NEW page \in AskedPages \cap Sent(transport),
                 NEW size \in AskedSizes \cap Sent(transport), ListJobs(transport, page, size)
          PROVE  ListingInv'
        BY <2>1, ListJobsKeeps
    <2>2. CASE Count
        BY <2>2, CountKeeps
    <2>3. CASE Select
        BY <2>3, SelectKeeps
    <2>4. CASE StatementFails
        BY <2>4, StatementFailsKeeps
    <2>5. ASSUME NEW j \in Jobs, NEW row \in Row \cup {NoRow}, Write(j, row)
          PROVE  ListingInv'
        BY <2>5, WriteKeeps
    <2> QED
        BY <1>1, <2>1, <2>2, <2>3, <2>4, <2>5 DEF ListingNext
<1>2. CASE UNCHANGED listingVars
    <2>1. table' = table /\ query' = query /\ walk' = walk
        BY <1>2 DEF listingVars
    <2> QED
        BY <2>1 DEF ListingInv, ListingTyped
<1>3. ListingNext \/ UNCHANGED listingVars
    BY DEF Next, vars, streamVars, listingVars, catalogVars
<1> QED
    BY <1>1, <1>2, <1>3

(* A walk through the pages of the listing is exact: Service.List and      *)
(* SQLRepository.List, whatever the table, the pages and the changes.      *)
THEOREM WalksAreExact == Spec => []WalkIsExact
<1>1. Init => ListingInv
    BY ListingInvInit
<1>2. ListingInv /\ [Next]_vars => ListingInv'
    BY ListingInvNext
<1>3. ListingInv => WalkIsExact
    <2> SUFFICES ASSUME ListingInv PROVE WalkIsExact
        OBVIOUS
    <2>1. Exact(walk) /\ walk.seen \in Seq(Jobs)
        BY DEF ListingInv, ListingTyped, WalkRecord
    <2>2. DOMAIN walk.seen = 1..Len(walk.seen)
        BY <2>1
    <2>3. \A j : (\E n \in 1..Len(walk.seen) : walk.seen[n] = j) => j \in Range(walk.seen)
        BY <2>2 DEF Range
    <2> QED
        BY <2>1, <2>2, <2>3 DEF WalkIsExact, Exact, IsInjective
<1> QED
    BY <1>1, <1>2, <1>3, PTL DEF Spec

(* Failed statements are counted.                                          *)
LEMMA FaultsAreCounted ==
    /\ Init => faults \in Nat
    /\ faults \in Nat /\ [Next]_vars => faults' \in Nat
<1>1. Init => faults \in Nat
    BY DEF Init, ListingInit
<1>2. ASSUME faults \in Nat, [Next]_vars PROVE faults' \in Nat
    <2>1. ListingNext \/ UNCHANGED listingVars
        BY <1>2 DEF Next, vars, streamVars, listingVars, catalogVars
    <2>2. faults' = faults \/ faults' = faults + 1
        BY <2>1 DEF ListingNext, ListJobs, Count, Select, StatementFails, Write, listingVars
    <2> QED
        BY <1>2, <2>2
<1> QED
    BY <1>1, <1>2

(* Every page of the listing whose offset fits holds the jobs its number   *)
(* and its size stand for.                                                 *)
THEOREM PagesAreExact == Spec => PageIsExact
<1> DEFINE A == query.stage = "select" /\ faults' = faults /\ query'.stage # "select"
                    /\ ~Overflows(QueryPage, QuerySize) =>
                /\ query'.stage = "answered"
                /\ ~query.moved => query'.total = Cardinality(Listed(table))
                /\ Range(query'.items) = {j \in Listed(table) :
                       Rank(j) \in ((query'.page - 1) * query'.size)..(query'.page * query'.size - 1)}
                /\ \A m, n \in DOMAIN query'.items :
                       m < n => JobBefore(query'.items[m], query'.items[n])
<1>1. Init => ListingInv /\ faults \in Nat
    BY ListingInvInit, FaultsAreCounted
<1>2. (ListingInv /\ faults \in Nat) /\ [Next]_vars => (ListingInv /\ faults \in Nat)'
    BY ListingInvNext, FaultsAreCounted
<1>3. (ListingInv /\ faults \in Nat) /\ [Next]_vars => [A]_listingVars
    <2> SUFFICES ASSUME ListingInv, faults \in Nat, Next, query.stage = "select", faults' = faults,
                        query'.stage # "select", ~Overflows(QueryPage, QuerySize)
                 PROVE  /\ query'.stage = "answered"
                        /\ ~query.moved => query'.total = Cardinality(Listed(table))
                        /\ Range(query'.items) = {j \in Listed(table) :
                               Rank(j) \in ((query'.page - 1) * query'.size)
                                              ..(query'.page * query'.size - 1)}
                        /\ \A m, n \in DOMAIN query'.items :
                               m < n => JobBefore(query'.items[m], query'.items[n])
        BY DEF vars, listingVars
    <2>1. table \in Tables /\ query \in QueryRecord
        BY DEF ListingInv, ListingTyped, Tables
    <2>2. Select
        <3>1. ListingNext
            <4>1. ListingNext \/ UNCHANGED listingVars
                BY DEF Next
            <4> QED
                BY <4>1 DEF listingVars
        <3>2. \A j \in Jobs, row \in Row \cup {NoRow} : ~Write(j, row)
            BY <2>1 DEF Write, QueryRecord
        <3>3. ~StatementFails
            <4>1. faults + 1 # faults
                OBVIOUS
            <4> QED
                BY <4>1 DEF StatementFails
        <3> QED
            BY <3>1, <3>2, <3>3 DEF ListingNext, ListJobs, Count
    <2> DEFINE offset == Offset(QueryPage, QuerySize)
               a == ShownPage(query.transport, query.rawPage)
               b == ShownSize(query.transport, query.rawSize)
    <2>3. /\ query.transport \in Transports /\ query.rawPage \in Signed
          /\ query.rawSize \in Signed
        BY <2>1 DEF QueryRecord
    <2>4. a = QueryPage /\ b = QuerySize
        BY <2>3, PageAndSize DEF QueryPage, QuerySize
    <2>5. QueryPage \in Nat /\ QuerySize \in Nat /\ QueryPage >= 1
        BY <2>3, PageAndSize, PageArithmetic DEF QueryPage, QuerySize
    <2>6. offset = (QueryPage - 1) * QuerySize
        BY DEF Overflows
    <2>7. offset >= 0 /\ QueryPage * QuerySize = offset + QuerySize
        BY <2>5, <2>6
    <2>8. /\ SelectItems \in Seq(Jobs) /\ Ascending(SelectItems, JobOrder(table))
          /\ \A x : (\E m \in 1..Len(SelectItems) : SelectItems[m] = x)
                  <=> x \in Listed(table) /\ RankIn(table, x) \in offset..(offset + QuerySize - 1)
        BY <2>1, <2>7, SelectedItems
    <2>9. offset \in Int
        BY <2>5, <2>6
    <2>10. query' = [query EXCEPT !.stage = "answered", !.items = SelectItems,
                                  !.page = a, !.size = b]
        BY <2>2, <2>7, <2>9 DEF Select, SelectItems
    <2> HIDE DEF offset, a, b
    <2>11. /\ query'.stage = "answered" /\ query'.items = SelectItems
           /\ query'.page = QueryPage /\ query'.size = QuerySize /\ query'.total = query.total
        BY <2>1, <2>4, <2>10 DEF QueryRecord
    <2>12. ~query.moved => query'.total = Cardinality(Listed(table))
        BY <2>11 DEF ListingInv
    <2>13. DOMAIN SelectItems = 1..Len(SelectItems) /\ Listed(table) \subseteq Jobs
        BY <2>1, <2>8, TableRows
    <2>14. \A j \in Listed(table) : Rank(j) = RankIn(table, j)
        BY <2>1, <2>13, SortedJobs
    <2>15. Range(SelectItems) = {j \in Listed(table) :
               Rank(j) \in ((QueryPage - 1) * QuerySize)..(QueryPage * QuerySize - 1)}
        <3>1. ((QueryPage - 1) * QuerySize)..(QueryPage * QuerySize - 1)
                = offset..(offset + QuerySize - 1)
            <4>1. QueryPage * QuerySize - 1 = offset + QuerySize - 1
                BY <2>5, <2>7, <2>9
            <4> QED
                BY <2>6, <4>1, Zenon
        <3>2. Range(SelectItems) =
                  {j \in Listed(table) : Rank(j) \in offset..(offset + QuerySize - 1)}
            <4>1. \A x : x \in Range(SelectItems)
                             <=> \E m \in 1..Len(SelectItems) : SelectItems[m] = x
                BY <2>13 DEF Range
            <4>2. \A x : x \in Range(SelectItems) <=>
                      x \in Listed(table) /\ RankIn(table, x) \in offset..(offset + QuerySize - 1)
                BY <2>8, <4>1
            <4> QED
                BY <2>14, <4>2
        <3> QED
            BY <3>1, <3>2
    <2>16. \A m, n \in DOMAIN SelectItems :
               m < n => JobBefore(SelectItems[m], SelectItems[n])
        <3> SUFFICES ASSUME NEW m \in DOMAIN SelectItems, NEW n \in DOMAIN SelectItems, m < n
                     PROVE  JobBefore(SelectItems[m], SelectItems[n])
            OBVIOUS
        <3>1. SelectItems[m] \in Jobs /\ SelectItems[n] \in Jobs
            BY <2>8
        <3>2. <<SelectItems[m], SelectItems[n]>> \in JobOrder(table)
            BY <2>8 DEF Ascending
        <3> QED
            BY <2>1, <3>1, <3>2, SortedJobs
    <2> QED
        BY <2>11, <2>12, <2>15, <2>16
<1> QED
    BY <1>1, <1>2, <1>3, PTL DEF Spec, PageIsExact
-----------------------------------------------------------------------------
(* A function over 0..L can be defined by recursion: from b, the step g[n] *)
(* leads to its value at n.                                                *)
Steps(D, L) == [1..L -> [D -> D]]
Follows(f, D, m, b, g) ==
    f \in [0..m -> D] /\ f[0] = b /\ \A n \in 1..m : f[n] = g[n][f[n - 1]]

(* Every such recursion has a solution.                                    *)
LEMMA Recursion ==
    ASSUME NEW D, NEW L \in Nat, NEW b \in D, NEW g \in Steps(D, L)
    PROVE  \E f : Follows(f, D, L, b, g)
<1> DEFINE Good(m, f) == Follows(f, D, m, b, g)
           S == {m \in Nat : m <= L => \E f : Good(m, f)}
<1>1. 0 \in S
    <2> DEFINE f == [n \in 0..0 |-> b]
    <2>1. f \in [0..0 -> D] /\ f[0] = b /\ \A n \in 1..0 : f[n] = g[n][f[n - 1]]
        OBVIOUS
    <2>2. Good(0, f)
        BY <2>1 DEF Follows
    <2> QED
        BY <2>2
<1>2. ASSUME NEW m \in Nat, m \in S PROVE m + 1 \in S
    <2>1. SUFFICES ASSUME m + 1 <= L PROVE \E f : Good(m + 1, f)
        OBVIOUS
    <2>2. m <= L
        BY <2>1
    <2>3. PICK h : Good(m, h)
        BY <1>2, <2>2
    <2> DEFINE f == [n \in 0..(m + 1) |-> IF n = m + 1 THEN g[m + 1][h[m]] ELSE h[n]]
    <2>4. h \in [0..m -> D] /\ h[0] = b /\ \A n \in 1..m : h[n] = g[n][h[n - 1]]
        BY <2>3 DEF Follows
    <2>5. m + 1 \in 1..L /\ m \in 0..m /\ h[m] \in D
        BY <2>1, <2>4
    <2>6. g[m + 1][h[m]] \in D
        <3>1. g[m + 1] \in [D -> D]
            BY <2>5 DEF Steps
        <3> QED
            BY <2>5, <3>1
    <2>7. f \in [0..(m + 1) -> D]
        BY <2>4, <2>6
    <2>8. f[0] = b /\ \A n \in 0..m : f[n] = h[n]
        BY <2>4
    <2>9. f[m + 1] = g[m + 1][h[m]]
        OBVIOUS
    <2> HIDE DEF f
    <2>10. ASSUME NEW n \in 1..(m + 1) PROVE f[n] = g[n][f[n - 1]]
        <3>1. CASE n = m + 1
            <4>1. n - 1 = m
                BY <3>1
            <4> QED
                BY <2>5, <2>8, <2>9, <3>1, <4>1
        <3>2. CASE n # m + 1
            <4>1. n \in 1..m /\ n \in 0..m /\ n - 1 \in 0..m
                BY <3>2
            <4> QED
                BY <2>4, <2>8, <4>1
        <3> QED
            BY <3>1, <3>2
    <2>11. Good(m + 1, f)
        BY <2>7, <2>8, <2>10 DEF Follows
    <2> QED
        BY <2>11
<1> HIDE DEF S
<1>3. L \in S
    BY <1>1, <1>2, Induction
<1>4. \E f : Good(L, f)
    BY <1>3 DEF S
<1> QED
    BY <1>4
-----------------------------------------------------------------------------
SummaryMaps == [Datasets -> [title: Titles \cup {NoTitle}, healthy: Nat]]
CatalogTyped == registry \in [Instances -> Metadata]

(* What an instance advertises is a title or none.                         *)
LEMMA TitlesOfInstances ==
    ASSUME CatalogTyped, NEW i \in Instances, NEW c \in Codes
    PROVE  registry[i].title[c] \in Titles \cup {NoTitle}
<1>1. registry[i] \in Metadata
    BY DEF CatalogTyped
<1>2. Down.title[c] = NoTitle
    BY DEF Down
<1>3. [Down EXCEPT !.up = TRUE].title[c] = NoTitle
    BY DEF Down
<1>4. \A t \in [Codes -> Titles \cup {NoTitle}] :
          [up |-> TRUE, parses |-> TRUE, title |-> t].title[c] \in Titles \cup {NoTitle}
    OBVIOUS
<1> QED
    BY <1>1, <1>2, <1>3, <1>4 DEF Metadata

(* Merging an instance into the summaries gives summaries.                 *)
LEMMA MergeTyped ==
    ASSUME CatalogTyped, NEW search, NEW r \in SummaryMaps, NEW i \in Instances
    PROVE  Merge(search, r, i) \in SummaryMaps
<1> SUFFICES ASSUME NEW d \in Datasets
             PROVE  (IF d[1] = ServiceOf[i] /\ Found(search, i, d[2])
                     THEN [title |-> IF r[d].healthy = 0 THEN registry[i].title[d[2]]
                                                         ELSE r[d].title,
                           healthy |-> r[d].healthy + 1]
                     ELSE r[d]) \in [title: Titles \cup {NoTitle}, healthy: Nat]
    BY DEF Merge, SummaryMaps
<1>1. r[d] \in [title: Titles \cup {NoTitle}, healthy: Nat]
    BY DEF SummaryMaps
<1>2. d[2] \in Codes
    BY DEF Datasets
<1>3. registry[i].title[d[2]] \in Titles \cup {NoTitle}
    BY <1>2, TitlesOfInstances
<1>4. r[d].healthy + 1 \in Nat /\ r[d].title \in Titles \cup {NoTitle}
    BY <1>1
<1> QED
    BY <1>1, <1>3, <1>4

(* The loop of summarizeDatasets, step by step.                            *)
LEMMA SummariesUnfold ==
    ASSUME CatalogTyped, NEW search, NEW instances \in Seq(Instances)
    PROVE  /\ \A n \in 0..Len(instances) : Summaries(instances, search)[n] \in SummaryMaps
           /\ Summaries(instances, search)[0] = [d \in Datasets |-> NoSummary]
           /\ \A n \in 1..Len(instances) : Summaries(instances, search)[n] =
                  Merge(search, Summaries(instances, search)[n - 1], instances[n])
<1> DEFINE L == Len(instances)
           b == [d \in Datasets |-> NoSummary]
           g == [n \in 1..L |-> [r \in SummaryMaps |-> Merge(search, r, instances[n])]]
           Step(f) == [n \in 0..L |-> IF n = 0 THEN b ELSE Merge(search, f[n - 1], instances[n])]
<1>1. L \in Nat /\ \A n \in 1..L : instances[n] \in Instances
    OBVIOUS
<1>2. b \in SummaryMaps
    BY DEF SummaryMaps, NoSummary
<1>3. g \in Steps(SummaryMaps, L)
    BY <1>1, MergeTyped DEF Steps
<1>3a. \A n \in 1..L, r \in SummaryMaps : g[n][r] = Merge(search, r, instances[n])
    OBVIOUS
<1> HIDE DEF L, b, g
<1>3b. PICK f : Follows(f, SummaryMaps, L, b, g)
    BY <1>1, <1>2, <1>3, Recursion
<1>4. f \in [0..L -> SummaryMaps] /\ f[0] = b /\ \A n \in 1..L : f[n] = g[n][f[n - 1]]
    BY <1>3b DEF Follows
<1>5. f = Step(f)
    <2>1. \A n \in 0..L : f[n] = IF n = 0 THEN b ELSE Merge(search, f[n - 1], instances[n])
        <3> SUFFICES ASSUME NEW n \in 0..L, n # 0
                     PROVE  f[n] = Merge(search, f[n - 1], instances[n])
            BY <1>4
        <3>1. n \in 1..L /\ n - 1 \in 0..L
            BY <1>1
        <3> QED
            BY <1>3a, <1>4, <3>1
    <2> QED
        BY <1>4, <2>1
<1>6. Summaries(instances, search) = CHOOSE r : r = Step(r)
    BY Zenon DEF Summaries, L, b
<1> DEFINE s == Summaries(instances, search)
<1>7. s = Step(s)
    BY <1>5, <1>6, Zenon
<1> HIDE DEF s
<1>8. /\ s[0] = b
      /\ \A n \in 1..L : s[n] = Merge(search, s[n - 1], instances[n])
    <2>1. \A n \in 0..L : s[n] = IF n = 0 THEN b ELSE Merge(search, s[n - 1], instances[n])
        BY <1>7, Zenon
    <2>2. 0 \in 0..L /\ \A n \in 1..L : n \in 0..L /\ n # 0
        BY <1>1
    <2> QED
        BY <2>1, <2>2
<1> DEFINE T == {n \in Nat : n <= L => s[n] \in SummaryMaps}
<1>9. 0 \in T
    BY <1>2, <1>8
<1>10. ASSUME NEW n \in Nat, n \in T PROVE n + 1 \in T
    <2> SUFFICES ASSUME n + 1 <= L PROVE s[n + 1] \in SummaryMaps
        OBVIOUS
    <2>1. n + 1 \in 1..L /\ n <= L /\ n + 1 - 1 = n
        BY <1>1
    <2>2. s[n] \in SummaryMaps
        BY <1>10, <2>1
    <2>3. s[n + 1] = Merge(search, s[n], instances[n + 1])
        BY <1>8, <2>1
    <2> QED
        BY <1>1, <2>1, <2>2, <2>3, MergeTyped
<1> HIDE DEF T
<1>11. \A n \in Nat : n \in T
    BY <1>9, <1>10, Induction
<1>12. \A n \in 0..L : s[n] \in SummaryMaps
    BY <1>1, <1>11 DEF T
<1> QED
    BY <1>8, <1>12 DEF s, L, b
-----------------------------------------------------------------------------
(* The instances among the first n that offer d under the search.          *)
Offers(search, d, i) == ServiceOf[i] = d[1] /\ Found(search, i, d[2])
Met(instances, search, n, d) ==
    {i \in Instances : (\E k \in 1..n : instances[k] = i) /\ Offers(search, d, i)}

(* After n instances, a dataset has been counted once for each of them     *)
(* that offers it, and has the title one of them gives it.                 *)
CountedAt(instances, search, n) ==
    \A d \in Datasets :
        LET r == Summaries(instances, search)[n][d] IN
        /\ r.healthy = Cardinality(Met(instances, search, n, d))
        /\ r.healthy > 0 => \E i \in Met(instances, search, n, d) :
                                registry[i].title[d[2]] = r.title

(* The loop of summarizeDatasets counts every instance once.               *)
LEMMA SummariesCount ==
    ASSUME CatalogTyped, NEW search, NEW instances \in Seq(Instances), IsInjective(instances),
           NEW n \in 0..Len(instances)
    PROVE  CountedAt(instances, search, n)
<1> DEFINE L == Len(instances)
           s == Summaries(instances, search)
           T == {m \in Nat : m <= L => CountedAt(instances, search, m)}
<1>0. L \in Nat
    OBVIOUS
<1>1. /\ \A m \in 0..L : s[m] \in SummaryMaps
      /\ s[0] = [d \in Datasets |-> NoSummary]
      /\ \A m \in 1..L : s[m] = Merge(search, s[m - 1], instances[m])
    BY SummariesUnfold
<1>2. \A m, d : IsFiniteSet(Met(instances, search, m, d))
    <2> SUFFICES ASSUME NEW m, NEW d PROVE IsFiniteSet(Met(instances, search, m, d))
        OBVIOUS
    <2>1. Met(instances, search, m, d) \in SUBSET Instances
        BY DEF Met
    <2> QED
        BY <2>1, CatalogAssumption, FS_Subset
<1> HIDE DEF s
<1>3. 0 \in T
    <2> SUFFICES ASSUME NEW d \in Datasets
                 PROVE  s[0][d].healthy = 0 /\ Cardinality(Met(instances, search, 0, d)) = 0
        BY DEF CountedAt, s
    <2>1. Met(instances, search, 0, d) = {}
        BY DEF Met
    <2>2. s[0][d].healthy = 0
        BY <1>1 DEF NoSummary
    <2> QED
        BY <2>1, <2>2, FS_EmptySet
<1>4. ASSUME NEW m \in Nat, m \in T PROVE m + 1 \in T
    <2>1. SUFFICES ASSUME m + 1 <= L PROVE CountedAt(instances, search, m + 1)
        OBVIOUS
    <2>2. m + 1 \in 1..L /\ m \in 0..L /\ m <= L /\ m + 1 - 1 = m /\ instances[m + 1] \in Instances
        BY <1>0, <2>1
    <2>3. CountedAt(instances, search, m)
        BY <1>4, <2>2
    <2> DEFINE x == instances[m + 1]
    <2>4. s[m + 1] = Merge(search, s[m], x) /\ s[m] \in SummaryMaps
        BY <1>1, <2>2
    <2>5. \A k \in 1..m : instances[k] # x
        BY <1>0, <2>1 DEF IsInjective
    <2> HIDE DEF x
    <2>6. \A k \in 1..(m + 1) : k \in 1..m \/ k = m + 1
        OBVIOUS
    <2> SUFFICES ASSUME NEW d \in Datasets
                 PROVE  /\ s[m + 1][d].healthy = Cardinality(Met(instances, search, m + 1, d))
                        /\ s[m + 1][d].healthy > 0 =>
                              \E i \in Met(instances, search, m + 1, d) :
                                  registry[i].title[d[2]] = s[m + 1][d].title
        BY DEF CountedAt, s
    <2> DEFINE M == Met(instances, search, m, d)
               r == s[m][d]
    <2>7. /\ r.healthy = Cardinality(M)
          /\ r.healthy > 0 => \E i \in M : registry[i].title[d[2]] = r.title
        BY <2>3 DEF CountedAt, s
    <2>8. s[m + 1][d] = IF d[1] = ServiceOf[x] /\ Found(search, x, d[2])
                        THEN [title |-> IF r.healthy = 0 THEN registry[x].title[d[2]] ELSE r.title,
                              healthy |-> r.healthy + 1]
                        ELSE r
        BY <2>4 DEF Merge
    <2>9. x \notin M
        BY <2>5 DEF Met
    <2>10. r.healthy \in Nat
        BY <2>4 DEF SummaryMaps
    <2>11. IsFiniteSet(M)
        BY <1>2
    <2>12. CASE Offers(search, d, x)
        <3>1. Met(instances, search, m + 1, d) = M \cup {x}
            <4>1. \A i \in M : i \in Met(instances, search, m + 1, d)
                BY DEF Met
            <4>2. x \in Met(instances, search, m + 1, d)
                BY <2>2, <2>12 DEF Met, x
            <4>3. \A i \in Met(instances, search, m + 1, d) : i \in M \/ i = x
                BY <2>6 DEF Met, x
            <4> QED
                BY <4>1, <4>2, <4>3
        <3> HIDE DEF M, r
        <3>2. Cardinality(M \cup {x}) = Cardinality(M) + 1
            BY <2>9, <2>11, FS_AddElement
        <3>3. /\ s[m + 1][d].healthy = r.healthy + 1
              /\ s[m + 1][d].title = IF r.healthy = 0 THEN registry[x].title[d[2]] ELSE r.title
            BY <2>8, <2>12 DEF Offers
        <3>4. CASE r.healthy = 0
            BY <2>7, <3>1, <3>2, <3>3, <3>4
        <3>5. CASE r.healthy # 0
            <4>1. \E i \in M : registry[i].title[d[2]] = r.title
                BY <2>7, <2>10, <3>5
            <4> QED
                BY <2>7, <3>1, <3>2, <3>3, <3>5, <4>1
        <3> QED
            BY <3>4, <3>5
    <2>13. CASE ~Offers(search, d, x)
        <3>1. Met(instances, search, m + 1, d) = M
            <4>1. \A i \in M : i \in Met(instances, search, m + 1, d)
                BY DEF Met
            <4>2. \A i \in Met(instances, search, m + 1, d) : i \in M
                BY <2>6, <2>13 DEF Met, x
            <4> QED
                BY <4>1, <4>2
        <3>2. s[m + 1][d] = r
            BY <2>8, <2>13 DEF Offers
        <3> QED
            BY <2>7, <3>1, <3>2
    <2> QED
        BY <2>12, <2>13
<1> HIDE DEF T
<1>5. \A m \in Nat : m \in T
    BY <1>3, <1>4, Induction
<1> QED
    BY <1>0, <1>5 DEF T

(* Whatever the order of the instances, what is counted in the end is what *)
(* they offer.                                                             *)
LEMMA SummariesAreOffered ==
    ASSUME CatalogTyped, NEW search,
           NEW instances \in (IF discovery THEN Orders(Up) ELSE {<<>>})
    PROVE  /\ instances \in Seq(Instances)
           /\ Summaries(instances, search)[Len(instances)] \in SummaryMaps
           /\ \A d \in Datasets :
                LET r == Summaries(instances, search)[Len(instances)][d] IN
                /\ IsFiniteSet(Offering(search, d))
                /\ r.healthy = Cardinality(Offering(search, d))
                /\ r.healthy > 0 => \E i \in Offering(search, d) :
                                        registry[i].title[d[2]] = r.title
<1> DEFINE L == Len(instances)
<1>1. Up \in SUBSET Instances /\ IsFiniteSet(Up) /\ Cardinality(Up) \in Nat
    <2>1. Up \in SUBSET Instances
        BY DEF Up
    <2>2. IsFiniteSet(Up)
        BY <2>1, CatalogAssumption, FS_Subset
    <2> QED
        BY <2>1, <2>2, FS_CardinalityType
<1>2. /\ instances \in Seq(Instances) /\ IsInjective(instances)
      /\ \A i \in Instances : (\E k \in 1..L : instances[k] = i) <=> discovery /\ i \in Up
    <2>1. CASE discovery
        <3>1. instances \in [1..Cardinality(Up) -> Up] /\ IsInjective(instances)
            BY <2>1 DEF Orders
        <3>2. instances \in Seq(Instances) /\ L = Cardinality(Up)
            BY <1>1, <3>1
        <3>3. IsFiniteSet(1..Cardinality(Up)) /\ Cardinality(1..Cardinality(Up)) = Cardinality(Up)
            BY <1>1, FS_Interval
        <3>4. instances \in Injection(1..Cardinality(Up), Up)
            BY <3>1 DEF Injection
        <3>5. instances \in Surjection(1..Cardinality(Up), Up)
            BY <1>1, <3>3, <3>4, FS_Injection
        <3>6. \A i \in Up : \E k \in 1..Cardinality(Up) : instances[k] = i
            BY <3>5 DEF Surjection
        <3> QED
            BY <2>1, <3>1, <3>2, <3>6
    <2>2. CASE ~discovery
        <3>1. instances = <<>>
            BY <2>2
        <3> QED
            BY <2>2, <3>1 DEF IsInjective
    <2> QED
        BY <2>1, <2>2
<1>3. L \in Nat /\ L \in 0..L
    BY <1>2
<1>4. Summaries(instances, search)[L] \in SummaryMaps
    BY <1>2, <1>3, SummariesUnfold
<1>5. CountedAt(instances, search, L)
    BY <1>2, <1>3, SummariesCount
<1>6. ASSUME NEW d \in Datasets
      PROVE  Met(instances, search, L, d) = Offering(search, d)
    BY <1>2 DEF Met, Offering, Offers, Up
<1>7. ASSUME NEW d \in Datasets PROVE IsFiniteSet(Offering(search, d))
    <2>1. Offering(search, d) \in SUBSET Up
        BY DEF Offering
    <2> QED
        BY <1>1, <2>1, FS_Subset
<1> QED
    BY <1>2, <1>4, <1>5, <1>6, <1>7 DEF CountedAt
-----------------------------------------------------------------------------
(* Services and codes order the datasets totally.                          *)
DatasetOrder == {x \in Datasets \X Datasets : DatasetBefore(x[1], x[2])}

(* The order of the datasets is strict and total.                          *)
LEMMA DatasetOrderIsStrict ==
    ASSUME NEW S \in SUBSET Datasets
    PROVE  IsFiniteSet(S) /\ StrictOrder(S, DatasetOrder)
<1>1. ASSUME NEW d \in Datasets PROVE d[1] \in Nat /\ d[2] \in Nat /\ d = <<d[1], d[2]>>
    <2>1. d[1] \in Services /\ d[2] \in Codes /\ d = <<d[1], d[2]>>
        BY DEF Datasets
    <2>2. \A i \in Instances : ServiceOf[i] \in Nat
        BY CatalogAssumption
    <2>3. d[1] \in Nat
        BY <2>1, <2>2 DEF Services
    <2>4. \A c \in Codes : c \in Nat
        BY CatalogAssumption
    <2> QED
        BY <2>1, <2>3, <2>4
<1>2. IsFiniteSet(S)
    <2> DEFINE f == [i \in Instances |-> ServiceOf[i]]
    <2>1. f \in Surjection(Instances, Services)
        BY DEF Surjection, Services
    <2>2. IsFiniteSet(Services)
        BY <2>1, CatalogAssumption, FS_Surjection
    <2>3. IsFiniteSet(Codes)
        BY CatalogAssumption
    <2>4. IsFiniteSet(Datasets)
        BY <2>2, <2>3, FS_Product DEF Datasets
    <2> QED
        BY <2>4, FS_Subset
<1>3. ASSUME NEW a \in Datasets, NEW b \in Datasets
      PROVE  <<a, b>> \in DatasetOrder <=> a[1] < b[1] \/ (a[1] = b[1] /\ a[2] < b[2])
    BY DEF DatasetOrder, DatasetBefore
<1>4. ASSUME NEW a \in S PROVE ~(<<a, a>> \in DatasetOrder)
    BY <1>1, <1>3
<1>5. ASSUME NEW a \in S, NEW b \in S, NEW c \in S,
             <<a, b>> \in DatasetOrder, <<b, c>> \in DatasetOrder
      PROVE  <<a, c>> \in DatasetOrder
    <2>1. a[1] < b[1] \/ (a[1] = b[1] /\ a[2] < b[2])
        BY <1>3, <1>5
    <2>2. b[1] < c[1] \/ (b[1] = c[1] /\ b[2] < c[2])
        BY <1>3, <1>5
    <2>3. a[1] < c[1] \/ (a[1] = c[1] /\ a[2] < c[2])
        BY <1>1, <2>1, <2>2
    <2> QED
        BY <1>3, <2>3
<1>6. ASSUME NEW a \in S, NEW b \in S, a # b
      PROVE  <<a, b>> \in DatasetOrder \/ <<b, a>> \in DatasetOrder
    <2>1. a[1] # b[1] \/ a[2] # b[2]
        BY <1>1, <1>6
    <2> QED
        BY <1>1, <1>3, <2>1
<1> QED
    BY <1>2, <1>4, <1>5, <1>6 DEF StrictOrder

(* A set of datasets has one sorted list, which Sorted finds.              *)
LEMMA SortedDatasets ==
    ASSUME NEW S \in SUBSET Datasets
    PROVE  /\ Sorted(S, DatasetBefore) \in SetToSeqs(S)
           /\ Ascending(Sorted(S, DatasetBefore), DatasetOrder)
           /\ \A a, b \in Datasets : DatasetBefore(a, b) <=> <<a, b>> \in DatasetOrder
<1>1. \A a, b \in Datasets : DatasetBefore(a, b) <=> <<a, b>> \in DatasetOrder
    BY DEF DatasetOrder
<1>2. IsFiniteSet(S) /\ StrictOrder(S, DatasetOrder)
    BY DatasetOrderIsStrict
<1>3. PICK s \in SetToSeqs(S) : Ascending(s, DatasetOrder)
    BY <1>2, SortExists
<1>4. \A x \in SetToSeqs(S) : \A m \in DOMAIN x : x[m] \in Datasets
    BY DEF SetToSeqs
<1>5. \A x \in SetToSeqs(S) :
          (\A m, n \in DOMAIN x : m < n => DatasetBefore(x[m], x[n])) <=> Ascending(x, DatasetOrder)
    BY <1>1, <1>4, Zenon DEF Ascending
<1>6. Sorted(S, DatasetBefore) = CHOOSE x \in SetToSeqs(S) :
          \A m, n \in DOMAIN x : m < n => DatasetBefore(x[m], x[n])
    BY DEF Sorted
<1>7. /\ Sorted(S, DatasetBefore) \in SetToSeqs(S)
      /\ \A m, n \in DOMAIN Sorted(S, DatasetBefore) :
            m < n => DatasetBefore(Sorted(S, DatasetBefore)[m], Sorted(S, DatasetBefore)[n])
    BY <1>3, <1>5, <1>6, Zenon
<1>8. Ascending(Sorted(S, DatasetBefore), DatasetOrder)
    BY <1>5, <1>7, Zenon
<1> QED
    BY <1>1, <1>7, <1>8

(* The summary of a dataset as an item of the list.                        *)
Item(r, d) == [dataset |-> d, title |-> r[d].title, healthy |-> r[d].healthy]
Items == [dataset: Datasets, title: Titles \cup {NoTitle}, healthy: Nat]

(* What summarizeDatasets returns: an item for each dataset offered, in    *)
(* order.                                                                  *)
LEMMA SummaryList ==
    ASSUME CatalogTyped, NEW search,
           NEW instances \in (IF discovery THEN Orders(Up) ELSE {<<>>})
    PROVE  \E r \in SummaryMaps :
           /\ \A d \in Offered(search) :
                /\ r[d].healthy = Cardinality(Offering(search, d))
                /\ \E i \in Offering(search, d) : registry[i].title[d[2]] = r[d].title
           /\ Cardinality(Offered(search)) \in Nat
           /\ summarizeDatasets(instances, search) =
                [n \in 1..Cardinality(Offered(search)) |->
                    Item(r, Sorted(Offered(search), DatasetBefore)[n])]
<1> DEFINE r == Summaries(instances, search)[Len(instances)]
           found == {d \in Datasets : r[d].healthy > 0}
<1>1. r \in SummaryMaps /\ \A d \in Datasets :
          /\ IsFiniteSet(Offering(search, d))
          /\ r[d].healthy = Cardinality(Offering(search, d))
          /\ r[d].healthy > 0 => \E i \in Offering(search, d) :
                                     registry[i].title[d[2]] = r[d].title
    BY SummariesAreOffered
<1>2. summarizeDatasets(instances, search) =
          [n \in 1..Cardinality(found) |-> Item(r, Sorted(found, DatasetBefore)[n])]
    BY DEF summarizeDatasets, Item
<1>3. \A d \in Datasets : r[d].healthy > 0 <=> Offering(search, d) # {}
    <2> SUFFICES ASSUME NEW d \in Datasets PROVE r[d].healthy > 0 <=> Offering(search, d) # {}
        OBVIOUS
    <2>1. r[d].healthy = Cardinality(Offering(search, d)) /\ IsFiniteSet(Offering(search, d))
        BY <1>1
    <2>2. Cardinality(Offering(search, d)) \in Nat
        BY <2>1, FS_CardinalityType
    <2>3. Cardinality(Offering(search, d)) = 0 <=> Offering(search, d) = {}
        BY <2>1, FS_EmptySet
    <2> QED
        BY <2>1, <2>2, <2>3
<1>4. found = Offered(search)
    BY <1>3 DEF Offered
<1>5. Offered(search) \in SUBSET Datasets
    BY DEF Offered
<1>6. Cardinality(Offered(search)) \in Nat
    BY <1>5, DatasetOrderIsStrict, FS_CardinalityType
<1>7. \A d \in Offered(search) :
          /\ r[d].healthy = Cardinality(Offering(search, d))
          /\ \E i \in Offering(search, d) : registry[i].title[d[2]] = r[d].title
    BY <1>1, <1>3, <1>5 DEF Offered
<1>8. summarizeDatasets(instances, search) =
          [n \in 1..Cardinality(Offered(search)) |->
              Item(r, Sorted(Offered(search), DatasetBefore)[n])]
    BY <1>2, <1>4
<1> HIDE DEF r, found
<1> QED
    BY <1>1, <1>6, <1>7, <1>8
-----------------------------------------------------------------------------
DatasetRank(search, d) == Cardinality({e \in Offered(search) : DatasetBefore(e, d)})

(* What CatalogIsExact says of an answer v of Catalog.List.                *)
AnswerIsExact(v, search) ==
    /\ v.stage = "answered"
    /\ v.total = Cardinality(Offered(search))
    /\ {v.items[n].dataset : n \in DOMAIN v.items} =
           {d \in Offered(search) : DatasetRank(search, d) \in
               ((v.page - 1) * v.size)..(v.page * v.size - 1)}
    /\ \A n \in DOMAIN v.items :
           /\ v.items[n].healthy = Cardinality(Offering(search, v.items[n].dataset))
           /\ \E i \in Offering(search, v.items[n].dataset) :
                  registry[i].title[v.items[n].dataset[2]] = v.items[n].title
           /\ n > 1 => DatasetBefore(v.items[n - 1].dataset, v.items[n].dataset)

(* The page Catalog.List cuts out of the sorted list is exact.             *)
LEMMA PageAnswer ==
    ASSUME CatalogTyped, NEW search,
           NEW instances \in (IF discovery THEN Orders(Up) ELSE {<<>>}),
           NEW page \in 1..(Half - 1), NEW size \in 1..MaxSize,
           ~Overflows(page, size)
    PROVE  AnswerIsExact(Page(summarizeDatasets(instances, search), search, page, size), search)
<1> DEFINE S == Offered(search)
           N == Cardinality(S)
           R == DatasetOrder
           list == Sorted(S, DatasetBefore)
           values == summarizeDatasets(instances, search)
           start == Offset(page, size)
           ds == Slice(list, start, size)
           k == SliceLength(N, start, size)
           v == Page(values, search, page, size)
<1>1. PICK r \in SummaryMaps :
          /\ \A d \in S : /\ r[d].healthy = Cardinality(Offering(search, d))
                          /\ \E i \in Offering(search, d) : registry[i].title[d[2]] = r[d].title
          /\ N \in Nat
          /\ values = [n \in 1..N |-> Item(r, list[n])]
    BY SummaryList
<1>2. S \in SUBSET Datasets
    BY DEF Offered
<1>3. IsFiniteSet(S) /\ StrictOrder(S, R) /\ list \in SetToSeqs(S) /\ Ascending(list, R)
        /\ \A a, b \in Datasets : DatasetBefore(a, b) <=> <<a, b>> \in R
    BY <1>2, DatasetOrderIsStrict, SortedDatasets
<1>4. Half \in Nat /\ MaxSize \in Nat /\ page \in Nat /\ size \in Nat /\ page >= 1 /\ size >= 1
    BY PageArithmetic
<1>5. start = (page - 1) * size
    BY DEF Overflows
<1>6. start \in Nat /\ page * size = start + size
    BY <1>4, <1>5
<1> HIDE DEF S, N, R, list, values, start
<1>7. list \in Seq(S) /\ Len(list) = N
    BY <1>1, <1>3 DEF SetToSeqs, N
<1>7a. ds = Slice(list, start, size) /\ k = SliceLength(Len(list), start, size)
    BY <1>7
<1> HIDE DEF ds, k, v
<1>8. /\ k \in Nat /\ ds \in Seq(S) /\ Len(ds) = k
      /\ \A m \in 1..k : start + m \in 1..N /\ ds[m] = list[start + m]
    <2>1. list \in Seq(S) /\ start \in Nat /\ size \in Nat
        BY <1>4, <1>6, <1>7
    <2>2. /\ SliceLength(Len(list), start, size) \in Nat
          /\ Slice(list, start, size) \in Seq(S)
          /\ Len(Slice(list, start, size)) = SliceLength(Len(list), start, size)
          /\ \A m \in 1..SliceLength(Len(list), start, size) :
                 start + m \in 1..Len(list) /\ Slice(list, start, size)[m] = list[start + m]
        BY <2>1, SliceElements
    <2> QED
        BY <1>7, <1>7a, <2>2
<1>9. /\ Ascending(ds, R)
      /\ \A x : (\E m \in 1..Len(ds) : ds[m] = x)
                    <=> x \in S /\ Place(S, R, x) \in start..(start + size - 1)
    BY <1>3, <1>4, <1>6, <1>7a, SliceOfSorted
<1>10. values \in Seq(Items) /\ Len(values) = N
    <2>1. \A n \in 1..N : list[n] \in S
        BY <1>1, <1>7
    <2>2. \A n \in 1..N : Item(r, list[n]) \in Items
        <3> SUFFICES ASSUME NEW d \in S PROVE Item(r, d) \in Items
            BY <2>1
        <3>1. d \in Datasets
            BY <1>2
        <3>2. r[d].title \in Titles \cup {NoTitle} /\ r[d].healthy \in Nat
            BY <3>1 DEF SummaryMaps
        <3> QED
            BY <3>1, <3>2 DEF Item, Items
    <2> QED
        BY <1>1, <2>2
<1>11. /\ v.stage = "answered" /\ v.total = N /\ v.page = page /\ v.size = size
       /\ v.items = IF start \in 0..(N - 1) THEN Slice(values, start, size) ELSE <<>>
    BY <1>6, <1>10 DEF v, Page, start
<1>12. /\ DOMAIN v.items = 1..k
       /\ \A m \in 1..k : v.items[m] = values[start + m]
    <2>1. CASE start \in 0..(N - 1)
        <3>1. v.items = Slice(values, start, size)
            BY <1>11, <2>1
        <3>2. /\ Slice(values, start, size) \in Seq(Items)
              /\ Len(Slice(values, start, size)) = k
              /\ \A m \in 1..k : Slice(values, start, size)[m] = values[start + m]
            <4>1. k = SliceLength(Len(values), start, size)
                BY <1>7, <1>7a, <1>10
            <4> QED
                <5>1. values \in Seq(Items) /\ start \in Nat /\ size \in Nat
                    BY <1>4, <1>6, <1>10
                <5>2. /\ Slice(values, start, size) \in Seq(Items)
                      /\ Len(Slice(values, start, size)) = SliceLength(Len(values), start, size)
                      /\ \A m \in 1..SliceLength(Len(values), start, size) :
                             Slice(values, start, size)[m] = values[start + m]
                    BY <5>1, SliceElements
                <5> QED
                    BY <4>1, <5>2
        <3> QED
            BY <3>1, <3>2
    <2>2. CASE start \notin 0..(N - 1)
        <3>1. v.items = <<>>
            BY <1>11, <2>2
        <3>2. k = 0
            BY <1>1, <1>4, <1>6, <2>2 DEF k, SliceLength
        <3> QED
            BY <3>1, <3>2
    <2> QED
        BY <2>1, <2>2
<1>13. \A m \in 1..k : v.items[m] = Item(r, ds[m])
    BY <1>1, <1>8, <1>12
<1>14. \A m \in 1..k : ds[m] \in S /\ ds[m] \in Datasets
    BY <1>2, <1>8
<1>15. \A m \in 1..k : /\ v.items[m].dataset = ds[m] /\ v.items[m].title = r[ds[m]].title
                       /\ v.items[m].healthy = r[ds[m]].healthy
    <2> SUFFICES ASSUME NEW m \in 1..k
                 PROVE  /\ v.items[m].dataset = ds[m] /\ v.items[m].title = r[ds[m]].title
                        /\ v.items[m].healthy = r[ds[m]].healthy
        OBVIOUS
    <2>1. v.items[m] = Item(r, ds[m])
        BY <1>13
    <2> QED
        BY <2>1 DEF Item
<1>16. \A d \in S : DatasetRank(search, d) = Place(S, R, d)
    <2> SUFFICES ASSUME NEW d \in S PROVE DatasetRank(search, d) = Place(S, R, d)
        OBVIOUS
    <2>1. {e \in S : DatasetBefore(e, d)} = Below(S, R, d)
        BY <1>2, <1>3 DEF Below
    <2> QED
        BY <2>1 DEF DatasetRank, Place, S
<1>17. {v.items[n].dataset : n \in DOMAIN v.items} =
           {d \in S : DatasetRank(search, d) \in ((page - 1) * size)..(page * size - 1)}
    <2>1. ((page - 1) * size)..(page * size - 1) = start..(start + size - 1)
        <3>1. page * size - 1 = start + size - 1
            BY <1>4, <1>6
        <3> QED
            BY <1>5, <3>1, Zenon
    <2>2. \A d : d \in {v.items[n].dataset : n \in DOMAIN v.items}
                   <=> \E m \in 1..Len(ds) : ds[m] = d
        <3>1. DOMAIN v.items = 1..k /\ Len(ds) = k
            BY <1>8, <1>12
        <3>2. \A m \in 1..k : v.items[m].dataset = ds[m]
            BY <1>15
        <3> QED
            BY <3>1, <3>2, Zenon
    <2>3. \A d : d \in {v.items[n].dataset : n \in DOMAIN v.items}
                   <=> d \in S /\ Place(S, R, d) \in start..(start + size - 1)
        BY <1>9, <2>2
    <2>4. \A d : d \in {v.items[n].dataset : n \in DOMAIN v.items}
                   <=> d \in S /\ DatasetRank(search, d) \in start..(start + size - 1)
        BY <1>16, <2>3
    <2>5. {v.items[n].dataset : n \in DOMAIN v.items}
              = {d \in S : DatasetRank(search, d) \in start..(start + size - 1)}
        BY <2>4
    <2> QED
        BY <2>1, <2>5
<1>18. ASSUME NEW n \in 1..k
       PROVE  /\ v.items[n].healthy = Cardinality(Offering(search, v.items[n].dataset))
              /\ \E i \in Offering(search, v.items[n].dataset) :
                     registry[i].title[v.items[n].dataset[2]] = v.items[n].title
    BY <1>1, <1>14, <1>15
<1>19. ASSUME NEW n \in 1..k, n > 1
       PROVE  DatasetBefore(v.items[n - 1].dataset, v.items[n].dataset)
    <2>1. n - 1 \in 1..k /\ n - 1 < n
        BY <1>8, <1>19
    <2>2. <<ds[n - 1], ds[n]>> \in R
        <3>1. DOMAIN ds = 1..k
            BY <1>8
        <3> QED
            BY <1>9, <2>1, <3>1 DEF Ascending
    <2>3. DatasetBefore(ds[n - 1], ds[n])
        BY <1>3, <1>14, <2>1, <2>2
    <2> QED
        BY <1>15, <2>1, <2>3
<1>20. AnswerIsExact(v, search)
    BY <1>11, <1>12, <1>17, <1>18, <1>19 DEF AnswerIsExact, S, N
<1> QED
    BY <1>20 DEF v, values

(* Discovery keeps a registry.                                             *)
LEMMA CatalogTypedKept ==
    /\ Init => CatalogTyped
    /\ CatalogTyped /\ [Next]_vars => CatalogTyped'
<1>1. Init => CatalogTyped
    BY DEF Init, CatalogInit, CatalogTyped
<1>2. ASSUME CatalogTyped, [Next]_vars PROVE CatalogTyped'
    <2>1. Down \in Metadata
        BY DEF Metadata
    <2>2. CASE registry' = registry
        BY <1>2, <2>2 DEF CatalogTyped
    <2>3. ASSUME NEW i \in Instances, NEW m \in Metadata, Register(i, m) PROVE CatalogTyped'
        BY <1>2, <2>3 DEF CatalogTyped, Register
    <2>4. ASSUME NEW good \in BOOLEAN, Described(good) PROVE CatalogTyped'
        BY <1>2, <2>1, <2>4 DEF CatalogTyped, Described
    <2>5. CatalogNext \/ registry' = registry
        BY <1>2 DEF Next, vars, catalogVars
    <2>6. CASE CatalogNext
        BY <2>2, <2>3, <2>4, <2>6 DEF CatalogNext, ListDatasets, ListFails, Describe
    <2> QED
        BY <2>2, <2>5, <2>6
<1> QED
    BY <1>1, <1>2

(* Every page of the catalog whose offset fits is exact: summarizeDatasets *)
(* and Catalog.List, whatever the instances and the order discovery gives. *)
THEOREM CatalogsAreExact == Spec => CatalogIsExact
<1> DEFINE A == \A search \in Searches :
        listing'.stage \in {"answered", "panic"} /\ listing'.search = search
            /\ ~Overflows(listing'.page, listing'.size) =>
        LET items == listing'.items
            rank(d) == Cardinality({e \in Offered(search) : DatasetBefore(e, d)}) IN
        /\ listing'.stage = "answered"
        /\ listing'.total = Cardinality(Offered(search))
        /\ {items[n].dataset : n \in DOMAIN items} =
               {d \in Offered(search) : rank(d) \in
                   ((listing'.page - 1) * listing'.size)..(listing'.page * listing'.size - 1)}
        /\ \A n \in DOMAIN items :
               LET d == items[n].dataset IN
               /\ items[n].healthy = Cardinality(Offering(search, d))
               /\ \E i \in Offering(search, d) : registry[i].title[d[2]] = items[n].title
               /\ n > 1 => DatasetBefore(items[n - 1].dataset, d)
<1>1. Init => CatalogTyped
    BY CatalogTypedKept
<1>2. CatalogTyped /\ [Next]_vars => CatalogTyped'
    BY CatalogTypedKept
<1>3. CatalogTyped /\ [Next]_vars => [A]_catalogVars
    <2> SUFFICES ASSUME CatalogTyped, Next, CatalogNext, NEW search \in Searches,
                        listing'.stage \in {"answered", "panic"}, listing'.search = search,
                        ~Overflows(listing'.page, listing'.size)
                 PROVE  AnswerIsExact(listing', search)
        BY DEF vars, catalogVars, Next, AnswerIsExact, DatasetRank
    <2>1. /\ NoListing.stage = "none"
          /\ [NoListing EXCEPT !.stage = "unavailable"].stage = "unavailable"
        BY DEF NoListing
    <2>2. PICK transport \in Transports, term \in Searches :
              \E page \in AskedPages \cap Sent(transport) :
                  \E size \in AskedSizes \cap Sent(transport) :
                      ListDatasets(transport, term, page, size)
        BY <2>1 DEF CatalogNext, ListFails, Describe, Described, Register
    <2>3. PICK a \in Sent(transport), b \in Sent(transport) : ListDatasets(transport, term, a, b)
        BY <2>2
    <2> DEFINE page == PageOf(Received(transport, a))
               size == SizeOf(Received(transport, b))
    <2>4. page \in 1..(Half - 1) /\ size \in 1..MaxSize
        BY PageAndSize
    <2>5. PICK instances \in (IF discovery THEN Orders(Up) ELSE {<<>>}) :
              listing' = [Page(summarizeDatasets(instances, term), term, page, size)
                             EXCEPT !.stage = IF discovery THEN @ ELSE "answered"]
        BY <2>3 DEF ListDatasets
    <2> HIDE DEF page, size
    <2>6. PICK v : v = Page(summarizeDatasets(instances, term), term, page, size)
        OBVIOUS
    <2>7. /\ listing' = [v EXCEPT !.stage = IF discovery THEN @ ELSE "answered"]
          /\ \E items, total : v = [stage |-> v.stage, search |-> term, items |-> items,
                                   total |-> total, page |-> page, size |-> size]
        BY <2>5, <2>6 DEF Page
    <2>8. /\ listing'.search = term /\ listing'.page = page /\ listing'.size = size
          /\ v.stage = "answered" => listing' = v
        BY <2>7
    <2>9. AnswerIsExact(v, term)
        BY <2>4, <2>6, <2>8, PageAnswer
    <2>10. v.stage = "answered"
        BY <2>9 DEF AnswerIsExact
    <2> QED
        BY <2>8, <2>9, <2>10
<1> QED
    BY <1>1, <1>2, <1>3, PTL DEF Spec, CatalogIsExact
-----------------------------------------------------------------------------
(* The types of the reader of rows.                                        *)
SourceRecord ==
    [format: Format, header: {s.header : s \in Sources} \cup {<<>>}, lines: Seq(Line)]
StreamRecord ==
    [src: SourceRecord, stage: {"open", "lines", "ended"}, pos: Nat, batch: Seq(Line),
     rows: Nat, read: Nat, exceeded: BOOLEAN, err: Err]
BatchRecord == [number: Nat, first: Nat, rows: Seq(Line)]
Passes == {"validate", "apply"}

(* The rows and the bytes of the first n lines of a source.                *)
RowsTo(s, n) == Chosen(s.lines, RowPositions(s))[n]
ReadTo(s, n) ==
    IF s.format = "xlsx" THEN TotalBytes(s)
    ELSE BytesUpTo(s.lines)[n] + (IF s.format = "jsonl" THEN 0 ELSE HeaderBytes)
JoinedRows(batches) == Joined(batches)[Len(batches)]
Prefix(s, t) == Len(s) <= Len(t) /\ \A i \in 1..Len(s) : t[i] = s[i]

(* Batches have the numbers of their rows; only the last may be smaller.   *)
Numbered(batches) ==
    \A n \in 1..Len(batches) :
        /\ batches[n].number = n
        /\ batches[n].first = (n - 1) * BatchSize + 2
        /\ n < Len(batches) => Len(batches[n].rows) = BatchSize

(* Row numbers in the error report are those of invalid rows.              *)
Reported(report, s) ==
    (s.format # "jsonl" /\ \A i \in 1..Len(s.lines) : ~Skipped(s.format, s.lines[i]))
        => \A n \in report : n - 1 \in 1..Len(s.lines) /\ s.lines[n - 1].kind = "invalid"

(* The normalized file is one that can be read again.                      *)
Readable(lines) ==
    /\ lines \in Seq(Line) /\ Len(lines) <= MaxRows /\ Bytes(lines) <= MaxBytes
    /\ \A i \in 1..Len(lines) : lines[i].kind = "row"

(* What was consumed, written and reported when rows of the source s have  *)
(* been delivered in the pass c.                                           *)
Stored(c, lines, report, batches, s, rows) ==
    /\ c \in Passes /\ report \subseteq Nat /\ batches \in [Passes -> Seq(BatchRecord)]
    /\ s \in SourceRecord /\ rows \in Nat
    /\ rows = Len(JoinedRows(batches[c])) /\ rows <= MaxRows
    /\ Prefix(JoinedRows(batches[c]), RowsOf(s))
    /\ \A x \in Passes : Numbered(batches[x])
    /\ Readable(lines)
    /\ c = "validate" => batches["apply"] = <<>> /\ Len(lines) <= rows /\ Reported(report, s)
    /\ c = "apply" => s = [format |-> "jsonl", header |-> <<>>, lines |-> lines]

(* The reading loop: q has read the lines before q.pos, and their rows are *)
(* those delivered and those of the batch.                                 *)
Reading(q, batches) ==
    /\ q.err = "none"
    /\ q.src.format = "jsonl" \/ ValidHeader(q.src.header)
    /\ JoinedRows(batches) \o q.batch = RowsTo(q.src, q.pos - 1)
    /\ Len(q.batch) <= BatchSize
    /\ q.rows = BatchSize * Len(batches)
    /\ \A n \in 1..Len(batches) : Len(batches[n].rows) = BatchSize
    /\ q.exceeded => TotalBytes(q.src) > MaxBytes
    /\ ~q.exceeded => q.read = ReadTo(q.src, q.pos - 1)
    /\ \A i \in 1..(q.pos - 1) : ~Unreadable(q.src.format, q.src.lines[i])

ResultOf(q) == IF q.exceeded THEN "byte_limit" ELSE q.err
EndsWell(q, batches) ==
    ResultOf(q) = "none" =>
        /\ Acceptable(q.src) /\ q.read = TotalBytes(q.src)
        /\ JoinedRows(batches) = RowsOf(q.src)

(* The reading loop between two of its rounds, and the state of a call of  *)
(* StreamRows: q is the record p, and the other arguments are the pass and *)
(* what it has written, reported and delivered.                            *)
Due(c, q, lines, report, batches) ==
    /\ q \in StreamRecord /\ q.pos \in 1..(Len(q.src.lines) + 1) /\ q.read <= MaxBytes
    /\ Stored(c, lines, report, batches, q.src, q.rows)
    /\ Reading(q, batches[c])

StreamOK(c, q, lines, report, batches) ==
    /\ q \in StreamRecord /\ q.pos \in 1..(Len(q.src.lines) + 1) /\ q.read <= MaxBytes
    /\ Stored(c, lines, report, batches, q.src, q.rows)
    /\ q.stage = "open" => q = Opened(q.src) /\ batches[c] = <<>>
    /\ q.stage = "lines" => Reading(q, batches[c]) /\ Len(q.batch) < BatchSize
    /\ q.stage = "ended" => EndsWell(q, batches[c])
    /\ Acceptable(q.src) => ResultOf(q) \in {"none", "context", "provider", "output_limit"}
    /\ c = "apply" => q.err # "output_limit"

StreamInv == StreamOK(pass, p, norm, invalid, consumed)
-----------------------------------------------------------------------------
(* The bytes of the first n lines, line by line.                           *)
LEMMA BytesUnfold ==
    ASSUME NEW lines \in Seq(Line)
    PROVE  /\ \A n \in 0..Len(lines) : BytesUpTo(lines)[n] \in Nat
           /\ BytesUpTo(lines)[0] = 0
           /\ \A n \in 1..Len(lines) : BytesUpTo(lines)[n] = BytesUpTo(lines)[n - 1] + lines[n].size
<1> DEFINE L == Len(lines)
           b == 0
           g == [n \in 1..L |-> [r \in Nat |-> r + lines[n].size]]
           Step(f) == [n \in 0..L |-> IF n = 0 THEN b ELSE f[n - 1] + lines[n].size]
<1>1. L \in Nat /\ \A n \in 1..L : lines[n] \in Line
    OBVIOUS
<1>2. b \in Nat
    OBVIOUS
<1>2a. \A n \in 1..L, r \in Nat : r + lines[n].size \in Nat
    BY <1>1 DEF Line
<1>3. g \in Steps(Nat, L)
    BY <1>1, <1>2a DEF Steps
<1>3a. \A n \in 1..L, r \in Nat : g[n][r] = r + lines[n].size
    OBVIOUS
<1> HIDE DEF L, b, g
<1>3b. PICK f : Follows(f, Nat, L, b, g)
    BY <1>1, <1>2, <1>3, Recursion
<1>4. f \in [0..L -> Nat] /\ f[0] = b /\ \A n \in 1..L : f[n] = g[n][f[n - 1]]
    BY <1>3b DEF Follows
<1>5. f = Step(f)
    <2>1. \A n \in 0..L : f[n] = IF n = 0 THEN b ELSE f[n - 1] + lines[n].size
        <3> SUFFICES ASSUME NEW n \in 0..L, n # 0
                     PROVE  f[n] = f[n - 1] + lines[n].size
            BY <1>4
        <3>1. n \in 1..L /\ n - 1 \in 0..L
            BY <1>1
        <3>2. f[n - 1] \in Nat
            BY <1>4, <3>1
        <3> QED
            BY <1>3a, <1>4, <3>1, <3>2
    <2> QED
        BY <1>4, <2>1
<1>6. BytesUpTo(lines) = CHOOSE r : r = Step(r)
    BY Zenon DEF BytesUpTo, L, b
<1> DEFINE s == BytesUpTo(lines)
<1>7. s = Step(s)
    BY <1>5, <1>6, Zenon
<1> HIDE DEF s
<1>8. /\ s[0] = b
      /\ \A n \in 1..L : s[n] = s[n - 1] + lines[n].size
    <2>1. \A n \in 0..L : s[n] = IF n = 0 THEN b ELSE s[n - 1] + lines[n].size
        BY <1>7, Zenon
    <2>2. 0 \in 0..L /\ \A n \in 1..L : n \in 0..L /\ n # 0
        BY <1>1
    <2> QED
        BY <2>1, <2>2
<1> DEFINE T == {n \in Nat : n <= L => s[n] \in Nat}
<1>9. 0 \in T
    BY <1>2, <1>8
<1>10. ASSUME NEW n \in Nat, n \in T PROVE n + 1 \in T
    <2> SUFFICES ASSUME n + 1 <= L PROVE s[n + 1] \in Nat
        OBVIOUS
    <2>1. n + 1 \in 1..L /\ n <= L /\ (n + 1) - 1 = n
        BY <1>1
    <2>2. s[n] \in Nat
        BY <1>10, <2>1
    <2>3. s[n + 1] = s[n] + lines[n + 1].size
        <3>1. s[n + 1] = s[(n + 1) - 1] + lines[n + 1].size
            BY <1>8, <2>1, Zenon
        <3> QED
            BY <2>1, <3>1, Zenon
    <2>4. s[n] + lines[n + 1].size \in Nat
        BY <1>2a, <2>1, <2>2
    <2> QED
        BY <2>3, <2>4
<1> HIDE DEF T
<1>11. \A n \in Nat : n \in T
    BY <1>9, <1>10, Induction
<1>12. \A n \in 0..L : s[n] \in Nat
    BY <1>1, <1>11 DEF T
<1> QED
    BY <1>8, <1>12 DEF s, L, b

(* The chosen lines, line by line.                                         *)
LEMMA ChosenUnfold ==
    ASSUME NEW lines \in Seq(Line), NEW K
    PROVE  /\ \A n \in 0..Len(lines) : Chosen(lines, K)[n] \in Seq(Line)
           /\ Chosen(lines, K)[0] = <<>>
           /\ \A n \in 1..Len(lines) :
                  Chosen(lines, K)[n] =
                      IF n \in K THEN Append(Chosen(lines, K)[n - 1], lines[n])
                                 ELSE Chosen(lines, K)[n - 1]
<1> DEFINE L == Len(lines)
           b == <<>>
           g == [n \in 1..L |-> [r \in Seq(Line) |-> (IF n \in K THEN Append(r, lines[n]) ELSE r)]]
           Step(f) == [n \in 0..L |-> IF n = 0 THEN b
                                      ELSE IF n \in K THEN Append(f[n - 1], lines[n])
                                                      ELSE f[n - 1]]
<1>1. L \in Nat /\ \A n \in 1..L : lines[n] \in Line
    OBVIOUS
<1>2. b \in Seq(Line)
    OBVIOUS
<1>2a. \A n \in 1..L, r \in Seq(Line) : (IF n \in K THEN Append(r, lines[n]) ELSE r) \in Seq(Line)
    BY <1>1 
<1>3. g \in Steps(Seq(Line), L)
    BY <1>1, <1>2a DEF Steps
<1>3a. \A n \in 1..L, r \in Seq(Line) : g[n][r] = (IF n \in K THEN Append(r, lines[n]) ELSE r)
    OBVIOUS
<1> HIDE DEF L, b, g
<1>3b. PICK f : Follows(f, Seq(Line), L, b, g)
    BY <1>1, <1>2, <1>3, Recursion
<1>4. f \in [0..L -> Seq(Line)] /\ f[0] = b /\ \A n \in 1..L : f[n] = g[n][f[n - 1]]
    BY <1>3b DEF Follows
<1>5. f = Step(f)
    <2>1. \A n \in 0..L :
              f[n] = IF n = 0 THEN b
                     ELSE IF n \in K THEN Append(f[n - 1], lines[n]) ELSE f[n - 1]
        <3> SUFFICES ASSUME NEW n \in 0..L, n # 0
                     PROVE  f[n] = (IF n \in K THEN Append(f[n - 1], lines[n]) ELSE f[n - 1])
            BY <1>4
        <3>1. n \in 1..L /\ n - 1 \in 0..L
            BY <1>1
        <3>2. f[n - 1] \in Seq(Line)
            BY <1>4, <3>1
        <3> QED
            BY <1>3a, <1>4, <3>1, <3>2
    <2> QED
        BY <1>4, <2>1
<1>6. Chosen(lines, K) = CHOOSE r : r = Step(r)
    BY Zenon DEF Chosen, L, b
<1> DEFINE s == Chosen(lines, K)
<1>7. s = Step(s)
    BY <1>5, <1>6, Zenon
<1> HIDE DEF s
<1>8. /\ s[0] = b
      /\ \A n \in 1..L : s[n] = (IF n \in K THEN Append(s[n - 1], lines[n]) ELSE s[n - 1])
    <2>1. \A n \in 0..L :
              s[n] = IF n = 0 THEN b
                     ELSE IF n \in K THEN Append(s[n - 1], lines[n]) ELSE s[n - 1]
        BY <1>7, Zenon
    <2>2. 0 \in 0..L /\ \A n \in 1..L : n \in 0..L /\ n # 0
        BY <1>1
    <2> QED
        BY <2>1, <2>2
<1> DEFINE T == {n \in Nat : n <= L => s[n] \in Seq(Line)}
<1>9. 0 \in T
    BY <1>2, <1>8
<1>10. ASSUME NEW n \in Nat, n \in T PROVE n + 1 \in T
    <2> SUFFICES ASSUME n + 1 <= L PROVE s[n + 1] \in Seq(Line)
        OBVIOUS
    <2>1. n + 1 \in 1..L /\ n <= L /\ (n + 1) - 1 = n
        BY <1>1
    <2>2. s[n] \in Seq(Line)
        BY <1>10, <2>1
    <2>3. s[n + 1] = (IF n + 1 \in K THEN Append(s[n], lines[n + 1]) ELSE s[n])
        <3>1. s[n + 1] = IF n + 1 \in K THEN Append(s[(n + 1) - 1], lines[n + 1])
                                        ELSE s[(n + 1) - 1]
            BY <1>8, <2>1, Zenon
        <3> QED
            BY <2>1, <3>1, Zenon
    <2>4. (IF n + 1 \in K THEN Append(s[n], lines[n + 1]) ELSE s[n]) \in Seq(Line)
        BY <1>2a, <2>1, <2>2
    <2> QED
        BY <2>3, <2>4
<1> HIDE DEF T
<1>11. \A n \in Nat : n \in T
    BY <1>9, <1>10, Induction
<1>12. \A n \in 0..L : s[n] \in Seq(Line)
    BY <1>1, <1>11 DEF T
<1> QED
    BY <1>8, <1>12 DEF s, L, b

(* The rows of the first n batches, batch by batch.                        *)
LEMMA JoinedUnfold ==
    ASSUME NEW batches \in Seq(BatchRecord)
    PROVE  /\ \A n \in 0..Len(batches) : Joined(batches)[n] \in Seq(Line)
           /\ Joined(batches)[0] = <<>>
           /\ \A n \in 1..Len(batches) :
                  Joined(batches)[n] = Joined(batches)[n - 1] \o batches[n].rows
<1> DEFINE L == Len(batches)
           b == <<>>
           g == [n \in 1..L |-> [r \in Seq(Line) |-> r \o batches[n].rows]]
           Step(f) == [n \in 0..L |-> IF n = 0 THEN b ELSE f[n - 1] \o batches[n].rows]
<1>1. L \in Nat /\ \A n \in 1..L : batches[n] \in BatchRecord
    OBVIOUS
<1>2. b \in Seq(Line)
    OBVIOUS
<1>2a. \A n \in 1..L, r \in Seq(Line) : r \o batches[n].rows \in Seq(Line)
    BY <1>1 DEF BatchRecord
<1>3. g \in Steps(Seq(Line), L)
    BY <1>1, <1>2a DEF Steps
<1>3a. \A n \in 1..L, r \in Seq(Line) : g[n][r] = r \o batches[n].rows
    OBVIOUS
<1> HIDE DEF L, b, g
<1>3b. PICK f : Follows(f, Seq(Line), L, b, g)
    BY <1>1, <1>2, <1>3, Recursion
<1>4. f \in [0..L -> Seq(Line)] /\ f[0] = b /\ \A n \in 1..L : f[n] = g[n][f[n - 1]]
    BY <1>3b DEF Follows
<1>5. f = Step(f)
    <2>1. \A n \in 0..L : f[n] = IF n = 0 THEN b ELSE f[n - 1] \o batches[n].rows
        <3> SUFFICES ASSUME NEW n \in 0..L, n # 0
                     PROVE  f[n] = f[n - 1] \o batches[n].rows
            BY <1>4
        <3>1. n \in 1..L /\ n - 1 \in 0..L
            BY <1>1
        <3>2. f[n - 1] \in Seq(Line)
            BY <1>4, <3>1
        <3> QED
            BY <1>3a, <1>4, <3>1, <3>2
    <2> QED
        BY <1>4, <2>1
<1>6. Joined(batches) = CHOOSE r : r = Step(r)
    BY Zenon DEF Joined, L, b
<1> DEFINE s == Joined(batches)
<1>7. s = Step(s)
    BY <1>5, <1>6, Zenon
<1> HIDE DEF s
<1>8. /\ s[0] = b
      /\ \A n \in 1..L : s[n] = s[n - 1] \o batches[n].rows
    <2>1. \A n \in 0..L : s[n] = IF n = 0 THEN b ELSE s[n - 1] \o batches[n].rows
        BY <1>7, Zenon
    <2>2. 0 \in 0..L /\ \A n \in 1..L : n \in 0..L /\ n # 0
        BY <1>1
    <2> QED
        BY <2>1, <2>2
<1> DEFINE T == {n \in Nat : n <= L => s[n] \in Seq(Line)}
<1>9. 0 \in T
    BY <1>2, <1>8
<1>10. ASSUME NEW n \in Nat, n \in T PROVE n + 1 \in T
    <2> SUFFICES ASSUME n + 1 <= L PROVE s[n + 1] \in Seq(Line)
        OBVIOUS
    <2>1. n + 1 \in 1..L /\ n <= L /\ (n + 1) - 1 = n
        BY <1>1
    <2>2. s[n] \in Seq(Line)
        BY <1>10, <2>1
    <2>3. s[n + 1] = s[n] \o batches[n + 1].rows
        <3>1. s[n + 1] = s[(n + 1) - 1] \o batches[n + 1].rows
            BY <1>8, <2>1, Zenon
        <3> QED
            BY <2>1, <3>1, Zenon
    <2>4. s[n] \o batches[n + 1].rows \in Seq(Line)
        BY <1>2a, <2>1, <2>2
    <2> QED
        BY <2>3, <2>4
<1> HIDE DEF T
<1>11. \A n \in Nat : n \in T
    BY <1>9, <1>10, Induction
<1>12. \A n \in 0..L : s[n] \in Seq(Line)
    BY <1>1, <1>11 DEF T
<1> QED
    BY <1>8, <1>12 DEF s, L, b
-----------------------------------------------------------------------------
(* A line has a kind and a number of bytes.                                *)
LEMMA LineFields ==
    ASSUME NEW lines \in Seq(Line)
    PROVE  \A k \in 1..Len(lines) :
               lines[k] \in Line /\ lines[k].kind \in Kind /\ lines[k].size \in Nat
                   /\ lines[k].out \in Nat
<1> SUFFICES ASSUME NEW k \in 1..Len(lines)
             PROVE  /\ lines[k] \in Line /\ lines[k].kind \in Kind /\ lines[k].size \in Nat
                    /\ lines[k].out \in Nat
    OBVIOUS
<1>1. lines[k] \in Line
    OBVIOUS
<1> QED
    BY <1>1 DEF Line

(* The bytes grow line by line.                                            *)
LEMMA BytesGrow ==
    ASSUME NEW lines \in Seq(Line), NEW m \in Nat, NEW n \in Nat, m <= n, n <= Len(lines)
    PROVE  BytesUpTo(lines)[m] <= BytesUpTo(lines)[n]
<1> DEFINE f == BytesUpTo(lines)
           T == {k \in Nat : m + k <= Len(lines) => f[m] <= f[m + k]}
<1>1. /\ \A k \in 0..Len(lines) : f[k] \in Nat
      /\ \A k \in 1..Len(lines) : f[k] = f[k - 1] + lines[k].size
    BY BytesUnfold
<1>2. \A k \in 1..Len(lines) : lines[k].size \in Nat
    BY LineFields
<1> HIDE DEF f
<1>3. m + 0 = m /\ f[m] \in Nat
    BY <1>1
<1>4. 0 \in T
    BY <1>3
<1>5. ASSUME NEW k \in Nat, k \in T PROVE k + 1 \in T
    <2> SUFFICES ASSUME m + (k + 1) <= Len(lines) PROVE f[m] <= f[m + (k + 1)]
        OBVIOUS
    <2>1. m + (k + 1) \in 1..Len(lines) /\ (m + (k + 1)) - 1 = m + k /\ m + k \in 0..Len(lines)
        OBVIOUS
    <2>2. f[m] <= f[m + k]
        BY <1>5, <2>1
    <2>3. f[m + (k + 1)] = f[m + k] + lines[m + (k + 1)].size
        BY <1>1, <2>1
    <2>4. f[m + k] \in Nat /\ lines[m + (k + 1)].size \in Nat
        BY <1>1, <1>2, <2>1
    <2> QED
        BY <1>3, <2>2, <2>3, <2>4
<1> HIDE DEF T
<1>6. \A k \in Nat : k \in T
    BY <1>4, <1>5, Induction
<1>7. n - m \in Nat /\ m + (n - m) = n
    OBVIOUS
<1>8. n - m \in T
    BY <1>6, <1>7
<1>9. f[m] <= f[n]
    BY <1>7, <1>8 DEF T
<1> QED
    BY <1>9 DEF f

(* The bytes of lines that are written after others are added to theirs.   *)
LEMMA BytesOfConcat ==
    ASSUME NEW s \in Seq(Line), NEW u \in Seq(Line)
    PROVE  Bytes(s \o u) = Bytes(s) + Bytes(u)
<1> DEFINE w == s \o u
           f == BytesUpTo(w)
           g == BytesUpTo(s)
           h == BytesUpTo(u)
           A == {k \in Nat : k <= Len(s) => f[k] = g[k]}
           B == {k \in Nat : k <= Len(u) => f[Len(s) + k] = g[Len(s)] + h[k]}
<1>1. /\ w \in Seq(Line) /\ Len(w) = Len(s) + Len(u) /\ Len(s) \in Nat /\ Len(u) \in Nat
      /\ \A k \in 1..Len(s) : w[k] = s[k]
      /\ \A k \in 1..Len(u) : w[Len(s) + k] = u[k]
    OBVIOUS
<1> HIDE DEF w
<1>2. f[0] = 0 /\ \A k \in 1..Len(w) : f[k] = f[k - 1] + w[k].size
    BY <1>1, BytesUnfold
<1>3. g[0] = 0 /\ \A k \in 1..Len(s) : g[k] = g[k - 1] + s[k].size
    BY BytesUnfold
<1>4. h[0] = 0 /\ \A k \in 1..Len(u) : h[k] = h[k - 1] + u[k].size
    BY BytesUnfold
<1>5. (\A k \in 0..Len(s) : g[k] \in Nat) /\ \A k \in 0..Len(u) : h[k] \in Nat
    BY BytesUnfold
<1>6. (\A k \in 1..Len(s) : s[k].size \in Nat) /\ \A k \in 1..Len(u) : u[k].size \in Nat
    BY LineFields
<1> HIDE DEF f, g, h
<1>7. 0 \in A
    BY <1>2, <1>3
<1>8. ASSUME NEW k \in Nat, k \in A PROVE k + 1 \in A
    <2> SUFFICES ASSUME k + 1 <= Len(s) PROVE f[k + 1] = g[k + 1]
        OBVIOUS
    <2>1. k + 1 \in 1..Len(s) /\ k + 1 \in 1..Len(w) /\ (k + 1) - 1 = k
        BY <1>1
    <2>2. f[k] = g[k]
        BY <1>8, <2>1, <1>1
    <2>3. f[k + 1] = f[k] + w[k + 1].size /\ g[k + 1] = g[k] + s[k + 1].size
        BY <1>2, <1>3, <2>1
    <2>4. w[k + 1] = s[k + 1]
        BY <1>1, <2>1
    <2> QED
        BY <2>2, <2>3, <2>4
<1> HIDE DEF A
<1>9. \A k \in Nat : k \in A
    BY <1>7, <1>8, Induction
<1>10. f[Len(s)] = g[Len(s)] /\ g[Len(s)] \in Nat
    BY <1>1, <1>5, <1>9 DEF A
<1>11. 0 \in B
    BY <1>1, <1>4, <1>10
<1>12. ASSUME NEW k \in Nat, k \in B PROVE k + 1 \in B
    <2> SUFFICES ASSUME k + 1 <= Len(u) PROVE f[Len(s) + (k + 1)] = g[Len(s)] + h[k + 1]
        OBVIOUS
    <2>1. /\ k + 1 \in 1..Len(u) /\ (k + 1) - 1 = k /\ k \in 0..Len(u)
          /\ Len(s) + (k + 1) \in 1..Len(w) /\ (Len(s) + (k + 1)) - 1 = Len(s) + k
        BY <1>1
    <2>2. f[Len(s) + k] = g[Len(s)] + h[k]
        BY <1>12, <2>1, <1>1
    <2>3. f[Len(s) + (k + 1)] = f[Len(s) + k] + w[Len(s) + (k + 1)].size
        BY <1>2, <2>1
    <2>4. h[k + 1] = h[k] + u[k + 1].size
        BY <1>4, <2>1
    <2>5. w[Len(s) + (k + 1)] = u[k + 1]
        BY <1>1, <2>1
    <2>6. h[k] \in Nat /\ u[k + 1].size \in Nat
        BY <1>5, <1>6, <2>1
    <2> QED
        BY <1>10, <2>2, <2>3, <2>4, <2>5, <2>6
<1> HIDE DEF B
<1>13. \A k \in Nat : k \in B
    BY <1>11, <1>12, Induction
<1>14. f[Len(s) + Len(u)] = g[Len(s)] + h[Len(u)]
    BY <1>1, <1>13 DEF B
<1>15. f[Len(w)] = g[Len(s)] + h[Len(u)]
    BY <1>1, <1>14
<1> QED
    BY <1>15 DEF Bytes, f, g, h, w

(* Of the first m lines no more is chosen than of the first n, in the same *)
(* order, and no more than there are.                                      *)
LEMMA ChosenGrows ==
    ASSUME NEW lines \in Seq(Line), NEW K, NEW m \in Nat, NEW n \in Nat, m <= n, n <= Len(lines)
    PROVE  /\ Prefix(Chosen(lines, K)[m], Chosen(lines, K)[n])
           /\ Len(Chosen(lines, K)[n]) <= n
<1> DEFINE f == Chosen(lines, K)
           A == {k \in Nat : k <= Len(lines) => Len(f[k]) <= k}
           B == {k \in Nat : m + k <= Len(lines) => Prefix(f[m], f[m + k])}
<1>1. \A k \in 0..Len(lines) : f[k] \in Seq(Line)
    BY ChosenUnfold
<1>2. f[0] = <<>>
    BY ChosenUnfold
<1>3. \A k \in 1..Len(lines) : f[k] = IF k \in K THEN Append(f[k - 1], lines[k]) ELSE f[k - 1]
    BY ChosenUnfold
<1> HIDE DEF f
<1>4. ASSUME NEW k \in Nat, k + 1 <= Len(lines)
      PROVE  f[k] \in Seq(Line) /\ Prefix(f[k], f[k + 1]) /\ Len(f[k + 1]) <= Len(f[k]) + 1
    <2>1. k + 1 \in 1..Len(lines) /\ k \in 0..Len(lines) /\ (k + 1) - 1 = k
        BY <1>4
    <2>2. f[k] \in Seq(Line) /\ lines[k + 1] \in Line
        BY <1>1, <2>1
    <2>3. f[k + 1] = IF k + 1 \in K THEN Append(f[k], lines[k + 1]) ELSE f[k]
        <3>1. f[k + 1] = IF k + 1 \in K THEN Append(f[(k + 1) - 1], lines[k + 1])
                                        ELSE f[(k + 1) - 1]
            BY <1>3, <2>1, Zenon
        <3> QED
            BY <2>1, <3>1, Zenon
    <2>4. CASE k + 1 \in K
        <3>1. f[k + 1] = Append(f[k], lines[k + 1])
            BY <2>3, <2>4
        <3> QED
            BY <2>2, <3>1 DEF Prefix
    <2>5. CASE ~(k + 1 \in K)
        <3>1. f[k + 1] = f[k]
            BY <2>3, <2>5
        <3> QED
            BY <2>2, <3>1 DEF Prefix
    <2> QED
        BY <2>4, <2>5
<1>5. 0 \in A
    BY <1>2
<1>6. ASSUME NEW k \in Nat, k \in A PROVE k + 1 \in A
    <2> SUFFICES ASSUME k + 1 <= Len(lines) PROVE Len(f[k + 1]) <= k + 1
        OBVIOUS
    <2>1. k + 1 \in 0..Len(lines) /\ k <= Len(lines)
        OBVIOUS
    <2>2. f[k] \in Seq(Line) /\ Len(f[k + 1]) <= Len(f[k]) + 1
        BY <1>4
    <2>3. f[k + 1] \in Seq(Line)
        BY <1>1, <2>1
    <2>4. Len(f[k]) <= k
        BY <1>6, <2>1
    <2>5. Len(f[k]) \in Nat /\ Len(f[k + 1]) \in Nat
        BY <2>2, <2>3
    <2> QED
        BY <2>2, <2>4, <2>5
<1> HIDE DEF A
<1>7. \A k \in Nat : k \in A
    BY <1>5, <1>6, Induction
<1>8. Len(f[n]) <= n
    BY <1>7 DEF A
<1>9. m + 0 = m /\ m \in 0..Len(lines) /\ f[m] \in Seq(Line)
    BY <1>1
<1>10. Prefix(f[m], f[m])
    BY <1>9 DEF Prefix
<1>11. 0 \in B
    BY <1>9, <1>10
<1>12. ASSUME NEW k \in Nat, k \in B PROVE k + 1 \in B
    <2> SUFFICES ASSUME m + (k + 1) <= Len(lines) PROVE Prefix(f[m], f[m + (k + 1)])
        OBVIOUS
    <2>1. m + k \in Nat /\ (m + k) + 1 = m + (k + 1) /\ m + k <= Len(lines)
        OBVIOUS
    <2>2. Prefix(f[m], f[m + k])
        BY <1>12, <2>1
    <2>3. f[m + k] \in Seq(Line) /\ Prefix(f[m + k], f[(m + k) + 1])
        BY <1>4, <2>1
    <2>4. m + (k + 1) \in 0..Len(lines)
        BY <2>1
    <2>5. f[m + (k + 1)] \in Seq(Line)
        BY <1>1, <2>4
    <2>6. Prefix(f[m + k], f[m + (k + 1)])
        BY <2>1, <2>3
    <2> QED
        BY <1>9, <2>2, <2>3, <2>5, <2>6 DEF Prefix
<1> HIDE DEF B
<1>13. \A k \in Nat : k \in B
    BY <1>11, <1>12, Induction
<1>14. n - m \in Nat /\ m + (n - m) = n
    OBVIOUS
<1>15. n - m \in B
    BY <1>13, <1>14
<1>16. Prefix(f[m], f[n])
    BY <1>14, <1>15 DEF B
<1> QED
    BY <1>8, <1>16 DEF f

(* If all of the first n lines are chosen, they are what is chosen.        *)
LEMMA ChosenAll ==
    ASSUME NEW lines \in Seq(Line), NEW K, NEW n \in Nat, n <= Len(lines),
           \A i \in 1..n : i \in K
    PROVE  Len(Chosen(lines, K)[n]) = n /\ \A i \in 1..n : Chosen(lines, K)[n][i] = lines[i]
<1> DEFINE f == Chosen(lines, K)
           A == {k \in Nat : k <= n => Len(f[k]) = k /\ \A i \in 1..k : f[k][i] = lines[i]}
<1>1. \A k \in 0..Len(lines) : f[k] \in Seq(Line)
    BY ChosenUnfold
<1>2. f[0] = <<>>
    BY ChosenUnfold
<1>3. \A k \in 1..Len(lines) : f[k] = IF k \in K THEN Append(f[k - 1], lines[k]) ELSE f[k - 1]
    BY ChosenUnfold
<1> HIDE DEF f
<1>4. 0 \in A
    BY <1>2
<1>5. ASSUME NEW k \in Nat, k \in A PROVE k + 1 \in A
    <2> SUFFICES ASSUME k + 1 <= n
                 PROVE  Len(f[k + 1]) = k + 1 /\ \A i \in 1..(k + 1) : f[k + 1][i] = lines[i]
        OBVIOUS
    <2>1. /\ k + 1 \in 1..Len(lines) /\ k \in 0..Len(lines) /\ (k + 1) - 1 = k
          /\ k <= n /\ k + 1 \in 1..n
        OBVIOUS
    <2>2. f[k] \in Seq(Line) /\ lines[k + 1] \in Line
        BY <1>1, <2>1
    <2>3. f[k + 1] = Append(f[k], lines[k + 1])
        <3>1. f[k + 1] = IF k + 1 \in K THEN Append(f[(k + 1) - 1], lines[k + 1])
                                        ELSE f[(k + 1) - 1]
            BY <1>3, <2>1, Zenon
        <3>2. k + 1 \in K
            BY <2>1
        <3> QED
            BY <2>1, <3>1, <3>2, Zenon
    <2>4. Len(f[k]) = k /\ \A i \in 1..k : f[k][i] = lines[i]
        BY <1>5, <2>1
    <2> QED
        BY <2>2, <2>3, <2>4
<1> HIDE DEF A
<1>6. \A k \in Nat : k \in A
    BY <1>4, <1>5, Induction
<1>7. Len(f[n]) = n /\ \A i \in 1..n : f[n][i] = lines[i]
    BY <1>6 DEF A
<1> QED
    BY <1>7 DEF f

(* A further batch adds its rows to those of the earlier ones.             *)
LEMMA JoinedAppend ==
    ASSUME NEW batches \in Seq(BatchRecord), NEW b \in BatchRecord
    PROVE  JoinedRows(Append(batches, b)) = JoinedRows(batches) \o b.rows
<1> DEFINE w == Append(batches, b)
           f == Joined(w)
           g == Joined(batches)
           N == Len(batches)
           A == {k \in Nat : k <= N => f[k] = g[k]}
<1>1. /\ w \in Seq(BatchRecord) /\ Len(w) = N + 1 /\ N \in Nat
      /\ \A k \in 1..N : w[k] = batches[k]
      /\ w[N + 1] = b
    OBVIOUS
<1> HIDE DEF w
<1>2. f[0] = <<>>
    BY <1>1, JoinedUnfold
<1>3. \A k \in 1..Len(w) : f[k] = f[k - 1] \o w[k].rows
    BY <1>1, JoinedUnfold
<1>4. g[0] = <<>>
    BY JoinedUnfold
<1>5. \A k \in 1..N : g[k] = g[k - 1] \o batches[k].rows
    BY JoinedUnfold
<1> HIDE DEF f, g, N
<1>6. 0 \in A
    BY <1>2, <1>4
<1>7. ASSUME NEW k \in Nat, k \in A PROVE k + 1 \in A
    <2> SUFFICES ASSUME k + 1 <= N PROVE f[k + 1] = g[k + 1]
        OBVIOUS
    <2>1. k + 1 \in 1..N /\ k + 1 \in 1..Len(w) /\ (k + 1) - 1 = k /\ k <= N
        BY <1>1
    <2>2. f[k] = g[k]
        BY <1>7, <2>1
    <2>3. f[k + 1] = f[(k + 1) - 1] \o w[k + 1].rows
        BY <1>3, <2>1, Zenon
    <2>4. g[k + 1] = g[(k + 1) - 1] \o batches[k + 1].rows
        BY <1>5, <2>1, Zenon
    <2>5. w[k + 1] = batches[k + 1]
        BY <1>1, <2>1
    <2> QED
        BY <2>1, <2>2, <2>3, <2>4, <2>5, Zenon
<1> HIDE DEF A
<1>8. \A k \in Nat : k \in A
    BY <1>6, <1>7, Induction
<1>9. f[N] = g[N]
    BY <1>1, <1>8 DEF A
<1>10. N + 1 \in 1..Len(w) /\ (N + 1) - 1 = N
    BY <1>1
<1>11. f[N + 1] = f[(N + 1) - 1] \o w[N + 1].rows
    BY <1>3, <1>10, Zenon
<1>12. f[Len(w)] = g[N] \o b.rows
    BY <1>1, <1>9, <1>10, <1>11, Zenon
<1> QED
    BY <1>12, Zenon DEF JoinedRows, f, g, w, N

(* Full batches have the numbers 1, 2, 3 and so on.                        *)
LEMMA NumberOfBatch ==
    ASSUME NEW k \in Nat
    PROVE  (BatchSize * k) \div BatchSize = k
<1>1. BatchSize \in Nat /\ BatchSize > 0
    BY StreamAssumption
<1> QED
    BY <1>1
-----------------------------------------------------------------------------
(* The fields of the reader's record.                                      *)
LEMMA StreamFields ==
    ASSUME NEW q \in StreamRecord
    PROVE  /\ q.src \in SourceRecord /\ q.src.lines \in Seq(Line) /\ q.src.format \in Format
           /\ q.pos \in Nat /\ q.batch \in Seq(Line) /\ q.rows \in Nat /\ q.read \in Nat
           /\ q.exceeded \in BOOLEAN /\ q.err \in Err
<1>1. /\ q.src \in SourceRecord /\ q.pos \in Nat /\ q.batch \in Seq(Line) /\ q.rows \in Nat
      /\ q.read \in Nat /\ q.exceeded \in BOOLEAN /\ q.err \in Err
    BY DEF StreamRecord
<1>2. q.src.lines \in Seq(Line) /\ q.src.format \in Format
    BY <1>1 DEF SourceRecord
<1> QED
    BY <1>1, <1>2

(* The rows of a source, line by line.                                     *)
LEMMA RowsByLine ==
    ASSUME NEW s \in SourceRecord
    PROVE  /\ RowsTo(s, 0) = <<>> /\ RowsTo(s, Len(s.lines)) = RowsOf(s)
           /\ RowsOf(s) \in Seq(Line) /\ Len(RowsOf(s)) <= Len(s.lines)
           /\ \A n \in 0..Len(s.lines) :
                  RowsTo(s, n) \in Seq(Line) /\ Prefix(RowsTo(s, n), RowsOf(s))
           /\ \A n \in 1..Len(s.lines) :
                  RowsTo(s, n) = IF IsRow(s.format, s.lines[n])
                                 THEN Append(RowsTo(s, n - 1), s.lines[n])
                                 ELSE RowsTo(s, n - 1)
<1> DEFINE K == RowPositions(s)
           f == Chosen(s.lines, K)
<1>1. s.lines \in Seq(Line) /\ Len(s.lines) \in Nat
    BY DEF SourceRecord
<1>2. \A n \in 0..Len(s.lines) : f[n] \in Seq(Line)
    BY <1>1, ChosenUnfold
<1>3. f[0] = <<>>
    BY <1>1, ChosenUnfold
<1>4. \A n \in 1..Len(s.lines) :
          f[n] = IF n \in K THEN Append(f[n - 1], s.lines[n]) ELSE f[n - 1]
    BY <1>1, ChosenUnfold
<1>5. \A n \in 1..Len(s.lines) : n \in K <=> IsRow(s.format, s.lines[n])
    BY DEF RowPositions
<1>6. \A n \in 0..Len(s.lines) : Prefix(f[n], f[Len(s.lines)])
    <2> SUFFICES ASSUME NEW n \in 0..Len(s.lines) PROVE Prefix(f[n], f[Len(s.lines)])
        OBVIOUS
    <2>1. n \in Nat /\ n <= Len(s.lines) /\ Len(s.lines) <= Len(s.lines)
        BY <1>1
    <2> QED
        BY <1>1, <2>1, ChosenGrows
<1>7. Len(f[Len(s.lines)]) <= Len(s.lines)
    <2>1. Len(s.lines) \in Nat /\ Len(s.lines) <= Len(s.lines)
        BY <1>1
    <2> QED
        BY <1>1, <2>1, ChosenGrows
<1>8. 0 \in 0..Len(s.lines) /\ Len(s.lines) \in 0..Len(s.lines)
    BY <1>1
<1> HIDE DEF K, f
<1>9. RowsOf(s) = f[Len(s.lines)] /\ \A n : RowsTo(s, n) = f[n]
    BY DEF RowsOf, RowsTo, f, K
<1>10. \A n \in 1..Len(s.lines) :
           f[n] = IF IsRow(s.format, s.lines[n]) THEN Append(f[n - 1], s.lines[n]) ELSE f[n - 1]
    BY <1>4, <1>5, Zenon
<1> QED
    BY <1>2, <1>3, <1>6, <1>7, <1>8, <1>9, <1>10, Zenon

(* The bytes of a source, line by line.                                    *)
LEMMA ReadByLine ==
    ASSUME NEW s \in SourceRecord
    PROVE  /\ TotalBytes(s) \in Nat
           /\ s.format # "jsonl" => TotalBytes(s) >= HeaderBytes
           /\ ReadTo(s, Len(s.lines)) = TotalBytes(s)
           /\ \A n \in 0..Len(s.lines) : ReadTo(s, n) \in Nat /\ ReadTo(s, n) <= TotalBytes(s)
           /\ s.format = "jsonl" => ReadTo(s, 0) = 0 /\ TotalBytes(s) = Bytes(s.lines)
           /\ s.format = "csv" => ReadTo(s, 0) = HeaderBytes
           /\ s.format = "xlsx" => \A n \in 0..Len(s.lines) : ReadTo(s, n) = TotalBytes(s)
           /\ s.format # "xlsx" =>
                  \A n \in 1..Len(s.lines) : ReadTo(s, n) = ReadTo(s, n - 1) + s.lines[n].size
<1> DEFINE N == Len(s.lines)
           f == BytesUpTo(s.lines)
           h == IF s.format = "jsonl" THEN 0 ELSE HeaderBytes
<1>1. s.lines \in Seq(Line) /\ N \in Nat /\ s.format \in Format
    BY DEF SourceRecord
<1>2. /\ \A n \in 0..N : f[n] \in Nat
      /\ f[0] = 0
      /\ \A n \in 1..N : f[n] = f[n - 1] + s.lines[n].size
    BY <1>1, BytesUnfold
<1>3. \A n \in 0..N : f[n] <= f[N]
    <2> SUFFICES ASSUME NEW n \in 0..N PROVE f[n] <= f[N]
        OBVIOUS
    <2>1. n \in Nat /\ n <= N /\ N <= Len(s.lines)
        BY <1>1
    <2> QED
        BY <1>1, <2>1, BytesGrow
<1>4. \A n \in 1..N : s.lines[n].size \in Nat
    BY <1>1, LineFields
<1>5. h \in Nat /\ (s.format = "jsonl" => h = 0) /\ (s.format # "jsonl" => h = HeaderBytes)
    BY DEF HeaderBytes
<1>6. HeaderBytes \in Nat /\ 0 \in 0..N /\ N \in 0..N
    BY <1>1 DEF HeaderBytes
<1> HIDE DEF f, h
<1>7. TotalBytes(s) = f[N] + h /\ Bytes(s.lines) = f[N]
    BY DEF TotalBytes, Bytes, f, h
<1>8. \A n : ReadTo(s, n) = IF s.format = "xlsx" THEN TotalBytes(s) ELSE f[n] + h
    BY DEF ReadTo, f, h
<1> HIDE DEF N
<1>9. TotalBytes(s) \in Nat /\ f[N] \in Nat
    BY <1>2, <1>5, <1>6, <1>7
<1>10. CASE s.format = "xlsx"
    <2>1. \A n : ReadTo(s, n) = TotalBytes(s)
        BY <1>8, <1>10
    <2>2. TotalBytes(s) >= HeaderBytes
        BY <1>5, <1>6, <1>7, <1>9, <1>10
    <2> QED
        BY <1>9, <1>10, <2>1, <2>2 DEF N
<1>11. CASE s.format # "xlsx"
    <2>1. \A n : ReadTo(s, n) = f[n] + h
        BY <1>8, <1>11
    <2>2. s.format # "jsonl" => TotalBytes(s) >= HeaderBytes
        BY <1>5, <1>6, <1>7, <1>9
    <2>3. \A n \in 0..N : ReadTo(s, n) \in Nat /\ ReadTo(s, n) <= TotalBytes(s)
        BY <1>2, <1>3, <1>5, <1>7, <1>9, <2>1
    <2>4. s.format = "jsonl" => ReadTo(s, 0) = 0 /\ TotalBytes(s) = Bytes(s.lines)
        BY <1>2, <1>5, <1>7, <1>9, <2>1
    <2>5. s.format = "csv" => ReadTo(s, 0) = HeaderBytes
        BY <1>2, <1>5, <1>6, <2>1
    <2>6. \A n \in 1..N : ReadTo(s, n) = ReadTo(s, n - 1) + s.lines[n].size
        <3> SUFFICES ASSUME NEW n \in 1..N PROVE f[n] + h = (f[n - 1] + h) + s.lines[n].size
            BY <2>1
        <3>1. n - 1 \in 0..N
            BY <1>1 DEF N
        <3>2. f[n - 1] \in Nat /\ s.lines[n].size \in Nat /\ f[n] = f[n - 1] + s.lines[n].size
            BY <1>2, <1>4, <3>1
        <3> QED
            BY <1>5, <3>2
    <2>7. ReadTo(s, N) = TotalBytes(s)
        BY <1>7, <2>1
    <2> QED
        BY <1>9, <1>11, <2>2, <2>3, <2>4, <2>5, <2>6, <2>7 DEF N
<1> QED
    BY <1>10, <1>11
-----------------------------------------------------------------------------
(* What a batch adds to the normalized file, and to the error report.      *)
Written(rows) == [i \in 1..Len(ValidRows(rows)) |-> Normalized(ValidRows(rows)[i])]
Wrong(b) == {b.first + i - 1 : i \in {k \in 1..Len(b.rows) : b.rows[k].kind = "invalid"}}

(* A batch of rows is written as lines of rows, and not as more of them.   *)
LEMMA WrittenRows ==
    ASSUME NEW rows \in Seq(Line)
    PROVE  /\ Written(rows) \in Seq(Line) /\ Len(Written(rows)) <= Len(rows)
           /\ \A i \in 1..Len(Written(rows)) : Written(rows)[i].kind = "row"
<1> DEFINE v == ValidRows(rows)
           K == {i \in 1..Len(rows) : rows[i].kind # "invalid"}
<1>1. Len(rows) \in Nat /\ Len(rows) <= Len(rows) /\ Len(rows) \in 0..Len(rows)
    OBVIOUS
<1>2. v = Chosen(rows, K)[Len(rows)]
    BY DEF ValidRows
<1> HIDE DEF v, K
<1>3. v \in Seq(Line)
    BY <1>1, <1>2, ChosenUnfold
<1>4. Len(v) <= Len(rows)
    BY <1>1, <1>2, ChosenGrows
<1>5. \A i \in 1..Len(v) : Normalized(v[i]) \in Line /\ Normalized(v[i]).kind = "row"
    <2> SUFFICES ASSUME NEW i \in 1..Len(v)
                 PROVE  Normalized(v[i]) \in Line /\ Normalized(v[i]).kind = "row"
        OBVIOUS
    <2>1. v[i].out \in Nat
        BY <1>3, LineFields
    <2> QED
        BY <2>1 DEF Normalized, Line, Kind
<1>6. Written(rows) = [i \in 1..Len(v) |-> Normalized(v[i])]
    BY DEF Written, v
<1>7. Len(v) \in Nat
    BY <1>3
<1>8. Written(rows) \in Seq(Line)
    BY <1>5, <1>6, <1>7
<1>9. Len(Written(rows)) = Len(v)
    BY <1>6, <1>7
<1> QED
    BY <1>4, <1>5, <1>6, <1>8, <1>9

(* The normalized file stays readable while it obeys the limits.           *)
LEMMA ReadableGrows ==
    ASSUME NEW lines, NEW w \in Seq(Line), Readable(lines),
           Len(lines) + Len(w) <= MaxRows, Bytes(lines) + Bytes(w) <= MaxBytes,
           \A i \in 1..Len(w) : w[i].kind = "row"
    PROVE  Readable(lines \o w)
<1>1. lines \in Seq(Line) /\ \A i \in 1..Len(lines) : lines[i].kind = "row"
    BY DEF Readable
<1>2. Bytes(lines \o w) = Bytes(lines) + Bytes(w)
    BY <1>1, BytesOfConcat
<1>3. lines \o w \in Seq(Line) /\ Len(lines \o w) = Len(lines) + Len(w)
    BY <1>1
<1>4. \A i \in 1..Len(lines \o w) : (lines \o w)[i].kind = "row"
    BY <1>1, ConcatElements
<1> QED
    BY <1>2, <1>3, <1>4 DEF Readable

(* A batch that follows full ones has the next number.                     *)
LEMMA NumberedGrows ==
    ASSUME NEW batches \in Seq(BatchRecord), NEW b \in BatchRecord, Numbered(batches),
           \A n \in 1..Len(batches) : Len(batches[n].rows) = BatchSize,
           b.number = Len(batches) + 1, b.first = BatchSize * Len(batches) + 2
    PROVE  Numbered(Append(batches, b))
<1> DEFINE w == Append(batches, b)
           N == Len(batches)
<1>1. /\ Len(w) = N + 1 /\ N \in Nat
      /\ \A n \in 1..N : w[n] = batches[n]
      /\ w[N + 1] = b
    OBVIOUS
<1> HIDE DEF w
<1>2. BatchSize \in Nat
    BY StreamAssumption
<1> SUFFICES ASSUME NEW n \in 1..(N + 1)
             PROVE  /\ w[n].number = n /\ w[n].first = (n - 1) * BatchSize + 2
                    /\ n < N + 1 => Len(w[n].rows) = BatchSize
    BY <1>1 DEF Numbered, w
<1>3. CASE n = N + 1
    <2>1. n - 1 = N /\ w[n] = b
        BY <1>1, <1>3
    <2>2. BatchSize * N = N * BatchSize
        BY <1>1, <1>2
    <2> QED
        BY <1>1, <1>2, <1>3, <2>1, <2>2
<1>4. CASE n # N + 1
    <2>1. n \in 1..N /\ w[n] = batches[n]
        BY <1>1, <1>4
    <2> QED
        BY <2>1 DEF Numbered
<1> QED
    BY <1>3, <1>4

(* In a file with a header and no line that is skipped, row n of the data  *)
(* is line n after the header.                                             *)
LEMMA RowsAreLines ==
    ASSUME NEW s \in SourceRecord, NEW n \in 0..Len(s.lines),
           \A i \in 1..Len(s.lines) : ~Skipped(s.format, s.lines[i]),
           \A i \in 1..n : ~Unreadable(s.format, s.lines[i])
    PROVE  Len(RowsTo(s, n)) = n /\ \A i \in 1..n : RowsTo(s, n)[i] = s.lines[i]
<1>1. s.lines \in Seq(Line)
    BY DEF SourceRecord
<1>2. n \in Nat /\ n <= Len(s.lines)
    BY <1>1
<1>3. \A i \in 1..n : i \in RowPositions(s)
    <2> SUFFICES ASSUME NEW i \in 1..n PROVE IsRow(s.format, s.lines[i])
        BY <1>1, <1>2 DEF RowPositions
    <2>1. i \in 1..Len(s.lines)
        BY <1>1, <1>2
    <2>2. s.lines[i].kind \in Kind
        BY <1>1, <2>1, LineFields
    <2> QED
        BY <2>1, <2>2 DEF IsRow, Skipped, Unreadable, Kind
<1> HIDE DEF RowPositions
<1>4. /\ Len(Chosen(s.lines, RowPositions(s))[n]) = n
      /\ \A i \in 1..n : Chosen(s.lines, RowPositions(s))[n][i] = s.lines[i]
    BY <1>1, <1>2, <1>3, ChosenAll
<1> QED
    BY <1>4 DEF RowsTo

(* The rows a batch adds to the error report are invalid rows.             *)
LEMMA ReportedGrows ==
    ASSUME NEW s \in SourceRecord, NEW n \in 0..Len(s.lines), NEW report,
           NEW rows \in Seq(Line), NEW b \in BatchRecord,
           Reported(report, s), rows \o b.rows = RowsTo(s, n), b.first = Len(rows) + 2,
           \A i \in 1..n : ~Unreadable(s.format, s.lines[i])
    PROVE  Reported(report \cup Wrong(b), s)
<1> SUFFICES ASSUME s.format # "jsonl", \A i \in 1..Len(s.lines) : ~Skipped(s.format, s.lines[i]),
                    NEW r \in report \cup Wrong(b)
             PROVE  r - 1 \in 1..Len(s.lines) /\ s.lines[r - 1].kind = "invalid"
    BY DEF Reported
<1>1. CASE r \in report
    BY <1>1 DEF Reported
<1>2. CASE r \in Wrong(b)
    <2>1. PICK i \in 1..Len(b.rows) : b.rows[i].kind = "invalid" /\ r = b.first + i - 1
        BY <1>2 DEF Wrong
    <2>2. s.lines \in Seq(Line) /\ b.rows \in Seq(Line)
        BY DEF SourceRecord, BatchRecord
    <2>3. /\ i \in Nat /\ i >= 1 /\ i <= Len(b.rows) /\ Len(b.rows) \in Nat /\ Len(rows) \in Nat
          /\ n \in Nat /\ n <= Len(s.lines) /\ Len(s.lines) \in Nat
        BY <2>2
    <2>4. r - 1 = Len(rows) + i
        BY <2>1, <2>3
    <2>5. Len(RowsTo(s, n)) = n /\ \A k \in 1..n : RowsTo(s, n)[k] = s.lines[k]
        BY RowsAreLines
    <2>6. /\ Len(rows \o b.rows) = Len(rows) + Len(b.rows)
          /\ (rows \o b.rows)[Len(rows) + i] = b.rows[i]
        BY <2>2, <2>3
    <2>7. n = Len(rows) + Len(b.rows)
        BY <2>5, <2>6
    <2>8. Len(rows) + i \in 1..n /\ Len(rows) + i \in 1..Len(s.lines)
        BY <2>3, <2>7
    <2>9. s.lines[Len(rows) + i] = b.rows[i]
        BY <2>5, <2>6, <2>8
    <2> QED
        BY <2>1, <2>4, <2>8, <2>9
<1> QED
    BY <1>1, <1>2
-----------------------------------------------------------------------------
(* A pass that ends with an error leaves everything else as it is.         *)
LEMMA EndedKeeps ==
    ASSUME NEW c, NEW q \in StreamRecord, NEW lines, NEW report, NEW batches, NEW e \in Err,
           q.pos \in 1..(Len(q.src.lines) + 1), q.read <= MaxBytes,
           Stored(c, lines, report, batches, q.src, q.rows), e # "none",
           Acceptable(q.src) =>
               ~q.exceeded /\ e \in {"context", "provider", "output_limit"},
           c = "apply" => e # "output_limit"
    PROVE  StreamOK(c, Ended(q, e), lines, report, batches)
<1> DEFINE r == Ended(q, e)
<1>1. r \in StreamRecord
    BY Zenon DEF Ended, StreamRecord
<1>2. /\ r.stage = "ended" /\ r.err = e /\ r.src = q.src /\ r.pos = q.pos /\ r.rows = q.rows
      /\ r.read = q.read /\ r.exceeded = q.exceeded
    BY DEF Ended, StreamRecord
<1>3. q.exceeded \in BOOLEAN
    BY StreamFields
<1> HIDE DEF r
<1>4. ResultOf(r) # "none"
    BY <1>2 DEF ResultOf
<1>5. Acceptable(q.src) => ResultOf(r) \in {"context", "provider", "output_limit"}
    BY <1>2 DEF ResultOf
<1>6. EndsWell(r, batches[c])
    BY <1>4 DEF EndsWell
<1>7. Stored(c, lines, report, batches, r.src, r.rows)
    BY <1>2
<1>8. Acceptable(r.src) => ResultOf(r) \in {"none", "context", "provider", "output_limit"}
    BY <1>2, <1>5
<1>9. c = "apply" => r.err # "output_limit"
    BY <1>2
<1>10. r.pos \in 1..(Len(r.src.lines) + 1) /\ r.read <= MaxBytes
    BY <1>2
<1>11. r.stage # "open" /\ r.stage # "lines"
    BY <1>2
<1> QED
    BY <1>1, <1>6, <1>7, <1>8, <1>9, <1>10, <1>11 DEF StreamOK, r

(* Too many rows, or an exceeded limit, and the source is not acceptable.  *)
LEMMA DueAcceptable ==
    ASSUME NEW c, NEW q, NEW lines, NEW report, NEW batches,
           Due(c, q, lines, report, batches), Acceptable(q.src)
    PROVE  ~q.exceeded /\ WithinRowLimit(q)
<1>1. q \in StreamRecord /\ q.pos \in 1..(Len(q.src.lines) + 1) /\ Reading(q, batches[c])
    BY DEF Due
<1>2. /\ q.src \in SourceRecord /\ q.src.lines \in Seq(Line) /\ q.pos \in Nat
      /\ q.batch \in Seq(Line) /\ q.rows \in Nat
    BY <1>1, StreamFields
<1>3. TotalBytes(q.src) \in Nat /\ TotalBytes(q.src) <= MaxBytes /\ MaxBytes \in Nat
    BY <1>2, ReadByLine, StreamAssumption DEF Acceptable
<1>4. ~q.exceeded
    <2>1. q.exceeded => TotalBytes(q.src) > MaxBytes
        BY <1>1 DEF Reading
    <2> QED
        BY <1>3, <2>1
<1>5. /\ c \in Passes /\ batches \in [Passes -> Seq(BatchRecord)]
      /\ q.rows = Len(JoinedRows(batches[c]))
    BY DEF Due, Stored
<1>6. batches[c] \in Seq(BatchRecord)
    BY <1>5
<1>7. JoinedRows(batches[c]) \in Seq(Line)
    <2>1. Len(batches[c]) \in 0..Len(batches[c])
        BY <1>6
    <2> QED
        BY <1>6, <2>1, JoinedUnfold DEF JoinedRows
<1>8. q.pos - 1 \in 0..Len(q.src.lines)
    BY <1>1, <1>2
<1>9. JoinedRows(batches[c]) \o q.batch = RowsTo(q.src, q.pos - 1)
    BY <1>1 DEF Reading
<1>10. Len(RowsTo(q.src, q.pos - 1)) = q.rows + Len(q.batch)
    <2>1. Len(JoinedRows(batches[c]) \o q.batch) = Len(JoinedRows(batches[c])) + Len(q.batch)
        BY <1>2, <1>7
    <2> QED
        BY <1>5, <1>9, <2>1
<1>11. Len(RowsTo(q.src, q.pos - 1)) <= Len(RowsOf(q.src)) /\ RowsOf(q.src) \in Seq(Line)
    BY <1>2, <1>8, RowsByLine DEF Prefix
<1>12. Len(RowsOf(q.src)) <= MaxRows /\ MaxRows \in Nat
    BY StreamAssumption DEF Acceptable
<1>13. Len(RowsOf(q.src)) \in Nat /\ Len(q.batch) \in Nat
    BY <1>2, <1>11
<1>14. q.rows + Len(q.batch) <= MaxRows
    BY <1>2, <1>10, <1>11, <1>12, <1>13
<1> QED
    BY <1>4, <1>14 DEF WithinRowLimit

(* What consuming the batch that is due stores.                            *)
LEMMA ConsumeKeeps ==
    ASSUME NEW q, Due(pass, q, norm, invalid, consumed), WithinRowLimit(q),
           Consume(Batch(q)), UNCHANGED pass
    PROVE  /\ Stored(pass', norm', invalid', consumed', q.src, q.rows + Len(q.batch))
           /\ JoinedRows(consumed'[pass]) = RowsTo(q.src, q.pos - 1)
           /\ Len(consumed'[pass]) = Len(consumed[pass]) + 1
           /\ Len(q.batch) = BatchSize =>
                  \A n \in 1..Len(consumed'[pass]) : Len(consumed'[pass][n].rows) = BatchSize
<1> DEFINE b == Batch(q)
           bs == consumed[pass]
           all == JoinedRows(bs)
           ws == Append(bs, b)
<1>1. /\ q \in StreamRecord /\ q.pos \in 1..(Len(q.src.lines) + 1) /\ Reading(q, bs)
      /\ Stored(pass, norm, invalid, consumed, q.src, q.rows)
    BY DEF Due
<1>2. /\ q.src \in SourceRecord /\ q.src.lines \in Seq(Line) /\ q.pos \in Nat
      /\ q.batch \in Seq(Line) /\ q.rows \in Nat /\ Len(q.batch) \in Nat
    BY <1>1, StreamFields
<1>3. /\ pass \in Passes /\ invalid \subseteq Nat /\ consumed \in [Passes -> Seq(BatchRecord)]
      /\ q.rows = Len(all)
      /\ \A x \in Passes : Numbered(consumed[x])
      /\ Readable(norm)
      /\ pass = "validate" =>
             consumed["apply"] = <<>> /\ Len(norm) <= q.rows /\ Reported(invalid, q.src)
      /\ pass = "apply" => q.src = [format |-> "jsonl", header |-> <<>>, lines |-> norm]
    BY <1>1 DEF Stored
<1>4. bs \in Seq(BatchRecord) /\ Len(bs) \in Nat
    BY <1>3
<1>5. /\ all \o q.batch = RowsTo(q.src, q.pos - 1)
      /\ q.rows = BatchSize * Len(bs)
      /\ \A n \in 1..Len(bs) : Len(bs[n].rows) = BatchSize
      /\ \A i \in 1..(q.pos - 1) : ~Unreadable(q.src.format, q.src.lines[i])
    BY <1>1 DEF Reading
<1>6. q.pos - 1 \in 0..Len(q.src.lines)
    BY <1>1, <1>2
<1>7. all \in Seq(Line)
    <2>1. Len(bs) \in 0..Len(bs)
        BY <1>4
    <2> QED
        BY <1>4, <2>1, JoinedUnfold DEF JoinedRows
<1>8. b.number = q.rows \div BatchSize + 1 /\ b.first = q.rows + 2 /\ b.rows = q.batch
    BY DEF Batch
<1>9. q.rows \div BatchSize = Len(bs)
    BY <1>4, <1>5, NumberOfBatch
<1>10. b.number = Len(bs) + 1 /\ b.first = BatchSize * Len(bs) + 2 /\ b.first = Len(all) + 2
    BY <1>3, <1>5, <1>8, <1>9
<1>11. b \in BatchRecord
    <2>1. q.rows \div BatchSize + 1 \in Nat /\ q.rows + 2 \in Nat
        BY <1>2, <1>4, <1>9
    <2> QED
        BY <1>2, <2>1 DEF Batch, BatchRecord
<1>12. /\ pass = "validate" => OutputFits(Written(q.batch))
       /\ consumed' = [consumed EXCEPT ![pass] = Append(@, b)]
       /\ norm' = IF pass = "validate" THEN norm \o Written(q.batch) ELSE norm
       /\ invalid' = IF pass = "validate" THEN invalid \cup Wrong(b) ELSE invalid
    BY <1>8, Zenon DEF Consume, Written, Wrong
<1> HIDE DEF b
<1>13. JoinedRows(ws) = all \o b.rows
    BY <1>4, <1>11, JoinedAppend
<1>14. JoinedRows(ws) = RowsTo(q.src, q.pos - 1)
    BY <1>5, <1>8, <1>13
<1>15. ws \in Seq(BatchRecord) /\ Len(ws) = Len(bs) + 1
    BY <1>4, <1>11
<1>16. Numbered(ws)
    BY <1>3, <1>4, <1>5, <1>10, <1>11, NumberedGrows
<1>17. Len(JoinedRows(ws)) = q.rows + Len(q.batch)
    BY <1>2, <1>3, <1>7, <1>8, <1>13
<1>18. Prefix(JoinedRows(ws), RowsOf(q.src))
    BY <1>2, <1>6, <1>14, RowsByLine
<1>19. Len(q.batch) = BatchSize => \A n \in 1..Len(ws) : Len(ws[n].rows) = BatchSize
    BY <1>4, <1>5, <1>8, <1>11
<1>20. q.rows + Len(q.batch) \in Nat /\ q.rows + Len(q.batch) <= MaxRows
    BY <1>2 DEF WithinRowLimit
<1> HIDE DEF ws, all
<1>21. consumed'[pass] = ws /\ \A x \in Passes : x # pass => consumed'[x] = consumed[x]
    BY <1>3, <1>12 DEF ws
<1>22. consumed' \in [Passes -> Seq(BatchRecord)]
    <2>1. consumed' = [consumed EXCEPT ![pass] = ws]
        BY <1>12 DEF ws
    <2> QED
        BY <1>3, <1>15, <2>1
<1>23. \A x \in Passes : Numbered(consumed'[x])
    BY <1>3, <1>16, <1>21
<1>24. /\ Readable(norm') /\ invalid' \subseteq Nat
       /\ pass = "validate" => Len(norm') <= q.rows + Len(q.batch) /\ Reported(invalid', q.src)
       /\ pass = "apply" => norm' = norm
    <2>1. CASE pass = "apply"
        BY <1>3, <1>12, <2>1
    <2>2. CASE pass = "validate"
        <3>1. norm' = norm \o Written(q.batch) /\ invalid' = invalid \cup Wrong(b)
            BY <1>12, <2>2
        <3>2. /\ Written(q.batch) \in Seq(Line) /\ Len(Written(q.batch)) <= Len(q.batch)
              /\ \A i \in 1..Len(Written(q.batch)) : Written(q.batch)[i].kind = "row"
            BY <1>2, WrittenRows
        <3>3. norm \in Seq(Line) /\ Len(norm) \in Nat /\ Len(norm) <= q.rows
            BY <1>3, <2>2 DEF Readable
        <3>4. Len(Written(q.batch)) \in Nat
            BY <3>2
        <3>5. Len(norm \o Written(q.batch)) = Len(norm) + Len(Written(q.batch))
            BY <3>2, <3>3
        <3>6. Len(norm) + Len(Written(q.batch)) <= q.rows + Len(q.batch)
            BY <1>2, <3>2, <3>3, <3>4
        <3>7. MaxRows \in Nat
            BY StreamAssumption
        <3>8. Len(norm) + Len(Written(q.batch)) <= MaxRows
            BY <1>20, <3>3, <3>4, <3>6, <3>7
        <3>9. Bytes(norm) + Bytes(Written(q.batch)) <= MaxBytes
            BY <1>12, <2>2 DEF OutputFits
        <3>10. Readable(norm \o Written(q.batch))
            BY <1>3, <3>2, <3>8, <3>9, ReadableGrows
        <3>11. all \o b.rows = RowsTo(q.src, q.pos - 1) /\ b.first = Len(all) + 2
            BY <1>5, <1>8, <1>10
        <3>12. Reported(invalid \cup Wrong(b), q.src)
            BY <1>2, <1>3, <1>5, <1>6, <1>7, <1>11, <2>2, <3>11, ReportedGrows
        <3>13. Wrong(b) \subseteq Nat
            <4>1. b.first \in Nat
                BY <1>2, <1>8
            <4>2. b.rows \in Seq(Line)
                BY <1>2, <1>8
            <4>3. \A i \in 1..Len(b.rows) : b.first + i - 1 \in Nat
                BY <4>1, <4>2
            <4> QED
                BY <4>3 DEF Wrong
        <3> QED
            BY <1>3, <2>2, <3>1, <3>5, <3>6, <3>10, <3>12, <3>13
    <2> QED
        BY <1>3, <2>1, <2>2 DEF Passes
<1>25. pass = "validate" => consumed'["apply"] = <<>>
    BY <1>3, <1>21 DEF Passes
<1>26. /\ q.rows + Len(q.batch) = Len(JoinedRows(consumed'[pass]))
       /\ Prefix(JoinedRows(consumed'[pass]), RowsOf(q.src))
    BY <1>17, <1>18, <1>21
<1>27. Stored(pass, norm', invalid', consumed', q.src, q.rows + Len(q.batch))
    BY <1>2, <1>3, <1>20, <1>22, <1>23, <1>24, <1>25, <1>26 DEF Stored
<1>28. Stored(pass', norm', invalid', consumed', q.src, q.rows + Len(q.batch))
    BY <1>27
<1> QED
    BY <1>14, <1>15, <1>19, <1>21, <1>28
-----------------------------------------------------------------------------
(* The state between two rounds of the loop.                               *)
LEMMA LinesKeep ==
    ASSUME NEW c, NEW q, NEW lines, NEW report, NEW batches,
           Due(c, q, lines, report, batches), q.stage = "lines", Len(q.batch) < BatchSize
    PROVE  StreamOK(c, q, lines, report, batches)
<1>1. q.err = "none"
    BY DEF Due, Reading
<1>2. Acceptable(q.src) => ResultOf(q) = "none"
    BY <1>1, DueAcceptable DEF ResultOf
<1> QED
    BY <1>1, <1>2 DEF StreamOK, Due

(* The state after the last line.                                          *)
LEMMA EndKeeps ==
    ASSUME NEW c, NEW q \in StreamRecord, NEW lines, NEW report, NEW batches,
           q.stage = "ended", q.err = "none", ~q.exceeded,
           q.pos = Len(q.src.lines) + 1, q.read <= MaxBytes,
           Stored(c, lines, report, batches, q.src, q.rows),
           q.src.format = "jsonl" \/ ValidHeader(q.src.header),
           JoinedRows(batches[c]) = RowsTo(q.src, q.pos - 1),
           q.read = ReadTo(q.src, q.pos - 1),
           \A i \in 1..(q.pos - 1) : ~Unreadable(q.src.format, q.src.lines[i])
    PROVE  StreamOK(c, q, lines, report, batches)
<1>1. q.src \in SourceRecord /\ q.src.lines \in Seq(Line) /\ Len(q.src.lines) \in Nat
    BY StreamFields
<1>2. q.pos - 1 = Len(q.src.lines) /\ q.pos \in 1..(Len(q.src.lines) + 1)
    BY <1>1
<1>3. JoinedRows(batches[c]) = RowsOf(q.src)
    BY <1>1, <1>2, RowsByLine
<1>4. q.read = TotalBytes(q.src)
    BY <1>1, <1>2, ReadByLine
<1>5. q.rows = Len(RowsOf(q.src)) /\ q.rows <= MaxRows
    BY <1>3 DEF Stored
<1>6. Acceptable(q.src)
    BY <1>2, <1>4, <1>5 DEF Acceptable
<1>7. ResultOf(q) = "none"
    BY DEF ResultOf
<1>8. EndsWell(q, batches[c])
    BY <1>3, <1>4, <1>6 DEF EndsWell
<1> QED
    BY <1>2, <1>7, <1>8 DEF StreamOK

(* emit keeps the invariant: the batch is due, and it is either full or    *)
(* the last one.                                                           *)
LEMMA EmitKeeps ==
    ASSUME NEW q, NEW next \in {"lines", "ended"}, Due(pass, q, norm, invalid, consumed),
           next = "lines" => Len(q.batch) = BatchSize,
           next = "ended" => q.pos = Len(q.src.lines) + 1 /\ ~q.exceeded,
           Emit(q, next)
    PROVE  StreamInv'
<1> SUFFICES StreamOK(pass', p', norm', invalid', consumed')
    BY DEF StreamInv
<1>1. /\ q \in StreamRecord /\ q.pos \in 1..(Len(q.src.lines) + 1) /\ q.read <= MaxBytes
      /\ Stored(pass, norm, invalid, consumed, q.src, q.rows)
    BY DEF Due
<1>2. /\ q.err = "none" /\ (q.src.format = "jsonl" \/ ValidHeader(q.src.header))
      /\ JoinedRows(consumed[pass]) \o q.batch = RowsTo(q.src, q.pos - 1)
      /\ q.rows = BatchSize * Len(consumed[pass])
      /\ q.exceeded => TotalBytes(q.src) > MaxBytes
      /\ ~q.exceeded => q.read = ReadTo(q.src, q.pos - 1)
      /\ \A i \in 1..(q.pos - 1) : ~Unreadable(q.src.format, q.src.lines[i])
    BY DEF Due, Reading
<1>3. /\ q.src \in SourceRecord /\ q.src.lines \in Seq(Line) /\ q.batch \in Seq(Line)
      /\ q.pos \in Nat /\ q.rows \in Nat /\ Len(q.batch) \in Nat
    BY <1>1, StreamFields
<1>4. BatchSize \in Nat /\ BatchSize > 0
    BY StreamAssumption
<1>5. Acceptable(q.src) => ~q.exceeded /\ WithinRowLimit(q)
    BY DueAcceptable
<1>6. ASSUME NEW e \in Err, p' = Ended(q, e), Quiet, e # "none",
             Acceptable(q.src) => e \in {"context", "provider", "output_limit"},
             pass = "apply" => e # "output_limit"
      PROVE  StreamOK(pass', p', norm', invalid', consumed')
    <2>1. StreamOK(pass, Ended(q, e), norm, invalid, consumed)
        BY <1>1, <1>5, <1>6, EndedKeeps
    <2> QED
        BY <1>6, <2>1 DEF Quiet
<1>7. CASE q.batch = <<>> /\ p' = [q EXCEPT !.stage = next] /\ Quiet
    <2>1. Len(q.batch) = 0 /\ next = "ended"
        BY <1>4, <1>7
    <2> DEFINE r == [q EXCEPT !.stage = "ended"]
    <2>2. r \in StreamRecord
        BY <1>1, Zenon DEF StreamRecord
    <2>3. /\ r.stage = "ended" /\ r.err = q.err /\ r.src = q.src /\ r.pos = q.pos
          /\ r.rows = q.rows /\ r.read = q.read /\ r.exceeded = q.exceeded
        BY <1>1 DEF StreamRecord
    <2>4. p' = r
        BY <1>7, <2>1
    <2> HIDE DEF r
    <2>5. JoinedRows(consumed[pass]) = RowsTo(q.src, q.pos - 1)
        <3>1. consumed[pass] \in Seq(BatchRecord)
            BY <1>1 DEF Stored
        <3>2. Len(consumed[pass]) \in 0..Len(consumed[pass])
            BY <3>1
        <3>3. JoinedRows(consumed[pass]) \in Seq(Line)
            BY <3>1, <3>2, JoinedUnfold DEF JoinedRows
        <3>4. JoinedRows(consumed[pass]) \o <<>> = JoinedRows(consumed[pass])
            BY <3>3
        <3> QED
            BY <1>2, <1>7, <3>4
    <2>6. StreamOK(pass, r, norm, invalid, consumed)
        BY <1>1, <1>2, <2>1, <2>2, <2>3, <2>5, EndKeeps
    <2> QED
        BY <1>7, <2>4, <2>6 DEF Quiet
<1>8. CASE p' = Ended(q, "context") /\ Quiet
    BY <1>6, <1>8 DEF Err
<1>9. CASE ~WithinRowLimit(q) /\ p' = Ended(q, "row_limit") /\ Quiet
    BY <1>5, <1>6, <1>9 DEF Err
<1>10. CASE p' = Ended(q, "provider") /\ Quiet
    BY <1>6, <1>10 DEF Err
<1>11. CASE pass = "validate" /\ p' = Ended(q, "output_limit") /\ Quiet
    BY <1>6, <1>11 DEF Err
<1>12. CASE /\ WithinRowLimit(q) /\ Consume(Batch(q)) /\ UNCHANGED pass
            /\ p' = [q EXCEPT !.stage = next, !.rows = @ + Len(q.batch), !.batch = <<>>]
    <2>1. /\ Stored(pass', norm', invalid', consumed', q.src, q.rows + Len(q.batch))
          /\ JoinedRows(consumed'[pass]) = RowsTo(q.src, q.pos - 1)
          /\ Len(consumed'[pass]) = Len(consumed[pass]) + 1
          /\ Len(q.batch) = BatchSize =>
                 \A n \in 1..Len(consumed'[pass]) : Len(consumed'[pass][n].rows) = BatchSize
        BY <1>12, ConsumeKeeps
    <2> DEFINE r == [q EXCEPT !.stage = next, !.rows = @ + Len(q.batch), !.batch = <<>>]
    <2>2. next \in {"open", "lines", "ended"} /\ q.rows + Len(q.batch) \in Nat /\ <<>> \in Seq(Line)
        BY <1>3
    <2>3. r \in StreamRecord
        BY <1>1, <2>2, Zenon DEF StreamRecord
    <2>4. /\ r.stage = next /\ r.err = q.err /\ r.src = q.src /\ r.pos = q.pos
          /\ r.rows = q.rows + Len(q.batch) /\ r.read = q.read /\ r.exceeded = q.exceeded
          /\ r.batch = <<>>
        BY <1>1 DEF StreamRecord
    <2>5. p' = r /\ pass' = pass
        BY <1>12
    <2> HIDE DEF r
    <2>6. Stored(pass', norm', invalid', consumed', r.src, r.rows)
        BY <2>1, <2>4
    <2>7. consumed'[pass] \in Seq(BatchRecord)
        BY <2>1, <2>5 DEF Stored
    <2>8. JoinedRows(consumed'[pass]) \in Seq(Line)
        <3>1. Len(consumed'[pass]) \in 0..Len(consumed'[pass])
            BY <2>7
        <3> QED
            BY <2>7, <3>1, JoinedUnfold DEF JoinedRows
    <2>9. CASE next = "lines"
        <3>1. Len(q.batch) = BatchSize
            BY <2>9
        <3>2. JoinedRows(consumed'[pass]) \o r.batch = RowsTo(r.src, r.pos - 1)
            BY <2>1, <2>4, <2>8
        <3>3. consumed[pass] \in Seq(BatchRecord)
            BY <1>1 DEF Stored
        <3>4. r.rows = BatchSize * Len(consumed'[pass])
            <4>1. Len(consumed[pass]) \in Nat
                BY <3>3
            <4>2. BatchSize * (Len(consumed[pass]) + 1)
                      = BatchSize * Len(consumed[pass]) + BatchSize
                BY <1>4, <4>1
            <4> QED
                BY <1>2, <2>1, <2>4, <3>1, <4>2
        <3>5. Len(r.batch) = 0
            BY <2>4
        <3>6. Reading(r, consumed'[pass])
            BY <1>2, <1>4, <2>1, <2>4, <3>1, <3>2, <3>4, <3>5 DEF Reading
        <3>7. Due(pass', r, norm', invalid', consumed')
            BY <1>1, <2>3, <2>4, <2>5, <2>6, <3>6 DEF Due
        <3>8. r.stage = "lines" /\ Len(r.batch) < BatchSize
            BY <1>4, <2>4, <2>9, <3>5
        <3>9. StreamOK(pass', r, norm', invalid', consumed')
            BY <3>7, <3>8, LinesKeep
        <3> QED
            BY <2>5, <3>9
    <2>10. CASE next = "ended"
        <3>1. StreamOK(pass', r, norm', invalid', consumed')
            BY <1>1, <1>2, <2>1, <2>3, <2>4, <2>5, <2>6, <2>10, EndKeeps
        <3> QED
            BY <2>5, <3>1
    <2> QED
        BY <2>9, <2>10
<1> QED
    BY <1>7, <1>8, <1>9, <1>10, <1>11, <1>12, Zenon DEF Emit
-----------------------------------------------------------------------------
(* Appending to the second part of a sequence is appending to the whole.   *)
LEMMA ConcatAppend ==
    ASSUME NEW S, NEW s \in Seq(S), NEW u \in Seq(S), NEW x \in S
    PROVE  s \o Append(u, x) = Append(s \o u, x)
<1> DEFINE v == <<x>>
<1>1. v \in Seq(S)
    OBVIOUS
<1>2. s \o u \in Seq(S)
    OBVIOUS
<1>3. Append(u, x) = u \o v
    BY AppendIsConcat, Zenon
<1>4. Append(s \o u, x) = (s \o u) \o v
    BY <1>2, AppendIsConcat, Zenon
<1> HIDE DEF v
<1>5. (s \o u) \o v = s \o (u \o v)
    BY <1>1, ConcatAssociative
<1> QED
    BY <1>3, <1>4, <1>5, Zenon

(* A line that was read: it joins the batch if it is a row, and nothing    *)
(* else changes.                                                           *)
LEMMA NextLineIsDue ==
    ASSUME NEW c, NEW o, NEW r \in StreamRecord, NEW lines, NEW report, NEW batches,
           Due(c, o, lines, report, batches), Len(o.batch) < BatchSize,
           o.pos <= Len(o.src.lines), ~Unreadable(o.src.format, o.src.lines[o.pos]),
           r.src = o.src, r.rows = o.rows, r.err = o.err, r.pos = o.pos + 1,
           r.batch = IF IsRow(o.src.format, o.src.lines[o.pos])
                     THEN Append(o.batch, o.src.lines[o.pos]) ELSE o.batch,
           r.read <= MaxBytes, r.exceeded => TotalBytes(r.src) > MaxBytes,
           ~r.exceeded => r.read = ReadTo(o.src, o.pos)
    PROVE  Due(c, r, lines, report, batches)
<1> DEFINE l == o.src.lines[o.pos]
           all == JoinedRows(batches[c])
<1>1. /\ o \in StreamRecord /\ o.pos \in 1..(Len(o.src.lines) + 1)
      /\ Stored(c, lines, report, batches, o.src, o.rows) /\ Reading(o, batches[c])
    BY DEF Due
<1>2. /\ o.src \in SourceRecord /\ o.src.lines \in Seq(Line) /\ o.batch \in Seq(Line)
      /\ o.pos \in Nat
    BY <1>1, StreamFields
<1>3. /\ o.err = "none" /\ (o.src.format = "jsonl" \/ ValidHeader(o.src.header))
      /\ all \o o.batch = RowsTo(o.src, o.pos - 1)
      /\ o.rows = BatchSize * Len(batches[c])
      /\ \A n \in 1..Len(batches[c]) : Len(batches[c][n].rows) = BatchSize
      /\ \A i \in 1..(o.pos - 1) : ~Unreadable(o.src.format, o.src.lines[i])
    BY <1>1 DEF Reading
<1>4. o.pos \in 1..Len(o.src.lines) /\ r.pos \in 1..(Len(r.src.lines) + 1) /\ r.pos - 1 = o.pos
    BY <1>1, <1>2
<1>5. l \in Line
    BY <1>2, <1>4
<1>6. batches[c] \in Seq(BatchRecord)
    BY <1>1 DEF Stored
<1>7. all \in Seq(Line)
    <2>1. Len(batches[c]) \in 0..Len(batches[c])
        BY <1>6
    <2> QED
        BY <1>6, <2>1, JoinedUnfold DEF JoinedRows
<1>8. RowsTo(o.src, o.pos) = IF IsRow(o.src.format, l) THEN Append(RowsTo(o.src, o.pos - 1), l)
                                                      ELSE RowsTo(o.src, o.pos - 1)
    BY <1>2, <1>4, RowsByLine
<1>9. all \o Append(o.batch, l) = Append(all \o o.batch, l)
    <2> HIDE DEF l, all
    <2>1. o.batch \in Seq(Line) /\ l \in Line /\ all \in Seq(Line)
        BY <1>2, <1>5, <1>7
    <2> QED
        BY ONLY <2>1, ConcatAppend
<1>10. all \o r.batch = RowsTo(r.src, r.pos - 1)
    BY <1>3, <1>4, <1>8, <1>9, Zenon
<1>11. Len(r.batch) <= BatchSize
    <2>1. BatchSize \in Nat
        BY StreamAssumption
    <2> QED
        BY <1>2, <1>5, <2>1
<1>12. \A i \in 1..(r.pos - 1) : ~Unreadable(r.src.format, r.src.lines[i])
    <2> SUFFICES ASSUME NEW i \in 1..o.pos PROVE ~Unreadable(o.src.format, o.src.lines[i])
        BY <1>4
    <2>1. i \in 1..(o.pos - 1) \/ i = o.pos
        BY <1>2
    <2> QED
        BY <1>3, <2>1
<1>13. ~r.exceeded => r.read = ReadTo(r.src, r.pos - 1)
    BY <1>4
<1>14. Reading(r, batches[c])
    BY <1>3, <1>10, <1>11, <1>12, <1>13 DEF Reading
<1>15. Stored(c, lines, report, batches, r.src, r.rows)
    BY <1>1
<1> QED
    BY <1>4, <1>14, <1>15 DEF Due

(* A row joins the batch, which is emitted when it is full.                *)
LEMMA AddKeeps ==
    ASSUME NEW q, NEW l, NEW r, r = [q EXCEPT !.batch = Append(@, l)],
           Due(pass, r, norm, invalid, consumed), r.stage = "lines", Add(q, l)
    PROVE  StreamInv'
<1>1. IF Len(r.batch) = BatchSize THEN Emit(r, "lines") ELSE p' = r /\ Quiet
    BY Zenon DEF Add
<1>2. r \in StreamRecord /\ Len(r.batch) <= BatchSize
    BY DEF Due, Reading
<1>3. CASE Len(r.batch) = BatchSize
    <2>1. Emit(r, "lines")
        BY <1>1, <1>3
    <2> QED
        BY <1>3, <2>1, EmitKeeps
<1>4. CASE Len(r.batch) # BatchSize
    <2>1. p' = r /\ Quiet
        BY <1>1, <1>4
    <2>2. r.batch \in Seq(Line) /\ BatchSize \in Nat
        BY <1>2, StreamFields, StreamAssumption
    <2>3. Len(r.batch) < BatchSize
        BY <1>2, <1>4, <2>2
    <2>4. StreamOK(pass, r, norm, invalid, consumed)
        BY <2>3, LinesKeep
    <2> QED
        BY <2>1, <2>4 DEF StreamInv, Quiet
<1> QED
    BY <1>3, <1>4

(* The initial state, of either pass.                                      *)
LEMMA OpenedKeeps ==
    ASSUME NEW c, NEW s, NEW lines, NEW report, NEW batches,
           Stored(c, lines, report, batches, s, 0), batches[c] = <<>>
    PROVE  StreamOK(c, Opened(s), lines, report, batches)
<1> DEFINE q == Opened(s)
<1>1. s \in SourceRecord /\ MaxBytes \in Nat
    BY StreamAssumption DEF Stored
<1>2. q \in StreamRecord
    <2>1. <<>> \in Seq(Line) /\ 1 \in Nat /\ 0 \in Nat /\ FALSE \in BOOLEAN /\ "none" \in Err
        BY DEF Err
    <2> QED
        BY <1>1, <2>1 DEF Opened, StreamRecord
<1>3. /\ q.src = s /\ q.stage = "open" /\ q.pos = 1 /\ q.rows = 0 /\ q.read = 0
      /\ q.exceeded = FALSE /\ q.err = "none" /\ q = Opened(q.src)
    BY DEF Opened
<1> HIDE DEF q
<1>4. Len(s.lines) \in Nat
    BY <1>1 DEF SourceRecord
<1>5. q.pos \in 1..(Len(q.src.lines) + 1) /\ q.read <= MaxBytes
    BY <1>1, <1>3, <1>4
<1>6. ResultOf(q) = "none"
    BY <1>3 DEF ResultOf
<1> QED
    BY <1>2, <1>3, <1>5, <1>6 DEF StreamOK, q

(* The first pass starts with nothing written, reported or delivered.      *)
LEMMA StreamInvInit == Init => StreamInv
<1> SUFFICES ASSUME Init PROVE StreamInv
    OBVIOUS
<1>1. PICK s \in Sources : p = Opened(s)
    BY DEF Init, StreamInit
<1>2. /\ pass = "validate" /\ norm = <<>> /\ invalid = {}
      /\ consumed = [c \in {"validate", "apply"} |-> <<>>]
    BY DEF Init, StreamInit
<1>3. s \in SourceRecord
    <2>1. s \in [format: Format, header: {s.header}, lines: Seq(Line)]
        BY StreamAssumption
    <2>2. /\ s = [format |-> s.format, header |-> s.header, lines |-> s.lines]
          /\ s.format \in Format /\ s.lines \in Seq(Line)
        BY <2>1
    <2>3. s.header \in {x.header : x \in Sources} \cup {<<>>}
        OBVIOUS
    <2> QED
        BY <2>2, <2>3, Zenon DEF SourceRecord
<1>4. \A x \in Passes : consumed[x] = <<>>
    BY <1>2 DEF Passes
<1>5. JoinedRows(<<>>) = <<>>
    <2>1. <<>> \in Seq(BatchRecord) /\ Len(<<>>) = 0
        OBVIOUS
    <2>2. Joined(<<>>)[0] = <<>>
        BY <2>1, JoinedUnfold
    <2> QED
        BY <2>1, <2>2 DEF JoinedRows
<1>6. Bytes(<<>>) = 0
    <2>1. <<>> \in Seq(Line) /\ Len(<<>>) = 0
        OBVIOUS
    <2>2. BytesUpTo(<<>>)[0] = 0
        BY <2>1, BytesUnfold
    <2> QED
        BY <2>1, <2>2 DEF Bytes
<1>7. Readable(norm)
    BY <1>2, <1>6, StreamAssumption DEF Readable
<1>8. RowsOf(s) \in Seq(Line)
    BY <1>3, RowsByLine
<1>9. Prefix(<<>>, RowsOf(s))
    BY <1>8 DEF Prefix
<1>10. Numbered(<<>>)
    BY DEF Numbered
<1>11. Reported({}, s)
    BY DEF Reported
<1>12. consumed \in [Passes -> Seq(BatchRecord)] /\ pass \in Passes
    BY <1>2 DEF Passes
<1>13. Len(<<>>) = 0 /\ 0 \in Nat /\ 0 <= MaxRows
    BY StreamAssumption
<1>14. Stored(pass, norm, invalid, consumed, s, 0)
    BY <1>2, <1>3, <1>4, <1>5, <1>7, <1>9, <1>10, <1>11, <1>12, <1>13 DEF Stored
<1>15. StreamOK(pass, Opened(s), norm, invalid, consumed)
    BY <1>4, <1>12, <1>14, OpenedKeeps
<1> QED
    BY <1>1, <1>15 DEF StreamInv
-----------------------------------------------------------------------------
(* What the invariant says between two rounds of the loop.                 *)
LEMMA LoopIsDue ==
    ASSUME StreamInv, p.stage = "lines"
    PROVE  Due(pass, p, norm, invalid, consumed) /\ Len(p.batch) < BatchSize
BY DEF StreamInv, StreamOK, Due

(* Reading the header.                                                     *)
LEMMA OpenKeeps == StreamInv /\ Open => StreamInv'
<1> SUFFICES ASSUME StreamInv, Open PROVE StreamInv'
    OBVIOUS
<1>1. /\ p \in StreamRecord /\ p.pos \in 1..(Len(p.src.lines) + 1) /\ p.read <= MaxBytes
      /\ Stored(pass, norm, invalid, consumed, p.src, p.rows)
      /\ p = Opened(p.src) /\ consumed[pass] = <<>>
    BY DEF StreamInv, StreamOK, Open
<1>2. /\ p.pos = 1 /\ p.batch = <<>> /\ p.rows = 0 /\ p.read = 0
      /\ p.exceeded = FALSE /\ p.err = "none"
    BY <1>1 DEF Opened
<1>3. p.src \in SourceRecord /\ p.src.lines \in Seq(Line) /\ Len(p.src.lines) \in Nat
    BY <1>1, StreamFields
<1>4. MaxBytes \in Nat /\ BatchSize \in Nat /\ BatchSize > 0 /\ HeaderBytes \in Nat
    BY StreamAssumption DEF HeaderBytes
<1>5. TotalBytes(p.src) \in Nat
    BY <1>3, ReadByLine
<1>6. ASSUME NEW h \in Nat, h <= MaxBytes, h = ReadTo(p.src, 0),
             p.src.format = "jsonl" \/ ValidHeader(p.src.header),
             p' = [p EXCEPT !.stage = "lines", !.read = h], Quiet
      PROVE  StreamInv'
    <2> DEFINE r == [p EXCEPT !.stage = "lines", !.read = h]
    <2>1. r \in StreamRecord
        BY <1>1, <1>6, Zenon DEF StreamRecord
    <2>2. /\ r.stage = "lines" /\ r.err = "none" /\ r.src = p.src /\ r.pos = 1
          /\ r.rows = 0 /\ r.read = h /\ r.exceeded = FALSE /\ r.batch = <<>>
        BY <1>1, <1>2 DEF StreamRecord
    <2>3. p' = r
        BY <1>6
    <2> HIDE DEF r
    <2>4. JoinedRows(<<>>) = <<>>
        <3>1. <<>> \in Seq(BatchRecord) /\ Len(<<>>) = 0
            OBVIOUS
        <3>2. Joined(<<>>)[0] = <<>>
            BY <3>1, JoinedUnfold
        <3> QED
            BY <3>1, <3>2 DEF JoinedRows
    <2>5. RowsTo(p.src, 0) = <<>>
        BY <1>3, RowsByLine
    <2>6. <<>> \o <<>> = <<>> /\ Len(<<>>) = 0 /\ r.pos - 1 = 0 /\ BatchSize * 0 = 0
        BY <1>4, <2>2
    <2>7. Reading(r, <<>>)
        <3>1. JoinedRows(<<>>) \o r.batch = RowsTo(r.src, r.pos - 1)
            BY <2>2, <2>4, <2>5, <2>6, Zenon
        <3>2. r.rows = BatchSize * Len(<<>>) /\ Len(r.batch) <= BatchSize
            BY <1>4, <2>2, <2>6
        <3>3. r.read = ReadTo(r.src, r.pos - 1)
            BY <1>6, <2>2, <2>6
        <3> QED
            BY <1>6, <2>2, <2>6, <3>1, <3>2, <3>3 DEF Reading
    <2>8. Due(pass, r, norm, invalid, consumed)
        BY <1>1, <1>2, <1>3, <1>6, <2>1, <2>2, <2>7 DEF Due
    <2>9. StreamOK(pass, r, norm, invalid, consumed)
        BY <1>4, <2>2, <2>6, <2>8, LinesKeep
    <2> QED
        BY <1>6, <2>3, <2>9 DEF StreamInv, Quiet
<1>7. ASSUME NEW q \in StreamRecord, q.src = p.src, q.pos = p.pos, q.rows = p.rows,
             q.read = p.read, p' = Ended(q, "header"), ~Acceptable(p.src), Quiet
      PROVE  StreamInv'
    <2>1. StreamOK(pass, Ended(q, "header"), norm, invalid, consumed)
        BY <1>1, <1>7, EndedKeeps DEF Err
    <2> QED
        BY <1>7, <2>1 DEF StreamInv, Quiet
<1>8. ASSUME p' = [Ended(p, "header") EXCEPT !.exceeded = TRUE], ~Acceptable(p.src), Quiet
      PROVE  StreamInv'
    <2> DEFINE q == [p EXCEPT !.exceeded = TRUE]
    <2>1. q \in StreamRecord
        BY <1>1, Zenon DEF StreamRecord
    <2>2. q.src = p.src /\ q.pos = p.pos /\ q.rows = p.rows /\ q.read = p.read
        BY <1>1 DEF StreamRecord
    <2>3. p' = Ended(q, "header")
        BY <1>1, <1>8 DEF Ended, StreamRecord
    <2> HIDE DEF q
    <2> QED
        BY <1>7, <1>8, <2>1, <2>2, <2>3
<1>9. Quiet
    BY DEF Open
<1>10. CASE p.src.format = "jsonl" /\ p' = [p EXCEPT !.stage = "lines"]
    <2>1. ReadTo(p.src, 0) = 0
        BY <1>3, <1>10, ReadByLine
    <2>2. p' = [p EXCEPT !.stage = "lines", !.read = 0]
        <3>1. [p EXCEPT !.stage = "lines", !.read = 0] = [p EXCEPT !.stage = "lines"]
            <4> DEFINE a == [p EXCEPT !.stage = "lines", !.read = 0]
                       b == [p EXCEPT !.stage = "lines"]
            <4>1. a \in StreamRecord /\ b \in StreamRecord
                BY <1>1, Zenon DEF StreamRecord
            <4>2. /\ a.src = b.src /\ a.stage = b.stage /\ a.pos = b.pos /\ a.batch = b.batch
                  /\ a.rows = b.rows /\ a.read = b.read /\ a.exceeded = b.exceeded
                  /\ a.err = b.err
                BY <1>1, <1>2 DEF StreamRecord
            <4> HIDE DEF a, b
            <4>3. a = b
                BY <4>1, <4>2 DEF StreamRecord
            <4> QED
                BY <4>3 DEF a, b
        <3> QED
            BY <1>10, <3>1
    <2>3. 0 \in Nat /\ 0 <= MaxBytes
        BY <1>4
    <2> QED
        BY <1>6, <1>9, <1>10, <2>1, <2>2, <2>3
<1>11. ASSUME NEW h \in Nat, h = ReadTo(p.src, 0), p.src.format # "jsonl",
              h <= TotalBytes(p.src),
              \/ ~Fits(p, h) /\ p' = [Ended(p, "header") EXCEPT !.exceeded = TRUE]
              \/ /\ Fits(p, h)
                 /\ p' = IF ValidHeader(p.src.header)
                         THEN [p EXCEPT !.stage = "lines", !.read = h] ELSE Ended(p, "header")
       PROVE  StreamInv'
    <2>1. Fits(p, h) <=> h <= MaxBytes
        BY <1>2, <1>4, <1>11 DEF Fits
    <2>2. CASE ~Fits(p, h)
        <3>1. ~Acceptable(p.src)
            BY <1>4, <1>5, <1>11, <2>1, <2>2 DEF Acceptable
        <3> QED
            BY <1>8, <1>9, <1>11, <2>2, <3>1
    <2>3. CASE Fits(p, h) /\ ValidHeader(p.src.header)
        BY <1>6, <1>9, <1>11, <2>1, <2>3
    <2>4. CASE Fits(p, h) /\ ~ValidHeader(p.src.header)
        <3>1. ~Acceptable(p.src)
            BY <1>11, <2>4 DEF Acceptable
        <3> QED
            BY <1>1, <1>7, <1>9, <1>11, <2>4, <3>1
    <2> QED
        BY <2>2, <2>3, <2>4
<1> DEFINE q == [p EXCEPT !.stage = "lines"]
<1>12. \A h : [q EXCEPT !.read = h] = [p EXCEPT !.stage = "lines", !.read = h]
    BY <1>1 DEF StreamRecord
<1>13. CASE p.src.format = "csv"
    <2>1. ReadTo(p.src, 0) = HeaderBytes /\ HeaderBytes <= TotalBytes(p.src)
        BY <1>3, <1>4, <1>5, <1>13, ReadByLine
    <2>2. \/ /\ ~Fits(p, HeaderBytes)
             /\ p' = [Ended(p, "header") EXCEPT !.exceeded = TRUE]
          \/ /\ Fits(p, HeaderBytes)
             /\ p' = IF ValidHeader(p.src.header)
                     THEN [p EXCEPT !.stage = "lines", !.read = HeaderBytes]
                     ELSE Ended(p, "header")
        <3>1. \/ /\ ~Fits(p, HeaderBytes)
                 /\ p' = [Ended(p, "header") EXCEPT !.exceeded = TRUE]
              \/ /\ Fits(p, HeaderBytes)
                 /\ p' = IF ValidHeader(p.src.header)
                         THEN [q EXCEPT !.read = HeaderBytes] ELSE Ended(p, "header")
            <4>1. p.src.format # "jsonl" /\ p.src.format # "xlsx"
                BY <1>13
            <4> QED
                BY <4>1, Zenon DEF Open
        <3> QED
            BY <1>12, <3>1, Zenon
    <2> QED
        BY <1>4, <1>11, <1>13, <2>1, <2>2
<1>14. CASE p.src.format = "xlsx"
    <2>1. ReadTo(p.src, 0) = TotalBytes(p.src)
        <3>1. 0 \in 0..Len(p.src.lines)
            BY <1>3
        <3> QED
            BY <1>3, <1>14, <3>1, ReadByLine
    <2>2. \/ /\ ~Fits(p, TotalBytes(p.src))
             /\ p' = [Ended(p, "header") EXCEPT !.exceeded = TRUE]
          \/ /\ Fits(p, TotalBytes(p.src))
             /\ p' = IF ValidHeader(p.src.header)
                     THEN [p EXCEPT !.stage = "lines", !.read = TotalBytes(p.src)]
                     ELSE Ended(p, "header")
        <3>1. \/ /\ ~Fits(p, TotalBytes(p.src))
                 /\ p' = [Ended(p, "header") EXCEPT !.exceeded = TRUE]
              \/ /\ Fits(p, TotalBytes(p.src))
                 /\ p' = IF ValidHeader(p.src.header)
                         THEN [q EXCEPT !.read = TotalBytes(p.src)] ELSE Ended(p, "header")
            <4>1. p.src.format # "jsonl" /\ p.src.format # "csv"
                BY <1>14
            <4> QED
                BY <4>1, Zenon DEF Open
        <3> QED
            BY <1>12, <3>1, Zenon
    <2>3. TotalBytes(p.src) <= TotalBytes(p.src) /\ p.src.format # "jsonl"
        BY <1>5, <1>14
    <2> QED
        BY <1>5, <1>11, <2>1, <2>2, <2>3
<1> QED
    BY <1>10, <1>13, <1>14, Zenon DEF Open

(* One round of the loop.                                                  *)
LEMMA ReadLineKeeps == StreamInv /\ ReadLine => StreamInv'
<1> SUFFICES ASSUME StreamInv, ReadLine PROVE StreamInv'
    OBVIOUS
<1>1. p.stage = "lines" /\ ~p.exceeded /\ p.pos <= Len(p.src.lines) /\ Fits(p, LineBytes)
    BY DEF ReadLine
<1>2. Due(pass, p, norm, invalid, consumed) /\ Len(p.batch) < BatchSize
    BY <1>1, LoopIsDue
<1>3. /\ p \in StreamRecord /\ p.pos \in 1..(Len(p.src.lines) + 1)
      /\ Stored(pass, norm, invalid, consumed, p.src, p.rows)
      /\ p.read = ReadTo(p.src, p.pos - 1)
    BY <1>1, <1>2 DEF Due, Reading
<1>4. /\ p.src \in SourceRecord /\ p.src.lines \in Seq(Line) /\ p.src.format \in Format
      /\ p.pos \in Nat /\ p.read \in Nat /\ p.batch \in Seq(Line)
    BY <1>3, StreamFields
<1>5. /\ p.pos \in 1..Len(p.src.lines) /\ p.pos \in 0..Len(p.src.lines)
      /\ p.pos - 1 \in 0..Len(p.src.lines)
    BY <1>1, <1>3, <1>4
<1>6. NextLine \in Line /\ NextLine.size \in Nat
    BY <1>4, <1>5, LineFields DEF NextLine
<1>7. LineBytes \in Nat
    BY <1>6 DEF LineBytes
<1>8. p.read + LineBytes = ReadTo(p.src, p.pos)
    <2>1. CASE p.src.format = "xlsx"
        BY <1>3, <1>4, <1>5, <2>1, ReadByLine DEF LineBytes
    <2>2. CASE p.src.format # "xlsx"
        <3>1. ReadTo(p.src, p.pos) = ReadTo(p.src, p.pos - 1) + p.src.lines[p.pos].size
            BY <1>4, <1>5, <2>2, ReadByLine
        <3> QED
            BY <1>3, <2>2, <3>1 DEF LineBytes, NextLine
    <2> QED
        BY <2>1, <2>2
<1>9. p.read + LineBytes <= MaxBytes
    BY <1>1 DEF Fits
<1> DEFINE q == [p EXCEPT !.pos = @ + 1, !.read = @ + LineBytes]
           r == [q EXCEPT !.batch = Append(@, NextLine)]
<1>10. p.pos + 1 \in Nat /\ p.read + LineBytes \in Nat /\ Append(p.batch, NextLine) \in Seq(Line)
    BY <1>4, <1>6, <1>7
<1>11. q \in StreamRecord
    BY <1>3, <1>10, Zenon DEF StreamRecord
<1>12. /\ q.src = p.src /\ q.pos = p.pos + 1 /\ q.rows = p.rows /\ q.read = p.read + LineBytes
       /\ q.exceeded = p.exceeded /\ q.err = p.err /\ q.batch = p.batch /\ q.stage = "lines"
    BY <1>1, <1>3 DEF StreamRecord
<1>13. \/ Unreadable(p.src.format, NextLine) /\ p' = Ended(q, "line") /\ Quiet
       \/ /\ ~Unreadable(p.src.format, NextLine)
          /\ \/ Skipped(p.src.format, NextLine) /\ p' = q /\ Quiet
             \/ IsRow(p.src.format, NextLine) /\ Add(q, NextLine)
    BY Zenon DEF ReadLine
<1> HIDE DEF q
<1>14. r \in StreamRecord
    <2>1. Append(q.batch, NextLine) \in Seq(Line)
        BY <1>10, <1>12
    <2> QED
        BY <1>11, <2>1, Zenon DEF StreamRecord
<1>15. /\ r.src = p.src /\ r.pos = p.pos + 1 /\ r.rows = p.rows /\ r.read = p.read + LineBytes
       /\ r.exceeded = p.exceeded /\ r.err = p.err /\ r.batch = Append(p.batch, NextLine)
       /\ r.stage = "lines"
    BY <1>11, <1>12 DEF StreamRecord
<1>16. r = [q EXCEPT !.batch = Append(@, NextLine)]
    OBVIOUS
<1> HIDE DEF r
<1>17. CASE Unreadable(p.src.format, NextLine) /\ p' = Ended(q, "line") /\ Quiet
    <2>1. ~Acceptable(p.src)
        BY <1>5, <1>17 DEF Acceptable, NextLine
    <2>2. q.pos \in 1..(Len(q.src.lines) + 1) /\ q.read <= MaxBytes
        BY <1>4, <1>5, <1>9, <1>12
    <2>3. StreamOK(pass, Ended(q, "line"), norm, invalid, consumed)
        BY <1>3, <1>11, <1>12, <2>1, <2>2, EndedKeeps DEF Err
    <2> QED
        BY <1>17, <2>3 DEF StreamInv, Quiet
<1>18. CASE /\ ~Unreadable(p.src.format, NextLine)
            /\ Skipped(p.src.format, NextLine) /\ p' = q /\ Quiet
    <2>1. ~IsRow(p.src.format, p.src.lines[p.pos])
        BY <1>18 DEF Skipped, IsRow, NextLine
    <2>2. ~Unreadable(p.src.format, p.src.lines[p.pos])
        BY <1>18 DEF NextLine
    <2>3. Due(pass, q, norm, invalid, consumed)
        BY <1>1, <1>2, <1>8, <1>9, <1>11, <1>12, <2>1, <2>2, NextLineIsDue
    <2>4. StreamOK(pass, q, norm, invalid, consumed)
        BY <1>2, <1>12, <2>3, LinesKeep
    <2> QED
        BY <1>18, <2>4 DEF StreamInv, Quiet
<1>19. CASE /\ ~Unreadable(p.src.format, NextLine)
            /\ IsRow(p.src.format, NextLine) /\ Add(q, NextLine)
    <2>1. ~Unreadable(p.src.format, p.src.lines[p.pos]) /\ IsRow(p.src.format, p.src.lines[p.pos])
        BY <1>19 DEF NextLine
    <2>2. r.batch = Append(p.batch, p.src.lines[p.pos])
        BY <1>15 DEF NextLine
    <2>3. Due(pass, r, norm, invalid, consumed)
        BY <1>1, <1>2, <1>8, <1>9, <1>14, <1>15, <2>1, <2>2, NextLineIsDue
    <2> QED
        BY <1>15, <1>16, <1>19, <2>3, AddKeeps
<1> QED
    BY <1>13, <1>17, <1>18, <1>19

(* A line that runs into the byte limit.                                   *)
LEMMA CutLineKeeps == StreamInv /\ CutLine => StreamInv'
<1> SUFFICES ASSUME StreamInv, CutLine PROVE StreamInv'
    OBVIOUS
<1>1. p.stage = "lines" /\ ~p.exceeded /\ p.pos <= Len(p.src.lines) /\ ~Fits(p, LineBytes)
    BY DEF CutLine
<1>2. Due(pass, p, norm, invalid, consumed) /\ Len(p.batch) < BatchSize
    BY <1>1, LoopIsDue
<1>3. /\ p \in StreamRecord /\ p.pos \in 1..(Len(p.src.lines) + 1)
      /\ Stored(pass, norm, invalid, consumed, p.src, p.rows)
      /\ p.read = ReadTo(p.src, p.pos - 1) /\ p.read <= MaxBytes
    BY <1>1, <1>2 DEF Due, Reading
<1>4. /\ p.src \in SourceRecord /\ p.src.lines \in Seq(Line) /\ p.src.format \in Format
      /\ p.pos \in Nat /\ p.read \in Nat /\ p.batch \in Seq(Line)
    BY <1>3, StreamFields
<1>5. p.pos \in 1..Len(p.src.lines) /\ p.pos \in 0..Len(p.src.lines)
    BY <1>1, <1>3, <1>4
<1>6. NextLine \in Line /\ NextLine.size \in Nat /\ MaxBytes \in Nat
    BY <1>4, <1>5, LineFields, StreamAssumption DEF NextLine
<1>7. TotalBytes(p.src) > MaxBytes
    <2>1. p.src.format # "xlsx"
        <3> SUFFICES ASSUME p.src.format = "xlsx" PROVE FALSE
            OBVIOUS
        <3>1. LineBytes = 0
            BY DEF LineBytes
        <3> QED
            BY <1>1, <1>3, <1>4, <3>1 DEF Fits
    <2>2. ReadTo(p.src, p.pos) = p.read + LineBytes
        <3>1. ReadTo(p.src, p.pos) = ReadTo(p.src, p.pos - 1) + p.src.lines[p.pos].size
            BY <1>4, <1>5, <2>1, ReadByLine
        <3> QED
            BY <1>3, <2>1, <3>1 DEF LineBytes, NextLine
    <2>3. ReadTo(p.src, p.pos) \in Nat /\ ReadTo(p.src, p.pos) <= TotalBytes(p.src)
        BY <1>4, <1>5, ReadByLine
    <2>4. TotalBytes(p.src) \in Nat
        BY <1>4, ReadByLine
    <2>5. ~(ReadTo(p.src, p.pos) <= MaxBytes)
        BY <1>1, <2>2 DEF Fits
    <2> QED
        BY <1>6, <2>3, <2>4, <2>5
<1>8. ~Acceptable(p.src)
    <2>1. TotalBytes(p.src) \in Nat
        BY <1>4, ReadByLine
    <2> QED
        BY <1>6, <1>7, <2>1 DEF Acceptable
<1> DEFINE q == [p EXCEPT !.exceeded = TRUE, !.read = MaxBytes]
           o == [q EXCEPT !.pos = @ + 1]
           r == [o EXCEPT !.batch = Append(@, NextLine)]
<1>9. q \in StreamRecord
    BY <1>3, <1>6, Zenon DEF StreamRecord
<1>10. /\ q.src = p.src /\ q.pos = p.pos /\ q.rows = p.rows /\ q.read = MaxBytes
       /\ q.exceeded = TRUE /\ q.err = p.err /\ q.batch = p.batch /\ q.stage = "lines"
    BY <1>1, <1>3 DEF StreamRecord
<1>11. \/ p' = Ended(q, "line") /\ Quiet
       \/ /\ p.src.format = "jsonl" /\ IsRow("jsonl", NextLine) /\ ~Unreadable("jsonl", NextLine)
          /\ Add(o, NextLine)
    BY Zenon DEF CutLine
<1> HIDE DEF q
<1>12. o \in StreamRecord
    <2>1. q.pos + 1 \in Nat
        BY <1>4, <1>10
    <2> QED
        BY <1>9, <2>1, Zenon DEF StreamRecord
<1>13. /\ o.src = p.src /\ o.pos = p.pos + 1 /\ o.rows = p.rows /\ o.read = MaxBytes
       /\ o.exceeded = TRUE /\ o.err = p.err /\ o.batch = p.batch /\ o.stage = "lines"
    BY <1>9, <1>10 DEF StreamRecord
<1> HIDE DEF o
<1>14. r \in StreamRecord
    <2>1. Append(o.batch, NextLine) \in Seq(Line)
        BY <1>4, <1>6, <1>13
    <2> QED
        BY <1>12, <2>1, Zenon DEF StreamRecord
<1>15. /\ r.src = p.src /\ r.pos = p.pos + 1 /\ r.rows = p.rows /\ r.read = MaxBytes
       /\ r.exceeded = TRUE /\ r.err = p.err /\ r.batch = Append(p.batch, NextLine)
       /\ r.stage = "lines"
    BY <1>12, <1>13 DEF StreamRecord
<1>16. r = [o EXCEPT !.batch = Append(@, NextLine)]
    OBVIOUS
<1> HIDE DEF r
<1>17. CASE p' = Ended(q, "line") /\ Quiet
    <2>1. q.pos \in 1..(Len(q.src.lines) + 1) /\ q.read <= MaxBytes
        BY <1>3, <1>6, <1>10
    <2>2. StreamOK(pass, Ended(q, "line"), norm, invalid, consumed)
        BY <1>3, <1>8, <1>9, <1>10, <2>1, EndedKeeps DEF Err
    <2> QED
        BY <1>17, <2>2 DEF StreamInv, Quiet
<1>18. CASE /\ p.src.format = "jsonl" /\ IsRow("jsonl", NextLine) /\ ~Unreadable("jsonl", NextLine)
            /\ Add(o, NextLine)
    <2>1. ~Unreadable(p.src.format, p.src.lines[p.pos]) /\ IsRow(p.src.format, p.src.lines[p.pos])
        BY <1>18 DEF NextLine
    <2>2. r.batch = Append(p.batch, p.src.lines[p.pos])
        BY <1>15 DEF NextLine
    <2>3. r.read <= MaxBytes /\ TotalBytes(r.src) > MaxBytes /\ r.exceeded
        BY <1>6, <1>7, <1>15
    <2>4. Due(pass, r, norm, invalid, consumed)
        BY <1>1, <1>2, <1>14, <1>15, <2>1, <2>2, <2>3, NextLineIsDue
    <2> QED
        BY <1>15, <1>16, <1>18, <2>4, AddKeeps
<1> QED
    BY <1>11, <1>17, <1>18

(* The scanner's error after a row that was cut.                           *)
LEMMA AfterCutKeeps == StreamInv /\ AfterCut => StreamInv'
<1> SUFFICES ASSUME StreamInv, AfterCut PROVE StreamInv'
    OBVIOUS
<1>1. p.stage = "lines" /\ p.exceeded /\ p' = Ended(p, "line") /\ Quiet
    BY DEF AfterCut
<1>2. Due(pass, p, norm, invalid, consumed)
    BY <1>1, LoopIsDue
<1>3. /\ p \in StreamRecord /\ p.pos \in 1..(Len(p.src.lines) + 1) /\ p.read <= MaxBytes
      /\ Stored(pass, norm, invalid, consumed, p.src, p.rows)
    BY <1>2 DEF Due
<1>4. ~Acceptable(p.src)
    BY <1>1, <1>2, DueAcceptable
<1>5. StreamOK(pass, Ended(p, "line"), norm, invalid, consumed)
    BY <1>3, <1>4, EndedKeeps DEF Err
<1> QED
    BY <1>1, <1>5 DEF StreamInv, Quiet

(* The last batch.                                                         *)
LEMMA AtEndKeeps == StreamInv /\ AtEnd => StreamInv'
<1> SUFFICES ASSUME StreamInv, AtEnd PROVE StreamInv'
    OBVIOUS
<1>1. p.stage = "lines" /\ ~p.exceeded /\ p.pos > Len(p.src.lines) /\ Emit(p, "ended")
    BY DEF AtEnd
<1>2. Due(pass, p, norm, invalid, consumed)
    BY <1>1, LoopIsDue
<1>3. p \in StreamRecord /\ p.pos \in 1..(Len(p.src.lines) + 1)
    BY <1>2 DEF Due
<1>4. Len(p.src.lines) \in Nat
    BY <1>3, StreamFields
<1>5. p.pos = Len(p.src.lines) + 1
    BY <1>1, <1>3, <1>4
<1> QED
    BY <1>1, <1>2, <1>5, EmitKeeps

(* The report that does not fit ends a pass that had gone well.            *)
LEMMA FlushReportKeeps == StreamInv /\ FlushReport => StreamInv'
<1> SUFFICES ASSUME StreamInv, FlushReport PROVE StreamInv'
    OBVIOUS
<1>1. /\ pass = "validate" /\ Result = "none"
      /\ p' = Ended(p, "output_limit") /\ Quiet
    BY DEF FlushReport
<1>2. /\ p \in StreamRecord /\ p.pos \in 1..(Len(p.src.lines) + 1) /\ p.read <= MaxBytes
      /\ Stored(pass, norm, invalid, consumed, p.src, p.rows)
    BY DEF StreamInv, StreamOK
<1>3. ~p.exceeded
    BY <1>1 DEF Result
<1>4. StreamOK(pass, Ended(p, "output_limit"), norm, invalid, consumed)
    BY <1>1, <1>2, <1>3, EndedKeeps DEF Err
<1> QED
    BY <1>1, <1>4 DEF StreamInv, Quiet

(* The second pass starts on what the first one wrote.                     *)
LEMMA StartApplyKeeps == StreamInv /\ StartApply => StreamInv'
<1> SUFFICES ASSUME StreamInv, StartApply PROVE StreamInv'
    OBVIOUS
<1> DEFINE s == [format |-> "jsonl", header |-> <<>>, lines |-> norm]
<1>1. /\ pass = "validate" /\ pass' = "apply" /\ p' = Opened(s)
      /\ norm' = norm /\ invalid' = invalid /\ consumed' = consumed
    BY DEF StartApply
<1>2. /\ invalid \subseteq Nat /\ consumed \in [Passes -> Seq(BatchRecord)]
      /\ \A x \in Passes : Numbered(consumed[x])
      /\ Readable(norm) /\ consumed["apply"] = <<>>
    BY <1>1 DEF StreamInv, StreamOK, Stored
<1>3. s \in SourceRecord
    BY <1>2 DEF SourceRecord, Format, Readable
<1>4. RowsOf(s) \in Seq(Line)
    BY <1>3, RowsByLine
<1> HIDE DEF s
<1>5. JoinedRows(<<>>) = <<>>
    <2>1. <<>> \in Seq(BatchRecord) /\ Len(<<>>) = 0
        OBVIOUS
    <2>2. Joined(<<>>)[0] = <<>>
        BY <2>1, JoinedUnfold
    <2> QED
        BY <2>1, <2>2 DEF JoinedRows
<1>6. Prefix(<<>>, RowsOf(s)) /\ Len(<<>>) = 0 /\ 0 <= MaxRows
    BY <1>4, StreamAssumption DEF Prefix
<1>7. s = [format |-> "jsonl", header |-> <<>>, lines |-> norm]
    BY DEF s
<1>8. "apply" \in Passes /\ "apply" # "validate"
    BY DEF Passes
<1>9. Stored("apply", norm, invalid, consumed, s, 0)
    BY <1>2, <1>3, <1>5, <1>6, <1>7, <1>8 DEF Stored
<1>10. StreamOK("apply", Opened(s), norm, invalid, consumed)
    BY <1>2, <1>9, OpenedKeeps
<1> QED
    BY <1>1, <1>10 DEF StreamInv
-----------------------------------------------------------------------------
(* Every step of the three parts keeps the invariant of the stream.        *)
LEMMA StreamInvNext == StreamInv /\ [Next]_vars => StreamInv'
<1> SUFFICES ASSUME StreamInv, [Next]_vars PROVE StreamInv'
    OBVIOUS
<1>1. CASE UNCHANGED streamVars
    BY <1>1 DEF streamVars, StreamInv
<1>2. CASE StreamNext
    BY <1>2, OpenKeeps, ReadLineKeeps, CutLineKeeps, AfterCutKeeps, AtEndKeeps,
       FlushReportKeeps, StartApplyKeeps
    DEF StreamNext
<1>3. StreamNext \/ UNCHANGED streamVars
    BY DEF Next, vars
<1> QED
    BY <1>1, <1>2, <1>3

(* The invariant holds in every state.                                     *)
LEMMA StreamInvHolds == Spec => []StreamInv
BY StreamInvInit, StreamInvNext, PTL DEF Spec

(* The rows the provider was given, in the terms of the lemmas.            *)
LEMMA DeliveredRows ==
    ASSUME StreamInv, NEW c \in Passes
    PROVE  /\ Delivered(c) = JoinedRows(consumed[c]) /\ JoinedRows(consumed[c]) \in Seq(Line)
           /\ consumed[c] \in Seq(BatchRecord)
<1>1. consumed[c] \in Seq(BatchRecord)
    BY DEF StreamInv, StreamOK, Stored
<1>2. Len(consumed[c]) \in 0..Len(consumed[c])
    BY <1>1
<1>3. JoinedRows(consumed[c]) \in Seq(Line)
    BY <1>1, <1>2, JoinedUnfold DEF JoinedRows
<1> QED
    BY <1>1, <1>3 DEF Delivered, JoinedRows

(* Batches reach the provider in order, without a gap and with the numbers *)
(* of their rows, and the error report names invalid rows by their place   *)
(* in the file, for every source, batch size and limit.                    *)
THEOREM RowNumbersHold == Spec => []RowNumbersAreRight
<1>1. StreamInv => RowNumbersAreRight
    <2> SUFFICES ASSUME StreamInv PROVE BatchesInOrder /\ ReportedRowIsInvalid
        BY DEF RowNumbersAreRight
    <2>1. p \in StreamRecord /\ Stored(pass, norm, invalid, consumed, p.src, p.rows)
        BY DEF StreamInv, StreamOK
    <2>2. /\ pass \in Passes /\ \A x \in Passes : Numbered(consumed[x])
          /\ Prefix(JoinedRows(consumed[pass]), RowsOf(p.src))
          /\ pass = "validate" => Reported(invalid, p.src)
        BY <2>1 DEF Stored
    <2>3. p.src \in SourceRecord /\ p.src.lines \in Seq(Line)
        BY <2>1, StreamFields
    <2>4. RowsOf(p.src) \in Seq(Line)
        BY <2>3, RowsByLine
    <2>5. BatchesInOrder
        <3> SUFFICES ASSUME NEW c \in Passes
                     PROVE  /\ pass = c => IsPrefix(Delivered(c), RowsOf(p.src))
                            /\ \A n \in 1..Len(consumed[c]) :
                                /\ consumed[c][n].number = n
                                /\ consumed[c][n].first = (n - 1) * BatchSize + 2
                                /\ n < Len(consumed[c]) => Len(consumed[c][n].rows) = BatchSize
            BY DEF BatchesInOrder, Passes
        <3>1. Numbered(consumed[c])
            BY <2>2
        <3>2. ASSUME pass = c PROVE IsPrefix(Delivered(c), RowsOf(p.src))
            <4> DEFINE s == Delivered(c)
                       t == RowsOf(p.src)
            <4>1. s \in Seq(Line) /\ t \in Seq(Line) /\ Prefix(s, t)
                BY <2>2, <2>4, <3>2, DeliveredRows
            <4> HIDE DEF s, t
            <4>2. Len(s) <= Len(t) /\ \A i \in 1..Len(s) : t[i] = s[i]
                BY <4>1 DEF Prefix
            <4>3. Len(s) \in Nat /\ Len(t) \in Nat
                BY <4>1
            <4>4. SubSeq(s, 1, Len(s)) = SubSeq(t, 1, Len(s))
                BY <4>1, <4>2, <4>3
            <4>5. IsPrefix(s, t)
                BY <4>2, <4>4 DEF IsPrefix
            <4> QED
                BY <4>5 DEF s, t
        <3> QED
            BY <3>1, <3>2 DEF Numbered
    <2>6. ReportedRowIsInvalid
        <3> SUFFICES ASSUME pass = "validate", p.src.format # "jsonl",
                            \A i \in 1..Len(p.src.lines) : ~Skipped(p.src.format, p.src.lines[i]),
                            NEW n \in invalid
                     PROVE  n - 1 \in DOMAIN p.src.lines /\ p.src.lines[n - 1].kind = "invalid"
            BY DEF ReportedRowIsInvalid
        <3>1. n - 1 \in 1..Len(p.src.lines) /\ p.src.lines[n - 1].kind = "invalid"
            BY <2>2 DEF Reported
        <3> QED
            BY <2>3, <3>1
    <2> QED
        BY <2>5, <2>6
<1> QED
    BY <1>1, StreamInvHolds, PTL

(* Reading ends well exactly if the source is acceptable: at the limits    *)
(* and one beyond them, for every source, batch size and limit.            *)
THEOREM LimitsHold == Spec => []LimitsAreExact
<1>1. StreamInv => LimitsAreExact
    <2> SUFFICES ASSUME StreamInv, p.stage = "ended"
                 PROVE  /\ Result = "none" =>
                            /\ Acceptable(p.src) /\ p.read = TotalBytes(p.src)
                            /\ Delivered(pass) = RowsOf(p.src)
                        /\ Acceptable(p.src) =>
                            Result \in {"none", "context", "provider", "output_limit"}
        BY DEF LimitsAreExact
    <2>1. Result = ResultOf(p)
        BY DEF Result, ResultOf
    <2>2. /\ EndsWell(p, consumed[pass]) /\ pass \in Passes
          /\ Acceptable(p.src) =>
                 ResultOf(p) \in {"none", "context", "provider", "output_limit"}
        BY DEF StreamInv, StreamOK, Stored
    <2>3. Delivered(pass) = JoinedRows(consumed[pass])
        BY <2>2, DeliveredRows
    <2> QED
        BY <2>1, <2>2, <2>3 DEF EndsWell
<1> QED
    BY <1>1, StreamInvHolds, PTL

(* What Validate wrote within the limits, Apply reads without meeting      *)
(* them: a job that is ready fails in Apply only for the provider or a     *)
(* cancelled context, unless a line is longer than the scanner's buffer.   *)
THEOREM ReadyJobsApply == Spec => []ReadyCanBeApplied
<1>1. StreamInv => ReadyCanBeApplied
    <2> SUFFICES ASSUME StreamInv, pass = "apply", \A i \in 1..Len(norm) : norm[i].size <= MaxLine
                 PROVE  Result \in {"none", "context", "provider"}
        BY DEF ReadyCanBeApplied
    <2>1. /\ p \in StreamRecord /\ Readable(norm)
          /\ p.src = [format |-> "jsonl", header |-> <<>>, lines |-> norm]
          /\ Acceptable(p.src) =>
                 ResultOf(p) \in {"none", "context", "provider", "output_limit"}
          /\ p.err # "output_limit"
        BY DEF StreamInv, StreamOK, Stored
    <2>2. p.src.format = "jsonl" /\ p.src.lines = norm
        BY <2>1
    <2>3. p.src \in SourceRecord
        BY <2>1, StreamFields
    <2>4. norm \in Seq(Line) /\ Len(norm) <= MaxRows /\ Bytes(norm) <= MaxBytes
          /\ \A i \in 1..Len(norm) : norm[i].kind = "row"
        BY <2>1 DEF Readable
    <2>5. TotalBytes(p.src) <= MaxBytes
        BY <2>2, <2>3, <2>4, ReadByLine
    <2>6. Len(RowsOf(p.src)) <= MaxRows
        <3>1. RowsOf(p.src) \in Seq(Line) /\ Len(RowsOf(p.src)) <= Len(norm)
            BY <2>2, <2>3, RowsByLine
        <3>2. Len(RowsOf(p.src)) \in Nat /\ Len(norm) \in Nat /\ MaxRows \in Nat
            BY <2>4, <3>1, StreamAssumption
        <3> QED
            BY <2>4, <3>1, <3>2
    <2>7. \A i \in 1..Len(norm) : ~Unreadable("jsonl", norm[i])
        <3> SUFFICES ASSUME NEW i \in 1..Len(norm) PROVE ~Unreadable("jsonl", norm[i])
            OBVIOUS
        <3>1. norm[i].kind = "row" /\ norm[i].size <= MaxLine
            BY <2>4
        <3>2. norm[i].size \in Nat /\ MaxLine \in Nat
            BY <2>4, LineFields, StreamAssumption
        <3> QED
            BY <3>1, <3>2 DEF Unreadable
    <2>8. Acceptable(p.src)
        BY <2>2, <2>5, <2>6, <2>7 DEF Acceptable
    <2>9. ResultOf(p) # "output_limit"
        BY <2>1 DEF ResultOf
    <2> QED
        BY <2>1, <2>8, <2>9 DEF Result, ResultOf
<1> QED
    BY <1>1, StreamInvHolds, PTL
=============================================================================
