------------------------------- MODULE Recursion -------------------------------
(***************************************************************************)
(* Induction over the natural numbers in a form the provers can use: about *)
(* sets and functions, not about operators.  The algorithms of TaskGraph,  *)
(* the length of a request's body and the order of a document's claims are *)
(* defined by recursion or by sorting; these facts say that such functions *)
(* exist, and that the members of a finite set stand in a sequence.        *)
(***************************************************************************)
EXTENDS Ordering, FiniteSetsExt, WellFoundedInduction, FiniteSetTheorems, TLAPS

\* A set of natural numbers has a least element.
LEMMA LeastNatural ==
    ASSUME NEW T \in SUBSET Nat, T # {}
    PROVE  \E x \in T : \A y \in T : x <= y
  <1>1. PICK x \in T : \A y \in T : ~ (<<y, x>> \in OpToRel(<, Nat))
    <2>1. IsWellFoundedOn(OpToRel(<, Nat), Nat)
      BY NatLessThanWellFounded
    <2> DEFINE R == OpToRel(<, Nat)
    <2>2. IsWellFoundedOn(R, Nat)
      BY <2>1
    <2> HIDE DEF R
    <2>3. \E x \in T : \A y \in T : ~ (<<y, x>> \in R)
      BY <2>2, WFMin
    <2> QED
      BY <2>3 DEF R
  <1>2. \A y \in T : ~(y < x)
    BY <1>1 DEF OpToRel
  <1> QED
    BY <1>2

\* The least of a set of numbers that is not empty is one of them.
LEMMA MinFacts == ASSUME NEW S \in SUBSET Nat, S # {} PROVE Min(S) \in S
  <1>1. \E x \in S : \A y \in S : x <= y
    BY LeastNatural
  <1> QED
    BY <1>1 DEF Min

\* A set that holds 0 and with each number the next holds them all.
LEMMA NaturalsReached ==
    ASSUME NEW P, 0 \in P, \A n \in Nat : n \in P => n + 1 \in P
    PROVE  Nat \subseteq P
  <1> SUFFICES ASSUME Nat \ P # {} PROVE FALSE
    OBVIOUS
  <1>1. PICK m \in Nat \ P : \A y \in Nat \ P : m <= y
    BY LeastNatural
  <1>2. m # 0 /\ m - 1 \in Nat
    BY <1>1
  <1>3. m - 1 \in P
    BY <1>1, <1>2
  <1> QED
    BY <1>1, <1>2, <1>3

\* f starts with base and goes on by step, up to N.
Follows(f, S, base, step, N) ==
    f \in [0..N -> S] /\ f[0] = base /\ \A n \in 1..N : f[n] = step[n][f[n - 1]]

\* A function is defined by its first value and the step to the next one.
LEMMA RecursionExists ==
    ASSUME NEW S, NEW base \in S, NEW step \in [Nat -> [S -> S]], NEW N \in Nat
    PROVE  \E f : Follows(f, S, base, step, N)
  <1> USE DEF Follows
  <1> DEFINE Defines(f, n) == Follows(f, S, base, step, n)
             P == {n \in Nat : \E f : Defines(f, n)}
  <1>1. 0 \in P
    <2>1. Defines([k \in 0..0 |-> base], 0)
      OBVIOUS
    <2> QED
      BY <2>1
  <1>2. ASSUME NEW n \in Nat, n \in P PROVE n + 1 \in P
    <2>1. PICK f : Defines(f, n)
      BY <1>2
    <2> DEFINE g == [k \in 0..(n + 1) |-> IF k = n + 1 THEN step[k][f[n]] ELSE f[k]]
    <2>2. f[n] \in S /\ step[n + 1][f[n]] \in S
      BY <2>1
    <2>3. g \in [0..(n + 1) -> S]
      BY <2>1, <2>2
    <2>4. g[0] = base
      BY <2>1
    <2>5. ASSUME NEW k \in 1..(n + 1) PROVE g[k] = step[k][g[k - 1]]
      BY <2>1
    <2> HIDE DEF g
    <2>6. Defines(g, n + 1)
      BY <2>3, <2>4, <2>5
    <2> QED
      BY <2>6
  <1>3. N \in P
    <2> HIDE DEF P
    <2>1. Nat \subseteq P
      BY <1>1, <1>2, NaturalsReached
    <2> QED
      BY <2>1
  <1> QED
    BY <1>3

\* Sets of numbers up to N that grow in every round until they are done, and
\* then stay done, are done after N rounds.
LEMMA RoundsSuffice ==
    ASSUME NEW N \in Nat, NEW f \in [0..N -> SUBSET (1..N)],
           NEW Done, (1..N) \in Done,
           \A k \in 1..N : f[k - 1] \subseteq f[k],
           \A k \in 1..N : f[k - 1] \notin Done => f[k] # f[k - 1],
           \A k \in 1..N : f[k - 1] \in Done => f[k] \in Done
    PROVE  f[N] \in Done
  <1> DEFINE Grown == {k \in Nat : k \in 0..N =>
                         f[k] \in Done \/ Cardinality(f[k]) >= k}
  <1>1. ASSUME NEW k \in 0..N
        PROVE  /\ f[k] \in SUBSET (1..N) /\ IsFiniteSet(f[k])
               /\ Cardinality(f[k]) \in Nat
    <2>1. IsFiniteSet(1..N)
      BY FS_Interval
    <2>2. f[k] \in SUBSET (1..N)
      OBVIOUS
    <2>3. IsFiniteSet(f[k])
      BY <2>1, <2>2, FS_Subset
    <2> QED
      BY <2>2, <2>3, FS_CardinalityType
  <1>2. 0 \in Grown
    BY <1>1
  <1>3. ASSUME NEW k \in Nat, k \in Grown PROVE k + 1 \in Grown
    <2> SUFFICES ASSUME k + 1 \in 0..N, f[k + 1] \notin Done
                 PROVE  Cardinality(f[k + 1]) >= k + 1
      OBVIOUS
    <2>1. k \in 0..N /\ k + 1 \in 1..N /\ (k + 1) - 1 = k
      OBVIOUS
    <2>2. f[k] \notin Done /\ f[k] \subseteq f[k + 1] /\ f[k + 1] # f[k]
      BY <2>1
    <2>3. Cardinality(f[k]) >= k
      BY <1>3, <2>1, <2>2
    <2>4. /\ Cardinality(f[k]) <= Cardinality(f[k + 1])
          /\ Cardinality(f[k + 1]) # Cardinality(f[k])
      <3>1. IsFiniteSet(f[k + 1]) /\ f[k] \in SUBSET f[k + 1]
        BY <1>1, <2>1, <2>2
      <3> QED
        BY <2>2, <3>1, FS_Subset
    <2>5. Cardinality(f[k]) \in Nat /\ Cardinality(f[k + 1]) \in Nat
      BY <1>1, <2>1
    <2> HIDE DEF Grown
    <2> QED
      BY <2>3, <2>4, <2>5
  <1>4. N \in Grown
    <2> HIDE DEF Grown
    <2>1. Nat \subseteq Grown
      BY <1>2, <1>3, NaturalsReached
    <2> QED
      BY <2>1
  <1>5. CASE f[N] \notin Done
    <2>1. Cardinality(f[N]) >= N
      BY <1>4, <1>5
    <2>2. IsFiniteSet(1..N) /\ Cardinality(1..N) = N
      BY FS_Interval
    <2>3. f[N] \in SUBSET (1..N) /\ Cardinality(f[N]) \in Nat
      BY <1>1
    <2>4. Cardinality(f[N]) <= N /\ (Cardinality(1..N) = Cardinality(f[N]) => 1..N = f[N])
      BY <2>2, <2>3, FS_Subset
    <2>5. 1..N = f[N]
      BY <2>1, <2>2, <2>3, <2>4
    <2> QED
      BY <2>5
  <1> QED
    BY <1>5

-----------------------------------------------------------------------------
(* Sorting *)

\* The members of S before c in the order R, a set of pairs.
Earlier(S, R, c) == {d \in S : <<d, c>> \in R}

\* In a strict total order the members of a finite set stand at the places
\* 1, 2, ... up to their number, each at its own: the place of a member is one
\* more than the number of those before it.
LEMMA EveryPlaceTaken ==
    ASSUME NEW S, IsFiniteSet(S), NEW R,
           \A x \in S : <<x, x>> \notin R,
           \A x, y \in S : x = y \/ <<x, y>> \in R \/ <<y, x>> \in R,
           \A x, y, z \in S : <<x, y>> \in R /\ <<y, z>> \in R => <<x, z>> \in R
    PROVE  /\ Cardinality(S) \in Nat
           /\ \A c \in S : Cardinality(Earlier(S, R, c)) \in 0..(Cardinality(S) - 1)
           /\ \A b, c \in S : <<b, c>> \in R =>
                Cardinality(Earlier(S, R, b)) < Cardinality(Earlier(S, R, c))
           /\ \A k \in 1..Cardinality(S) :
                \E c \in S : Cardinality(Earlier(S, R, c)) = k - 1
  <1> DEFINE Below(c) == {d \in S : <<d, c>> \in R}
             place == [c \in S |-> Cardinality(Below(c)) + 1]
  <1>1. Cardinality(S) \in Nat
    BY FS_CardinalityType
  <1>2. ASSUME NEW c \in S
        PROVE  /\ IsFiniteSet(Below(c)) /\ Cardinality(Below(c)) \in Nat
               /\ Cardinality(Below(c)) \in 0..(Cardinality(S) - 1)
    <2>1. IsFiniteSet(S \ {c}) /\ Cardinality(S \ {c}) = Cardinality(S) - 1
      BY FS_RemoveElement
    <2>2. Below(c) \in SUBSET (S \ {c})
      OBVIOUS
    <2>3. IsFiniteSet(Below(c)) /\ Cardinality(Below(c)) <= Cardinality(S \ {c})
      BY <2>1, <2>2, FS_Subset
    <2>4. Cardinality(Below(c)) \in Nat
      BY <2>3, FS_CardinalityType
    <2> QED
      BY <1>1, <2>1, <2>3, <2>4
  <1>3. ASSUME NEW b \in S, NEW c \in S, <<b, c>> \in R
        PROVE  Cardinality(Below(b)) < Cardinality(Below(c))
    <2>1. IsFiniteSet(Below(b)) /\ IsFiniteSet(Below(c))
      BY <1>2
    <2>2. b \notin Below(b)
      OBVIOUS
    <2>3. Cardinality(Below(b) \cup {b}) = Cardinality(Below(b)) + 1
      <3> HIDE DEF Below
      <3> QED
        BY <2>1, <2>2, FS_AddElement
    <2>4. Below(b) \cup {b} \in SUBSET Below(c)
      BY <1>3
    <2>5. Cardinality(Below(b) \cup {b}) <= Cardinality(Below(c))
      <3> HIDE DEF Below
      <3> QED
        BY <2>1, <2>4, FS_Subset
    <2>6. Cardinality(Below(b)) \in Nat /\ Cardinality(Below(c)) \in Nat
      BY <1>2
    <2> QED
      <3> HIDE DEF Below
      <3> QED
        BY <2>3, <2>5, <2>6
  <1>4. place \in Injection(S, 1..Cardinality(S))
    <2> HIDE DEF Below
    <2>1. place \in [S -> 1..Cardinality(S)]
      <3>1. \A c \in S : Cardinality(Below(c)) + 1 \in 1..Cardinality(S)
        BY <1>1, <1>2
      <3> QED
        BY <3>1
    <2>2. ASSUME NEW b \in S, NEW c \in S, place[b] = place[c] PROVE b = c
      <3>1. Cardinality(Below(b)) = Cardinality(Below(c)) /\ Cardinality(Below(b)) \in Nat
        BY <1>2, <2>2
      <3>2. ~(<<b, c>> \in R) /\ ~(<<c, b>> \in R)
        BY <1>2, <1>3, <3>1
      <3> QED
        BY <3>2
    <2> QED
      BY <2>1, <2>2 DEF Injection, IsInjective
  <1>5. place \in Surjection(S, 1..Cardinality(S))
    <2>1. IsFiniteSet(1..Cardinality(S)) /\ Cardinality(1..Cardinality(S)) = Cardinality(S)
      BY <1>1, FS_Interval
    <2> HIDE DEF place
    <2> QED
      BY <1>4, <2>1, FS_Injection
  <1>6. ASSUME NEW k \in 1..Cardinality(S) PROVE \E c \in S : Cardinality(Below(c)) = k - 1
    <2>1. PICK c \in S : place[c] = k
      BY <1>5 DEF Surjection
    <2>2. Cardinality(Below(c)) \in Nat
      BY <1>2
    <2>3. Cardinality(Below(c)) = k - 1
      <3> HIDE DEF Below
      <3> QED
        BY <2>1, <2>2
    <2> QED
      BY <2>3
  <1> QED
    <2> HIDE DEF Below
    <2>1. \A c \in S : Earlier(S, R, c) = Below(c)
      BY DEF Earlier, Below
    <2> QED
      BY <1>1, <1>2, <1>3, <1>6, <2>1

\* Comparing tuples of numbers by their first difference is a strict total
\* order.
LEMMA PrecedesOrders ==
    ASSUME NEW m \in Nat,
           NEW a \in [1..m -> Int], NEW b \in [1..m -> Int], NEW c \in [1..m -> Int]
    PROVE  /\ ~Precedes(a, a)
           /\ a = b \/ Precedes(a, b) \/ Precedes(b, a)
           /\ Precedes(a, b) /\ Precedes(b, c) => Precedes(a, c)
  <1>1. ~Precedes(a, a)
    BY DEF Precedes
  <1>2. ASSUME a # b PROVE Precedes(a, b) \/ Precedes(b, a)
    <2> DEFINE D == {k \in 1..m : a[k] # b[k]}
    <2>1. D # {} /\ D \in SUBSET Nat
      <3>1. \E k \in 1..m : a[k] # b[k]
        BY <1>2
      <3>2. D # {}
        BY <3>1
      <3> QED
        BY <3>2
    <2>2. PICK k \in D : \A j \in D : k <= j
      <3> HIDE DEF D
      <3>1. \E k \in D : \A j \in D : k <= j
        BY <2>1, LeastNatural, Zenon
      <3> QED
        BY <3>1
    <2>3. k \in 1..m /\ a[k] \in Int /\ b[k] \in Int /\ a[k] # b[k]
      BY <2>2
    <2>4. \A j \in 1..(k - 1) : a[j] = b[j]
      <3> SUFFICES ASSUME NEW j \in 1..(k - 1), a[j] # b[j] PROVE FALSE
        OBVIOUS
      <3>1. j \in D /\ j < k
        BY <2>3
      <3> QED
        BY <2>2, <2>3, <3>1
    <2>5. CASE a[k] < b[k]
      BY <2>3, <2>4, <2>5 DEF Precedes
    <2>6. CASE b[k] < a[k]
      BY <2>3, <2>4, <2>6 DEF Precedes
    <2> QED
      BY <2>3, <2>5, <2>6
  <1>3. ASSUME Precedes(a, b), Precedes(b, c) PROVE Precedes(a, c)
    <2>1. PICK j \in 1..m : a[j] < b[j] /\ \A i \in 1..(j - 1) : a[i] = b[i]
      BY <1>3 DEF Precedes
    <2>2. PICK k \in 1..m : b[k] < c[k] /\ \A i \in 1..(k - 1) : b[i] = c[i]
      BY <1>3 DEF Precedes
    <2>3. CASE j <= k
      <3>1. \A i \in 1..(j - 1) : a[i] = c[i]
        BY <2>1, <2>2, <2>3
      <3>2. a[j] < c[j]
        BY <2>1, <2>2, <2>3
      <3> QED
        BY <3>1, <3>2 DEF Precedes
    <2>4. CASE k < j
      <3>1. \A i \in 1..(k - 1) : a[i] = c[i]
        BY <2>1, <2>2, <2>4
      <3>2. a[k] < c[k]
        BY <2>1, <2>2, <2>4
      <3> QED
        BY <3>1, <3>2 DEF Precedes
    <2> QED
      BY <2>3, <2>4
  <1> QED
    BY <1>1, <1>2, <1>3

\* Of finitely many keys one is preceded by none.
LEMMA SomeIsFirst ==
    ASSUME NEW m \in Nat, NEW K \in SUBSET [1..m -> Int], IsFiniteSet(K), K # {}
    PROVE  \E b \in K : \A a \in K : ~Precedes(a, b)
  <1> DEFINE R == {p \in K \X K : Precedes(p[1], p[2])}
  <1>1. /\ \A x \in K : <<x, x>> \notin R
        /\ \A x, y \in K : x = y \/ <<x, y>> \in R \/ <<y, x>> \in R
        /\ \A x, y, z \in K : <<x, y>> \in R /\ <<y, z>> \in R => <<x, z>> \in R
    <2>1. ASSUME NEW x \in K, NEW y \in K, NEW z \in K
          PROVE  /\ ~Precedes(x, x) /\ (x = y \/ Precedes(x, y) \/ Precedes(y, x))
                 /\ (Precedes(x, y) /\ Precedes(y, z) => Precedes(x, z))
      <3>1. x \in [1..m -> Int] /\ y \in [1..m -> Int] /\ z \in [1..m -> Int]
        OBVIOUS
      <3> QED
        BY <3>1, PrecedesOrders
    <2> QED
      BY <2>1
  <1>2. Cardinality(K) \in Nat /\ Cardinality(K) # 0
    BY FS_CardinalityType, FS_EmptySet
  <1> HIDE DEF R
  <1>3. PICK b \in K : Cardinality(Earlier(K, R, b)) = 0
    <2>1. 1 \in 1..Cardinality(K) /\ 1 - 1 = 0
      BY <1>2
    <2>2. \A k \in 1..Cardinality(K) : \E c \in K : Cardinality(Earlier(K, R, c)) = k - 1
      BY <1>1, EveryPlaceTaken
    <2>3. \E c \in K : Cardinality(Earlier(K, R, c)) = 1 - 1
      BY <2>1, <2>2
    <2> QED
      BY <2>1, <2>3
  <1>4. Earlier(K, R, b) = {}
    <2>1. Earlier(K, R, b) \in SUBSET K
      BY DEF Earlier
    <2>2. IsFiniteSet(Earlier(K, R, b))
      BY <2>1, FS_Subset
    <2> QED
      BY <1>3, <2>2, FS_EmptySet
  <1>5. ASSUME NEW a \in K, Precedes(a, b) PROVE FALSE
    <2>1. a \in Earlier(K, R, b)
      BY <1>5 DEF Earlier, R
    <2> QED
      BY <1>4, <2>1
  <1> QED
    BY <1>5

\* Of finitely many places one has a key that precedes no other's.
LEMMA SomePlaceIsLast ==
    ASSUME NEW m \in Nat, NEW P, IsFiniteSet(P), P # {}, NEW key \in [P -> [1..m -> Int]]
    PROVE  \E i \in P : \A j \in P : ~Precedes(key[i], key[j])
  <1> DEFINE K == {key[i] : i \in P}
             R == {p \in K \X K : Precedes(p[2], p[1])}
  <1>1. /\ \A x \in K : <<x, x>> \notin R
        /\ \A x, y \in K : x = y \/ <<x, y>> \in R \/ <<y, x>> \in R
        /\ \A x, y, z \in K : <<x, y>> \in R /\ <<y, z>> \in R => <<x, z>> \in R
    <2>1. ASSUME NEW x \in K, NEW y \in K, NEW z \in K
          PROVE  /\ ~Precedes(x, x) /\ (x = y \/ Precedes(x, y) \/ Precedes(y, x))
                 /\ (Precedes(z, y) /\ Precedes(y, x) => Precedes(z, x))
      <3>1. x \in [1..m -> Int] /\ y \in [1..m -> Int] /\ z \in [1..m -> Int]
        OBVIOUS
      <3> QED
        BY <3>1, PrecedesOrders
    <2> QED
      BY <2>1
  <1>2. IsFiniteSet(K)
    <2>1. key \in [P -> K] /\ \A x \in K : \E i \in P : key[i] = x
      OBVIOUS
    <2> HIDE DEF K
    <2>2. key \in Surjection(P, K)
      BY <2>1 DEF Surjection
    <2> QED
      BY <2>2, FS_Surjection
  <1>3. \A i \in P : key[i] \in K
    OBVIOUS
  <1>4. \A x \in K : \E i \in P : x = key[i]
    OBVIOUS
  <1>5. K # {}
    BY <1>3
  <1>6. \A x, y \in K : Precedes(y, x) => <<x, y>> \in R
    OBVIOUS
  <1> HIDE DEF K, R
  <1>7. Cardinality(K) \in Nat /\ Cardinality(K) # 0
    BY <1>2, <1>5, FS_CardinalityType, FS_EmptySet
  <1>8. PICK b \in K : Cardinality(Earlier(K, R, b)) = 0
    <2>1. 1 \in 1..Cardinality(K) /\ 1 - 1 = 0
      BY <1>7
    <2>2. \A k \in 1..Cardinality(K) : \E c \in K : Cardinality(Earlier(K, R, c)) = k - 1
      BY <1>1, <1>2, EveryPlaceTaken
    <2> QED
      BY <2>1, <2>2
  <1>9. Earlier(K, R, b) = {}
    <2>1. Earlier(K, R, b) \in SUBSET K
      BY DEF Earlier
    <2>2. IsFiniteSet(Earlier(K, R, b))
      BY <1>2, <2>1, FS_Subset
    <2> QED
      BY <1>8, <2>2, FS_EmptySet
  <1>10. \A a \in K : ~Precedes(b, a)
    <2>1. \A a \in K : <<a, b>> \notin R
      BY <1>9 DEF Earlier
    <2> QED
      BY <1>6, <2>1
  <1>11. PICK i \in P : b = key[i]
    BY <1>4
  <1>12. \A j \in P : ~Precedes(key[i], key[j])
    BY <1>3, <1>10, <1>11
  <1> QED
    BY <1>12

-----------------------------------------------------------------------------
(* Filtering *)

\* What a comprehension keeps of a list is what stands at the places kept.
LEMMA AtPlacesFacts ==
    ASSUME NEW s, NEW P \in SUBSET Int, IsFiniteSet(P)
    PROVE  /\ Cardinality(P) \in Nat /\ DOMAIN AtPlaces(s, P) = 1..Cardinality(P)
           /\ \A k \in 1..Cardinality(P) : \E i \in P : AtPlaces(s, P)[k] = s[i]
           /\ \A i \in P : \E k \in 1..Cardinality(P) : AtPlaces(s, P)[k] = s[i]
           /\ AtPlaces(s, P) = <<>> <=> P = {}
  <1> DEFINE R == {p \in P \X P : p[1] < p[2]}
             Below(i) == {j \in P : j < i}
             N == Cardinality(P)
             order == [k \in 1..N |-> CHOOSE i \in P : Cardinality(Below(i)) = k - 1]
  <1>1. AtPlaces(s, P) = [k \in DOMAIN order |-> s[order[k]]] /\ DOMAIN order = 1..N
    BY DEF AtPlaces, InSequence
  <1>2. /\ \A x \in P : <<x, x>> \notin R
        /\ \A x, y \in P : x = y \/ <<x, y>> \in R \/ <<y, x>> \in R
        /\ \A x, y, z \in P : <<x, y>> \in R /\ <<y, z>> \in R => <<x, z>> \in R
    <2>1. \A x \in P : x \in Int
      OBVIOUS
    <2> QED
      BY <2>1
  <1>3. \A i \in P : Earlier(P, R, i) = Below(i)
    BY DEF Earlier
  <1> HIDE DEF R
  <1>4. /\ N \in Nat
        /\ \A i \in P : Cardinality(Earlier(P, R, i)) \in 0..(N - 1)
        /\ \A i, j \in P : <<i, j>> \in R =>
              Cardinality(Earlier(P, R, i)) < Cardinality(Earlier(P, R, j))
        /\ \A k \in 1..N : \E i \in P : Cardinality(Earlier(P, R, i)) = k - 1
    BY <1>2, EveryPlaceTaken
  <1> HIDE DEF Below, N
  <1>5. ASSUME NEW k \in 1..N PROVE order[k] \in P /\ Cardinality(Below(order[k])) = k - 1
    <2>1. PICK i \in P : Cardinality(Below(i)) = k - 1
      BY <1>3, <1>4
    <2>2. order[k] = CHOOSE j \in P : Cardinality(Below(j)) = k - 1
      OBVIOUS
    <2> HIDE DEF order
    <2> QED
      BY <2>1, <2>2
  <1>6. ASSUME NEW i \in P PROVE \E k \in 1..N : order[k] = i
    <2> DEFINE k == Cardinality(Below(i)) + 1
    <2>1. k \in 1..N /\ Cardinality(Below(i)) = k - 1
      BY <1>3, <1>4
    <2> HIDE DEF k, order
    <2>2. order[k] \in P /\ Cardinality(Below(order[k])) = Cardinality(Below(i))
      BY <1>5, <2>1
    <2>3. PICK j \in P : j = order[k]
      BY <2>2
    <2>4. /\ Cardinality(Earlier(P, R, j)) = Cardinality(Earlier(P, R, i))
          /\ Cardinality(Earlier(P, R, j)) \in Int
      BY <1>3, <1>4, <2>2, <2>3
    <2>5. ~(<<i, j>> \in R) /\ ~(<<j, i>> \in R)
      BY <1>4, <2>4
    <2>6. i = j
      BY <1>2, <2>5
    <2> QED
      BY <2>1, <2>3, <2>6
  <1> HIDE DEF order
  <1>7. AtPlaces(s, P) = [k \in 1..N |-> s[order[k]]]
    BY <1>1
  <1>8. \A k \in 1..N : AtPlaces(s, P)[k] = s[order[k]]
    BY <1>7
  <1>9. AtPlaces(s, P) = <<>> <=> P = {}
    <2>1. N = 0 <=> P = {}
      BY FS_EmptySet DEF N
    <2>2. CASE N = 0
      BY <1>7, <2>1, <2>2
    <2>3. CASE N # 0
      <3>1. 1 \in DOMAIN AtPlaces(s, P)
        BY <1>4, <1>7, <2>3
      <3>2. 1 \notin DOMAIN <<>>
        OBVIOUS
      <3> QED
        BY <2>1, <2>3, <3>1, <3>2
    <2> QED
      BY <2>2, <2>3
  <1>10. /\ \A k \in 1..N : \E i \in P : AtPlaces(s, P)[k] = s[i]
         /\ \A i \in P : \E k \in 1..N : AtPlaces(s, P)[k] = s[i]
    <2> DEFINE kept == AtPlaces(s, P)
    <2>1. \A k \in 1..N : order[k] \in P /\ kept[k] = s[order[k]]
      BY <1>5, <1>8
    <2>2. \A i \in P : \E k \in 1..N : order[k] = i
      BY <1>6
    <2> HIDE DEF kept
    <2>3. \A k \in 1..N : \E i \in P : kept[k] = s[i]
      BY <2>1
    <2>4. \A i \in P : \E k \in 1..N : kept[k] = s[i]
      BY <2>1, <2>2
    <2> QED
      BY <2>3, <2>4 DEF kept
  <1>11. DOMAIN AtPlaces(s, P) = 1..N
    BY <1>7
  <1> QED
    BY <1>4, <1>9, <1>10, <1>11 DEF N

=============================================================================
