--------------------------- MODULE SequenceLemmas ---------------------------
(***************************************************************************)
(* Facts that the proofs about ordered rows and events share: induction    *)
(* over the naturals in terms of sets, the rank of an element in a finite  *)
(* ordered set, sequences that list such a set, selections, and flattened  *)
(* sequences of sequences.                                                 *)
(***************************************************************************)
EXTENDS Selections, FiniteSetTheorems,
        SequenceTheorems, WellFoundedInduction, TLAPS

\* A set of naturals has a least element.
LEMMA LeastNat ==
  ASSUME NEW T, T \subseteq Nat, T # {}
  PROVE  \E x \in T : \A y \in T : x <= y
<1> DEFINE R == {ss \in Nat \X Nat : ss[1] < ss[2]}
<1>1. IsWellFoundedOn(R, Nat)
  BY NatLessThanWellFounded DEF OpToRel
<1>2. \E x \in T : \A y \in T : ~ (<<y, x>> \in R)
  BY <1>1, WFMin
<1>3. ASSUME NEW x \in Nat, NEW y \in Nat, ~ (<<y, x>> \in R) PROVE x <= y
  BY <1>3
<1> QED
  BY <1>2, <1>3

\* Induction: a set with 0 and the successors of its elements has all naturals.
LEMMA NatSetInduction ==
  ASSUME NEW T, 0 \in T, \A n \in Nat : n \in T => n + 1 \in T
  PROVE  Nat \subseteq T
<1> SUFFICES ASSUME Nat \ T # {} PROVE FALSE
  OBVIOUS
<1>1. PICK x \in Nat \ T : \A y \in Nat \ T : x <= y
  BY LeastNat
<1>2. x # 0 /\ x - 1 \in Nat
  BY <1>1
<1> QED
  BY <1>1, <1>2

\* Min of a set of naturals is its least element.
LEMMA MinNat ==
  ASSUME NEW T \in SUBSET Nat, T # {}
  PROVE  Min(T) \in T /\ \A y \in T : Min(T) <= y
  BY LeastNat DEF Min

\* Max of a bounded set of naturals is its greatest element.
LEMMA MaxNat ==
  ASSUME NEW n \in Nat, NEW T \in SUBSET (0 .. n), T # {}
  PROVE  Max(T) \in T /\ \A y \in T : y <= Max(T)
<1> DEFINE D == {n - x : x \in T}
<1>1. D \subseteq Nat /\ D # {}
  <2>1. \A x \in T : n - x \in Nat
    OBVIOUS
  <2>2. PICK x : x \in T
    OBVIOUS
  <2> QED
    BY <2>1, <2>2
<1>2. PICK d \in D : \A e \in D : d <= e
  BY <1>1, LeastNat
<1>3. PICK x \in T : d = n - x
  BY <1>2
<1>4. \A y \in T : y <= x
  <2> TAKE y \in T
  <2>1. n - y \in D
    OBVIOUS
  <2>2. n - x <= n - y /\ x \in Int /\ y \in Int
    BY <1>2, <1>3, <2>1
  <2> QED
    BY <2>2
<1>5. \E z \in T : \A y \in T : z >= y
  BY <1>3, <1>4
<1>6. Max(T) \in T /\ \A y \in T : Max(T) >= y
  BY <1>5 DEF Max
<1> QED
  BY <1>6

----------------------------------------------------------------------------
(* Ranks.  An order is a set of pairs, so that it can be an argument.      *)

StrictlyOrdered(R, S) ==
  /\ \A e \in S : <<e, e>> \notin R
  /\ \A e, f, g \in S : <<e, f>> \in R /\ <<f, g>> \in R => <<e, g>> \in R
  /\ \A e, f \in S : e # f => <<e, f>> \in R \/ <<f, e>> \in R

\* How many elements of S come before e.
Rank(R, S, e) == Cardinality({f \in S : <<f, e>> \in R})

\* A rank is a number below the size of the set.
LEMMA RankRange ==
  ASSUME NEW S, IsFiniteSet(S), NEW R, StrictlyOrdered(R, S), NEW e \in S
  PROVE  Rank(R, S, e) \in 0 .. Cardinality(S) - 1
<1> DEFINE B == {f \in S : <<f, e>> \in R}
<1>1. B \in SUBSET S /\ e \notin B
  BY DEF StrictlyOrdered
<1>2. IsFiniteSet(B) /\ Cardinality(B) <= Cardinality(S) /\ Cardinality(B) # Cardinality(S)
  <2>1. /\ IsFiniteSet(B) /\ Cardinality(B) <= Cardinality(S)
        /\ Cardinality(S) = Cardinality(B) => S = B
    BY <1>1, FS_Subset
  <2> QED
    BY <1>1, <2>1
<1>3. Cardinality(B) \in Nat /\ Cardinality(S) \in Nat
  BY <1>2, FS_CardinalityType
<1> QED
  BY <1>2, <1>3 DEF Rank

\* The rank grows along the order ...
LEMMA RankGrows ==
  ASSUME NEW S, IsFiniteSet(S), NEW R, StrictlyOrdered(R, S),
         NEW e \in S, NEW f \in S, <<e, f>> \in R
  PROVE  Rank(R, S, e) < Rank(R, S, f)
<1> DEFINE B(x) == {g \in S : <<g, x>> \in R}
<1>1. B(e) \in SUBSET B(f)
  BY DEF StrictlyOrdered
<1>2. e \in B(f) /\ e \notin B(e)
  BY DEF StrictlyOrdered
<1>3. IsFiniteSet(B(f)) /\ IsFiniteSet(B(e))
  BY FS_Subset
<1>4. Cardinality(B(e)) <= Cardinality(B(f)) /\ Cardinality(B(e)) # Cardinality(B(f))
  <2>1. /\ Cardinality(B(e)) <= Cardinality(B(f))
        /\ Cardinality(B(f)) = Cardinality(B(e)) => B(f) = B(e)
    BY <1>1, <1>3, FS_Subset
  <2> QED
    BY <1>2, <2>1
<1>5. Cardinality(B(e)) \in Nat /\ Cardinality(B(f)) \in Nat
  BY <1>3, FS_CardinalityType
<1> QED
  BY <1>4, <1>5 DEF Rank

\* ... so the order can be read off the ranks.
LEMMA RankOrders ==
  ASSUME NEW S, IsFiniteSet(S), NEW R, StrictlyOrdered(R, S), NEW e \in S, NEW f \in S
  PROVE  /\ Rank(R, S, e) = Rank(R, S, f) => e = f
         /\ Rank(R, S, e) < Rank(R, S, f) => <<e, f>> \in R
<1>1. Rank(R, S, e) \in Int /\ Rank(R, S, f) \in Int
  BY RankRange
<1>2. CASE e = f
  BY <1>1, <1>2 DEF StrictlyOrdered
<1>3. CASE <<e, f>> \in R
  BY <1>1, <1>3, RankGrows
<1>4. CASE <<f, e>> \in R /\ <<e, f>> \notin R
  BY <1>1, <1>4, RankGrows
<1> QED
  BY <1>2, <1>3, <1>4 DEF StrictlyOrdered

\* Every number below the size of the set is the rank of an element.
LEMMA RankOnto ==
  ASSUME NEW S, IsFiniteSet(S), NEW R, StrictlyOrdered(R, S),
         NEW k \in 0 .. Cardinality(S) - 1
  PROVE  \E e \in S : Rank(R, S, e) = k
<1> DEFINE N == 0 .. Cardinality(S) - 1
           rank == [e \in S |-> Rank(R, S, e)]
<1>1. Cardinality(S) \in Nat
  BY FS_CardinalityType
<1>2. IsFiniteSet(N) /\ Cardinality(N) = Cardinality(S)
  BY <1>1, FS_Interval
<1>3. rank \in [S -> N]
  BY RankRange
<1>4. rank \in Injection(S, N)
  <2>1. \A e, f \in S : Rank(R, S, e) = Rank(R, S, f) => e = f
    BY RankOrders, Zenon
  <2>2. \A e, f \in S : rank[e] = rank[f] => e = f
    BY <2>1
  <2> HIDE DEF rank
  <2> QED
    BY <1>3, <2>2 DEF Injection, IsInjective
<1>5. rank \in Surjection(S, N)
  BY <1>2, <1>4, FS_Injection
<1> QED
  BY <1>5 DEF Surjection

----------------------------------------------------------------------------
(* Sequences that list a finite set.                                       *)

\* A sequence of SetToSeqs has every element at one place.
LEMMA ListsAll ==
  ASSUME NEW S, IsFiniteSet(S), NEW q \in SetToSeqs(S)
  PROVE  /\ Cardinality(S) \in Nat
         /\ q \in Seq(S) /\ Len(q) = Cardinality(S)
         /\ DOMAIN q = 1 .. Cardinality(S)
         /\ \A i, j \in DOMAIN q : q[i] = q[j] => i = j
         /\ \A e \in S : \E i \in DOMAIN q : q[i] = e
<1> DEFINE D == 1 .. Cardinality(S)
<1>1. Cardinality(S) \in Nat
  BY FS_CardinalityType
<1>2. q \in [D -> S] /\ \A i, j \in D : q[i] = q[j] => i = j
  BY DEF SetToSeqs
<1>3. q \in Seq(S) /\ Len(q) = Cardinality(S) /\ DOMAIN q = D
  BY <1>1, <1>2
<1>4. q \in Injection(D, S)
  BY <1>2 DEF Injection, IsInjective
<1>5. Cardinality(D) = Cardinality(S)
  BY <1>1, FS_Interval
<1>6. q \in Surjection(D, S)
  BY <1>4, <1>5, FS_Injection
<1> QED
  BY <1>1, <1>2, <1>3, <1>6 DEF Surjection

\* q lists S along R.
ListsAlong(q, S, R) ==
  q \in SetToSeqs(S) /\ \A i, j \in DOMAIN q : i < j => <<q[j], q[i]>> \notin R

\* A listing puts each element at the place its rank says.
LEMMA ListedAtRank ==
  ASSUME NEW S, IsFiniteSet(S), NEW R, StrictlyOrdered(R, S),
         NEW q, ListsAlong(q, S, R), NEW i \in DOMAIN q
  PROVE  Rank(R, S, q[i]) = i - 1
<1> DEFINE B == {f \in S : <<f, q[i]>> \in R}
           D == 1 .. i - 1
           below == [j \in D |-> q[j]]
<1>1. /\ DOMAIN q = 1 .. Cardinality(S) /\ Cardinality(S) \in Nat
      /\ \A j \in DOMAIN q : q[j] \in S
      /\ \A j, k \in DOMAIN q : q[j] = q[k] => j = k
      /\ \A e \in S : \E j \in DOMAIN q : q[j] = e
  BY ListsAll DEF ListsAlong
<1>2. i \in Nat \ {0} /\ D \subseteq DOMAIN q
  BY <1>1
<1>3. \A j, k \in DOMAIN q : j < k => <<q[j], q[k]>> \in R
  <2> TAKE j, k \in DOMAIN q
  <2>1. j \in Int /\ k \in Int /\ q[j] \in S /\ q[k] \in S
    BY <1>1
  <2> HAVE j < k
  <2>2. q[j] # q[k] /\ <<q[k], q[j]>> \notin R
    BY <1>1, <2>1 DEF ListsAlong
  <2> QED
    BY <2>1, <2>2 DEF StrictlyOrdered
<1>4. \A j \in DOMAIN q : <<q[j], q[i]>> \in R <=> j < i
  <2> TAKE j \in DOMAIN q
  <2>1. j \in Int /\ i \in Int
    BY <1>1
  <2>2. CASE j < i
    BY <1>3, <2>2
  <2>3. CASE j = i
    BY <1>1, <2>1, <2>3 DEF StrictlyOrdered
  <2>4. CASE i < j
    BY <2>1, <2>4 DEF ListsAlong
  <2> QED
    BY <2>1, <2>2, <2>3, <2>4
<1>5. below \in [D -> B]
  BY <1>1, <1>2, <1>4
<1>6. below \in Injection(D, B)
  BY <1>1, <1>2, <1>5 DEF Injection, IsInjective
<1>7. \A e \in B : \E j \in D : below[j] = e
  <2> TAKE e \in B
  <2>1. PICK j \in DOMAIN q : q[j] = e
    BY <1>1
  <2>2. j < i /\ j \in 1 .. Cardinality(S)
    BY <1>1, <1>4, <2>1
  <2>3. j \in D
    BY <1>1, <1>2, <2>2
  <2> QED
    BY <2>1, <2>3
<1>8. below \in Bijection(D, B)
  BY <1>5, <1>6, <1>7 DEF Bijection, Surjection
<1>9. IsFiniteSet(D) /\ Cardinality(D) = i - 1
  <2>1. i - 1 \in Nat /\ 1 \in Int /\ i - 1 \in Int
    BY <1>2
  <2>2. IsFiniteSet(D) /\ Cardinality(D) = IF 1 > i - 1 THEN 0 ELSE (i - 1) - 1 + 1
    BY <2>1, FS_Interval
  <2> QED
    BY <2>1, <2>2
<1>10. Cardinality(B) = Cardinality(D)
  BY <1>8, <1>9, FS_Bijection DEF ExistsBijection
<1> QED
  BY <1>9, <1>10 DEF Rank

\* There is one listing at most ...
LEMMA ListingUnique ==
  ASSUME NEW S, IsFiniteSet(S), NEW R, StrictlyOrdered(R, S),
         NEW p, ListsAlong(p, S, R), NEW q, ListsAlong(q, S, R)
  PROVE  p = q
<1> DEFINE D == 1 .. Cardinality(S)
<1>1. p \in [D -> S] /\ q \in [D -> S]
  BY DEF ListsAlong, SetToSeqs
<1>2. ASSUME NEW i \in D PROVE p[i] = q[i]
  <2>1. i \in Nat /\ i \in DOMAIN p /\ i \in DOMAIN q /\ p[i] \in S /\ q[i] \in S
    BY <1>1, FS_CardinalityType
  <2>2. Rank(R, S, p[i]) = i - 1 /\ Rank(R, S, q[i]) = i - 1
    BY <2>1, ListedAtRank
  <2>3. \A e, f \in S : Rank(R, S, e) = Rank(R, S, f) => e = f
    BY RankOrders, Zenon
  <2> QED
    BY <2>1, <2>2, <2>3
<1> HIDE DEF D
<1> QED
  BY <1>1, <1>2

\* ... and one at least.
LEMMA ListingExists ==
  ASSUME NEW S, IsFiniteSet(S), NEW R, StrictlyOrdered(R, S)
  PROVE  \E q : ListsAlong(q, S, R)
<1> DEFINE D == 1 .. Cardinality(S)
           q == [i \in D |-> CHOOSE e \in S : Rank(R, S, e) = i - 1]
<1>1. Cardinality(S) \in Nat
  BY FS_CardinalityType
<1>2. ASSUME NEW i \in D PROVE q[i] \in S /\ Rank(R, S, q[i]) = i - 1
  <2>1. i - 1 \in 0 .. Cardinality(S) - 1
    BY <1>1
  <2> QED
    BY <2>1, RankOnto
<1>3. DOMAIN q = D /\ q \in [D -> S]
  BY <1>2
<1> HIDE DEF q
<1>4. ASSUME NEW i \in D, NEW j \in D, i # j PROVE q[i] # q[j]
  BY <1>1, <1>2, <1>4
<1>5. ASSUME NEW i \in D, NEW j \in D, i < j PROVE <<q[j], q[i]>> \notin R
  <2>1. /\ q[i] \in S /\ q[j] \in S
        /\ Rank(R, S, q[i]) = i - 1 /\ Rank(R, S, q[j]) = j - 1
    BY <1>2
  <2>2. ~ (Rank(R, S, q[j]) < Rank(R, S, q[i]))
    BY <1>5, <2>1
  <2> QED
    BY <2>1, <2>2, RankGrows
<1>6. ListsAlong(q, S, R)
  BY <1>3, <1>4, <1>5 DEF ListsAlong, SetToSeqs
<1> QED
  BY <1>6

----------------------------------------------------------------------------
(* Selections.                                                             *)

\* Places in ascending order are all of them, each once.
LEMMA AscendingLists ==
  ASSUME NEW places \in SUBSET Int, IsFiniteSet(places)
  PROVE  /\ Ascending(places) \in Seq(places)
         /\ Len(Ascending(places)) = Cardinality(places) /\ Cardinality(places) \in Nat
         /\ \A i, j \in 1 .. Cardinality(places) :
              i < j => Ascending(places)[i] < Ascending(places)[j]
         /\ \A x \in places : \E i \in 1 .. Cardinality(places) : Ascending(places)[i] = x
<1> DEFINE R == {r \in places \X places : r[1] < r[2]}
           Listing(p) == p \in SetToSeqs(places)
                           /\ \A i, j \in DOMAIN p : i < j => ~(p[j] < p[i])
<1>1. \A i, j \in places : <<i, j>> \in R <=> i < j
  OBVIOUS
<1> HIDE DEF R
<1>2. StrictlyOrdered(R, places)
  BY <1>1 DEF StrictlyOrdered
<1>3. \E p : Listing(p)
  <2>1. PICK p : ListsAlong(p, places, R)
    BY <1>2, ListingExists
  <2>2. p \in SetToSeqs(places) /\ \A i \in DOMAIN p : p[i] \in places
    BY <2>1 DEF ListsAlong, SetToSeqs
  <2> QED
    BY <1>1, <2>1, <2>2, Zenon DEF ListsAlong
<1>4. PICK p : p = Ascending(places)
  OBVIOUS
<1>5. Listing(p)
  BY <1>3, <1>4 DEF Ascending
<1>6. /\ Cardinality(places) \in Nat /\ p \in Seq(places)
      /\ Len(p) = Cardinality(places) /\ DOMAIN p = 1 .. Cardinality(places)
      /\ \A i, j \in DOMAIN p : p[i] = p[j] => i = j
      /\ \A x \in places : \E i \in DOMAIN p : p[i] = x
  BY <1>5, ListsAll
<1>7. ASSUME NEW i \in 1 .. Cardinality(places), NEW j \in 1 .. Cardinality(places), i < j
      PROVE  p[i] < p[j]
  <2>1. i \in DOMAIN p /\ j \in DOMAIN p /\ i # j
    BY <1>6, <1>7
  <2>2. p[i] \in places /\ p[j] \in places
    BY <1>6, <2>1
  <2>3. p[i] # p[j] /\ ~(p[j] < p[i])
    BY <1>5, <1>6, <1>7, <2>1
  <2>4. p[i] \in Int /\ p[j] \in Int
    BY <2>2
  <2> QED
    BY <2>3, <2>4
<1> QED
  BY <1>4, <1>6, <1>7

\* p is the places of q in their order.
Selects(p, q, places) ==
  /\ p \in Seq(places) /\ Len(p) \in Nat /\ Len(p) = Cardinality(places)
  /\ Kept(q, places) = [k \in 1 .. Len(p) |-> q[p[k]]]
  /\ Len(Kept(q, places)) = Len(p)
  /\ \A i, j \in 1 .. Len(p) : i < j => p[i] < p[j]
  /\ \A x \in places : \E k \in 1 .. Len(p) : p[k] = x

\* What is kept of a sequence: the elements at the places, in their order.
LEMMA KeptElements ==
  ASSUME NEW S, NEW q \in Seq(S), NEW places \in SUBSET DOMAIN q
  PROVE  Kept(q, places) \in Seq(S) /\ \E p : Selects(p, q, places)
<1>1. Len(q) \in Nat /\ DOMAIN q = 1 .. Len(q) /\ \A i \in DOMAIN q : q[i] \in S
  OBVIOUS
<1>2. IsFiniteSet(places) /\ places \in SUBSET Int
  <2>1. IsFiniteSet(1 .. Len(q))
    <3>1. 1 \in Int /\ Len(q) \in Int
      BY <1>1
    <3> QED
      BY <3>1, FS_Interval
  <2>2. places \in SUBSET (1 .. Len(q))
    BY <1>1
  <2>3. IsFiniteSet(places)
    <3>1. PICK I : I = 1 .. Len(q)
      OBVIOUS
    <3>2. IsFiniteSet(I) /\ places \in SUBSET I
      BY <2>1, <2>2, <3>1
    <3> QED
      BY <3>2, FS_Subset
  <2> QED
    BY <2>2, <2>3
<1>3. PICK p : p = Ascending(places)
  OBVIOUS
<1>4. /\ p \in Seq(places) /\ Len(p) = Cardinality(places) /\ Len(p) \in Nat
      /\ \A i, j \in 1 .. Len(p) : i < j => p[i] < p[j]
      /\ \A x \in places : \E i \in 1 .. Len(p) : p[i] = x
  BY <1>2, <1>3, AscendingLists
<1>5. DOMAIN p = 1 .. Len(p) /\ \A k \in 1 .. Len(p) : p[k] \in places
  BY <1>4
<1>6. Kept(q, places) = [k \in 1 .. Len(p) |-> q[p[k]]]
  BY <1>3, <1>5 DEF Kept
<1>7. Kept(q, places) \in Seq(S) /\ Len(Kept(q, places)) = Len(p)
  <2>1. \A k \in 1 .. Len(p) : q[p[k]] \in S
    BY <1>1, <1>5
  <2>2. PICK u : u = Kept(q, places)
    OBVIOUS
  <2>3. u \in [1 .. Len(p) -> S]
    BY <1>6, <2>1, <2>2
  <2>4. u \in Seq(S) /\ Len(u) = Len(p)
    <3>1. PICK n \in Nat : n = Len(p)
      BY <1>4
    <3>2. u \in [1 .. n -> S]
      BY <2>3, <3>1
    <3> QED
      BY <3>1, <3>2
  <2> QED
    BY <2>2, <2>4
<1>8. Selects(p, q, places)
  BY <1>4, <1>6, <1>7 DEF Selects
<1> QED
  BY <1>7, <1>8

\* The elements at the places are what is kept; one at each place if they differ.
LEMMA KeptSet ==
  ASSUME NEW S, NEW q \in Seq(S), NEW places \in SUBSET DOMAIN q
  PROVE  /\ ToSet(Kept(q, places)) = {q[x] : x \in places}
         /\ (\A x, y \in places : q[x] = q[y] => x = y) => IsInjective(Kept(q, places))
<1>1. PICK p : Selects(p, q, places)
  BY KeptElements
<1>2. PICK u : u = Kept(q, places)
  OBVIOUS
<1>3. /\ Len(p) \in Nat /\ \A k \in 1 .. Len(p) : p[k] \in places /\ p[k] \in Int
      /\ \A i, j \in 1 .. Len(p) : i < j => p[i] < p[j]
      /\ \A x \in places : \E k \in 1 .. Len(p) : p[k] = x
      /\ DOMAIN u = 1 .. Len(p) /\ \A k \in 1 .. Len(p) : u[k] = q[p[k]]
  <2>1. /\ p \in Seq(places) /\ Len(p) \in Nat
        /\ u = [k \in 1 .. Len(p) |-> q[p[k]]]
    BY <1>1, <1>2 DEF Selects
  <2>2. \A k \in 1 .. Len(p) : p[k] \in places
    BY <2>1
  <2>3. \A x \in places : x \in Int
    OBVIOUS
  <2> QED
    BY <1>1, <2>1, <2>2, <2>3 DEF Selects
<1>4. ToSet(u) = {q[x] : x \in places}
  <2>1. \A e : e \in ToSet(u) <=> \E k \in 1 .. Len(p) : e = u[k]
    BY <1>3 DEF ToSet
  <2>2. ASSUME NEW e PROVE (\E k \in 1 .. Len(p) : e = u[k]) <=> e \in {q[x] : x \in places}
    BY <1>3
  <2> QED
    BY <2>1, <2>2
<1>5. ASSUME \A x, y \in places : q[x] = q[y] => x = y,
             NEW i \in 1 .. Len(p), NEW j \in 1 .. Len(p), u[i] = u[j]
      PROVE  i = j
  <2>1. p[i] = p[j] /\ p[i] \in Int /\ p[j] \in Int
    BY <1>3, <1>5
  <2>2. ~(i < j) /\ ~(j < i)
    BY <1>3, <2>1
  <2> QED
    BY <1>3, <2>2
<1>6. (\A x, y \in places : q[x] = q[y] => x = y) => IsInjective(u)
  BY <1>3, <1>5 DEF IsInjective
<1> QED
  BY <1>2, <1>4, <1>6

\* A sequence continued by another has the elements of both.
LEMMA ConcatSet ==
  ASSUME NEW S, NEW q \in Seq(S), NEW r \in Seq(S)
  PROVE  /\ q \o r \in Seq(S) /\ ToSet(q \o r) = ToSet(q) \cup ToSet(r)
         /\ IsInjective(q) /\ IsInjective(r) /\ ToSet(q) \cap ToSet(r) = {}
              => IsInjective(q \o r)
<1>1. PICK u : u = q \o r
  OBVIOUS
<1>2. PICK m \in Nat, n \in Nat : m = Len(q) /\ n = Len(r)
  OBVIOUS
<1>3. DOMAIN q = 1 .. m /\ DOMAIN r = 1 .. n
  BY <1>2
<1>4. /\ u \in Seq(S) /\ DOMAIN u = 1 .. (m + n)
      /\ \A i \in 1 .. (m + n) : u[i] = IF i <= m THEN q[i] ELSE r[i - m]
  <2>1. /\ u \in Seq(S) /\ Len(u) = m + n
        /\ \A i \in 1 .. (m + n) : u[i] = IF i <= m THEN q[i] ELSE r[i - m]
    BY <1>1, <1>2, ConcatProperties
  <2> QED
    BY <2>1
<1>5. /\ \A i \in 1 .. m : i \in 1 .. (m + n) /\ u[i] = q[i]
      /\ \A i \in 1 .. n : m + i \in 1 .. (m + n) /\ u[m + i] = r[i]
  <2>1. ASSUME NEW i \in 1 .. m PROVE i \in 1 .. (m + n) /\ u[i] = q[i]
    BY <1>4
  <2>2. ASSUME NEW i \in 1 .. n PROVE m + i \in 1 .. (m + n) /\ u[m + i] = r[i]
    <3>1. m + i \in 1 .. (m + n) /\ ~(m + i <= m) /\ (m + i) - m = i
      OBVIOUS
    <3> QED
      BY <1>4, <3>1
  <2> QED
    BY <2>1, <2>2
<1>6. ASSUME NEW i \in 1 .. (m + n)
      PROVE  \/ i \in 1 .. m /\ u[i] = q[i]
             \/ i - m \in 1 .. n /\ i > m /\ u[i] = r[i - m]
  <2>1. \/ i \in 1 .. m /\ i <= m
        \/ i - m \in 1 .. n /\ i > m /\ ~(i <= m)
    OBVIOUS
  <2> QED
    BY <1>4, <2>1
<1>7. /\ \A e : e \in ToSet(q) <=> \E i \in 1 .. m : e = q[i]
      /\ \A e : e \in ToSet(r) <=> \E i \in 1 .. n : e = r[i]
      /\ \A e : e \in ToSet(u) <=> \E i \in 1 .. (m + n) : e = u[i]
  BY <1>3, <1>4, Zenon DEF ToSet
<1>8. ToSet(u) = ToSet(q) \cup ToSet(r)
  <2>1. ASSUME NEW e \in ToSet(u) PROVE e \in ToSet(q) \cup ToSet(r)
    BY <1>6, <1>7, <2>1
  <2>2. ASSUME NEW e \in ToSet(q) \cup ToSet(r) PROVE e \in ToSet(u)
    <3>1. CASE e \in ToSet(q)
      <4>1. PICK i \in 1 .. m : e = q[i]
        BY <1>7, <3>1, Zenon
      <4> QED
        BY <1>5, <1>7, <4>1, Zenon
    <3>2. CASE e \in ToSet(r)
      <4>1. PICK i \in 1 .. n : e = r[i]
        BY <1>7, <3>2, Zenon
      <4> QED
        BY <1>5, <1>7, <4>1, Zenon
    <3> QED
      BY <2>2, <3>1, <3>2
  <2> QED
    BY <2>1, <2>2
<1>10. ASSUME IsInjective(q), IsInjective(r), ToSet(q) \cap ToSet(r) = {},
              NEW i \in 1 .. (m + n), NEW j \in 1 .. (m + n), u[i] = u[j]
       PROVE  i = j
  <2>1. /\ \A k, l \in 1 .. m : q[k] = q[l] => k = l
        /\ \A k, l \in 1 .. n : r[k] = r[l] => k = l
    BY <1>3, <1>10, Zenon DEF IsInjective
  <2>2. ASSUME NEW k \in 1 .. m, NEW l \in 1 .. n PROVE q[k] # r[l]
    BY <1>7, <1>10
  <2>3. CASE i \in 1 .. m /\ u[i] = q[i] /\ j \in 1 .. m /\ u[j] = q[j]
    BY <1>10, <2>1, <2>3
  <2>4. CASE /\ i - m \in 1 .. n /\ u[i] = r[i - m]
             /\ j - m \in 1 .. n /\ u[j] = r[j - m]
    <3>1. i - m = j - m
      BY <1>10, <2>1, <2>4
    <3> QED
      BY <3>1
  <2> QED
    BY <1>6, <1>10, <2>2, <2>3, <2>4
<1>9. IsInjective(q) /\ IsInjective(r) /\ ToSet(q) \cap ToSet(r) = {} => IsInjective(u)
  BY <1>4, <1>10 DEF IsInjective
<1> QED
  BY <1>1, <1>4, <1>8, <1>9

\* The first `limit' of some places.
FirstOf(listed, limit) == {i \in listed : Cardinality({j \in listed : j <= i}) <= limit}

\* They are all, or all up to the last of them.
LEMMA LimitedPage ==
  ASSUME NEW n \in Nat, NEW listed \in SUBSET (1 .. n), NEW limit \in Nat \ {0}
  PROVE  /\ FirstOf(listed, limit) \in SUBSET listed
         /\ FirstOf(listed, limit) # listed =>
              \E last \in FirstOf(listed, limit) :
                /\ last = Max(FirstOf(listed, limit))
                /\ \A i \in FirstOf(listed, limit) : i <= last
                /\ \A i \in listed : i <= last => i \in FirstOf(listed, limit)
<1> DEFINE page == FirstOf(listed, limit)
           upto(i) == {j \in listed : j <= i}
<1>1. IsFiniteSet(listed) /\ listed \in SUBSET Nat /\ listed \in SUBSET (0 .. n)
  <2>1. PICK D : D = 1 .. n
    OBVIOUS
  <2>2. 1 \in Int /\ n \in Int
    OBVIOUS
  <2>3. IsFiniteSet(D) /\ listed \in SUBSET D
    BY <2>1, <2>2, FS_Interval
  <2>4. IsFiniteSet(listed)
    BY <2>3, FS_Subset
  <2> QED
    BY <2>4
<1> USE DEF FirstOf
<1>2. page \in SUBSET listed
  OBVIOUS
<1>3. ASSUME NEW i \in page, NEW j \in listed, j <= i PROVE j \in page
  <2>1. upto(i) \in SUBSET listed /\ upto(j) \in SUBSET upto(i)
    <3>1. i \in Nat /\ \A k \in listed : k \in Nat
      BY <1>1, <1>2
    <3>2. \A k \in listed : k <= j => k <= i
      BY <1>3, <3>1
    <3> QED
      BY <3>2
  <2>2. IsFiniteSet(upto(i))
    BY <1>1, <2>1, FS_Subset
  <2>3. Cardinality(upto(j)) <= Cardinality(upto(i)) /\ IsFiniteSet(upto(j))
    BY <2>1, <2>2, FS_Subset
  <2>4. /\ Cardinality(upto(j)) \in Nat /\ Cardinality(upto(i)) \in Nat
        /\ Cardinality(upto(i)) <= limit
    BY <2>2, <2>3, FS_CardinalityType
  <2>5. Cardinality(upto(j)) <= limit
    BY <2>3, <2>4
  <2> QED
    BY <2>5
<1>4. ASSUME listed # {} PROVE page # {}
  <2>1. Min(listed) \in listed /\ \A y \in listed : Min(listed) <= y
    BY <1>1, <1>4, MinNat
  <2>2. PICK m : m = Min(listed)
    OBVIOUS
  <2>3. ASSUME NEW j \in listed, j <= m PROVE j = m
    <3>1. j \in Nat /\ m \in Nat /\ m <= j
      BY <1>1, <2>1, <2>2
    <3> QED
      BY <2>3, <3>1
  <2>4. upto(m) = {m}
    BY <1>1, <2>1, <2>2, <2>3
  <2>5. Cardinality(upto(m)) = 1
    BY <2>4, FS_Singleton
  <2>6. 1 <= limit
    OBVIOUS
  <2> QED
    BY <2>1, <2>2, <2>5, <2>6
<1>5. ASSUME page # listed
      PROVE  Max(page) \in page /\ \A i \in page : i <= Max(page)
  <2>1. page # {}
    BY <1>2, <1>4, <1>5
  <2>2. page \in SUBSET (0 .. n)
    BY <1>1, <1>2
  <2> QED
    BY <2>1, <2>2, MaxNat
<1>6. ASSUME page # listed, NEW i \in listed, i <= Max(page) PROVE i \in page
  BY <1>3, <1>5, <1>6
<1> HIDE DEF page
<1>7. page # listed => \E last \in page :
        /\ last = Max(page) /\ \A i \in page : i <= last
        /\ \A i \in listed : i <= last => i \in page
  BY <1>5, <1>6, Zenon
<1> QED
  BY <1>2, <1>7, Zenon DEF page

\* q and r stay what they are together when q takes the first `count' elements of r.
HandsOver(S, q, r, count) ==
  /\ q \o SubSeq(r, 1, count) \in Seq(S) /\ SubSeq(r, count + 1, Len(r)) \in Seq(S)
  /\ (q \o SubSeq(r, 1, count)) \o SubSeq(r, count + 1, Len(r)) = q \o r

\* And so they do.
LEMMA HandOver ==
  ASSUME NEW S, NEW q \in Seq(S), NEW r \in Seq(S), NEW count \in 0 .. Len(r)
  PROVE  HandsOver(S, q, r, count)
<1> DEFINE a == SubSeq(r, 1, count)
           b == SubSeq(r, count + 1, Len(r))
<1>1. a \o b = r
  <2>1. /\ 1 \in 1 .. Len(r) + 1 /\ count \in 1 - 1 .. Len(r)
        /\ Len(r) \in count .. Len(r)
    OBVIOUS
  <2>2. a \o b = SubSeq(r, 1, Len(r))
    BY <2>1, ConcatAdjacentSubSeq
  <2> QED
    BY <2>2, SubSeqFull
<1>2. a \in Seq(S) /\ b \in Seq(S)
  <2>1. Len(r) \in Nat /\ count \in Nat /\ count <= Len(r)
    OBVIOUS
  <2>2. a \in Seq(S)
    BY <2>1
  <2>3. b \in Seq(S)
    BY <2>1
  <2> QED
    BY <2>2, <2>3
<1> HIDE DEF a, b
<1>3. (q \o a) \o b = q \o (a \o b)
  BY <1>2, ConcatAssociative
<1>4. q \o a \in Seq(S)
  BY <1>2, ConcatProperties
<1> QED
  BY <1>1, <1>2, <1>3, <1>4 DEF a, b, HandsOver

\* f concatenates the first sequences of q, up to the m-th.
Flattens(f, q, m) ==
  f = [i \in 1 .. m |-> IF i = 1 THEN q[i] ELSE f[i - 1] \o q[i]]

\* What FlattenSeq takes the last value of exists.
LEMMA Flattened ==
  ASSUME NEW U, NEW q \in Seq(U), q # << >>
  PROVE  \E f : Flattens(f, q, Len(q)) /\ FlattenSeq(q) = f[Len(q)]
<1> DEFINE T == {m \in Nat : \E f : Flattens(f, q, m)}
<1>1. 0 \in T
  <2>1. PICK f : f = [i \in 1 .. 0 |-> q[i]]
    OBVIOUS
  <2>2. Flattens(f, q, 0)
    BY <2>1 DEF Flattens
  <2> QED
    BY <2>2
<1>2. ASSUME NEW m \in Nat, m \in T PROVE m + 1 \in T
  <2>1. PICK f : Flattens(f, q, m)
    BY <1>2
  <2>2. PICK g : g = [i \in 1 .. m + 1 |-> IF i = m + 1
                                             THEN IF i = 1 THEN q[i] ELSE f[m] \o q[i]
                                             ELSE f[i]]
    OBVIOUS
  <2>3. PICK h : h = [i \in 1 .. m + 1 |-> IF i = 1 THEN q[i] ELSE g[i - 1] \o q[i]]
    OBVIOUS
  <2>4. ASSUME NEW i \in 1 .. m + 1 PROVE g[i] = h[i]
    <3>1. CASE i = 1
      <4>1. CASE m = 0
        BY <2>2, <2>3, <3>1, <4>1
      <4>2. CASE m # 0
        <5>1. i \in 1 .. m /\ i # m + 1
          BY <3>1, <4>2
        <5>2. f[i] = q[i] /\ g[i] = f[i] /\ h[i] = q[i]
          BY <2>1, <2>2, <2>3, <3>1, <5>1 DEF Flattens
        <5> QED
          BY <5>2
      <4> QED
        BY <4>1, <4>2
    <3>2. CASE i # 1 /\ i = m + 1
      <4>1. i - 1 = m /\ m \in 1 .. m + 1 /\ m # m + 1
        BY <3>2
      <4>2. g[m] = f[m] /\ g[i] = f[m] \o q[i] /\ h[i] = g[m] \o q[i]
        BY <2>2, <2>3, <3>2, <4>1
      <4> QED
        BY <4>2
    <3>3. CASE i # 1 /\ i # m + 1
      <4>1. i \in 1 .. m /\ i - 1 \in 1 .. m + 1 /\ i - 1 # m + 1
        BY <3>3
      <4>2. g[i - 1] = f[i - 1] /\ g[i] = f[i] /\ h[i] = g[i - 1] \o q[i]
        BY <2>2, <2>3, <3>3, <4>1
      <4>3. f[i] = f[i - 1] \o q[i]
        BY <2>1, <3>3, <4>1 DEF Flattens
      <4> QED
        BY <4>2, <4>3
    <3> QED
      BY <3>1, <3>2, <3>3
  <2>5. g = h
    BY <2>2, <2>3, <2>4
  <2>6. Flattens(g, q, m + 1)
    BY <2>3, <2>5 DEF Flattens
  <2> QED
    BY <2>6
<1> HIDE DEF T
<1>3. Nat \subseteq T
  BY <1>1, <1>2, NatSetInduction
<1>4. Len(q) \in Nat /\ Len(q) # 0
  OBVIOUS
<1>5. \E f : Flattens(f, q, Len(q))
  <2>1. Len(q) \in T
    BY <1>3, <1>4
  <2> QED
    BY <2>1 DEF T
<1> DEFINE f == CHOOSE f : f = [i \in 1 .. Len(q) |-> IF i = 1 THEN q[i] ELSE f[i - 1] \o q[i]]
<1>6. Flattens(f, q, Len(q))
  BY <1>5 DEF Flattens
<1>7. FlattenSeq(q) = f[Len(q)]
  BY <1>4 DEF FlattenSeq
<1> QED
  BY <1>6, <1>7

\* u and w run through the same places of the sequences in p and q.
Together(S, T, p, q, u, w) ==
  /\ u \in Seq(S) /\ w \in Seq(T) /\ Len(u) = Len(w)
  /\ \A k \in 1 .. Len(u) : \E i \in 1 .. Len(p) : \E j \in 1 .. Len(p[i]) :
       u[k] = p[i][j] /\ w[k] = q[i][j]

\* They go on together with two sequences of the same length.
LEMMA GoOnTogether ==
  ASSUME NEW S, NEW T, NEW p \in Seq(Seq(S)), NEW q \in Seq(Seq(T)),
         NEW a, NEW c, Together(S, T, p, q, a, c),
         NEW i \in 1 .. Len(p), Len(q) = Len(p), Len(p[i]) = Len(q[i])
  PROVE  Together(S, T, p, q, a \o p[i], c \o q[i])
<1>1. a \in Seq(S) /\ c \in Seq(T) /\ Len(a) = Len(c)
  BY DEF Together
<1>2. PICK b \in Seq(S), d \in Seq(T) : b = p[i] /\ d = q[i]
  <2>1. i \in DOMAIN p /\ i \in DOMAIN q
    OBVIOUS
  <2> QED
    BY <2>1
<1>3. Len(b) = Len(d)
  BY <1>2
<1>4. PICK u, w : u = a \o b /\ w = c \o d
  OBVIOUS
<1>5. /\ u \in Seq(S) /\ Len(u) = Len(a) + Len(b)
      /\ \A k \in 1 .. Len(a) + Len(b) : u[k] = IF k <= Len(a) THEN a[k] ELSE b[k - Len(a)]
  <2>1. /\ a \o b \in Seq(S) /\ Len(a \o b) = Len(a) + Len(b)
        /\ \A k \in 1 .. Len(a) + Len(b) :
             (a \o b)[k] = IF k <= Len(a) THEN a[k] ELSE b[k - Len(a)]
    BY <1>1, ConcatProperties
  <2> QED
    BY <1>4, <2>1
<1>6. /\ w \in Seq(T) /\ Len(w) = Len(a) + Len(b)
      /\ \A k \in 1 .. Len(a) + Len(b) : w[k] = IF k <= Len(a) THEN c[k] ELSE d[k - Len(a)]
  BY <1>1, <1>3, <1>4, ConcatProperties
<1>7. ASSUME NEW k \in 1 .. Len(u)
      PROVE  \E x \in 1 .. Len(p) : \E j \in 1 .. Len(p[x]) : u[k] = p[x][j] /\ w[k] = q[x][j]
  <2>1. k \in 1 .. Len(a) + Len(b) /\ Len(a) \in Nat /\ Len(b) \in Nat
    BY <1>1, <1>5
  <2>2. CASE k <= Len(a)
    <3>1. k \in 1 .. Len(a) /\ u[k] = a[k] /\ w[k] = c[k]
      BY <1>5, <1>6, <2>1, <2>2
    <3>2. \E x \in 1 .. Len(p) : \E j \in 1 .. Len(p[x]) : a[k] = p[x][j] /\ c[k] = q[x][j]
      BY <3>1 DEF Together
    <3> QED
      BY <3>1, <3>2
  <2>3. CASE ~(k <= Len(a))
    <3>1. /\ k - Len(a) \in 1 .. Len(b)
          /\ u[k] = b[k - Len(a)] /\ w[k] = d[k - Len(a)]
      BY <1>5, <1>6, <2>1, <2>3
    <3> QED
      BY <1>2, <3>1
  <2> QED
    BY <2>2, <2>3
<1>8. Len(u) = Len(w)
  BY <1>5, <1>6
<1>9. Together(S, T, p, q, u, w)
  BY <1>5, <1>6, <1>7, <1>8, Zenon DEF Together
<1> QED
  BY <1>2, <1>4, <1>9

\* And so do the flattened sequences if the lengths agree throughout.
LEMMA FlattenTogether ==
  ASSUME NEW S, NEW T, NEW p \in Seq(Seq(S)), NEW q \in Seq(Seq(T)), Len(p) = Len(q),
         \A i \in 1 .. Len(p) : Len(p[i]) = Len(q[i])
  PROVE  Together(S, T, p, q, FlattenSeq(p), FlattenSeq(q))
<1>1. CASE p = << >>
  <2>1. q = << >> /\ Len(p) = 0 /\ Len(q) = 0
    BY <1>1
  <2>2. FlattenSeq(p) = << >> /\ FlattenSeq(q) = << >>
    BY <1>1, <2>1 DEF FlattenSeq
  <2>3. Together(S, T, p, q, << >>, << >>)
    BY DEF Together
  <2> QED
    BY <2>2, <2>3
<1>2. CASE p # << >>
  <2>1. PICK n \in Nat \ {0} : n = Len(p) /\ n = Len(q)
    BY <1>2
  <2>2. q # << >>
    BY <2>1
  <2>3. PICK f : Flattens(f, p, n) /\ FlattenSeq(p) = f[n]
    BY <1>2, <2>1, Flattened
  <2>4. PICK g : Flattens(g, q, n) /\ FlattenSeq(q) = g[n]
    BY <2>1, <2>2, Flattened
  <2> DEFINE A == {m \in Nat : m \in 1 .. n => Together(S, T, p, q, f[m], g[m])}
  <2>5. 0 \in A
    OBVIOUS
  <2>6. ASSUME NEW m \in Nat, m \in A PROVE m + 1 \in A
    <3> SUFFICES ASSUME m + 1 \in 1 .. n PROVE Together(S, T, p, q, f[m + 1], g[m + 1])
      <4>1. m + 1 \in Nat
        OBVIOUS
      <4> QED
        BY <4>1, Zenon DEF A
    <3>1. /\ f[m + 1] = IF m + 1 = 1 THEN p[m + 1] ELSE f[m + 1 - 1] \o p[m + 1]
          /\ g[m + 1] = IF m + 1 = 1 THEN q[m + 1] ELSE g[m + 1 - 1] \o q[m + 1]
      <4>1. PICK x : x = m + 1 /\ x \in 1 .. n
        OBVIOUS
      <4>2. f[x] = IF x = 1 THEN p[x] ELSE f[x - 1] \o p[x]
        BY <2>3, <4>1 DEF Flattens
      <4>3. g[x] = IF x = 1 THEN q[x] ELSE g[x - 1] \o q[x]
        BY <2>4, <4>1 DEF Flattens
      <4> QED
        BY <4>1, <4>2, <4>3
    <3>2. CASE m = 0
      <4>1. f[m + 1] = << >> \o p[1] /\ g[m + 1] = << >> \o q[1]
        <5>1. p[1] \in Seq(S) /\ q[1] \in Seq(T)
          BY <2>1
        <5>2. << >> \o p[1] = p[1] /\ << >> \o q[1] = q[1]
          BY <5>1, ConcatEmptySeq
        <5> QED
          BY <3>1, <3>2, <5>2
      <4>2. Together(S, T, p, q, << >>, << >>)
        BY DEF Together
      <4>3. Len(p[1]) = Len(q[1]) /\ 1 \in 1 .. Len(p) /\ Len(q) = Len(p)
        BY <2>1
      <4>4. Together(S, T, p, q, << >> \o p[1], << >> \o q[1])
        BY <4>2, <4>3, GoOnTogether
      <4> QED
        BY <3>2, <4>1, <4>4
    <3>3. CASE m # 0
      <4>1. m \in 1 .. n /\ m + 1 # 1 /\ m + 1 - 1 = m
        BY <3>3
      <4>2. Together(S, T, p, q, f[m], g[m])
        BY <2>6, <4>1
      <4>3. f[m + 1] = f[m] \o p[m + 1] /\ g[m + 1] = g[m] \o q[m + 1]
        BY <3>1, <4>1
      <4>4. Len(p[m + 1]) = Len(q[m + 1]) /\ m + 1 \in 1 .. Len(p)
        BY <2>1
      <4> QED
        BY <4>2, <4>3, <4>4, GoOnTogether
    <3> QED
      BY <3>2, <3>3
  <2> HIDE DEF A
  <2>7. Nat \subseteq A
    BY <2>5, <2>6, NatSetInduction
  <2>8. Together(S, T, p, q, f[n], g[n])
    <3>1. n \in A /\ n \in 1 .. n
      BY <2>1, <2>7
    <3> QED
      BY <3>1 DEF A
  <2> QED
    BY <2>3, <2>4, <2>8
<1> QED
  BY <1>1, <1>2

=============================================================================
