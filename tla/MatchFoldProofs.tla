-------------------------- MODULE MatchFoldProofs --------------------------
(***************************************************************************)
(* Proofs about the fold of MatchFold, for every match, every correction   *)
(* of it and every order and number of deliveries.                         *)
(*                                                                         *)
(* The log only grows, so each property is one of what a log is folded to. *)
(* The events of a log are an enumeration of its records by keys that      *)
(* differ, and so are its decisions; there is one such enumeration, so     *)
(* what the state is computed from depends on the records alone.  A        *)
(* verdict is followed through the recursion of Verdicts: after each       *)
(* decision it is what the last of them made it.  The list of goals takes  *)
(* the places of what was read to positions, one to one and in their       *)
(* order, which makes counting in the list counting among what was read.   *)
(*                                                                         *)
(* Of the document made of it: in the order of their swing a mandatory     *)
(* moment finds only larger ones kept, and gives way to mandatory ones.    *)
(*                                                                         *)
(* An induction goes through a set of numbers that holds zero and every    *)
(* successor, which is all of them since a set of numbers has a least one. *)
(***************************************************************************)
EXTENDS Document, FiniteSetTheorems, WellFoundedInduction, TLAPS

-----------------------------------------------------------------------------
(* Induction, through sets of numbers.                                     *)

(* A set of numbers has a least one. *)
LEMMA Least ==
    ASSUME NEW T \in SUBSET Nat, T # {}
    PROVE  \E x \in T : \A y \in T : x <= y
<1> DEFINE R == OpToRel(<, Nat)
<1>1. IsWellFoundedOn(R, Nat)
  BY NatLessThanWellFounded
<1>2. \A x, y \in Nat : <<y, x>> \in R <=> y < x
  BY DEF OpToRel
<1> HIDE DEF R
<1>3. PICK x \in T : \A y \in T : <<y, x>> \notin R
  BY <1>1, WFMin
<1>4. ASSUME NEW y \in T PROVE x <= y
  <2>1. x \in Nat /\ y \in Nat /\ <<y, x>> \notin R
    BY <1>3
  <2>2. ~(y < x)
    BY <1>2, <2>1
  <2> QED  BY <2>1, <2>2
<1> QED  BY <1>4

(* What holds of zero and of every successor holds of every number. *)
LEMMA Steps ==
    ASSUME NEW T, 0 \in T, \A n \in Nat : n \in T => n + 1 \in T
    PROVE  Nat \subseteq T
<1> SUFFICES ASSUME Nat \ T # {} PROVE FALSE
  OBVIOUS
<1>1. PICK x \in Nat \ T : \A y \in Nat \ T : x <= y
  BY Least
<1>2. x # 0 /\ x - 1 \in Nat
  BY <1>1
<1>3. x - 1 \in T
  BY <1>1, <1>2
<1> QED  BY <1>1, <1>2, <1>3

-----------------------------------------------------------------------------
(* Numbering. *)

(* before[x] is what comes before x in a strict total order of S. *)
TotalOrder(S, before) ==
    /\ before \in [S -> SUBSET S]
    /\ \A x \in S : x \notin before[x]
    /\ \A x, y \in S : x \in before[y] => before[x] \subseteq before[y]
    /\ \A x, y \in S : x = y \/ x \in before[y] \/ y \in before[x]

(* numbered holds what each element stands for, with its number. *)
Numbering(numbered, S, before, of) ==
    /\ \A x \in S : <<Cardinality(before[x]), of[x]>> \in numbered
    /\ \A p \in numbered : \E x \in S : p = <<Cardinality(before[x]), of[x]>>

(* q takes the numbers from one on to the elements, in their order. *)
InTurn(q, S, before) ==
    /\ q \in [1 .. Cardinality(S) -> S]
    /\ \A i, j \in 1 .. Cardinality(S) : i < j <=> q[i] \in before[q[j]]
    /\ \A x \in S : \E k \in 1 .. Cardinality(S) : q[k] = x

(* In a finite set with a strict total order, the numbers of elements      *)
(* before each are all the numbers below that of the elements.             *)
LEMMA Ranks ==
    ASSUME NEW S, IsFiniteSet(S), NEW before, TotalOrder(S, before)
    PROVE  /\ Cardinality(S) \in Nat
           /\ \A x \in S : Cardinality(before[x]) \in 0 .. Cardinality(S) - 1
           /\ \A x, y \in S : x \in before[y] <=> Cardinality(before[x]) < Cardinality(before[y])
           /\ \A k \in 0 .. Cardinality(S) - 1 : \E x \in S : Cardinality(before[x]) = k
<1> USE DEF TotalOrder
<1> DEFINE n == Cardinality(S)
           rank == [x \in S |-> Cardinality(before[x])]
<1>1. n \in Nat
  BY FS_CardinalityType
<1>2. \A x \in S : IsFiniteSet(before[x]) /\ rank[x] \in Nat
  BY FS_Subset, FS_CardinalityType
<1>3. \A x \in S : rank[x] \in 0 .. n - 1
  <2> SUFFICES ASSUME NEW x \in S PROVE rank[x] \in 0 .. n - 1
    OBVIOUS
  <2>1. before[x] \in SUBSET S /\ before[x] # S
    OBVIOUS
  <2>2. rank[x] <= n /\ rank[x] # n
    BY <2>1, FS_Subset
  <2> QED  BY <1>1, <1>2, <2>2
<1>4. \A x, y \in S : x \in before[y] => rank[x] < rank[y]
  <2> SUFFICES ASSUME NEW x \in S, NEW y \in S, x \in before[y] PROVE rank[x] < rank[y]
    OBVIOUS
  <2>1. before[x] \in SUBSET before[y] /\ before[x] # before[y] /\ IsFiniteSet(before[y])
    BY <1>2
  <2>2. rank[x] <= rank[y] /\ rank[x] # rank[y]
    BY <2>1, FS_Subset
  <2> QED  BY <1>2, <2>2
<1>5. \A x, y \in S : rank[x] = rank[y] => x = y
  <2> HIDE DEF rank
  <2> QED  BY <1>2, <1>4
<1>6. rank \in Injection(S, 0 .. n - 1)
  <2> HIDE DEF rank, n
  <2>1. rank \in [S -> 0 .. n - 1]
    BY <1>3 DEF rank
  <2> QED  BY <1>5, <2>1 DEF Injection, IsInjective
<1>7. IsFiniteSet(0 .. n - 1) /\ Cardinality(0 .. n - 1) = n
  <2> HIDE DEF rank, n
  <2>1. \A a, b \in Int : /\ IsFiniteSet(a .. b)
                          /\ Cardinality(a .. b) = IF a > b THEN 0 ELSE b - a + 1
    BY FS_Interval
  <2>2. 0 \in Int /\ n - 1 \in Int /\ (IF 0 > n - 1 THEN 0 ELSE (n - 1) - 0 + 1) = n
    BY <1>1
  <2> QED  BY <2>1, <2>2
<1>8. rank \in Surjection(S, 0 .. n - 1)
  <2> HIDE DEF rank
  <2> QED  BY <1>6, <1>7, FS_Injection
<1>9. \A k \in 0 .. n - 1 : \E x \in S : rank[x] = k
  <2> HIDE DEF rank
  <2> QED  BY <1>8 DEF Surjection
<1>10. \A x, y \in S : rank[x] < rank[y] => x \in before[y]
  <2> HIDE DEF rank
  <2> QED  BY <1>2, <1>4
<1> QED  BY <1>1, <1>3, <1>4, <1>9, <1>10

(* What is numbered so comes in that order. *)
LEMMA Numbered ==
    ASSUME NEW S, IsFiniteSet(S), NEW before, TotalOrder(S, before), NEW of, NEW numbered,
           Numbering(numbered, S, before, of)
    PROVE  \E q : /\ InTurn(q, S, before)
                  /\ ByNumber(numbered) = [k \in 1 .. Cardinality(S) |-> of[q[k]]]
<1> DEFINE n == Cardinality(S)
           rank == [x \in S |-> Cardinality(before[x])]
<1>1. /\ n \in Nat
      /\ \A x \in S : rank[x] \in 0 .. n - 1
      /\ \A x, y \in S : x \in before[y] <=> rank[x] < rank[y]
      /\ \A k \in 0 .. n - 1 : \E x \in S : rank[x] = k
  BY Ranks
<1>0. /\ \A x \in S : <<rank[x], of[x]>> \in numbered
      /\ \A p \in numbered : \E x \in S : p = <<rank[x], of[x]>>
  BY DEF Numbering
<1>a. rank \in [S -> 0 .. n - 1]
  <2> HIDE DEF n
  <2> QED  BY <1>1
<1> HIDE DEF rank, n
<1>2. \A x, y \in S : rank[x] = rank[y] => x = y
  BY <1>1, <1>a DEF TotalOrder
<1>3. Cardinality(numbered) = n
  <2> DEFINE f == [x \in S |-> <<rank[x], of[x]>>]
  <2>1. f \in Bijection(S, numbered)
    BY <1>0, <1>2 DEF Bijection, Injection, Surjection, IsInjective
  <2>2. ExistsBijection(S, numbered)
    BY <2>1 DEF ExistsBijection
  <2> QED  BY <2>2, FS_Bijection DEF n
<1> DEFINE q == [k \in 1 .. n |-> CHOOSE x \in S : rank[x] = k - 1]
<1>4. \A k \in 1 .. n : q[k] \in S /\ rank[q[k]] = k - 1
  <2> SUFFICES ASSUME NEW k \in 1 .. n PROVE q[k] \in S /\ rank[q[k]] = k - 1
    OBVIOUS
  <2>1. k - 1 \in 0 .. n - 1
    BY <1>1
  <2> QED  BY <1>1, <2>1
<1>5. ASSUME NEW k \in 1 .. n
      PROVE  (CHOOSE p \in numbered : p[1] = k - 1)[2] = of[q[k]]
  <2> DEFINE p0 == <<rank[q[k]], of[q[k]]>>
             chosen == CHOOSE p \in numbered : p[1] = k - 1
  <2>1. p0 \in numbered /\ p0[1] = k - 1
    BY <1>0, <1>4
  <2>2. \A p \in numbered : p[1] = k - 1 => p = p0
    BY <1>0, <1>2, <1>4
  <2>3. p0[2] = of[q[k]]
    OBVIOUS
  <2>4. chosen = p0
    <3> HIDE DEF p0
    <3> QED  BY <2>1, <2>2
  <2> QED  BY <2>3, <2>4
<1>6. ByNumber(numbered) = [k \in 1 .. n |-> of[q[k]]]
  <2>1. ByNumber(numbered) =
            [k \in 1 .. n |-> (CHOOSE p \in numbered : p[1] = k - 1)[2]]
    BY <1>3 DEF ByNumber
  <2> HIDE DEF q
  <2> QED  BY <1>5, <2>1
<1>7. \A i, j \in 1 .. n : i < j <=> q[i] \in before[q[j]]
  <2> SUFFICES ASSUME NEW i \in 1 .. n, NEW j \in 1 .. n PROVE i < j <=> q[i] \in before[q[j]]
    OBVIOUS
  <2>1. i < j <=> rank[q[i]] < rank[q[j]]
    BY <1>1, <1>4
  <2> QED  BY <1>1, <1>4, <2>1
<1>8. \A x \in S : \E k \in 1 .. n : q[k] = x
  <2> SUFFICES ASSUME NEW x \in S PROVE \E k \in 1 .. n : q[k] = x
    OBVIOUS
  <2>1. PICK k \in 1 .. n : k - 1 = rank[x]
    <3>1. rank[x] + 1 \in 1 .. n /\ (rank[x] + 1) - 1 = rank[x]
      BY <1>1, <1>a
    <3> QED  BY <3>1
  <2> HIDE DEF q
  <2>2. q[k] \in S /\ rank[q[k]] = rank[x]
    BY <1>4, <2>1
  <2> QED  BY <1>2, <2>2
<1>9. q \in [1 .. n -> S]
  BY <1>4
<1> HIDE DEF q
<1> QED  BY <1>6, <1>7, <1>8, <1>9 DEF n, InTurn

-----------------------------------------------------------------------------
(* Keys. *)

OrderedBy(K) ==
    /\ \A a \in K : ~KeyLess(a, a)
    /\ \A a, b \in K : a = b \/ KeyLess(a, b) \/ KeyLess(b, a)
    /\ \A a, b, c \in K : KeyLess(a, b) /\ KeyLess(b, c) => KeyLess(a, c)

LEMMA LessOfTwo ==
    ASSUME NEW a \in Nat, NEW b \in Nat, NEW x \in Nat, NEW y \in Nat
    PROVE  KeyLess(<<a, b>>, <<x, y>>) <=> a < x \/ (a = x /\ b < y)
<1>1. DOMAIN <<a, b>> = {1, 2} /\ 1 .. 1 - 1 = {} /\ 1 .. 2 - 1 = {1}
  OBVIOUS
<1> QED  BY <1>1 DEF KeyLess

LEMMA LessOfThree ==
    ASSUME NEW a \in Nat, NEW b \in Nat, NEW c \in Nat, NEW x \in Nat, NEW y \in Nat, NEW z \in Nat
    PROVE  KeyLess(<<a, b, c>>, <<x, y, z>>) <=>
                a < x \/ (a = x /\ (b < y \/ (b = y /\ c < z)))
<1>1. /\ DOMAIN <<a, b, c>> = {1, 2, 3}
      /\ 1 .. 1 - 1 = {} /\ 1 .. 2 - 1 = {1} /\ 1 .. 3 - 1 = {1, 2}
  OBVIOUS
<1> QED  BY <1>1 DEF KeyLess

LEMMA LessOfFour ==
    ASSUME NEW a \in Nat, NEW b \in Nat, NEW c \in Nat, NEW d \in Nat,
           NEW x \in Nat, NEW y \in Nat, NEW z \in Nat, NEW w \in Nat
    PROVE  KeyLess(<<a, b, c, d>>, <<x, y, z, w>>) <=>
                a < x \/ (a = x /\ (b < y \/ (b = y /\ (c < z \/ (c = z /\ d < w)))))
<1>1. /\ DOMAIN <<a, b, c, d>> = {1, 2, 3, 4}
      /\ 1 .. 1 - 1 = {} /\ 1 .. 2 - 1 = {1} /\ 1 .. 3 - 1 = {1, 2} /\ 1 .. 4 - 1 = {1, 2, 3}
  OBVIOUS
<1> QED  BY <1>1 DEF KeyLess

Three == Nat \X Nat \X Nat
Four == Nat \X Nat \X Nat \X Nat

LEMMA ThreeOrdered == OrderedBy(Three)
<1>1. \A a \in Three : ~KeyLess(a, a)
  BY LessOfThree DEF Three
<1>2. \A a, b \in Three : a = b \/ KeyLess(a, b) \/ KeyLess(b, a)
  BY LessOfThree DEF Three
<1>3. \A a, b, c \in Three : KeyLess(a, b) /\ KeyLess(b, c) => KeyLess(a, c)
  BY LessOfThree DEF Three
<1> QED  BY <1>1, <1>2, <1>3 DEF OrderedBy

LEMMA FourOrdered == OrderedBy(Four)
<1>1. \A a \in Four : ~KeyLess(a, a)
  BY LessOfFour DEF Four
<1>0. \A a \in Four :
        /\ a[1] \in Nat /\ a[2] \in Nat /\ a[3] \in Nat /\ a[4] \in Nat
        /\ a = <<a[1], a[2], a[3], a[4]>>
  BY DEF Four
<1>a. \A a, b \in Four :
        KeyLess(a, b) <=>
            a[1] < b[1] \/ (a[1] = b[1] /\ (a[2] < b[2] \/ (a[2] = b[2]
                /\ (a[3] < b[3] \/ (a[3] = b[3] /\ a[4] < b[4])))))
  <2> SUFFICES ASSUME NEW a \in Four, NEW b \in Four
               PROVE  KeyLess(<<a[1], a[2], a[3], a[4]>>, <<b[1], b[2], b[3], b[4]>>) <=>
                        a[1] < b[1] \/ (a[1] = b[1] /\ (a[2] < b[2] \/ (a[2] = b[2]
                            /\ (a[3] < b[3] \/ (a[3] = b[3] /\ a[4] < b[4])))))
    BY <1>0
  <2> QED  BY <1>0, LessOfFour
<1>2. ASSUME NEW a \in Four, NEW b \in Four, ~KeyLess(a, b), ~KeyLess(b, a) PROVE a = b
  <2>1. a[1] = b[1] /\ a[2] = b[2] /\ a[3] = b[3] /\ a[4] = b[4]
    BY <1>0, <1>a, <1>2
  <2> QED  BY <1>0, <2>1
<1>3. \A a, b, c \in Four : KeyLess(a, b) /\ KeyLess(b, c) => KeyLess(a, c)
  BY <1>0, <1>a
<1> QED  BY <1>1, <1>2, <1>3 DEF OrderedBy

-----------------------------------------------------------------------------
(* Sequences. *)

(* The elements of s at the places that q gives. *)
Through(s, q, n) == [k \in 1 .. n |-> s[q[k]]]

(* q takes the numbers from one on to some places, in their order. *)
Upwards(q, places) ==
    /\ q \in [1 .. Cardinality(places) -> places]
    /\ \A i, j \in 1 .. Cardinality(places) : i < j <=> q[i] < q[j]
    /\ \A x \in places : \E k \in 1 .. Cardinality(places) : q[k] = x

(* q takes the numbers up to n to themselves, in the order of keys. *)
ByKeys(q, key, n) ==
    /\ q \in [1 .. n -> 1 .. n]
    /\ \A i, j \in 1 .. n : i < j => q[i] # q[j] /\ ~KeyLess(key[q[j]], key[q[i]])
    /\ \A x \in 1 .. n : \E k \in 1 .. n : q[k] = x

(* What is picked comes in its order, each place once. *)
LEMMA PickIs ==
    ASSUME NEW s, NEW n \in Nat, NEW places \in SUBSET (1 .. n)
    PROVE  /\ Cardinality(places) \in Nat
           /\ \E q : /\ Upwards(q, places)
                    /\ Pick(s, places) = Through(s, q, Cardinality(places))
<1> DEFINE before == [i \in places |-> {j \in places : j < i}]
           numbered == {<<Cardinality({j \in places : j < i}), s[i]>> : i \in places}
<1>1. IsFiniteSet(places) /\ Cardinality(places) \in Nat
  <2>1. IsFiniteSet(1 .. n)
    BY FS_Interval
  <2>2. IsFiniteSet(places)
    BY <2>1, FS_Subset
  <2> QED  BY <2>2, FS_CardinalityType
<1>2. \A i \in places : i \in Nat
  OBVIOUS
<1>3. /\ before \in [places -> SUBSET places]
      /\ \A i, j \in places : i \in before[j] <=> i < j
  OBVIOUS
<1>4. TotalOrder(places, before)
  <2> HIDE DEF before
  <2>1. \A i \in places : i \notin before[i]
    BY <1>2, <1>3
  <2>2. \A i, j \in places : i = j \/ i \in before[j] \/ j \in before[i]
    BY <1>2, <1>3
  <2>3. ASSUME NEW i \in places, NEW j \in places, i \in before[j], NEW k \in before[i]
        PROVE  k \in before[j]
    <3>1. k \in places
      BY <1>3
    <3> QED  BY <1>2, <1>3, <2>3, <3>1
  <2> QED  BY <1>3, <2>1, <2>2, <2>3 DEF TotalOrder
<1>5. Numbering(numbered, places, before, s)
  BY DEF Numbering
<1>6. Pick(s, places) = ByNumber(numbered)
  BY DEF Pick
<1> HIDE DEF before, numbered
<1>7. PICK q : /\ InTurn(q, places, before)
               /\ ByNumber(numbered) = [k \in 1 .. Cardinality(places) |-> s[q[k]]]
  BY <1>1, <1>4, <1>5, Numbered
<1>8. \A i, j \in 1 .. Cardinality(places) : i < j <=> q[i] < q[j]
  BY <1>3, <1>7 DEF InTurn
<1> QED  BY <1>1, <1>6, <1>7, <1>8 DEF InTurn, Upwards, Through

(* A sorted sequence has the places of the sequence, each once, in the     *)
(* order of their keys.                                                    *)
LEMMA SortedIs ==
    ASSUME NEW s, NEW n \in Nat, DOMAIN s = 1 .. n, NEW key, NEW K, OrderedBy(K),
           \A i \in 1 .. n : key[i] \in K
    PROVE  \E q : ByKeys(q, key, n) /\ Sorted(s, key) = Through(s, q, n)
<1> DEFINE S == 1 .. n
           ahead(i) == {j \in S : KeyLess(key[j], key[i]) \/ (key[j] = key[i] /\ j < i)}
           before == [i \in S |-> ahead(i)]
           numbered == {<<Cardinality(ahead(i)), s[i]>> : i \in S}
<1>1. IsFiniteSet(S) /\ Cardinality(S) = n
  BY FS_Interval
<1>2. Sorted(s, key) = ByNumber(numbered)
  BY DEF Sorted
<1>3. /\ before \in [S -> SUBSET S]
      /\ \A i, j \in S :
            j \in before[i] <=> KeyLess(key[j], key[i]) \/ (key[j] = key[i] /\ j < i)
  OBVIOUS
<1>4. \A i \in S : i \in Nat /\ key[i] \in K
  OBVIOUS
<1>5. Numbering(numbered, S, before, s)
  BY DEF Numbering
<1> HIDE DEF S, before, numbered
<1>6. TotalOrder(S, before)
  <2>1. \A i \in S : i \notin before[i]
    BY <1>3, <1>4 DEF OrderedBy
  <2>2. \A i, j \in S : i = j \/ i \in before[j] \/ j \in before[i]
    BY <1>3, <1>4 DEF OrderedBy
  <2>3. ASSUME NEW i \in S, NEW j \in S, NEW k \in S, i \in before[j], k \in before[i]
        PROVE  k \in before[j]
    <3>1. /\ KeyLess(key[i], key[j]) \/ (key[i] = key[j] /\ i < j)
          /\ KeyLess(key[k], key[i]) \/ (key[k] = key[i] /\ k < i)
      BY <1>3, <2>3
    <3>2. KeyLess(key[k], key[j]) \/ (key[k] = key[j] /\ k < j)
      BY <1>4, <3>1 DEF OrderedBy
    <3> QED  BY <1>3, <3>2
  <2>4. \A i, j \in S : i \in before[j] => before[i] \subseteq before[j]
    BY <1>3, <2>3
  <2> QED  BY <1>3, <2>1, <2>2, <2>4 DEF TotalOrder
<1>7. PICK q : /\ InTurn(q, S, before)
               /\ ByNumber(numbered) = [k \in 1 .. n |-> s[q[k]]]
  BY <1>1, <1>5, <1>6, Numbered
<1>8. q \in [1 .. n -> S]
  BY <1>1, <1>7 DEF InTurn
<1>9. ASSUME NEW i \in 1 .. n, NEW j \in 1 .. n, i < j
      PROVE  q[i] # q[j] /\ ~KeyLess(key[q[j]], key[q[i]])
  <2>1. q[i] \in S /\ q[j] \in S /\ q[i] \in before[q[j]]
    BY <1>1, <1>7, <1>9 DEF InTurn
  <2>2. q[i] # q[j]
    BY <1>6, <2>1 DEF TotalOrder
  <2>3. ASSUME KeyLess(key[q[j]], key[q[i]]) PROVE FALSE
    <3>1. q[j] \in before[q[i]]
      BY <1>3, <2>1, <2>3
    <3> QED  BY <1>6, <2>1, <3>1 DEF TotalOrder
  <2> QED  BY <2>2, <2>3
<1>10. \A x \in S : \E k \in 1 .. n : q[k] = x
  BY <1>1, <1>7 DEF InTurn
<1>11. ByKeys(q, key, n)
  BY <1>8, <1>9, <1>10 DEF S, ByKeys
<1> QED  BY <1>2, <1>7, <1>11 DEF Through

(* The first of equals is among the places that repeat no earlier one. *)
LEMMA FirstsCover ==
    ASSUME NEW s, NEW n \in Nat, DOMAIN s = 1 .. n
    PROVE  /\ Firsts(s) \in SUBSET (1 .. n)
           /\ \A i \in 1 .. n : \E j \in Firsts(s) : s[j] = s[i]
           /\ \A i, j \in Firsts(s) : i < j => s[i] # s[j]
<1>1. ASSUME NEW i \in 1 .. n PROVE \E j \in Firsts(s) : s[j] = s[i]
  <2> DEFINE T == {j \in 1 .. n : s[j] = s[i]}
  <2>1. T \in SUBSET Nat /\ T # {}
    BY <1>1
  <2>2. PICK j \in T : \A k \in T : j <= k
    BY <2>1, Least
  <2>3. \A k \in 1 .. j - 1 : s[k] # s[j]
    <3> SUFFICES ASSUME NEW k \in 1 .. j - 1, s[k] = s[j] PROVE FALSE
      OBVIOUS
    <3>1. k \in T /\ k < j
      BY <2>2
    <3> QED  BY <2>1, <2>2, <3>1
  <2> QED  BY <2>2, <2>3 DEF Firsts
<1>2. ASSUME NEW i \in Firsts(s), NEW j \in Firsts(s), i < j PROVE s[i] # s[j]
  <2>1. i \in 1 .. j - 1
    BY <1>2 DEF Firsts
  <2> QED  BY <2>1 DEF Firsts
<1> QED  BY <1>1, <1>2 DEF Firsts

(* s holds each member of E once, by growing keys. *)
InKeyOrder(s, E, key) ==
    \E n \in Nat :
        /\ s \in [1 .. n -> E]
        /\ \A x \in E : \E k \in 1 .. n : s[k] = x
        /\ \A i, j \in 1 .. n : i < j => KeyLess(key[s[i]], key[s[j]])

(* Where two of them part, the next of the one is later in the other. *)
LEMMA PartingNext ==
    ASSUME NEW E, NEW key, NEW K, OrderedBy(K), \A x \in E : key[x] \in K,
           NEW n \in Nat, NEW a \in [1 .. n -> E],
           \A i, j \in 1 .. n : i < j => KeyLess(key[a[i]], key[a[j]]),
           NEW m \in Nat, NEW b \in [1 .. m -> E],
           \A x \in E : \E k \in 1 .. m : b[k] = x,
           \A i, j \in 1 .. m : i < j => KeyLess(key[b[i]], key[b[j]]),
           NEW k \in 1 .. n, k \in 1 .. m, a[k] # b[k],
           \A i \in 1 .. k - 1 : a[i] = b[i]
    PROVE  KeyLess(key[b[k]], key[a[k]])
<1>1. PICK j \in 1 .. m : b[j] = a[k]
  OBVIOUS
<1>2. j # k
  BY <1>1
<1>3. ~(j < k)
  <2> SUFFICES ASSUME j < k PROVE FALSE
    OBVIOUS
  <2>1. j \in 1 .. k - 1 /\ j \in 1 .. n
    OBVIOUS
  <2>2. a[j] = a[k] /\ KeyLess(key[a[j]], key[a[k]])
    BY <1>1, <2>1
  <2> QED  BY <2>2 DEF OrderedBy
<1>4. k < j
  BY <1>2, <1>3
<1> QED  BY <1>1, <1>4

(* There is one such sequence of each set. *)
LEMMA OneOrder ==
    ASSUME NEW E, NEW key, NEW K, OrderedBy(K), \A x \in E : key[x] \in K,
           NEW a, InKeyOrder(a, E, key), NEW b, InKeyOrder(b, E, key)
    PROVE  a = b
<1>1. PICK n \in Nat :
        /\ a \in [1 .. n -> E]
        /\ \A x \in E : \E k \in 1 .. n : a[k] = x
        /\ \A i, j \in 1 .. n : i < j => KeyLess(key[a[i]], key[a[j]])
  BY DEF InKeyOrder
<1>2. PICK m \in Nat :
        /\ b \in [1 .. m -> E]
        /\ \A x \in E : \E k \in 1 .. m : b[k] = x
        /\ \A i, j \in 1 .. m : i < j => KeyLess(key[b[i]], key[b[j]])
  BY DEF InKeyOrder
<1> DEFINE T == {k \in 1 .. n : k \in 1 .. m /\ a[k] # b[k]}
<1>3. T = {}
  <2> SUFFICES ASSUME T # {} PROVE FALSE
    OBVIOUS
  <2>1. T \in SUBSET Nat
    OBVIOUS
  <2>2. PICK k \in T : \A i \in T : k <= i
    BY <2>1, Least
  <2>3. \A i \in 1 .. k - 1 : a[i] = b[i]
    <3> SUFFICES ASSUME NEW i \in 1 .. k - 1, a[i] # b[i] PROVE FALSE
      OBVIOUS
    <3>1. i \in T /\ i < k
      BY <2>2
    <3> QED  BY <2>1, <2>2, <3>1
  <2>4. KeyLess(key[b[k]], key[a[k]])
    BY <1>1, <1>2, <2>2, <2>3, PartingNext
  <2>5. KeyLess(key[a[k]], key[b[k]])
    BY <1>1, <1>2, <2>2, <2>3, PartingNext
  <2>6. key[a[k]] \in K /\ key[b[k]] \in K
    BY <1>1, <1>2
  <2> QED  BY <2>4, <2>5, <2>6 DEF OrderedBy
<1>4. ~(n < m)
  <2> SUFFICES ASSUME n < m PROVE FALSE
    OBVIOUS
  <2>1. n + 1 \in 1 .. m
    OBVIOUS
  <2>2. PICK j \in 1 .. n : a[j] = b[n + 1]
    BY <1>1, <1>2, <2>1
  <2>3. j \in 1 .. m /\ j < n + 1 /\ b[j] = a[j]
    BY <1>3
  <2>4. KeyLess(key[b[j]], key[b[n + 1]])
    BY <1>2, <2>1, <2>3
  <2> QED  BY <1>1, <2>2, <2>3, <2>4 DEF OrderedBy
<1>5. ~(m < n)
  <2> SUFFICES ASSUME m < n PROVE FALSE
    OBVIOUS
  <2>1. m + 1 \in 1 .. n
    OBVIOUS
  <2>2. PICK j \in 1 .. m : b[j] = a[m + 1]
    BY <1>1, <1>2, <2>1
  <2>3. j \in 1 .. n /\ j < m + 1 /\ b[j] = a[j]
    BY <1>3
  <2>4. KeyLess(key[a[j]], key[a[m + 1]])
    BY <1>1, <2>1, <2>3
  <2> QED  BY <1>2, <2>2, <2>3, <2>4 DEF OrderedBy
<1>6. n = m
  BY <1>4, <1>5
<1>7. \A k \in 1 .. n : a[k] = b[k]
  BY <1>3, <1>6
<1> QED  BY <1>1, <1>2, <1>6, <1>7

-----------------------------------------------------------------------------
(* The records of a log. *)

EventsIn(l) == ToSet(l) \cap Event
CorrectionsIn(l) == ToSet(l) \cap Correction
EventKeys == [e \in Event |-> EventKey(e)]
CorrectionKeys == [c \in Correction |-> CorrectionKey(c)]

LEMMA Kinds ==
    ASSUME NEW r \in Record
    PROVE  /\ IsCorrection(r) <=> r \in Correction
           /\ ~IsCorrection(r) <=> r \in Event
BY FoldRecords DEF Record, IsCorrection

LEMMA EventKeysDiffer ==
    /\ \A e \in Event : EventKeys[e] = EventKey(e) /\ EventKeys[e] \in Three
    /\ \A e, f \in Event : EventKeys[e] = EventKeys[f] => e = f
BY FoldRecords DEF EventKeys, EventKey, Three

LEMMA CorrectionKeysDiffer ==
    /\ \A c \in Correction : CorrectionKeys[c] = CorrectionKey(c) /\ CorrectionKeys[c] \in Three
    /\ \A c, d \in Correction : CorrectionKeys[c] = CorrectionKeys[d] => c = d
BY FoldRecords DEF CorrectionKeys, CorrectionKey, Three

(* The events of a log, each once, in the order of the match. *)
LEMMA EventsInOrder ==
    ASSUME NEW l \in Seq(Record)
    PROVE  InKeyOrder(Ordered(l), EventsIn(l), EventKeys)
<1> DEFINE n == Len(l)
           I == {i \in Firsts(l) : ~IsCorrection(l[i])}
           ev == Events(l)
           s == Ordered(l)
<1>1. n \in Nat /\ DOMAIN l = 1 .. n /\ \A i \in 1 .. n : l[i] \in Record
  OBVIOUS
<1>2. /\ Firsts(l) \in SUBSET (1 .. n)
      /\ \A i \in 1 .. n : \E j \in Firsts(l) : l[j] = l[i]
      /\ \A i, j \in Firsts(l) : i < j => l[i] # l[j]
  BY <1>1, FirstsCover
<1>3. I \in SUBSET (1 .. n)
  BY <1>2
<1>4. ev = Pick(l, I)
  BY DEF Events
<1> DEFINE m == Cardinality(I)
<1> HIDE DEF n, I, ev
<1>a. m \in Nat
  BY <1>1, <1>3, PickIs
<1>c. PICK q : Upwards(q, I) /\ ev = Through(l, q, m)
  BY <1>1, <1>3, <1>4, PickIs
<1>5. /\ q \in [1 .. m -> I]
      /\ ev = [k \in 1 .. m |-> l[q[k]]]
      /\ \A i, j \in 1 .. m : i < j <=> q[i] < q[j]
      /\ \A x \in I : \E k \in 1 .. m : q[k] = x
  BY <1>c DEF Upwards, Through
<1> HIDE DEF m
<1> USE DEF I
<1>6. \A k \in 1 .. m : ev[k] \in EventsIn(l)
  <2> SUFFICES ASSUME NEW k \in 1 .. m PROVE l[q[k]] \in EventsIn(l)
    BY <1>5
  <2>1. q[k] \in 1 .. n /\ ~IsCorrection(l[q[k]])
    BY <1>3, <1>5
  <2> QED  BY <1>1, <2>1, Kinds DEF EventsIn, ToSet
<1>7. \A x \in EventsIn(l) : \E k \in 1 .. m : ev[k] = x
  <2> SUFFICES ASSUME NEW x \in EventsIn(l) PROVE \E k \in 1 .. m : ev[k] = x
    OBVIOUS
  <2>1. PICK i \in 1 .. n : l[i] = x
    BY <1>1 DEF EventsIn, ToSet
  <2>2. PICK j \in Firsts(l) : l[j] = x
    BY <1>2, <2>1
  <2>3. ~IsCorrection(x)
    BY Kinds DEF EventsIn, Record
  <2>4. j \in I
    BY <2>2, <2>3
  <2> QED  BY <1>5, <2>2, <2>4
<1>8. \A i, j \in 1 .. m : i # j => ev[i] # ev[j]
  <2>1. \A i, j \in 1 .. m : i < j => ev[i] # ev[j]
    <3> SUFFICES ASSUME NEW i \in 1 .. m, NEW j \in 1 .. m, i < j PROVE l[q[i]] # l[q[j]]
      BY <1>5
    <3>1. q[i] \in Firsts(l) /\ q[j] \in Firsts(l) /\ q[i] < q[j]
      BY <1>5
    <3> QED  BY <1>2, <3>1
  <2>2. \A i, j \in 1 .. m : i # j => i < j \/ j < i
    BY <1>5
  <2> QED  BY <2>1, <2>2
<1> HIDE DEF I
<1>9. DOMAIN ev = 1 .. m
  BY <1>5
<1> DEFINE key == [i \in DOMAIN ev |-> EventKey(ev[i])]
<1>10. \A i \in 1 .. m : key[i] = EventKeys[ev[i]] /\ key[i] \in Three
  BY <1>6, <1>9, EventKeysDiffer DEF EventsIn
<1>b. \A i \in 1 .. m : key[i] \in Three
  BY <1>10
<1>11. s = Sorted(ev, key)
  BY DEF Ordered, SortedCanonically, ev
<1> HIDE DEF key, s
<1>d. PICK p : ByKeys(p, key, m) /\ s = Through(ev, p, m)
  BY <1>a, <1>b, <1>9, <1>11, ThreeOrdered, SortedIs
<1>12. /\ p \in [1 .. m -> 1 .. m]
       /\ s = [k \in 1 .. m |-> ev[p[k]]]
       /\ \A i, j \in 1 .. m : i < j => p[i] # p[j] /\ ~KeyLess(key[p[j]], key[p[i]])
       /\ \A x \in 1 .. m : \E k \in 1 .. m : p[k] = x
  BY <1>d DEF ByKeys, Through
<1>13. s \in [1 .. m -> EventsIn(l)]
  BY <1>6, <1>12
<1>14. \A x \in EventsIn(l) : \E k \in 1 .. m : s[k] = x
  <2> SUFFICES ASSUME NEW x \in EventsIn(l) PROVE \E k \in 1 .. m : s[k] = x
    OBVIOUS
  <2>1. PICK i \in 1 .. m : ev[i] = x
    BY <1>7
  <2>2. PICK k \in 1 .. m : p[k] = i
    BY <1>12
  <2> QED  BY <1>12, <2>1, <2>2
<1>15. \A i, j \in 1 .. m : i < j => KeyLess(EventKeys[s[i]], EventKeys[s[j]])
  <2> SUFFICES ASSUME NEW i \in 1 .. m, NEW j \in 1 .. m, i < j
               PROVE  KeyLess(EventKeys[s[i]], EventKeys[s[j]])
    OBVIOUS
  <2>1. /\ p[i] \in 1 .. m /\ p[j] \in 1 .. m /\ p[i] # p[j]
        /\ ~KeyLess(key[p[j]], key[p[i]])
        /\ s[i] = ev[p[i]] /\ s[j] = ev[p[j]]
    BY <1>12
  <2>2. ev[p[i]] # ev[p[j]] /\ ev[p[i]] \in Event /\ ev[p[j]] \in Event
    BY <1>6, <1>8, <2>1 DEF EventsIn
  <2>3. key[p[i]] # key[p[j]] /\ key[p[i]] \in Three /\ key[p[j]] \in Three
    BY <1>10, <2>1, <2>2, EventKeysDiffer
  <2>4. KeyLess(key[p[i]], key[p[j]])
    BY <2>1, <2>3, ThreeOrdered DEF OrderedBy
  <2> QED  BY <1>10, <2>1, <2>4
<1> QED  BY <1>a, <1>13, <1>14, <1>15 DEF InKeyOrder, s

(* The decisions of a log, each once, in the order in which they were made. *)
LEMMA DecisionsInOrder ==
    ASSUME NEW l \in Seq(Record)
    PROVE  InKeyOrder(Deduplicated(InDecisionOrder(Corrections(l))), CorrectionsIn(l),
                      CorrectionKeys)
<1> DEFINE n == Len(l)
           I == {i \in DOMAIN l : IsCorrection(l[i])}
           cs == Corrections(l)
           s == InDecisionOrder(cs)
           ds == Deduplicated(s)
           m == Cardinality(I)
<1>1. n \in Nat /\ DOMAIN l = 1 .. n /\ \A i \in 1 .. n : l[i] \in Record
  OBVIOUS
<1>2. I \in SUBSET (1 .. n)
  BY <1>1
<1>3. cs = Pick(l, I)
  BY DEF Corrections
<1>4. \A i \in I : l[i] \in CorrectionsIn(l)
  BY <1>1, Kinds DEF CorrectionsIn, ToSet
<1>5. \A x \in CorrectionsIn(l) : \E i \in I : l[i] = x
  BY Kinds DEF CorrectionsIn, ToSet, Record
<1> HIDE DEF n, I, cs
<1>6. m \in Nat
  BY <1>1, <1>2, PickIs
<1>7. PICK q : Upwards(q, I) /\ cs = Through(l, q, m)
  BY <1>1, <1>2, <1>3, PickIs
<1> HIDE DEF m
<1>8. /\ DOMAIN cs = 1 .. m
      /\ \A k \in 1 .. m : cs[k] \in CorrectionsIn(l)
      /\ \A x \in CorrectionsIn(l) : \E k \in 1 .. m : cs[k] = x
  <2>1. DOMAIN cs = 1 .. m /\ \A k \in 1 .. m : q[k] \in I /\ cs[k] = l[q[k]]
    BY <1>7 DEF Upwards, Through, m
  <2>2. \A i \in I : \E k \in 1 .. m : q[k] = i
    BY <1>7 DEF Upwards, m
  <2> QED  BY <1>4, <1>5, <2>1, <2>2
<1> DEFINE key == [i \in DOMAIN cs |-> CorrectionKey(cs[i])]
<1>9. /\ \A i \in 1 .. m : key[i] = CorrectionKeys[cs[i]]
      /\ \A i \in 1 .. m : key[i] \in Three
  BY <1>8, CorrectionKeysDiffer DEF CorrectionsIn
<1>10. s = Sorted(cs, key)
  BY DEF InDecisionOrder
<1> HIDE DEF key, s
<1>11. PICK p : ByKeys(p, key, m) /\ s = Through(cs, p, m)
  BY <1>6, <1>8, <1>9, <1>10, ThreeOrdered, SortedIs
<1>12. /\ DOMAIN s = 1 .. m
       /\ \A k \in 1 .. m : p[k] \in 1 .. m /\ s[k] = cs[p[k]]
       /\ \A k \in 1 .. m : s[k] \in CorrectionsIn(l)
       /\ \A x \in CorrectionsIn(l) : \E k \in 1 .. m : s[k] = x
  <2>1. DOMAIN s = 1 .. m /\ \A k \in 1 .. m : p[k] \in 1 .. m /\ s[k] = cs[p[k]]
    BY <1>11 DEF ByKeys, Through
  <2>2. \A i \in 1 .. m : \E k \in 1 .. m : p[k] = i
    BY <1>11 DEF ByKeys
  <2>3. \A k \in 1 .. m : s[k] \in CorrectionsIn(l)
    BY <1>8, <2>1
  <2>4. ASSUME NEW x \in CorrectionsIn(l) PROVE \E k \in 1 .. m : s[k] = x
    <3>1. PICK i \in 1 .. m : cs[i] = x
      BY <1>8
    <3>2. PICK k \in 1 .. m : p[k] = i
      BY <2>2
    <3> QED  BY <2>1, <3>1, <3>2
  <2> QED  BY <2>1, <2>3, <2>4
<1>13. ASSUME NEW i \in 1 .. m, NEW j \in 1 .. m, i < j
       PROVE  ~KeyLess(CorrectionKeys[s[j]], CorrectionKeys[s[i]])
  <2>1. ~KeyLess(key[p[j]], key[p[i]])
    BY <1>11, <1>13 DEF ByKeys
  <2> QED  BY <1>9, <1>12, <2>1
<1> DEFINE F == Firsts(s)
           r == Cardinality(F)
<1>14. /\ F \in SUBSET (1 .. m)
       /\ \A i \in 1 .. m : \E j \in F : s[j] = s[i]
       /\ \A i, j \in F : i < j => s[i] # s[j]
  BY <1>6, <1>12, FirstsCover
<1>15. ds = Pick(s, F)
  BY DEF Deduplicated
<1> HIDE DEF F, ds
<1>16. r \in Nat
  BY <1>6, <1>14, PickIs
<1>17. PICK u : Upwards(u, F) /\ ds = Through(s, u, r)
  BY <1>6, <1>14, <1>15, PickIs
<1> HIDE DEF r
<1>18. /\ \A k \in 1 .. r : u[k] \in F /\ u[k] \in 1 .. m /\ ds[k] = s[u[k]]
       /\ DOMAIN ds = 1 .. r
       /\ \A i \in F : \E k \in 1 .. r : u[k] = i
       /\ \A i, j \in 1 .. r : i < j => u[i] < u[j]
       /\ ds = [k \in 1 .. r |-> s[u[k]]]
  BY <1>14, <1>17 DEF Upwards, Through, r
<1>19. ds \in [1 .. r -> CorrectionsIn(l)]
  BY <1>12, <1>18
<1>20. \A x \in CorrectionsIn(l) : \E k \in 1 .. r : ds[k] = x
  <2> SUFFICES ASSUME NEW x \in CorrectionsIn(l) PROVE \E k \in 1 .. r : ds[k] = x
    OBVIOUS
  <2>1. PICK i \in 1 .. m : s[i] = x
    BY <1>12
  <2>2. PICK j \in F : s[j] = x
    BY <1>14, <2>1
  <2> QED  BY <1>18, <2>2
<1>21. ASSUME NEW i \in 1 .. r, NEW j \in 1 .. r, i < j
       PROVE  KeyLess(CorrectionKeys[ds[i]], CorrectionKeys[ds[j]])
  <2>1. /\ u[i] \in F /\ u[j] \in F /\ u[i] \in 1 .. m /\ u[j] \in 1 .. m /\ u[i] < u[j]
        /\ ds[i] = s[u[i]] /\ ds[j] = s[u[j]]
    BY <1>18, <1>21
  <2>2. ds[i] # ds[j] /\ ~KeyLess(CorrectionKeys[ds[j]], CorrectionKeys[ds[i]])
    BY <1>13, <1>14, <2>1
  <2>3. ds[i] \in Correction /\ ds[j] \in Correction
    BY <1>19 DEF CorrectionsIn
  <2> QED  BY <2>2, <2>3, CorrectionKeysDiffer, ThreeOrdered DEF OrderedBy
<1>22. InKeyOrder(ds, CorrectionsIn(l), CorrectionKeys)
  BY <1>16, <1>19, <1>20, <1>21 DEF InKeyOrder
<1> QED  BY <1>22 DEF ds, s, cs

(* Logs with the same records have the same events and the same decisions, *)
(* in the same order.                                                      *)
LEMMA SameOrder ==
    ASSUME NEW l \in Seq(Record), NEW k \in Seq(Record), ToSet(l) = ToSet(k)
    PROVE  /\ Ordered(l) = Ordered(k)
           /\ Deduplicated(InDecisionOrder(Corrections(l))) =
                  Deduplicated(InDecisionOrder(Corrections(k)))
<1>1. EventsIn(l) = EventsIn(k) /\ CorrectionsIn(l) = CorrectionsIn(k)
  BY DEF EventsIn, CorrectionsIn
<1>2. /\ \A e \in EventsIn(l) : EventKeys[e] \in Three
      /\ \A c \in CorrectionsIn(l) : CorrectionKeys[c] \in Three
  BY EventKeysDiffer, CorrectionKeysDiffer DEF EventsIn, CorrectionsIn
<1>3. /\ InKeyOrder(Ordered(l), EventsIn(l), EventKeys)
      /\ InKeyOrder(Ordered(k), EventsIn(l), EventKeys)
  BY <1>1, EventsInOrder
<1>4. /\ InKeyOrder(Deduplicated(InDecisionOrder(Corrections(l))), CorrectionsIn(l),
                    CorrectionKeys)
      /\ InKeyOrder(Deduplicated(InDecisionOrder(Corrections(k))), CorrectionsIn(l),
                    CorrectionKeys)
  BY <1>1, DecisionsInOrder
<1>5. Ordered(l) = Ordered(k)
  BY <1>2, <1>3, ThreeOrdered, OneOrder
<1>6. Deduplicated(InDecisionOrder(Corrections(l))) = Deduplicated(InDecisionOrder(Corrections(k)))
  BY <1>2, <1>4, ThreeOrdered, OneOrder
<1> QED  BY <1>5, <1>6

(* The version is one field of a state beside the others. *)
LEMMA VersionAside ==
    ASSUME NEW o, NEW v, NEW x, NEW y
    PROVE  /\ [StateOf(o, v, x) EXCEPT !.version = y] = StateOf(o, v, y)
           /\ StateOf(o, v, x).home = HomeOf(o)
           /\ StateOf(o, v, x).away = AwayOf(o)
           /\ StateOf(o, v, x).goals = GoalList(Amended(o, v), v, HomeOf(o), AwayOf(o))
<1> DEFINE read == Amended(o, v)
           clock == IF read = <<>> THEN <<0, 0>> ELSE <<Last(read).period, Last(read).minute>>
           out == {id \in DOMAIN v : v[id].disallowed}
<1>1. \A z : StateOf(o, v, z) =
        [home |-> HomeOf(o), away |-> AwayOf(o), clock |-> clock, status |-> StatusAfter(read),
         goals |-> GoalList(read, v, HomeOf(o), AwayOf(o)), cards |-> CardList(read, v),
         shootout |-> Shootout(read), superseded |-> out, version |-> z]
  BY ZenonT(30) DEF StateOf
<1> HIDE DEF clock, out
<1> QED  BY <1>1

(* So they have the same verdicts, and show the same. *)
LEMMA SameShown ==
    ASSUME NEW l \in Seq(Record), NEW k \in Seq(Record), ToSet(l) = ToSet(k)
    PROVE  Visible(l) = Visible(k) /\ Score(Project(l)) = Score(Project(k))
<1>1. Ordered(l) = Ordered(k) /\ Verdict(l) = Verdict(k)
  BY SameOrder DEF Verdict, Resolve
<1>2. Visible(l) = Visible(k)
  BY <1>1, VersionAside DEF Visible, Project
<1>3. Score(Project(l)) = Score(Project(k))
  <2>1. /\ Project(l).home = Project(k).home /\ Project(l).away = Project(k).away
        /\ Project(l).goals = Project(k).goals
    BY <1>1, VersionAside DEF Project
  <2> QED  BY <2>1 DEF Score, GoalsFor
<1> QED  BY <1>2, <1>3

(* What is picked of a log is a log of the records at those places. *)
LEMMA PickedLog ==
    ASSUME NEW l \in Seq(Record), NEW places \in SUBSET (DOMAIN l)
    PROVE  /\ Pick(l, places) \in Seq(Record)
           /\ ToSet(Pick(l, places)) = {l[i] : i \in places}
<1> DEFINE n == Len(l)
           m == Cardinality(places)
<1>1. n \in Nat /\ DOMAIN l = 1 .. n /\ \A i \in 1 .. n : l[i] \in Record
  OBVIOUS
<1> HIDE DEF n
<1>2. m \in Nat
  BY <1>1, PickIs
<1>3. PICK q : Upwards(q, places) /\ Pick(l, places) = Through(l, q, m)
  BY <1>1, PickIs
<1>4. /\ q \in [1 .. m -> places]
      /\ Pick(l, places) = [k \in 1 .. m |-> l[q[k]]]
      /\ \A x \in places : \E k \in 1 .. m : q[k] = x
  BY <1>3 DEF Upwards, Through
<1> HIDE DEF m
<1>5. \A k \in 1 .. m : l[q[k]] \in Record
  BY <1>1, <1>4
<1>6. Pick(l, places) \in Seq(Record)
  BY <1>2, <1>4, <1>5
<1>7. ToSet(Pick(l, places)) = {l[q[k]] : k \in 1 .. m}
  BY <1>4 DEF ToSet
<1>8. {l[q[k]] : k \in 1 .. m} = {l[i] : i \in places}
  BY <1>4
<1> QED  BY <1>6, <1>7, <1>8

(* Straightening a log keeps its records. *)
LEMMA StraightenedLog ==
    ASSUME NEW l \in Seq(Record)
    PROVE  Straightened(l) \in Seq(Record) /\ ToSet(Straightened(l)) = ToSet(l)
<1> DEFINE once == Deduplicated(l)
           key == [i \in DOMAIN once |->
                        IF IsCorrection(once[i])
                        THEN <<once[i].period, once[i].minute, 1, once[i].id>>
                        ELSE <<once[i].period, once[i].minute, 0, once[i].index>>]
           n == Len(once)
<1>1. /\ Firsts(l) \in SUBSET (DOMAIN l)
      /\ \A i \in DOMAIN l : \E j \in Firsts(l) : l[j] = l[i]
  <2>1. Len(l) \in Nat /\ DOMAIN l = 1 .. Len(l)
    OBVIOUS
  <2> QED  BY <2>1, FirstsCover
<1>2. once \in Seq(Record) /\ ToSet(once) = {l[i] : i \in Firsts(l)}
  BY <1>1, PickedLog DEF Deduplicated
<1>3. {l[i] : i \in Firsts(l)} = ToSet(l)
  BY <1>1 DEF ToSet
<1> HIDE DEF once
<1>4. n \in Nat /\ DOMAIN once = 1 .. n /\ \A i \in 1 .. n : once[i] \in Record
  BY <1>2
<1>5. \A i \in 1 .. n : key[i] \in Four
  <2> SUFFICES ASSUME NEW i \in 1 .. n PROVE key[i] \in Four
    OBVIOUS
  <2>1. once[i] \in Record
    BY <1>4
  <2>2. CASE IsCorrection(once[i])
    <3>1. once[i] \in Correction
      BY <2>1, <2>2, Kinds
    <3>2. key[i] = <<once[i].period, once[i].minute, 1, once[i].id>>
      BY <1>4, <2>2
    <3> QED  BY <3>1, <3>2, FoldRecords DEF Four
  <2>3. CASE ~IsCorrection(once[i])
    <3>1. once[i] \in Event
      BY <2>1, <2>3, Kinds
    <3>2. key[i] = <<once[i].period, once[i].minute, 0, once[i].index>>
      BY <1>4, <2>3
    <3> QED  BY <3>1, <3>2, FoldRecords DEF Four
  <2> QED  BY <2>2, <2>3
<1>6. Straightened(l) = Sorted(once, key)
  BY DEF Straightened, once
<1> HIDE DEF key, n
<1>7. PICK q : ByKeys(q, key, n) /\ Straightened(l) = Through(once, q, n)
  BY <1>4, <1>5, <1>6, FourOrdered, SortedIs
<1>8. /\ q \in [1 .. n -> 1 .. n]
      /\ Straightened(l) = [k \in 1 .. n |-> once[q[k]]]
      /\ \A x \in 1 .. n : \E k \in 1 .. n : q[k] = x
  BY <1>7 DEF ByKeys, Through
<1>9. Straightened(l) \in Seq(Record)
  BY <1>4, <1>8
<1>10. /\ DOMAIN Straightened(l) = 1 .. n
       /\ \A k \in 1 .. n : q[k] \in 1 .. n /\ Straightened(l)[k] = once[q[k]]
  BY <1>8
<1>11. ToSet(Straightened(l)) \subseteq ToSet(once)
  BY <1>4, <1>10 DEF ToSet
<1>12. ASSUME NEW i \in 1 .. n PROVE once[i] \in ToSet(Straightened(l))
  <2>1. PICK k \in 1 .. n : q[k] = i
    BY <1>8
  <2> QED  BY <1>10, <2>1 DEF ToSet
<1>13. ToSet(once) \subseteq ToSet(Straightened(l))
  BY <1>4, <1>12 DEF ToSet
<1> QED  BY <1>2, <1>3, <1>9, <1>11, <1>13

Recorded == log \in Seq(Record)

(* The log holds records. *)
LEMMA LogOfRecords == Spec => []Recorded
<1>1. Init => Recorded
  BY DEF Init, Recorded
<1>2. Recorded /\ [Next]_log => Recorded'
  BY DEF Next, Deliver, Recorded
<1> QED  BY <1>1, <1>2, PTL DEF Spec

-----------------------------------------------------------------------------
(* "the result depends only on the set of records, never on their arrival  *)
(* order" (match_state.py, 231-232), for every match, every correction of  *)
(* it and every order and number of deliveries.                            *)
THEOREM FoldIgnoresArrival == Spec => []OrderIrrelevant
<1>1. Recorded => OrderIrrelevant
  BY StraightenedLog, SameShown DEF OrderIrrelevant, Recorded
<1> QED  BY <1>1, LogOfRecords, PTL

-----------------------------------------------------------------------------
(* The state at an earlier moment. *)

Pairs == Nat \X Nat

LEMMA PairsOrdered == OrderedBy(Pairs)
BY LessOfTwo DEF OrderedBy, Pairs

(* What never falls from one to the next never falls. *)
LEMMA NeverFalls ==
    ASSUME NEW n \in Nat, NEW at \in [1 .. n -> Pairs],
           \A i \in 1 .. n - 1 : ~KeyLess(at[i + 1], at[i])
    PROVE  \A i, j \in 1 .. n : i <= j => ~KeyLess(at[j], at[i])
<1> DEFINE T == {d \in Nat : \A i \in 1 .. n : i + d <= n => ~KeyLess(at[i + d], at[i])}
<1>1. 0 \in T
  <2> SUFFICES ASSUME NEW i \in 1 .. n PROVE ~KeyLess(at[i + 0], at[i])
    OBVIOUS
  <2>1. i + 0 = i /\ at[i] \in Pairs
    OBVIOUS
  <2> QED  BY <2>1, PairsOrdered DEF OrderedBy
<1>2. ASSUME NEW d \in Nat, d \in T PROVE d + 1 \in T
  <2> SUFFICES ASSUME NEW i \in 1 .. n, i + (d + 1) <= n, KeyLess(at[i + (d + 1)], at[i])
               PROVE  FALSE
    OBVIOUS
  <2>1. i + d \in 1 .. n - 1 /\ i + (d + 1) = (i + d) + 1 /\ i + d <= n
    OBVIOUS
  <2>2. ~KeyLess(at[i + d], at[i]) /\ ~KeyLess(at[i + (d + 1)], at[i + d])
    BY <1>2, <2>1
  <2>3. at[i] \in Pairs /\ at[i + d] \in Pairs /\ at[i + (d + 1)] \in Pairs
    BY <2>1
  <2> QED  BY <2>2, <2>3, PairsOrdered DEF OrderedBy
<1>3. Nat \subseteq T
  <2> HIDE DEF T
  <2> QED  BY <1>1, <1>2, Steps
<1> SUFFICES ASSUME NEW i \in 1 .. n, NEW j \in 1 .. n, i <= j PROVE ~KeyLess(at[j], at[i])
  OBVIOUS
<1>4. PICK d \in Nat : i + d = j
  <2>1. j - i \in Nat /\ i + (j - i) = j
    OBVIOUS
  <2> QED  BY <2>1
<1>5. d \in T
  BY <1>3
<1> QED  BY <1>4, <1>5

(* "The state as it stood at a moment in the match" (project_until): what  *)
(* is asked afterwards of a feed that came in order is what was shown then.*)
THEOREM AskedLaterAsShown == Spec => []AskedLaterAnswersAsThen
<1>1. ASSUME Recorded, NEW k \in DOMAIN log, ArrivedInOrder(log),
             k < Len(log) => KeyLess(<<log[k].period, log[k].minute>>,
                                     <<log[k + 1].period, log[k + 1].minute>>)
      PROVE  Score(ProjectUntil(log, <<log[k].period, log[k].minute>>)) =
                 Score(Project(SubSeq(log, 1, k)))
  <2> DEFINE n == Len(log)
             at == [i \in 1 .. n |-> <<log[i].period, log[i].minute>>]
             places == {i \in DOMAIN log : ~KeyLess(at[k], <<log[i].period, log[i].minute>>)}
  <2>1. n \in Nat /\ DOMAIN log = 1 .. n /\ \A i \in 1 .. n : log[i] \in Record
    BY <1>1 DEF Recorded
  <2>2. at \in [1 .. n -> Pairs]
    BY <2>1, FoldRecords DEF Pairs, Record
  <2>3. ASSUME NEW i \in 1 .. n - 1 PROVE ~KeyLess(at[i + 1], at[i])
    <3>1. i \in 1 .. n /\ i + 1 \in 1 .. n
      BY <2>1
    <3>2. at[i] = <<log[i].period, log[i].minute>> /\ at[i + 1] = <<log[i + 1].period, log[i + 1].minute>>
      BY <3>1
    <3>3. ~KeyLess(<<log[i + 1].period, log[i + 1].minute>>, <<log[i].period, log[i].minute>>)
      BY <1>1 DEF ArrivedInOrder
    <3> QED  BY <3>2, <3>3
  <2>4. \A i, j \in 1 .. n : i <= j => ~KeyLess(at[j], at[i])
    <3> HIDE DEF at, n
    <3> QED  BY <2>1, <2>2, <2>3, NeverFalls
  <2>5. ASSUME k < n PROVE KeyLess(at[k], at[k + 1])
    <3>1. k \in 1 .. n /\ k + 1 \in 1 .. n
      BY <1>1, <2>1, <2>5
    <3>2. at[k] = <<log[k].period, log[k].minute>> /\ at[k + 1] = <<log[k + 1].period, log[k + 1].minute>>
      BY <3>1
    <3> QED  BY <1>1, <2>5, <3>2
  <2>6. at[k] = <<log[k].period, log[k].minute>>
    BY <2>1
  <2>7. \A i \in 1 .. n : i \in places <=> ~KeyLess(at[k], at[i])
    BY <2>1
  <2>8. places \in SUBSET (DOMAIN log)
    OBVIOUS
  <2>9. ProjectUntil(log, at[k]) = Project(Pick(log, places))
    BY DEF ProjectUntil
  <2> HIDE DEF at, n, places
  <2>10. \A i \in 1 .. n : i <= k => i \in places
    BY <2>1, <2>4, <2>7
  <2>11. ASSUME NEW i \in 1 .. n, k < i PROVE i \notin places
    <3>1. k + 1 \in 1 .. n /\ k < n /\ k + 1 <= i
      BY <2>1, <2>11
    <3>2. KeyLess(at[k], at[k + 1]) /\ ~KeyLess(at[i], at[k + 1])
      BY <2>4, <2>5, <3>1
    <3>3. at[k] \in Pairs /\ at[k + 1] \in Pairs /\ at[i] \in Pairs
      BY <2>1, <2>2, <3>1
    <3>4. KeyLess(at[k], at[i])
      BY <3>2, <3>3, PairsOrdered DEF OrderedBy
    <3> QED  BY <2>7, <3>4
  <2>12. places = 1 .. k
    <3>1. k \in 1 .. n
      BY <1>1, <2>1
    <3>2. \A i \in 1 .. k : i \in 1 .. n /\ i <= k
      BY <2>1, <3>1
    <3>3. \A i \in 1 .. n : ~(k < i) => i \in 1 .. k
      BY <2>1, <3>1
    <3>4. 1 .. k \subseteq places
      BY <2>10, <3>2
    <3>5. places \subseteq 1 .. k
      BY <2>1, <2>8, <2>11, <3>3
    <3> QED  BY <3>4, <3>5
  <2>13. /\ SubSeq(log, 1, k) \in Seq(Record)
         /\ DOMAIN SubSeq(log, 1, k) = 1 .. k
         /\ \A i \in 1 .. k : SubSeq(log, 1, k)[i] = log[i]
    BY <1>1, <2>1 DEF Recorded
  <2>14. ToSet(SubSeq(log, 1, k)) = {log[i] : i \in places}
    BY <2>12, <2>13 DEF ToSet
  <2>15. /\ Pick(log, places) \in Seq(Record)
         /\ ToSet(Pick(log, places)) = {log[i] : i \in places}
    BY <1>1, <2>8, PickedLog DEF Recorded
  <2>16. Score(Project(Pick(log, places))) = Score(Project(SubSeq(log, 1, k)))
    BY <2>13, <2>14, <2>15, SameShown
  <2> QED  BY <2>6, <2>9, <2>16
<1>2. Recorded => AskedLaterAnswersAsThen
  BY <1>1 DEF AskedLaterAnswersAsThen
<1> QED  BY <1>2, LogOfRecords, PTL

-----------------------------------------------------------------------------
(* The verdicts, one decision after another.                               *)

(* The recursion of Verdicts has a solution. *)
LEMMA VerdictsAre ==
    ASSUME NEW ds, NEW N \in Nat, Len(ds) = N
    PROVE  /\ Verdicts(ds)[0] = <<>>
           /\ \A n \in 1 .. N : Verdicts(ds)[n] = AfterDecision(Verdicts(ds)[n - 1], ds[n])
<1> DEFINE Solves(f, n) ==
             f = [i \in 0 .. n |-> IF i = 0 THEN <<>> ELSE AfterDecision(f[i - 1], ds[i])]
           T == {n \in Nat : \E f : Solves(f, n)}
<1>1. 0 \in T
  <2> DEFINE f == [i \in 0 .. 0 |-> <<>>]
  <2>1. f = [i \in 0 .. 0 |-> IF i = 0 THEN <<>> ELSE AfterDecision(f[i - 1], ds[i])]
    OBVIOUS
  <2> QED  BY <2>1
<1>2. ASSUME NEW n \in Nat, n \in T PROVE n + 1 \in T
  <2>1. PICK f : Solves(f, n)
    BY <1>2
  <2>2. /\ DOMAIN f = 0 .. n /\ f[0] = <<>>
        /\ \A i \in 1 .. n : f[i] = AfterDecision(f[i - 1], ds[i])
    BY <2>1
  <2> DEFINE g == [i \in 0 .. n + 1 |-> IF i = n + 1 THEN AfterDecision(f[n], ds[n + 1])
                                        ELSE f[i]]
  <2>3. \A i \in 0 .. n + 1 :
            g[i] = IF i = 0 THEN <<>> ELSE AfterDecision(g[i - 1], ds[i])
    <3> SUFFICES ASSUME NEW i \in 0 .. n + 1
                 PROVE  g[i] = IF i = 0 THEN <<>> ELSE AfterDecision(g[i - 1], ds[i])
      OBVIOUS
    <3>1. CASE i = 0
      BY <2>2, <3>1
    <3>2. CASE i \in 1 .. n
      <4>1. g[i] = f[i] /\ g[i - 1] = f[i - 1] /\ i # 0
        BY <3>2
      <4> QED  BY <2>2, <3>2, <4>1
    <3>3. CASE i = n + 1
      <4>1. g[i] = AfterDecision(f[n], ds[i]) /\ i - 1 = n /\ g[n] = f[n] /\ i # 0
        BY <3>3
      <4> QED  BY <4>1
    <3> QED  BY <3>1, <3>2, <3>3
  <2>4. g = [i \in 0 .. n + 1 |-> g[i]]
    OBVIOUS
  <2> HIDE DEF g
  <2>5. Solves(g, n + 1)
    BY <2>3, <2>4
  <2> QED  BY <2>5
<1>3. N \in T
  <2> HIDE DEF T
  <2>1. Nat \subseteq T
    BY <1>1, <1>2, Steps
  <2> QED  BY <2>1
<1>4. \E f : Solves(f, N)
  BY <1>3
<1>5. Verdicts(ds) = CHOOSE f : Solves(f, N)
  BY DEF Verdicts
<1>6. Solves(Verdicts(ds), N)
  <2> HIDE DEF Solves
  <2> QED  BY <1>4, <1>5
<1> QED  BY <1>6

(* What a decision does to the verdicts. *)
LEMMA OneDecision ==
    ASSUME NEW v, NEW c, NEW id
    PROVE  VerdictOn(AfterDecision(v, c), id) =
               IF id = c.supersedes THEN AfterCorrection(VerdictOn(v, id), c)
               ELSE VerdictOn(v, id)
BY DEF VerdictOn, AfterDecision, Over

Decides(c, id) == c.supersedes = id /\ c.kind \in {"disallow", "reinstate"}

(* Of the first n decisions the last about whether id stands struck it out.*)
StruckBy(ds, n, id) ==
    \E i \in 1 .. n : /\ Decides(ds[i], id) /\ ds[i].kind = "disallow"
                      /\ \A j \in i + 1 .. n : ~Decides(ds[j], id)

(* A verdict names a team of the match and a minute, if any. *)
Sound(verdict) ==
    /\ verdict.disallowed \in BOOLEAN
    /\ "team" \in DOMAIN verdict.amendments => verdict.amendments.team \in {Home, Away}
    /\ "minute" \in DOMAIN verdict.amendments => verdict.amendments.minute \in Nat

LEMMA AfterOneCorrection ==
    ASSUME NEW w, Sound(w), NEW c \in Correction
    PROVE  /\ Sound(AfterCorrection(w, c))
           /\ AfterCorrection(w, c).disallowed <=>
                \/ c.kind = "disallow"
                \/ c.kind # "reinstate" /\ w.disallowed
<1> DEFINE d == CASE c.kind = "disallow"  -> TRUE
                  [] c.kind = "reinstate" -> FALSE
                  [] OTHER                -> w.disallowed
           a == IF c.kind \in {"reassign", "amend"} THEN Over(c.payload, w.amendments)
                ELSE w.amendments
<1>1. AfterCorrection(w, c).disallowed = d /\ AfterCorrection(w, c).amendments = a
  BY DEF AfterCorrection
<1>2. d \in BOOLEAN /\ (d <=> c.kind = "disallow" \/ (c.kind # "reinstate" /\ w.disallowed))
  <2>1. CASE c.kind = "disallow"
    BY <2>1
  <2>2. CASE c.kind = "reinstate"
    BY <2>2
  <2>3. CASE c.kind \notin {"disallow", "reinstate"}
    BY <2>3 DEF Sound
  <2> QED  BY <2>1, <2>2, <2>3
<1>3. /\ "team" \in DOMAIN a => a.team \in {Home, Away}
      /\ "minute" \in DOMAIN a => a.minute \in Nat
  BY FoldRecords DEF Over, Sound
<1> HIDE DEF d, a
<1> QED  BY <1>1, <1>2, <1>3 DEF Sound

(* A verdict is what the last decision about its event made it, whatever   *)
(* was amended before, between and after.                                  *)
LEMMA FoldedVerdict ==
    ASSUME NEW N \in Nat, NEW ds \in [1 .. N -> Correction], Len(ds) = N
    PROVE  \A id : /\ Sound(VerdictOn(Verdicts(ds)[N], id))
                   /\ VerdictOn(Verdicts(ds)[N], id).disallowed <=> StruckBy(ds, N, id)
<1> DEFINE Followed(n) ==
             \A id : /\ Sound(VerdictOn(Verdicts(ds)[n], id))
                     /\ VerdictOn(Verdicts(ds)[n], id).disallowed <=> StruckBy(ds, n, id)
           T == {n \in Nat : n <= N => Followed(n)}
<1>1. 0 \in T
  <2>1. Verdicts(ds)[0] = <<>>
    BY VerdictsAre
  <2>2. \A id : VerdictOn(<<>>, id) = NoVerdict
    BY DEF VerdictOn
  <2>3. Sound(NoVerdict) /\ ~NoVerdict.disallowed
    BY DEF Sound, NoVerdict
  <2>4. \A id : ~StruckBy(ds, 0, id)
    BY DEF StruckBy
  <2> QED  BY <2>1, <2>2, <2>3, <2>4
<1>2. ASSUME NEW n \in Nat, n \in T PROVE n + 1 \in T
  <2> SUFFICES ASSUME n + 1 <= N, NEW id
               PROVE  /\ Sound(VerdictOn(Verdicts(ds)[n + 1], id))
                      /\ VerdictOn(Verdicts(ds)[n + 1], id).disallowed <=> StruckBy(ds, n + 1, id)
    OBVIOUS
  <2> DEFINE w == VerdictOn(Verdicts(ds)[n], id)
             c == ds[n + 1]
  <2>1. Sound(w) /\ (w.disallowed <=> StruckBy(ds, n, id))
    BY <1>2
  <2>2. n + 1 \in 1 .. N /\ (n + 1) - 1 = n /\ c \in Correction
    OBVIOUS
  <2>3. Verdicts(ds)[n + 1] = AfterDecision(Verdicts(ds)[n], c)
    BY <2>2, VerdictsAre
  <2>4. VerdictOn(Verdicts(ds)[n + 1], id) =
            IF id = c.supersedes THEN AfterCorrection(w, c) ELSE w
    BY <2>3, OneDecision
  <2>5. StruckBy(ds, n + 1, id) <=>
            \/ Decides(c, id) /\ c.kind = "disallow"
            \/ ~Decides(c, id) /\ StruckBy(ds, n, id)
    <3>1. 1 .. n + 1 = 1 .. n \cup {n + 1} /\ n + 1 + 1 .. n + 1 = {}
      OBVIOUS
    <3>2. \A i \in 1 .. n : i + 1 .. n + 1 = i + 1 .. n \cup {n + 1}
      OBVIOUS
    <3> HIDE DEF c
    <3>3. ASSUME StruckBy(ds, n + 1, id)
          PROVE  \/ Decides(c, id) /\ c.kind = "disallow"
                 \/ ~Decides(c, id) /\ StruckBy(ds, n, id)
      <4>1. PICK i \in 1 .. n + 1 : /\ Decides(ds[i], id) /\ ds[i].kind = "disallow"
                                    /\ \A j \in i + 1 .. n + 1 : ~Decides(ds[j], id)
        BY <3>3 DEF StruckBy
      <4>2. CASE i = n + 1
        BY <4>1, <4>2 DEF c
      <4>3. CASE i \in 1 .. n
        BY <3>2, <4>1, <4>3 DEF StruckBy, c
      <4> QED  BY <3>1, <4>2, <4>3
    <3>4. ASSUME Decides(c, id), c.kind = "disallow" PROVE StruckBy(ds, n + 1, id)
      BY <3>1, <3>4 DEF StruckBy, c
    <3>5. ASSUME ~Decides(c, id), StruckBy(ds, n, id) PROVE StruckBy(ds, n + 1, id)
      <4>1. PICK i \in 1 .. n : /\ Decides(ds[i], id) /\ ds[i].kind = "disallow"
                                /\ \A j \in i + 1 .. n : ~Decides(ds[j], id)
        BY <3>5 DEF StruckBy
      <4>2. i \in 1 .. n + 1 /\ \A j \in i + 1 .. n + 1 : ~Decides(ds[j], id)
        BY <3>1, <3>2, <3>5, <4>1 DEF c
      <4> QED  BY <4>1, <4>2 DEF StruckBy
    <3> QED  BY <3>3, <3>4, <3>5
  <2> HIDE DEF w, c
  <2>6. CASE id = c.supersedes
    <3>1. /\ Sound(AfterCorrection(w, c))
          /\ AfterCorrection(w, c).disallowed <=>
                c.kind = "disallow" \/ (c.kind # "reinstate" /\ w.disallowed)
      BY <2>1, <2>2, AfterOneCorrection
    <3> QED  BY <2>1, <2>4, <2>5, <2>6, <3>1 DEF Decides
  <2>7. CASE id # c.supersedes
    BY <2>1, <2>4, <2>5, <2>7 DEF Decides
  <2> QED  BY <2>6, <2>7
<1>3. Nat \subseteq T
  <2> HIDE DEF T
  <2> QED  BY <1>1, <1>2, Steps
<1> QED  BY <1>3

(* A set of numbers up to n has a greatest one. *)
LEMMA Greatest ==
    ASSUME NEW n \in Nat, NEW T \in SUBSET (1 .. n), T # {}
    PROVE  \E x \in T : \A y \in T : y <= x
<1> DEFINE D == {d \in Nat : \E x \in T : x + d = n}
<1>1. \A x \in T : \E d \in D : x + d = n
  <2> SUFFICES ASSUME NEW x \in T PROVE \E d \in D : x + d = n
    OBVIOUS
  <2>1. n - x \in Nat /\ x + (n - x) = n
    OBVIOUS
  <2> QED  BY <2>1
<1>2. D # {} /\ D \in SUBSET Nat
  BY <1>1
<1> HIDE DEF D
<1>3. PICK d \in D : \A e \in D : d <= e
  BY <1>2, Least
<1>4. PICK x \in T : x + d = n
  BY <1>3 DEF D
<1>5. ASSUME NEW y \in T PROVE y <= x
  <2>1. PICK e \in D : y + e = n
    BY <1>1
  <2>2. d <= e /\ d \in Nat /\ e \in Nat /\ x \in Nat /\ y \in Nat
    BY <1>2, <1>3, <2>1
  <2> QED  BY <1>4, <2>1, <2>2
<1> QED  BY <1>5

(* The decisions of a log, in their order. *)
Decisions(l) == Deduplicated(InDecisionOrder(Corrections(l)))

LEMMA VerdictsOfLog ==
    ASSUME NEW l \in Seq(Record)
    PROVE  \E N \in Nat :
             /\ Decisions(l) \in [1 .. N -> CorrectionsIn(l)]
             /\ \A c \in CorrectionsIn(l) : \E i \in 1 .. N : Decisions(l)[i] = c
             /\ \A i, j \in 1 .. N :
                    i < j => KeyLess(CorrectionKeys[Decisions(l)[i]], CorrectionKeys[Decisions(l)[j]])
             /\ \A id : /\ Sound(VerdictOn(Verdict(l), id))
                        /\ VerdictOn(Verdict(l), id).disallowed <=> StruckBy(Decisions(l), N, id)
<1> DEFINE ds == Decisions(l)
<1>1. InKeyOrder(ds, CorrectionsIn(l), CorrectionKeys)
  BY DecisionsInOrder DEF Decisions
<1>2. Verdict(l) = Verdicts(ds)[Len(ds)]
  BY DEF Verdict, Resolve, Decisions
<1> HIDE DEF ds
<1>3. PICK N \in Nat :
        /\ ds \in [1 .. N -> CorrectionsIn(l)]
        /\ \A c \in CorrectionsIn(l) : \E i \in 1 .. N : ds[i] = c
        /\ \A i, j \in 1 .. N : i < j => KeyLess(CorrectionKeys[ds[i]], CorrectionKeys[ds[j]])
  BY <1>1 DEF InKeyOrder
<1>4. ds \in [1 .. N -> Correction] /\ Len(ds) = N
  <2>1. ds \in [1 .. N -> Correction]
    BY <1>3 DEF CorrectionsIn
  <2> QED  BY <2>1
<1>5. \A id : /\ Sound(VerdictOn(Verdicts(ds)[N], id))
              /\ VerdictOn(Verdicts(ds)[N], id).disallowed <=> StruckBy(ds, N, id)
  BY <1>4, FoldedVerdict
<1> QED  BY <1>2, <1>3, <1>4, <1>5 DEF ds

(* The last decision about whether an event stands is what the fold has    *)
(* come to.                                                                *)
LEMMA StruckByTheLast ==
    ASSUME Recorded, NEW id
    PROVE  VerdictOn(Verdict(log), id).disallowed <=> LastDecision(id) = "disallow"
<1> DEFINE ds == Decisions(log)
           about == {c \in ToSet(log) \cap Correction :
                       c.supersedes = id /\ c.kind \in {"disallow", "reinstate"}}
           latest(c) == \A d \in about : ~KeyLess(CorrectionKey(c), CorrectionKey(d))
<1>1. PICK N \in Nat :
        /\ ds \in [1 .. N -> CorrectionsIn(log)]
        /\ \A c \in CorrectionsIn(log) : \E i \in 1 .. N : ds[i] = c
        /\ \A i, j \in 1 .. N : i < j => KeyLess(CorrectionKeys[ds[i]], CorrectionKeys[ds[j]])
        /\ VerdictOn(Verdict(log), id).disallowed <=> StruckBy(ds, N, id)
  BY VerdictsOfLog DEF Recorded
<1>2. \A c : c \in about <=> c \in CorrectionsIn(log) /\ Decides(c, id)
  BY DEF CorrectionsIn, Decides
<1>3. LastDecision(id) = IF about = {} THEN "stands" ELSE (CHOOSE c \in about : latest(c)).kind
  BY DEF LastDecision
<1> HIDE DEF ds, about
<1>4. CASE about = {}
  <2>1. ~StruckBy(ds, N, id)
    BY <1>1, <1>2, <1>4 DEF StruckBy
  <2> QED  BY <1>1, <1>3, <1>4, <2>1
<1>5. CASE about # {}
  <2> DEFINE T == {i \in 1 .. N : ds[i] \in about}
  <2>1. T # {} /\ T \in SUBSET (1 .. N)
    BY <1>1, <1>2, <1>5
  <2>2. PICK i \in T : \A j \in T : j <= i
    BY <2>1, Greatest
  <2>3. i \in 1 .. N /\ ds[i] \in about /\ \A j \in i + 1 .. N : ds[j] \notin about
    BY <2>2
  <2>4. \A c \in about : c = ds[i] \/ KeyLess(CorrectionKeys[c], CorrectionKeys[ds[i]])
    <3> SUFFICES ASSUME NEW c \in about
                 PROVE  c = ds[i] \/ KeyLess(CorrectionKeys[c], CorrectionKeys[ds[i]])
      OBVIOUS
    <3>1. PICK j \in 1 .. N : ds[j] = c
      BY <1>1, <1>2
    <3>2. j <= i
      BY <2>2, <3>1
    <3> QED  BY <1>1, <2>3, <3>1, <3>2
  <2> HIDE DEF T
  <2>5. \A c \in about : /\ CorrectionKey(c) = CorrectionKeys[c] /\ CorrectionKeys[c] \in Three
    BY <1>2, CorrectionKeysDiffer DEF CorrectionsIn
  <2>6. latest(ds[i])
    <3> SUFFICES ASSUME NEW d \in about
                 PROVE  ~KeyLess(CorrectionKeys[ds[i]], CorrectionKeys[d])
      BY <2>3, <2>5
    <3> QED  BY <2>3, <2>4, <2>5, ThreeOrdered DEF OrderedBy
  <2>7. \A c \in about : latest(c) => c = ds[i]
    BY <2>3, <2>4, <2>5
  <2>8. (CHOOSE c \in about : latest(c)) = ds[i]
    <3> HIDE DEF latest
    <3> QED  BY <2>3, <2>6, <2>7
  <2>9. StruckBy(ds, N, id) <=> ds[i].kind = "disallow"
    <3>1. Decides(ds[i], id) /\ \A j \in 1 .. N : Decides(ds[j], id) <=> ds[j] \in about
      BY <1>1, <1>2, <2>3
    <3>2. \A j \in i + 1 .. N : j \in 1 .. N /\ ~Decides(ds[j], id)
      BY <2>3, <3>1
    <3>3. \A j \in 1 .. N : j < i => i \in j + 1 .. N
      BY <2>3
    <3>4. \A j \in 1 .. N : j = i \/ j < i \/ j \in i + 1 .. N
      BY <2>3
    <3> QED  BY <2>3, <3>1, <3>2, <3>3, <3>4 DEF StruckBy
  <2> QED  BY <1>1, <1>3, <1>5, <2>8, <2>9
<1> QED  BY <1>4, <1>5

-----------------------------------------------------------------------------
(* The list of goals. *)

(* The places of the goals, and the goal at each place. *)
Listed(read, verdicts, home, away) ==
    {i \in DOMAIN read :
        /\ ~InShootout(read[i])
        /\ Credited(read[i], VerdictOn(verdicts, read[i].id), home, away) # NoTeam}

GoalAt(read, verdicts, home, away) ==
    [i \in DOMAIN read |->
        GoalRecord(read[i], Credited(read[i], VerdictOn(verdicts, read[i].id), home, away),
                   VerdictOn(verdicts, read[i].id))]

LEMMA GoalListIs ==
    ASSUME NEW read, NEW verdicts, NEW home, NEW away
    PROVE  GoalList(read, verdicts, home, away) =
               Pick(GoalAt(read, verdicts, home, away), Listed(read, verdicts, home, away))
<1> DEFINE verdict == [i \in DOMAIN read |-> VerdictOn(verdicts, read[i].id)]
           team == [i \in DOMAIN read |-> Credited(read[i], verdict[i], home, away)]
           list == [i \in DOMAIN read |-> GoalRecord(read[i], team[i], verdict[i])]
           places == {i \in DOMAIN read : ~InShootout(read[i]) /\ team[i] # NoTeam}
<1>1. GoalList(read, verdicts, home, away) = Pick(list, places)
  BY DEF GoalList
<1>2. \A i \in DOMAIN read : verdict[i] = VerdictOn(verdicts, read[i].id)
  OBVIOUS
<1>3. \A i \in DOMAIN read :
        team[i] = Credited(read[i], VerdictOn(verdicts, read[i].id), home, away)
  BY <1>2
<1> HIDE DEF verdict, team
<1>4. list = GoalAt(read, verdicts, home, away)
  BY <1>2, <1>3 DEF GoalAt
<1>5. places = Listed(read, verdicts, home, away)
  BY <1>3 DEF Listed
<1> QED  BY <1>1, <1>4, <1>5

(* What is picked is what is at the places. *)
LEMMA PickedOnes ==
    ASSUME NEW s, NEW n \in Nat, NEW places \in SUBSET (1 .. n)
    PROVE  ToSet(Pick(s, places)) = {s[i] : i \in places}
<1>1. PICK q : Upwards(q, places) /\ Pick(s, places) = Through(s, q, Cardinality(places))
  BY PickIs
<1> DEFINE m == Cardinality(places)
           p == Pick(s, places)
<1>2. DOMAIN p = 1 .. m /\ \A k \in 1 .. m : q[k] \in places /\ p[k] = s[q[k]]
  BY <1>1 DEF Upwards, Through
<1>3. \A i \in places : \E k \in 1 .. m : q[k] = i
  BY <1>1 DEF Upwards
<1> HIDE DEF p, m
<1>4. ToSet(p) = {s[i] : i \in places}
  <2>1. ASSUME NEW k \in 1 .. m PROVE p[k] \in {s[i] : i \in places}
    BY <1>2
  <2>2. ASSUME NEW i \in places PROVE \E k \in 1 .. m : p[k] = s[i]
    <3>1. PICK k \in 1 .. m : q[k] = i
      BY <1>3
    <3> QED  BY <1>2, <3>1
  <2> QED  BY <1>2, <2>1, <2>2 DEF ToSet
<1> QED  BY <1>4 DEF p

(* A goal of the list is a goal that was read, with its verdict. *)
LEMMA GoalsRead ==
    ASSUME NEW l \in Seq(Record)
    PROVE  ToSet(Project(l).goals) =
             {GoalAt(Amended(Ordered(l), Verdict(l)), Verdict(l), HomeOf(Ordered(l)),
                     AwayOf(Ordered(l)))[i] :
                i \in Listed(Amended(Ordered(l), Verdict(l)), Verdict(l), HomeOf(Ordered(l)),
                             AwayOf(Ordered(l)))}
<1> DEFINE read == Amended(Ordered(l), Verdict(l))
           home == HomeOf(Ordered(l))
           away == AwayOf(Ordered(l))
<1>1. PICK n \in Nat : DOMAIN Ordered(l) = 1 .. n
  BY EventsInOrder DEF InKeyOrder
<1>2. DOMAIN read = 1 .. n
  BY <1>1 DEF Amended
<1>3. Project(l).goals = GoalList(read, Verdict(l), home, away)
  BY VersionAside DEF Project
<1> HIDE DEF read, home, away
<1>4. Listed(read, Verdict(l), home, away) \in SUBSET (1 .. n)
  BY <1>2 DEF Listed
<1>5. ToSet(Project(l).goals) = {GoalAt(read, Verdict(l), home, away)[i] :
                                    i \in Listed(read, Verdict(l), home, away)}
  BY <1>3, <1>4, GoalListIs, PickedOnes
<1> QED  BY <1>5 DEF read, home, away

-----------------------------------------------------------------------------
(* A goal counts unless the last decision about whether it stands was to   *)
(* disallow it, however often it was reassigned or amended and in whatever *)
(* order the decisions arrived (corrections.py, resolve).                  *)
THEOREM GoalsCountAsDecided == Spec => []GoalsCountByLastDecision
<1>1. ASSUME Recorded, NEW g \in ToSet(Project(log).goals)
      PROVE  g.disallowed <=> LastDecision(g.id) = "disallow"
  <2> DEFINE read == Amended(Ordered(log), Verdict(log))
             home == HomeOf(Ordered(log))
             away == AwayOf(Ordered(log))
  <2>1. PICK i \in Listed(read, Verdict(log), home, away) :
            g = GoalAt(read, Verdict(log), home, away)[i]
    BY <1>1, GoalsRead DEF Recorded
  <2>2. i \in DOMAIN read
    BY DEF Listed
  <2> HIDE DEF read, home, away
  <2>3. g.id = read[i].id /\ g.disallowed = VerdictOn(Verdict(log), read[i].id).disallowed
    BY <2>1, <2>2 DEF GoalAt, GoalRecord
  <2> QED  BY <1>1, <2>3, StruckByTheLast
<1>2. Recorded => GoalsCountByLastDecision
  BY <1>1 DEF GoalsCountByLastDecision
<1> QED  BY <1>2, LogOfRecords, PTL

-----------------------------------------------------------------------------
(* What is read of an event after its amendments.                          *)

IsAsRead(r, e) ==
    /\ DOMAIN r = DOMAIN e
    /\ r.id = e.id /\ r.type = e.type /\ r.period = e.period /\ r.goal = e.goal
    /\ r.minute \in Nat
    /\ e.type \in {"shot", "own_goal"} => r.team \in {Home, Away}

LEMMA EffectiveIs ==
    ASSUME NEW e \in Event, NEW verdict, Sound(verdict)
    PROVE  IsAsRead(Effective(e, verdict), e)
<1> DEFINE changed == Amendable(e) \cap DOMAIN verdict.amendments
           r == Effective(e, verdict)
<1>1. /\ DOMAIN r = DOMAIN e
      /\ \A f \in DOMAIN e : r[f] = IF f \in changed THEN verdict.amendments[f] ELSE e[f]
  BY DEF Effective
<1>2. changed \subseteq {"player", "team", "minute", "xg"}
  BY DEF Amendable
<1>3. DOMAIN e = {"id", "type", "period", "minute", "index", "team", "player", "goal", "xg", "card"}
  BY FoldRecords
<1>4. /\ "team" \in changed => verdict.amendments.team \in {Home, Away}
      /\ "minute" \in changed => verdict.amendments.minute \in Nat
  BY DEF Sound
<1>5. e.minute \in Nat /\ (e.type \in {"shot", "own_goal"} => e.team \in {Home, Away})
  BY FoldRecords
<1> HIDE DEF r, changed
<1>6. r.id = e.id /\ r.type = e.type /\ r.period = e.period /\ r.goal = e.goal
  BY <1>1, <1>2, <1>3
<1>7. r.minute \in Nat
  BY <1>1, <1>3, <1>4, <1>5
<1>8. e.type \in {"shot", "own_goal"} => r.team \in {Home, Away}
  BY <1>1, <1>3, <1>4, <1>5
<1> QED  BY <1>1, <1>6, <1>7, <1>8 DEF IsAsRead, r

Read(l) == Amended(Ordered(l), Verdict(l))

LEMMA ReadIs ==
    ASSUME NEW l \in Seq(Record)
    PROVE  \E n \in Nat :
             /\ DOMAIN Ordered(l) = 1 .. n /\ DOMAIN Read(l) = 1 .. n
             /\ \A i \in 1 .. n : /\ Ordered(l)[i] \in EventsIn(l)
                                  /\ IsAsRead(Read(l)[i], Ordered(l)[i])
             /\ \A e \in EventsIn(l) : \E i \in 1 .. n : Ordered(l)[i] = e
<1> DEFINE s == Ordered(l)
<1>1. PICK n \in Nat : /\ s \in [1 .. n -> EventsIn(l)]
                       /\ \A e \in EventsIn(l) : \E i \in 1 .. n : s[i] = e
  BY EventsInOrder DEF InKeyOrder
<1>2. \A id : Sound(VerdictOn(Verdict(l), id))
  BY VerdictsOfLog
<1> HIDE DEF s
<1>3. /\ DOMAIN Read(l) = 1 .. n
      /\ \A i \in 1 .. n : Read(l)[i] = Effective(s[i], VerdictOn(Verdict(l), s[i].id))
  BY <1>1 DEF Read, Amended, s
<1>4. \A i \in 1 .. n : s[i] \in EventsIn(l) /\ s[i] \in Event
  BY <1>1 DEF EventsIn
<1>5. \A i \in 1 .. n : IsAsRead(Read(l)[i], s[i])
  BY <1>2, <1>3, <1>4, EffectiveIs
<1> QED  BY <1>1, <1>3, <1>4, <1>5 DEF s

(* Both teams are in the line-ups of a log. *)
NamedIn(l) == \A t \in {Home, Away} : \E e \in EventsIn(l) : e.type = "xi" /\ e.team = t

(* The first of some places. *)
LEMMA FirstPlace ==
    ASSUME NEW s, NEW n \in Nat, NEW places \in SUBSET (1 .. n), places # {}
    PROVE  \E i \in places : TeamAtFirst(s, places) = s[i].team
<1>1. \E i \in places : \A j \in places : i <= j
  BY Least
<1>2. Min(places) \in places
  BY <1>1 DEF Min
<1> QED  BY <1>2 DEF TeamAtFirst

(* Then the teams of the state are the teams of the match. *)
LEMMA TeamsOfTheMatch ==
    ASSUME NEW l \in Seq(Record), NamedIn(l)
    PROVE  /\ HomeOf(Ordered(l)) \in {Home, Away}
           /\ AwayOf(Ordered(l)) = Opponent(HomeOf(Ordered(l)))
<1> DEFINE s == Ordered(l)
<1>1. PICK n \in Nat : /\ DOMAIN s = 1 .. n
                       /\ \A i \in 1 .. n : s[i] \in EventsIn(l)
                       /\ \A e \in EventsIn(l) : \E i \in 1 .. n : s[i] = e
  BY ReadIs
<1>2. \A i \in 1 .. n : s[i].team \in {Home, Away, NoTeam}
  BY <1>1, FoldRecords DEF EventsIn
<1>3. \A t \in {Home, Away} : \E i \in 1 .. n : s[i].type = "xi" /\ s[i].team = t
  <2> SUFFICES ASSUME NEW t \in {Home, Away} PROVE \E i \in 1 .. n : s[i].type = "xi" /\ s[i].team = t
    OBVIOUS
  <2>1. PICK e \in EventsIn(l) : e.type = "xi" /\ e.team = t
    BY DEF NamedIn
  <2> QED  BY <1>1, <2>1
<1>4. Home # Away /\ NoTeam # Home /\ NoTeam # Away
  BY FoldRecords
<1> HIDE DEF s
<1>5. ASSUME NEW places \in SUBSET (1 .. n), \E i \in places : s[i].type = "xi"
      PROVE  \E i \in places : NamedFirst(s, places) = s[i].team
  <2> DEFINE named == {i \in places : s[i].type = "xi"}
  <2>1. named # {} /\ named \in SUBSET (1 .. n)
    BY <1>5
  <2>2. NamedFirst(s, places) = TeamAtFirst(s, named)
    BY <2>1 DEF NamedFirst
  <2> HIDE DEF named
  <2>3. PICK i \in named : TeamAtFirst(s, named) = s[i].team
    BY <2>1, FirstPlace
  <2> QED  BY <2>2, <2>3 DEF named
<1>6. HomeOf(s) \in {Home, Away}
  <2> DEFINE places == {i \in DOMAIN s : s[i].team # NoTeam}
  <2>1. places \in SUBSET (1 .. n) /\ \E i \in places : s[i].type = "xi"
    BY <1>1, <1>3, <1>4
  <2>2. PICK i \in places : NamedFirst(s, places) = s[i].team
    BY <1>5, <2>1
  <2> QED  BY <1>1, <1>2, <2>2 DEF HomeOf
<1>7. AwayOf(s) \in {Home, Away} /\ AwayOf(s) # HomeOf(s)
  <2> DEFINE places == {i \in DOMAIN s : s[i].team \notin {NoTeam, HomeOf(s)}}
  <2>1. places \in SUBSET (1 .. n) /\ \E i \in places : s[i].type = "xi"
    BY <1>1, <1>3, <1>4
  <2>2. PICK i \in places : NamedFirst(s, places) = s[i].team
    BY <1>5, <2>1
  <2> QED  BY <1>1, <1>2, <2>2 DEF AwayOf
<1> QED  BY <1>4, <1>6, <1>7 DEF Opponent, s

(* A goal is listed once both teams are known, whatever was decided. *)
LEMMA GoalsListed ==
    ASSUME NEW l \in Seq(Record), NamedIn(l), NEW e \in EventsIn(l),
           \/ e.type = "shot" /\ e.goal /\ e.period # 5
           \/ e.type = "own_goal"
    PROVE  e.id \in GoalIds(l)
<1> DEFINE read == Read(l)
           home == HomeOf(Ordered(l))
           away == AwayOf(Ordered(l))
<1>1. PICK n \in Nat : /\ DOMAIN read = 1 .. n
                       /\ \A i \in 1 .. n : IsAsRead(read[i], Ordered(l)[i])
                       /\ \E i \in 1 .. n : Ordered(l)[i] = e
  BY ReadIs
<1>2. PICK i \in 1 .. n : Ordered(l)[i] = e
  BY <1>1
<1>3. home \in {Home, Away} /\ away = Opponent(home)
  BY TeamsOfTheMatch
<1>4. NoTeam # Home /\ NoTeam # Away /\ home # NoTeam /\ away # NoTeam
  BY <1>3, FoldRecords DEF Opponent
<1>5. /\ read[i].id = e.id /\ read[i].type = e.type /\ read[i].period = e.period
      /\ read[i].goal = e.goal /\ read[i].team # NoTeam
  BY <1>1, <1>2, <1>4 DEF IsAsRead
<1> HIDE DEF read, home, away
<1>6. ASSUME NEW verdict PROVE Credited(read[i], verdict, home, away) # NoTeam
  <2>1. CASE e.type = "shot" /\ e.goal
    BY <1>5, <2>1 DEF Credited
  <2>2. CASE e.type = "own_goal"
    BY <1>4, <1>5, <2>2 DEF Credited
  <2> QED  BY <2>1, <2>2
<1>7. i \in Listed(read, Verdict(l), home, away)
  BY <1>1, <1>5, <1>6 DEF Listed, InShootout
<1>8. GoalAt(read, Verdict(l), home, away)[i].id = e.id
  BY <1>1, <1>5 DEF GoalAt, GoalRecord
<1>9. GoalAt(read, Verdict(l), home, away)[i] \in ToSet(Project(l).goals)
  BY <1>7, GoalsRead DEF Read, read, home, away
<1> QED  BY <1>8, <1>9 DEF GoalIds

(* What is listed is a goal of the log. *)
LEMMA ListedGoals ==
    ASSUME NEW l \in Seq(Record), NEW id \in GoalIds(l)
    PROVE  \E e \in EventsIn(l) : /\ e.id = id
                                  /\ \/ e.type = "shot" /\ e.goal /\ e.period # 5
                                     \/ e.type = "own_goal"
<1> DEFINE read == Read(l)
           home == HomeOf(Ordered(l))
           away == AwayOf(Ordered(l))
<1>1. PICK n \in Nat : /\ DOMAIN read = 1 .. n
                       /\ \A i \in 1 .. n : /\ Ordered(l)[i] \in EventsIn(l)
                                            /\ IsAsRead(read[i], Ordered(l)[i])
  BY ReadIs
<1>2. PICK g \in ToSet(Project(l).goals) : g.id = id
  BY DEF GoalIds
<1>3. PICK i \in Listed(read, Verdict(l), home, away) :
        g = GoalAt(read, Verdict(l), home, away)[i]
  BY <1>2, GoalsRead DEF Read
<1> HIDE DEF read, home, away
<1>4. i \in 1 .. n /\ g.id = read[i].id
  BY <1>1, <1>3 DEF Listed, GoalAt, GoalRecord
<1>5. \/ read[i].type = "shot" /\ read[i].goal /\ read[i].period # 5
      \/ read[i].type = "own_goal"
  <2>1. /\ ~InShootout(read[i])
        /\ Credited(read[i], VerdictOn(Verdict(l), read[i].id), home, away) # NoTeam
    BY <1>3 DEF Listed
  <2> QED  BY <2>1 DEF InShootout, Credited
<1> QED  BY <1>1, <1>2, <1>4, <1>5 DEF IsAsRead

(* "it is never removed" (document.py, 317-318): a goal that was shown     *)
(* stays in the list, whatever is delivered later.                         *)
THEOREM GoalsNeverLeave == Spec => GoalsStayVisible
<1>1. ASSUME Recorded, Recorded', Next, BothTeamsNamed PROVE GoalIds(log) \subseteq GoalIds(log')
  <2>1. PICK r \in Record : log' = Append(log, r)
    BY <1>1 DEF Next, Deliver
  <2>2. EventsIn(log) \subseteq EventsIn(log')
    <3>1. \A i \in DOMAIN log : i \in DOMAIN log' /\ log'[i] = log[i]
      BY <1>1, <2>1 DEF Recorded
    <3> QED  BY <3>1 DEF EventsIn, ToSet
  <2>3. NamedIn(log')
    <3>1. NamedIn(log)
      BY <1>1 DEF BothTeamsNamed, NamedIn, EventsIn, ToSet
    <3> QED  BY <2>2, <3>1 DEF NamedIn
  <2> SUFFICES ASSUME NEW id \in GoalIds(log) PROVE id \in GoalIds(log')
    OBVIOUS
  <2>4. PICK e \in EventsIn(log) : /\ e.id = id
                                   /\ \/ e.type = "shot" /\ e.goal /\ e.period # 5
                                      \/ e.type = "own_goal"
    BY <1>1, ListedGoals DEF Recorded
  <2> QED  BY <1>1, <2>2, <2>3, <2>4, GoalsListed DEF Recorded
<1>2. Recorded /\ Recorded' /\ [Next]_log =>
        [BothTeamsNamed => GoalIds(log) \subseteq GoalIds(log')]_log
  BY <1>1
<1> QED  BY <1>2, LogOfRecords, PTL DEF GoalsStayVisible, Spec

-----------------------------------------------------------------------------
(* The goals of the score and the goals of the metrics.                    *)

PlacesIn(s, places, X) == {i \in places : s[i] \in X}

(* How many of what was picked are in a set. *)
LEMMA PickedCount ==
    ASSUME NEW s, NEW n \in Nat, NEW places \in SUBSET (1 .. n), NEW X
    PROVE  Cardinality(PlacesIn(Pick(s, places), DOMAIN Pick(s, places), X)) =
               Cardinality(PlacesIn(s, places, X))
<1> DEFINE m == Cardinality(places)
           p == Pick(s, places)
           A == {k \in DOMAIN p : p[k] \in X}
           B == {i \in places : s[i] \in X}
<1>1. m \in Nat
  BY PickIs
<1>2. PICK q : Upwards(q, places) /\ p = Through(s, q, m)
  BY PickIs
<1>3. /\ DOMAIN p = 1 .. m
      /\ \A k \in 1 .. m : q[k] \in places /\ p[k] = s[q[k]]
      /\ \A i, j \in 1 .. m : i < j => q[i] < q[j]
      /\ \A i \in places : \E k \in 1 .. m : q[k] = i
  BY <1>2 DEF Upwards, Through
<1>4. \A k \in 1 .. m : q[k] \in 1 .. n
  BY <1>3
<1> HIDE DEF m, p
<1> DEFINE f == [k \in A |-> q[k]]
<1>5. f \in [A -> B]
  BY <1>3
<1>6. ASSUME NEW j \in A, NEW k \in A, f[j] = f[k] PROVE j = k
  <2>1. j \in 1 .. m /\ k \in 1 .. m /\ q[j] = q[k]
    BY <1>3, <1>6
  <2>2. ~(j < k) /\ ~(k < j)
    BY <1>3, <1>4, <2>1
  <2> QED  BY <1>1, <2>1, <2>2
<1>7. ASSUME NEW i \in B PROVE \E k \in A : f[k] = i
  <2>1. PICK k \in 1 .. m : q[k] = i
    BY <1>3
  <2> QED  BY <1>3, <2>1
<1>8. ExistsBijection(A, B)
  <2> HIDE DEF f, A, B
  <2>1. f \in Injection(A, B) /\ f \in Surjection(A, B)
    BY <1>5, <1>6, <1>7 DEF Injection, Surjection, IsInjective
  <2> QED  BY <2>1 DEF ExistsBijection, Bijection
<1>9. IsFiniteSet(A)
  <2>1. IsFiniteSet(1 .. m)
    BY <1>1, FS_Interval
  <2>2. A \in SUBSET (1 .. m)
    BY <1>3
  <2> QED  BY <2>1, <2>2, FS_Subset
<1>10. Cardinality(A) = Cardinality(B)
  <2> HIDE DEF A, B
  <2> QED  BY <1>8, <1>9, FS_Bijection
<1> QED  BY <1>10 DEF p, PlacesIn

(* The places of what was read that the goal list is picked from. *)
PlacesOfGoals(l) == Listed(Read(l), Verdict(l), HomeOf(Ordered(l)), AwayOf(Ordered(l)))
GoalsAtPlaces(l) == GoalAt(Read(l), Verdict(l), HomeOf(Ordered(l)), AwayOf(Ordered(l)))

LEMMA GoalsCounted ==
    ASSUME NEW l \in Seq(Record), NEW X
    PROVE  Cardinality(PlacesIn(Project(l).goals, DOMAIN Project(l).goals, X)) =
               Cardinality(PlacesIn(GoalsAtPlaces(l), PlacesOfGoals(l), X))
<1>1. PICK n \in Nat : DOMAIN Read(l) = 1 .. n
  BY ReadIs
<1>2. Project(l).goals = Pick(GoalsAtPlaces(l), PlacesOfGoals(l))
  BY VersionAside, GoalListIs DEF Project, Read, PlacesOfGoals, GoalsAtPlaces
<1>3. PlacesOfGoals(l) \in SUBSET (1 .. n)
  BY <1>1 DEF PlacesOfGoals, Listed
<1> DEFINE at == GoalsAtPlaces(l)
           places == PlacesOfGoals(l)
<1> HIDE DEF at, places
<1>4. places \in SUBSET (1 .. n)
  BY <1>3 DEF places
<1>5. Cardinality(PlacesIn(Pick(at, places), DOMAIN Pick(at, places), X)) =
          Cardinality(PlacesIn(at, places, X))
  BY <1>4, PickedCount
<1> QED  BY <1>2, <1>5 DEF at, places

(* The places whose goals stand for a team. *)
StandsFor(l, t) ==
    {i \in PlacesOfGoals(l) : GoalsAtPlaces(l)[i].team = t /\ ~GoalsAtPlaces(l)[i].disallowed}

LEMMA StandingCounted ==
    ASSUME NEW l \in Seq(Record), NEW t
    PROVE  /\ GoalsFor(Project(l), t) = Cardinality(StandsFor(l, t))
           /\ Cardinality({k \in DOMAIN Project(l).goals :
                             /\ Project(l).goals[k].team = t /\ ~Project(l).goals[k].disallowed
                             /\ Project(l).goals[k].period <= 2}) =
                  Cardinality({i \in StandsFor(l, t) : GoalsAtPlaces(l)[i].period <= 2})
<1> DEFINE goals == Project(l).goals
           at == GoalsAtPlaces(l)
           all == {at[i] : i \in PlacesOfGoals(l)}
           X == {g \in all : g.team = t /\ ~g.disallowed}
           Y == {g \in X : g.period <= 2}
<1>1. \A k \in DOMAIN goals : goals[k] \in all
  BY GoalsRead DEF ToSet, Read, GoalsAtPlaces, PlacesOfGoals
<1>2. GoalsFor(Project(l), t) = Cardinality({k \in DOMAIN goals : goals[k].team = t /\ ~goals[k].disallowed})
  BY DEF GoalsFor
<1> HIDE DEF goals
<1>3. /\ {k \in DOMAIN goals : goals[k].team = t /\ ~goals[k].disallowed} =
            {k \in DOMAIN goals : goals[k] \in X}
      /\ {k \in DOMAIN goals :
            goals[k].team = t /\ ~goals[k].disallowed /\ goals[k].period <= 2} =
            {k \in DOMAIN goals : goals[k] \in Y}
  BY <1>1
<1>4. /\ {i \in PlacesOfGoals(l) : at[i] \in X} = StandsFor(l, t)
      /\ {i \in PlacesOfGoals(l) : at[i] \in Y} = {i \in StandsFor(l, t) : at[i].period <= 2}
  BY DEF StandsFor
<1> HIDE DEF at, X, Y
<1>5. /\ Cardinality(PlacesIn(goals, DOMAIN goals, X)) =
            Cardinality(PlacesIn(at, PlacesOfGoals(l), X))
      /\ Cardinality(PlacesIn(goals, DOMAIN goals, Y)) =
            Cardinality(PlacesIn(at, PlacesOfGoals(l), Y))
  BY GoalsCounted DEF goals, at
<1> QED  BY <1>2, <1>3, <1>4, <1>5 DEF PlacesIn, goals, at

(* No decision takes back a goal against oneself, and none is scored in a  *)
(* shootout.                                                               *)
OwnGoalsStand ==
    \A e \in Event : e.type = "own_goal" =>
        /\ e.period # 5
        /\ \A c \in Correction : ~(c.kind = "disallow" /\ c.supersedes = e.id)

(* Then what the metrics count for a team are its standing goals. *)
LEMMA CreditedAlike ==
    ASSUME OwnGoalsStand, NEW l \in Seq(Record), NamedIn(l), NEW t \in {Home, Away}
    PROVE  \E n \in Nat :
             /\ DOMAIN EffectiveEvents(l) = 1 .. n
             /\ StandsFor(l, t) \subseteq 1 .. n
             /\ \A i \in 1 .. n :
                  /\ EffectiveEvents(l)[i].minute \in Nat
                  /\ EffectiveEvents(l)[i].period \in Nat
                  /\ i \in StandsFor(l, t) <=>
                        EffectiveEvents(l)[i].period # 5 /\ CreditedTo(EffectiveEvents(l)[i], t)
                  /\ i \in StandsFor(l, t) =>
                        GoalsAtPlaces(l)[i].period = EffectiveEvents(l)[i].period
<1> DEFINE read == Read(l)
           home == HomeOf(Ordered(l))
           away == AwayOf(Ordered(l))
           w(i) == VerdictOn(Verdict(l), read[i].id)
           ev == EffectiveEvents(l)
<1>1. PICK n \in Nat : /\ DOMAIN Ordered(l) = 1 .. n /\ DOMAIN read = 1 .. n
                       /\ \A i \in 1 .. n : /\ Ordered(l)[i] \in EventsIn(l)
                                            /\ IsAsRead(read[i], Ordered(l)[i])
  BY ReadIs
<1>2. home \in {Home, Away} /\ away = Opponent(home)
  BY TeamsOfTheMatch
<1>3. /\ ev = [i \in DOMAIN read |-> [read[i] EXCEPT !.goal = @ /\ ~w(i).disallowed]]
      /\ \A i \in DOMAIN read : i \in StandsFor(l, t) <=>
            /\ ~InShootout(read[i])
            /\ Credited(read[i], w(i), home, away) = t
            /\ ~w(i).disallowed
      /\ \A i \in StandsFor(l, t) : GoalsAtPlaces(l)[i].period = read[i].period
      /\ StandsFor(l, t) \subseteq DOMAIN read
  <2>1. ev = [i \in DOMAIN read |-> [read[i] EXCEPT !.goal = @ /\ ~w(i).disallowed]]
    BY DEF EffectiveEvents, Read
  <2>2. \A i : i \in PlacesOfGoals(l) <=>
            i \in DOMAIN read /\ ~InShootout(read[i]) /\ Credited(read[i], w(i), home, away) # NoTeam
    BY DEF PlacesOfGoals, Listed
  <2>3. GoalsAtPlaces(l) =
            [i \in DOMAIN read |-> GoalRecord(read[i], Credited(read[i], w(i), home, away), w(i))]
    BY DEF GoalsAtPlaces, GoalAt
  <2> HIDE DEF read, home, away, w, ev
  <2>4. \A i \in DOMAIN read : /\ GoalsAtPlaces(l)[i].team = Credited(read[i], w(i), home, away)
                               /\ GoalsAtPlaces(l)[i].disallowed = w(i).disallowed
                               /\ GoalsAtPlaces(l)[i].period = read[i].period
    BY <2>3 DEF GoalRecord
  <2>5. t # NoTeam
    BY FoldRecords
  <2> QED  BY <2>1, <2>2, <2>4, <2>5 DEF StandsFor
<1>4. ASSUME NEW i \in 1 .. n, read[i].type = "own_goal"
      PROVE  ~w(i).disallowed /\ read[i].period # 5
  <2>1. PICK N \in Nat :
          /\ Decisions(l) \in [1 .. N -> CorrectionsIn(l)]
          /\ w(i).disallowed <=> StruckBy(Decisions(l), N, read[i].id)
    BY VerdictsOfLog
  <2>2. /\ Ordered(l)[i] \in Event /\ Ordered(l)[i].type = "own_goal"
        /\ read[i].id = Ordered(l)[i].id /\ read[i].period = Ordered(l)[i].period
    BY <1>1, <1>4 DEF EventsIn, IsAsRead
  <2>3. \A c \in Correction : ~(c.kind = "disallow" /\ c.supersedes = read[i].id)
    BY <2>2 DEF OwnGoalsStand
  <2>4. ~StruckBy(Decisions(l), N, read[i].id)
    BY <2>1, <2>3 DEF StruckBy, Decides, CorrectionsIn
  <2> QED  BY <2>1, <2>2, <2>4 DEF OwnGoalsStand
<1>5. \A i \in 1 .. n :
        /\ read[i].minute \in Nat /\ read[i].period \in Nat
        /\ DOMAIN read[i] = {"id", "type", "period", "minute", "index", "team", "player", "goal",
                             "xg", "card"}
        /\ read[i].type \in {"shot", "own_goal"} => read[i].team \in {Home, Away}
  BY <1>1, FoldRecords DEF EventsIn, IsAsRead
<1> HIDE DEF read, home, away, w, ev
<1>6. /\ DOMAIN ev = 1 .. n
      /\ \A i \in 1 .. n :
           /\ ev[i].type = read[i].type /\ ev[i].team = read[i].team
           /\ ev[i].period = read[i].period /\ ev[i].minute = read[i].minute
           /\ ev[i].goal <=> read[i].goal /\ ~w(i).disallowed
  BY <1>1, <1>3, <1>5
<1>7. ASSUME NEW i \in 1 .. n
      PROVE  i \in StandsFor(l, t) <=> ev[i].period # 5 /\ CreditedTo(ev[i], t)
  <2>1. Home # Away /\ NoTeam # Home /\ NoTeam # Away /\ t # NoTeam
    BY FoldRecords
  <2>2. CASE read[i].type = "shot"
    <3>1. Credited(read[i], w(i), home, away) = t <=> read[i].goal /\ read[i].team = t
      BY <2>1, <2>2 DEF Credited
    <3> QED  BY <1>1, <1>3, <1>6, <2>2, <3>1 DEF CreditedTo, InShootout
  <2>3. CASE read[i].type = "own_goal"
    <3>1. Credited(read[i], w(i), home, away) = Opponent(read[i].team)
      BY <1>2, <1>5, <2>1, <2>3 DEF Credited, Opponent
    <3> QED  BY <1>1, <1>3, <1>4, <1>6, <2>3, <3>1 DEF CreditedTo, InShootout
  <2>4. CASE read[i].type \notin {"shot", "own_goal"}
    <3>1. Credited(read[i], w(i), home, away) = NoTeam
      BY <2>4 DEF Credited
    <3> QED  BY <1>1, <1>3, <1>6, <2>1, <2>4, <3>1 DEF CreditedTo
  <2> QED  BY <2>2, <2>3, <2>4
<1>8. StandsFor(l, t) \subseteq 1 .. n
  BY <1>1, <1>3
<1>9. ASSUME NEW i \in 1 .. n
      PROVE  /\ ev[i].minute \in Nat /\ ev[i].period \in Nat
             /\ i \in StandsFor(l, t) => GoalsAtPlaces(l)[i].period = ev[i].period
  BY <1>3, <1>5, <1>6
<1> QED  BY <1>6, <1>7, <1>8, <1>9 DEF ev

(* "a correction moves every number, not only the score" (match_state.py,  *)
(* 449-452): once both teams are named the metrics count the goals of the  *)
(* score, for every match in which no own goal is disallowed (effective_   *)
(* events takes the goal from a disallowed shot and from nothing else) or  *)
(* given in the shootout.                                                  *)
THEOREM MetricsCountTheScore ==
    ASSUME OwnGoalsStand
    PROVE  Spec => []OneScore
<1>1. ASSUME Recorded, NamedIn(log), NEW t \in {Home, Away}
      PROVE  MetricsGoals(EffectiveEvents(log), t) = GoalsFor(Project(log), t)
  <2> DEFINE ev == EffectiveEvents(log)
  <2>1. PICK n \in Nat :
          /\ DOMAIN ev = 1 .. n /\ StandsFor(log, t) \subseteq 1 .. n
          /\ \A i \in 1 .. n : i \in StandsFor(log, t) <=> ev[i].period # 5 /\ CreditedTo(ev[i], t)
    BY <1>1, CreditedAlike DEF Recorded
  <2> HIDE DEF ev
  <2>2. {i \in DOMAIN ev : ev[i].period # 5 /\ CreditedTo(ev[i], t)} = StandsFor(log, t)
    BY <2>1
  <2> QED  BY <1>1, <2>2, StandingCounted DEF Recorded, MetricsGoals, ev
<1>2. BothTeamsNamed => NamedIn(log)
  BY DEF BothTeamsNamed, NamedIn, EventsIn, ToSet
<1>3. Recorded => OneScore
  BY <1>1, <1>2 DEF OneScore
<1> QED  BY <1>3, LogOfRecords, PTL

(* Under the same condition every standing goal of regulation is counted   *)
(* once in the label a match is trained on, in the minutes before the      *)
(* ninetieth or among the late ones, whatever the length of stoppage time. *)
THEOREM LabelCountsTheGoals ==
    ASSUME OwnGoalsStand
    PROVE  Spec => []LabelCountsEveryGoal
<1>1. ASSUME Recorded, NamedIn(log), NEW t \in {Home, Away}
      PROVE  LabelGoals(EffectiveEvents(log), t) =
               Cardinality({i \in DOMAIN Project(log).goals :
                               /\ Project(log).goals[i].team = t /\ ~Project(log).goals[i].disallowed
                               /\ Project(log).goals[i].period <= 2})
  <2> DEFINE ev == EffectiveEvents(log)
             at == GoalsAtPlaces(log)
             early == {i \in InRegulation(ev, t) : BucketMinute(ev[i]) < Regulation}
             late == {i \in InRegulation(ev, t) : ev[i].minute >= Regulation}
  <2>1. PICK n \in Nat :
          /\ DOMAIN ev = 1 .. n /\ StandsFor(log, t) \subseteq 1 .. n
          /\ \A i \in 1 .. n :
               /\ ev[i].minute \in Nat /\ ev[i].period \in Nat
               /\ i \in StandsFor(log, t) <=> ev[i].period # 5 /\ CreditedTo(ev[i], t)
               /\ i \in StandsFor(log, t) => at[i].period = ev[i].period
    BY <1>1, CreditedAlike DEF Recorded
  <2>2. LabelGoals(ev, t) = Cardinality(early) + Cardinality(late)
    BY DEF LabelGoals, GoalsBefore, LateGoals
  <2> HIDE DEF ev, at
  <2>3. InRegulation(ev, t) = {i \in StandsFor(log, t) : at[i].period <= 2}
    BY <2>1 DEF InRegulation
  <2>4. \A i \in InRegulation(ev, t) : BucketMinute(ev[i]) < Regulation <=> ~(ev[i].minute >= Regulation)
    BY <2>1 DEF InRegulation, BucketMinute, Regulation
  <2>5. early \cup late = InRegulation(ev, t) /\ early \cap late = {}
    BY <2>4
  <2>6. IsFiniteSet(early) /\ IsFiniteSet(late)
    <3>1. early \in SUBSET (1 .. n) /\ late \in SUBSET (1 .. n)
      BY <2>1 DEF InRegulation
    <3> HIDE DEF early, late
    <3>2. n \in Nat
      BY <2>1
    <3>3. IsFiniteSet(1 .. n)
      BY <3>2, FS_Interval
    <3> QED  BY <3>1, <3>3, FS_Subset
  <2>7. Cardinality(early) + Cardinality(late) = Cardinality(InRegulation(ev, t))
    <3> HIDE DEF early, late
    <3>1. Cardinality(early \cup late) =
              Cardinality(early) + Cardinality(late) - Cardinality(early \cap late)
      BY <2>6, FS_Union
    <3>2. Cardinality(early) \in Nat /\ Cardinality(late) \in Nat
      BY <2>6, FS_CardinalityType
    <3>3. Cardinality(early \cap late) = 0
      BY <2>5, FS_EmptySet
    <3>4. Cardinality(InRegulation(ev, t)) = Cardinality(early) + Cardinality(late) - 0
      BY <2>5, <3>1, <3>3
    <3> QED  BY <3>2, <3>4
  <2> QED  BY <1>1, <2>2, <2>3, <2>7, StandingCounted DEF Recorded, ev, at
<1>2. BothTeamsNamed => NamedIn(log)
  BY DEF BothTeamsNamed, NamedIn, EventsIn, ToSet
<1>3. Recorded => LabelCountsEveryGoal
  BY <1>1, <1>2 DEF LabelCountsEveryGoal
<1> QED  BY <1>3, LogOfRecords, PTL

-----------------------------------------------------------------------------
(* The moments of the report. *)

Ones == {<<x>> : x \in Int}

LEMMA OnesOrdered == OrderedBy(Ones)
<1>1. ASSUME NEW a \in Int, NEW b \in Int PROVE KeyLess(<<a>>, <<b>>) <=> a < b
  <2> DEFINE p == <<a>>
             q == <<b>>
  <2>1. DOMAIN p = {1} /\ p[1] = a /\ q[1] = b /\ 1 .. 1 - 1 = {}
    OBVIOUS
  <2> HIDE DEF p, q
  <2>2. KeyLess(p, q) <=> a < b
    BY <2>1 DEF KeyLess
  <2> QED  BY <2>2 DEF p, q
<1>2. \A a \in Ones : a[1] \in Int /\ a = <<a[1]>>
  BY DEF Ones
<1>3. \A a, b \in Ones : KeyLess(a, b) <=> a[1] < b[1]
  <2> SUFFICES ASSUME NEW a \in Ones, NEW b \in Ones
               PROVE  KeyLess(<<a[1]>>, <<b[1]>>) <=> a[1] < b[1]
    BY <1>2
  <2> QED  BY <1>1, <1>2
<1>4. \A a, b \in Ones : a[1] = b[1] => a = b
  BY <1>2
<1> QED  BY <1>2, <1>3, <1>4 DEF OrderedBy

(* The recursion of select's loop, and of _suppress_duplicates'. *)
NoneTold == [score |-> <<0, 0>>, found |-> <<>>]

LEMMA ConsideredAre ==
    ASSUME NEW es, NEW last, NEW home, NEW N \in Nat, Len(es) = N
    PROVE  /\ Considered(es, last, home)[0] = NoneTold
           /\ \A n \in 1 .. N : Considered(es, last, home)[n] = Consider(Considered(es, last, home)[n - 1], es[n], last, home)
<1> DEFINE Solves(f, n) ==
             f = [i \in 0 .. n |-> IF i = 0 THEN NoneTold ELSE Consider(f[i - 1], es[i], last, home)]
           T == {n \in Nat : \E f : Solves(f, n)}
<1>1. 0 \in T
  <2> DEFINE f == [i \in 0 .. 0 |-> NoneTold]
  <2>1. f = [i \in 0 .. 0 |-> IF i = 0 THEN NoneTold ELSE Consider(f[i - 1], es[i], last, home)]
    OBVIOUS
  <2> QED  BY <2>1
<1>2. ASSUME NEW n \in Nat, n \in T PROVE n + 1 \in T
  <2>1. PICK f : Solves(f, n)
    BY <1>2
  <2>2. /\ DOMAIN f = 0 .. n /\ f[0] = NoneTold
        /\ \A i \in 1 .. n : f[i] = Consider(f[i - 1], es[i], last, home)
    BY <2>1
  <2> DEFINE g == [i \in 0 .. n + 1 |-> IF i = n + 1 THEN Consider(f[n], es[n + 1], last, home)
                                        ELSE f[i]]
  <2>3. \A i \in 0 .. n + 1 :
            g[i] = IF i = 0 THEN NoneTold ELSE Consider(g[i - 1], es[i], last, home)
    <3> SUFFICES ASSUME NEW i \in 0 .. n + 1
                 PROVE  g[i] = IF i = 0 THEN NoneTold ELSE Consider(g[i - 1], es[i], last, home)
      OBVIOUS
    <3>1. CASE i = 0
      BY <2>2, <3>1
    <3>2. CASE i \in 1 .. n
      <4>1. g[i] = f[i] /\ g[i - 1] = f[i - 1] /\ i # 0
        BY <3>2
      <4> QED  BY <2>2, <3>2, <4>1
    <3>3. CASE i = n + 1
      <4>1. g[i] = Consider(f[n], es[i], last, home) /\ i - 1 = n /\ g[n] = f[n] /\ i # 0
        BY <3>3
      <4> QED  BY <4>1
    <3> QED  BY <3>1, <3>2, <3>3
  <2>4. g = [i \in 0 .. n + 1 |-> g[i]]
    OBVIOUS
  <2> HIDE DEF g
  <2>5. Solves(g, n + 1)
    BY <2>3, <2>4
  <2> QED  BY <2>5
<1>3. N \in T
  <2> HIDE DEF T
  <2>1. Nat \subseteq T
    BY <1>1, <1>2, Steps
  <2> QED  BY <2>1
<1>4. \E f : Solves(f, N)
  BY <1>3
<1>5. Considered(es, last, home) = CHOOSE f : Solves(f, N)
  BY DEF Considered, NoneTold
<1>6. Solves(Considered(es, last, home), N)
  <2> HIDE DEF Solves
  <2> QED  BY <1>4, <1>5
<1> QED  BY <1>6

LEMMA KeptAre ==
    ASSUME NEW ms, NEW N \in Nat, Len(ms) = N
    PROVE  /\ KeptAfter(ms)[0] = <<>>
           /\ \A n \in 1 .. N : KeptAfter(ms)[n] = KeepMoment(KeptAfter(ms)[n - 1], ms[n])
<1> DEFINE Solves(f, n) ==
             f = [i \in 0 .. n |-> IF i = 0 THEN <<>> ELSE KeepMoment(f[i - 1], ms[i])]
           T == {n \in Nat : \E f : Solves(f, n)}
<1>1. 0 \in T
  <2> DEFINE f == [i \in 0 .. 0 |-> <<>>]
  <2>1. f = [i \in 0 .. 0 |-> IF i = 0 THEN <<>> ELSE KeepMoment(f[i - 1], ms[i])]
    OBVIOUS
  <2> QED  BY <2>1
<1>2. ASSUME NEW n \in Nat, n \in T PROVE n + 1 \in T
  <2>1. PICK f : Solves(f, n)
    BY <1>2
  <2>2. /\ DOMAIN f = 0 .. n /\ f[0] = <<>>
        /\ \A i \in 1 .. n : f[i] = KeepMoment(f[i - 1], ms[i])
    BY <2>1
  <2> DEFINE g == [i \in 0 .. n + 1 |-> IF i = n + 1 THEN KeepMoment(f[n], ms[n + 1])
                                        ELSE f[i]]
  <2>3. \A i \in 0 .. n + 1 :
            g[i] = IF i = 0 THEN <<>> ELSE KeepMoment(g[i - 1], ms[i])
    <3> SUFFICES ASSUME NEW i \in 0 .. n + 1
                 PROVE  g[i] = IF i = 0 THEN <<>> ELSE KeepMoment(g[i - 1], ms[i])
      OBVIOUS
    <3>1. CASE i = 0
      BY <2>2, <3>1
    <3>2. CASE i \in 1 .. n
      <4>1. g[i] = f[i] /\ g[i - 1] = f[i - 1] /\ i # 0
        BY <3>2
      <4> QED  BY <2>2, <3>2, <4>1
    <3>3. CASE i = n + 1
      <4>1. g[i] = KeepMoment(f[n], ms[i]) /\ i - 1 = n /\ g[n] = f[n] /\ i # 0
        BY <3>3
      <4> QED  BY <4>1
    <3> QED  BY <3>1, <3>2, <3>3
  <2>4. g = [i \in 0 .. n + 1 |-> g[i]]
    OBVIOUS
  <2> HIDE DEF g
  <2>5. Solves(g, n + 1)
    BY <2>3, <2>4
  <2> QED  BY <2>5
<1>3. N \in T
  <2> HIDE DEF T
  <2>1. Nat \subseteq T
    BY <1>1, <1>2, Steps
  <2> QED  BY <2>1
<1>4. \E f : Solves(f, N)
  BY <1>3
<1>5. KeptAfter(ms) = CHOOSE f : Solves(f, N)
  BY DEF KeptAfter
<1>6. Solves(KeptAfter(ms), N)
  <2> HIDE DEF Solves
  <2> QED  BY <1>4, <1>5
<1> QED  BY <1>6

(* What is known of every moment. *)
Momentous(S) ==
    \A m \in S : m.mandatory \in BOOLEAN /\ {m.period, m.minute, m.swing} \subseteq Nat

(* What select's loop finds are moments. *)
LEMMA MomentsFound ==
    ASSUME NEW n \in Nat, NEW es \in [1 .. n -> Event], Len(es) = n, NEW corrections, NEW home
    PROVE  \E S : Momentous(S) /\ Candidates(es, corrections, home).found \in Seq(S)
<1> DEFINE last == CorrectionOf(corrections)
           told(k) == Considered(es, last, home)[k]
           T == {k \in Nat : k <= n => \E S : Momentous(S) /\ told(k).found \in Seq(S)}
<1> HIDE DEF last
<1>1. 0 \in T
  <2>1. told(0).found = <<>>
    BY ConsideredAre DEF NoneTold
  <2>2. Momentous({}) /\ <<>> \in Seq({})
    BY DEF Momentous
  <2> QED  BY <2>1, <2>2
<1>2. ASSUME NEW k \in Nat, k \in T PROVE k + 1 \in T
  <2> SUFFICES ASSUME k + 1 <= n
               PROVE  \E S : Momentous(S) /\ told(k + 1).found \in Seq(S)
    OBVIOUS
  <2>1. PICK S : Momentous(S) /\ told(k).found \in Seq(S)
    BY <1>2
  <2>2. k + 1 \in 1 .. n /\ (k + 1) - 1 = k /\ es[k + 1] \in Event
    OBVIOUS
  <2> DEFINE e == es[k + 1]
             t == told(k)
  <2>3. told(k + 1) = Consider(t, e, last, home)
    BY <2>2, ConsideredAre
  <2>4. e.period \in Nat /\ e.minute \in Nat
    BY <2>2, FoldRecords
  <2>5. SwingAt(e.minute) \in Nat
    BY DocumentConstants DEF SwingAt
  <2> HIDE DEF e, t
  <2>6. \/ told(k + 1) = t
        \/ \E m : /\ told(k + 1).found = Append(t.found, m)
                  /\ m.mandatory \in BOOLEAN /\ {m.period, m.minute, m.swing} \subseteq Nat
    <3> DEFINE moment(kind, score) ==
                 [ kind |-> kind, id |-> e.id, period |-> e.period, minute |-> e.minute,
                   swing |-> SwingAt(e.minute), scoreAfter |-> score,
                   mandatory |-> kind # "big_chance" ]
    <3>1. \A kind, score :
             LET m == moment(kind, score)
             IN  m.mandatory \in BOOLEAN /\ {m.period, m.minute, m.swing} \subseteq Nat
      BY <2>4, <2>5
    <3>2. \/ told(k + 1) = t
          \/ \E kind, score : told(k + 1) =
                [score |-> score, found |-> Append(t.found, moment(kind, score))]
      <4> DEFINE ruledOut == e.id \in DOMAIN last /\ last[e.id].kind = "disallow"
                 scored == [t.score EXCEPT ![ScoredSide(e, home)] = @ + 1]
                 add(kind, score) ==
                   [score |-> score, found |-> Append(t.found, moment(kind, score))]
      <4>1. \/ told(k + 1) = t
            \/ told(k + 1) = IF ruledOut THEN add("disallowed_goal", t.score)
                                         ELSE add("goal", scored)
            \/ told(k + 1) = add("red_card", t.score)
            \/ told(k + 1) = add("big_chance", t.score)
        BY <2>3, Zenon DEF Consider
      <4> HIDE DEF moment, ruledOut, scored
      <4> QED  BY <4>1
    <3> HIDE DEF moment, told
    <3>3. ASSUME NEW kind, NEW score,
                 told(k + 1) = [score |-> score, found |-> Append(t.found, moment(kind, score))]
          PROVE  told(k + 1).found = Append(t.found, moment(kind, score))
      BY <3>3
    <3> QED  BY <3>1, <3>2, <3>3
  <2>7. ASSUME NEW m, told(k + 1).found = Append(t.found, m),
               m.mandatory \in BOOLEAN, {m.period, m.minute, m.swing} \subseteq Nat
        PROVE  Momentous(S \cup {m}) /\ told(k + 1).found \in Seq(S \cup {m})
    <3>1. t.found \in Seq(S \cup {m})
      BY <2>1 DEF t
    <3>2. Append(t.found, m) \in Seq(S \cup {m})
      BY <3>1
    <3> QED  BY <2>1, <2>7, <3>2 DEF Momentous
  <2> HIDE DEF told
  <2> QED  BY <2>1, <2>6, <2>7 DEF t
<1>3. n \in T
  <2> HIDE DEF T
  <2>1. Nat \subseteq T
    BY <1>1, <1>2, Steps
  <2> QED  BY <2>1
<1>4. Candidates(es, corrections, home) = told(n)
  BY DEF Candidates, last
<1> QED  BY <1>3, <1>4

(* A sort keeps what is sorted. *)
LEMMA SortedKeeps ==
    ASSUME NEW S, NEW s \in Seq(S), NEW key, NEW K, OrderedBy(K),
           \A i \in DOMAIN s : key[i] \in K
    PROVE  /\ Sorted(s, key) \in Seq(S) /\ Len(Sorted(s, key)) = Len(s)
           /\ ToSet(Sorted(s, key)) = ToSet(s)
<1> DEFINE n == Len(s)
           r == Sorted(s, key)
<1>1. n \in Nat /\ DOMAIN s = 1 .. n /\ \A i \in 1 .. n : s[i] \in S
  OBVIOUS
<1>2. PICK q : ByKeys(q, key, n) /\ r = Through(s, q, n)
  <2> HIDE DEF n
  <2> QED  BY <1>1, SortedIs
<1> HIDE DEF n, r
<1>3. DOMAIN r = 1 .. n /\ \A k \in 1 .. n : q[k] \in 1 .. n /\ r[k] = s[q[k]]
  BY <1>2 DEF ByKeys, Through
<1>4. r = [k \in 1 .. n |-> s[q[k]]]
  BY <1>2 DEF Through
<1>5. r \in [1 .. n -> S]
  BY <1>1, <1>3, <1>4
<1>6. r \in Seq(S) /\ Len(r) = n
  BY <1>1, <1>5
<1>7. ToSet(r) \subseteq ToSet(s)
  BY <1>1, <1>3 DEF ToSet
<1>8. ASSUME NEW i \in 1 .. n PROVE s[i] \in ToSet(r)
  <2>1. PICK k \in 1 .. n : q[k] = i
    BY <1>2 DEF ByKeys
  <2> QED  BY <1>3, <2>1 DEF ToSet
<1> QED  BY <1>1, <1>6, <1>7, <1>8 DEF n, r, ToSet

LEMMA PickKeeps ==
    ASSUME NEW S, NEW s \in Seq(S), NEW places \in SUBSET DOMAIN s
    PROVE  Pick(s, places) \in Seq(S) /\ ToSet(Pick(s, places)) = {s[i] : i \in places}
<1> DEFINE n == Len(s)
           m == Cardinality(places)
           p == Pick(s, places)
<1>1. n \in Nat /\ DOMAIN s = 1 .. n /\ \A i \in 1 .. n : s[i] \in S
  OBVIOUS
<1>2. places \in SUBSET (1 .. n)
  BY <1>1
<1> HIDE DEF n
<1>3. /\ m \in Nat
      /\ \E q : Upwards(q, places) /\ p = Through(s, q, m)
  BY <1>1, <1>2, PickIs
<1>4. PICK q : Upwards(q, places) /\ p = Through(s, q, m)
  BY <1>3
<1> HIDE DEF m, p
<1>5. \A k \in 1 .. m : q[k] \in places
  BY <1>4 DEF Upwards, m
<1>6. p = [k \in 1 .. m |-> s[q[k]]]
  BY <1>4 DEF Through
<1>7. p \in [1 .. m -> S]
  BY <1>1, <1>2, <1>5, <1>6
<1>8. p \in Seq(S)
  BY <1>3, <1>7
<1>9. ToSet(p) = {s[i] : i \in places}
  BY <1>1, <1>2, PickedOnes DEF p
<1> QED  BY <1>8, <1>9 DEF p

(* The larger swing first. *)
LEMMA BySwingIs ==
    ASSUME NEW S, Momentous(S), NEW ms \in Seq(S)
    PROVE  /\ BySwing(ms) \in Seq(S) /\ Len(BySwing(ms)) = Len(ms)
           /\ ToSet(BySwing(ms)) = ToSet(ms)
           /\ \A i, j \in 1 .. Len(ms) : i < j => BySwing(ms)[i].swing >= BySwing(ms)[j].swing
<1> DEFINE n == Len(ms)
           key == [i \in DOMAIN ms |-> <<0 - ms[i].swing>>]
           b == Sorted(ms, key)
<1>1. n \in Nat /\ DOMAIN ms = 1 .. n /\ \A i \in 1 .. n : ms[i] \in S /\ ms[i].swing \in Nat
  BY DEF Momentous
<1>2. /\ \A i \in DOMAIN ms : key[i] \in Ones
      /\ \A i \in 1 .. n : key[i] = <<0 - ms[i].swing>>
  BY <1>1 DEF Ones
<1>3. BySwing(ms) = b
  BY DEF BySwing
<1> HIDE DEF n, key
<1>4. b \in Seq(S) /\ Len(b) = n /\ ToSet(b) = ToSet(ms)
  BY <1>2, SortedKeeps, OnesOrdered DEF n
<1>5. PICK q : ByKeys(q, key, n) /\ b = Through(ms, q, n)
  BY <1>1, <1>2, SortedIs, OnesOrdered
<1> HIDE DEF b
<1>6. ASSUME NEW i \in 1 .. n, NEW j \in 1 .. n, i < j PROVE b[i].swing >= b[j].swing
  <2>1. /\ q[i] \in 1 .. n /\ q[j] \in 1 .. n /\ b[i] = ms[q[i]] /\ b[j] = ms[q[j]]
        /\ ~KeyLess(key[q[j]], key[q[i]])
    BY <1>5, <1>6 DEF ByKeys, Through
  <2>2. key[q[i]] = <<0 - b[i].swing>> /\ key[q[j]] = <<0 - b[j].swing>>
    BY <1>2, <2>1
  <2>3. b[i].swing \in Nat /\ b[j].swing \in Nat
    BY <1>1, <2>1
  <2>4. ~(b[i].swing < b[j].swing)
    <3> SUFFICES ASSUME b[i].swing < b[j].swing PROVE KeyLess(key[q[j]], key[q[i]])
      BY <2>1
    <3>1. 0 - b[j].swing < 0 - b[i].swing /\ 1 \in DOMAIN key[q[j]] /\ 1 .. 1 - 1 = {}
      BY <2>2, <2>3
    <3> QED  BY <2>2, <3>1 DEF KeyLess
  <2> QED  BY <2>3, <2>4
<1> QED  BY <1>3, <1>4, <1>6 DEF n

(* m, or a mandatory one of its passage that is no smaller, is kept. *)
Represented(m, kept) ==
    \/ m \in ToSet(kept)
    \/ \E k \in ToSet(kept) : Near(k, m) /\ k.mandatory /\ k.swing >= m.swing

(* A mandatory moment gives way to another of them only. *)
LEMMA MandatoryStays ==
    ASSUME NEW S, Momentous(S), NEW ms \in Seq(S)
    PROVE  /\ SuppressDuplicates(ms) \in Seq(S)
           /\ \A m \in ToSet(ms) : m.mandatory => Represented(m, SuppressDuplicates(ms))
<1> DEFINE n == Len(ms)
           b == BySwing(ms)
           kept(k) == KeptAfter(b)[k]
           Good(k) == /\ kept(k) \in Seq(S)
                      /\ \A m \in ToSet(kept(k)) : \E i \in 1 .. k : m = b[i]
                      /\ \A i \in 1 .. k : b[i].mandatory => Represented(b[i], kept(k))
           T == {k \in Nat : k <= n => Good(k)}
<1>1. /\ n \in Nat /\ b \in Seq(S) /\ Len(b) = n /\ ToSet(b) = ToSet(ms)
      /\ \A i, j \in 1 .. n : i < j => b[i].swing >= b[j].swing
  <2>1. n \in Nat
    OBVIOUS
  <2> HIDE DEF b
  <2> QED  BY <2>1, BySwingIs DEF b
<1> HIDE DEF n, b
<1>2. DOMAIN b = 1 .. n /\ \A i \in 1 .. n : b[i] \in S
  BY <1>1
<1>3. /\ kept(0) = <<>>
      /\ \A k \in 1 .. n : kept(k) = KeepMoment(kept(k - 1), b[k])
  BY <1>1, KeptAre
<1> HIDE DEF kept
<1>4. 0 \in T
  <2>1. <<>> \in Seq(S) /\ ToSet(<<>>) = {} /\ 1 .. 0 = {}
    BY DEF ToSet
  <2> QED  BY <1>3, <2>1
<1>5. ASSUME NEW k \in Nat, k \in T PROVE k + 1 \in T
  <2> SUFFICES ASSUME k + 1 <= n PROVE Good(k + 1)
    OBVIOUS
  <2> DEFINE m == b[k + 1]
             s == kept(k)
             t == kept(k + 1)
             stay == {i \in DOMAIN s : ~Yields(s[i], m)}
  <2>1. k + 1 \in 1 .. n /\ (k + 1) - 1 = k /\ m \in S
    BY <1>2
  <2>2. /\ s \in Seq(S)
        /\ \A x \in ToSet(s) : \E i \in 1 .. k : x = b[i]
        /\ \A i \in 1 .. k : b[i].mandatory => Represented(b[i], s)
    <3> HIDE DEF Good
    <3>1. k <= n
      BY <1>1
    <3>2. Good(k)
      BY <1>5, <3>1
    <3> QED  BY <3>2 DEF Good
  <2>3. t = KeepMoment(s, m)
    BY <1>3, <2>1
  <2>4. \A x \in ToSet(s) : x \in S /\ x.swing >= m.swing
    <3> SUFFICES ASSUME NEW x \in ToSet(s) PROVE x \in S /\ x.swing >= m.swing
      OBVIOUS
    <3>1. PICK i \in 1 .. k : x = b[i]
      BY <2>2
    <3>2. i \in 1 .. n /\ i < k + 1
      BY <1>1, <2>1
    <3> QED  BY <1>1, <1>2, <2>1, <3>1, <3>2
  <2>5. \A i \in 1 .. k + 1 : i \in 1 .. k \/ i = k + 1
    OBVIOUS
  <2>6. \A i \in 1 .. k : i \in 1 .. k + 1
    OBVIOUS
  <2> HIDE DEF s, t, m, Good
  <2>7. CASE \E x \in ToSet(s) : Near(x, m) /\ ~Yields(x, m)
    <3>1. t = s
      BY <2>3, <2>7 DEF KeepMoment
    <3>2. m.mandatory => Represented(m, s)
      <4> SUFFICES ASSUME m.mandatory PROVE Represented(m, s)
        OBVIOUS
      <4>1. PICK x \in ToSet(s) : Near(x, m) /\ ~Yields(x, m)
        BY <2>7
      <4>2. x.mandatory
        BY <4>1 DEF Yields
      <4> QED  BY <2>4, <4>1, <4>2 DEF Represented
    <3> QED  BY <2>2, <2>5, <2>6, <3>1, <3>2 DEF Good, s, t, m
  <2>8. CASE ~\E x \in ToSet(s) : Near(x, m) /\ ~Yields(x, m)
    <3> DEFINE p == Pick(s, stay)
    <3>1. t = Append(p, m)
      BY <2>3, <2>8 DEF KeepMoment
    <3>2. p \in Seq(S) /\ ToSet(p) = {s[i] : i \in stay}
      <4>1. stay \in SUBSET DOMAIN s
        OBVIOUS
      <4> HIDE DEF stay
      <4> QED  BY <2>2, <4>1, PickKeeps
    <3>3. ToSet(p) = {x \in ToSet(s) : ~Yields(x, m)}
      BY <3>2 DEF ToSet
    <3> HIDE DEF p, stay
    <3>4. t \in Seq(S) /\ ToSet(t) = ToSet(p) \cup {m}
      <4>1. t \in Seq(S)
        BY <2>1, <3>1, <3>2 DEF m
      <4>2. /\ DOMAIN p = 1 .. Len(p) /\ Len(p) \in Nat
            /\ DOMAIN t = 1 .. Len(p) + 1
            /\ \A i \in 1 .. Len(p) : t[i] = p[i]
            /\ t[Len(p) + 1] = m
        BY <2>1, <3>1, <3>2 DEF m
      <4>3. ToSet(t) \subseteq ToSet(p) \cup {m}
        BY <4>2 DEF ToSet
      <4>4. ToSet(p) \subseteq ToSet(t)
        BY <4>2 DEF ToSet
      <4>5. m \in ToSet(t)
        BY <4>2 DEF ToSet
      <4> QED  BY <4>1, <4>3, <4>4, <4>5
    <3>5. \A x \in ToSet(s) : x.mandatory => x \in ToSet(t)
      BY <3>3, <3>4 DEF Yields
    <3>6. \A i \in 1 .. k : b[i].mandatory => Represented(b[i], t)
      <4> SUFFICES ASSUME NEW i \in 1 .. k, b[i].mandatory PROVE Represented(b[i], t)
        OBVIOUS
      <4>1. Represented(b[i], s)
        BY <2>2
      <4> QED  BY <3>5, <4>1 DEF Represented
    <3>7. Represented(m, t)
      BY <3>4 DEF Represented
    <3>8. \A x \in ToSet(t) : \E i \in 1 .. k + 1 : x = b[i]
      <4>1. k + 1 \in 1 .. k + 1
        OBVIOUS
      <4> QED  BY <2>2, <2>6, <3>3, <3>4, <4>1 DEF m
    <3> QED  BY <2>5, <3>4, <3>6, <3>7, <3>8 DEF Good, t, m
  <2> QED  BY <2>7, <2>8
<1>6. Good(n)
  <2>1. n \in T
    <3> HIDE DEF T
    <3>1. Nat \subseteq T
      BY <1>4, <1>5, Steps
    <3> QED  BY <1>1, <3>1
  <2> QED  BY <1>1, <2>1
<1>7. SuppressDuplicates(ms) = kept(n)
  BY DEF SuppressDuplicates, kept, b, n
<1>8. ASSUME NEW m \in ToSet(ms), m.mandatory PROVE Represented(m, kept(n))
  <2>1. PICK i \in 1 .. n : m = b[i]
    BY <1>1, <1>2 DEF ToSet
  <2> QED  BY <1>6, <1>8, <2>1
<1> QED  BY <1>6, <1>7, <1>8

(* The report of some moments has each mandatory one, or another one that  *)
(* stands for it.                                                          *)
LEMMA SelectKeeps ==
    ASSUME NEW S, Momentous(S), NEW found \in Seq(S), NEW m \in ToSet(found), m.mandatory
    PROVE  Represented(m, Select(found))
<1> DEFINE places == {i \in DOMAIN found : found[i].mandatory}
           others == {i \in DOMAIN found : ~found[i].mandatory}
           mandatory == Pick(found, places)
           chances == Pick(found, others)
           optional == BySwing(chances)
           room == IF Len(mandatory) >= MAX_MOMENTS THEN 0 ELSE MAX_MOMENTS - Len(mandatory)
           few == IF Len(optional) < room THEN Len(optional) ELSE room
           all == mandatory \o SubSeq(optional, 1, few)
           chosen == SuppressDuplicates(all)
           key == [i \in DOMAIN chosen |-> <<chosen[i].period, chosen[i].minute>>]
<1>1. Select(found) = Sorted(chosen, key)
  BY DEF Select
<1>2. mandatory \in Seq(S) /\ ToSet(mandatory) = {found[i] : i \in places}
  <2>1. places \in SUBSET DOMAIN found
    OBVIOUS
  <2> HIDE DEF places
  <2> QED  BY <2>1, PickKeeps
<1>3. chances \in Seq(S)
  <2>1. others \in SUBSET DOMAIN found
    OBVIOUS
  <2> HIDE DEF others
  <2> QED  BY <2>1, PickKeeps
<1>4. m \in ToSet(mandatory)
  <2>1. PICK i \in DOMAIN found : found[i] = m
    BY DEF ToSet
  <2> HIDE DEF mandatory
  <2> QED  BY <1>2, <2>1
<1> HIDE DEF mandatory, chances, places, others
<1>5. optional \in Seq(S) /\ Len(optional) \in Nat
  <2>1. BySwing(chances) \in Seq(S)
    BY <1>3, BySwingIs
  <2> QED  BY <2>1
<1> HIDE DEF optional
<1>6. few \in Nat /\ few <= Len(optional)
  BY <1>2, <1>5, DocumentConstants
<1> HIDE DEF few
<1> DEFINE rest == SubSeq(optional, 1, few)
<1>7. rest \in Seq(S)
  BY <1>5, <1>6
<1> HIDE DEF rest
<1>8. all \in Seq(S) /\ m \in ToSet(all)
  <2>1. all = mandatory \o rest
    BY DEF rest
  <2>2. mandatory \o rest \in Seq(S)
    BY <1>2, <1>7
  <2>3. PICK i \in DOMAIN mandatory : mandatory[i] = m
    BY <1>4 DEF ToSet
  <2>4. i \in DOMAIN (mandatory \o rest) /\ (mandatory \o rest)[i] = m
    BY <1>2, <1>7, <2>3
  <2>5. m \in ToSet(mandatory \o rest)
    BY <2>4 DEF ToSet
  <2> QED  BY <2>1, <2>2, <2>5
<1> HIDE DEF all
<1>9. chosen \in Seq(S) /\ Represented(m, chosen)
  BY <1>8, MandatoryStays
<1> HIDE DEF chosen
<1>10. \A i \in DOMAIN chosen : key[i] \in Pairs
  BY <1>9 DEF Momentous, Pairs
<1>11. ToSet(Sorted(chosen, key)) = ToSet(chosen)
  <2> HIDE DEF key
  <2> QED  BY <1>9, <1>10, SortedKeeps, PairsOrdered
<1> QED  BY <1>1, <1>9, <1>11 DEF Represented

(* "A goal is never suppressed by a chance: the mandatory moments are the  *)
(* spine of the report" (selector.py, 242-243), for every match, whatever  *)
(* each of its minutes moves the odds by and however many moments a report *)
(* has: one that is missing gave way to another of them, of its own        *)
(* passage of play and no smaller.                                         *)
THEOREM GoalsOutliveChances == Spec => []GoalOutlivesChance
<1>1. ASSUME Recorded PROVE GoalOutlivesChance
  <2> DEFINE found == Candidates(Ordered(log), InDecisionOrder(Corrections(log)),
                                 Project(log).home).found
  <2>1. \E S : Momentous(S) /\ found \in Seq(S)
    <3>1. PICK n \in Nat : Ordered(log) \in [1 .. n -> EventsIn(log)]
      BY <1>1, EventsInOrder DEF Recorded, InKeyOrder
    <3>2. Ordered(log) \in [1 .. n -> Event] /\ Len(Ordered(log)) = n
      BY <3>1 DEF EventsIn
    <3> QED  BY <3>2, MomentsFound
  <2> HIDE DEF found
  <2>2. \A m \in ToSet(found) : m.mandatory => Represented(m, Select(found))
    BY <2>1, SelectKeeps
  <2>3. ASSUME NEW reported \in {ToSet(Select(found))}, NEW m \in ToSet(found) \ reported,
               m.mandatory
        PROVE  \E k \in reported : Near(k, m) /\ k.mandatory /\ k.swing >= m.swing
    BY <2>2, <2>3 DEF Represented
  <2> QED  BY <2>3 DEF GoalOutlivesChance, found
<1> QED  BY <1>1, LogOfRecords, PTL

=============================================================================
