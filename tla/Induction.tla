------------------------------- MODULE Induction -------------------------------
(***************************************************************************)
(* Induction and recursion for the proofs about recursive functions.       *)
(*                                                                         *)
(* The induction theorems of the library are about predicates, which these *)
(* lemmas replace by sets: a set of naturals that has a member has a least *)
(* one, because < is well-founded.  A function that is defined recursively *)
(* over the naturals by iterating another one exists.  The last section is *)
(* about maxima.                                                           *)
(***************************************************************************)
EXTENDS Integers, FiniteSets, WellFoundedInduction, FiniteSetTheorems, TLAPS

LEMMA LeastNatural ==
  ASSUME NEW T \in SUBSET Nat, T # {}
  PROVE  \E x \in T : \A y \in T : x <= y
<1> DEFINE R == {ss \in Nat \X Nat : ss[1] < ss[2]}
<1>1. IsWellFoundedOn(R, Nat)
  BY NatLessThanWellFounded DEF OpToRel
<1>2. \E x \in T : \A y \in T : ~ (<<y, x>> \in R)
  <2> HIDE DEF R
  <2> QED
    BY <1>1, WFMin
<1>3. PICK x \in T : \A y \in T : ~ (<<y, x>> \in R)
  BY <1>2
<1>4. ASSUME NEW y \in T
      PROVE  x <= y
  <2>1. x \in Nat /\ y \in Nat /\ <<y, x>> \in Nat \X Nat
    BY <1>4
  <2>2. ~(y < x)
    BY <1>3, <2>1
  <2> QED
    BY <2>1, <2>2
<1> QED
  BY <1>4

LEMMA InductionOnNaturals ==
  ASSUME NEW S, 0 \in S, \A n \in Nat : n \in S => n + 1 \in S
  PROVE  Nat \subseteq S
<1> DEFINE T == Nat \ S
<1> SUFFICES ASSUME T # {}
             PROVE  FALSE
  OBVIOUS
<1>1. PICK x \in T : \A y \in T : x <= y
  BY LeastNatural
<1>2. x # 0 /\ x - 1 \in Nat /\ x - 1 \notin T
  BY <1>1
<1> QED
  BY <1>2, <1>1

-----------------------------------------------------------------------------
(* Iterating g from a. *)

IsIterated(f, n, S, a, g) ==
  /\ f \in [0 .. n -> S]
  /\ f[0] = a
  /\ \A i \in 1 .. n : f[i] = g[f[i - 1]]

LEMMA IteratedFrom ==
  ASSUME NEW S, NEW a \in S, NEW g \in [S -> S], NEW n \in Nat
  PROVE  \E f : IsIterated(f, n, S, a, g)
<1> DEFINE T == {m \in Nat : \E f : IsIterated(f, m, S, a, g)}
<1>1. 0 \in T
  <2> DEFINE f == [i \in 0 .. 0 |-> a]
  <2>1. IsIterated(f, 0, S, a, g)
    BY DEF IsIterated
  <2> QED
    BY <2>1
<1>2. ASSUME NEW m \in Nat, m \in T
      PROVE  m + 1 \in T
  <2>1. PICK f : IsIterated(f, m, S, a, g)
    BY <1>2
  <2> DEFINE h == [i \in 0 .. m + 1 |-> IF i = m + 1 THEN g[f[m]] ELSE f[i]]
  <2>2. h \in [0 .. m + 1 -> S]
    BY <2>1 DEF IsIterated
  <2>3. h[0] = a
    BY <2>1 DEF IsIterated
  <2>4. \A i \in 1 .. m + 1 : h[i] = g[h[i - 1]]
    BY <2>1 DEF IsIterated
  <2>5. IsIterated(h, m + 1, S, a, g)
    BY <2>2, <2>3, <2>4 DEF IsIterated
  <2> HIDE DEF h
  <2> QED
    BY <2>5
<1> HIDE DEF T
<1>3. Nat \subseteq T
  BY <1>1, <1>2, InductionOnNaturals
<1> QED
  BY <1>3 DEF T

LEMMA IteratedAgree ==
  ASSUME NEW S, NEW a \in S, NEW g \in [S -> S],
         NEW n \in Nat, NEW m \in Nat, m <= n,
         NEW f, IsIterated(f, n, S, a, g), NEW h, IsIterated(h, m, S, a, g)
  PROVE  \A i \in 0 .. m : f[i] = h[i]
<1> DEFINE T == {i \in Nat : i <= m => f[i] = h[i]}
<1>1. 0 \in T
  BY DEF IsIterated
<1>2. ASSUME NEW i \in Nat, i \in T
      PROVE  i + 1 \in T
  BY <1>2 DEF IsIterated
<1> HIDE DEF T
<1>3. Nat \subseteq T
  BY <1>1, <1>2, InductionOnNaturals
<1> QED
  BY <1>3 DEF T

LEMMA IterationExists ==
  ASSUME NEW S, NEW a \in S, NEW g \in [S -> S]
  PROVE  \E f : f = [n \in Nat |-> IF n = 0 THEN a ELSE g[f[n - 1]]]
<1> DEFINE F(n) == CHOOSE f : IsIterated(f, n, S, a, g)
           f == [n \in Nat |-> F(n)[n]]
<1>1. \A n \in Nat : IsIterated(F(n), n, S, a, g)
  BY IteratedFrom
<1> HIDE DEF F
<1>2. f[0] = a
  BY <1>1 DEF IsIterated
<1>3. ASSUME NEW n \in Nat, n # 0
      PROVE  f[n] = g[f[n - 1]]
  <2>1. n - 1 \in Nat /\ n - 1 <= n /\ n \in 1 .. n /\ n - 1 \in 0 .. n - 1
    BY <1>3
  <2>2. F(n)[n] = g[F(n)[n - 1]]
    BY <1>1, <2>1 DEF IsIterated
  <2>3. F(n)[n - 1] = F(n - 1)[n - 1]
    BY <1>1, <2>1, IteratedAgree
  <2> QED
    BY <2>1, <2>2, <2>3
<1>4. f = [n \in Nat |-> IF n = 0 THEN a ELSE g[f[n - 1]]]
  BY <1>2, <1>3
<1> QED
  BY <1>4

LEMMA IterationType ==
  ASSUME NEW S, NEW a \in S, NEW g \in [S -> S],
         NEW f, f = [n \in Nat |-> IF n = 0 THEN a ELSE g[f[n - 1]]]
  PROVE  /\ f \in [Nat -> S]
         /\ f[0] = a
         /\ \A n \in Nat : f[n + 1] = g[f[n]]
<1>1. f[0] = a
  OBVIOUS
<1>2. \A n \in Nat : f[n + 1] = g[f[n]]
  OBVIOUS
<1> DEFINE T == {n \in Nat : f[n] \in S}
<1>3. 0 \in T
  BY <1>1
<1>4. ASSUME NEW n \in Nat, n \in T
      PROVE  n + 1 \in T
  BY <1>2, <1>4
<1>5. Nat \subseteq T
  <2> HIDE DEF T
  <2> QED
    BY <1>3, <1>4, InductionOnNaturals
<1>6. f \in [Nat -> S]
  <2>1. \A n \in Nat : f[n] \in S
    BY <1>5
  <2>2. f = [n \in Nat |-> f[n]]
    OBVIOUS
  <2> QED
    BY <2>1, <2>2
<1> QED
  BY <1>1, <1>2, <1>6

-----------------------------------------------------------------------------
(* Recursion up to a bound: h[<<n, x>>] is what step n makes of x, and Good[n] *)
(* holds what there may be after n steps.                                     *)

Recursion(N, a, h, f) == [n \in 0 .. N |-> IF n = 0 THEN a ELSE h[<<n, f[n - 1]>>]]

LEMMA RecursionExists ==
  ASSUME NEW N \in Nat, NEW a, NEW h
  PROVE  \E f : f = Recursion(N, a, h, f)
<1> DEFINE IsPrefix(f, m) == /\ f = [i \in 0 .. m |-> f[i]]
                            /\ f[0] = a
                            /\ \A i \in 1 .. m : f[i] = h[<<i, f[i - 1]>>]
           T == {m \in Nat : \E f : IsPrefix(f, m)}
<1>1. 0 \in T
  <2> DEFINE f == [i \in 0 .. 0 |-> a]
  <2>1. IsPrefix(f, 0)
    OBVIOUS
  <2> QED
    BY <2>1
<1>2. ASSUME NEW m \in Nat, m \in T
      PROVE  m + 1 \in T
  <2>1. PICK f : IsPrefix(f, m)
    BY <1>2
  <2> DEFINE k == [i \in 0 .. m + 1 |-> IF i = m + 1 THEN h[<<m + 1, f[m]>>] ELSE f[i]]
  <2>2. k[0] = a
    BY <2>1
  <2>3. k[m + 1] = h[<<m + 1, f[m]>>] /\ k[m] = f[m] /\ (m + 1) - 1 = m
    OBVIOUS
  <2>4. \A i \in 1 .. m : k[i] = f[i] /\ k[i - 1] = f[i - 1]
    OBVIOUS
  <2>5. \A i \in 1 .. m + 1 : i = m + 1 \/ i \in 1 .. m
    OBVIOUS
  <2>6. k = [i \in 0 .. m + 1 |-> k[i]]
    OBVIOUS
  <2> HIDE DEF k
  <2>7. \A i \in 1 .. m + 1 : k[i] = h[<<i, k[i - 1]>>]
    BY <2>1, <2>3, <2>4, <2>5
  <2>8. IsPrefix(k, m + 1)
    BY <2>2, <2>6, <2>7
  <2> HIDE DEF IsPrefix
  <2>9. \E f2 : IsPrefix(f2, m + 1)
    BY <2>8
  <2> QED
    BY <2>9
<1> HIDE DEF T
<1>3. Nat \subseteq T
  BY <1>1, <1>2, InductionOnNaturals
<1>4. PICK f : IsPrefix(f, N)
  BY <1>3 DEF T
<1>5. ASSUME NEW n \in 0 .. N
      PROVE  f[n] = IF n = 0 THEN a ELSE h[<<n, f[n - 1]>>]
  <2>1. n = 0 \/ n \in 1 .. N
    OBVIOUS
  <2> QED
    BY <1>4, <2>1
<1>6. f = Recursion(N, a, h, f)
  BY <1>4, <1>5 DEF Recursion
<1> QED
  BY <1>6

LEMMA RecursionStays ==
  ASSUME NEW N \in Nat, NEW a, NEW h, NEW f, f = Recursion(N, a, h, f),
         NEW Good, a \in Good[0],
         \A n \in 1 .. N : \A x \in Good[n - 1] : h[<<n, x>>] \in Good[n]
  PROVE  /\ \A n \in 0 .. N : f[n] \in Good[n]
         /\ f[0] = a
         /\ \A n \in 1 .. N : f[n] = h[<<n, f[n - 1]>>]
<1>1. \A n \in 0 .. N : f[n] = IF n = 0 THEN a ELSE h[<<n, f[n - 1]>>]
  BY DEF Recursion
<1> DEFINE T == {n \in Nat : n \in 0 .. N => f[n] \in Good[n]}
<1>2. 0 \in T
  BY <1>1
<1>3. ASSUME NEW n \in Nat, n \in T
      PROVE  n + 1 \in T
  <2> SUFFICES ASSUME n + 1 \in 0 .. N
               PROVE  f[n + 1] \in Good[n + 1]
    OBVIOUS
  <2>1. n \in 0 .. N /\ n + 1 \in 1 .. N /\ (n + 1) - 1 = n /\ n + 1 # 0
    OBVIOUS
  <2>2. f[n] \in Good[n]
    BY <1>3, <2>1
  <2>3. f[n + 1] = h[<<n + 1, f[n]>>]
    BY <1>1, <2>1
  <2> QED
    BY <2>1, <2>2, <2>3
<1> HIDE DEF T
<1>4. Nat \subseteq T
  BY <1>2, <1>3, InductionOnNaturals
<1>5. \A n \in 0 .. N : f[n] \in Good[n]
  BY <1>4 DEF T
<1>6. \A n \in 1 .. N : n \in 0 .. N /\ n # 0
  OBVIOUS
<1>7. 0 \in 0 .. N
  OBVIOUS
<1>8. f[0] = a
  BY <1>1, <1>7
<1>9. \A n \in 1 .. N : f[n] = h[<<n, f[n - 1]>>]
  BY <1>1, <1>6
<1> QED
  BY <1>5, <1>8, <1>9

LEMMA StaysGood ==
  ASSUME NEW N \in Nat, NEW f, NEW Good, f[0] \in Good[0],
         \A n \in 1 .. N : f[n - 1] \in Good[n - 1] => f[n] \in Good[n]
  PROVE  \A n \in 0 .. N : f[n] \in Good[n]
<1> DEFINE T == {n \in Nat : n \in 0 .. N => f[n] \in Good[n]}
<1>1. 0 \in T
  OBVIOUS
<1>2. ASSUME NEW n \in Nat, n \in T
      PROVE  n + 1 \in T
  <2> SUFFICES ASSUME n + 1 \in 0 .. N
               PROVE  f[n + 1] \in Good[n + 1]
    OBVIOUS
  <2>1. n \in 0 .. N /\ n + 1 \in 1 .. N /\ (n + 1) - 1 = n
    OBVIOUS
  <2>2. f[n] \in Good[n]
    BY <1>2, <2>1
  <2> QED
    BY <2>1, <2>2
<1> HIDE DEF T
<1>3. Nat \subseteq T
  BY <1>1, <1>2, InductionOnNaturals
<1> QED
  BY <1>3 DEF T

-----------------------------------------------------------------------------
(* Finite sets. *)

\* A finite set of integers that has a member has a greatest one.
LEMMA BoundedAbove ==
  ASSUME NEW n \in Nat, NEW f \in [1 .. n -> Int]
  PROVE  \E b \in Int : \A i \in 1 .. n : f[i] <= b
<1> DEFINE T == {m \in Nat : m <= n => \E b \in Int : \A i \in 1 .. m : f[i] <= b}
<1>1. 0 \in T
  OBVIOUS
<1>2. ASSUME NEW m \in Nat, m \in T
      PROVE  m + 1 \in T
  <2> SUFFICES ASSUME m + 1 <= n
               PROVE  \E b \in Int : \A i \in 1 .. m + 1 : f[i] <= b
    OBVIOUS
  <2>1. PICK b \in Int : \A i \in 1 .. m : f[i] <= b
    BY <1>2
  <2>2. f[m + 1] \in Int
    OBVIOUS
  <2>3. PICK c \in Int : b <= c /\ f[m + 1] <= c
    BY <2>2
  <2>4. \A i \in 1 .. m + 1 : f[i] \in Int /\ f[i] <= c
    BY <2>1, <2>3
  <2> QED
    BY <2>4
<1> HIDE DEF T
<1>3. n \in T
  BY <1>1, <1>2, InductionOnNaturals
<1> QED
  BY <1>3 DEF T

LEMMA GreatestExists ==
  ASSUME NEW S \in SUBSET Int, IsFiniteSet(S), S # {}
  PROVE  \E m \in S : \A k \in S : k <= m
<1>1. PICK n \in Nat : ExistsBijection(1 .. n, S)
  BY FS_NatBijection
<1>2. PICK f \in [1 .. n -> S] : \A y \in S : \E i \in 1 .. n : f[i] = y
  BY <1>1 DEF ExistsBijection, Bijection, Surjection
<1>3. f \in [1 .. n -> Int]
  BY <1>2
<1>4. PICK b \in Int : \A i \in 1 .. n : f[i] <= b
  BY <1>3, BoundedAbove
<1>5. \A k \in S : k \in Int /\ k <= b
  BY <1>2, <1>4
<1> DEFINE T == {d \in Nat : b - d \in S}
<1>6. PICK k \in S : TRUE
  OBVIOUS
<1>7. b - k \in T
  BY <1>5, <1>6
<1>8. PICK d \in T : \A c \in T : d <= c
  <2> HIDE DEF T
  <2>1. T \in SUBSET Nat /\ T # {}
    BY <1>7 DEF T
  <2> QED
    BY <2>1, LeastNatural
<1>9. \A j \in S : b - j \in T
  BY <1>5
<1>10. ASSUME NEW j \in S
       PROVE  j <= b - d
  <2>1. d <= b - j /\ d \in Nat
    BY <1>8, <1>9, <1>10
  <2>2. j \in Int
    OBVIOUS
  <2> HIDE DEF T
  <2> QED
    BY <2>1, <2>2
<1> QED
  BY <1>8, <1>10

LEMMA ImageIsFinite ==
  ASSUME NEW S, IsFiniteSet(S), NEW f, DOMAIN f = S
  PROVE  IsFiniteSet({f[x] : x \in S})
<1> DEFINE T == {f[x] : x \in S}
           g == [x \in S |-> f[x]]
<1>1. g \in Surjection(S, T)
  BY DEF Surjection
<1> QED
  BY <1>1, FS_Surjection
=============================================================================
