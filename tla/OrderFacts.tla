----------------------------- MODULE OrderFacts -----------------------------
(* What the proofs about several components need of the order of the numbers:  *)
(* that the least element of a set is there; and, by least counterexamples, of *)
(* sums over finite sets and functions, as MapThenSumSet and SumFunction       *)
(* compute them, and of left folds over sequences.                             *)
EXTENDS Integers, FiniteSetsExt, Functions, FiniteSetTheorems, WellFoundedInduction, TLAPS

\* A set of naturals that is not empty has a least element.
LEMMA LeastElement ==
  ASSUME NEW T \in SUBSET Nat, T # {}
  PROVE  \E x \in T : \A y \in T : x <= y
<1> DEFINE R == OpToRel(<, Nat)
<1>1. IsWellFoundedOn(R, Nat)
  BY NatLessThanWellFounded
<1>2. \A x, y \in Nat : y < x => <<y, x>> \in R
  BY DEF OpToRel
<1> HIDE DEF R
<1>3. PICK x \in T : \A y \in T : ~(<<y, x>> \in R)
  BY <1>1, WFMin
<1>4. \A y \in T : ~(y < x)
  BY <1>2, <1>3
<1> QED
  BY <1>4

\* Min is that element.
LEMMA MinFacts ==
  ASSUME NEW T \in SUBSET Nat, T # {}
  PROVE  Min(T) \in T /\ \A y \in T : Min(T) <= y
BY LeastElement DEF Min

\* The element of a set that a sum over the set takes first.
Picked(S) == CHOOSE x \in S : TRUE

\* That f gives the sums of w over the subsets of S, as MapThenSumSet computes them.
Sums(f, w, S) ==
  f = [s \in SUBSET S |-> IF s = {} THEN 0 ELSE w[Picked(s)] + f[s \ {Picked(s)}]]

LEMMA PickedIn == \A S : S # {} => Picked(S) \in S
BY DEF Picked

\* There are such sums, for a finite set.
LEMMA SumsExist ==
  ASSUME NEW S, IsFiniteSet(S), NEW w
  PROVE  \E f : Sums(f, w, S)
<1> DEFINE Small(n) == {s \in SUBSET S : Cardinality(s) <= n}
           SumsTo(n, f) == f = [s \in Small(n) |-> IF s = {} THEN 0 ELSE w[Picked(s)] + f[s \ {Picked(s)}]]
           Bad == {n \in Nat : ~\E f : SumsTo(n, f)}
<1>1. \A s \in SUBSET S : IsFiniteSet(s) /\ Cardinality(s) \in Nat /\ Cardinality(s) <= Cardinality(S)
  BY FS_Subset, FS_CardinalityType
<1>2. Cardinality(S) \in Nat
  BY FS_CardinalityType
<1>3. SumsTo(0, [s \in Small(0) |-> 0])
  <2>1. \A s \in Small(0) : s = {}
    BY <1>1, FS_EmptySet
  <2> QED
    BY <2>1
<1>4. ASSUME NEW n \in Nat, NEW f, SumsTo(n, f) PROVE \E g : SumsTo(n + 1, g)
  <2> DEFINE g == [s \in Small(n + 1) |-> IF s = {} THEN 0 ELSE w[Picked(s)] + f[s \ {Picked(s)}]]
  <2>1. ASSUME NEW s \in Small(n + 1), s # {} PROVE s \ {Picked(s)} \in Small(n)
    <3>1. Picked(s) \in s /\ IsFiniteSet(s)
      BY <1>1, <2>1, PickedIn
    <3>2. Cardinality(s \ {Picked(s)}) = Cardinality(s) - 1
      BY <3>1, FS_RemoveElement
    <3> QED
      BY <1>1, <3>2
  <2>2. \A s \in Small(n) : g[s] = f[s]
    <3>1. Small(n) \subseteq Small(n + 1)
      BY <1>1
    <3>2. \A s \in Small(n) : f[s] = IF s = {} THEN 0 ELSE w[Picked(s)] + f[s \ {Picked(s)}]
      BY <1>4
    <3> HIDE DEF Small
    <3>3. \A s \in Small(n) : g[s] = IF s = {} THEN 0 ELSE w[Picked(s)] + f[s \ {Picked(s)}]
      BY <3>1
    <3> QED
      BY <3>2, <3>3
  <2>3. g = [s \in Small(n + 1) |-> IF s = {} THEN 0 ELSE w[Picked(s)] + g[s \ {Picked(s)}]]
    <3> HIDE DEF Small
    <3>1. \A s \in Small(n + 1) : (IF s = {} THEN 0 ELSE w[Picked(s)] + f[s \ {Picked(s)}])
                                   = (IF s = {} THEN 0 ELSE w[Picked(s)] + g[s \ {Picked(s)}])
      <4> HIDE DEF g
      <4> QED  BY <2>1, <2>2
    <3> QED
      BY <3>1
  <2> HIDE DEF g
  <2> QED
    BY <2>3
<1>5. \A n \in Nat : \E f : SumsTo(n, f)
  <2> HIDE DEF SumsTo
  <2> SUFFICES ASSUME Bad # {} PROVE FALSE
    OBVIOUS
  <2>1. PICK m \in Bad : \A k \in Bad : m <= k
    BY LeastElement
  <2>2. m # 0
    BY <1>3, <2>1
  <2>3. m - 1 \in Nat /\ m - 1 \notin Bad
    BY <2>1, <2>2
  <2>4. \E g : SumsTo((m - 1) + 1, g)
    BY <1>4, <2>3
  <2> QED
    BY <2>1, <2>4
<1>6. Small(Cardinality(S)) = SUBSET S
  BY <1>1
<1> QED
  BY <1>2, <1>5, <1>6 DEF Sums

\* Sums of naturals are naturals.
LEMMA SumsType ==
  ASSUME NEW S, IsFiniteSet(S), NEW w, \A x \in S : w[x] \in Nat, NEW f, Sums(f, w, S)
  PROVE  /\ f[{}] = 0
         /\ \A s \in SUBSET S : s # {} => f[s] = w[Picked(s)] + f[s \ {Picked(s)}]
         /\ \A s \in SUBSET S : f[s] \in Nat
<1> DEFINE Bad == {n \in Nat : \E s \in SUBSET S : Cardinality(s) = n /\ f[s] \notin Nat}
<1>1. \A s \in SUBSET S : f[s] = IF s = {} THEN 0 ELSE w[Picked(s)] + f[s \ {Picked(s)}]
  BY DEF Sums
<1>2. \A s \in SUBSET S : IsFiniteSet(s) /\ Cardinality(s) \in Nat
  BY FS_Subset, FS_CardinalityType
<1>3. Bad = {}
  <2> SUFFICES ASSUME Bad # {} PROVE FALSE
    OBVIOUS
  <2>1. PICK m \in Bad : \A k \in Bad : m <= k
    BY LeastElement
  <2>2. PICK s \in SUBSET S : Cardinality(s) = m /\ f[s] \notin Nat
    BY <2>1
  <2>3. s # {}
    <3>1. f[{}] = 0
      BY <1>1
    <3> QED
      BY <2>2, <3>1
  <2>4. Picked(s) \in s /\ s \ {Picked(s)} \in SUBSET S
    BY <2>3, PickedIn
  <2>5. Cardinality(s \ {Picked(s)}) = m - 1 /\ Cardinality(s \ {Picked(s)}) \in Nat
    BY <1>2, <2>2, <2>4, FS_RemoveElement
  <2>6. f[s \ {Picked(s)}] \in Nat
    BY <2>1, <2>4, <2>5
  <2>7. f[s] = w[Picked(s)] + f[s \ {Picked(s)}] /\ w[Picked(s)] \in Nat
    BY <1>1, <2>3, <2>4
  <2> QED
    BY <2>2, <2>6, <2>7
<1>4. ASSUME NEW s \in SUBSET S PROVE f[s] \in Nat
  <2>1. Cardinality(s) \notin Bad
    BY <1>3
  <2> QED
    BY <1>2, <2>1
<1> QED
  BY <1>1, <1>4

\* Any element may be taken first.
LEMMA SumsRemove ==
  ASSUME NEW S, IsFiniteSet(S), NEW w, \A x \in S : w[x] \in Nat, NEW f, Sums(f, w, S)
  PROVE  \A s \in SUBSET S : \A x \in s : f[s] = w[x] + f[s \ {x}]
<1> DEFINE Wrong(s) == \E x \in s : f[s] # w[x] + f[s \ {x}]
           Bad == {n \in Nat : \E s \in SUBSET S : Cardinality(s) = n /\ Wrong(s)}
<1>1. /\ f[{}] = 0
      /\ \A s \in SUBSET S : s # {} => f[s] = w[Picked(s)] + f[s \ {Picked(s)}]
      /\ \A s \in SUBSET S : f[s] \in Nat
  BY SumsType
<1>2. \A s \in SUBSET S : IsFiniteSet(s) /\ Cardinality(s) \in Nat
  BY FS_Subset, FS_CardinalityType
<1>3. Bad = {}
  <2> SUFFICES ASSUME Bad # {} PROVE FALSE
    OBVIOUS
  <2>1. PICK m \in Bad : \A k \in Bad : m <= k
    BY LeastElement
  <2>2. PICK s \in SUBSET S : Cardinality(s) = m /\ Wrong(s)
    BY <2>1
  <2>3. PICK x \in s : f[s] # w[x] + f[s \ {x}]
    BY <2>2
  <2> DEFINE y == Picked(s)
             t == s \ {y}
  <2>4. y \in s /\ y # x
    BY <1>1, <2>3, PickedIn
  <2> HIDE DEF y
  <2>5. t \in SUBSET S /\ x \in t /\ s \ {x} \in SUBSET S /\ y \in s \ {x} /\ t \ {x} = (s \ {x}) \ {y}
    BY <2>3, <2>4
  <2>6. Cardinality(t) = m - 1 /\ Cardinality(s \ {x}) = m - 1 /\ m - 1 \in Nat
    <3>1. IsFiniteSet(s) /\ Cardinality(t) \in Nat
      BY <1>2, <2>5
    <3>2. Cardinality(t) = m - 1
      BY <2>2, <2>4, <3>1, FS_RemoveElement
    <3>3. Cardinality(s \ {x}) = m - 1
      BY <2>2, <2>3, <3>1, FS_RemoveElement
    <3> QED
      BY <3>1, <3>2, <3>3
  <2>7. m - 1 \notin Bad
    BY <2>1, <2>6
  <2>8. ~Wrong(t) /\ ~Wrong(s \ {x})
    BY <2>5, <2>6, <2>7
  <2>9. f[t] = w[x] + f[t \ {x}] /\ f[s \ {x}] = w[y] + f[t \ {x}]
    BY <2>5, <2>8
  <2>10. f[s] = w[y] + f[t]
    BY <1>1, <2>3 DEF y
  <2>11. w[x] \in Nat /\ w[y] \in Nat /\ f[t \ {x}] \in Nat
    BY <1>1, <2>4, <2>5
  <2>12. f[s] = w[x] + f[s \ {x}]
    <3> HIDE DEF t
    <3> QED  BY <2>9, <2>10, <2>11
  <2> QED
    BY <2>3, <2>12
<1>4. ASSUME NEW s \in SUBSET S PROVE ~Wrong(s)
  <2>1. Cardinality(s) \notin Bad
    BY <1>3
  <2> QED
    BY <1>2, <2>1
<1> QED
  BY <1>4

\* What is at the marks in S, one for each element of T, is no more than all that is in S.
LEMMA SumsOfSome ==
  ASSUME NEW S, IsFiniteSet(S), NEW w, \A x \in S : w[x] \in Nat, NEW f, Sums(f, w, S),
         NEW T, IsFiniteSet(T), NEW v, \A y \in T : v[y] \in Nat, NEW h, Sums(h, v, T),
         NEW mark, \A y \in T : mark[y] \in S /\ w[mark[y]] = v[y],
         \A y, z \in T : mark[y] = mark[z] => y = z
  PROVE  h[T] <= f[S]
<1> DEFINE Within0(s, t) == \A y \in t : mark[y] \in s
           Bad == {n \in Nat : \E s \in SUBSET S, t \in SUBSET T :
                                 Cardinality(t) = n /\ Within0(s, t) /\ ~(h[t] <= f[s])}
<1>1. \A t \in SUBSET T : IsFiniteSet(t) /\ Cardinality(t) \in Nat
  BY FS_Subset, FS_CardinalityType
<1>2. /\ h[{}] = 0 /\ \A t \in SUBSET T : h[t] \in Nat
      /\ \A t \in SUBSET T : t # {} => h[t] = v[Picked(t)] + h[t \ {Picked(t)}]
  BY SumsType
<1>3. /\ \A s \in SUBSET S : f[s] \in Nat
      /\ \A s \in SUBSET S : \A x \in s : f[s] = w[x] + f[s \ {x}]
  <2>1. \A s \in SUBSET S : f[s] \in Nat
    BY SumsType
  <2>2. \A s \in SUBSET S : \A x \in s : f[s] = w[x] + f[s \ {x}]
    <3>1. ASSUME NEW s \in SUBSET S, NEW x \in s PROVE f[s] = w[x] + f[s \ {x}]
      BY SumsRemove
    <3> QED
      BY <3>1
  <2> QED
    BY <2>1, <2>2
<1>4. Bad = {}
  <2> SUFFICES ASSUME Bad # {} PROVE FALSE
    OBVIOUS
  <2>1. PICK m \in Bad : \A k \in Bad : m <= k
    BY LeastElement
  <2>2. PICK s \in SUBSET S, t \in SUBSET T : Cardinality(t) = m /\ Within0(s, t) /\ ~(h[t] <= f[s])
    BY <2>1
  <2>3. t # {}
    <3>1. f[s] \in Nat /\ h[t] \in Nat
      BY <1>2, <1>3
    <3>2. t = {} => h[t] = 0
      BY <1>2
    <3> QED
      BY <2>2, <3>1, <3>2
  <2> DEFINE y == Picked(t)
             s2 == s \ {mark[y]}
             t2 == t \ {y}
  <2>4. y \in t /\ mark[y] \in s /\ w[mark[y]] = v[y] /\ v[y] \in Nat
    BY <2>2, <2>3, PickedIn
  <2>5. s2 \in SUBSET S /\ t2 \in SUBSET T /\ Within0(s2, t2)
    <3> HIDE DEF y
    <3> QED  BY <2>2, <2>4
  <2>6. Cardinality(t2) = m - 1 /\ m - 1 \in Nat
    <3>1. IsFiniteSet(t) /\ Cardinality(t) = m /\ Cardinality(t2) \in Nat
      BY <1>1, <2>2, <2>5
    <3> HIDE DEF y
    <3>2. Cardinality(t2) = Cardinality(t) - 1
      BY <2>4, <3>1, FS_RemoveElement
    <3> QED
      BY <3>1, <3>2
  <2>7. m - 1 \notin Bad
    BY <2>1, <2>6
  <2> HIDE DEF Within0
  <2>8. h[t2] <= f[s2]
    <3> HIDE DEF s2, t2
    <3> QED  BY <2>5, <2>6, <2>7
  <2>9. h[t] = v[y] + h[t2] /\ f[s] = w[mark[y]] + f[s2]
    <3>1. h[t] = v[y] + h[t2]
      BY <1>2, <2>3
    <3> HIDE DEF y
    <3> QED  BY <1>3, <2>4, <3>1
  <2>10. h[t2] \in Nat /\ f[s2] \in Nat
    BY <1>2, <1>3, <2>5
  <2> HIDE DEF y, s2, t2
  <2> QED
    BY <2>2, <2>4, <2>8, <2>9, <2>10
<1>5. Cardinality(T) \notin Bad /\ Within0(S, T)
  BY <1>4
<1> QED
  BY <1>1, <1>5

-----------------------------------------------------------------------------
\* That f folds g over the subsets of the first n positions of s, the last position last.
LeftFold(f, g, base, s, n) ==
  f = [t \in SUBSET (1..n) |-> IF t = {} THEN base ELSE g[<<f[t \ {Max(t)}], s[Max(t)]>>]]

LEMMA LastIsMax ==
  ASSUME NEW m \in Nat, NEW t \in SUBSET (1..m), m \in t
  PROVE  Max(t) = m
<1>1. \A x \in t : m >= x
  OBVIOUS
<1>2. Max(t) \in t /\ \A y \in t : Max(t) >= y
  BY <1>1 DEF Max
<1>3. Max(t) \in 1..m /\ Max(t) >= m
  BY <1>2
<1> QED
  BY <1>3

LEMMA LeftFoldsExist ==
  ASSUME NEW A, NEW X, NEW g \in [A \X X -> A], NEW base \in A, NEW n \in Nat, NEW s \in [1..n -> X]
  PROVE  \E f \in [SUBSET (1..n) -> A] : LeftFold(f, g, base, s, n)
<1> DEFINE Upto(m) == SUBSET (1..m)
           FoldsTo(m, f) ==
             f = [t \in Upto(m) |-> IF t = {} THEN base ELSE g[<<f[t \ {Max(t)}], s[Max(t)]>>]]
           Bad == {m \in Nat : m <= n /\ ~\E f \in [Upto(m) -> A] : FoldsTo(m, f)}
<1>1. \E f \in [Upto(0) -> A] : FoldsTo(0, f)
  <2> DEFINE f == [t \in Upto(0) |-> base]
  <2>1. \A t \in Upto(0) : t = {}
    OBVIOUS
  <2>2. f = [t \in Upto(0) |-> IF t = {} THEN base ELSE g[<<f[t \ {Max(t)}], s[Max(t)]>>]]
    BY <2>1
  <2>3. f \in [Upto(0) -> A]
    OBVIOUS
  <2> QED
    BY <2>2, <2>3
<1>2. ASSUME NEW m \in Nat, m + 1 <= n, NEW f \in [Upto(m) -> A], FoldsTo(m, f)
      PROVE  \E h \in [Upto(m + 1) -> A] : FoldsTo(m + 1, h)
  <2> DEFINE h == [t \in Upto(m + 1) |-> IF t = {} THEN base ELSE g[<<f[t \ {Max(t)}], s[Max(t)]>>]]
  <2>1. ASSUME NEW t \in Upto(m + 1), t \notin Upto(m)
        PROVE  Max(t) = m + 1 /\ t \ {Max(t)} \in Upto(m) /\ t # {}
    <3>1. m + 1 \in t
      BY <2>1
    <3>2. Max(t) = m + 1
      BY <3>1, LastIsMax
    <3> QED
      BY <3>1, <3>2
  <2>2. \A t \in Upto(m) : t \in Upto(m + 1)
    OBVIOUS
  <2>3. \A t \in Upto(m) : f[t] = IF t = {} THEN base ELSE g[<<f[t \ {Max(t)}], s[Max(t)]>>]
    BY <1>2
  <2>4. \A t \in Upto(m) : h[t] = f[t]
    <3> HIDE DEF Upto
    <3>1. \A t \in Upto(m) : h[t] = IF t = {} THEN base ELSE g[<<f[t \ {Max(t)}], s[Max(t)]>>]
      BY <2>2
    <3> QED
      BY <2>3, <3>1
  <2>5. ASSUME NEW t \in Upto(m + 1) PROVE h[t] \in A
    <3>1. CASE t \in Upto(m)
      BY <2>4, <3>1
    <3>2. CASE t \notin Upto(m)
      <4>1. Max(t) = m + 1 /\ t \ {Max(t)} \in Upto(m) /\ t # {}
        BY <2>1, <3>2
      <4>2. f[t \ {Max(t)}] \in A
        BY <4>1
      <4>5. m + 1 \in 1..n
        BY <1>2
      <4>6. s[Max(t)] \in X
        BY <4>1, <4>5
      <4>3. <<f[t \ {Max(t)}], s[Max(t)]>> \in A \X X
        BY <4>2, <4>6
      <4>4. h[t] = g[<<f[t \ {Max(t)}], s[Max(t)]>>]
        BY <4>1
      <4> QED
        BY <4>3, <4>4
    <3> QED
      BY <3>1, <3>2
  <2>6. \A t \in Upto(m + 1) : t # {} => h[t \ {Max(t)}] = f[t \ {Max(t)}]
    <3> SUFFICES ASSUME NEW t \in Upto(m + 1), t # {} PROVE h[t \ {Max(t)}] = f[t \ {Max(t)}]
      OBVIOUS
    <3>1. t \ {Max(t)} \in Upto(m)
      <4>1. CASE t \in Upto(m)
        BY <4>1
      <4>2. CASE t \notin Upto(m)
        BY <2>1, <4>2
      <4> QED
        BY <4>1, <4>2
    <3> QED
      BY <2>4, <3>1
  <2>7. h \in [Upto(m + 1) -> A]
    BY <2>5
  <2>8. FoldsTo(m + 1, h)
    <3> HIDE DEF Upto
    <3>1. \A t \in Upto(m + 1) : (IF t = {} THEN base ELSE g[<<f[t \ {Max(t)}], s[Max(t)]>>])
                                  = (IF t = {} THEN base ELSE g[<<h[t \ {Max(t)}], s[Max(t)]>>])
      <4> HIDE DEF h
      <4> QED  BY <2>6
    <3> QED
      BY <3>1
  <2> HIDE DEF h
  <2> QED
    BY <2>7, <2>8
<1>3. Bad = {}
  <2> HIDE DEF FoldsTo, Upto
  <2> SUFFICES ASSUME Bad # {} PROVE FALSE
    OBVIOUS
  <2>1. PICK m \in Bad : \A k \in Bad : m <= k
    BY LeastElement
  <2>2. m # 0
    BY <1>1, <2>1
  <2>3. m - 1 \in Nat /\ m - 1 <= n /\ m - 1 \notin Bad
    BY <2>1, <2>2
  <2>4. \E f \in [Upto(m) -> A] : FoldsTo(m, f)
    <3>1. PICK f \in [Upto(m - 1) -> A] : FoldsTo(m - 1, f)
      BY <2>3
    <3>2. (m - 1) + 1 = m /\ m <= n
      BY <2>1
    <3> QED
      BY <1>2, <2>3, <3>1, <3>2
  <2> QED
    BY <2>1, <2>4
<1>4. \E f \in [Upto(n) -> A] : FoldsTo(n, f)
  <2> HIDE DEF FoldsTo, Upto
  <2>1. n \notin Bad /\ n <= n
    BY <1>3
  <2> QED
    BY <2>1
<1> QED
  BY <1>4 DEF LeftFold

\* A set of positions that is not empty has a last one.
LEMMA MaxIsIn ==
  ASSUME NEW n \in Nat, NEW t \in SUBSET (1..n), t # {}
  PROVE  Max(t) \in t
<1> DEFINE Over == {k \in Nat : \A x \in t : x <= k}
<1>1. n \in Over
  OBVIOUS
<1>2. PICK m \in Over : \A k \in Over : m <= k
  BY <1>1, LeastElement
<1>3. m \in t
  <2> SUFFICES ASSUME m \notin t PROVE FALSE
    OBVIOUS
  <2>1. \A x \in t : x < m
    BY <1>2
  <2>2. PICK x \in t : x \in Nat /\ x < m
    <3>1. \A x \in t : x \in Nat /\ x < m
      BY <2>1
    <3> QED
      BY <3>1
  <2>3. m - 1 \in Nat /\ ~(m <= m - 1)
    BY <1>2, <2>2
  <2>4. \A y \in t : y <= m - 1
    BY <1>2, <2>1
  <2> QED
    BY <1>2, <2>3, <2>4
<1> QED
  BY <1>2, <1>3 DEF Max

\* What such a fold has made of the first positions.
LEMMA LeftFoldPrefix ==
  ASSUME NEW n \in Nat, NEW k \in 1..n
  PROVE  /\ 1..k \in SUBSET (1..n) /\ 1..k # {} /\ Max(1..k) = k /\ (1..k) \ {k} = 1..(k - 1)
<1>1. Max(1..k) = k
  BY LastIsMax
<1> QED
  BY <1>1

\* A sum over a function, in terms of the sums over the subsets of its domain.
LEMMA SumIsSums ==
  ASSUME NEW w, IsFiniteSet(DOMAIN w)
  PROVE  \E f : Sums(f, w, DOMAIN w) /\ SumFunction(w) = f[DOMAIN w]
<1> DEFINE S == DOMAIN w
           Eq(f) == f = [s \in SUBSET S |-> IF s = {} THEN 0 ELSE w[Picked(s)] + f[s \ {Picked(s)}]]
           it == CHOOSE f : Eq(f)
<1>1. SumFunction(w) = it[S]
  BY DEF SumFunction, SumFunctionOnSet, FoldFunctionOnSet, MapThenFoldSet, Picked
<1>2. \A f : Sums(f, w, S) <=> Eq(f)
  BY DEF Sums
<1>3. PICK f : Eq(f)
  BY <1>2, SumsExist
<1>4. Eq(it)
  <2> HIDE DEF Eq
  <2> QED  BY <1>3
<1> HIDE DEF it, Eq
<1> QED
  BY <1>1, <1>2, <1>4

\* Sums of the same numbers are the same.
LEMMA SumsAgree ==
  ASSUME NEW S, IsFiniteSet(S), NEW w, NEW f, Sums(f, w, S),
         NEW T, IsFiniteSet(T), NEW v, NEW h, Sums(h, v, T),
         NEW A, A \subseteq S \cap T, \A x \in A : w[x] = v[x]
  PROVE  f[A] = h[A]
<1> DEFINE Bad == {n \in Nat : \E s \in SUBSET A : Cardinality(s) = n /\ f[s] # h[s]}
<1>1. IsFiniteSet(A)
  BY FS_Subset
<1>2. \A s \in SUBSET A : IsFiniteSet(s) /\ Cardinality(s) \in Nat
  BY <1>1, FS_Subset, FS_CardinalityType
<1>3. \A s \in SUBSET A : /\ f[s] = IF s = {} THEN 0 ELSE w[Picked(s)] + f[s \ {Picked(s)}]
                          /\ h[s] = IF s = {} THEN 0 ELSE v[Picked(s)] + h[s \ {Picked(s)}]
  <2>1. \A s \in SUBSET S : f[s] = IF s = {} THEN 0 ELSE w[Picked(s)] + f[s \ {Picked(s)}]
    BY DEF Sums
  <2>2. \A s \in SUBSET T : h[s] = IF s = {} THEN 0 ELSE v[Picked(s)] + h[s \ {Picked(s)}]
    BY DEF Sums
  <2>3. \A s \in SUBSET A : s \in SUBSET S /\ s \in SUBSET T
    OBVIOUS
  <2> QED
    BY <2>1, <2>2, <2>3
<1>4. Bad = {}
  <2> SUFFICES ASSUME Bad # {} PROVE FALSE
    OBVIOUS
  <2>1. PICK n \in Bad : \A k \in Bad : n <= k
    BY LeastElement
  <2>2. PICK s \in SUBSET A : Cardinality(s) = n /\ f[s] # h[s]
    BY <2>1
  <2>3. s # {}
    BY <1>3, <2>2
  <2> DEFINE x == Picked(s)
             t == s \ {x}
  <2>4. x \in s
    BY <2>3, PickedIn
  <2>5. w[x] = v[x] /\ t \in SUBSET A
    BY <2>4
  <2>6. Cardinality(t) = n - 1 /\ n - 1 \in Nat
    <3> HIDE DEF x
    <3>1. Cardinality(t) = Cardinality(s) - 1
      BY <1>2, <2>4, FS_RemoveElement
    <3>2. Cardinality(t) \in Nat
      BY <1>2, <2>5
    <3> QED
      BY <2>1, <2>2, <3>1, <3>2
  <2>7. n - 1 \notin Bad
    BY <2>1, <2>6
  <2>8. f[t] = h[t]
    <3> HIDE DEF t
    <3> QED  BY <2>5, <2>6, <2>7
  <2>9. f[s] = w[x] + f[t] /\ h[s] = v[x] + h[t]
    BY <1>3, <2>3
  <2> QED
    BY <2>2, <2>5, <2>8, <2>9
<1>5. Cardinality(A) \notin Bad /\ Cardinality(A) \in Nat
  BY <1>2, <1>4
<1> QED
  BY <1>5

\* What a sum of naturals is, is more than, and is when it is nothing.
LEMMA SumFacts ==
  ASSUME NEW S, IsFiniteSet(S), NEW w \in [S -> Nat]
  PROVE  /\ SumFunction(w) \in Nat
         /\ \A x \in S : w[x] <= SumFunction(w)
         /\ (\A x \in S : w[x] = 0) => SumFunction(w) = 0
<1>1. PICK f : Sums(f, w, S) /\ SumFunction(w) = f[S]
  BY SumIsSums
<1>2. \A s \in SUBSET S : f[s] \in Nat
  BY <1>1, SumsType
<1>3. ASSUME NEW x \in S PROVE w[x] <= f[S]
  <2>1. f[S] = w[x] + f[S \ {x}]
    BY <1>1, SumsRemove
  <2>2. f[S \ {x}] \in Nat /\ w[x] \in Nat /\ f[S] \in Nat
    BY <1>2
  <2> QED
    BY <2>1, <2>2
<1>4. ASSUME \A x \in S : w[x] = 0 PROVE f[S] = 0
  <2> DEFINE h == [s \in SUBSET S |-> 0]
  <2>1. \A s \in SUBSET S : s # {} => Picked(s) \in S
    BY PickedIn
  <2>2. Sums(h, w, S)
    BY <1>4, <2>1 DEF Sums
  <2>3. h[S] = 0
    OBVIOUS
  <2> HIDE DEF h
  <2>4. f[S] = h[S]
    BY <1>1, <2>2, SumsAgree
  <2> QED
    BY <2>3, <2>4
<1> QED
  BY <1>1, <1>2, <1>3, <1>4

\* A sum is the same in any order.
LEMMA SumInOrder ==
  ASSUME NEW S, IsFiniteSet(S), NEW w \in [S -> Nat], NEW T, NEW mark \in Bijection(T, S)
  PROVE  SumFunction([y \in T |-> w[mark[y]]]) = SumFunction(w)
<1> DEFINE v == [y \in T |-> w[mark[y]]]
           back == [x \in S |-> CHOOSE y \in T : mark[y] = x]
<1>1. /\ mark \in [T -> S] /\ \A y, z \in T : mark[y] = mark[z] => y = z
      /\ \A x \in S : \E y \in T : mark[y] = x
  <2>1. mark \in Injection(T, S) /\ mark \in Surjection(T, S)
    BY DEF Bijection
  <2>2. mark \in [T -> S] /\ \A y, z \in T : mark[y] = mark[z] => y = z
    BY <2>1, Zenon DEF Injection, IsInjective
  <2>3. \A x \in S : \E y \in T : mark[y] = x
    BY <2>1, Zenon DEF Surjection
  <2> QED
    BY <2>2, <2>3
<1>2. \A x \in S : back[x] \in T /\ mark[back[x]] = x
  BY <1>1
<1>3. IsFiniteSet(T)
  BY FS_Injection DEF Bijection
<1>4. v \in [T -> Nat] /\ \A x \in S : v[back[x]] = w[x]
  BY <1>1, <1>2
<1> HIDE DEF back
<1>5. PICK f : Sums(f, w, S) /\ SumFunction(w) = f[S]
  BY SumIsSums
<1>6. PICK h : Sums(h, v, T) /\ SumFunction(v) = h[T]
  <2>1. DOMAIN v = T
    OBVIOUS
  <2> HIDE DEF v
  <2> QED  BY <1>3, <2>1, SumIsSums
<1>7. \A y \in T : v[y] = w[mark[y]]
  OBVIOUS
<1> HIDE DEF v
<1>8. \A x \in S : w[x] \in Nat
  OBVIOUS
<1>9. \A y \in T : v[y] \in Nat
  BY <1>4
<1>10. h[T] <= f[S]
  <2>1. \A y \in T : mark[y] \in S /\ w[mark[y]] = v[y]
    BY <1>1, <1>7
  <2> QED
    BY <1>1, <1>3, <1>5, <1>6, <1>8, <1>9, <2>1, SumsOfSome
<1>11. f[S] <= h[T]
  <2>1. \A x \in S : back[x] \in T /\ v[back[x]] = w[x]
    BY <1>2, <1>4
  <2>2. \A x, y \in S : back[x] = back[y] => x = y
    BY <1>2
  <2> QED
    BY <1>3, <1>5, <1>6, <1>8, <1>9, <2>1, <2>2, SumsOfSome
<1>12. h[T] \in Nat /\ f[S] \in Nat
  <2>1. SumFunction(w) \in Nat
    BY SumFacts
  <2>2. SumFunction(v) \in Nat
    BY <1>3, <1>4, SumFacts
  <2> QED
    BY <1>5, <1>6, <2>1, <2>2
<1>13. h[T] = f[S]
  BY <1>10, <1>11, <1>12
<1> QED
  BY <1>5, <1>6, <1>13 DEF v

\* The sum of what comes before grows by what is passed.
LEMMA SumsOfPrefixes ==
  ASSUME NEW n \in Nat, NEW w \in [1..n -> Nat], NEW i \in 1..(n + 1)
  PROVE  /\ SumFunction([j \in 1..(i - 1) |-> w[j]]) \in Nat
         /\ i <= n => SumFunction([j \in 1..i |-> w[j]]) = SumFunction([j \in 1..(i - 1) |-> w[j]]) + w[i]
<1> DEFINE u == [j \in 1..(i - 1) |-> w[j]]
           v == [j \in 1..i |-> w[j]]
<1>1. u \in [1..(i - 1) -> Nat] /\ IsFiniteSet(1..(i - 1))
  <2>1. 1..(i - 1) \subseteq 1..n /\ 1 \in Int /\ i - 1 \in Int
    OBVIOUS
  <2> QED
    BY <2>1, FS_Interval
<1>2. SumFunction(u) \in Nat
  BY <1>1, SumFacts
<1>3. ASSUME i <= n PROVE SumFunction(v) = SumFunction(u) + w[i]
  <2>1. v \in [1..i -> Nat] /\ IsFiniteSet(1..i)
    <3>1. 1..i \subseteq 1..n /\ 1 \in Int /\ i \in Int
      BY <1>3
    <3> QED
      BY <3>1, FS_Interval
  <2>2. v[i] = w[i] /\ i \in 1..i /\ (1..i) \ {i} = 1..(i - 1) /\ \A j \in 1..(i - 1) : v[j] = u[j]
    OBVIOUS
  <2> HIDE DEF u, v
  <2>3. PICK f : Sums(f, v, 1..i) /\ SumFunction(v) = f[1..i]
    <3>1. DOMAIN v = 1..i
      BY <2>1
    <3> QED
      BY <2>1, <3>1, SumIsSums
  <2>4. PICK h : Sums(h, u, 1..(i - 1)) /\ SumFunction(u) = h[1..(i - 1)]
    <3>1. DOMAIN u = 1..(i - 1)
      BY <1>1
    <3> QED
      BY <1>1, <3>1, SumIsSums
  <2> DEFINE D == 1..i
             A == 1..(i - 1)
  <2>5. i \in D /\ D \ {i} = A /\ IsFiniteSet(D) /\ IsFiniteSet(A) /\ A \subseteq D \cap A /\ D \in SUBSET D
    BY <1>1, <2>1, <2>2
  <2>6. /\ v \in [D -> Nat] /\ Sums(f, v, D) /\ SumFunction(v) = f[D]
        /\ Sums(h, u, A) /\ SumFunction(u) = h[A] /\ v[i] = w[i] /\ \A j \in A : v[j] = u[j]
    BY <2>1, <2>2, <2>3, <2>4
  <2> HIDE DEF D, A
  <2>7. f[D] = v[i] + f[A]
    <3>1. \A j \in D : v[j] \in Nat
      BY <2>6
    <3>4. IsFiniteSet(D) /\ Sums(f, v, D)
      BY <2>5, <2>6
    <3>2. ASSUME NEW s \in SUBSET D, NEW x \in s PROVE f[s] = v[x] + f[s \ {x}]
      BY <3>1, <3>4, SumsRemove
    <3>3. f[D] = v[i] + f[D \ {i}]
      BY <2>5, <3>2, Zenon
    <3> QED
      BY <2>5, <3>3
  <2>8. f[A] = h[A]
    BY <2>5, <2>6, SumsAgree
  <2>9. v[i] \in Nat /\ h[A] \in Nat
    BY <1>2, <2>5, <2>6
  <2> QED
    BY <2>6, <2>7, <2>8, <2>9
<1> QED
  BY <1>2, <1>3

\* What grows from each to the next grows.
LEMMA Growing ==
  ASSUME NEW n \in Nat, NEW b \in [1..(n + 1) -> Nat], \A i \in 1..n : b[i] <= b[i + 1],
         NEW i \in 1..(n + 1), NEW j \in 1..(n + 1), i <= j
  PROVE  b[i] <= b[j]
<1> DEFINE Bad == {k \in Nat : k >= i /\ k <= n + 1 /\ ~(b[i] <= b[k])}
<1>1. Bad = {}
  <2> SUFFICES ASSUME Bad # {} PROVE FALSE
    OBVIOUS
  <2>1. PICK k \in Bad : \A m \in Bad : k <= m
    BY LeastElement
  <2>2. k # i
    BY <2>1
  <2>3. k - 1 \in Nat /\ k - 1 >= i /\ k - 1 <= n /\ k - 1 \in 1..n /\ k \in 1..(n + 1)
    BY <2>1, <2>2
  <2>4. b[i] <= b[k - 1]
    <3>1. k - 1 \notin Bad
      BY <2>1, <2>3
    <3> QED
      BY <2>3, <3>1
  <2>5. b[k - 1] <= b[k]
    <3>1. (k - 1) + 1 = k
      BY <2>1
    <3>2. b[k - 1] <= b[(k - 1) + 1]
      BY <2>3
    <3> QED
      BY <3>1, <3>2
  <2>6. b[i] \in Nat /\ b[k - 1] \in Nat /\ b[k] \in Nat
    BY <2>3
  <2> QED
    BY <2>1, <2>4, <2>5, <2>6
<1>2. j \in Nat /\ j >= i /\ j <= n + 1
  OBVIOUS
<1>3. j \notin Bad
  BY <1>1
<1> QED
  BY <1>2, <1>3
=============================================================================
