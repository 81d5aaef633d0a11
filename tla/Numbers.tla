------------------------------ MODULE Numbers ------------------------------
(***************************************************************************)
(* What the proofs about sums and lists need of the natural numbers:       *)
(* induction over those up to some n, what a function defined by recursion *)
(* over them is, and the lists that places in ascending order make.        *)
(*                                                                         *)
(* The induction theorems of the library take a predicate; these take a    *)
(* set, which the provers can instantiate, and rest on the fact that < is  *)
(* well-founded on the naturals: a set with any number in it has a least.  *)
(***************************************************************************)
EXTENDS Integers, Sequences, Listing, WellFoundedInduction, FiniteSetTheorems, SequenceTheorems, TLAPS

Less == {ij \in Nat \X Nat : ij[1] < ij[2]}

(* No natural number has infinitely many below it. *)
LEMMA LessIsWellFounded == IsWellFoundedOn(Less, Nat)
<1>1. OpToRel(<, Nat) = Less
  BY DEF OpToRel, Less
<1> QED
  BY <1>1, NatLessThanWellFounded

(* A set of natural numbers that is not empty has a least one. *)
LEMMA Least ==
  ASSUME NEW T \in SUBSET Nat, T # {}
  PROVE  \E m \in T : \A k \in T : m <= k
<1>1. PICK m \in T : \A k \in T : <<k, m>> \notin Less
  BY LessIsWellFounded, WFMin
<1>2. ASSUME NEW k \in T PROVE ~(k < m)
  <2>1. <<k, m>> \in Nat \X Nat /\ <<k, m>> \notin Less
    BY <1>1
  <2>2. ~(<<k, m>>[1] < <<k, m>>[2])
    BY <2>1 DEF Less
  <2> QED
    BY <2>2
<1>3. m \in Nat /\ \A k \in T : k \in Nat
  OBVIOUS
<1> QED
  BY <1>2, <1>3

(* What holds of 0, and of every number of whose predecessor it holds. *)
LEMMA UpTo ==
  ASSUME NEW n \in Nat, NEW T, 0 \in T, \A m \in 1..n : m - 1 \in T => m \in T
  PROVE  \A m \in 0..n : m \in T
<1> DEFINE Missing == {m \in 0..n : m \notin T}
<1>1. Missing \in SUBSET Nat
  OBVIOUS
<1>2. ASSUME Missing # {} PROVE FALSE
  <2>1. PICK m \in Missing : \A k \in Missing : m <= k
    BY <1>1, <1>2, Least
  <2>2. m \in 1..n
    BY <2>1
  <2>3. m - 1 \in 0..n /\ ~(m <= m - 1)
    BY <2>2
  <2>4. m - 1 \in T
    BY <2>1, <2>3
  <2> QED
    BY <2>1, <2>2, <2>4
<1> QED
  BY <1>2

-----------------------------------------------------------------------------
(* There is a function that starts with b and takes the given steps.  It is *)
(* what a recursive definition chooses, so the definition's equation holds. *)
Recurs(n, S, b, step) ==
  \E g \in [0..n -> S] : g[0] = b /\ \A i \in 1..n : g[i] = step[i][g[i - 1]]

(* There is one whenever every step leads from S to S. *)
LEMMA Recursion ==
  ASSUME NEW n \in Nat, NEW S, NEW b \in S, NEW step \in [1..n -> [S -> S]]
  PROVE  Recurs(n, S, b, step)
<1> DEFINE Ok(m, g) == g[0] = b /\ \A i \in 1..m : g[i] = step[i][g[i - 1]]
           Possible(m) == \E g \in [0..m -> S] : Ok(m, g)
           T == {m \in 0..n : Possible(m)}
<1>1. Possible(0)
  <2> DEFINE first == [i \in 0..0 |-> b]
  <2>1. first \in [0..0 -> S] /\ Ok(0, first)
    OBVIOUS
  <2> HIDE DEF first
  <2> QED
    BY <2>1
<1>2. ASSUME NEW m \in 1..n, Possible(m - 1) PROVE Possible(m)
  <2>1. PICK g \in [0..(m - 1) -> S] : Ok(m - 1, g)
    BY <1>2
  <2> DEFINE h == [i \in 0..m |-> IF i = m THEN step[m][g[m - 1]] ELSE g[i]]
  <2>2. h \in [0..m -> S]
    OBVIOUS
  <2>3. \A i \in 0..m : i # m => h[i] = g[i]
    OBVIOUS
  <2>4. h[m] = step[m][g[m - 1]] /\ h[m - 1] = g[m - 1] /\ h[0] = b
    BY <2>1
  <2> HIDE DEF h
  <2>5. ASSUME NEW i \in 1..m, i # m PROVE h[i] = step[i][h[i - 1]]
    <3>1. i \in 1..(m - 1) /\ i \in 0..m /\ i - 1 \in 0..m /\ i - 1 # m
      BY <2>5
    <3> QED
      BY <3>1, <2>1, <2>3, <2>5
  <2>6. Ok(m, h)
    BY <2>4, <2>5
  <2> QED
    BY <2>2, <2>6
<1> HIDE DEF Possible
<1>3. 0 \in T /\ \A m \in 1..n : m - 1 \in T => m \in T
  BY <1>1, <1>2
<1> HIDE DEF T
<1>4. \A m \in 0..n : m \in T
  BY <1>3, UpTo
<1> USE DEF T
<1>5. Possible(n)
  BY <1>4
<1> QED
  BY <1>5 DEF Possible, Recurs
-----------------------------------------------------------------------------
(* Numbers in ascending order, and the lists they make.                    *)
UpToNumber(T, t) == {u \in T : u <= t}

(* The more numbers lie below a number, the larger it is. *)
LEMMA RanksAscend ==
  ASSUME NEW T \in SUBSET Nat, IsFiniteSet(T)
  PROVE  /\ \A t \in T : Cardinality(UpToNumber(T, t)) \in 1..Cardinality(T)
         /\ \A s, t \in T : s < t => Cardinality(UpToNumber(T, s)) < Cardinality(UpToNumber(T, t))
<1>1. Cardinality(T) \in Nat
  BY FS_CardinalityType
<1>2. ASSUME NEW t \in T
      PROVE  /\ IsFiniteSet(UpToNumber(T, t)) /\ Cardinality(UpToNumber(T, t)) \in Nat
             /\ Cardinality(UpToNumber(T, t)) <= Cardinality(T)
             /\ Cardinality(UpToNumber(T, t)) # 0
  <2>1. UpToNumber(T, t) \in SUBSET T
    BY DEF UpToNumber
  <2>2. IsFiniteSet(UpToNumber(T, t)) /\ Cardinality(UpToNumber(T, t)) <= Cardinality(T)
    BY <2>1, FS_Subset
  <2>3. t \in UpToNumber(T, t)
    BY DEF UpToNumber
  <2>4. Cardinality(UpToNumber(T, t)) # 0
    BY <2>2, <2>3, FS_EmptySet
  <2> QED
    BY <2>2, <2>4, FS_CardinalityType
<1>3. ASSUME NEW s \in T, NEW t \in T, s < t
      PROVE  Cardinality(UpToNumber(T, s)) < Cardinality(UpToNumber(T, t))
  <2>1. UpToNumber(T, s) \in SUBSET UpToNumber(T, t)
    <3>1. s \in Nat /\ t \in Nat /\ \A u \in T : u \in Nat
      OBVIOUS
    <3>2. \A u \in T : u <= s => u <= t
      BY <1>3, <3>1
    <3> QED
      BY <3>2 DEF UpToNumber
  <2>2. t \in UpToNumber(T, t) /\ t \notin UpToNumber(T, s)
    <3>1. s \in Nat /\ t \in Nat
      OBVIOUS
    <3> QED
      BY <1>3, <3>1 DEF UpToNumber
  <2>3. /\ Cardinality(UpToNumber(T, s)) <= Cardinality(UpToNumber(T, t))
        /\ Cardinality(UpToNumber(T, t)) # Cardinality(UpToNumber(T, s))
    BY <1>2, <2>1, <2>2, FS_Subset
  <2> QED
    BY <1>2, <2>3
<1>4. ASSUME NEW t \in T PROVE Cardinality(UpToNumber(T, t)) \in 1..Cardinality(T)
  BY <1>1, <1>2
<1> QED
  BY <1>3, <1>4

(* There is an n-th number for every n, and it is one only. *)
LEMMA Nth ==
  ASSUME NEW T \in SUBSET Nat, IsFiniteSet(T)
  PROVE  /\ Cardinality(T) \in Nat
         /\ \A n \in 1..Cardinality(T) :
              NthOf(T, n) \in T /\ Cardinality(UpToNumber(T, NthOf(T, n))) = n
         /\ \A t \in T : /\ Cardinality(UpToNumber(T, t)) \in 1..Cardinality(T)
                         /\ NthOf(T, Cardinality(UpToNumber(T, t))) = t
         /\ \A m, n \in 1..Cardinality(T) : m < n => NthOf(T, m) < NthOf(T, n)
<1> DEFINE size == Cardinality(T)
           rank == [t \in T |-> Cardinality(UpToNumber(T, t))]
<1>1. size \in Nat /\ IsFiniteSet(1..size) /\ Cardinality(1..size) = size
  <2>1. size \in Nat
    BY FS_CardinalityType
  <2>2. IsFiniteSet(1..size) /\ Cardinality(1..size) = IF 1 > size THEN 0 ELSE size - 1 + 1
    BY <2>1, FS_Interval
  <2> QED
    BY <2>1, <2>2
<1>2. \A s, t \in T : s # t => rank[s] # rank[t]
  <2> SUFFICES ASSUME NEW s \in T, NEW t \in T, s # t PROVE rank[s] # rank[t]
    OBVIOUS
  <2>1. s < t \/ t < s
    <3>1. s \in Nat /\ t \in Nat
      OBVIOUS
    <3> QED
      BY <3>1
  <2>2. rank[s] \in Nat /\ rank[t] \in Nat
    BY RanksAscend, <1>1
  <2>3. rank[s] < rank[t] \/ rank[t] < rank[s]
    BY <2>1, RanksAscend
  <2> QED
    BY <2>2, <2>3
<1>3. rank \in [T -> 1..size]
  BY RanksAscend
<1>4. rank \in Injection(T, 1..size)
  BY <1>2, <1>3 DEF Injection, IsInjective
<1>5. rank \in Surjection(T, 1..size)
  BY <1>1, <1>4, FS_Injection
<1>6. \A n \in 1..size : \E t \in T : rank[t] = n
  BY <1>5 DEF Surjection
<1>7. ASSUME NEW n \in 1..size
      PROVE  NthOf(T, n) \in T /\ Cardinality(UpToNumber(T, NthOf(T, n))) = n
  <2>1. \E t \in T : Cardinality({u \in T : u <= t}) = n
    BY <1>6 DEF UpToNumber
  <2> QED
    BY <2>1 DEF NthOf, UpToNumber
<1>8. ASSUME NEW t \in T
      PROVE  /\ Cardinality(UpToNumber(T, t)) \in 1..size
             /\ NthOf(T, Cardinality(UpToNumber(T, t))) = t
  <2>1. rank[t] \in 1..size /\ rank[t] = Cardinality(UpToNumber(T, t))
    BY <1>3
  <2>2. NthOf(T, rank[t]) \in T /\ rank[NthOf(T, rank[t])] = rank[t]
    BY <1>7, <2>1
  <2> QED
    BY <1>2, <2>1, <2>2
<1>9. ASSUME NEW m \in 1..size, NEW n \in 1..size, m < n PROVE NthOf(T, m) < NthOf(T, n)
  <2> DEFINE s == NthOf(T, m)
             t == NthOf(T, n)
  <2>1. s \in T /\ t \in T /\ Cardinality(UpToNumber(T, s)) = m /\ Cardinality(UpToNumber(T, t)) = n
    BY <1>7
  <2>2. m \in Int /\ n \in Int /\ s \in Nat /\ t \in Nat
    <3>1. m \in Int /\ n \in Int
      BY <1>1
    <3> QED
      BY <2>1, <3>1
  <2>3. s # t /\ ~(t < s)
    BY <1>9, <2>1, <2>2, RanksAscend
  <2> QED
    BY <2>2, <2>3
<1> QED
  BY <1>1, <1>7, <1>8, <1>9

(* Whatever goes through some numbers in ascending order has the n-th n-th.*)
LEMMA OnlyOrder ==
  ASSUME NEW T \in SUBSET Nat, IsFiniteSet(T), NEW m \in Nat, NEW e \in [1..m -> T],
         \A i, j \in 1..m : i < j => e[i] < e[j],
         \A t \in T : \E i \in 1..m : e[i] = t
  PROVE  m = Cardinality(T) /\ \A n \in 1..m : e[n] = NthOf(T, n)
<1>1. \A i, j \in 1..m : i # j => e[i] # e[j]
  <2> SUFFICES ASSUME NEW i \in 1..m, NEW j \in 1..m, i # j PROVE e[i] # e[j]
    OBVIOUS
  <2>1. i < j \/ j < i
    OBVIOUS
  <2>2. e[i] < e[j] \/ e[j] < e[i]
    BY <2>1
  <2>3. e[i] \in T /\ e[j] \in T
    OBVIOUS
  <2>4. e[i] \in Nat /\ e[j] \in Nat
    BY <2>3
  <2> QED
    BY <2>2, <2>4
<1>2. e \in Bijection(1..m, T)
  BY <1>1 DEF Bijection, Injection, Surjection, IsInjective
<1>3. m = Cardinality(T)
  BY <1>2, FS_CountingElements DEF ExistsBijection
<1>4. ASSUME NEW n \in 1..m PROVE e[n] = NthOf(T, n)
  <2> DEFINE below == UpToNumber(T, e[n])
             upTo == [i \in 1..n |-> e[i]]
  <2>1. n \in Nat /\ 1..n \subseteq 1..m
    OBVIOUS
  <2>2. ASSUME NEW i \in 1..n PROVE e[i] \in below
    <3>1. i \in 1..m /\ (i = n \/ i < n)
      BY <2>1
    <3>2. e[i] \in T /\ e[n] \in T /\ (e[i] = e[n] \/ e[i] < e[n])
      BY <3>1
    <3>3. e[i] \in Nat /\ e[n] \in Nat
      BY <3>2
    <3>4. e[i] <= e[n]
      BY <3>2, <3>3
    <3> QED
      BY <3>2, <3>4 DEF UpToNumber
  <2>3. ASSUME NEW t \in below PROVE \E i \in 1..n : e[i] = t
    <3>1. t \in T /\ t <= e[n]
      BY DEF UpToNumber
    <3>2. PICK i \in 1..m : e[i] = t
      BY <3>1
    <3>3. e[n] \in Nat /\ e[i] \in Nat
      BY <3>1, <3>2
    <3>4. ~(n < i)
      BY <3>1, <3>2, <3>3
    <3> QED
      BY <3>2, <3>4
  <2>4. upTo \in [1..n -> below]
    BY <2>2
  <2>5. upTo \in Bijection(1..n, below)
    BY <1>1, <2>1, <2>3, <2>4 DEF Bijection, Injection, Surjection, IsInjective
  <2>6. Cardinality(below) = n
    BY <2>1, <2>5, FS_CountingElements DEF ExistsBijection
  <2>7. e[n] \in T
    OBVIOUS
  <2> QED
    BY <2>6, <2>7, Nth
<1> QED
  BY <1>3, <1>4

(* What closes up is a list of the same things. *)
LEMMA ClosedIsList ==
  ASSUME NEW T \in SUBSET Nat, IsFiniteSet(T), NEW S, NEW f \in [T -> S]
  PROVE  /\ Closed(f) \in [1..Cardinality(T) -> S] /\ Closed(f) \in Seq(S)
         /\ \A n \in 1..Cardinality(T) : Closed(f)[n] = f[NthOf(T, n)]
<1>1. DOMAIN f = T /\ Cardinality(T) \in Nat
  BY Nth
<1>2. \A n \in 1..Cardinality(T) : NthOf(T, n) \in T
  BY Nth
<1>3. Closed(f) = [n \in 1..Cardinality(T) |-> f[NthOf(T, n)]]
  BY <1>1 DEF Closed
<1>4. Closed(f) \in [1..Cardinality(T) -> S]
  BY <1>2, <1>3
<1>5. Closed(f) \in Seq(S)
  BY <1>1, <1>4, SeqDef
<1> QED
  BY <1>3, <1>4, <1>5

(* Item k of a closed-up list is the one at its k-th position. *)
LEMMA ClosedAt ==
  ASSUME NEW T, NEW S, NEW f \in [T -> S], NEW n \in 1..Cardinality(T)
  PROVE  Closed(f)[n] = f[NthOf(T, n)]
<1>1. DOMAIN f = T
  OBVIOUS
<1> QED
  BY <1>1 DEF Closed

(* A sequence has nothing to close. *)
LEMMA ClosedSequence ==
  ASSUME NEW S, NEW list \in Seq(S)
  PROVE  IsFiniteSet(DOMAIN list) /\ DOMAIN list \in SUBSET Nat /\ Closed(list) = list
<1> DEFINE T == 1..Len(list)
           same == [n \in T |-> n]
<1>1. Len(list) \in Nat /\ DOMAIN list = T /\ list \in [T -> S]
  OBVIOUS
<1>2. T \in SUBSET Nat /\ IsFiniteSet(T)
  BY <1>1, FS_Interval
<1>3. /\ same \in [1..Len(list) -> T]
      /\ \A i, j \in 1..Len(list) : i < j => same[i] < same[j]
      /\ \A t \in T : \E i \in 1..Len(list) : same[i] = t
  OBVIOUS
<1>4. Len(list) = Cardinality(T) /\ \A n \in T : same[n] = NthOf(T, n)
  <2> HIDE DEF same
  <2> QED
    BY <1>1, <1>2, <1>3, OnlyOrder
<1>5. Closed(list) = [n \in 1..Cardinality(T) |-> list[NthOf(T, n)]]
  BY <1>1 DEF Closed
<1>6. \A n \in T : NthOf(T, n) = n
  BY <1>4
<1>7. Closed(list) = [n \in T |-> list[n]]
  BY <1>4, <1>5, <1>6
<1> QED
  BY <1>1, <1>2, <1>7

(* What stands last, once the others have closed up. *)
LEMMA ClosedLast ==
  ASSUME NEW T \in SUBSET Nat, IsFiniteSet(T), NEW S, NEW f \in [T -> S],
         NEW x \in T, \A t \in T : t <= x
  PROVE  Closed(f) = Append(Closed(Restrict(f, T \ {x})), f[x])
<1> DEFINE U == T \ {x}
           k == Cardinality(U)
           e == [n \in 1..(k + 1) |-> IF n <= k THEN NthOf(U, n) ELSE x]
<1>1. U \in SUBSET Nat /\ IsFiniteSet(U) /\ Restrict(f, U) \in [U -> S]
  BY FS_Subset DEF Restrict
<1> HIDE DEF U
<1>2. k \in Nat /\ \A n \in 1..k : NthOf(U, n) \in U
  BY <1>1, Nth
<1>3. \A i, j \in 1..k : i < j => NthOf(U, i) < NthOf(U, j)
  BY <1>1, Nth
<1>4. \A u \in U : \E i \in 1..k : NthOf(U, i) = u
  BY <1>1, Nth
<1> HIDE DEF k
<1>5. e \in [1..(k + 1) -> T]
  BY <1>2 DEF U
<1>6. \A i, j \in 1..(k + 1) : i < j => e[i] < e[j]
  <2> SUFFICES ASSUME NEW i \in 1..(k + 1), NEW j \in 1..(k + 1), i < j PROVE e[i] < e[j]
    OBVIOUS
  <2>1. i \in 1..k /\ e[i] = NthOf(U, i)
    BY <1>2
  <2>2. CASE j <= k
    BY <1>2, <1>3, <2>1, <2>2
  <2>3. CASE ~(j <= k)
    <3>1. e[j] = x
      BY <2>3
    <3>2. NthOf(U, i) \in T /\ NthOf(U, i) # x
      BY <1>2, <2>1 DEF U
    <3>3. NthOf(U, i) <= x /\ NthOf(U, i) \in Nat /\ x \in Nat
      BY <3>2
    <3> HIDE DEF e
    <3> QED
      BY <2>1, <3>1, <3>2, <3>3
  <2> QED
    BY <2>2, <2>3
<1>7. \A t \in T : \E i \in 1..(k + 1) : e[i] = t
  <2> SUFFICES ASSUME NEW t \in T PROVE \E i \in 1..(k + 1) : e[i] = t
    OBVIOUS
  <2>1. CASE t = x
    <3>1. k + 1 \in 1..(k + 1) /\ e[k + 1] = x
      BY <1>2
    <3> QED
      BY <2>1, <3>1
  <2>2. CASE t # x
    <3>1. PICK i \in 1..k : NthOf(U, i) = t
      BY <1>4, <2>2 DEF U
    <3>2. i \in 1..(k + 1) /\ e[i] = NthOf(U, i)
      BY <1>2
    <3> QED
      BY <3>1, <3>2
  <2> QED
    BY <2>1, <2>2
<1>8. \A n \in 1..k : e[n] = NthOf(U, n)
  BY <1>2
<1>9. e[k + 1] = x /\ k + 1 \in 1..(k + 1) /\ k + 1 \in Nat
  BY <1>2
<1> HIDE DEF e
<1>10. k + 1 = Cardinality(T) /\ \A n \in 1..(k + 1) : e[n] = NthOf(T, n)
  BY <1>5, <1>6, <1>7, <1>9, OnlyOrder
<1>11. Closed(Restrict(f, U)) \in Seq(S) /\ Closed(Restrict(f, U)) \in [1..k -> S]
  BY <1>1, ClosedIsList DEF k
<1>12. \A n \in 1..k : Closed(Restrict(f, U))[n] = Restrict(f, U)[NthOf(U, n)]
  BY <1>1, ClosedIsList DEF k
<1>13. \A n \in 1..k : Closed(Restrict(f, U))[n] = f[NthOf(U, n)]
  BY <1>2, <1>12 DEF Restrict
<1>14. Closed(f) \in Seq(S) /\ Closed(f) \in [1..(k + 1) -> S]
  BY <1>10, ClosedIsList
<1>15. \A n \in 1..(k + 1) : Closed(f)[n] = f[NthOf(T, n)]
  <2>1. \A n \in 1..Cardinality(T) : Closed(f)[n] = f[NthOf(T, n)]
    BY ClosedAt
  <2> QED
    BY <1>10, <2>1
<1> DEFINE a == Closed(f)
           b == Closed(Restrict(f, U))
<1>16. f[x] \in S
  OBVIOUS
<1>17. /\ \A n \in 1..k : a[n] = b[n]
       /\ a[k + 1] = f[x]
  BY <1>2, <1>8, <1>9, <1>10, <1>13, <1>15
<1> HIDE DEF a, b
<1>18. a = Append(b, f[x])
  <2>1. a \in Seq(S) /\ Len(a) = k + 1 /\ b \in Seq(S) /\ Len(b) = k
    BY <1>2, <1>11, <1>14 DEF a, b
  <2>2. Append(b, f[x]) \in Seq(S) /\ Len(Append(b, f[x])) = k + 1
    BY <1>16, <2>1
  <2>3. \A n \in 1..(k + 1) : a[n] = Append(b, f[x])[n]
    BY <1>2, <1>17, <2>1
  <2> QED
    BY <2>1, <2>2, <2>3
<1> QED
  BY <1>18 DEF a, b, U

(* Where in a closed list the ones stand that stay. *)
Staying(T, U) == {n \in 1..Cardinality(T) : NthOf(T, n) \in U}

(* Leaving some out of a closed list is leaving them out before it closes. *)
LEMMA ClosedTwice ==
  ASSUME NEW T \in SUBSET Nat, IsFiniteSet(T), NEW S, NEW f \in [T -> S],
         NEW U \in SUBSET T
  PROVE  Closed(Restrict(Closed(f), Staying(T, U))) = Closed(Restrict(f, U))
<1> DEFINE stay == Staying(T, U)
<1>0. stay = {n \in 1..Cardinality(T) : NthOf(T, n) \in U}
  BY DEF Staying
<1> HIDE DEF stay
<1>1. /\ Cardinality(T) \in Nat /\ stay \in SUBSET Nat /\ stay \subseteq 1..Cardinality(T)
      /\ IsFiniteSet(stay) /\ IsFiniteSet(U) /\ U \in SUBSET Nat
  <2>1. Cardinality(T) \in Nat
    BY Nth
  <2>2. IsFiniteSet(1..Cardinality(T))
    BY <2>1, FS_Interval
  <2>3. stay \in SUBSET (1..Cardinality(T))
    BY <1>0
  <2>4. IsFiniteSet(stay) /\ IsFiniteSet(U)
    BY <2>2, <2>3, FS_Subset
  <2> QED
    BY <2>1, <2>3, <2>4
<1>2. Cardinality(stay) \in Nat /\ \A n \in 1..Cardinality(stay) : NthOf(stay, n) \in stay
  BY <1>1, Nth
<1> DEFINE e == [n \in 1..Cardinality(stay) |-> NthOf(T, NthOf(stay, n))]
<1>3. e \in [1..Cardinality(stay) -> U]
  BY <1>0, <1>2
<1>4. \A i, j \in 1..Cardinality(stay) : i < j => e[i] < e[j]
  <2> SUFFICES ASSUME NEW i \in 1..Cardinality(stay), NEW j \in 1..Cardinality(stay), i < j
               PROVE  NthOf(T, NthOf(stay, i)) < NthOf(T, NthOf(stay, j))
    OBVIOUS
  <2>1. NthOf(stay, i) < NthOf(stay, j)
    BY <1>1, Nth
  <2>2. NthOf(stay, i) \in 1..Cardinality(T) /\ NthOf(stay, j) \in 1..Cardinality(T)
    BY <1>1, <1>2
  <2> QED
    BY <2>1, <2>2, Nth
<1>5. \A t \in U : \E i \in 1..Cardinality(stay) : e[i] = t
  <2> SUFFICES ASSUME NEW t \in U PROVE \E i \in 1..Cardinality(stay) : e[i] = t
    OBVIOUS
  <2>1. PICK n \in 1..Cardinality(T) : NthOf(T, n) = t
    BY Nth
  <2>2. n \in stay
    BY <1>0, <2>1
  <2>3. \A k \in stay : /\ Cardinality(UpToNumber(stay, k)) \in 1..Cardinality(stay)
                         /\ NthOf(stay, Cardinality(UpToNumber(stay, k))) = k
    BY <1>1, Nth
  <2>4. PICK i \in 1..Cardinality(stay) : NthOf(stay, i) = n
    BY <2>2, <2>3
  <2> QED
    BY <2>1, <2>4
<1>6. Cardinality(stay) = Cardinality(U) /\ \A n \in 1..Cardinality(stay) : e[n] = NthOf(U, n)
  <2> HIDE DEF e
  <2> QED
    BY <1>1, <1>2, <1>3, <1>4, <1>5, OnlyOrder
<1>7. \A n \in 1..Cardinality(stay) : NthOf(T, NthOf(stay, n)) = NthOf(U, n) /\ NthOf(U, n) \in U
  BY <1>3, <1>6
<1>8. Closed(Restrict(Closed(f), stay)) =
        [n \in 1..Cardinality(stay) |-> Restrict(Closed(f), stay)[NthOf(stay, n)]]
  BY DEF Closed, Restrict
<1>9. Closed(Restrict(f, U)) = [n \in 1..Cardinality(U) |-> Restrict(f, U)[NthOf(U, n)]]
  BY DEF Closed, Restrict
<1>10. ASSUME NEW n \in 1..Cardinality(stay)
       PROVE  Restrict(Closed(f), stay)[NthOf(stay, n)] = Restrict(f, U)[NthOf(U, n)]
  <2>1. Restrict(Closed(f), stay)[NthOf(stay, n)] = Closed(f)[NthOf(stay, n)]
    BY <1>2 DEF Restrict
  <2>2. Closed(f)[NthOf(stay, n)] = f[NthOf(T, NthOf(stay, n))]
    <3>1. NthOf(stay, n) \in 1..Cardinality(T)
      BY <1>1, <1>2
    <3>2. \A k \in 1..Cardinality(T) : Closed(f)[k] = f[NthOf(T, k)]
      BY ClosedAt
    <3> QED
      BY <3>1, <3>2
  <2>3. Restrict(f, U)[NthOf(U, n)] = f[NthOf(U, n)]
    BY <1>7 DEF Restrict
  <2> QED
    BY <1>7, <2>1, <2>2, <2>3
<1> QED
  BY <1>6, <1>8, <1>9, <1>10 DEF stay
=============================================================================
