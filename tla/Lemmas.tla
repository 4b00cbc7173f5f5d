------------------------------- MODULE Lemmas -------------------------------
(***************************************************************************)
(* The lemmas that the proofs about several components cite.               *)
(*                                                                         *)
(* What the proofs need of sums over sequences, which the models write as  *)
(* folds, of sequences put one behind another, of the ranks of numbers in  *)
(* a set, and of its least one, by which a fact about every number is      *)
(* proved: the least one it fails for is ruled out.  A fold expands to a   *)
(* recursive function on the sets of indices that takes the largest index  *)
(* first.  The sum it computes is described here without recursion, by     *)
(* counting units: index i stands for w[i] of them.                        *)
(***************************************************************************)
EXTENDS PrefixCache, FiniteSetsExt, FiniteSetTheorems, SequenceTheorems, WellFoundedInduction, TLAPS

(* A set of natural numbers that is not empty has a least element.         *)
LEMMA LeastNatural ==
  ASSUME NEW S \in SUBSET Nat, S # {}
  PROVE  \E n \in S : \A m \in S : n <= m
<1>. DEFINE Below(n) == {m \in S : m < n}
            T == {Below(n) : n \in S}
<1>1. T \subseteq FiniteSubsetsOf(S)
  <2>. SUFFICES ASSUME NEW n \in S PROVE IsFiniteSet(Below(n))
    BY DEF FiniteSubsetsOf
  <2>. QED  BY FS_BoundedSetOfNaturals
<1>2. PICK x \in T : \A y \in T : ~(<<y, x>> \in StrictSubsetOrdering(S))
  <2>1. T # {}  OBVIOUS
  <2>2. IsWellFoundedOn(StrictSubsetOrdering(S), FiniteSubsetsOf(S))
    BY FS_StrictSubsetOrderingWellFounded
  <2>. HIDE DEF T
  <2>. QED  BY <1>1, <2>1, <2>2, WFMin
<1>3. PICK n \in S : x = Below(n)
  BY <1>2
<1>4. ASSUME NEW m \in S, m < n PROVE FALSE
  <2>1. m \in Below(n) /\ m \notin Below(m)
    BY <1>4
  <2>2. Below(m) \subseteq Below(n)
    <3>. SUFFICES ASSUME NEW k \in S, k < m PROVE k < n
      OBVIOUS
    <3>. QED  BY <1>4
  <2>3. Below(m) \in T /\ Below(m) # Below(n)
    BY <2>1
  <2>. QED  BY <2>2, <2>3, <1>2, <1>3 DEF StrictSubsetOrdering
<1>. QED  BY <1>4

(* A set of natural numbers with an upper bound has a greatest element.    *)
LEMMA GreatestNatural ==
  ASSUME NEW S \in SUBSET Nat, S # {}, NEW b \in Nat, \A m \in S : m <= b
  PROVE  \E n \in S : \A m \in S : m <= n
<1>. DEFINE D == {b - m : m \in S}
<1>1. D \in SUBSET Nat /\ D # {}
  <2>1. \A m \in S : b - m \in Nat
    OBVIOUS
  <2>. QED  BY <2>1
<1>2. PICK d \in D : \A e \in D : d <= e
  <2>. HIDE DEF D
  <2>. QED  BY <1>1, LeastNatural
<1>3. PICK n \in S : d = b - n
  BY <1>2
<1>4. ASSUME NEW m \in S PROVE m <= n
  <2>1. d <= b - m
    BY <1>2
  <2>. QED  BY <2>1, <1>3
<1>. QED  BY <1>4

(* Min() and Max() of such a set are in it and bound it.                   *)
LEMMA MinIn ==
  ASSUME NEW S \in SUBSET Nat, S # {}
  PROVE  Min(S) \in S /\ \A m \in S : Min(S) <= m
<1>1. \E n \in S : \A m \in S : n <= m
  BY LeastNatural
<1>. QED  BY <1>1 DEF Min

LEMMA MaxIn ==
  ASSUME NEW S \in SUBSET Nat, S # {}, NEW b \in Nat, \A m \in S : m <= b
  PROVE  Max(S) \in S /\ \A m \in S : m <= Max(S)
<1>1. \E n \in S : \A m \in S : m <= n
  BY GreatestNatural
<1>2. \E n \in S : \A m \in S : n >= m
  BY <1>1
<1>. QED  BY <1>2 DEF Max

-----------------------------------------------------------------------------
\* The units that the indices in S stand for.
Units(w, S) == {p \in S \X Nat : p[2] \in 1..w[p[1]]}

Total(w, S) == Cardinality(Units(w, S))

Greatest(S) == CHOOSE x \in S : \A y \in S : x >= y

(* A finite set of indices stands for finitely many units.                 *)
LEMMA UnitsFinite ==
  ASSUME NEW S, IsFiniteSet(S), NEW w, \A i \in S : w[i] \in Nat
  PROVE  IsFiniteSet(Units(w, S)) /\ Total(w, S) \in Nat
<1>. DEFINE of == [i \in S |-> {i} \X (1..w[i])]
            T == {of[i] : i \in S}
<1>1. of \in Surjection(S, T)
  BY DEF Surjection
<1>2. IsFiniteSet(T)
  <2>. HIDE DEF of, T
  <2>. QED  BY <1>1, FS_Surjection
<1>3. \A t \in T : IsFiniteSet(t)
  <2>. SUFFICES ASSUME NEW i \in S PROVE IsFiniteSet({i} \X (1..w[i]))
    OBVIOUS
  <2>1. IsFiniteSet({i})
    BY FS_Singleton
  <2>2. IsFiniteSet(1..w[i])
    BY FS_Interval
  <2>. QED  BY <2>1, <2>2, FS_Product
<1>4. Units(w, S) \subseteq UNION T
  BY DEF Units
<1>5. IsFiniteSet(UNION T)
  <2>. HIDE DEF T
  <2>. QED  BY <1>2, <1>3, FS_UNION
<1>. QED  BY <1>4, <1>5, FS_Subset, FS_CardinalityType DEF Total

(* No index, no unit.                                                      *)
LEMMA TotalEmpty ==
  ASSUME NEW w
  PROVE  Total(w, {}) = 0
BY FS_EmptySet DEF Total, Units

(* One index stands for as many units as it says.                          *)
LEMMA TotalSingle ==
  ASSUME NEW i, NEW w, w[i] \in Nat
  PROVE  Total(w, {i}) = w[i]
<1>1. Units(w, {i}) = {i} \X (1..w[i])
  BY DEF Units
<1>2. IsFiniteSet({i}) /\ Cardinality({i}) = 1
  BY FS_Singleton
<1>3. IsFiniteSet(1..w[i]) /\ Cardinality(1..w[i]) = w[i]
  <2>1. /\ IsFiniteSet(1..w[i])
        /\ Cardinality(1..w[i]) = IF 1 > w[i] THEN 0 ELSE w[i] - 1 + 1
    BY FS_Interval, SMTT(60)
  <2>. QED  BY <2>1
<1>4. Cardinality({i} \X (1..w[i])) = Cardinality({i}) * Cardinality(1..w[i])
  BY <1>2, <1>3, FS_Product
<1>5. Cardinality({i} \X (1..w[i])) = w[i]
  BY <1>2, <1>3, <1>4
<1>. QED  BY <1>1, <1>5 DEF Total

(* Indices that are counted apart add up.                                  *)
LEMMA TotalUnion ==
  ASSUME NEW S, NEW T, IsFiniteSet(S), IsFiniteSet(T), S \cap T = {},
         NEW w, \A i \in S \cup T : w[i] \in Nat
  PROVE  Total(w, S \cup T) = Total(w, S) + Total(w, T)
<1>1. /\ Units(w, S \cup T) = Units(w, S) \cup Units(w, T)
      /\ Units(w, S) \cap Units(w, T) = {}
  BY DEF Units
<1>2. IsFiniteSet(Units(w, S)) /\ IsFiniteSet(Units(w, T))
  BY UnitsFinite
<1>3. Total(w, S) \in Nat /\ Total(w, T) \in Nat
  BY UnitsFinite
<1>4. Cardinality(Units(w, S) \cup Units(w, T))
        = Total(w, S) + Total(w, T) - Cardinality(Units(w, S) \cap Units(w, T))
  BY <1>2, FS_Union DEF Total
<1>5. Cardinality(Units(w, S) \cap Units(w, T)) = 0
  BY <1>1, FS_EmptySet
<1>6. Total(w, S \cup T) = Cardinality(Units(w, S) \cup Units(w, T))
  BY <1>1 DEF Total
<1>. QED  BY <1>3, <1>4, <1>5, <1>6

(* Only the numbers at the indices matter.                                 *)
LEMMA TotalSame ==
  ASSUME NEW S, NEW v, NEW w, \A i \in S : v[i] = w[i]
  PROVE  Total(v, S) = Total(w, S)
<1>1. Units(v, S) = Units(w, S)
  BY DEF Units
<1>. QED  BY <1>1 DEF Total

(* Indices counted from another origin stand for the same units.           *)
LEMMA TotalShifted ==
  ASSUME NEW m \in Nat, NEW n \in Nat, NEW v, NEW w,
         \A i \in 1..n : v[i] \in Nat /\ w[m + i] = v[i]
  PROVE  Total(w, m + 1..m + n) = Total(v, 1..n)
<1>. DEFINE A == Units(v, 1..n)
            B == Units(w, m + 1..m + n)
            up == [p \in A |-> <<m + p[1], p[2]>>]
<1>1. up \in Bijection(A, B)
  <2>1. \A p \in A : up[p] \in B
    BY DEF Units
  <2>2. \A p, q \in A : up[p] = up[q] => p = q
    BY DEF Units
  <2>3. \A q \in B : \E p \in A : up[p] = q
    <3>. SUFFICES ASSUME NEW q \in B PROVE \E p \in A : up[p] = q
      OBVIOUS
    <3>1. /\ q[1] \in m + 1..m + n /\ q[2] \in Nat /\ q[2] \in 1..w[q[1]]
          /\ q = <<q[1], q[2]>>
      BY DEF Units
    <3>2. q[1] - m \in 1..n /\ m + (q[1] - m) = q[1]
      BY <3>1
    <3>3. w[q[1]] = v[q[1] - m]
      BY <3>2
    <3>4. <<q[1] - m, q[2]>> \in A
      BY <3>1, <3>2, <3>3 DEF Units
    <3>. QED  BY <3>1, <3>2, <3>4
  <2>. HIDE DEF up, A, B
  <2>4. up \in [A -> B]
    BY <2>1 DEF up
  <2>. QED  BY <2>2, <2>3, <2>4 DEF Bijection, Injection, Surjection, IsInjective
<1>2. IsFiniteSet(A)
  <2>1. IsFiniteSet(1..n)
    BY FS_Interval
  <2>. QED  BY <2>1, UnitsFinite
<1>3. Cardinality(B) = Cardinality(A)
  <2>. HIDE DEF up, A, B
  <2>1. ExistsBijection(A, B)
    BY <1>1 DEF ExistsBijection
  <2>. QED  BY <1>2, <2>1, FS_Bijection
<1>. QED  BY <1>3 DEF Total

(* Each index of a set of them adds what it says.                          *)
LEMMA TotalRemove ==
  ASSUME NEW n \in Nat, NEW w, \A i \in 1..n : w[i] \in Nat,
         NEW S \in SUBSET (1..n), NEW x \in S
  PROVE  Total(w, S) = Total(w, S \ {x}) + w[x]
<1>1. IsFiniteSet(S \ {x}) /\ IsFiniteSet({x})
  <2>1. IsFiniteSet(1..n)
    BY FS_Interval
  <2>2. IsFiniteSet(S)
    BY <2>1, FS_Subset
  <2>. QED  BY <2>2, FS_RemoveElement, FS_Singleton
<1>2. Total(w, (S \ {x}) \cup {x}) = Total(w, S \ {x}) + Total(w, {x})
  <2>1. \A i \in (S \ {x}) \cup {x} : w[i] \in Nat
    OBVIOUS
  <2>. QED  BY <1>1, <2>1, TotalUnion
<1>3. (S \ {x}) \cup {x} = S
  OBVIOUS
<1>4. Total(w, {x}) = w[x]
  BY TotalSingle
<1>. QED  BY <1>2, <1>3, <1>4

(* The last index of a finite set of them does so.                         *)
LEMMA TotalGreatest ==
  ASSUME NEW n \in Nat, NEW w, \A i \in 1..n : w[i] \in Nat,
         NEW S \in SUBSET (1..n), S # {}
  PROVE  /\ Greatest(S) \in S
         /\ Total(w, S) = Total(w, S \ {Greatest(S)}) + w[Greatest(S)]
<1>1. Greatest(S) \in S
  <2>1. \E x \in S : \A y \in S : y <= x
    <3>1. S \in SUBSET Nat /\ \A m \in S : m <= n
      OBVIOUS
    <3>. QED  BY <3>1, GreatestNatural
  <2>2. \E x \in S : \A y \in S : x >= y
    BY <2>1
  <2>. QED  BY <2>2 DEF Greatest
<1>. QED  BY <1>1, TotalRemove

\* Which index of a set of those up to n a fold takes first.
Picks(pick, n) == \A S \in SUBSET (1..n) : S # {} => pick[S] \in S

\* A function of sets of indices that adds their numbers up in that order.
Sums(g, w, pick, n) ==
  \A S \in SUBSET (1..n) : g[S] = IF S = {} THEN 0 ELSE g[S \ {pick[S]}] + w[pick[S]]

(* A function of sets of indices that adds the numbers up, one index of    *)
(* the set after another, computes their total: what a fold expands to.    *)
LEMMA TotalUnique ==
  ASSUME NEW n \in Nat, NEW w, \A i \in 1..n : w[i] \in Nat,
         NEW pick, Picks(pick, n), NEW g, Sums(g, w, pick, n)
  PROVE  g[1..n] = Total(w, 1..n)
<1>. DEFINE Wrong == {S \in SUBSET (1..n) : g[S] # Total(w, S)}
<1>1. Wrong = {}
  <2>. SUFFICES ASSUME Wrong # {} PROVE FALSE
    OBVIOUS
  <2>1. IsFiniteSet(1..n)
    BY FS_Interval
  <2>2. IsWellFoundedOn(StrictSubsetOrdering(1..n), SUBSET (1..n))
    BY <2>1, FS_StrictSubsetOrderingWellFounded, FS_FiniteSubsetsOfFinite
  <2>3. PICK S \in Wrong : \A T \in Wrong : ~(<<T, S>> \in StrictSubsetOrdering(1..n))
    <3>1. Wrong \subseteq SUBSET (1..n)
      OBVIOUS
    <3>. HIDE DEF Wrong
    <3>. QED  BY <2>2, <3>1, WFMin
  <2>4. S # {}
    BY TotalEmpty DEF Sums
  <2>. DEFINE x == pick[S]
  <2>5. x \in S /\ Total(w, S) = Total(w, S \ {x}) + w[x]
    <3>1. x \in S
      BY <2>4 DEF Picks
    <3>2. S \in SUBSET (1..n)
      OBVIOUS
    <3>. HIDE DEF x, Wrong
    <3>3. Total(w, S) = Total(w, S \ {x}) + w[x]
      BY <3>1, <3>2, TotalRemove
    <3>. QED  BY <3>1, <3>3
  <2>6. S \ {x} \notin Wrong
    <3>. DEFINE R == S \ {x}
    <3>1. R \subseteq S /\ R # S /\ R \in SUBSET (1..n) /\ S \in SUBSET (1..n)
      BY <2>5
    <3>. HIDE DEF R, Wrong
    <3>2. <<R, S>> \in StrictSubsetOrdering(1..n)
      BY <3>1 DEF StrictSubsetOrdering
    <3>3. R \notin Wrong
      BY <2>3, <3>2
    <3>. QED  BY <3>3 DEF R
  <2>7. g[S] = g[S \ {x}] + w[x]
    BY <2>4 DEF Sums
  <2>. QED  BY <2>5, <2>6, <2>7
<1>. QED  BY <1>1

(* The greatest index of a set may be picked.                              *)
LEMMA TotalByGreatest ==
  ASSUME NEW n \in Nat, NEW w, \A i \in 1..n : w[i] \in Nat,
         NEW g,
         \A S \in SUBSET (1..n) :
           g[S] = IF S = {} THEN 0 ELSE g[S \ {Greatest(S)}] + w[Greatest(S)]
  PROVE  g[1..n] = Total(w, 1..n)
<1>. DEFINE pick == [S \in SUBSET (1..n) |-> Greatest(S)]
<1>1. \A S \in SUBSET (1..n) : pick[S] = Greatest(S)
  OBVIOUS
<1>2. Picks(pick, n)
  BY <1>1, TotalGreatest DEF Picks
<1>3. Sums(g, w, pick, n)
  BY <1>1 DEF Sums
<1>. HIDE DEF pick
<1>. QED  BY <1>2, <1>3, TotalUnique

(* The total of the first indices, one after another.                      *)
LEMMA TotalNext ==
  ASSUME NEW n \in Nat, NEW w, \A i \in 1..n + 1 : w[i] \in Nat
  PROVE  /\ Total(w, 1..n) \in Nat /\ Total(w, 1..n + 1) \in Nat
         /\ Total(w, 1..n + 1) = Total(w, 1..n) + w[n + 1]
<1>1. /\ 1..n + 1 = (1..n) \cup {n + 1} /\ (1..n) \cap {n + 1} = {}
      /\ \A i \in (1..n) \cup {n + 1} : w[i] \in Nat
  OBVIOUS
<1>2. IsFiniteSet(1..n) /\ IsFiniteSet({n + 1}) /\ IsFiniteSet(1..n + 1)
  <2>1. 1 \in Int /\ n \in Int /\ n + 1 \in Int
    OBVIOUS
  <2>. QED  BY <2>1, FS_Interval, FS_Singleton
<1>3. Total(w, (1..n) \cup {n + 1}) = Total(w, 1..n) + Total(w, {n + 1})
  BY <1>1, <1>2, TotalUnion
<1>4. w[n + 1] \in Nat
  BY <1>1
<1>5. Total(w, {n + 1}) = w[n + 1]
  BY <1>4, TotalSingle
<1>6. Total(w, 1..n) \in Nat /\ Total(w, 1..n + 1) \in Nat
  BY <1>2, UnitsFinite
<1>. QED  BY <1>1, <1>3, <1>5, <1>6

(* The first indices stand for no more units than all of them.             *)
LEMMA TotalGrows ==
  ASSUME NEW n \in Nat, NEW m \in 0..n, NEW w, \A i \in 1..n : w[i] \in Nat
  PROVE  /\ Total(w, 1..m) \in Nat /\ Total(w, 1..n) \in Nat
         /\ Total(w, 1..m) <= Total(w, 1..n)
<1>1. /\ 1..n = (1..m) \cup (m + 1..n) /\ (1..m) \cap (m + 1..n) = {}
      /\ \A i \in (1..m) \cup (m + 1..n) : w[i] \in Nat
  OBVIOUS
<1>2. IsFiniteSet(1..m) /\ IsFiniteSet(m + 1..n)
  BY FS_Interval
<1>3. Total(w, (1..m) \cup (m + 1..n)) = Total(w, 1..m) + Total(w, m + 1..n)
  BY <1>1, <1>2, TotalUnion
<1>4. Total(w, 1..m) \in Nat /\ Total(w, m + 1..n) \in Nat
  BY <1>1, <1>2, UnitsFinite
<1>5. Total(w, 1..n) = Total(w, 1..m) + Total(w, m + 1..n)
  BY <1>1, <1>3
<1>6. PICK a \in Nat, b \in Nat : a = Total(w, 1..m) /\ b = Total(w, m + 1..n)
  BY <1>4
<1>. QED  BY <1>5, <1>6

(* Numbers none of which exceeds b add up to no more than n times b.       *)
LEMMA TotalBounded ==
  ASSUME NEW n \in Nat, NEW b \in Nat, NEW w, \A i \in 1..n : w[i] \in Nat /\ w[i] <= b
  PROVE  Total(w, 1..n) \in Nat /\ Total(w, 1..n) <= n * b
<1>. DEFINE Bad == {m \in 0..n : ~(Total(w, 1..m) \in Nat /\ Total(w, 1..m) <= m * b)}
<1>1. Bad = {}
  <2>. SUFFICES ASSUME Bad # {} PROVE FALSE
    OBVIOUS
  <2>1. PICK m \in Bad : \A k \in Bad : m <= k
    <3>1. Bad \in SUBSET Nat
      OBVIOUS
    <3>. HIDE DEF Bad
    <3>. QED  BY <3>1, LeastNatural
  <2>2. m # 0
    <3>1. 1..0 = {} /\ 0 * b = 0
      OBVIOUS
    <3>2. Total(w, 1..0) = 0
      BY <3>1, TotalEmpty
    <3>. QED  BY <3>1, <3>2
  <2>3. PICK l \in Nat : m = l + 1 /\ l \in 0..n /\ l + 1 \in 1..n
    <3>1. m \in 0..n
      OBVIOUS
    <3>. HIDE DEF Bad
    <3>2. m - 1 \in Nat /\ m = m - 1 + 1 /\ m - 1 \in 0..n /\ m \in 1..n
      BY <2>2, <3>1
    <3>. QED  BY <3>2
  <2>4. l \notin Bad
    <3>. HIDE DEF Bad
    <3>. QED  BY <2>1, <2>3
  <2>5. Total(w, 1..l) \in Nat /\ Total(w, 1..l) <= l * b
    BY <2>3, <2>4
  <2>6. w[l + 1] \in Nat /\ w[l + 1] <= b /\ \A i \in 1..l + 1 : w[i] \in Nat
    BY <2>3
  <2>. HIDE DEF Bad
  <2>7. Total(w, 1..l + 1) \in Nat /\ Total(w, 1..l + 1) = Total(w, 1..l) + w[l + 1]
    BY <2>6, TotalNext
  <2>8. l * b + b = (l + 1) * b
    OBVIOUS
  <2>9. Total(w, 1..l + 1) <= (l + 1) * b
    <3>1. PICK t \in Nat : t = Total(w, 1..l)
      BY <2>5
    <3>2. PICK p \in Nat : p = l * b
      BY <2>5
    <3>. QED  BY <2>5, <2>6, <2>7, <2>8, <3>1, <3>2
  <2>10. m \notin Bad
    BY <2>3, <2>7, <2>9 DEF Bad
  <2>. QED  BY <2>10
<1>2. n \in 0..n
  OBVIOUS
<1>3. n \notin Bad
  BY <1>1
<1>. QED  BY <1>2, <1>3

-----------------------------------------------------------------------------
\* Sequences of whatever they hold.
IsSeq(s) == s \in Seq(Range(s))

(* What a sequence is indexed by.                                          *)
LEMMA SeqFacts ==
  ASSUME NEW s, IsSeq(s)
  PROVE  /\ Len(s) \in Nat /\ DOMAIN s = 1..Len(s)
         /\ Len(s) = 0 <=> s = <<>>
BY DEF IsSeq

(* Sequences over some set are.                                            *)
LEMMA KnownSeq ==
  ASSUME NEW S, NEW s \in Seq(S)
  PROVE  IsSeq(s)
<1>1. Len(s) \in Nat /\ s \in [1..Len(s) -> Range(s)]
  BY DEF Range
<1>. QED  BY <1>1, SeqDef DEF IsSeq

(* So is the empty one.                                                    *)
LEMMA NoSeq == IsSeq(<<>>) /\ Len(<<>>) = 0
<1>1. <<>> \in Seq({}) /\ Len(<<>>) = 0
  OBVIOUS
<1>. QED  BY <1>1, KnownSeq

(* So is what is listed by number.                                         *)
LEMMA Listing ==
  ASSUME NEW n \in Nat, NEW f, f = [i \in 1..n |-> f[i]]
  PROVE  IsSeq(f) /\ Len(f) = n
<1>1. f \in [1..n -> Range(f)]
  BY DEF Range
<1>2. f \in Seq(Range(f)) /\ DOMAIN f = 1..n
  BY <1>1
<1>. QED  BY <1>2 DEF IsSeq

(* Two of them put one behind the other.                                   *)
LEMMA Joined ==
  ASSUME NEW s, IsSeq(s), NEW t, IsSeq(t)
  PROVE  /\ IsSeq(s \o t) /\ Len(s \o t) = Len(s) + Len(t)
         /\ \A i \in 1..Len(s) : (s \o t)[i] = s[i]
         /\ \A i \in 1..Len(t) : (s \o t)[Len(s) + i] = t[i]
<1>. DEFINE S == Range(s) \cup Range(t)
<1>1. s \in Seq(S) /\ t \in Seq(S)
  <2>1. /\ s \in Seq(Range(s)) /\ t \in Seq(Range(t))
    BY DEF IsSeq
  <2>2. Range(s) \subseteq S /\ Range(t) \subseteq S
    OBVIOUS
  <2>. HIDE DEF S
  <2>. QED  BY <2>1, <2>2
<1>. HIDE DEF S
<1>2. s \o t \in Seq(S) /\ Len(s \o t) = Len(s) + Len(t)
      /\ \A i \in 1..Len(s) + Len(t) : (s \o t)[i] = IF i <= Len(s) THEN s[i] ELSE t[i - Len(s)]
  BY <1>1, ConcatProperties
<1>3. IsSeq(s \o t)
  BY <1>2, KnownSeq
<1>4. Len(s) \in Nat /\ Len(t) \in Nat
  BY SeqFacts
<1>5. ASSUME NEW i \in 1..Len(s) PROVE (s \o t)[i] = s[i]
  BY <1>2, <1>4
<1>6. ASSUME NEW i \in 1..Len(t) PROVE (s \o t)[Len(s) + i] = t[i]
  <2>1. Len(s) + i \in 1..Len(s) + Len(t) /\ ~(Len(s) + i <= Len(s)) /\ Len(s) + i - Len(s) = i
    BY <1>4
  <2>. QED  BY <1>2, <2>1
<1>. QED  BY <1>2, <1>3, <1>5, <1>6

(* One more element.                                                       *)
LEMMA Appended ==
  ASSUME NEW s, IsSeq(s), NEW x
  PROVE  /\ IsSeq(Append(s, x)) /\ Len(Append(s, x)) = Len(s) + 1
         /\ \A i \in 1..Len(s) : Append(s, x)[i] = s[i]
         /\ Append(s, x)[Len(s) + 1] = x
<1>. DEFINE S == Range(s) \cup {x}
<1>1. s \in Seq(S) /\ x \in S
  <2>1. s \in Seq(Range(s)) /\ Range(s) \subseteq S
    BY DEF IsSeq
  <2>. QED  BY <2>1
<1>. HIDE DEF S
<1>2. Append(s, x) \in Seq(S) /\ Len(Append(s, x)) = Len(s) + 1
      /\ (\A i \in 1..Len(s) : Append(s, x)[i] = s[i]) /\ Append(s, x)[Len(s) + 1] = x
  BY <1>1, AppendProperties
<1>. QED  BY <1>2, KnownSeq

-----------------------------------------------------------------------------
\* The function FlattenSeq() chooses for n sequences.
Flattening(f, seqs, n) ==
  f = [i \in 1..n |-> IF i = 1 THEN seqs[i] ELSE f[i - 1] \o seqs[i]]

(* There is one for any number of sequences.                               *)
LEMMA FlatteningExists ==
  ASSUME NEW seqs, NEW n \in Nat
  PROVE  \E f : Flattening(f, seqs, n)
<1>1. \E f : Flattening(f, seqs, 0)
  <2>1. Flattening([i \in {} |-> 0], seqs, 0)
    BY DEF Flattening
  <2>. QED  BY <2>1
<1>2. ASSUME NEW l \in Nat, NEW f, Flattening(f, seqs, l)
      PROVE  \E h : Flattening(h, seqs, l + 1)
  <2>. DEFINE last == IF l = 0 THEN seqs[l + 1] ELSE f[l] \o seqs[l + 1]
              h == [i \in 1..l + 1 |-> IF i = l + 1 THEN last ELSE f[i]]
  <2>1. \A i \in 1..l : f[i] = IF i = 1 THEN seqs[i] ELSE f[i - 1] \o seqs[i]
    BY <1>2 DEF Flattening
  <2>2. ASSUME NEW i \in 1..l + 1
        PROVE  h[i] = IF i = 1 THEN seqs[i] ELSE h[i - 1] \o seqs[i]
    <3>1. CASE i = l + 1
      <4>1. h[i] = last
        BY <3>1
      <4>2. CASE l = 0
        BY <3>1, <4>1, <4>2
      <4>3. CASE l # 0
        <5>1. i # 1 /\ i - 1 = l /\ l \in 1..l + 1 /\ l # l + 1
          BY <3>1, <4>3
        <5>2. h[l] = f[l]
          BY <5>1
        <5>. QED  BY <3>1, <4>1, <4>3, <5>1, <5>2
      <4>. QED  BY <4>2, <4>3
    <3>2. CASE i # l + 1
      <4>1. i \in 1..l /\ h[i] = f[i]
        BY <3>2
      <4>2. CASE i = 1
        BY <2>1, <4>1, <4>2
      <4>3. CASE i # 1
        <5>1. i - 1 \in 1..l + 1 /\ i - 1 # l + 1
          BY <4>1, <4>3
        <5>2. h[i - 1] = f[i - 1]
          BY <5>1
        <5>. HIDE DEF h
        <5>. QED  BY <2>1, <4>1, <4>3, <5>2
      <4>. QED  BY <4>2, <4>3
    <3>. QED  BY <3>1, <3>2
  <2>3. h = [i \in 1..l + 1 |-> h[i]]
    OBVIOUS
  <2>. HIDE DEF h
  <2>4. Flattening(h, seqs, l + 1)
    BY <2>2, <2>3 DEF Flattening
  <2>. QED  BY <2>4
<1>. DEFINE Bad == {m \in Nat : ~\E f : Flattening(f, seqs, m)}
<1>3. Bad = {}
  <2>. SUFFICES ASSUME Bad # {} PROVE FALSE
    OBVIOUS
  <2>1. PICK m \in Bad : \A k \in Bad : m <= k
    <3>1. Bad \in SUBSET Nat
      OBVIOUS
    <3>. HIDE DEF Bad
    <3>. QED  BY <3>1, LeastNatural
  <2>2. m \in Nat /\ m # 0
    BY <1>1
  <2>3. PICK l \in Nat : m = l + 1
    <3>1. m - 1 \in Nat /\ m = m - 1 + 1
      BY <2>2
    <3>. QED  BY <3>1
  <2>4. l \notin Bad
    <3>. HIDE DEF Bad
    <3>. QED  BY <2>1, <2>3
  <2>. QED  BY <1>2, <2>3, <2>4
<1>. QED  BY <1>3

Lengths(seqs) == [i \in DOMAIN seqs |-> Len(seqs[i])]

\* The first n of the sequences follow one another in `flat`.
Laid(flat, seqs, n) ==
  /\ Len(flat) = Total(Lengths(seqs), 1..n)
  /\ \A i \in 1..n :
       /\ Total(Lengths(seqs), 1..i - 1) \in Nat
       /\ Total(Lengths(seqs), 1..i - 1) + Len(seqs[i]) <= Len(flat)
       /\ \A k \in 1..Len(seqs[i]) :
            flat[Total(Lengths(seqs), 1..i - 1) + k] = seqs[i][k]

(* The next sequence put behind them follows, too.                         *)
LEMMA LaidNext ==
  ASSUME NEW S, NEW n \in Nat, NEW seqs \in [1..n -> Seq(S)],
         NEW l \in Nat, l + 1 \in 1..n, NEW flat \in Seq(S), Laid(flat, seqs, l)
  PROVE  flat \o seqs[l + 1] \in Seq(S) /\ Laid(flat \o seqs[l + 1], seqs, l + 1)
<1>. DEFINE w == Lengths(seqs)
            next == seqs[l + 1]
            a == Len(flat)
            b == Len(next)
<1>1. /\ \A i \in 1..n : seqs[i] \in Seq(S) /\ Len(seqs[i]) \in Nat /\ w[i] = Len(seqs[i])
      /\ a \in Nat /\ b \in Nat /\ next \in Seq(S)
  BY DEF Lengths
<1>2. /\ Total(w, 1..l) \in Nat /\ Total(w, 1..l + 1) = Total(w, 1..l) + w[l + 1]
  <2>1. \A i \in 1..l + 1 : w[i] \in Nat
    <3>1. \A i \in 1..l + 1 : i \in 1..n
      OBVIOUS
    <3>. QED  BY <1>1, <3>1
  <2>. HIDE DEF w
  <2>. QED  BY <2>1, TotalNext
<1>3. /\ flat \o next \in Seq(S) /\ Len(flat \o next) = a + b
      /\ \A k \in 1..a : (flat \o next)[k] = flat[k]
      /\ \A k \in 1..b : (flat \o next)[a + k] = next[k]
  <2>1. /\ flat \o next \in Seq(S) /\ Len(flat \o next) = Len(flat) + Len(next)
        /\ \A k \in 1..Len(flat) + Len(next) :
             (flat \o next)[k] = IF k <= Len(flat) THEN flat[k] ELSE next[k - Len(flat)]
    BY <1>1, ConcatProperties
  <2>. HIDE DEF next
  <2>2. \A k \in 1..a : k \in 1..a + b /\ k <= a
    BY <1>1
  <2>3. \A k \in 1..b : a + k \in 1..a + b /\ ~(a + k <= a) /\ a + k - a = k
    BY <1>1
  <2>. QED  BY <2>1, <2>2, <2>3
<1>4. /\ a = Total(w, 1..l)
      /\ \A i \in 1..l : /\ Total(w, 1..i - 1) \in Nat
                         /\ Total(w, 1..i - 1) + Len(seqs[i]) <= a
                         /\ \A k \in 1..Len(seqs[i]) : flat[Total(w, 1..i - 1) + k] = seqs[i][k]
  BY DEF Laid
<1>5. w[l + 1] = b
  BY <1>1
<1>. HIDE DEF w, a, b
<1>6. Len(flat \o next) = Total(w, 1..l + 1)
  BY <1>2, <1>3, <1>4, <1>5
<1>7. ASSUME NEW i \in 1..l + 1
      PROVE  /\ Total(w, 1..i - 1) \in Nat
             /\ Total(w, 1..i - 1) + Len(seqs[i]) <= Len(flat \o next)
             /\ \A k \in 1..Len(seqs[i]) : (flat \o next)[Total(w, 1..i - 1) + k] = seqs[i][k]
  <2>1. CASE i = l + 1
    <3>1. i - 1 = l /\ Len(seqs[i]) = b /\ seqs[i] = next
      BY <2>1 DEF b
    <3>. HIDE DEF next
    <3>2. Total(w, 1..i - 1) = a /\ Len(flat \o next) = a + b
      BY <1>3, <1>4, <3>1
    <3>3. \A k \in 1..Len(seqs[i]) : (flat \o next)[Total(w, 1..i - 1) + k] = seqs[i][k]
      BY <1>3, <3>1, <3>2
    <3>4. Total(w, 1..i - 1) + Len(seqs[i]) <= Len(flat \o next)
      BY <1>1, <3>1, <3>2 DEF a, b
    <3>. QED  BY <1>1, <3>2, <3>3, <3>4 DEF a
  <2>2. CASE i # l + 1
    <3>. HIDE DEF next
    <3>1. i \in 1..l /\ i \in 1..n
      BY <2>2
    <3>2. PICK t \in Nat : t = Total(w, 1..i - 1)
      BY <1>4, <3>1
    <3>3. /\ t + Len(seqs[i]) <= a /\ Len(seqs[i]) \in Nat
          /\ \A k \in 1..Len(seqs[i]) : flat[t + k] = seqs[i][k]
      BY <1>1, <1>4, <3>1, <3>2
    <3>4. \A k \in 1..Len(seqs[i]) : t + k \in 1..a
      BY <1>1, <3>3
    <3>5. t + Len(seqs[i]) <= Len(flat \o next)
      BY <1>1, <1>3, <3>3
    <3>6. \A k \in 1..Len(seqs[i]) : (flat \o next)[t + k] = seqs[i][k]
      BY <1>3, <3>3, <3>4
    <3>. QED  BY <3>2, <3>5, <3>6
  <2>. QED  BY <2>1, <2>2
<1>. QED  BY <1>3, <1>6, <1>7 DEF Laid, w

(* Sequences put one behind another, each where those before it end.       *)
LEMMA FlattenLays ==
  ASSUME NEW S, NEW n \in Nat, NEW seqs \in [1..n -> Seq(S)]
  PROVE  FlattenSeq(seqs) \in Seq(S) /\ Laid(FlattenSeq(seqs), seqs, n)
<1>1. seqs \in Seq(Seq(S)) /\ Len(seqs) = n
  OBVIOUS
<1>0. <<>> \in Seq(S) /\ Len(<<>>) = 0 /\ Laid(<<>>, seqs, 0)
  <2>1. 1..0 = {} /\ Len(<<>>) = 0
    OBVIOUS
  <2>. QED  BY <2>1, TotalEmpty DEF Laid
<1>2. CASE n = 0
  <2>1. seqs = <<>>
    BY <1>1, <1>2
  <2>2. FlattenSeq(seqs) = <<>>
    BY <1>1, <1>2, <2>1 DEF FlattenSeq
  <2>. QED  BY <1>0, <1>2, <2>2
<1>3. CASE n # 0
  <2>1. PICK g : FlattenSeq(seqs) = g[n] /\ Flattening(g, seqs, n)
    <3>. DEFINE g == CHOOSE f : f = [i \in 1..n |-> IF i = 1 THEN seqs[i] ELSE f[i - 1] \o seqs[i]]
    <3>1. FlattenSeq(seqs) = g[n]
      BY <1>1, <1>3 DEF FlattenSeq
    <3>2. Flattening(g, seqs, n)
      BY FlatteningExists DEF Flattening
    <3>. HIDE DEF g
    <3>. QED  BY <3>1, <3>2
  <2>2. \A i \in 1..n : g[i] = IF i = 1 THEN seqs[i] ELSE g[i - 1] \o seqs[i]
    BY <2>1 DEF Flattening
  <2>. DEFINE Bad == {j \in 1..n : ~(g[j] \in Seq(S) /\ Laid(g[j], seqs, j))}
  <2>3. Bad = {}
    <3>. SUFFICES ASSUME Bad # {} PROVE FALSE
      OBVIOUS
    <3>1. PICK j \in Bad : \A k \in Bad : j <= k
      <4>1. Bad \in SUBSET Nat
        OBVIOUS
      <4>. HIDE DEF Bad
      <4>. QED  BY <4>1, LeastNatural
    <3>2. PICK l \in Nat : j = l + 1 /\ l + 1 \in 1..n
      <4>1. j \in 1..n /\ j - 1 \in Nat /\ j = j - 1 + 1
        OBVIOUS
      <4>. QED  BY <4>1
    <3>3. PICK before \in Seq(S) : Laid(before, seqs, l) /\ g[l + 1] = before \o seqs[l + 1]
      <4>1. CASE l = 0
        <5>1. seqs[1] \in Seq(S) /\ g[1] = seqs[1]
          <6>1. 1 \in 1..n
            BY <3>2, <4>1
          <6>. HIDE DEF Bad
          <6>. QED  BY <2>2, <6>1
        <5>2. <<>> \o seqs[1] = seqs[1]
          BY <5>1
        <5>3. l + 1 = 1
          BY <4>1
        <5>. HIDE DEF Bad
        <5>4. <<>> \in Seq(S) /\ Laid(<<>>, seqs, l) /\ g[l + 1] = <<>> \o seqs[l + 1]
          <6>1. Laid(<<>>, seqs, l) /\ <<>> \in Seq(S)
            BY <1>0, <4>1
          <6>2. g[l + 1] = <<>> \o seqs[l + 1]
            BY <5>1, <5>2, <5>3
          <6>. QED  BY <6>1, <6>2
        <5>. QED  BY <5>4
      <4>2. CASE l # 0
        <5>1. l \in 1..n /\ l + 1 # 1 /\ l + 1 - 1 = l /\ l < j
          BY <3>2, <4>2
        <5>2. l \notin Bad
          <6>. HIDE DEF Bad
          <6>. QED  BY <3>1, <3>2, <5>1
        <5>3. g[l] \in Seq(S) /\ Laid(g[l], seqs, l)
          BY <5>1, <5>2
        <5>4. g[l + 1] = g[l] \o seqs[l + 1]
          <6>1. g[l + 1] = IF l + 1 = 1 THEN seqs[l + 1] ELSE g[l + 1 - 1] \o seqs[l + 1]
            <7>. HIDE DEF Bad
            <7>. QED  BY <2>2, <3>2
          <6>. HIDE DEF Bad
          <6>. QED  BY <5>1, <6>1
        <5>. QED  BY <5>3, <5>4
      <4>. QED  BY <4>1, <4>2
    <3>4. g[l + 1] \in Seq(S) /\ Laid(g[l + 1], seqs, l + 1)
      BY <3>2, <3>3, LaidNext
    <3>. QED  BY <3>2, <3>4
  <2>4. g[n] \in Seq(S) /\ Laid(g[n], seqs, n)
    <3>1. n \in 1..n
      BY <1>3
    <3>2. n \notin Bad
      BY <2>3
    <3>. QED  BY <3>1, <3>2
  <2>. QED  BY <2>1, <2>4
<1>. QED  BY <1>2, <1>3

(* Nothing but zeros adds up to nothing.                                   *)
LEMMA TotalZero ==
  ASSUME NEW S, NEW w, \A i \in S : w[i] = 0
  PROVE  Total(w, S) = 0
<1>1. Units(w, S) = {}
  BY DEF Units
<1>. QED  BY <1>1, FS_EmptySet DEF Total

(* Every unit belongs to an index, behind the units of those before it.    *)
LEMMA TotalLocates ==
  ASSUME NEW n \in Nat, NEW w, \A i \in 1..n : w[i] \in Nat, NEW j \in 1..Total(w, 1..n)
  PROVE  \E i \in 1..n : \E k \in 1..w[i] :
           Total(w, 1..i - 1) \in Nat /\ j = Total(w, 1..i - 1) + k
<1>. DEFINE Reach == {i \in 0..n : j <= Total(w, 1..i)}
<1>1. n \in Reach
  <2>1. Total(w, 1..n) \in Nat
    BY TotalGrows
  <2>. QED  BY <2>1
<1>2. PICK i \in Reach : \A m \in Reach : i <= m
  <2>1. Reach \in SUBSET Nat /\ Reach # {}
    BY <1>1
  <2>. HIDE DEF Reach
  <2>. QED  BY <2>1, LeastNatural
<1>3. i # 0
  <2>1. 1..0 = {}
    OBVIOUS
  <2>2. Total(w, 1..0) = 0
    BY <2>1, TotalEmpty
  <2>. QED  BY <2>2
<1>4. i - 1 \in Nat /\ i - 1 \in 0..n /\ i \in 1..n /\ i - 1 + 1 = i
  BY <1>3
<1>5. i - 1 \notin Reach
  BY <1>2, <1>4
<1>6. /\ Total(w, 1..i - 1) \in Nat /\ Total(w, 1..i) \in Nat
      /\ Total(w, 1..i) = Total(w, 1..i - 1) + w[i]
  <2>1. \A m \in 1..(i - 1) + 1 : w[m] \in Nat
    BY <1>4
  <2>. QED  BY <1>4, <2>1, TotalNext
<1>7. PICK a \in Nat, b \in Nat : a = Total(w, 1..i - 1) /\ b = Total(w, 1..i)
  BY <1>6
<1>8. j <= b /\ a < j /\ b = a + w[i] /\ w[i] \in Nat /\ j \in Nat
  <2>1. j <= b
    BY <1>7
  <2>2. a < j
    BY <1>4, <1>5, <1>7
  <2>. QED  BY <1>4, <1>6, <1>7, <2>1, <2>2
<1>9. j - a \in 1..w[i] /\ j = a + (j - a)
  BY <1>8
<1>. QED  BY <1>4, <1>6, <1>7, <1>9

Occurs(flat, x) == \E j \in DOMAIN flat : flat[j] = x

(* Everything in sequences put one behind another is in what they make.    *)
LEMMA FlattenHolds ==
  ASSUME NEW S, NEW n \in Nat, NEW a \in [1..n -> Seq(S)], NEW i \in 1..n, NEW k \in 1..Len(a[i])
  PROVE  Occurs(FlattenSeq(a), a[i][k])
<1>1. FlattenSeq(a) \in Seq(S) /\ Laid(FlattenSeq(a), a, n)
  BY FlattenLays
<1>2. PICK b \in Nat : b = Total(Lengths(a), 1..i - 1)
  BY <1>1 DEF Laid
<1>3. /\ b + Len(a[i]) <= Len(FlattenSeq(a)) /\ FlattenSeq(a)[b + k] = a[i][k]
      /\ Len(a[i]) \in Nat /\ Len(FlattenSeq(a)) \in Nat
      /\ DOMAIN FlattenSeq(a) = 1..Len(FlattenSeq(a))
  BY <1>1, <1>2, SMTT(60) DEF Laid
<1>4. b + k \in 1..Len(FlattenSeq(a))
  BY <1>3
<1>. QED  BY <1>3, <1>4 DEF Occurs

\* No element occurs twice, in one of the sequences or in two of them.
AllDistinct(a, n) ==
  /\ \A i \in 1..n : IsInjective(a[i])
  /\ \A i, l \in 1..n : \A j \in 1..Len(a[i]) : \A k \in 1..Len(a[l]) : a[i][j] = a[l][k] => i = l

(* Sequences without a repetition, put one behind another, have none.      *)
LEMMA FlattenDistinct ==
  ASSUME NEW S, NEW n \in Nat, NEW a \in [1..n -> Seq(S)], AllDistinct(a, n)
  PROVE  IsInjective(FlattenSeq(a))
<1>. DEFINE flat == FlattenSeq(a)
            w == Lengths(a)
<1>1. flat \in Seq(S) /\ Laid(flat, a, n)
  BY FlattenLays
<1>. HIDE DEF flat
<1>2. \A i \in 1..n : w[i] = Len(a[i]) /\ w[i] \in Nat /\ DOMAIN a[i] = 1..Len(a[i])
  BY DEF Lengths
<1>. HIDE DEF w
<1>3. DOMAIN flat = 1..Total(w, 1..n)
  BY <1>1 DEF Laid, w
<1>4. ASSUME NEW j \in DOMAIN flat
      PROVE  \E i \in 1..n : \E k \in 1..Len(a[i]) :
               j = Total(w, 1..i - 1) + k /\ flat[j] = a[i][k]
  <2>1. \E i \in 1..n : \E k \in 1..w[i] :
          Total(w, 1..i - 1) \in Nat /\ j = Total(w, 1..i - 1) + k
    BY <1>2, <1>3, TotalLocates
  <2>2. PICK i \in 1..n : \E k \in 1..w[i] : j = Total(w, 1..i - 1) + k
    BY <2>1
  <2>3. PICK k \in 1..Len(a[i]) : j = Total(w, 1..i - 1) + k
    BY <1>2, <2>2
  <2>4. flat[j] = a[i][k]
    BY <1>1, <2>3 DEF Laid, w
  <2>. QED  BY <2>3, <2>4
<1>5. ASSUME NEW j \in DOMAIN flat, NEW m \in DOMAIN flat, flat[j] = flat[m] PROVE j = m
  <2>1. PICK i \in 1..n : \E k \in 1..Len(a[i]) :
          j = Total(w, 1..i - 1) + k /\ flat[j] = a[i][k]
    BY <1>4
  <2>2. PICK k \in 1..Len(a[i]) : j = Total(w, 1..i - 1) + k /\ flat[j] = a[i][k]
    BY <2>1
  <2>3. PICK l \in 1..n : \E h \in 1..Len(a[l]) :
          m = Total(w, 1..l - 1) + h /\ flat[m] = a[l][h]
    BY <1>4
  <2>4. PICK h \in 1..Len(a[l]) : m = Total(w, 1..l - 1) + h /\ flat[m] = a[l][h]
    BY <2>3
  <2>5. i = l
    BY <1>5, <2>2, <2>4 DEF AllDistinct
  <2>6. k = h
    BY <1>2, <1>5, <2>2, <2>4, <2>5 DEF AllDistinct, IsInjective
  <2>. QED  BY <2>2, <2>4, <2>5, <2>6
<1>. QED  BY <1>5 DEF IsInjective, flat

\* Sequences of the same lengths.
AsLong(a, b, n) == \A i \in 1..n : Len(a[i]) = Len(b[i])

\* What is at a place of one comes from where what is there in the other does.
InStep(flat, other, a, b, n) ==
  \A j \in DOMAIN flat : \E i \in 1..n : \E k \in 1..Len(a[i]) :
    flat[j] = a[i][k] /\ other[j] = b[i][k]

(* And what they make has nothing else; sequences as long, put one behind  *)
(* another, have at a place what comes from the same place of the same one. *)
LEMMA FlattenAligned ==
  ASSUME NEW S, NEW T, NEW n \in Nat, NEW a \in [1..n -> Seq(S)], NEW b \in [1..n -> Seq(T)],
         AsLong(a, b, n)
  PROVE  Len(FlattenSeq(a)) = Len(FlattenSeq(b)) /\ InStep(FlattenSeq(a), FlattenSeq(b), a, b, n)
<1>. DEFINE v == Lengths(a)
            w == Lengths(b)
<1>1. /\ FlattenSeq(a) \in Seq(S) /\ Laid(FlattenSeq(a), a, n)
      /\ FlattenSeq(b) \in Seq(T) /\ Laid(FlattenSeq(b), b, n)
  BY FlattenLays
<1>2. \A i \in 1..n : v[i] \in Nat /\ v[i] = Len(a[i]) /\ v[i] = w[i]
  BY DEF Lengths, AsLong
<1>. HIDE DEF v, w
<1>3. \A i \in 0..n : Total(v, 1..i) = Total(w, 1..i)
  <2>. SUFFICES ASSUME NEW i \in 0..n PROVE Total(v, 1..i) = Total(w, 1..i)
    OBVIOUS
  <2>1. \A m \in 1..i : v[m] = w[m]
    BY <1>2
  <2>. QED  BY <2>1, TotalSame
<1>4. Len(FlattenSeq(a)) = Total(v, 1..n) /\ Len(FlattenSeq(b)) = Total(w, 1..n)
  BY <1>1 DEF Laid, v, w
<1>5. n \in 0..n
  OBVIOUS
<1>6. ASSUME NEW j \in DOMAIN FlattenSeq(a)
      PROVE  \E i \in 1..n : \E k \in 1..Len(a[i]) :
               FlattenSeq(a)[j] = a[i][k] /\ FlattenSeq(b)[j] = b[i][k]
  <2>1. j \in 1..Total(v, 1..n)
    BY <1>1, <1>4
  <2>2. PICK i \in 1..n : \E k \in 1..v[i] :
          Total(v, 1..i - 1) \in Nat /\ j = Total(v, 1..i - 1) + k
    BY <1>2, <2>1, TotalLocates
  <2>3. PICK k \in 1..v[i] : Total(v, 1..i - 1) \in Nat /\ j = Total(v, 1..i - 1) + k
    BY <2>2
  <2>4. k \in 1..Len(a[i]) /\ k \in 1..Len(b[i])
    BY <1>2, <2>3 DEF AsLong
  <2>5. Total(w, 1..i - 1) = Total(v, 1..i - 1)
    <3>1. i - 1 \in 0..n
      OBVIOUS
    <3>. QED  BY <1>3, <3>1
  <2>6. FlattenSeq(a)[Total(v, 1..i - 1) + k] = a[i][k]
    BY <1>1, <2>4 DEF Laid, v
  <2>7. FlattenSeq(b)[Total(w, 1..i - 1) + k] = b[i][k]
    BY <1>1, <2>4 DEF Laid, w
  <2>. QED  BY <2>3, <2>4, <2>5, <2>6, <2>7
<1>. QED  BY <1>3, <1>4, <1>5, <1>6 DEF InStep

(* Empty sequences make an empty one; all empty but one make that one.     *)
LEMMA FlattenNone ==
  ASSUME NEW S, NEW n \in Nat, NEW a \in [1..n -> Seq(S)], \A i \in 1..n : a[i] = <<>>
  PROVE  FlattenSeq(a) = <<>>
<1>1. FlattenSeq(a) \in Seq(S) /\ Len(FlattenSeq(a)) = Total(Lengths(a), 1..n)
  BY FlattenLays DEF Laid
<1>2. \A i \in 1..n : Lengths(a)[i] = 0
  BY DEF Lengths
<1>3. Total(Lengths(a), 1..n) = 0
  BY <1>2, TotalZero
<1>. QED  BY <1>1, <1>3

AllEmptyBut(a, n, m) == \A i \in (1..n) \ {m} : a[i] = <<>>

LEMMA FlattenOne ==
  ASSUME NEW S, NEW n \in Nat, NEW a \in [1..n -> Seq(S)], NEW m \in 1..n,
         AllEmptyBut(a, n, m)
  PROVE  FlattenSeq(a) = a[m]
<1>1. FlattenSeq(a) \in Seq(S) /\ Laid(FlattenSeq(a), a, n)
  BY FlattenLays
<1>2. /\ \A i \in 1..n : Lengths(a)[i] \in Nat
      /\ \A i \in (1..n) \ {m} : Lengths(a)[i] = 0
      /\ Lengths(a)[m] = Len(a[m])
  BY DEF Lengths, AllEmptyBut
<1>3. Total(Lengths(a), (1..n) \ {m}) = 0
  BY <1>2, TotalZero
<1>4. Total(Lengths(a), 1..n) = Total(Lengths(a), (1..n) \ {m}) + Lengths(a)[m]
  <2>1. (1..n) \in SUBSET (1..n)
    OBVIOUS
  <2>. QED  BY <1>2, <2>1, TotalRemove
<1>5. Len(a[m]) \in Nat /\ a[m] \in Seq(S)
  OBVIOUS
<1>6. Len(FlattenSeq(a)) = Len(a[m])
  BY <1>1, <1>2, <1>3, <1>4, <1>5 DEF Laid
<1>7. PICK b \in Nat : b = Total(Lengths(a), 1..m - 1)
  BY <1>1 DEF Laid
<1>8. /\ b + Len(a[m]) <= Len(FlattenSeq(a))
      /\ \A k \in 1..Len(a[m]) : FlattenSeq(a)[b + k] = a[m][k]
  BY <1>1, <1>7 DEF Laid
<1>9. b = 0
  BY <1>5, <1>6, <1>8
<1>10. \A k \in 1..Len(a[m]) : FlattenSeq(a)[k] = a[m][k]
  BY <1>8, <1>9
<1>11. /\ FlattenSeq(a) = [k \in 1..Len(a[m]) |-> FlattenSeq(a)[k]]
       /\ a[m] = [k \in 1..Len(a[m]) |-> a[m][k]]
  BY <1>1, <1>5, <1>6
<1>. QED  BY <1>10, <1>11

-----------------------------------------------------------------------------
\* The place of a number among those of a set.
Rank(S, i) == Cardinality({m \in S : m <= i})

(* The ranks of n numbers are those from 1 to n, each of one of them.      *)
LEMMA RankOnce ==
  ASSUME NEW S \in SUBSET Nat, IsFiniteSet(S)
  PROVE  /\ \A i \in S : Rank(S, i) \in 1..Cardinality(S)
         /\ \A i, j \in S : Rank(S, i) = Rank(S, j) => i = j
         /\ \A k \in 1..Cardinality(S) : \E i \in S : Rank(S, i) = k
<1>. DEFINE UpTo(i) == {m \in S : m <= i}
            c == Cardinality(S)
            f == [i \in S |-> Rank(S, i)]
            T == {f[i] : i \in S}
<1>1. c \in Nat
  BY FS_CardinalityType
<1>2. ASSUME NEW i \in S
      PROVE  IsFiniteSet(UpTo(i)) /\ Rank(S, i) = Cardinality(UpTo(i)) /\ Rank(S, i) \in 1..c
  <2>1. UpTo(i) \in SUBSET S /\ i \in UpTo(i)
    OBVIOUS
  <2>. HIDE DEF UpTo
  <2>2. IsFiniteSet(UpTo(i)) /\ Cardinality(UpTo(i)) \in Nat /\ Cardinality(UpTo(i)) <= c
    BY <2>1, FS_Subset, FS_CardinalityType
  <2>3. Cardinality(UpTo(i)) # 0
    BY <2>1, <2>2, FS_EmptySet
  <2>4. Rank(S, i) = Cardinality(UpTo(i))
    BY DEF Rank, UpTo
  <2>. QED  BY <1>1, <2>2, <2>3, <2>4
<1>3. ASSUME NEW i \in S, NEW j \in S, i < j PROVE Rank(S, i) # Rank(S, j)
  <2>1. UpTo(i) \in SUBSET UpTo(j) /\ j \in UpTo(j) /\ j \notin UpTo(i)
    <3>1. \A m \in S : m <= i => m <= j
      BY <1>3
    <3>2. j <= j /\ ~(j <= i)
      BY <1>3
    <3>. QED  BY <3>1, <3>2
  <2>. HIDE DEF UpTo
  <2>2. UpTo(i) # UpTo(j)
    BY <2>1
  <2>3. Cardinality(UpTo(i)) # Cardinality(UpTo(j))
    BY <1>2, <2>1, <2>2, FS_Subset
  <2>. QED  BY <1>2, <2>3
<1>4. \A i, j \in S : Rank(S, i) = Rank(S, j) => i = j
  <2>. SUFFICES ASSUME NEW i \in S, NEW j \in S, i # j PROVE Rank(S, i) # Rank(S, j)
    OBVIOUS
  <2>1. i < j \/ j < i
    OBVIOUS
  <2>. QED  BY <2>1, <1>3
<1>5. T = 1..c
  <2>1. T \subseteq 1..c
    BY <1>2
  <2>2. f \in Bijection(S, T)
    <3>1. f \in [S -> T] /\ (\A i, j \in S : f[i] = f[j] => i = j) /\ \A t \in T : \E i \in S : f[i] = t
      BY <1>4
    <3>. HIDE DEF f, T
    <3>. QED  BY <3>1 DEF Bijection, Injection, Surjection, IsInjective
  <2>3. IsFiniteSet(T) /\ Cardinality(T) = c
    <3>1. ExistsBijection(S, T)
      BY <2>2 DEF ExistsBijection
    <3>. HIDE DEF T
    <3>. QED  BY <3>1, FS_Bijection
  <2>4. IsFiniteSet(1..c) /\ Cardinality(1..c) = c
    <3>1. 1 \in Int /\ c \in Int
      BY <1>1
    <3>2. IsFiniteSet(1..c) /\ Cardinality(1..c) = IF 1 > c THEN 0 ELSE c - 1 + 1
      <4>. HIDE DEF c
      <4>. QED  BY <3>1, FS_Interval
    <3>. QED  BY <1>1, <3>2
  <2>. HIDE DEF T, c
  <2>. QED  BY <2>1, <2>3, <2>4, FS_Subset
<1>. QED  BY <1>2, <1>4, <1>5

(* Numbers counted from another origin keep their ranks.                   *)
LEMMA RankShifted ==
  ASSUME NEW S \in SUBSET Nat, IsFiniteSet(S), NEW n \in Nat, \A i \in S : n < i, NEW i \in S
  PROVE  LET T == {m - n : m \in S}
         IN  /\ T \in SUBSET Nat /\ IsFiniteSet(T) /\ Cardinality(T) = Cardinality(S)
             /\ i - n \in T /\ Rank(T, i - n) = Rank(S, i)
<1>. DEFINE T == {m - n : m \in S}
            A == {m \in S : m <= i}
            B == {m \in T : m <= i - n}
            all == [m \in S |-> m - n]
            some == [m \in A |-> m - n]
<1>1. T \in SUBSET Nat /\ i - n \in T
  OBVIOUS
<1>2. all \in Bijection(S, T)
  <2>1. all \in [S -> T] /\ (\A m, l \in S : all[m] = all[l] => m = l) /\ \A t \in T : \E m \in S : all[m] = t
    OBVIOUS
  <2>. HIDE DEF all, T
  <2>. QED  BY <2>1 DEF Bijection, Injection, Surjection, IsInjective
<1>3. some \in Bijection(A, B)
  <2>1. \A m \in A : m - n \in B
    OBVIOUS
  <2>2. \A t \in B : \E m \in A : m - n = t
    OBVIOUS
  <2>3. \A m, l \in A : m - n = l - n => m = l
    OBVIOUS
  <2>. HIDE DEF A, B
  <2>4. some \in [A -> B]
    BY <2>1
  <2>. QED  BY <2>2, <2>3, <2>4 DEF Bijection, Injection, Surjection, IsInjective
<1>4. IsFiniteSet(T) /\ Cardinality(T) = Cardinality(S)
  <2>1. ExistsBijection(S, T)
    BY <1>2 DEF ExistsBijection
  <2>. HIDE DEF T
  <2>. QED  BY <2>1, FS_Bijection
<1>5. Cardinality(B) = Cardinality(A)
  <2>1. IsFiniteSet(A)
    BY FS_Subset
  <2>2. ExistsBijection(A, B)
    BY <1>3 DEF ExistsBijection
  <2>. HIDE DEF A, B
  <2>. QED  BY <2>1, <2>2, FS_Bijection
<1>. QED  BY <1>1, <1>4, <1>5 DEF Rank

-----------------------------------------------------------------------------
(***************************************************************************)
(* The operations of a PrefixCache keep it Exact, whatever was done to it  *)
(* before: what the proofs about its two users need.                       *)
(***************************************************************************)
Entry(Token) == [ids : Seq(Token), state : Seq(Token)]

\* The caches whose checkpoints are of sequences over Token.
CacheOf(Token) == [entries : Seq(Entry(Token)), bytes : Nat]

\* What drop_front() and put() subtract and add, by index.
Sizes(entries) == [i \in DOMAIN entries |-> Len(entries[i].state)]

(* The sum SizeOf() computes is the total of the sizes.                    *)
LEMMA SizeIsTotal ==
  ASSUME NEW Token, NEW entries \in Seq(Entry(Token))
  PROVE  /\ Len(entries) \in Nat
         /\ \A i \in 1..Len(entries) :
              Sizes(entries)[i] = Len(entries[i].state) /\ Sizes(entries)[i] \in Nat
         /\ SizeOf(entries) = Total(Sizes(entries), 1..Len(entries))
<1>. DEFINE w == Sizes(entries)
            D == DOMAIN entries
            Step(f, S) == IF S = {} THEN 0
                          ELSE LET x == CHOOSE x \in S : \A y \in S : x >= y
                               IN  f[S \ {x}] + Len(entries[x].state)
            g == CHOOSE f : f = [S \in SUBSET D |-> Step(f, S)]
<1>1. SizeOf(entries) = g[D]
  BY DEF SizeOf, FoldLeft, MapThenFoldSet, Max
<1>2. /\ D = 1..Len(entries) /\ Len(entries) \in Nat
      /\ \A i \in D : w[i] = Len(entries[i].state) /\ w[i] \in Nat
  BY DEF Sizes, Entry
<1>3. ASSUME NEW S \in SUBSET D, S # {}
      PROVE  /\ Greatest(S) \in S
             /\ w[Greatest(S)] = Len(entries[Greatest(S)].state)
             /\ Total(w, S) = Total(w, S \ {Greatest(S)}) + w[Greatest(S)]
  <2>. HIDE DEF w
  <2>1. Greatest(S) \in S /\ Total(w, S) = Total(w, S \ {Greatest(S)}) + w[Greatest(S)]
    BY <1>2, <1>3, TotalGreatest
  <2>. QED  BY <2>1, <1>2
<1>4. \E f : f = [S \in SUBSET D |-> Step(f, S)]
  <2>. DEFINE f == [S \in SUBSET D |-> Total(w, S)]
  <2>1. ASSUME NEW S \in SUBSET D PROVE f[S] = Step(f, S)
    <3>. HIDE DEF w
    <3>1. CASE S = {}
      BY <3>1, TotalEmpty
    <3>2. CASE S # {}
      BY <3>2, <1>3 DEF Greatest
    <3>. QED  BY <3>1, <3>2
  <2>. QED  BY <2>1, ZenonT(60)
<1>5. g = [S \in SUBSET D |-> Step(g, S)]
  BY <1>4
<1>6. ASSUME NEW S \in SUBSET D
      PROVE  g[S] = IF S = {} THEN 0 ELSE g[S \ {Greatest(S)}] + w[Greatest(S)]
  <2>. HIDE DEF g
  <2>1. g[S] = Step(g, S)
    BY <1>5
  <2>. QED  BY <2>1, <1>3 DEF Greatest
<1>. HIDE DEF g, w
<1>7. g[1..Len(entries)] = Total(w, 1..Len(entries))
  BY <1>2, <1>6, TotalByGreatest
<1>. QED  BY <1>1, <1>2, <1>7 DEF w

(* Sizes are natural numbers, none of nothing.                             *)
LEMMA SizeType ==
  ASSUME NEW Token, NEW entries \in Seq(Entry(Token))
  PROVE  SizeOf(entries) \in Nat /\ (entries = <<>> => SizeOf(entries) = 0)
<1>1. IsFiniteSet(1..Len(entries))
  BY SizeIsTotal, FS_Interval
<1>2. Total(Sizes(entries), 1..Len(entries)) \in Nat
  BY <1>1, SizeIsTotal, UnitsFinite
<1>3. entries = <<>> => 1..Len(entries) = {}
  OBVIOUS
<1>. QED  BY <1>2, <1>3, SizeIsTotal, TotalEmpty

LEMMA SizeSingle ==
  ASSUME NEW Token, NEW e \in Entry(Token)
  PROVE  <<e>> \in Seq(Entry(Token)) /\ SizeOf(<<e>>) = Len(e.state)
<1>1. <<e>> \in Seq(Entry(Token)) /\ Len(<<e>>) = 1 /\ <<e>>[1] = e /\ 1..1 = {1}
  OBVIOUS
<1>2. SizeOf(<<e>>) = Total(Sizes(<<e>>), {1}) /\ Sizes(<<e>>)[1] = Len(e.state)
      /\ Sizes(<<e>>)[1] \in Nat
  BY <1>1, SizeIsTotal, ZenonT(60)
<1>. QED  BY <1>1, <1>2, TotalSingle

(* Sizes add up along a concatenation.                                     *)
LEMMA SizeConcat ==
  ASSUME NEW Token, NEW s \in Seq(Entry(Token)), NEW t \in Seq(Entry(Token))
  PROVE  s \o t \in Seq(Entry(Token)) /\ SizeOf(s \o t) = SizeOf(s) + SizeOf(t)
<1>. DEFINE m == Len(s)
            n == Len(t)
            w == Sizes(s \o t)
<1>1. /\ s \o t \in Seq(Entry(Token)) /\ Len(s \o t) = m + n
      /\ m \in Nat /\ n \in Nat
      /\ \A i \in 1..m + n : (s \o t)[i] = IF i <= m THEN s[i] ELSE t[i - m]
  BY ConcatProperties, LenProperties
<1>2. /\ \A i \in 1..m + n : w[i] = Len((s \o t)[i].state) /\ w[i] \in Nat
      /\ SizeOf(s \o t) = Total(w, 1..m + n)
  BY <1>1, SizeIsTotal
<1>3. Total(w, 1..m) = SizeOf(s)
  <2>1. \A i \in 1..m : Sizes(s)[i] = w[i]
    BY <1>1, <1>2, SizeIsTotal
  <2>2. Total(w, 1..m) = Total(Sizes(s), 1..m)
    BY <2>1, TotalSame
  <2>. QED  BY <2>2, SizeIsTotal
<1>4. Total(w, m + 1..m + n) = SizeOf(t)
  <2>1. \A i \in 1..n : Sizes(t)[i] \in Nat /\ w[m + i] = Sizes(t)[i]
    <3>. SUFFICES ASSUME NEW i \in 1..n
                  PROVE  Sizes(t)[i] \in Nat /\ w[m + i] = Sizes(t)[i]
      OBVIOUS
    <3>1. m + i \in 1..m + n /\ ~(m + i <= m) /\ m + i - m = i
      BY <1>1
    <3>2. Sizes(t)[i] = Len(t[i].state) /\ Sizes(t)[i] \in Nat
      BY SizeIsTotal
    <3>3. (s \o t)[m + i] = t[i]
      BY <1>1, <3>1
    <3>. QED  BY <1>2, <3>1, <3>2, <3>3
  <2>. HIDE DEF w
  <2>2. Total(w, m + 1..m + n) = Total(Sizes(t), 1..n)
    <3>1. m \in Nat /\ n \in Nat
      BY <1>1
    <3>2. PICK v : v = Sizes(t)
      OBVIOUS
    <3>. HIDE DEF m, n
    <3>3. Total(w, m + 1..m + n) = Total(v, 1..n)
      BY <2>1, <3>1, <3>2, TotalShifted
    <3>. QED  BY <3>2, <3>3
  <2>. QED  BY <2>2, SizeIsTotal
<1>5. Total(w, 1..m + n) = Total(w, 1..m) + Total(w, m + 1..m + n)
  <2>1. /\ IsFiniteSet(1..m) /\ IsFiniteSet(m + 1..m + n)
        /\ (1..m) \cap (m + 1..m + n) = {}
        /\ (1..m) \cup (m + 1..m + n) = 1..m + n
    <3>1. IsFiniteSet(1..m) /\ IsFiniteSet(m + 1..m + n)
      BY <1>1, FS_Interval
    <3>. QED  BY <1>1, <3>1
  <2>. HIDE DEF w
  <2>2. \A i \in (1..m) \cup (m + 1..m + n) : w[i] \in Nat
    BY <1>2, <2>1
  <2>. QED  BY <2>1, <2>2, TotalUnion, SMTT(60)
<1>. QED  BY <1>1, <1>2, <1>3, <1>4, <1>5

-----------------------------------------------------------------------------
(* The element at i moved to the front: where each one was before.         *)
LEMMA MovedToFront ==
  ASSUME NEW S, NEW s \in Seq(S), NEW i \in 1..Len(s)
  PROVE  LET t == <<s[i]>> \o RemoveAt(s, i)
             was(k) == IF k = 1 THEN i ELSE IF k <= i THEN k - 1 ELSE k
         IN  /\ t \in Seq(S) /\ Len(t) = Len(s) /\ DOMAIN t = 1..Len(s)
             /\ \A k \in 1..Len(s) : was(k) \in 1..Len(s) /\ t[k] = s[was(k)]
             /\ \A k, l \in 1..Len(s) : was(k) = was(l) => k = l
<1>. DEFINE was(k) == IF k = 1 THEN i ELSE IF k <= i THEN k - 1 ELSE k
<1>. PICK n \in Nat : n = Len(s)
  OBVIOUS
<1>. DEFINE before == SubSeq(s, 1, i - 1)
            after == SubSeq(s, i + 1, n)
            rest == before \o after
            t == <<s[i]>> \o rest
<1>1. i \in 1..n /\ s[i] \in S
  OBVIOUS
<1>2. /\ before \in Seq(S) /\ Len(before) = i - 1
      /\ \A k \in 1..i - 1 : before[k] = s[k]
      /\ after \in Seq(S) /\ Len(after) = n - i
      /\ \A k \in 1..n - i : after[k] = s[i + k]
  BY <1>1, SMTT(60)
<1>. HIDE DEF before, after
<1>3. rest \in Seq(S) /\ Len(rest) = i - 1 + (n - i)
      /\ \A k \in 1..i - 1 + (n - i) :
           rest[k] = IF k <= i - 1 THEN before[k] ELSE after[k - (i - 1)]
  <2>1. rest \in Seq(S) /\ Len(rest) = Len(before) + Len(after)
        /\ \A k \in 1..Len(before) + Len(after) :
             rest[k] = IF k <= Len(before) THEN before[k] ELSE after[k - Len(before)]
    BY <1>2, ConcatProperties
  <2>. HIDE DEF rest
  <2>. QED  BY <1>2, <2>1
<1>4. rest \in Seq(S) /\ Len(rest) = n - 1
      /\ \A k \in 1..n - 1 : rest[k] = IF k <= i - 1 THEN s[k] ELSE s[k + 1]
  <2>1. i - 1 + (n - i) = n - 1
    BY <1>1
  <2>2. ASSUME NEW k \in 1..n - 1 PROVE rest[k] = IF k <= i - 1 THEN s[k] ELSE s[k + 1]
    <3>. HIDE DEF rest
    <3>1. CASE k <= i - 1
      BY <3>1, <1>1, <1>2, <1>3, <2>1
    <3>2. CASE ~(k <= i - 1)
      <4>1. k - (i - 1) \in 1..n - i /\ i + (k - (i - 1)) = k + 1
        BY <3>2, <1>1
      <4>. QED  BY <3>2, <4>1, <1>2, <1>3, <2>1
    <3>. QED  BY <3>1, <3>2
  <2>. HIDE DEF rest
  <2>. QED  BY <1>3, <2>1, <2>2
<1>. HIDE DEF rest
<1>5. <<s[i]>> \in Seq(S) /\ Len(<<s[i]>>) = 1 /\ <<s[i]>>[1] = s[i]
  BY <1>1
<1>6. t \in Seq(S) /\ Len(t) = 1 + (n - 1)
      /\ \A k \in 1..1 + (n - 1) : t[k] = IF k <= 1 THEN <<s[i]>>[k] ELSE rest[k - 1]
  BY <1>4, <1>5, ConcatProperties
<1>. HIDE DEF t
<1>7. 1 + (n - 1) = n
  OBVIOUS
<1>8. ASSUME NEW k \in 1..n PROVE was(k) \in 1..n /\ t[k] = s[was(k)]
  <2>1. CASE k = 1
    BY <2>1, <1>1, <1>5, <1>6, <1>7
  <2>2. CASE k # 1
    <3>1. k - 1 \in 1..n - 1 /\ t[k] = rest[k - 1]
      BY <2>2, <1>6, <1>7
    <3>2. t[k] = IF k - 1 <= i - 1 THEN s[k - 1] ELSE s[k - 1 + 1]
      BY <3>1, <1>4
    <3>. QED  BY <2>2, <3>1, <3>2, <1>1
  <2>. QED  BY <2>1, <2>2
<1>9. \A k, l \in 1..n : was(k) = was(l) => k = l
  BY <1>1
<1>10. DOMAIN t = 1..n
  BY <1>6, <1>7
<1>11. t = <<s[i]>> \o RemoveAt(s, i)
  BY DEF t, rest, before, after, RemoveAt
<1>. HIDE DEF was
<1>12. /\ t \in Seq(S) /\ Len(t) = n
       /\ \A k \in 1..n : was(k) \in 1..n /\ t[k] = s[was(k)]
  BY <1>6, <1>7, <1>8
<1>. QED  BY <1>9, <1>10, <1>11, <1>12 DEF was

(* Moving a checkpoint to the front keeps the size of them all.            *)
LEMMA MoveKeepsSize ==
  ASSUME NEW Token, NEW s \in Seq(Entry(Token)), NEW i \in 1..Len(s)
  PROVE  SizeOf(<<s[i]>> \o RemoveAt(s, i)) = SizeOf(s)
<1>. DEFINE a == <<s[i]>>
            b == SubSeq(s, 1, i - 1)
            c == SubSeq(s, i + 1, Len(s))
<1>1. /\ a \in Seq(Entry(Token)) /\ b \in Seq(Entry(Token)) /\ c \in Seq(Entry(Token))
      /\ Len(s) \in Nat
  OBVIOUS
<1>2. s = b \o (a \o c)
  <2>1. SubSeq(s, i, Len(s)) = a \o c
    BY SubSeqRecursiveFirst
  <2>2. b \o SubSeq(s, i, Len(s)) = SubSeq(s, 1, Len(s))
    <3>1. /\ 1 \in 1..Len(s) + 1 /\ i - 1 \in 1 - 1..Len(s) /\ Len(s) \in i - 1..Len(s)
          /\ i - 1 + 1 = i
      BY <1>1
    <3>2. b \o SubSeq(s, i - 1 + 1, Len(s)) = SubSeq(s, 1, Len(s))
      BY <3>1, ConcatAdjacentSubSeq
    <3>. QED  BY <3>1, <3>2
  <2>. QED  BY <2>1, <2>2, SubSeqFull
<1>3. <<s[i]>> \o RemoveAt(s, i) = a \o (b \o c)
  BY DEF RemoveAt
<1>. HIDE DEF a, b, c
<1>4. /\ a \o c \in Seq(Entry(Token)) /\ SizeOf(a \o c) = SizeOf(a) + SizeOf(c)
      /\ b \o c \in Seq(Entry(Token)) /\ SizeOf(b \o c) = SizeOf(b) + SizeOf(c)
  BY <1>1, SizeConcat
<1>5. /\ SizeOf(b \o (a \o c)) = SizeOf(b) + SizeOf(a \o c)
      /\ SizeOf(a \o (b \o c)) = SizeOf(a) + SizeOf(b \o c)
  BY <1>1, <1>4, SizeConcat
<1>6. SizeOf(a) \in Nat /\ SizeOf(b) \in Nat /\ SizeOf(c) \in Nat
  BY <1>1, SizeType
<1>7. SizeOf(a \o (b \o c)) = SizeOf(b \o (a \o c))
  BY <1>4, <1>5, <1>6
<1>. QED  BY <1>2, <1>3, <1>7

(* A cache that holds nothing is exact.                                    *)
LEMMA EmptyExact ==
  ASSUME NEW Token, NEW limit \in Nat
  PROVE  EmptyCache \in CacheOf(Token) /\ Exact(EmptyCache, limit)
<1>1. <<>> \in Seq(Entry(Token))
  OBVIOUS
<1>2. SizeOf(<<>>) = 0
  BY <1>1, SizeType
<1>. QED  BY <1>1, <1>2 DEF EmptyCache, CacheOf, Exact

(* get() of a key it holds: only the order changes, and what is in front   *)
(* then is the state of the tokens asked for.                              *)
LEMMA TouchExact ==
  ASSUME NEW Token, NEW limit \in Nat, NEW cache \in CacheOf(Token), Exact(cache, limit),
         NEW key, Holds(cache, key)
  PROVE  /\ Touch(cache, key) \in CacheOf(Token)
         /\ Exact(Touch(cache, key), limit)
         /\ Touch(cache, key).entries # <<>>
         /\ FrontState(Touch(cache, key)) = key
<1>. DEFINE entries == cache.entries
            n == Len(entries)
            P == Filed(cache, key)
            i == CHOOSE i \in P : \A k \in P : i <= k
            touched == <<entries[i]>> \o RemoveAt(entries, i)
<1>1. entries \in Seq(Entry(Token)) /\ n \in Nat /\ DOMAIN entries = 1..n
  BY DEF CacheOf
<1>2. i \in 1..n /\ entries[i].ids = key
  <2>1. P \in SUBSET Nat /\ P # {}
    BY <1>1 DEF Filed, Holds
  <2>2. \E k \in P : \A l \in P : k <= l
    BY <2>1, LeastNatural
  <2>3. i \in P
    BY <2>2
  <2>. QED  BY <2>3, <1>1 DEF Filed
<1>3. Touch(cache, key) = [cache EXCEPT !.entries = touched]
  BY DEF Touch
<1>. DEFINE was(k) == IF k = 1 THEN i ELSE IF k <= i THEN k - 1 ELSE k
<1>. HIDE DEF i, entries
<1>4. /\ touched \in Seq(Entry(Token)) /\ DOMAIN touched = 1..n
      /\ \A k \in 1..n : was(k) \in 1..n /\ touched[k] = entries[was(k)]
      /\ \A k, l \in 1..n : was(k) = was(l) => k = l
  BY <1>1, <1>2, MovedToFront, ZenonT(60)
<1>5. SizeOf(touched) = SizeOf(entries)
  BY <1>1, <1>2, MoveKeepsSize
<1>6. 1 \in 1..n /\ was(1) = i
  BY <1>1, <1>2
<1>. HIDE DEF touched, was
<1>7. /\ Touch(cache, key) \in CacheOf(Token)
      /\ Touch(cache, key).entries = touched /\ Touch(cache, key).bytes = cache.bytes
  BY <1>3, <1>4 DEF CacheOf
<1>8. /\ \A k \in 1..n : entries[k].state = entries[k].ids
      /\ \A k, l \in 1..n : entries[k].ids = entries[l].ids => k = l
      /\ cache.bytes = SizeOf(entries) /\ cache.bytes <= limit
  BY <1>1 DEF Exact, entries
<1>9. Exact(Touch(cache, key), limit)
  <2>1. \A k \in 1..n : touched[k].state = touched[k].ids
    BY <1>4, <1>8
  <2>2. ASSUME NEW k \in 1..n, NEW l \in 1..n, touched[k].ids = touched[l].ids
        PROVE  k = l
    <3>1. /\ was(k) \in 1..n /\ touched[k] = entries[was(k)]
          /\ was(l) \in 1..n /\ touched[l] = entries[was(l)]
      BY <1>4
    <3>2. was(k) = was(l)
      BY <1>8, <2>2, <3>1
    <3>. QED  BY <1>4, <3>2
  <2>. QED  BY <1>4, <1>5, <1>7, <1>8, <2>1, <2>2 DEF Exact
<1>10. touched # <<>> /\ touched[1] = entries[i]
  BY <1>4, <1>6
<1>11. FrontState(Touch(cache, key)) = touched[1].state
  BY <1>4, <1>7, <1>10 DEF FrontState
<1>. QED  BY <1>2, <1>7, <1>8, <1>9, <1>10, <1>11

(* drop_front(): one checkpoint less, and its bytes.                       *)
LEMMA DropFrontExact ==
  ASSUME NEW Token, NEW limit \in Nat, NEW cache \in CacheOf(Token), Exact(cache, limit)
  PROVE  DropFront(cache) \in CacheOf(Token) /\ Exact(DropFront(cache), limit)
<1>. DEFINE entries == cache.entries
<1>1. entries \in Seq(Entry(Token)) /\ cache.bytes \in Nat
  BY DEF CacheOf
<1>2. CASE entries = <<>>
  BY <1>2 DEF DropFront
<1>3. CASE entries # <<>>
  <2>1. /\ Head(entries) = entries[1] /\ entries[1] \in Entry(Token)
        /\ Tail(entries) \in Seq(Entry(Token)) /\ Len(Tail(entries)) = Len(entries) - 1
        /\ \A k \in 1..Len(entries) - 1 : Tail(entries)[k] = entries[k + 1]
    BY <1>1, <1>3
  <2>2. entries = <<entries[1]>> \o Tail(entries)
    BY <1>1, <1>3
  <2>. DEFINE size == Len(FrontState(cache))
              tail == Tail(entries)
  <2>3. size = Len(entries[1].state) /\ size \in Nat
    <3>1. FrontState(cache) = entries[1].state
      BY <2>1 DEF FrontState
    <3>. QED  BY <2>1, <3>1 DEF Entry
  <2>4. SizeOf(entries) = size + SizeOf(tail) /\ SizeOf(tail) \in Nat
    <3>. HIDE DEF entries, tail, size
    <3>1. <<entries[1]>> \in Seq(Entry(Token)) /\ SizeOf(<<entries[1]>>) = size
      BY <2>1, <2>3, SizeSingle
    <3>2. tail \in Seq(Entry(Token)) /\ entries = <<entries[1]>> \o tail
      BY <2>1, <2>2 DEF tail
    <3>3. SizeOf(<<entries[1]>> \o tail) = size + SizeOf(tail)
      BY <3>1, <3>2, SizeConcat
    <3>. QED  BY <3>2, <3>3, SizeType
  <2>5. cache.bytes - Len(FrontState(cache)) = SizeOf(Tail(entries))
    BY <2>3, <2>4 DEF Exact
  <2>6. DropFront(cache) = [entries |-> Tail(entries), bytes |-> SizeOf(Tail(entries))]
    BY <1>3, <2>5 DEF DropFront
  <2>7. SizeOf(Tail(entries)) <= limit
    BY <2>3, <2>4 DEF Exact
  <2>8. \A k \in DOMAIN Tail(entries) : k + 1 \in DOMAIN entries /\ Tail(entries)[k] = entries[k + 1]
    BY <1>1, <2>1
  <2>9. DOMAIN Tail(entries) \subseteq Nat
    BY <2>1
  <2>10. \A k \in DOMAIN Tail(entries) : Tail(entries)[k].state = Tail(entries)[k].ids
    BY <2>8 DEF Exact
  <2>11. \A k, l \in DOMAIN Tail(entries) :
           Tail(entries)[k].ids = Tail(entries)[l].ids => k = l
    <3>. SUFFICES ASSUME NEW k \in DOMAIN Tail(entries), NEW l \in DOMAIN Tail(entries),
                         Tail(entries)[k].ids = Tail(entries)[l].ids
                  PROVE  k = l
      OBVIOUS
    <3>1. k + 1 = l + 1
      BY <2>8 DEF Exact
    <3>. QED  BY <3>1, <2>9
  <2>. QED  BY <2>1, <2>4, <2>6, <2>7, <2>10, <2>11 DEF CacheOf, Exact
<1>. QED  BY <1>2, <1>3

(* What was in front is not filed any more after drop_front().             *)
LEMMA DropFrontForgets ==
  ASSUME NEW Token, NEW limit \in Nat, NEW cache \in CacheOf(Token), Exact(cache, limit),
         cache.entries # <<>>
  PROVE  ~Holds(DropFront(cache), FrontState(cache))
<1>. DEFINE entries == cache.entries
            left == Tail(entries)
<1>1. entries \in Seq(Entry(Token)) /\ DOMAIN entries = 1..Len(entries)
      /\ Len(entries) \in Nat \ {0}
  BY DEF CacheOf
<1>2. /\ Head(entries) = entries[1] /\ 1 \in DOMAIN entries
      /\ \A k \in DOMAIN left : k \in Nat \ {0} /\ k + 1 \in DOMAIN entries /\ left[k] = entries[k + 1]
  BY <1>1
<1>3. FrontState(cache) = entries[1].ids
  BY <1>2 DEF FrontState, Exact
<1>4. DropFront(cache).entries = left
  BY DEF DropFront
<1>. HIDE DEF left
<1>5. ASSUME NEW k \in DOMAIN left, left[k].ids = entries[1].ids PROVE FALSE
  <2>1. entries[k + 1].ids = entries[1].ids /\ k + 1 \in DOMAIN entries /\ 1 \in DOMAIN entries
    BY <1>2, <1>5
  <2>2. k + 1 = 1
    BY <2>1 DEF Exact
  <2>. QED  BY <1>2, <2>2
<1>. QED  BY <1>3, <1>4, <1>5 DEF Holds, Filed

(* put() of a state under its own tokens, not filed yet: the oldest        *)
(* checkpoints give way, and what is left is within the limit.             *)
LEMMA PutExact ==
  ASSUME NEW Token, NEW limit \in Nat, NEW cache \in CacheOf(Token), Exact(cache, limit),
         NEW key \in Seq(Token), ~Holds(cache, key), NEW state \in {key, <<>>}
  PROVE  Put(cache, key, state, limit) \in CacheOf(Token) /\ Exact(Put(cache, key, state, limit), limit)
<1>1. CASE state = <<>> \/ Len(state) > limit
  BY <1>1 DEF Put
<1>2. CASE ~(state = <<>> \/ Len(state) > limit)
  <2>. DEFINE new == [ids |-> key, state |-> state]
              all == <<new>> \o cache.entries
              n == Len(all)
              total == cache.bytes + Len(state)
              Without(k) == total - SizeOf(SubSeq(all, k + 1, n))
              Fits(k) == /\ Without(k) <= limit \/ k = 0
                         /\ \A m \in k + 1..n : Without(m) > limit
              kept == CHOOSE k \in 0..n : Fits(k)
  <2>1. /\ cache.entries \in Seq(Entry(Token)) /\ cache.bytes \in Nat
        /\ DOMAIN cache.entries = 1..Len(cache.entries) /\ Len(cache.entries) \in Nat
        /\ state = key /\ new \in Entry(Token)
    BY <1>2 DEF CacheOf, Entry
  <2>2. <<new>> \in Seq(Entry(Token)) /\ SizeOf(<<new>>) = Len(state)
    <3>. HIDE DEF new
    <3>1. <<new>> \in Seq(Entry(Token)) /\ SizeOf(<<new>>) = Len(new.state)
      BY <2>1, SizeSingle
    <3>. QED  BY <3>1 DEF new
  <2>3. /\ all \in Seq(Entry(Token)) /\ n \in Nat /\ DOMAIN all = 1..n
        /\ n = Len(cache.entries) + 1
        /\ all[1] = new /\ \A k \in 2..n : all[k] = cache.entries[k - 1]
        /\ SizeOf(all) = total
    <3>. HIDE DEF new
    <3>1. /\ all \in Seq(Entry(Token))
          /\ SizeOf(all) = SizeOf(<<new>>) + SizeOf(cache.entries)
      BY <2>1, <2>2, SizeConcat
    <3>2. Len(<<new>>) = 1 /\ <<new>>[1] = new
      OBVIOUS
    <3>3. /\ Len(all) = 1 + Len(cache.entries)
          /\ \A k \in 1..1 + Len(cache.entries) :
               all[k] = IF k <= 1 THEN <<new>>[k] ELSE cache.entries[k - 1]
      BY <2>1, <2>2, <3>2, ConcatProperties
    <3>4. cache.bytes = SizeOf(cache.entries) /\ SizeOf(cache.entries) \in Nat
      BY <2>1, SizeType DEF Exact
    <3>5. Len(state) \in Nat
      BY <2>1
    <3>6. SizeOf(all) = total
      BY <2>2, <3>1, <3>4, <3>5
    <3>. QED  BY <2>1, <3>1, <3>2, <3>3, <3>6
  <2>. HIDE DEF new, all, n, total
  <2>4. ASSUME NEW k \in 0..n
        PROVE  /\ SubSeq(all, 1, k) \in Seq(Entry(Token)) /\ Len(SubSeq(all, 1, k)) = k
               /\ \A m \in 1..k : SubSeq(all, 1, k)[m] = all[m]
               /\ Without(k) = SizeOf(SubSeq(all, 1, k)) /\ Without(k) \in Nat
    <3>1. /\ SubSeq(all, 1, k) \in Seq(Entry(Token)) /\ Len(SubSeq(all, 1, k)) = k
          /\ \A m \in 1..k : SubSeq(all, 1, k)[m] = all[m]
          /\ SubSeq(all, k + 1, n) \in Seq(Entry(Token))
      BY <2>3
    <3>2. SubSeq(all, 1, k) \o SubSeq(all, k + 1, n) = SubSeq(all, 1, n)
      <4>1. n = Len(all) /\ 1 \in 1..n + 1 /\ k \in 1 - 1..n /\ n \in k..n
        BY <2>3 DEF n
      <4>. QED  BY <2>3, <4>1, ConcatAdjacentSubSeq
    <3>3. SubSeq(all, 1, n) = all
      BY <2>3, SubSeqFull DEF n
    <3>. HIDE DEF Without
    <3>4. SizeOf(all) = SizeOf(SubSeq(all, 1, k)) + SizeOf(SubSeq(all, k + 1, n))
      <4>1. SizeOf(SubSeq(all, 1, k) \o SubSeq(all, k + 1, n))
              = SizeOf(SubSeq(all, 1, k)) + SizeOf(SubSeq(all, k + 1, n))
        BY <3>1, SizeConcat
      <4>. QED  BY <3>2, <3>3, <4>1
    <3>5. SizeOf(SubSeq(all, 1, k)) \in Nat /\ SizeOf(SubSeq(all, k + 1, n)) \in Nat
      BY <3>1, SizeType
    <3>6. Without(k) = SizeOf(all) - SizeOf(SubSeq(all, k + 1, n))
      BY <2>3 DEF Without
    <3>. QED  BY <3>1, <3>4, <3>5, <3>6
  <2>. HIDE DEF Without
  <2>5. \E k \in 0..n : Fits(k)
    <3>. DEFINE F == {k \in 0..n : Without(k) <= limit \/ k = 0}
    <3>1. F \in SUBSET Nat /\ F # {} /\ \A m \in F : m <= n
      BY <2>3
    <3>2. PICK k \in F : \A m \in F : m <= k
      <4>. HIDE DEF F
      <4>. QED  BY <2>3, <3>1, GreatestNatural
    <3>3. ASSUME NEW m \in k + 1..n PROVE Without(m) > limit
      <4>1. m \in 0..n /\ m \notin F
        BY <2>3, <3>2
      <4>. QED  BY <2>4, <4>1
    <3>. QED  BY <3>2, <3>3
  <2>6. kept \in 0..n /\ Fits(kept)
    BY <2>5
  <2>7. Put(cache, key, state, limit) = [entries |-> SubSeq(all, 1, kept), bytes |-> Without(kept)]
    BY <1>2 DEF Put, Without, total, n, all, new
  <2>. HIDE DEF kept
  <2>8. Without(kept) <= limit
    <3>1. CASE kept = 0
      <4>1. SubSeq(all, 1, 0) = <<>>
        BY <2>3
      <4>2. Without(0) = 0
        BY <2>4, <2>6, <3>1, <4>1, SizeType
      <4>. QED  BY <3>1, <4>2
    <3>2. CASE kept # 0
      BY <2>6, <3>2
    <3>. QED  BY <3>1, <3>2
  <2>9. all[1].ids = key /\ all[1].state = key
    BY <2>1, <2>3 DEF new
  <2>10. ASSUME NEW k \in 2..n
         PROVE  /\ k - 1 \in DOMAIN cache.entries /\ all[k] = cache.entries[k - 1]
                /\ all[k].state = all[k].ids /\ all[k].ids # key
    <3>1. k - 1 \in DOMAIN cache.entries /\ all[k] = cache.entries[k - 1]
      BY <2>1, <2>3
    <3>. QED  BY <3>1 DEF Holds, Filed, Exact
  <2>11. \A k \in 1..n : k = 1 \/ k \in 2..n
    BY <2>3
  <2>12. \A k \in 1..n : all[k].state = all[k].ids
    BY <2>9, <2>10, <2>11
  <2>13. ASSUME NEW k \in 1..n, NEW l \in 1..n, all[k].ids = all[l].ids
         PROVE  k = l
    <3>1. CASE k = 1 \/ l = 1
      BY <3>1, <2>9, <2>10, <2>11, <2>13
    <3>2. CASE k \in 2..n /\ l \in 2..n
      <4>1. k - 1 = l - 1
        BY <3>2, <2>10, <2>13 DEF Exact
      <4>. QED  BY <4>1
    <3>. QED  BY <3>1, <3>2, <2>11
  <2>. DEFINE left == SubSeq(all, 1, kept)
  <2>14. /\ left \in Seq(Entry(Token)) /\ DOMAIN left = 1..kept
         /\ \A k \in 1..kept : k \in 1..n /\ left[k] = all[k]
         /\ Without(kept) = SizeOf(left) /\ Without(kept) \in Nat
    BY <2>3, <2>4, <2>6
  <2>. HIDE DEF left
  <2>15. Put(cache, key, state, limit) = [entries |-> left, bytes |-> Without(kept)]
    BY <2>7 DEF left
  <2>. DEFINE put == Put(cache, key, state, limit)
  <2>16. put.entries = left /\ put.bytes = Without(kept) /\ put \in CacheOf(Token)
    BY <2>14, <2>15 DEF CacheOf
  <2>. HIDE DEF put
  <2>17. Exact(put, limit)
    BY <2>8, <2>12, <2>13, <2>14, <2>16 DEF Exact
  <2>. QED  BY <2>16, <2>17 DEF put
<1>. QED  BY <1>1, <1>2
=============================================================================
