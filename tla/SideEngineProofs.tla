-------------------------- MODULE SideEngineProofs --------------------------
(***************************************************************************)
(* Proofs about SideEngine, for any set-ups, calls and limits, and about   *)
(* Profiles, for any requests: what is read of a row is what its own       *)
(* tokens make it, and these are the state and the whole of its question.  *)
(***************************************************************************)
EXTENDS Profiles, Lemmas

Token == UNION {UNION {Range(r.ids) : r \in RowsOf(s)} : s \in Setups}

\* What the assumptions say of a row, and of a request of such rows.
IsRow(s, r) ==
  /\ r.ids \in Seq(Token) /\ Len(r.ids) \in Nat \ {0}
  /\ r.prefix \in Nat
  /\ ReadsOf(s, r) \in Seq(Nat \ {0})
  /\ \A k, l \in DOMAIN ReadsOf(s, r) : ReadsOf(s, r)[k] = ReadsOf(s, r)[l] => k = l

IsRequest(s, rows) ==
  /\ rows \in Seq(Range(rows)) /\ Len(rows) \in Nat \ {0} /\ DOMAIN rows = 1..Len(rows)
  /\ \A k \in DOMAIN rows : IsRow(s, rows[k])

LEMMA RequestTyped ==
  ASSUME NEW s \in Setups, NEW c \in CallsOf(s)
  PROVE  /\ Len(c) \in Nat \ {0} /\ DOMAIN c = 1..Len(c)
         /\ \A i \in DOMAIN c : IsRequest(s, c[i])
<1>1. /\ c # <<>> /\ c \in Seq(Range(c))
      /\ \A i \in DOMAIN c : c[i] # <<>> /\ c[i] \in Seq(Range(c[i]))
  BY SideAssumption
<1>2. Len(c) \in Nat \ {0} /\ DOMAIN c = 1..Len(c)
  BY <1>1
<1>3. ASSUME NEW i \in DOMAIN c PROVE IsRequest(s, c[i])
  <2>1. /\ c[i] \in Seq(Range(c[i])) /\ Len(c[i]) \in Nat \ {0}
        /\ DOMAIN c[i] = 1..Len(c[i])
    BY <1>1
  <2>2. ASSUME NEW k \in DOMAIN c[i] PROVE IsRow(s, c[i][k])
    <3>1. PICK r : r = c[i][k]
      OBVIOUS
    <3>2. r \in RowsOf(s)
      <4>1. r \in Range(c[i]) /\ c[i] \in Range(c)
        BY <3>1 DEF Range
      <4>. QED  BY <4>1 DEF RowsOf
    <3>3. /\ r.ids # <<>> /\ r.ids \in Seq(Range(r.ids)) /\ r.prefix \in Nat
          /\ ReadsOf(s, r) \in Seq(Nat \ {0}) /\ IsInjective(ReadsOf(s, r))
      BY <3>2, SideAssumption
    <3>4. Range(r.ids) \subseteq Token
      BY <3>2 DEF Token
    <3>5. r.ids \in Seq(Token)
      BY <3>3, <3>4, SeqMonotonic
    <3>6. Len(r.ids) \in Nat \ {0}
      BY <3>3
    <3>. QED  BY <3>1, <3>3, <3>5, <3>6 DEF IsRow, IsInjective
  <2>. QED  BY <2>1, <2>2 DEF IsRequest
<1>. QED  BY <1>2, <1>3

-----------------------------------------------------------------------------
(***************************************************************************)
(* The batch of a request's rows.                                          *)
(***************************************************************************)
(* common_prefix() is a prefix of every row, short of its end and reads.   *)
LEMMA PrefixShared ==
  ASSUME NEW s, NEW rows, IsRequest(s, rows)
  PROVE  /\ CommonPrefix(s, rows) \in Nat
         /\ \A i \in DOMAIN rows :
              /\ CommonPrefix(s, rows) < Len(rows[i].ids)
              /\ SubSeq(rows[i].ids, 1, CommonPrefix(s, rows))
                   = SubSeq(rows[1].ids, 1, CommonPrefix(s, rows))
              /\ \A p \in ReadSet(s, rows[i]) : CommonPrefix(s, rows) < p
<1>. DEFINE Fits(n) == \A i \in DOMAIN rows :
                         /\ n < Len(rows[i].ids)
                         /\ SubSeq(rows[i].ids, 1, n) = SubSeq(rows[1].ids, 1, n)
                         /\ \A p \in ReadSet(s, rows[i]) : n < p
            S == {n \in 0..Len(rows[1].ids) : Fits(n)}
<1>1. Len(rows[1].ids) \in Nat
  BY DEF IsRequest, IsRow
<1>2. Fits(0)
  <2>. SUFFICES ASSUME NEW i \in DOMAIN rows
                PROVE  /\ 0 < Len(rows[i].ids)
                       /\ SubSeq(rows[i].ids, 1, 0) = SubSeq(rows[1].ids, 1, 0)
                       /\ \A p \in ReadSet(s, rows[i]) : 0 < p
    OBVIOUS
  <2>1. 0 < Len(rows[i].ids)
    BY DEF IsRequest, IsRow
  <2>2. SubSeq(rows[i].ids, 1, 0) = <<>> /\ SubSeq(rows[1].ids, 1, 0) = <<>>
    BY SubSeqEmpty
  <2>3. ReadsOf(s, rows[i]) \in Seq(Nat \ {0})
    BY DEF IsRequest, IsRow
  <2>4. \A p \in ReadSet(s, rows[i]) : p \in Nat \ {0}
    BY <2>3 DEF ReadSet, Range
  <2>. QED  BY <2>1, <2>2, <2>4
<1>3. CommonPrefix(s, rows) = CHOOSE n \in S : \A m \in S : n >= m
  BY DEF CommonPrefix, Max
<1>. HIDE DEF Fits
<1>4. S \in SUBSET Nat /\ S # {} /\ \A n \in S : n <= Len(rows[1].ids)
  BY <1>1, <1>2
<1>. HIDE DEF S
<1>5. \E n \in S : \A m \in S : n >= m
  <2>1. \E n \in S : \A m \in S : m <= n
    BY <1>1, <1>4, GreatestNatural
  <2>. QED  BY <2>1, <1>4
<1>6. CommonPrefix(s, rows) \in S
  BY <1>3, <1>5
<1>. QED  BY <1>4, <1>6 DEF S, Fits

(* Each sequence of the batch holds the tokens of its own row.             *)
LEMMA BatchHolds ==
  ASSUME NEW s \in Setups, NEW rows, IsRequest(s, rows), Len(rows) <= s.sequences
  PROVE  LET held == BatchMemory(s, rows, CommonPrefix(s, rows))
         IN  /\ held \in [0..s.sequences - 1 -> Seq(Token)]
             /\ \A i \in DOMAIN rows : i - 1 \in 0..s.sequences - 1 /\ held[i - 1] = rows[i].ids
<1>. DEFINE n == CommonPrefix(s, rows)
            held == BatchMemory(s, rows, n)
<1>1. s.sequences \in Nat \ {0}
  BY SideAssumption
<1>2. DOMAIN rows = 1..Len(rows) /\ Len(rows) \in Nat
  BY DEF IsRequest
<1>3. n \in Nat
  BY PrefixShared
<1>4. ASSUME NEW i \in DOMAIN rows
      PROVE  /\ rows[i].ids \in Seq(Token)
             /\ SubSeq(rows[1].ids, 1, n) \o SubSeq(rows[i].ids, n + 1, Len(rows[i].ids))
                  = rows[i].ids
  <2>1. /\ n \in Nat /\ n < Len(rows[i].ids)
        /\ SubSeq(rows[i].ids, 1, n) = SubSeq(rows[1].ids, 1, n)
    BY PrefixShared
  <2>. HIDE DEF n
  <2>2. rows[i].ids \in Seq(Token) /\ Len(rows[i].ids) \in Nat
    BY DEF IsRequest, IsRow
  <2>3. /\ 1 \in 1..Len(rows[i].ids) + 1 /\ n \in 1 - 1..Len(rows[i].ids)
        /\ Len(rows[i].ids) \in n..Len(rows[i].ids)
    BY <2>1, <2>2
  <2>4. SubSeq(rows[i].ids, 1, n) \o SubSeq(rows[i].ids, n + 1, Len(rows[i].ids))
          = SubSeq(rows[i].ids, 1, Len(rows[i].ids))
    BY <2>2, <2>3, ConcatAdjacentSubSeq
  <2>. QED  BY <2>1, <2>2, <2>4, SubSeqFull
<1>. HIDE DEF n
<1>5. \A i \in DOMAIN rows : i - 1 \in 0..s.sequences - 1 /\ i - 1 + 1 = i
  BY <1>1, <1>2
<1>6. ASSUME NEW q \in 0..s.sequences - 1
      PROVE  held[q] = IF q + 1 \in DOMAIN rows THEN rows[q + 1].ids ELSE <<>>
  BY <1>4 DEF BatchMemory
<1>7. held \in [0..s.sequences - 1 -> Seq(Token)]
  <2>1. ASSUME NEW q \in 0..s.sequences - 1 PROVE held[q] \in Seq(Token)
    <3>. HIDE DEF held
    <3>1. <<>> \in Seq(Token)
      OBVIOUS
    <3>. QED  BY <1>4, <1>6, <3>1
  <2>. QED  BY <2>1 DEF BatchMemory
<1>. QED  BY <1>5, <1>6, <1>7 DEF n

Tokens == [seq : Nat, pos : Nat]

(* The place of a token among finitely many is its own.                    *)
LEMMA PlaceOwn ==
  ASSUME NEW T \in SUBSET Tokens, IsFiniteSet(T), NEW t \in T
  PROVE  /\ Place(T, t) \in 1..Cardinality(T)
         /\ \A u \in T : Place(T, u) = Place(T, t) => u = t
<1>. DEFINE UpTo(v) == {u \in T : NotAfter(u, v)}
<1>1. ASSUME NEW v \in T
      PROVE  IsFiniteSet(UpTo(v)) /\ Cardinality(UpTo(v)) \in Nat
             /\ Cardinality(UpTo(v)) <= Cardinality(T)
  BY FS_Subset, FS_CardinalityType
<1>2. Cardinality(T) \in Nat
  BY FS_CardinalityType
<1>3. Cardinality(UpTo(t)) # 0
  <2>1. t \in UpTo(t)
    BY DEF NotAfter, Tokens
  <2>. QED  BY <2>1, <1>1, FS_EmptySet
<1>4. ASSUME NEW v \in T, NEW w \in T, v # w, NotAfter(v, w)
      PROVE  Cardinality(UpTo(v)) # Cardinality(UpTo(w))
  <2>1. UpTo(v) \subseteq UpTo(w)
    BY <1>4 DEF NotAfter, Tokens
  <2>2. w \in UpTo(w) /\ w \notin UpTo(v)
    BY <1>4 DEF NotAfter, Tokens
  <2>. HIDE DEF UpTo
  <2>3. UpTo(v) # UpTo(w)
    BY <2>2
  <2>4. UpTo(v) \in SUBSET UpTo(w)
    BY <2>1
  <2>. QED  BY <1>1, <2>3, <2>4, FS_Subset
<1>5. ASSUME NEW u \in T, u # t PROVE NotAfter(u, t) \/ NotAfter(t, u)
  BY DEF NotAfter, Tokens
<1>6. \A u \in T : Place(T, u) = Cardinality(UpTo(u))
  BY DEF Place
<1>. HIDE DEF UpTo
<1>. QED  BY <1>1, <1>2, <1>3, <1>4, <1>5, <1>6

(* The tails have finitely many tokens, flagged ones of a row and read.    *)
LEMMA TailsTyped ==
  ASSUME NEW s, NEW rows, IsRequest(s, rows), NEW n \in Nat
  PROVE  /\ Tails(rows, n) \in SUBSET Tokens /\ IsFiniteSet(Tails(rows, n))
         /\ Flagged(s, rows, n) \in SUBSET Tokens /\ IsFiniteSet(Flagged(s, rows, n))
         /\ \A t \in Tails(rows, n) :
              t.seq \in DOMAIN rows /\ t.pos \in n + 1..Len(rows[t.seq].ids)
<1>1. /\ DOMAIN rows = 1..Len(rows) /\ Len(rows) \in Nat
      /\ \A r \in DOMAIN rows : Len(rows[r].ids) \in Nat
  BY DEF IsRequest, IsRow
<1>2. \A t \in Tails(rows, n) :
        t \in Tokens /\ t.seq \in DOMAIN rows /\ t.pos \in n + 1..Len(rows[t.seq].ids)
  BY <1>1 DEF Tails, Tokens
<1>3. IsFiniteSet(Tails(rows, n))
  <2>. DEFINE tail == [r \in 1..Len(rows) |-> [seq : {r}, pos : n + 1..Len(rows[r].ids)]]
              all == {tail[r] : r \in 1..Len(rows)}
  <2>1. tail \in Surjection(1..Len(rows), all)
    BY DEF Surjection
  <2>2. IsFiniteSet(1..Len(rows))
    BY <1>1, FS_Interval
  <2>3. IsFiniteSet(all)
    <3>. HIDE DEF tail, all
    <3>. QED  BY <2>1, <2>2, FS_Surjection
  <2>4. ASSUME NEW r \in 1..Len(rows) PROVE IsFiniteSet(tail[r])
    <3>. DEFINE D == n + 1..Len(rows[r].ids)
                token == [p \in D |-> [seq |-> r, pos |-> p]]
    <3>1. token \in Bijection(D, tail[r])
      <4>1. token \in [D -> tail[r]]
        OBVIOUS
      <4>2. \A p, q \in D : token[p] = token[q] => p = q
        OBVIOUS
      <4>3. \A t \in tail[r] : \E p \in D : token[p] = t
        OBVIOUS
      <4>. HIDE DEF token, tail, D
      <4>. QED  BY <4>1, <4>2, <4>3 DEF Bijection, Injection, Surjection, IsInjective
    <3>2. IsFiniteSet(D)
      <4>1. n + 1 \in Int /\ Len(rows[r].ids) \in Int
        BY <1>1
      <4>. QED  BY <4>1, FS_Interval
    <3>. HIDE DEF token, tail, D
    <3>. QED  BY <3>1, <3>2, FS_Bijection DEF ExistsBijection
  <2>5. \A x \in all : IsFiniteSet(x)
    BY <2>4
  <2>6. Tails(rows, n) = UNION all
    BY <1>1 DEF Tails
  <2>. HIDE DEF all
  <2>. QED  BY <2>3, <2>5, <2>6, FS_UNION
<1>4. Flagged(s, rows, n) \in SUBSET Tails(rows, n)
  BY DEF Flagged
<1>. QED  BY <1>2, <1>3, <1>4, FS_Subset

(* Reads that are all different are counted as outputs are placed.         *)
LEMMA OrdinalIsPlace ==
  ASSUME NEW s, NEW rows, IsRequest(s, rows), NEW n \in Nat, NEW t \in Flagged(s, rows, n)
  PROVE  Ordinal(s, rows, n, t) + 1 = Place(Flagged(s, rows, n), t)
<1>. DEFINE flagged == Flagged(s, rows, n)
            upto == {u \in flagged : NotAfter(u, t)}
            of(u) == {k \in DOMAIN ReadsOf(s, rows[u.seq]) : ReadsOf(s, rows[u.seq])[k] = u.pos}
            pairs == UNION {{u} \X of(u) : u \in upto}
            first == [x \in pairs |-> x[1]]
<1>1. flagged \in SUBSET Tails(rows, n) /\ IsFiniteSet(flagged)
  BY TailsTyped DEF Flagged
<1>2. ASSUME NEW u \in flagged PROVE \E k \in of(u) : of(u) = {k}
  <2>1. u.seq \in DOMAIN rows /\ u.pos \in ReadSet(s, rows[u.seq])
    BY TailsTyped DEF Flagged
  <2>2. IsRow(s, rows[u.seq])
    BY <2>1 DEF IsRequest
  <2>. QED  BY <2>1, <2>2 DEF ReadSet, Range, IsRow
<1>3. first \in Bijection(pairs, upto)
  <2>1. \A x \in pairs : first[x] \in upto /\ x[2] \in of(x[1]) /\ x = <<x[1], x[2]>>
    OBVIOUS
  <2>2. ASSUME NEW x \in pairs, NEW y \in pairs, first[x] = first[y] PROVE x = y
    <3>. HIDE DEF of
    <3>1. x[1] = y[1] /\ x[1] \in flagged
      BY <2>1, <2>2
    <3>2. x[2] = y[2]
      BY <1>2, <2>1, <3>1
    <3>. QED  BY <2>1, <3>1, <3>2
  <2>3. ASSUME NEW u \in upto PROVE \E x \in pairs : first[x] = u
    <3>1. PICK k \in of(u) : TRUE
      BY <1>2
    <3>2. <<u, k>> \in pairs
      OBVIOUS
    <3>. QED  BY <3>2
  <2>. HIDE DEF pairs, upto
  <2>. QED  BY <2>1, <2>2, <2>3 DEF Bijection, Injection, Surjection, IsInjective
<1>4. IsFiniteSet(upto)
  BY <1>1, FS_Subset
<1>5. Cardinality(pairs) = Cardinality(upto)
  <2>. HIDE DEF pairs, upto, first
  <2>1. ExistsBijection(pairs, upto)
    BY <1>3 DEF ExistsBijection
  <2>2. IsFiniteSet(pairs)
    BY <1>3, <1>4, FS_Injection DEF Bijection
  <2>. QED  BY <2>1, <2>2, FS_Bijection
<1>6. Cardinality(upto) \in Nat
  BY <1>4, FS_CardinalityType
<1>7. Ordinal(s, rows, n, t) = Cardinality(pairs) - 1
  BY DEF Ordinal
<1>8. Place(flagged, t) = Cardinality(upto)
  BY DEF Place
<1>. HIDE DEF pairs, upto, flagged
<1>9. Cardinality(pairs) - 1 + 1 = Cardinality(upto)
  BY <1>5, <1>6
<1>. QED  BY <1>7, <1>8, <1>9 DEF flagged

(* What the batch has for a read of a row is what that row's tokens up to  *)
(* the read position make it, in whatever order the outputs are kept.      *)
LEMMA BatchReads ==
  ASSUME NEW s \in Setups, NEW rows, IsRequest(s, rows), Len(rows) <= s.sequences
  PROVE  LET b == BatchOf(s, rows, CommonPrefix(s, rows))
         IN  \A r \in DOMAIN rows : \A p \in DOMAIN b.ord[r] :
               b.outputs[b.ord[r][p] + 1] = SubSeq(rows[r].ids, 1, p)
<1>. DEFINE n == CommonPrefix(s, rows)
            b == BatchOf(s, rows, n)
            flagged == Flagged(s, rows, n)
            held == BatchMemory(s, rows, n)
            nth(j) == CHOOSE t \in flagged : Place(flagged, t) = j
<1>1. n \in Nat
  BY PrefixShared
<1>2. flagged \in SUBSET Tokens /\ IsFiniteSet(flagged) /\ flagged \in SUBSET Tails(rows, n)
  BY <1>1, TailsTyped DEF Flagged
<1>. HIDE DEF n, flagged, held
<1>3. /\ b.ord = [r \in DOMAIN rows |->
                    [p \in {t.pos : t \in {u \in flagged : u.seq = r}} |->
                       Ordinal(s, rows, n, [seq |-> r, pos |-> p])]]
      /\ b.outputs = [j \in 1..Cardinality(flagged) |-> SubSeq(held[nth(j).seq - 1], 1, nth(j).pos)]
  BY DEF BatchOf, flagged, held
<1>. HIDE DEF b
<1>4. ASSUME NEW r \in DOMAIN rows, NEW p \in DOMAIN b.ord[r]
      PROVE  b.outputs[b.ord[r][p] + 1] = SubSeq(rows[r].ids, 1, p)
  <2>. DEFINE t == [seq |-> r, pos |-> p]
              j == Place(flagged, t)
  <2>1. p \in {u.pos : u \in {u \in flagged : u.seq = r}}
    BY <1>3
  <2>2. t \in flagged /\ p \in Nat
    BY <1>2, <2>1 DEF Tokens
  <2>3. b.ord[r][p] = Ordinal(s, rows, n, t)
    BY <1>3, <2>1
  <2>. HIDE DEF t
  <2>4. b.ord[r][p] + 1 = j
    BY <1>1, <2>2, <2>3, OrdinalIsPlace DEF flagged
  <2>5. j \in 1..Cardinality(flagged) /\ \A u \in flagged : Place(flagged, u) = j => u = t
    BY <1>2, <2>2, PlaceOwn
  <2>6. nth(j) = t
    BY <2>2, <2>5
  <2>7. b.outputs[j] = SubSeq(held[t.seq - 1], 1, t.pos)
    BY <1>3, <2>5, <2>6
  <2>8. held[r - 1] = rows[r].ids
    BY BatchHolds DEF held, n
  <2>. QED  BY <2>2, <2>4, <2>7, <2>8 DEF t
<1>. QED  BY <1>4 DEF b, n

(* What predict() adds up before it batches is what the batch then has.    *)
LEMMA BatchCounted ==
  ASSUME NEW s, NEW rows, IsRequest(s, rows), NEW n \in Nat,
         \A i \in DOMAIN rows : n < Len(rows[i].ids)
  PROVE  BatchTotal(rows, n) = n + Cardinality(Tails(rows, n))
<1>. DEFINE m == Len(rows)
            w == [i \in 1..m |-> Len(rows[i].ids) - n]
            D == DOMAIN rows
            Step(f, S) == IF S = {} THEN 0
                          ELSE LET x == CHOOSE x \in S : \A y \in S : x >= y
                               IN  f[S \ {x}] + (Len(rows[x].ids) - n)
            g == CHOOSE f : f = [S \in SUBSET D |-> Step(f, S)]
<1>1. BatchTotal(rows, n) = n + g[D]
  BY DEF BatchTotal, FoldLeft, MapThenFoldSet, Max
<1>2. /\ D = 1..m /\ m \in Nat
      /\ \A i \in 1..m : Len(rows[i].ids) \in Nat /\ w[i] = Len(rows[i].ids) - n /\ w[i] \in Nat
  BY DEF IsRequest, IsRow
<1>3. ASSUME NEW S \in SUBSET D, S # {}
      PROVE  /\ Greatest(S) \in S
             /\ w[Greatest(S)] = Len(rows[Greatest(S)].ids) - n
             /\ Total(w, S) = Total(w, S \ {Greatest(S)}) + w[Greatest(S)]
  <2>. HIDE DEF w, m
  <2>1. Greatest(S) \in S /\ Total(w, S) = Total(w, S \ {Greatest(S)}) + w[Greatest(S)]
    BY <1>2, <1>3, TotalGreatest
  <2>. QED  BY <2>1, <1>2
<1>4. \E f : f = [S \in SUBSET D |-> Step(f, S)]
  <2>. DEFINE f == [S \in SUBSET D |-> Total(w, S)]
  <2>1. ASSUME NEW S \in SUBSET D PROVE f[S] = Step(f, S)
    <3>. HIDE DEF w
    <3>1. CASE S = {}
      BY <3>1, TotalEmpty
    <3>2. CASE S # {}
      BY <3>2, <1>3 DEF Greatest
    <3>. QED  BY <3>1, <3>2
  <2>. QED  BY <2>1, ZenonT(60)
<1>5. g = [S \in SUBSET D |-> Step(g, S)]
  BY <1>4
<1>6. ASSUME NEW S \in SUBSET D
      PROVE  g[S] = IF S = {} THEN 0 ELSE g[S \ {Greatest(S)}] + w[Greatest(S)]
  <2>. HIDE DEF g
  <2>1. g[S] = Step(g, S)
    BY <1>5
  <2>. QED  BY <2>1, <1>3 DEF Greatest
<1>. HIDE DEF g, w
<1>7. g[1..m] = Total(w, 1..m)
  BY <1>2, <1>6, TotalByGreatest
\* The units counted are the tokens of the tails.
<1>. DEFINE units == Units(w, 1..m)
            tails == Tails(rows, n)
            token == [p \in units |-> [seq |-> p[1], pos |-> n + p[2]]]
<1>8. token \in Bijection(units, tails)
  <2>1. \A p \in units : p[1] \in 1..m /\ p[2] \in 1..Len(rows[p[1]].ids) - n /\ p = <<p[1], p[2]>>
    BY <1>2 DEF Units
  <2>2. ASSUME NEW p \in units PROVE token[p] \in tails
    <3>1. n + p[2] \in n + 1..Len(rows[p[1]].ids)
      BY <1>2, <2>1
    <3>. QED  BY <1>2, <2>1, <3>1 DEF Tails
  <2>3. ASSUME NEW p \in units, NEW q \in units, token[p] = token[q] PROVE p = q
    BY <2>1, <2>3
  <2>4. ASSUME NEW t \in tails PROVE \E p \in units : token[p] = t
    <3>1. /\ t.seq \in 1..m /\ t.pos \in n + 1..Len(rows[t.seq].ids)
          /\ t = [seq |-> t.seq, pos |-> t.pos]
      BY <1>2 DEF Tails
    <3>2. t.pos - n \in 1..w[t.seq] /\ n + (t.pos - n) = t.pos
      BY <1>2, <3>1
    <3>3. <<t.seq, t.pos - n>> \in units
      BY <1>2, <3>1, <3>2 DEF Units
    <3>. QED  BY <3>1, <3>2, <3>3
  <2>. HIDE DEF units, tails
  <2>5. token \in [units -> tails]
    BY <2>2
  <2>. HIDE DEF token
  <2>. QED  BY <2>3, <2>4, <2>5 DEF Bijection, Injection, Surjection, IsInjective
<1>9. Cardinality(tails) = Total(w, 1..m)
  <2>. HIDE DEF units, tails, token
  <2>1. IsFiniteSet(units)
    <3>1. IsFiniteSet(1..m)
      BY <1>2, FS_Interval
    <3>. QED  BY <1>2, <3>1, UnitsFinite DEF units
  <2>2. Cardinality(tails) = Cardinality(units)
    BY <1>8, <2>1, FS_Bijection DEF ExistsBijection
  <2>. QED  BY <2>2 DEF Total, units
<1>. QED  BY <1>1, <1>2, <1>7, <1>9

-----------------------------------------------------------------------------
(***************************************************************************)
(* The inductive invariant, in parts.                                      *)
(***************************************************************************)
Phases == {"idle", "request", "batch", "row", "restore", "prefix", "rest", "read"}

\* The phases of decode() and of the reads that follow it.
Decoding == {"restore", "prefix", "rest", "read"}

Typed ==
  /\ setup \in Setups
  /\ call \in CallsOf(setup) \cup {<<>>}
  /\ at \in 1..Len(call) + 1
  /\ phase \in Phases
  /\ row \in 1..Len(Rows) + 1
  /\ error \in {"none", "input", "internal", "device"}
  /\ memory \in [0..setup.sequences - 1 -> Seq(Token)]
  /\ offset \in Nat /\ base \in Nat /\ width \in Nat
  /\ prefixes \in CacheOf(Token)

\* Where the thread is in the call.
ControlInv ==
  /\ phase \notin {"idle", "request"} => at \in DOMAIN call
  /\ phase \in Decoding \cup {"batch"} => row \in DOMAIN Rows
  /\ phase \in {"request", "batch"} => row = 1
  /\ phase = "batch" => Batchable
  /\ phase # "idle" => error = "none" /\ call # <<>>
  /\ phase = "idle" /\ error = "none" => at = Len(call) + 1

\* A batch is that of the rows being read, or there is none.
BatchInv ==
  \/ batch = NoBatch
  \/ /\ phase \in {"row", "read"}
     /\ Batchable /\ Len(Rows) <= setup.sequences
     /\ batch = BatchOf(setup, Rows, Shared)

\* Without a batch, once a row was begun only the first sequence is used.
MemoryInv ==
  batch = NoBatch
  /\ (\/ phase \in Decoding
      \/ phase = "row" /\ row > 1
      \/ phase \in {"idle", "request"} /\ at > 1 /\ error = "none")
  => \A q \in DOMAIN memory \ {0} : memory[q] = <<>>

\* What the first sequence has read of the row, and how outputs are shifted.
DecodeInv ==
  batch = NoBatch =>
    /\ phase \in Decoding => Len(Row.ids) <= MaxLength
    /\ phase \in {"restore", "prefix"} => Kept /\ memory[0] = <<>> /\ offset = 0
    /\ phase = "prefix" => ~Holds(prefixes, PrefixIds)
    /\ phase \in {"rest", "read"} =>
         /\ offset \in {0, Row.prefix} /\ offset <= Len(Row.ids)
         /\ setup.diffusion => offset = 0
    /\ phase = "rest" => memory[0] = SubSeq(Row.ids, 1, offset)
    /\ phase = "read" => memory[0] = Row.ids /\ base = offset

\* What has been read of the rows, and answered of the requests, is their own.
ResultsInv ==
  /\ readings = [i \in 1..row - 1 |-> OwnReading(setup, Rows[i])]
  /\ output = [i \in 1..at - 1 |-> Results(Posed(setup, call[i]))]

IInv ==
  /\ Typed /\ ControlInv /\ BatchInv /\ MemoryInv /\ DecodeInv /\ ResultsInv
  /\ CheckpointsExact /\ BatchFits

-----------------------------------------------------------------------------
(* The request being served and its row are as the assumptions say.        *)
LEMMA RowNow ==
  ASSUME Typed, at \in DOMAIN call
  PROVE  /\ IsRequest(setup, Rows) /\ Rows = call[at]
         /\ Len(Rows) \in Nat \ {0} /\ DOMAIN Rows = 1..Len(Rows)
         /\ row \in DOMAIN Rows => IsRow(setup, Row)
<1>1. call \in CallsOf(setup) /\ Rows = call[at]
  BY DEF Typed, Rows
<1>2. IsRequest(setup, Rows)
  BY <1>1, RequestTyped DEF Typed
<1>. QED  BY <1>1, <1>2 DEF IsRequest, Row

(* What is kept of a request is its common prefix.                         *)
LEMMA SharedIs ==
  ASSUME Typed, at \in DOMAIN call
  PROVE  Shared = CommonPrefix(setup, Rows)
<1>1. setup \in Setups /\ call \in CallsOf(setup) /\ Rows = call[at]
  BY RowNow DEF Typed
<1>2. Rows \in UNION {Range(c) : c \in CallsOf(setup)}
  BY <1>1 DEF Range
<1>. HIDE DEF Rows
<1>. QED  BY <1>1, <1>2 DEF Shared, SharedOf

(* As long as the row is the same, so is what is derived from it.          *)
LEMMA SameRow ==
  ASSUME UNCHANGED <<setup, call, at, row>>
  PROVE  /\ Rows' = Rows /\ Row' = Row /\ Shared' = Shared
         /\ Batchable' <=> Batchable
         /\ PrefixIds' = PrefixIds /\ (Kept' <=> Kept)
<1>1. Rows' = Rows
  BY DEF Rows
<1>2. Row' = Row
  BY <1>1 DEF Row
<1>3. Shared' = Shared
  BY <1>1 DEF Shared
<1>. QED  BY <1>1, <1>2, <1>3 DEF Batchable, PrefixIds, Kept

(* A batch is active or there is none.                                     *)
LEMMA BatchEither ==
  ASSUME BatchInv
  PROVE  /\ ~batch.active => batch = NoBatch
         /\ phase \notin {"row", "read"} => batch = NoBatch
         /\ batch.active =>
              /\ phase \in {"row", "read"} /\ Batchable /\ Len(Rows) <= setup.sequences
              /\ batch = BatchOf(setup, Rows, Shared) /\ batch # NoBatch
<1>1. NoBatch.active = FALSE
  BY DEF NoBatch
<1>2. BatchOf(setup, Rows, Shared).active = TRUE
  BY DEF BatchOf
<1>. QED  BY <1>1, <1>2 DEF BatchInv

(* A sequence of own readings goes on with the next.                       *)
LEMMA ReadingAppended ==
  ASSUME NEW s, NEW rows, NEW n \in Nat
  PROVE  Append([i \in 1..n |-> OwnReading(s, rows[i])], OwnReading(s, rows[n + 1]))
           = [i \in 1..n + 1 |-> OwnReading(s, rows[i])]
OBVIOUS

LEMMA ResultsAppended ==
  ASSUME NEW s, NEW requests, NEW n \in Nat
  PROVE  Append([i \in 1..n |-> Results(Posed(s, requests[i]))], Results(Posed(s, requests[n + 1])))
           = [i \in 1..n + 1 |-> Results(Posed(s, requests[i]))]
OBVIOUS

LEMMA InitInv == Init => IInv
<1>. SUFFICES ASSUME Init PROVE IInv
  OBVIOUS
<1>1. /\ setup \in Setups /\ setup.sequences \in Nat \ {0}
      /\ call = <<>> /\ at = 1 /\ row = 1 /\ phase = "idle" /\ error = "none"
      /\ readings = <<>> /\ output = <<>> /\ batch = NoBatch /\ prefixes = EmptyCache
      /\ memory = [q \in 0..setup.sequences - 1 |-> <<>>]
      /\ offset = 0 /\ base = 0 /\ width = 0
  BY SideAssumption DEF Init, Cleared
<1>2. Rows = <<>>
  BY <1>1 DEF Rows
<1>3. prefixes \in CacheOf(Token) /\ CheckpointsExact
  BY <1>1, SideAssumption, EmptyExact DEF CheckpointsExact
<1>4. memory \in [0..setup.sequences - 1 -> Seq(Token)]
  <2>1. <<>> \in Seq(Token)
    OBVIOUS
  <2>. QED  BY <1>1, <2>1
<1>5. Typed
  BY <1>1, <1>2, <1>3, <1>4 DEF Typed, Phases
<1>6. ControlInv /\ BatchInv
  BY <1>1 DEF ControlInv, BatchInv, Decoding
<1>7. MemoryInv /\ DecodeInv
  BY <1>1 DEF MemoryInv, DecodeInv, Decoding
<1>8. ResultsInv
  BY <1>1 DEF ResultsInv
<1>9. BatchFits
  BY <1>1, SideAssumption DEF BatchFits
<1>. QED  BY <1>3, <1>5, <1>6, <1>7, <1>8, <1>9 DEF IInv

-----------------------------------------------------------------------------
(***************************************************************************)
(* Every step keeps the invariant: predict() and the ends of a call.       *)
(***************************************************************************)
LEMMA PredictStep ==
  ASSUME IInv, NEW c \in CallsOf(setup), Predict(c)
  PROVE  IInv'
<1>. USE DEF IInv
<1>1. /\ call' = c /\ at' = 1 /\ row' = 1 /\ readings' = <<>> /\ output' = <<>>
      /\ error' = "none" /\ phase' = "request" /\ phase = "idle"
      /\ UNCHANGED <<setup, memory, offset, base, prefixes, batch, width>>
  BY DEF Predict
<1>2. Len(c) \in Nat \ {0} /\ DOMAIN c = 1..Len(c) /\ c # <<>>
  BY RequestTyped, SideAssumption DEF Typed
<1>3. Rows' = c[1] /\ Len(c[1]) \in Nat
  <2>1. IsRequest(setup, c[1])
    BY <1>2, RequestTyped DEF Typed
  <2>. QED  BY <1>1, <1>2, <2>1 DEF Rows, IsRequest
<1>4. Typed'
  BY <1>1, <1>2, <1>3 DEF Typed, Phases
<1>5. ControlInv' /\ BatchInv'
  BY <1>1, <1>2, BatchEither DEF ControlInv, BatchInv, Decoding
<1>6. MemoryInv' /\ DecodeInv'
  BY <1>1 DEF MemoryInv, DecodeInv, Decoding
<1>7. ResultsInv'
  BY <1>1 DEF ResultsInv
<1>8. CheckpointsExact' /\ BatchFits'
  BY <1>1 DEF CheckpointsExact, BatchFits
<1>. QED  BY <1>4, <1>5, <1>6, <1>7, <1>8

LEMMA ReturnStep ==
  ASSUME IInv, Return
  PROVE  IInv'
<1>. USE DEF IInv
<1>1. /\ phase = "request" /\ at > Len(call) /\ phase' = "idle"
      /\ UNCHANGED <<setup, call, at, row, readings, output, error,
                     memory, offset, base, prefixes, batch, width>>
  BY DEF Return, servingVars
<1>2. Rows' = Rows
  BY <1>1, SameRow
<1>3. Typed'
  BY <1>1, <1>2 DEF Typed, Phases
<1>4. ControlInv' /\ BatchInv'
  <2>1. Len(call) \in Nat
    BY RequestTyped, EmptySeq DEF Typed
  <2>. QED  BY <1>1, <2>1, BatchEither DEF ControlInv, BatchInv, Decoding, Typed
<1>5. MemoryInv' /\ DecodeInv'
  BY <1>1 DEF MemoryInv, DecodeInv, Decoding
<1>6. ResultsInv'
  BY <1>1, <1>2 DEF ResultsInv
<1>7. CheckpointsExact' /\ BatchFits'
  BY <1>1 DEF CheckpointsExact, BatchFits
<1>. QED  BY <1>3, <1>4, <1>5, <1>6, <1>7

LEMMA PlanRequestStep ==
  ASSUME IInv, PlanRequest
  PROVE  IInv'
<1>. USE DEF IInv
<1>1. /\ phase = "request" /\ at <= Len(call)
      /\ row' = 1 /\ readings' = <<>> /\ row = 1
      /\ phase' = IF Batchable THEN "batch" ELSE "row"
      /\ UNCHANGED <<setup, call, at, output, error, memory, offset, base, prefixes, batch, width>>
  BY DEF PlanRequest, ControlInv
<1>2. at \in DOMAIN call
  BY <1>1, RequestTyped DEF Typed, ControlInv
<1>3. /\ Rows' = Rows /\ (Batchable' <=> Batchable)
      /\ Len(Rows) \in Nat \ {0} /\ DOMAIN Rows = 1..Len(Rows)
  BY <1>1, <1>2, SameRow, RowNow
<1>4. Typed'
  BY <1>1, <1>3 DEF Typed, Phases
<1>5. ControlInv' /\ BatchInv'
  BY <1>1, <1>2, <1>3, BatchEither DEF ControlInv, BatchInv, Decoding
<1>6. MemoryInv' /\ DecodeInv'
  BY <1>1 DEF MemoryInv, DecodeInv, Decoding
<1>7. ResultsInv'
  BY <1>1 DEF ResultsInv
<1>8. CheckpointsExact' /\ BatchFits'
  BY <1>1 DEF CheckpointsExact, BatchFits
<1>. QED  BY <1>4, <1>5, <1>6, <1>7, <1>8

(* An exception leaves no batch, wherever it was thrown.                   *)
LEMMA ThrowStep ==
  ASSUME IInv, phase # "idle", NEW kind \in {"input", "internal", "device"}, Throw(kind),
         batch' = NoBatch, memory' \in [0..setup.sequences - 1 -> Seq(Token)],
         UNCHANGED <<offset, base, prefixes, width>>
  PROVE  IInv'
<1>. USE DEF IInv
<1>1. phase' = "idle" /\ error' = kind /\ UNCHANGED <<setup, call, at, row, readings, output>>
  BY DEF Throw
<1>2. Rows' = Rows
  BY <1>1, SameRow
<1>3. Typed'
  BY <1>1, <1>2 DEF Typed, Phases
<1>4. ControlInv' /\ BatchInv'
  BY <1>1 DEF ControlInv, BatchInv, Decoding
<1>5. MemoryInv' /\ DecodeInv'
  BY <1>1 DEF MemoryInv, DecodeInv, Decoding
<1>6. ResultsInv'
  BY <1>1, <1>2 DEF ResultsInv
<1>7. CheckpointsExact' /\ BatchFits'
  BY <1>1 DEF CheckpointsExact, BatchFits
<1>. QED  BY <1>3, <1>4, <1>5, <1>6, <1>7

(* end_batch() leaves one sequence, and only it in use.                    *)
LEMMA EndBatchLeaves ==
  ASSUME IInv, EndBatch
  PROVE  /\ batch' = NoBatch
         /\ memory' \in [0..setup.sequences - 1 -> Seq(Token)]
         /\ \/ memory' = memory /\ batch = NoBatch
            \/ \A q \in DOMAIN memory' \ {0} : memory'[q] = <<>>
<1>1. /\ setup.sequences \in Nat \ {0}
      /\ memory \in [0..setup.sequences - 1 -> Seq(Token)]
  BY SideAssumption DEF IInv, Typed
<1>2. batch' = NoBatch /\ memory' = IF batch.active THEN [Cleared EXCEPT ![0] = memory[0]] ELSE memory
  BY DEF EndBatch
<1>3. CASE batch.active
  <2>1. memory' = [q \in 0..setup.sequences - 1 |-> IF q = 0 THEN memory[0] ELSE <<>>]
    BY <1>1, <1>2, <1>3 DEF Cleared
  <2>2. memory[0] \in Seq(Token) /\ <<>> \in Seq(Token)
    BY <1>1
  <2>. QED  BY <1>2, <2>1, <2>2
<1>4. CASE ~batch.active
  BY <1>1, <1>2, <1>4, BatchEither DEF IInv
<1>. QED  BY <1>3, <1>4

LEMMA EndRequestStep ==
  ASSUME IInv, EndRequest
  PROVE  IInv'
<1>. USE DEF IInv
<1>1. /\ phase = "row" /\ row > Len(Rows)
      /\ output' = Append(output, readings)
      /\ at' = at + 1 /\ row' = 1 /\ readings' = <<>> /\ phase' = "request"
      /\ UNCHANGED <<setup, call, error, offset, base, prefixes, width>>
  BY DEF EndRequest
<1>2. EndBatch
  BY DEF EndRequest
<1>3. at \in DOMAIN call /\ error = "none" /\ call # <<>>
  BY <1>1 DEF ControlInv, Decoding
<1>4. /\ Len(Rows) \in Nat \ {0} /\ DOMAIN Rows = 1..Len(Rows) /\ Rows = call[at]
      /\ row = Len(Rows) + 1
  BY <1>1, <1>3, RowNow DEF Typed
<1>5. /\ call \in CallsOf(setup) /\ Len(call) \in Nat /\ DOMAIN call = 1..Len(call)
      /\ at + 1 \in 1..Len(call) + 1
  BY <1>3, RequestTyped DEF Typed
<1>6. Rows' \in {call[at + 1], <<>>} /\ Len(Rows') \in Nat
  <2>1. at + 1 \in DOMAIN call => IsRequest(setup, call[at + 1])
    BY <1>5, RequestTyped DEF Typed
  <2>2. Rows' = IF at + 1 \in DOMAIN call THEN call[at + 1] ELSE <<>>
    BY <1>1 DEF Rows
  <2>. QED  BY <2>1, <2>2 DEF IsRequest
<1>7. batch' = NoBatch /\ memory' \in [0..setup.sequences - 1 -> Seq(Token)]
  BY <1>2, EndBatchLeaves
<1>8. Typed'
  BY <1>1, <1>3, <1>5, <1>6, <1>7 DEF Typed, Phases
<1>9. ControlInv' /\ BatchInv'
  BY <1>1, <1>3, <1>7 DEF ControlInv, BatchInv, Decoding
<1>10. MemoryInv' /\ DecodeInv'
  <2>1. \A q \in DOMAIN memory' \ {0} : memory'[q] = <<>>
    <3>1. row > 1
      BY <1>4
    <3>. QED  BY <1>1, <1>2, <3>1, EndBatchLeaves DEF MemoryInv
  <2>. QED  BY <1>1, <2>1 DEF MemoryInv, DecodeInv, Decoding
<1>11. ResultsInv'
  <2>1. readings = Results(Posed(setup, call[at]))
    BY <1>4 DEF ResultsInv, Results, Posed
  <2>2. PICK n \in Nat : at = n + 1
    BY <1>3, <1>5
  <2>3. output = [i \in 1..n |-> Results(Posed(setup, call[i]))]
    <3>1. at - 1 = n
      BY <2>2
    <3>. QED  BY <3>1 DEF ResultsInv
  <2>4. output' = [i \in 1..n + 1 |-> Results(Posed(setup, call[i]))]
    BY <1>1, <2>1, <2>2, <2>3, ResultsAppended
  <2>5. output' = [i \in 1..at' - 1 |-> Results(Posed(setup', call'[i]))]
    <3>1. at' - 1 = n + 1
      BY <1>1, <2>2
    <3>. QED  BY <1>1, <2>4, <3>1
  <2>6. readings' = [i \in 1..row' - 1 |-> OwnReading(setup', Rows'[i])]
    BY <1>1
  <2>. QED  BY <2>5, <2>6 DEF ResultsInv
<1>12. CheckpointsExact' /\ BatchFits'
  BY <1>1 DEF CheckpointsExact, BatchFits
<1>. QED  BY <1>8, <1>9, <1>10, <1>11, <1>12

-----------------------------------------------------------------------------
(***************************************************************************)
(* The batch of a request.                                                 *)
(***************************************************************************)
(* A step within a request: the results are the same, the row is typed.    *)
LEMMA WithinRequest ==
  ASSUME IInv, phase \notin {"idle", "request"}, UNCHANGED servingVars
  PROVE  /\ Rows' = Rows /\ Row' = Row /\ Shared' = Shared
         /\ Batchable' <=> Batchable
         /\ PrefixIds' = PrefixIds /\ (Kept' <=> Kept)
         /\ UNCHANGED <<setup, call, at, row, error>>
         /\ IsRequest(setup, Rows) /\ DOMAIN Rows = 1..Len(Rows) /\ Len(Rows) \in Nat \ {0}
         /\ row \in DOMAIN Rows => IsRow(setup, Row)
         /\ at \in DOMAIN call /\ error = "none" /\ call # <<>>
         /\ ResultsInv'
<1>1. UNCHANGED <<setup, call, at, row, readings, output, error>>
  BY DEF servingVars
<1>2. /\ Rows' = Rows /\ Row' = Row /\ Shared' = Shared
      /\ Batchable' <=> Batchable
      /\ PrefixIds' = PrefixIds /\ (Kept' <=> Kept)
  BY <1>1, SameRow
<1>3. at \in DOMAIN call /\ error = "none" /\ call # <<>>
  BY DEF IInv, ControlInv
<1>4. /\ IsRequest(setup, Rows) /\ DOMAIN Rows = 1..Len(Rows) /\ Len(Rows) \in Nat \ {0}
      /\ row \in DOMAIN Rows => IsRow(setup, Row)
  BY <1>3, RowNow DEF IInv
<1>5. ResultsInv'
  BY <1>1, <1>2 DEF IInv, ResultsInv
<1>. QED  BY <1>1, <1>2, <1>3, <1>4, <1>5

LEMMA TooManyRowsStep ==
  ASSUME IInv, TooManyRows
  PROVE  IInv'
<1>1. /\ phase = "batch" /\ Throw("input")
      /\ UNCHANGED <<memory, offset, base, prefixes, batch, width>>
  BY DEF TooManyRows
<1>2. batch = NoBatch
  BY <1>1, BatchEither DEF IInv
<1>3. memory \in [0..setup.sequences - 1 -> Seq(Token)]
  BY DEF IInv, Typed
<1>. QED  BY <1>1, <1>2, <1>3, ThrowStep

LEMMA BeginBatchStep ==
  ASSUME IInv, BeginBatch
  PROVE  IInv'
<1>. USE DEF IInv
<1>1. /\ phase = "batch" /\ Len(Rows) <= setup.sequences
      /\ memory' = BatchMemory(setup, Rows, Shared)
      /\ batch' = BatchOf(setup, Rows, Shared)
      /\ width' = Shared + Cardinality(Tails(Rows, Shared))
      /\ phase' = "row"
      /\ UNCHANGED servingVars /\ UNCHANGED <<offset, base, prefixes>>
  BY DEF BeginBatch
<1>2. /\ Rows' = Rows /\ Shared' = Shared /\ (Batchable' <=> Batchable)
      /\ UNCHANGED <<setup, call, at, row, error>>
      /\ IsRequest(setup, Rows) /\ setup \in Setups
      /\ at \in DOMAIN call /\ error = "none" /\ call # <<>>
      /\ ResultsInv'
  BY <1>1, WithinRequest DEF Typed
<1>3. memory' \in [0..setup.sequences - 1 -> Seq(Token)]
  <2>1. Shared = CommonPrefix(setup, Rows)
    BY <1>2, SharedIs
  <2>. QED  BY <1>1, <1>2, <2>1, BatchHolds
<1>4. width' \in Nat /\ width' <= MaxLength
  <2>1. Shared \in Nat /\ \A i \in DOMAIN Rows : Shared < Len(Rows[i].ids)
    BY <1>2, PrefixShared, SharedIs
  <2>2. BatchTotal(Rows, Shared) = width'
    BY <1>1, <1>2, <2>1, BatchCounted
  <2>3. BatchTotal(Rows, Shared) <= MaxLength
    BY <1>1 DEF ControlInv, Batchable
  <2>4. Cardinality(Tails(Rows, Shared)) \in Nat
    BY <1>2, <2>1, TailsTyped, FS_CardinalityType
  <2>. QED  BY <1>1, <2>1, <2>2, <2>3, <2>4
<1>5. Typed'
  BY <1>1, <1>2, <1>3, <1>4 DEF Typed, Phases
<1>6. ControlInv' /\ BatchInv'
  BY <1>1, <1>2 DEF ControlInv, BatchInv, Decoding
<1>7. MemoryInv' /\ DecodeInv'
  <2>1. batch' # NoBatch
    BY <1>1 DEF BatchOf, NoBatch
  <2>. QED  BY <2>1 DEF MemoryInv, DecodeInv
<1>8. CheckpointsExact' /\ BatchFits'
  BY <1>1, <1>4 DEF CheckpointsExact, BatchFits
<1>. QED  BY <1>2, <1>5, <1>6, <1>7, <1>8

LEMMA SelectRowStep ==
  ASSUME IInv, SelectRow
  PROVE  IInv'
<1>. USE DEF IInv
<1>1. /\ phase = "row" /\ row <= Len(Rows) /\ batch.active /\ phase' = "read"
      /\ UNCHANGED servingVars /\ UNCHANGED <<memory, offset, base, prefixes, batch, width>>
  BY DEF SelectRow
<1>2. /\ Rows' = Rows /\ Shared' = Shared /\ (Batchable' <=> Batchable)
      /\ UNCHANGED <<setup, call, at, row, error>>
      /\ DOMAIN Rows = 1..Len(Rows) /\ Len(Rows) \in Nat
      /\ at \in DOMAIN call /\ error = "none" /\ call # <<>>
      /\ ResultsInv'
  BY <1>1, WithinRequest
<1>3. Typed'
  BY <1>1, <1>2 DEF Typed, Phases
<1>4. ControlInv' /\ BatchInv'
  BY <1>1, <1>2, BatchEither DEF ControlInv, BatchInv, Decoding, Typed
<1>5. MemoryInv' /\ DecodeInv'
  <2>1. batch' # NoBatch
    BY <1>1, BatchEither
  <2>. QED  BY <2>1 DEF MemoryInv, DecodeInv
<1>6. CheckpointsExact' /\ BatchFits'
  BY <1>1 DEF CheckpointsExact, BatchFits
<1>. QED  BY <1>2, <1>3, <1>4, <1>5, <1>6

-----------------------------------------------------------------------------
(***************************************************************************)
(* decode(), without a batch.                                              *)
(***************************************************************************)
LEMMA RejectRowStep ==
  ASSUME IInv, RejectRow
  PROVE  IInv'
<1>1. /\ phase = "row" /\ ~batch.active /\ Throw("input")
      /\ UNCHANGED <<memory, offset, base, prefixes, batch, width>>
  BY DEF RejectRow
<1>2. batch = NoBatch
  BY <1>1, BatchEither DEF IInv
<1>3. memory \in [0..setup.sequences - 1 -> Seq(Token)]
  BY DEF IInv, Typed
<1>. QED  BY <1>1, <1>2, <1>3, ThrowStep

LEMMA BeginRowStep ==
  ASSUME IInv, BeginRow
  PROVE  IInv'
<1>. USE DEF IInv
<1>1. /\ phase = "row" /\ row <= Len(Rows) /\ ~batch.active /\ Len(Row.ids) <= MaxLength
      /\ memory' = Cleared /\ offset' = 0
      /\ phase' = IF Kept THEN "restore" ELSE "rest"
      /\ UNCHANGED servingVars /\ UNCHANGED <<base, prefixes, batch, width>>
  BY DEF BeginRow, StartMemory, StartOffset
<1>2. /\ Rows' = Rows /\ Row' = Row /\ (Kept' <=> Kept)
      /\ UNCHANGED <<setup, call, at, row, error>>
      /\ DOMAIN Rows = 1..Len(Rows) /\ Len(Rows) \in Nat
      /\ row \in DOMAIN Rows => IsRow(setup, Row)
      /\ at \in DOMAIN call /\ error = "none" /\ call # <<>>
      /\ ResultsInv'
  BY <1>1, WithinRequest
<1>3. row \in DOMAIN Rows /\ batch = NoBatch
  BY <1>1, <1>2, BatchEither DEF Typed
<1>4. /\ memory' = [q \in 0..setup.sequences - 1 |-> <<>>] /\ setup.sequences \in Nat \ {0}
      /\ memory' \in [0..setup.sequences - 1 -> Seq(Token)]
      /\ \A q \in DOMAIN memory' : memory'[q] = <<>>
      /\ memory'[0] = <<>>
  <2>1. <<>> \in Seq(Token)
    OBVIOUS
  <2>. QED  BY <1>1, <2>1, SideAssumption DEF Cleared, Typed
<1>5. Typed'
  BY <1>1, <1>2, <1>4 DEF Typed, Phases
<1>6. ControlInv' /\ BatchInv'
  BY <1>1, <1>2, <1>3 DEF ControlInv, BatchInv, Decoding
<1>7. MemoryInv' /\ DecodeInv'
  <2>1. Len(Row.ids) \in Nat /\ SubSeq(Row.ids, 1, 0) = <<>>
    BY <1>2, <1>3, SubSeqEmpty DEF IsRow
  <2>. QED  BY <1>1, <1>2, <1>3, <1>4, <2>1 DEF MemoryInv, DecodeInv, Decoding
<1>8. CheckpointsExact' /\ BatchFits'
  BY <1>1 DEF CheckpointsExact, BatchFits
<1>. QED  BY <1>2, <1>5, <1>6, <1>7, <1>8

(* The tokens of a cached prefix are the row's, with a token left behind.  *)
LEMMA PrefixKept ==
  ASSUME IInv, phase \in {"restore", "prefix"}
  PROVE  /\ batch = NoBatch /\ row \in DOMAIN Rows /\ IsRow(setup, Row)
         /\ ~setup.diffusion /\ Row.prefix \in Nat /\ Row.prefix < Len(Row.ids)
         /\ PrefixIds \in Seq(Token) /\ Len(PrefixIds) = Row.prefix
         /\ Len(Row.ids) <= MaxLength
         /\ memory[0] = <<>> /\ memory \in [0..setup.sequences - 1 -> Seq(Token)]
         /\ 0 \in 0..setup.sequences - 1
         /\ \A q \in DOMAIN memory \ {0} : memory[q] = <<>>
<1>1. batch = NoBatch /\ row \in DOMAIN Rows /\ at \in DOMAIN call
  BY BatchEither DEF IInv, ControlInv, Decoding
<1>2. IsRow(setup, Row)
  BY <1>1, RowNow DEF IInv
<1>3. /\ Kept /\ memory[0] = <<>> /\ Len(Row.ids) <= MaxLength
      /\ \A q \in DOMAIN memory \ {0} : memory[q] = <<>>
  BY <1>1 DEF IInv, DecodeInv, MemoryInv, Decoding
<1>4. ~setup.diffusion /\ Row.prefix \in Nat /\ Row.prefix < Len(Row.ids)
  BY <1>2, <1>3 DEF Kept, IsRow
<1>5. PrefixIds \in Seq(Token) /\ Len(PrefixIds) = Row.prefix
  <2>1. Row.ids \in Seq(Token) /\ Len(Row.ids) \in Nat
    BY <1>2 DEF IsRow
  <2>. QED  BY <1>4, <2>1 DEF PrefixIds
<1>6. /\ memory \in [0..setup.sequences - 1 -> Seq(Token)]
      /\ 0 \in 0..setup.sequences - 1
  BY SideAssumption DEF IInv, Typed
<1>. QED  BY <1>1, <1>2, <1>3, <1>4, <1>5, <1>6

LEMMA RestoreStep ==
  ASSUME IInv, Restore
  PROVE  IInv'
<1>. USE DEF IInv
<1>. DEFINE touched == Touch(prefixes, PrefixIds)
<1>1. /\ phase = "restore" /\ Holds(prefixes, PrefixIds)
      /\ memory' = [memory EXCEPT ![0] = FrontState(touched)]
      /\ prefixes' = touched /\ offset' = Row.prefix /\ phase' = "rest"
      /\ UNCHANGED servingVars /\ UNCHANGED <<base, batch, width>>
  BY DEF Restore
<1>2. /\ Rows' = Rows /\ Row' = Row
      /\ UNCHANGED <<setup, call, at, row, error>>
      /\ at \in DOMAIN call /\ error = "none" /\ call # <<>>
      /\ ResultsInv'
  BY <1>1, WithinRequest
<1>3. /\ batch = NoBatch /\ row \in DOMAIN Rows /\ IsRow(setup, Row)
      /\ ~setup.diffusion /\ Row.prefix \in Nat /\ Row.prefix < Len(Row.ids)
      /\ PrefixIds \in Seq(Token) /\ Len(Row.ids) <= MaxLength
      /\ memory \in [0..setup.sequences - 1 -> Seq(Token)] /\ 0 \in 0..setup.sequences - 1
      /\ \A q \in DOMAIN memory \ {0} : memory[q] = <<>>
  BY <1>1, PrefixKept
<1>4. touched \in CacheOf(Token) /\ Exact(touched, CacheLimit) /\ FrontState(touched) = PrefixIds
  BY <1>1, SideAssumption, TouchExact DEF Typed, CheckpointsExact
<1>. HIDE DEF touched
<1>5. /\ memory' \in [0..setup.sequences - 1 -> Seq(Token)] /\ memory'[0] = PrefixIds
      /\ \A q \in DOMAIN memory' \ {0} : memory'[q] = <<>>
  BY <1>1, <1>3, <1>4
<1>6. Typed'
  BY <1>1, <1>2, <1>3, <1>4, <1>5 DEF Typed, Phases
<1>7. ControlInv' /\ BatchInv'
  BY <1>1, <1>2, <1>3 DEF ControlInv, BatchInv, Decoding
<1>8. MemoryInv' /\ DecodeInv'
  <2>1. Len(Row.ids) \in Nat /\ PrefixIds = SubSeq(Row.ids, 1, Row.prefix)
    BY <1>3 DEF IsRow, PrefixIds
  <2>. QED  BY <1>1, <1>2, <1>3, <1>5, <2>1 DEF MemoryInv, DecodeInv, Decoding
<1>9. CheckpointsExact' /\ BatchFits'
  BY <1>1, <1>4 DEF CheckpointsExact, BatchFits
<1>. QED  BY <1>2, <1>6, <1>7, <1>8, <1>9

LEMMA RestoreFailsStep ==
  ASSUME IInv, RestoreFails
  PROVE  IInv'
<1>. USE DEF IInv
<1>. DEFINE touched == Touch(prefixes, PrefixIds)
<1>1. /\ phase = "restore" /\ Holds(prefixes, PrefixIds)
      /\ memory' = Cleared /\ prefixes' = DropFront(touched) /\ phase' = "prefix"
      /\ UNCHANGED servingVars /\ UNCHANGED <<offset, base, batch, width>>
  BY DEF RestoreFails
<1>2. /\ Rows' = Rows /\ Row' = Row /\ PrefixIds' = PrefixIds /\ (Kept' <=> Kept)
      /\ UNCHANGED <<setup, call, at, row, error>>
      /\ at \in DOMAIN call /\ error = "none" /\ call # <<>>
      /\ ResultsInv'
  BY <1>1, WithinRequest
<1>3. /\ batch = NoBatch /\ row \in DOMAIN Rows /\ Len(Row.ids) <= MaxLength
      /\ Kept /\ offset = 0 /\ 0 \in 0..setup.sequences - 1
  BY <1>1, PrefixKept DEF DecodeInv
<1>4. /\ touched \in CacheOf(Token) /\ Exact(touched, CacheLimit) /\ touched.entries # <<>>
      /\ FrontState(touched) = PrefixIds
  BY <1>1, SideAssumption, TouchExact DEF Typed, CheckpointsExact
<1>. HIDE DEF touched
<1>5. /\ DropFront(touched) \in CacheOf(Token) /\ Exact(DropFront(touched), CacheLimit)
      /\ ~Holds(DropFront(touched), PrefixIds)
  BY <1>4, SideAssumption, DropFrontExact, DropFrontForgets
<1>6. /\ memory' \in [0..setup.sequences - 1 -> Seq(Token)]
      /\ \A q \in DOMAIN memory' : memory'[q] = <<>>
      /\ memory'[0] = <<>>
  <2>1. <<>> \in Seq(Token)
    OBVIOUS
  <2>. QED  BY <1>1, <1>3, <2>1 DEF Cleared
<1>7. Typed'
  BY <1>1, <1>2, <1>5, <1>6 DEF Typed, Phases
<1>8. ControlInv' /\ BatchInv'
  BY <1>1, <1>2, <1>3 DEF ControlInv, BatchInv, Decoding
<1>9. MemoryInv' /\ DecodeInv'
  BY <1>1, <1>2, <1>3, <1>5, <1>6 DEF MemoryInv, DecodeInv, Decoding
<1>10. CheckpointsExact' /\ BatchFits'
  BY <1>1, <1>5 DEF CheckpointsExact, BatchFits
<1>. QED  BY <1>2, <1>7, <1>8, <1>9, <1>10

LEMMA RestoreMissesStep ==
  ASSUME IInv, RestoreMisses
  PROVE  IInv'
<1>. USE DEF IInv
<1>1. /\ phase = "restore" /\ ~Holds(prefixes, PrefixIds) /\ phase' = "prefix"
      /\ UNCHANGED servingVars /\ UNCHANGED <<memory, offset, base, prefixes, batch, width>>
  BY DEF RestoreMisses
<1>2. /\ Rows' = Rows /\ Row' = Row /\ PrefixIds' = PrefixIds /\ (Kept' <=> Kept)
      /\ UNCHANGED <<setup, call, at, row, error>>
      /\ at \in DOMAIN call /\ error = "none" /\ call # <<>>
      /\ ResultsInv'
  BY <1>1, WithinRequest
<1>3. batch = NoBatch /\ row \in DOMAIN Rows
  BY <1>1, PrefixKept
<1>4. Typed'
  BY <1>1, <1>2 DEF Typed, Phases
<1>5. ControlInv' /\ BatchInv'
  BY <1>1, <1>2, <1>3 DEF ControlInv, BatchInv, Decoding
<1>6. MemoryInv' /\ DecodeInv'
  BY <1>1, <1>2, <1>3 DEF MemoryInv, DecodeInv, Decoding
<1>7. CheckpointsExact' /\ BatchFits'
  BY <1>1 DEF CheckpointsExact, BatchFits
<1>. QED  BY <1>2, <1>4, <1>5, <1>6, <1>7

LEMMA DecodePrefixStep ==
  ASSUME IInv, DecodePrefix
  PROVE  IInv'
<1>. USE DEF IInv
<1>1. PICK state \in {memory[0] \o PrefixIds, <<>>} :
        /\ phase = "prefix" /\ prefixes' = Put(prefixes, PrefixIds, state, CacheLimit)
        /\ memory' = [memory EXCEPT ![0] = memory[0] \o PrefixIds]
        /\ offset' = Row.prefix /\ width' = Row.prefix /\ phase' = "rest"
        /\ UNCHANGED servingVars /\ UNCHANGED <<base, batch>>
  BY DEF DecodePrefix
<1>2. /\ Rows' = Rows /\ Row' = Row
      /\ UNCHANGED <<setup, call, at, row, error>>
      /\ at \in DOMAIN call /\ error = "none" /\ call # <<>>
      /\ ResultsInv'
  BY <1>1, WithinRequest
<1>3. /\ batch = NoBatch /\ row \in DOMAIN Rows /\ IsRow(setup, Row)
      /\ ~setup.diffusion /\ Row.prefix \in Nat /\ Row.prefix < Len(Row.ids)
      /\ PrefixIds \in Seq(Token) /\ Len(Row.ids) <= MaxLength /\ memory[0] = <<>>
      /\ memory \in [0..setup.sequences - 1 -> Seq(Token)] /\ 0 \in 0..setup.sequences - 1
      /\ \A q \in DOMAIN memory \ {0} : memory[q] = <<>>
  BY <1>1, PrefixKept
<1>4. memory[0] \o PrefixIds = PrefixIds
  BY <1>3
<1>5. prefixes' \in CacheOf(Token) /\ Exact(prefixes', CacheLimit)
  <2>1. ~Holds(prefixes, PrefixIds)
    BY <1>1, <1>3 DEF DecodeInv
  <2>. QED  BY <1>1, <1>3, <1>4, <2>1, SideAssumption, PutExact DEF Typed, CheckpointsExact
<1>6. /\ memory' \in [0..setup.sequences - 1 -> Seq(Token)] /\ memory'[0] = PrefixIds
      /\ \A q \in DOMAIN memory' \ {0} : memory'[q] = <<>>
  BY <1>1, <1>3, <1>4
<1>7. Len(Row.ids) \in Nat /\ PrefixIds = SubSeq(Row.ids, 1, Row.prefix)
  BY <1>3 DEF IsRow, PrefixIds
<1>8. Typed'
  BY <1>1, <1>2, <1>3, <1>5, <1>6 DEF Typed, Phases
<1>9. ControlInv' /\ BatchInv'
  BY <1>1, <1>2, <1>3 DEF ControlInv, BatchInv, Decoding
<1>10. MemoryInv' /\ DecodeInv'
  BY <1>1, <1>2, <1>3, <1>6, <1>7 DEF MemoryInv, DecodeInv, Decoding
<1>11. CheckpointsExact' /\ BatchFits'
  <2>1. MaxLength \in Nat
    BY SideAssumption
  <2>. QED  BY <1>1, <1>3, <1>5, <1>7, <2>1 DEF CheckpointsExact, BatchFits
<1>. QED  BY <1>2, <1>8, <1>9, <1>10, <1>11

(* In front of the rest of a row the first sequence holds what it follows. *)
LEMMA RestFollows ==
  ASSUME IInv, phase = "rest"
  PROVE  /\ batch = NoBatch /\ row \in DOMAIN Rows /\ IsRow(setup, Row)
         /\ offset \in {0, Row.prefix} /\ offset \in Nat /\ offset <= Len(Row.ids)
         /\ Len(Row.ids) \in Nat \ {0} /\ Len(Row.ids) <= MaxLength /\ MaxLength \in Nat
         /\ setup.diffusion => offset = 0 /\ memory[0] = <<>>
         /\ Len(memory[0]) = offset
         /\ memory[0] \o SubSeq(Row.ids, offset + 1, Len(Row.ids)) = Row.ids
         /\ memory \in [0..setup.sequences - 1 -> Seq(Token)] /\ 0 \in 0..setup.sequences - 1
         /\ \A q \in DOMAIN memory \ {0} : memory[q] = <<>>
<1>1. batch = NoBatch /\ row \in DOMAIN Rows /\ at \in DOMAIN call
  BY BatchEither DEF IInv, ControlInv, Decoding
<1>2. IsRow(setup, Row) /\ Row.ids \in Seq(Token) /\ Len(Row.ids) \in Nat \ {0}
  BY <1>1, RowNow DEF IInv, IsRow
<1>3. /\ offset \in {0, Row.prefix} /\ offset <= Len(Row.ids) /\ Len(Row.ids) <= MaxLength
      /\ setup.diffusion => offset = 0
      /\ memory[0] = SubSeq(Row.ids, 1, offset)
      /\ \A q \in DOMAIN memory \ {0} : memory[q] = <<>>
  BY <1>1 DEF IInv, DecodeInv, MemoryInv, Decoding
<1>4. offset \in Nat
  BY DEF IInv, Typed
<1>5. Len(memory[0]) = offset
  BY <1>2, <1>3, <1>4
<1>6. SubSeq(Row.ids, 1, offset) \o SubSeq(Row.ids, offset + 1, Len(Row.ids)) = Row.ids
  <2>1. /\ 1 \in 1..Len(Row.ids) + 1 /\ offset \in 1 - 1..Len(Row.ids)
        /\ Len(Row.ids) \in offset..Len(Row.ids)
    BY <1>2, <1>3, <1>4
  <2>2. SubSeq(Row.ids, 1, offset) \o SubSeq(Row.ids, offset + 1, Len(Row.ids))
          = SubSeq(Row.ids, 1, Len(Row.ids))
    BY <1>2, <2>1, ConcatAdjacentSubSeq
  <2>. QED  BY <1>2, <2>2, SubSeqFull
<1>7. setup.diffusion => memory[0] = <<>>
  <2>1. SubSeq(Row.ids, 1, 0) = <<>>
    BY SubSeqEmpty
  <2>. QED  BY <1>3, <2>1
<1>8. /\ memory \in [0..setup.sequences - 1 -> Seq(Token)]
      /\ 0 \in 0..setup.sequences - 1 /\ MaxLength \in Nat
  BY SideAssumption DEF IInv, Typed
<1>. QED  BY <1>1, <1>2, <1>3, <1>4, <1>5, <1>6, <1>7, <1>8

(* Once the rest is read, the first sequence holds the row.                *)
LEMMA RowRead ==
  ASSUME IInv, phase = "rest", phase' = "read",
         memory' = [memory EXCEPT ![0] = Row.ids], base' = offset,
         width' \in Nat, width' <= MaxLength,
         UNCHANGED servingVars, UNCHANGED <<offset, prefixes, batch>>
  PROVE  IInv'
<1>. USE DEF IInv
<1>1. /\ Rows' = Rows /\ Row' = Row
      /\ UNCHANGED <<setup, call, at, row, error>>
      /\ at \in DOMAIN call /\ error = "none" /\ call # <<>>
      /\ ResultsInv'
  BY WithinRequest
<1>2. /\ batch = NoBatch /\ row \in DOMAIN Rows /\ IsRow(setup, Row)
      /\ offset \in {0, Row.prefix} /\ offset \in Nat /\ offset <= Len(Row.ids)
      /\ Len(Row.ids) <= MaxLength
      /\ setup.diffusion => offset = 0
      /\ memory \in [0..setup.sequences - 1 -> Seq(Token)] /\ 0 \in 0..setup.sequences - 1
      /\ \A q \in DOMAIN memory \ {0} : memory[q] = <<>>
  BY RestFollows
<1>3. /\ memory' \in [0..setup.sequences - 1 -> Seq(Token)] /\ memory'[0] = Row.ids
      /\ \A q \in DOMAIN memory' \ {0} : memory'[q] = <<>>
  <2>1. Row.ids \in Seq(Token)
    BY <1>2 DEF IsRow
  <2>. QED  BY <1>2, <2>1
<1>4. Typed'
  BY <1>1, <1>2, <1>3 DEF Typed, Phases
<1>5. ControlInv' /\ BatchInv'
  BY <1>1, <1>2 DEF ControlInv, BatchInv, Decoding
<1>6. MemoryInv' /\ DecodeInv'
  BY <1>1, <1>2, <1>3 DEF MemoryInv, DecodeInv, Decoding
<1>7. CheckpointsExact' /\ BatchFits'
  BY DEF CheckpointsExact, BatchFits
<1>. QED  BY <1>1, <1>4, <1>5, <1>6, <1>7

LEMMA DecodeRestStep ==
  ASSUME IInv, DecodeRest
  PROVE  IInv'
<1>1. /\ phase = "rest" /\ phase' = "read" /\ base' = Len(memory[0])
      /\ memory' = [memory EXCEPT ![0] = memory[0] \o SubSeq(Row.ids, offset + 1, Len(Row.ids))]
      /\ width' = Len(Row.ids) - offset
      /\ UNCHANGED servingVars /\ UNCHANGED <<offset, prefixes, batch>>
  BY DEF DecodeRest
<1>2. memory' = [memory EXCEPT ![0] = Row.ids] /\ base' = offset
  BY <1>1, RestFollows
<1>3. width' \in Nat /\ width' <= MaxLength
  BY <1>1, RestFollows, SMTT(60)
<1>. QED  BY <1>1, <1>2, <1>3, RowRead

LEMMA DecodeCanvasStep ==
  ASSUME IInv, DecodeCanvas
  PROVE  IInv'
<1>1. /\ phase = "rest" /\ phase' = "read" /\ base' = 0 /\ setup.diffusion
      /\ memory' = [memory EXCEPT ![0] = memory[0] \o Row.ids]
      /\ width' = Len(Row.ids)
      /\ UNCHANGED servingVars /\ UNCHANGED <<offset, prefixes, batch>>
  BY DEF DecodeCanvas
<1>2. offset = 0 /\ memory[0] = <<>> /\ Row.ids \in Seq(Token)
  BY <1>1, RestFollows DEF IsRow
<1>3. memory' = [memory EXCEPT ![0] = Row.ids] /\ base' = offset
  BY <1>1, <1>2
<1>4. width' \in Nat /\ width' <= MaxLength
  BY <1>1, RestFollows
<1>. QED  BY <1>1, <1>3, <1>4, RowRead

-----------------------------------------------------------------------------
(***************************************************************************)
(* The reads of a row, and the failures of the device.                     *)
(***************************************************************************)
(* A batch has outputs of its rows' own positions only.                    *)
LEMMA BatchInside ==
  ASSUME NEW s, NEW rows, IsRequest(s, rows), NEW r \in DOMAIN rows,
         NEW p \in DOMAIN BatchOf(s, rows, CommonPrefix(s, rows)).ord[r]
  PROVE  p \in 1..Len(rows[r].ids)
<1>. DEFINE n == CommonPrefix(s, rows)
            flagged == Flagged(s, rows, n)
<1>1. n \in Nat
  BY PrefixShared
<1>. HIDE DEF n
<1>2. \A t \in flagged : t.seq \in DOMAIN rows /\ t.pos \in n + 1..Len(rows[t.seq].ids)
  BY <1>1, TailsTyped DEF Flagged
<1>3. BatchOf(s, rows, n).ord
        = [q \in DOMAIN rows |-> [l \in {t.pos : t \in {u \in flagged : u.seq = q}} |->
             Ordinal(s, rows, n, [seq |-> q, pos |-> l])]]
  BY DEF BatchOf
<1>. HIDE DEF flagged
<1>4. p \in {t.pos : t \in {u \in flagged : u.seq = r}}
  BY <1>3 DEF n
<1>5. p \in n + 1..Len(rows[r].ids)
  BY <1>2, <1>4
<1>6. Len(rows[r].ids) \in Nat
  BY DEF IsRequest, IsRow
<1>. QED  BY <1>1, <1>5, <1>6

(* A position that can be read is one of the row.                          *)
LEMMA ReadableInside ==
  ASSUME IInv, phase = "read", NEW p, Readable(p)
  PROVE  p \in 1..Len(Row.ids)
<1>1. row \in DOMAIN Rows /\ at \in DOMAIN call
  BY DEF IInv, ControlInv, Decoding
<1>2. IsRequest(setup, Rows) /\ IsRow(setup, Row)
  BY <1>1, RowNow DEF IInv
<1>3. CASE batch.active
  <2>1. batch = BatchOf(setup, Rows, CommonPrefix(setup, Rows))
    BY <1>1, <1>3, BatchEither, SharedIs DEF IInv
  <2>2. p \in DOMAIN batch.ord[row]
    BY <1>3 DEF Readable
  <2>. QED  BY <1>1, <1>2, <2>1, <2>2, BatchInside DEF Row
<1>4. CASE ~batch.active
  <2>1. p \in offset + 1..Len(Row.ids) /\ offset \in Nat /\ Len(Row.ids) \in Nat
    BY <1>2, <1>4 DEF Readable, IInv, Typed, IsRow
  <2>. QED  BY <2>1
<1>. QED  BY <1>3, <1>4

(* What is read of a row is what its own tokens make it.                   *)
LEMMA OutputOwn ==
  ASSUME IInv, phase = "read", NEW p \in ReadSet(setup, Row), Readable(p)
  PROVE  OutputAt(p) = IF setup.diffusion THEN Row.ids ELSE SubSeq(Row.ids, 1, p)
<1>1. row \in DOMAIN Rows /\ at \in DOMAIN call /\ setup \in Setups
  BY DEF IInv, Typed, ControlInv, Decoding
<1>2. IsRequest(setup, Rows) /\ IsRow(setup, Row)
  BY <1>1, RowNow DEF IInv
<1>3. p \in Nat
  BY <1>2 DEF IsRow, ReadSet, Range
<1>4. CASE batch.active
  <2>1. /\ Batchable /\ Len(Rows) <= setup.sequences
        /\ batch = BatchOf(setup, Rows, CommonPrefix(setup, Rows))
    BY <1>1, <1>4, BatchEither, SharedIs DEF IInv
  <2>2. p \in DOMAIN batch.ord[row]
    BY <1>4 DEF Readable
  <2>3. batch.outputs[batch.ord[row][p] + 1] = SubSeq(Rows[row].ids, 1, p)
    <3>1. \A r \in DOMAIN Rows : \A q \in DOMAIN batch.ord[r] :
            batch.outputs[batch.ord[r][q] + 1] = SubSeq(Rows[r].ids, 1, q)
      BY <1>1, <1>2, <2>1, BatchReads
    <3>. QED  BY <1>1, <2>2, <3>1
  <2>4. ~setup.diffusion
    BY <2>1 DEF Batchable
  <2>. QED  BY <1>4, <2>3, <2>4 DEF OutputAt, Row
<1>5. CASE ~batch.active
  <2>1. batch = NoBatch
    BY <1>5, BatchEither DEF IInv
  <2>2. memory[0] = Row.ids /\ base = offset /\ offset \in Nat
    BY <2>1 DEF IInv, DecodeInv, Typed
  <2>3. base + p - offset = p
    BY <1>3, <2>2
  <2>. QED  BY <1>5, <2>2, <2>3 DEF OutputAt
<1>. QED  BY <1>4, <1>5

LEMMA ScoreRowStep ==
  ASSUME IInv, ScoreRow
  PROVE  IInv'
<1>. USE DEF IInv
<1>1. phase = "read" /\ UNCHANGED <<offset, base, prefixes, width>>
  BY DEF ScoreRow
<1>2. CASE \A p \in ReadSet(setup, Row) : Readable(p)
  <2>. DEFINE own == [k \in DOMAIN ReadsOf(setup, Row) |-> OutputAt(ReadsOf(setup, Row)[k])]
  <2>1. /\ readings' = Append(readings, own)
        /\ row' = row + 1 /\ phase' = "row"
        /\ UNCHANGED <<setup, call, at, output, error, memory, batch>>
    BY <1>2 DEF ScoreRow
  <2>2. own = OwnReading(setup, Row)
    <3>1. \A k \in DOMAIN ReadsOf(setup, Row) :
            OutputAt(ReadsOf(setup, Row)[k])
              = IF setup.diffusion THEN Row.ids ELSE SubSeq(Row.ids, 1, ReadsOf(setup, Row)[k])
      BY <1>1, <1>2, OutputOwn DEF ReadSet, Range
    <3>2. \A p \in ReadSet(setup, Row) : p \in DOMAIN Row.ids
      BY <1>1, <1>2, ReadableInside
    <3>3. \A k \in DOMAIN ReadsOf(setup, Row) : ReadsOf(setup, Row)[k] \in DOMAIN Row.ids
      BY <3>2 DEF ReadSet, Range
    <3>. QED  BY <3>1, <3>3 DEF OwnReading, ReadUpTo
  <2>. HIDE DEF own
  <2>3. row \in DOMAIN Rows /\ at \in DOMAIN call /\ error = "none" /\ call # <<>>
    BY <1>1 DEF ControlInv, Decoding
  <2>4. DOMAIN Rows = 1..Len(Rows) /\ Len(Rows) \in Nat
    BY <2>3, RowNow
  <2>5. /\ Rows' = Rows /\ Shared' = Shared /\ (Batchable' <=> Batchable)
    BY <2>1 DEF Rows, Shared, Batchable
  <2>6. Typed'
    BY <2>1, <1>1, <2>3, <2>4, <2>5 DEF Typed, Phases
  <2>7. ControlInv' /\ BatchInv'
    BY <1>1, <2>1, <2>3, <2>5 DEF ControlInv, BatchInv, Decoding
  <2>8. MemoryInv' /\ DecodeInv'
    BY <1>1, <2>1 DEF MemoryInv, DecodeInv, Decoding
  <2>9. ResultsInv'
    <3>1. PICK n \in Nat : row = n + 1
      BY <2>3, <2>4
    <3>2. row - 1 = n /\ row' - 1 = n + 1
      BY <2>1, <3>1
    <3>3. readings = [i \in 1..n |-> OwnReading(setup, Rows[i])]
      BY <3>2 DEF ResultsInv
    <3>4. readings' = [i \in 1..n + 1 |-> OwnReading(setup, Rows[i])]
      BY <2>1, <2>2, <3>1, <3>3, ReadingAppended DEF Row
    <3>. QED  BY <2>1, <2>5, <3>2, <3>4 DEF ResultsInv
  <2>10. CheckpointsExact' /\ BatchFits'
    BY <1>1 DEF CheckpointsExact, BatchFits
  <2>. QED  BY <2>6, <2>7, <2>8, <2>9, <2>10
<1>3. CASE ~\A p \in ReadSet(setup, Row) : Readable(p)
  <2>1. Throw("internal") /\ EndBatch
    BY <1>3 DEF ScoreRow, Unwind
  <2>. QED  BY <1>1, <2>1, EndBatchLeaves, ThrowStep
<1>. QED  BY <1>2, <1>3

LEMMA OutputUnavailableStep ==
  ASSUME IInv, OutputUnavailable
  PROVE  IInv'
<1>1. /\ phase = "read" /\ Throw("device") /\ EndBatch
      /\ UNCHANGED <<offset, base, prefixes, width>>
  BY DEF OutputUnavailable, Unwind
<1>. QED  BY <1>1, EndBatchLeaves, ThrowStep

LEMMA DeviceFailsStep ==
  ASSUME IInv, DeviceFails
  PROVE  IInv'
<1>. DEFINE before == IF phase = "batch" THEN Cleared ELSE memory
<1>1. /\ phase \in {"batch", "prefix", "rest"} /\ Throw("device")
      /\ UNCHANGED <<offset, base, prefixes, batch, width>>
      /\ \E q \in DOMAIN memory, n \in 0..1 :
           memory' = [before EXCEPT ![q] = before[q] \o SubSeq(Row.ids, 1, n)]
  BY DEF DeviceFails
<1>2. PICK q \in DOMAIN memory, n \in 0..1 :
        memory' = [before EXCEPT ![q] = before[q] \o SubSeq(Row.ids, 1, n)]
  BY <1>1
<1>3. batch = NoBatch /\ row \in DOMAIN Rows /\ at \in DOMAIN call
  BY <1>1, BatchEither DEF IInv, ControlInv, Decoding
<1>4. memory \in [0..setup.sequences - 1 -> Seq(Token)] /\ before \in [0..setup.sequences - 1 -> Seq(Token)]
  <2>1. <<>> \in Seq(Token)
    OBVIOUS
  <2>. QED  BY <2>1 DEF IInv, Typed, Cleared
<1>5. SubSeq(Row.ids, 1, n) \in Seq(Token)
  <2>1. Row.ids \in Seq(Token) /\ Len(Row.ids) \in Nat \ {0}
    BY <1>3, RowNow DEF IInv, IsRow
  <2>. QED  BY <2>1
<1>. HIDE DEF before
<1>6. memory' \in [0..setup.sequences - 1 -> Seq(Token)]
  <2>1. before[q] \o SubSeq(Row.ids, 1, n) \in Seq(Token)
    BY <1>4, <1>5
  <2>. QED  BY <1>2, <1>4, <2>1
<1>. QED  BY <1>1, <1>3, <1>6, ThrowStep

-----------------------------------------------------------------------------
(* Every step keeps the invariant, one action after another.               *)
LEMMA NextInv == IInv /\ [Next]_vars => IInv'
<1>. SUFFICES ASSUME IInv, [Next]_vars PROVE IInv'
  OBVIOUS
<1>1. CASE Serving
  BY <1>1, ReturnStep, PlanRequestStep, EndRequestStep, TooManyRowsStep, BeginBatchStep,
     SelectRowStep, RejectRowStep, BeginRowStep, RestoreStep, RestoreFailsStep,
     RestoreMissesStep, DecodePrefixStep, DecodeRestStep, DecodeCanvasStep,
     ScoreRowStep, OutputUnavailableStep, DeviceFailsStep DEF Serving
<1>2. CASE \E c \in CallsOf(setup) : Predict(c)
  BY <1>2, PredictStep
<1>3. CASE UNCHANGED vars
  <2>1. /\ UNCHANGED <<setup, call, at, phase, row, readings, output, error>>
        /\ UNCHANGED <<memory, offset, base, prefixes, batch, width>>
    BY <1>3 DEF vars
  <2>2. /\ Rows' = Rows /\ Row' = Row /\ Shared' = Shared
        /\ (Batchable' <=> Batchable)
        /\ PrefixIds' = PrefixIds /\ (Kept' <=> Kept)
    BY <2>1, SameRow
  <2>3. Typed' /\ ControlInv'
    BY <2>1, <2>2 DEF IInv, Typed, ControlInv
  <2>4. BatchInv'
    BY <2>1, <2>2 DEF IInv, BatchInv
  <2>5. MemoryInv' /\ DecodeInv'
    BY <2>1, <2>2 DEF IInv, MemoryInv, DecodeInv
  <2>6. ResultsInv'
    BY <2>1, <2>2 DEF IInv, ResultsInv
  <2>7. CheckpointsExact' /\ BatchFits'
    BY <2>1 DEF IInv, CheckpointsExact, BatchFits
  <2>. QED  BY <2>3, <2>4, <2>5, <2>6, <2>7 DEF IInv
<1>. QED  BY <1>1, <1>2, <1>3 DEF Next

(* IInv holds in every state that can be reached.                          *)
THEOREM Invariance == Spec => []IInv
<1>. QED  BY InitInv, NextInv, PTL DEF Spec

(* Positions, rows and sequences stay within their bounds.                 *)
LEMMA TypeFollows == IInv => TypeOK
<1>. SUFFICES ASSUME IInv PROVE TypeOK
  OBVIOUS
<1>1. Len(readings) < row
  <2>1. row - 1 \in Nat /\ row \in Int
    <3>1. at \in DOMAIN call => Len(Rows) \in Nat
      BY RowNow DEF IInv
    <3>2. at \notin DOMAIN call => Len(Rows) \in Nat
      BY DEF Rows
    <3>. QED  BY <3>1, <3>2 DEF IInv, Typed
  <2>2. readings = [i \in 1..row - 1 |-> OwnReading(setup, Rows[i])]
    BY DEF IInv, ResultsInv
  <2>. HIDE DEF OwnReading
  <2>3. Len(readings) = row - 1
    BY <2>1, <2>2
  <2>. QED  BY <2>1, <2>3
<1>2. DOMAIN memory = DOMAIN Cleared
  BY DEF IInv, Typed, Cleared
<1>3. phase \in {"rest", "read"} /\ ~batch.active => offset \in {0, Row.prefix}
  BY BatchEither DEF IInv, DecodeInv
<1>4. batch.active => DOMAIN batch.ord = DOMAIN Rows
  BY BatchEither DEF IInv, BatchOf
<1>. QED  BY <1>1, <1>2, <1>3, <1>4 DEF TypeOK, IInv, Typed, Phases

(* The types, and where the rows being read are, hold throughout.          *)
THEOREM TypeCorrect == Spec => []TypeOK
<1>. QED  BY Invariance, TypeFollows, PTL

(* Either way a row scores the same: what is read of it is a function of   *)
(* its own tokens, whatever runner::decode() and begin_batch() did for it. *)
LEMMA ReadingsFollow == IInv => ReadsOwn
BY DEF IInv, ResultsInv, ReadsOwn

(* Every reading of every row is a function of that row alone.             *)
THEOREM ReadsAreOwn == Spec => []ReadsOwn
<1>. QED  BY Invariance, ReadingsFollow, PTL

(* The checkpoints of the runner stay exact, through every way to fail.    *)
THEOREM CheckpointsStayExact == Spec => []CheckpointsExact
<1>1. IInv => CheckpointsExact
  BY DEF IInv
<1>. QED  BY <1>1, Invariance, PTL

(* Every llama_process() of the runner fits the context.                   *)
THEOREM BatchesFit == Spec => []BatchFits
<1>1. IInv => BatchFits
  BY DEF IInv
<1>. QED  BY <1>1, Invariance, PTL

(* No batch outlives its request, nor do the sequences made for it.        *)
LEMMA ClosedFollows == IInv => BatchClosed
<1>. SUFFICES ASSUME IInv, phase \in {"idle", "request"} PROVE
       /\ batch = NoBatch
       /\ at > 1 /\ error = "none" => \A s \in DOMAIN memory \ {0} : memory[s] = <<>>
  BY DEF BatchClosed
<1>1. batch = NoBatch
  BY BatchEither DEF IInv
<1>. QED  BY <1>1 DEF IInv, MemoryInv

(* begin_batch() is ended on every way out of a request.                   *)
THEOREM BatchesClosed == Spec => []BatchClosed
<1>. QED  BY Invariance, ClosedFollows, PTL

-----------------------------------------------------------------------------
(***************************************************************************)
(* predict() keeps the contract of Predictor, its liveness aside.          *)
(***************************************************************************)
(* A row that is read within itself, behind its prefix, has all its reads. *)
LEMMA ReadsThere ==
  ASSUME IInv, phase = "read", ReadWithin(setup, Row)
  PROVE  \A p \in ReadSet(setup, Row) : Readable(p)
<1>. SUFFICES ASSUME NEW p \in ReadSet(setup, Row) PROVE Readable(p)
  OBVIOUS
<1>1. row \in DOMAIN Rows /\ at \in DOMAIN call /\ setup \in Setups
  BY DEF IInv, Typed, ControlInv, Decoding
<1>2. IsRequest(setup, Rows) /\ IsRow(setup, Row) /\ Len(Row.ids) \in Nat /\ Row.prefix \in Nat
  BY <1>1, RowNow DEF IInv, IsRow
<1>4. p \in Row.prefix + 1..Len(Row.ids)
  BY DEF ReadWithin
<1>5. CASE batch.active
  <2>. DEFINE flagged == Flagged(setup, Rows, Shared)
              t == [seq |-> row, pos |-> p]
  <2>1. batch = BatchOf(setup, Rows, Shared)
    BY <1>5, BatchEither DEF IInv
  <2>2. Shared \in Nat /\ Shared < p
    BY <1>1, <1>2, PrefixShared, SharedIs DEF IInv, Row
  <2>3. p \in Shared + 1..Len(Rows[row].ids)
    BY <1>2, <1>4, <2>2 DEF Row
  <2>4. t \in flagged
    <3>1. t \in Tails(Rows, Shared)
      BY <1>1, <2>3 DEF Tails
    <3>. QED  BY <3>1 DEF Flagged, Row
  <2>5. batch.ord[row] = [q \in {u.pos : u \in {v \in flagged : v.seq = row}} |->
                            Ordinal(setup, Rows, Shared, [seq |-> row, pos |-> q])]
    BY <1>1, <2>1 DEF BatchOf
  <2>6. p \in {u.pos : u \in {v \in flagged : v.seq = row}}
    <3>. HIDE DEF flagged
    <3>. QED  BY <2>4
  <2>. HIDE DEF flagged
  <2>7. p \in DOMAIN batch.ord[row]
    BY <2>5, <2>6
  <2>. QED  BY <1>5, <2>7 DEF Readable
<1>6. CASE ~batch.active
  <2>1. offset \in {0, Row.prefix}
    BY <1>6, BatchEither DEF IInv, DecodeInv
  <2>2. p \in offset + 1..Len(Row.ids)
    BY <1>2, <1>4, <2>1
  <2>3. ~setup.embeddings => p = Row.slot
    BY DEF ReadSet, ReadsOf, Range
  <2>. QED  BY <1>6, <2>2, <2>3 DEF Readable
<1>. QED  BY <1>5, <1>6

(* So an output is missing only of a row that asks for one it has not.     *)
LEMMA MisreadFound ==
  ASSUME IInv, phase = "read", ~\A p \in ReadSet(setup, Row) : Readable(p)
  PROVE  Misread(setup, call)
<1>1. row \in DOMAIN Rows /\ at \in DOMAIN call
  BY DEF IInv, ControlInv, Decoding
<1>2. Rows = call[at]
  BY <1>1, RowNow DEF IInv
<1>3. Row \in Range(call[at])
  BY <1>1, <1>2 DEF Row, Range
<1>4. ~ReadWithin(setup, Row)
  BY ReadsThere
<1>. QED  BY <1>1, <1>3, <1>4 DEF Misread

(* A step that begins or ends a call is a step of the contract, and every  *)
(* other step a stutter.                                                   *)
LEMMA StepPromised ==
  ASSUME IInv, [Next]_vars
  PROVE  [Promise!Next]_(Promise!predictorVars)
<1>. USE DEF Promise!predictorVars
<1>1. CASE UNCHANGED <<setup, call, output, error>> /\ (phase = "idle" <=> phase' = "idle")
  BY <1>1
<1>2. CASE \E c \in CallsOf(setup) : Predict(c)
  <2>1. PICK c \in CallsOf(setup) : Predict(c)
    BY <1>2
  <2>2. phase = "idle" /\ phase' = "request" /\ call' = c /\ setup' = setup /\ setup \in Setups
    BY <2>1 DEF Predict, IInv, Typed
  <2>3. PosedCall(setup, c) \in PosedCalls
    BY <2>2 DEF PosedCalls
  <2>4. Promise!Begin(PosedCall(setup, c))
    BY <2>2 DEF Promise!Begin, Promise!Outcome, IInv, Typed
  <2>5. ~Promise!Pending
    BY <2>2 DEF Promise!Pending, IInv, Typed
  <2>. QED  BY <2>3, <2>4, <2>5 DEF Promise!Next
<1>3. CASE Return
  <2>1. /\ phase = "request" /\ at > Len(call) /\ phase' = "idle" /\ error = "none" /\ call # <<>>
        /\ UNCHANGED <<setup, call, output, error>>
    BY <1>3 DEF Return, servingVars, IInv, ControlInv
  <2>2. call \in CallsOf(setup) /\ setup \in Setups
    BY <2>1 DEF IInv, Typed
  <2>3. Len(call) \in Nat /\ DOMAIN call = 1..Len(call) /\ at = Len(call) + 1
    BY <2>1, <2>2, RequestTyped DEF IInv, Typed
  <2>4. output = [i \in DOMAIN PosedCall(setup, call) |-> Results(PosedCall(setup, call)[i])]
    <3>1. output = [i \in DOMAIN call |-> Results(Posed(setup, call[i]))]
      BY <2>3 DEF IInv, ResultsInv
    <3>. QED  BY <3>1 DEF PosedCall
  <2>5. Promise!Return
    BY <2>1, <2>4 DEF Promise!Return, Promise!Pending, Promise!Outcome
  <2>. QED  BY <2>5 DEF Promise!Next
<1>4. ASSUME phase # "idle", Throw("device") PROVE Promise!Fail
  BY <1>4 DEF Throw, Promise!Fail, Promise!Pending, Promise!Ended, Promise!Outcome
<1>5. ASSUME phase \notin {"idle", "request"}, Throw("input"),
             Refusable(Posed(setup, Rows))
      PROVE  Promise!Refuse
  <2>1. at \in DOMAIN call /\ Rows = call[at]
    BY <1>5, RowNow DEF IInv, ControlInv
  <2>2. at \in DOMAIN PosedCall(setup, call) /\ Refusable(PosedCall(setup, call)[at])
    BY <1>5, <2>1 DEF PosedCall
  <2>3. \E i \in DOMAIN PosedCall(setup, call) : Refusable(PosedCall(setup, call)[i])
    BY <2>2
  <2>. QED  BY <1>5, <2>3 DEF Throw, Promise!Refuse, Promise!Pending, Promise!Ended, Promise!Outcome
<1>6. CASE TooManyRows
  <2>1. phase = "batch" /\ Throw("input") /\ Len(Rows) > setup.sequences /\ Batchable
    BY <1>6 DEF TooManyRows, IInv, ControlInv
  <2>2. Refusable(Posed(setup, Rows))
    BY <2>1 DEF Refusable, Posed, Batchable
  <2>. QED  BY <1>5, <2>1, <2>2 DEF Promise!Next
<1>7. CASE RejectRow
  <2>1. phase = "row" /\ Throw("input") /\ row <= Len(Rows) /\ Len(Row.ids) > MaxLength
    BY <1>7 DEF RejectRow
  <2>2. row \in DOMAIN Rows
    BY <2>1, RowNow DEF IInv, Typed, ControlInv
  <2>3. Refusable(Posed(setup, Rows))
    BY <2>1, <2>2 DEF Refusable, Posed, Row
  <2>. QED  BY <1>5, <2>1, <2>3 DEF Promise!Next
<1>8. CASE OutputUnavailable \/ DeviceFails
  BY <1>4, <1>8 DEF OutputUnavailable, DeviceFails, Promise!Next
<1>9. CASE ScoreRow
  <2>1. CASE \A p \in ReadSet(setup, Row) : Readable(p)
    BY <1>1, <1>9, <2>1 DEF ScoreRow
  <2>2. CASE ~\A p \in ReadSet(setup, Row) : Readable(p)
    <3>1. phase = "read" /\ Throw("internal")
      BY <1>9, <2>2 DEF ScoreRow
    <3>2. Misread(setup, call)
      BY <2>2, <3>1, MisreadFound
    <3>3. Promise!Fail
      BY <3>1, <3>2 DEF Throw, Promise!Fail, Promise!Pending, Promise!Ended, Promise!Outcome
    <3>. QED  BY <3>3 DEF Promise!Next
  <2>. QED  BY <2>1, <2>2
<1>10. CASE PlanRequest \/ BeginBatch \/ SelectRow \/ BeginRow
  BY <1>1, <1>10 DEF PlanRequest, BeginBatch, SelectRow, BeginRow, servingVars
<1>11. CASE Restore \/ RestoreFails \/ RestoreMisses \/ DecodePrefix
  BY <1>1, <1>11 DEF Restore, RestoreFails, RestoreMisses, DecodePrefix, servingVars
<1>12. CASE DecodeRest \/ DecodeCanvas
  BY <1>1, <1>12 DEF DecodeRest, DecodeCanvas, servingVars
<1>13. CASE EndRequest
  <2>1. phase = "row" /\ phase' = "request" /\ UNCHANGED <<setup, call, error>>
    BY <1>13 DEF EndRequest
  <2>. QED  BY <2>1
<1>14. CASE UNCHANGED vars
  BY <1>1, <1>14 DEF vars
<1>. QED  BY <1>2, <1>3, <1>6, <1>7, <1>8, <1>9, <1>10, <1>11, <1>12, <1>13, <1>14 DEF Next, Serving

(* The results of every request of a call, in their order, or an exception *)
(* and none; an input error only if a row or the rows are too many tokens  *)
(* or sequences; and no internal error, unless a row is not read within    *)
(* itself.                                                                 *)
THEOREM ImplementsPromise == Spec => SafeContract
<1>1. Init => Promise!Init
  BY DEF Init, Promise!Init, PosedCall, Promise!Outcome
<1>2. IInv /\ [Next]_vars => [Promise!Next]_(Promise!predictorVars)
  BY StepPromised
<1>. QED  BY <1>1, <1>2, Invariance, PTL DEF Spec, SafeContract, Promise!SafePredictor

-----------------------------------------------------------------------------
(***************************************************************************)
(* Prompts, put together from pieces.                                      *)
(***************************************************************************)
\* A piece of a prompt: no token of it occurs twice, all are of some kinds and some questions.
Piece(s, kinds, about) ==
  /\ IsSeq(s) /\ IsInjective(s)
  /\ \A token \in Range(s) : token[1] \in kinds /\ token[2] \in about

Apart(A, B) == \A x \in A : x \notin B

(* Two pieces of other kinds, or about other questions, make a piece.      *)
LEMMA PiecesJoined ==
  ASSUME NEW s, NEW A, NEW K, Piece(s, A, K), NEW t, NEW B, NEW L, Piece(t, B, L),
         Apart(A, B) \/ Apart(K, L)
  PROVE  Piece(s \o t, A \cup B, K \cup L) /\ Range(s \o t) = Range(s) \cup Range(t)
<1>. DEFINE m == Len(s)
            n == Len(t)
            both == s \o t
<1>1. /\ IsSeq(s) /\ IsSeq(t) /\ IsInjective(s) /\ IsInjective(t)
      /\ m \in Nat /\ n \in Nat /\ DOMAIN s = 1..m /\ DOMAIN t = 1..n
  BY SeqFacts DEF Piece
<1>2. /\ IsSeq(both) /\ Len(both) = m + n
      /\ \A i \in 1..m : both[i] = s[i]
      /\ \A i \in 1..n : both[m + i] = t[i]
  BY <1>1, Joined
<1>. HIDE DEF both
<1>3. DOMAIN both = 1..m + n
  BY <1>2, SeqFacts
<1>. HIDE DEF m, n
<1>4. ASSUME NEW i \in 1..m + n
      PROVE  (i \in 1..m /\ both[i] = s[i]) \/ (i - m \in 1..n /\ both[i] = t[i - m])
  <2>1. CASE i <= m
    BY <1>1, <1>2, <2>1
  <2>2. CASE ~(i <= m)
    <3>1. i - m \in 1..n /\ m + (i - m) = i
      BY <1>1, <2>2
    <3>. QED  BY <1>2, <3>1
  <2>. QED  BY <2>1, <2>2
<1>5. Range(both) = Range(s) \cup Range(t)
  <2>1. ASSUME NEW x \in Range(both) PROVE x \in Range(s) \cup Range(t)
    BY <1>1, <1>3, <1>4 DEF Range
  <2>2. ASSUME NEW x \in Range(s) PROVE x \in Range(both)
    <3>1. PICK i \in 1..m : s[i] = x
      BY <1>1 DEF Range
    <3>2. i \in DOMAIN both
      BY <1>1, <1>3
    <3>. QED  BY <1>2, <3>1, <3>2 DEF Range
  <2>3. ASSUME NEW x \in Range(t) PROVE x \in Range(both)
    <3>1. PICK i \in 1..n : t[i] = x
      BY <1>1 DEF Range
    <3>2. m + i \in DOMAIN both
      BY <1>1, <1>3
    <3>. QED  BY <1>2, <3>1, <3>2 DEF Range
  <2>. QED  BY <2>1, <2>2, <2>3
<1>6. ASSUME NEW i \in 1..m, NEW j \in 1..n PROVE s[i] # t[j]
  <2>1. s[i] \in Range(s) /\ t[j] \in Range(t)
    BY <1>1 DEF Range
  <2>2. s[i][1] \in A /\ s[i][2] \in K /\ t[j][1] \in B /\ t[j][2] \in L
    BY <2>1 DEF Piece
  <2>. QED  BY <2>2 DEF Apart
<1>7. ASSUME NEW i \in 1..m + n, NEW j \in 1..m + n, both[i] = both[j] PROVE i = j
  <2>1. CASE i \in 1..m /\ both[i] = s[i] /\ j \in 1..m /\ both[j] = s[j]
    BY <1>1, <1>7, <2>1 DEF IsInjective
  <2>2. CASE i - m \in 1..n /\ both[i] = t[i - m] /\ j - m \in 1..n /\ both[j] = t[j - m]
    <3>1. i - m = j - m
      BY <1>1, <1>7, <2>2 DEF IsInjective
    <3>. QED  BY <1>1, <3>1
  <2>. QED  BY <1>4, <1>6, <1>7, <2>1, <2>2
<1>8. IsInjective(both)
  BY <1>3, <1>7 DEF IsInjective
<1>9. \A token \in Range(both) : token[1] \in A \cup B /\ token[2] \in K \cup L
  BY <1>5 DEF Piece
<1>. QED  BY <1>2, <1>5, <1>8, <1>9 DEF Piece, both

(* The words of a part are a piece, each with a number of its own.         *)
LEMMA WordsPiece ==
  ASSUME NEW kind, NEW k, NEW j, NEW n \in Nat
  PROVE  /\ Piece(Words(kind, k, j, n), {kind}, {k}) /\ Len(Words(kind, k, j, n)) = n
         /\ \A i \in 1..n : Words(kind, k, j, n)[i] = <<kind, k, j, i>>
         /\ \A token \in Range(Words(kind, k, j, n)) : token[3] = j
<1>. DEFINE s == Words(kind, k, j, n)
<1>1. s = [i \in 1..n |-> s[i]] /\ \A i \in 1..n : s[i] = <<kind, k, j, i>>
  BY DEF Words
<1>2. ASSUME NEW i \in 1..n
      PROVE  s[i][1] = kind /\ s[i][2] = k /\ s[i][3] = j /\ s[i][4] = i
  BY DEF Words
<1>. HIDE DEF s
<1>3. IsSeq(s) /\ Len(s) = n /\ DOMAIN s = 1..n
  BY <1>1, Listing
<1>4. IsInjective(s)
  BY <1>2, <1>3 DEF IsInjective
<1>5. \A token \in Range(s) : token[1] = kind /\ token[2] = k /\ token[3] = j
  BY <1>2, <1>3 DEF Range
<1>. QED  BY <1>1, <1>3, <1>4, <1>5 DEF Piece, s

(* So is a marker.                                                         *)
LEMMA MarkPiece ==
  ASSUME NEW kind, NEW k, NEW j
  PROVE  /\ Piece(<<Mark(kind, k, j)>>, {kind}, {k})
         /\ Len(<<Mark(kind, k, j)>>) = 1 /\ <<Mark(kind, k, j)>>[1] = Mark(kind, k, j)
         /\ Range(<<Mark(kind, k, j)>>) = {Mark(kind, k, j)}
         /\ Mark(kind, k, j)[3] = j
<1>. DEFINE x == Mark(kind, k, j)
<1>1. x[1] = kind /\ x[2] = k /\ x[3] = j
  BY DEF Mark
<1>. HIDE DEF x
<1>2. <<x>> \in Seq({x}) /\ Len(<<x>>) = 1 /\ <<x>>[1] = x /\ DOMAIN <<x>> = 1..1
  OBVIOUS
<1>3. IsSeq(<<x>>)
  BY <1>2, KnownSeq
<1>4. IsInjective(<<x>>) /\ Range(<<x>>) = {x}
  BY <1>2 DEF IsInjective, Range
<1>. QED  BY <1>1, <1>2, <1>3, <1>4 DEF Piece, x

(* A cut piece is one, of as many of its first tokens as the limit allows. *)
LEMMA CutPiece ==
  ASSUME NEW s, NEW A, NEW K, Piece(s, A, K), NEW limit \in Nat
  PROVE  /\ Piece(Cut(s, limit), A, K)
         /\ Len(Cut(s, limit)) = IF Len(s) <= limit THEN Len(s) ELSE limit
         /\ \A i \in 1..Len(Cut(s, limit)) : i \in 1..Len(s) /\ Cut(s, limit)[i] = s[i]
<1>. DEFINE n == Len(s)
            m == Min({n, limit})
            c == Cut(s, limit)
<1>1. n \in Nat /\ DOMAIN s = 1..n /\ IsInjective(s)
  BY SeqFacts DEF Piece
<1>. HIDE DEF n
<1>2. m = (IF n <= limit THEN n ELSE limit) /\ m \in 0..n
  <2>1. {n, limit} \in SUBSET Nat /\ {n, limit} # {}
    BY <1>1
  <2>2. m \in {n, limit} /\ \A x \in {n, limit} : m <= x
    BY <2>1, MinIn
  <2>. QED  BY <1>1, <2>2
<1>. HIDE DEF m
<1>3. c = [i \in 1..m |-> s[i]]
  BY <1>2 DEF Cut, SubSeq, m, n
<1>4. \A i \in 1..m : i \in 1..n /\ c[i] = s[i]
  BY <1>1, <1>2, <1>3
<1>5. c = [i \in 1..m |-> c[i]]
  BY <1>3
<1>. HIDE DEF c
<1>6. IsSeq(c) /\ Len(c) = m /\ DOMAIN c = 1..m
  BY <1>2, <1>5, Listing
<1>7. IsInjective(c)
  BY <1>1, <1>4, <1>6 DEF IsInjective
<1>8. Range(c) \subseteq Range(s)
  BY <1>1, <1>4, <1>6 DEF Range
<1>. QED  BY <1>2, <1>4, <1>6, <1>7, <1>8 DEF Piece, c, n

\* Sequences by number, and what they hold.
Listed(seqs, n) == seqs = [j \in 1..n |-> seqs[j]] /\ \A j \in 1..n : IsSeq(seqs[j])

Held(seqs, n) == UNION {Range(seqs[j]) : j \in 1..n}

(* Sequences by number are a function into sequences.                      *)
LEMMA ListedTyped ==
  ASSUME NEW n, NEW seqs, Listed(seqs, n)
  PROVE  seqs \in [1..n -> Seq(Held(seqs, n))]
<1>1. ASSUME NEW j \in 1..n PROVE seqs[j] \in Seq(Held(seqs, n))
  <2>1. seqs[j] \in Seq(Range(seqs[j])) /\ Range(seqs[j]) \subseteq Held(seqs, n)
    BY DEF Listed, IsSeq, Held
  <2>. QED  BY <2>1, SeqMonotonic
<1>. QED  BY <1>1 DEF Listed

\* Pieces of the same kinds and questions, told apart by the number each of their tokens has.
Pieces(seqs, n, kinds, about) == \A j \in 1..n : Piece(seqs[j], kinds, about)

Numbered(seqs, n, field) == \A j \in 1..n : \A token \in Range(seqs[j]) : token[field] = j

(* Put one behind another, they make a piece that holds each of them.      *)
LEMMA PiecesFlattened ==
  ASSUME NEW n \in Nat, NEW seqs, Listed(seqs, n), NEW A, NEW K, Pieces(seqs, n, A, K),
         NEW field, Numbered(seqs, n, field)
  PROVE  /\ Piece(FlattenSeq(seqs), A, K)
         /\ \A j \in 1..n : Range(seqs[j]) \subseteq Range(FlattenSeq(seqs))
<1>. DEFINE S == Held(seqs, n)
            flat == FlattenSeq(seqs)
<1>1. seqs \in [1..n -> Seq(S)]
  BY ListedTyped
<1>. HIDE DEF S
<1>2. /\ \A j \in 1..n : IsInjective(seqs[j]) /\ DOMAIN seqs[j] = 1..Len(seqs[j])
      /\ flat \in Seq(S)
  BY <1>1, FlattenLays, SeqFacts DEF Pieces, Piece
<1>3. ASSUME NEW j \in 1..n, NEW i \in 1..Len(seqs[j])
      PROVE  seqs[j][i] \in Range(seqs[j]) /\ seqs[j][i][field] = j
  BY <1>2 DEF Range, Numbered
<1>4. AllDistinct(seqs, n)
  <2>1. ASSUME NEW i \in 1..n, NEW l \in 1..n, NEW j \in 1..Len(seqs[i]), NEW k \in 1..Len(seqs[l]),
               seqs[i][j] = seqs[l][k]
        PROVE  i = l
    BY <1>3, <2>1, SMTT(60)
  <2>. QED  BY <1>2, <2>1 DEF AllDistinct
<1>5. IsInjective(flat)
  BY <1>1, <1>4, FlattenDistinct
<1>6. \A token \in Range(flat) : token[1] \in A /\ token[2] \in K
  <2>1. AsLong(seqs, seqs, n)
    BY DEF AsLong
  <2>2. InStep(flat, flat, seqs, seqs, n)
    BY <1>1, <2>1, FlattenAligned
  <2>3. ASSUME NEW token \in Range(flat)
        PROVE  \E i \in 1..n : token \in Range(seqs[i])
    <3>1. PICK j \in DOMAIN flat : token = flat[j]
      BY DEF Range
    <3>2. PICK i \in 1..n : \E k \in 1..Len(seqs[i]) : flat[j] = seqs[i][k]
      BY <2>2 DEF InStep
    <3>. QED  BY <1>3, <3>1, <3>2
  <2>. QED  BY <2>3 DEF Pieces, Piece
<1>7. IsSeq(flat)
  BY <1>2, KnownSeq
<1>8. ASSUME NEW j \in 1..n PROVE Range(seqs[j]) \subseteq Range(flat)
  <2>. SUFFICES ASSUME NEW token \in Range(seqs[j]) PROVE token \in Range(flat)
    OBVIOUS
  <2>1. PICK k \in 1..Len(seqs[j]) : token = seqs[j][k]
    BY <1>2 DEF Range
  <2>2. Occurs(flat, seqs[j][k])
    BY <1>1, FlattenHolds
  <2>. QED  BY <2>1, <2>2 DEF Occurs, Range
<1>. QED  BY <1>5, <1>6, <1>7, <1>8 DEF Piece

(* The first of the sequences are where all begin, up to the end of the    *)
(* last of them.                                                           *)
LEMMA FlattenBegins ==
  ASSUME NEW n \in Nat, NEW seqs, Listed(seqs, n), NEW m \in 1..n,
         NEW part, part = [i \in 1..m |-> seqs[i]], Len(seqs[m]) # 0
  PROVE  /\ Len(FlattenSeq(part)) \in 1..Len(FlattenSeq(seqs))
         /\ IsSeq(FlattenSeq(part)) /\ IsSeq(FlattenSeq(seqs))
         /\ FlattenSeq(seqs)[Len(FlattenSeq(part))] = seqs[m][Len(seqs[m])]
         /\ \A i \in 1..Len(FlattenSeq(part)) : FlattenSeq(part)[i] = FlattenSeq(seqs)[i]
<1>. DEFINE S == Held(seqs, n)
            flat == FlattenSeq(seqs)
            begin == FlattenSeq(part)
            v == Lengths(part)
            w == Lengths(seqs)
<1>1. seqs \in [1..n -> Seq(S)] /\ part \in [1..m -> Seq(S)] /\ m \in Nat
  <2>1. seqs \in [1..n -> Seq(S)]
    BY ListedTyped
  <2>2. \A i \in 1..m : i \in 1..n
    OBVIOUS
  <2>. HIDE DEF S
  <2>. QED  BY <2>1, <2>2
<1>. HIDE DEF S
<1>2. /\ flat \in Seq(S) /\ Laid(flat, seqs, n)
      /\ begin \in Seq(S) /\ Laid(begin, part, m)
  BY <1>1, FlattenLays
<1>. HIDE DEF flat, begin
<1>3. /\ \A i \in 1..n : w[i] = Len(seqs[i]) /\ w[i] \in Nat
      /\ \A i \in 1..m : v[i] = w[i] /\ i \in 1..n /\ part[i] = seqs[i]
  BY <1>1 DEF Lengths
<1>. HIDE DEF v, w
<1>4. \A i \in 0..m : Total(v, 1..i) = Total(w, 1..i)
  <2>. SUFFICES ASSUME NEW i \in 0..m PROVE Total(v, 1..i) = Total(w, 1..i)
    OBVIOUS
  <2>1. \A l \in 1..i : v[l] = w[l]
    BY <1>3
  <2>. QED  BY <2>1, TotalSame
<1>5. /\ Len(begin) = Total(w, 1..m) /\ Len(begin) \in Nat /\ Len(flat) \in Nat
      /\ DOMAIN begin = 1..Len(begin)
  <2>1. Len(begin) = Total(v, 1..m) /\ m \in 0..m
    BY <1>1, <1>2 DEF Laid, v
  <2>. QED  BY <1>2, <1>4, <2>1
<1>6. /\ Total(w, 1..m - 1) \in Nat /\ Total(w, 1..m) = Total(w, 1..m - 1) + w[m]
      /\ Total(w, 1..m - 1) + Len(seqs[m]) <= Len(flat)
      /\ flat[Total(w, 1..m - 1) + Len(seqs[m])] = seqs[m][Len(seqs[m])]
  <2>1. PICK l \in Nat : l = m - 1 /\ l + 1 = m
    <3>1. m - 1 \in Nat /\ m - 1 + 1 = m
      OBVIOUS
    <3>. QED  BY <3>1
  <2>2. \A i \in 1..l + 1 : w[i] \in Nat
    BY <1>3, <2>1
  <2>3. Total(w, 1..l) \in Nat /\ Total(w, 1..l + 1) = Total(w, 1..l) + w[l + 1]
    BY <2>2, TotalNext
  <2>4. Len(seqs[m]) \in 1..Len(seqs[m])
    BY <1>3
  <2>. QED  BY <1>2, <2>1, <2>3, <2>4 DEF Laid, w
<1>7. /\ Len(begin) \in 1..Len(flat) /\ flat[Len(begin)] = seqs[m][Len(seqs[m])]
  <2>1. w[m] = Len(seqs[m]) /\ w[m] \in Nat /\ w[m] # 0
    BY <1>3
  <2>2. PICK a \in Nat : a = Total(w, 1..m - 1)
    BY <1>6
  <2>. QED  BY <1>5, <1>6, <2>1, <2>2
<1>8. ASSUME NEW i \in 1..Len(begin) PROVE begin[i] = flat[i]
  <2>1. \A l \in 1..m : v[l] \in Nat
    BY <1>3
  <2>2. i \in 1..Total(v, 1..m)
    BY <1>2 DEF Laid, v
  <2>3. PICK l \in 1..m : \E k \in 1..v[l] :
          Total(v, 1..l - 1) \in Nat /\ i = Total(v, 1..l - 1) + k
    BY <2>1, <2>2, TotalLocates, SMTT(60)
  <2>4. PICK k \in 1..v[l] : i = Total(v, 1..l - 1) + k
    BY <2>3
  <2>5. Total(v, 1..l - 1) = Total(w, 1..l - 1)
    <3>1. l - 1 \in 0..m
      OBVIOUS
    <3>. QED  BY <1>4, <3>1
  <2>6. k \in 1..Len(part[l]) /\ k \in 1..Len(seqs[l])
    BY <1>3
  <2>7. begin[Total(v, 1..l - 1) + k] = part[l][k]
    BY <1>2, <2>6 DEF Laid, v
  <2>8. flat[Total(w, 1..l - 1) + k] = seqs[l][k]
    BY <1>2, <1>3, <2>6 DEF Laid, w
  <2>. QED  BY <1>3, <2>4, <2>5, <2>7, <2>8
<1>. QED  BY <1>2, <1>7, <1>8, KnownSeq DEF flat, begin

-----------------------------------------------------------------------------
(* The parts of a question                                                 *)

LEMMA RequestFacts ==
  ASSUME NEW request \in Requests
  PROVE  /\ request.state \in Nat
         /\ Len(request.questions) \in Nat /\ DOMAIN request.questions = 1..Len(request.questions)
         /\ \A k \in DOMAIN request.questions :
              /\ request.questions[k].text \in Nat
              /\ Len(request.questions[k].options) \in Nat
              /\ Options(request, k) = 1..Len(request.questions[k].options)
              /\ \A j \in Options(request, k) : request.questions[k].options[j] \in Nat
<1>1. /\ request.state \in Nat /\ request.questions \in Seq(Range(request.questions))
      /\ \A q \in Range(request.questions) : q.text \in Nat /\ q.options \in Seq(Nat)
  BY RequestsAssumption
<1>2. Len(request.questions) \in Nat /\ DOMAIN request.questions = 1..Len(request.questions)
  BY <1>1
<1>3. ASSUME NEW k \in DOMAIN request.questions
      PROVE  /\ request.questions[k].text \in Nat
             /\ Len(request.questions[k].options) \in Nat
             /\ Options(request, k) = 1..Len(request.questions[k].options)
             /\ \A j \in Options(request, k) : request.questions[k].options[j] \in Nat
  <2>1. request.questions[k].text \in Nat /\ request.questions[k].options \in Seq(Nat)
    BY <1>1 DEF Range
  <2>. QED  BY <2>1 DEF Options
<1>. QED  BY <1>1, <1>2, <1>3

(* The instructions of a question, its options, and all of them.           *)
LEMMA QuestionPieces ==
  ASSUME NEW request \in Requests, NEW k \in DOMAIN request.questions
  PROVE  /\ Piece(Instructions(request, k), {"text"}, {k})
         /\ \A j \in Options(request, k) :
              /\ Piece(OptionText(request, k, j), {"option"}, {k})
              /\ \A token \in Range(OptionText(request, k, j)) : token[3] = j
              /\ Range(OptionText(request, k, j)) \subseteq Range(OptionBlock(request, k))
         /\ Piece(OptionBlock(request, k), {"option"}, {k})
<1>. DEFINE n == Len(request.questions[k].options)
            texts == [j \in 1..n |-> OptionText(request, k, j)]
<1>1. /\ request.questions[k].text \in Nat
      /\ n \in Nat /\ Options(request, k) = 1..n
      /\ \A j \in 1..n : request.questions[k].options[j] \in Nat
  BY RequestFacts
<1>. HIDE DEF n
<1>2. Piece(Instructions(request, k), {"text"}, {k})
  BY <1>1, WordsPiece DEF Instructions
<1>3. ASSUME NEW j \in 1..n
      PROVE  /\ Piece(OptionText(request, k, j), {"option"}, {k})
             /\ \A token \in Range(OptionText(request, k, j)) : token[3] = j
  BY <1>1, WordsPiece DEF OptionText
<1>4. Listed(texts, n) /\ Pieces(texts, n, {"option"}, {k}) /\ Numbered(texts, n, 3)
  BY <1>3 DEF Listed, Pieces, Numbered, Piece
<1>5. OptionBlock(request, k) = FlattenSeq(texts) /\ \A j \in 1..n : texts[j] = OptionText(request, k, j)
  BY <1>1 DEF OptionBlock
<1>. HIDE DEF texts
<1>6. /\ Piece(FlattenSeq(texts), {"option"}, {k})
      /\ \A j \in 1..n : Range(texts[j]) \subseteq Range(FlattenSeq(texts))
  BY <1>1, <1>4, PiecesFlattened
<1>. QED  BY <1>1, <1>2, <1>3, <1>5, <1>6

BoxKinds == {"box_start", "option", "box_end"}

(* A box holds its option and ends with its mark.                          *)
LEMMA BoxPiece ==
  ASSUME NEW request \in Requests, NEW k \in DOMAIN request.questions, NEW j \in Options(request, k)
  PROVE  /\ Piece(Box(request, k, j), BoxKinds, {k})
         /\ \A token \in Range(Box(request, k, j)) : token[3] = j
         /\ Range(OptionText(request, k, j)) \subseteq Range(Box(request, k, j))
         /\ Len(Box(request, k, j)) # 0
         /\ Box(request, k, j)[Len(Box(request, k, j))] = Mark("box_end", k, j)
<1>. DEFINE start == <<Mark("box_start", k, j)>>
            text == OptionText(request, k, j)
            end == <<Mark("box_end", k, j)>>
<1>1. /\ Piece(start, {"box_start"}, {k}) /\ Range(start) = {Mark("box_start", k, j)}
      /\ Mark("box_start", k, j)[3] = j
  BY MarkPiece
<1>2. /\ Piece(end, {"box_end"}, {k}) /\ Range(end) = {Mark("box_end", k, j)}
      /\ Mark("box_end", k, j)[3] = j /\ Len(end) = 1 /\ end[1] = Mark("box_end", k, j)
  BY MarkPiece
<1>3. Piece(text, {"option"}, {k}) /\ \A token \in Range(text) : token[3] = j
  BY QuestionPieces
<1>. HIDE DEF start, text, end
<1>12. Apart({"box_start"}, {"option"}) /\ Apart({"box_start"} \cup {"option"}, {"box_end"})
  BY DEF Apart
<1>4. /\ Piece(start \o text, {"box_start"} \cup {"option"}, {k} \cup {k})
      /\ Range(start \o text) = Range(start) \cup Range(text)
  BY <1>1, <1>3, <1>12, PiecesJoined
<1>5. /\ Piece(start \o text \o end, {"box_start"} \cup {"option"} \cup {"box_end"}, {k} \cup {k} \cup {k})
      /\ Range(start \o text \o end) = Range(start \o text) \cup Range(end)
  BY <1>2, <1>4, <1>12, PiecesJoined, ZenonT(60)
<1>6. IsSeq(start \o text) /\ IsSeq(end) /\ Len(start \o text) \in Nat
  BY <1>2, <1>4, SeqFacts DEF Piece
<1>7. /\ Len(start \o text \o end) = Len(start \o text) + 1
      /\ (start \o text \o end)[Len(start \o text) + 1] = Mark("box_end", k, j)
  <2>1. /\ Len(start \o text \o end) = Len(start \o text) + Len(end)
        /\ \A i \in 1..Len(end) : (start \o text \o end)[Len(start \o text) + i] = end[i]
    BY <1>6, Joined
  <2>2. 1 \in 1..Len(end)
    BY <1>2
  <2>. QED  BY <1>2, <2>1, <2>2
<1>8. Box(request, k, j) = start \o text \o end
  BY DEF Box, start, text, end
<1>9. {"box_start"} \cup {"option"} \cup {"box_end"} = BoxKinds /\ {k} \cup {k} \cup {k} = {k}
  BY DEF BoxKinds
<1>10. Len(start \o text) + 1 # 0
  BY <1>6
<1>11. \A token \in Range(start \o text \o end) : token[3] = j
  BY <1>1, <1>2, <1>3, <1>4, <1>5
<1>. QED  BY <1>4, <1>5, <1>7, <1>8, <1>9, <1>10, <1>11 DEF text

Boxes(request, k) == FlattenSeq([j \in Options(request, k) |-> Box(request, k, j)])

(* The boxes one behind another, each ended where BoxEnd() says.           *)
LEMMA BoxesPiece ==
  ASSUME NEW request \in Requests, NEW k \in DOMAIN request.questions
  PROVE  /\ Piece(Boxes(request, k), BoxKinds, {k})
         /\ \A j \in Options(request, k) :
              /\ Range(OptionText(request, k, j)) \subseteq Range(Boxes(request, k))
              /\ \E end \in 1..Len(Boxes(request, k)) :
                   /\ Boxes(request, k)[end] = Mark("box_end", k, j)
                   /\ \A before : BoxEnd(request, k, j, before) = before + end
<1>. DEFINE n == Len(request.questions[k].options)
            boxes == [j \in 1..n |-> Box(request, k, j)]
<1>1. n \in Nat /\ Options(request, k) = 1..n
  BY RequestFacts
<1>. HIDE DEF n
<1>2. \A j \in 1..n : boxes[j] = Box(request, k, j)
  OBVIOUS
<1>3. boxes = [j \in 1..n |-> boxes[j]] /\ Boxes(request, k) = FlattenSeq(boxes)
  BY <1>1 DEF Boxes
<1>10. ASSUME NEW j \in 1..n
       PROVE  [i \in 1..j |-> Box(request, k, i)] = [i \in 1..j |-> boxes[i]]
  <2>1. \A i \in 1..j : i \in 1..n
    BY <1>1
  <2>. QED  BY <2>1
<1>. HIDE DEF boxes
<1>4. Listed(boxes, n) /\ Pieces(boxes, n, BoxKinds, {k}) /\ Numbered(boxes, n, 3)
  BY <1>1, <1>2, <1>3, BoxPiece DEF Listed, Pieces, Numbered, Piece
<1>5. /\ Piece(FlattenSeq(boxes), BoxKinds, {k})
      /\ \A j \in 1..n : Range(boxes[j]) \subseteq Range(FlattenSeq(boxes))
  BY <1>1, <1>4, PiecesFlattened
<1>6. ASSUME NEW j \in 1..n
      PROVE  \E end \in 1..Len(Boxes(request, k)) :
               /\ Boxes(request, k)[end] = Mark("box_end", k, j)
               /\ \A before : BoxEnd(request, k, j, before) = before + end
  <2>. DEFINE part == [i \in 1..j |-> boxes[i]]
  <2>1. Len(boxes[j]) # 0 /\ boxes[j][Len(boxes[j])] = Mark("box_end", k, j)
    <3>1. j \in Options(request, k) /\ boxes[j] = Box(request, k, j)
      BY <1>1, <1>2
    <3>2. /\ Len(Box(request, k, j)) # 0
          /\ Box(request, k, j)[Len(Box(request, k, j))] = Mark("box_end", k, j)
      BY <3>1, BoxPiece, ZenonT(60)
    <3>. QED  BY <3>1, <3>2
  <2>2. \A before : BoxEnd(request, k, j, before) = before + Len(FlattenSeq(part))
    BY <1>10 DEF BoxEnd
  <2>3. part = [i \in 1..j |-> boxes[i]]
    OBVIOUS
  <2>. HIDE DEF part
  <2>4. /\ Len(FlattenSeq(part)) \in 1..Len(FlattenSeq(boxes))
        /\ FlattenSeq(boxes)[Len(FlattenSeq(part))] = boxes[j][Len(boxes[j])]
    BY <1>1, <1>4, <2>1, <2>3, FlattenBegins
  <2>. QED  BY <1>3, <2>1, <2>2, <2>4
<1>7. ASSUME NEW j \in 1..n PROVE Range(OptionText(request, k, j)) \subseteq Range(Boxes(request, k))
  <2>1. j \in Options(request, k) /\ boxes[j] = Box(request, k, j)
    BY <1>1, <1>2
  <2>2. Range(OptionText(request, k, j)) \subseteq Range(Box(request, k, j))
    BY <2>1, BoxPiece
  <2>. QED  BY <1>3, <1>5, <2>1, <2>2
<1>. QED  BY <1>1, <1>3, <1>5, <1>6, <1>7

-----------------------------------------------------------------------------
(* The state before a question                                             *)

\* The tokens of the state are the first so many of it.
Stated(request, s) ==
  \E n \in 0..request.state :
    {token \in Range(s) : token[1] = "state"} = Range(Words("state", 0, 0, n))

\* A piece that begins a prompt.
Begun(request, s, kinds, about) == Piece(s, kinds, about) /\ Stated(request, s)

(* Behind some header, uncut and cut.                                      *)
LEMMA StateBegins ==
  ASSUME NEW request \in Requests, NEW header, NEW A, Piece(header, A, {0}), "state" \notin A
  PROVE  /\ Begun(request, header \o State(request), A \cup {"state"}, {0})
         /\ \A limit \in Nat : Begun(request, Cut(header \o State(request), limit), A \cup {"state"}, {0})
<1>. DEFINE state == State(request)
            all == header \o state
            h == Len(header)
            n == request.state
<1>1. n \in Nat
  BY RequestFacts
<1>2. /\ Piece(state, {"state"}, {0}) /\ Len(state) = n
      /\ \A i \in 1..n : state[i] = <<"state", 0, 0, i>>
      /\ state = Words("state", 0, 0, n)
  <2>1. state = Words("state", 0, 0, n)
    BY DEF State
  <2>. HIDE DEF state, n
  <2>2. /\ Piece(Words("state", 0, 0, n), {"state"}, {0}) /\ Len(Words("state", 0, 0, n)) = n
        /\ \A i \in 1..n : Words("state", 0, 0, n)[i] = <<"state", 0, 0, i>>
    <3>1. n \in Nat
      BY <1>1
    <3>2. PICK kind, z : kind = "state" /\ z = 0
      OBVIOUS
    <3>3. Piece(Words(kind, z, z, n), {kind}, {z})
      BY <3>1, WordsPiece
    <3>4. Len(Words(kind, z, z, n)) = n
      BY <3>1, WordsPiece, ZenonT(60)
    <3>5. \A i \in 1..n : Words(kind, z, z, n)[i] = <<kind, z, z, i>>
      BY DEF Words
    <3>. QED  BY <3>2, <3>3, <3>4, <3>5
  <2>. QED  BY <2>1, <2>2
<1>. HIDE DEF state, n
<1>3. Piece(all, A \cup {"state"}, {0}) /\ Range(all) = Range(header) \cup Range(state)
  <2>1. Piece(all, A \cup {"state"}, {0} \cup {0}) /\ Range(all) = Range(header) \cup Range(state)
    <3>1. Apart(A, {"state"})
      BY DEF Apart
    <3>. QED  BY <1>2, <3>1, PiecesJoined
  <2>. QED  BY <2>1
<1>4. \A token \in Range(header) : token[1] # "state"
  BY DEF Piece
<1>5. \A token \in Range(state) : token[1] = "state"
  BY <1>2 DEF Piece
<1>6. Stated(request, all)
  <2>1. {token \in Range(all) : token[1] = "state"} = Range(Words("state", 0, 0, n))
    BY <1>2, <1>3, <1>4, <1>5
  <2>2. n \in 0..n
    BY <1>1
  <2>. QED  BY <2>1, <2>2 DEF Stated, n
<1>7. /\ IsSeq(header) /\ IsSeq(state) /\ h \in Nat /\ DOMAIN header = 1..h
      /\ Len(all) = h + n
      /\ \A i \in 1..h : all[i] = header[i]
      /\ \A i \in 1..n : all[h + i] = <<"state", 0, 0, i>>
  <2>1. IsSeq(header) /\ IsSeq(state) /\ h \in Nat /\ DOMAIN header = 1..h
    BY <1>2, SeqFacts DEF Piece
  <2>2. /\ Len(all) = h + Len(state)
        /\ \A i \in 1..h : all[i] = header[i]
        /\ \A i \in 1..Len(state) : all[h + i] = state[i]
    BY <2>1, Joined
  <2>. HIDE DEF all, h
  <2>. QED  BY <1>2, <2>1, <2>2
<1>. HIDE DEF all, h
<1>8. ASSUME NEW limit \in Nat
      PROVE  Begun(request, Cut(all, limit), A \cup {"state"}, {0})
  <2>. DEFINE c == Cut(all, limit)
              m == Len(c)
              left == IF m <= h THEN 0 ELSE m - h
  <2>1. /\ Piece(c, A \cup {"state"}, {0})
        /\ m = IF Len(all) <= limit THEN Len(all) ELSE limit
        /\ \A i \in 1..m : i \in 1..Len(all) /\ c[i] = all[i]
    BY <1>3, CutPiece
  <2>. HIDE DEF c
  <2>2. DOMAIN c = 1..m /\ m \in Nat
    BY <2>1, SeqFacts DEF Piece
  <2>3. m <= h + n
    BY <1>1, <1>7, <2>1
  <2>. HIDE DEF m
  <2>4. left \in 0..n
    BY <1>1, <1>7, <2>2, <2>3
  <2>5. \A i \in 1..left : h + i \in 1..m /\ i \in 1..n
    BY <1>1, <1>7, <2>2, <2>3
  <2>6. \A i \in 1..m : i \in 1..h \/ (i - h \in 1..left /\ h + (i - h) = i)
    BY <1>7, <2>2
  <2>. HIDE DEF left
  <2>7. Range(Words("state", 0, 0, left)) = {<<"state", 0, 0, i>> : i \in 1..left}
    BY DEF Words, Range
  <2>8. ASSUME NEW i \in 1..left PROVE <<"state", 0, 0, i>> \in Range(c)
    <3>1. c[h + i] = <<"state", 0, 0, i>> /\ h + i \in DOMAIN c
      BY <1>7, <2>1, <2>2, <2>5
    <3>. QED  BY <3>1 DEF Range
  <2>9. ASSUME NEW token \in Range(c), token[1] = "state"
        PROVE  \E i \in 1..left : token = <<"state", 0, 0, i>>
    <3>1. PICK i \in 1..m : token = all[i]
      BY <2>1, <2>2 DEF Range
    <3>2. i \notin 1..h
      <4>. SUFFICES ASSUME i \in 1..h PROVE FALSE
        OBVIOUS
      <4>1. token \in Range(header)
        BY <1>7, <3>1 DEF Range
      <4>. QED  BY <1>4, <2>9, <4>1
    <3>3. i - h \in 1..left /\ h + (i - h) = i
      BY <2>6, <3>2
    <3>. QED  BY <1>7, <2>5, <3>1, <3>3
  <2>10. \A i \in 1..left : <<"state", 0, 0, i>>[1] = "state"
    OBVIOUS
  <2>11. {token \in Range(c) : token[1] = "state"} = {<<"state", 0, 0, i>> : i \in 1..left}
    BY <2>8, <2>9, <2>10
  <2>12. Stated(request, c)
    BY <2>4, <2>7, <2>11 DEF Stated, n
  <2>. QED  BY <2>1, <2>12 DEF Begun, c
<1>. QED  BY <1>3, <1>6, <1>8 DEF Begun, all, state

\* Two sequences one behind the other, where the first begins a prompt.
After(request, s, t, kinds, about) ==
  /\ Begun(request, s \o t, kinds, about) /\ Range(s \o t) = Range(s) \cup Range(t)
  /\ Len(s) \in Nat /\ Len(t) \in Nat /\ Len(s \o t) = Len(s) + Len(t)
  /\ \A i \in 1..Len(s) : (s \o t)[i] = s[i]
  /\ \A i \in 1..Len(t) : (s \o t)[Len(s) + i] = t[i]

(* What follows is put behind it.                                          *)
LEMMA Follows ==
  ASSUME NEW request, NEW s, NEW A, NEW K, Begun(request, s, A, K),
         NEW t, NEW B, NEW L, Piece(t, B, L), "state" \notin B, Apart(A, B) \/ Apart(K, L)
  PROVE  After(request, s, t, A \cup B, K \cup L)
<1>1. Piece(s \o t, A \cup B, K \cup L) /\ Range(s \o t) = Range(s) \cup Range(t)
  BY PiecesJoined DEF Begun
<1>2. PICK n \in 0..request.state :
        {token \in Range(s) : token[1] = "state"} = Range(Words("state", 0, 0, n))
  BY DEF Begun, Stated
<1>3. {token \in Range(s \o t) : token[1] = "state"} = {token \in Range(s) : token[1] = "state"}
  BY <1>1 DEF Piece
<1>4. Stated(request, s \o t)
  BY <1>2, <1>3 DEF Stated
<1>5. IsSeq(s) /\ IsSeq(t)
  BY DEF Begun, Piece
<1>. QED  BY <1>1, <1>4, <1>5, Joined, SeqFacts DEF Begun, After

-----------------------------------------------------------------------------
(* Rows                                                                    *)

(* All of a sequence, and beginnings that agree.                           *)
LEMMA WholeSeq ==
  ASSUME NEW s, IsSeq(s)
  PROVE  SubSeq(s, 1, Len(s)) = s
<1>1. Len(s) \in Nat /\ s \in [1..Len(s) -> Range(s)]
  BY DEF Range, IsSeq
<1>2. SubSeq(s, 1, Len(s)) = [i \in 1..Len(s) |-> s[i]]
  BY <1>1 DEF SubSeq
<1>. QED  BY <1>1, <1>2

(* Two that agree so far begin alike.                                      *)
LEMMA SameBeginning ==
  ASSUME NEW n \in Nat, NEW s, NEW t, \A i \in 1..n : s[i] = t[i]
  PROVE  SubSeq(s, 1, n) = SubSeq(t, 1, n)
BY DEF SubSeq

\* What is asked of the tokens seen of question k, offering some options.
HasQuestion(request, k, shown, seen) ==
  /\ Mark("answer", k, 0) \in seen
  /\ Range(Instructions(request, k)) \subseteq seen
  /\ \A j \in shown : Range(OptionText(request, k, j)) \subseteq seen

(* A prompt of pieces of which none is of a later question asks.           *)
LEMMA BegunAsks ==
  ASSUME NEW request, NEW s, NEW A, NEW K, Begun(request, s, A, K), NEW planned,
         \A l \in K : l <= planned.question,
         HasQuestion(request, planned.question, planned.shown, Range(s))
  PROVE  Asks(request, planned, s)
<1>1. \A token \in Range(s) : token[2] <= planned.question
  BY DEF Begun, Piece
<1>. QED  BY <1>1 DEF Asks, Begun, Stated, Piece, HasQuestion

FimKinds == {"fim_prefix", "state"}

\* A row of kev, and one of neohorsejev before it is cut.
FimWhole(request, k, prefix, r) ==
  /\ IsSeq(r.ids) /\ Asks(request, r, r.ids)
  /\ r.prefix = Len(prefix) /\ r.slot = Len(r.ids)
  /\ r.question = k /\ r.shown = Options(request, k)
  /\ Len(prefix) \in Nat /\ Len(prefix) < Len(r.ids)
  /\ \A i \in 1..Len(prefix) : r.ids[i] = prefix[i]
  /\ r.ids[Len(r.ids)] = Mark("answer", k, 0)
  /\ r.options = [j \in Options(request, k) |-> r.options[j]]
  /\ \A j \in Options(request, k) :
       /\ r.options[j] \in Len(prefix) + 1..Len(r.ids)
       /\ r.ids[r.options[j]] = Mark("box_end", k, j)

(* A row of boxes asks its question, is read at its last token and at the  *)
(* end of each box, all behind its prefix.                                 *)
LEMMA FimFacts ==
  ASSUME NEW request \in Requests, NEW k \in DOMAIN request.questions,
         NEW prefix, Begun(request, prefix, FimKinds, {0})
  PROVE  FimWhole(request, k, prefix, FimRow(prefix, request, k))
<1>. DEFINE middle == <<Mark("fim_middle", k, 0)>>
            text == Instructions(request, k)
            boxes == Boxes(request, k)
            answer == <<Mark("answer", k, 0)>>
            s1 == prefix \o middle
            s2 == s1 \o text
            s3 == s2 \o boxes
            s4 == s3 \o answer
            r == FimRow(prefix, request, k)
            p == Len(prefix)
<1>1. /\ r.ids = s4 /\ r.prefix = p /\ r.slot = Len(s4)
      /\ r.question = k /\ r.shown = Options(request, k)
      /\ r.options = [j \in Options(request, k) |-> BoxEnd(request, k, j, Len(s2))]
  BY DEF FimRow, PlannedRow, Boxes
<1>2. /\ Piece(middle, {"fim_middle"}, {k}) /\ Len(middle) = 1
      /\ Piece(answer, {"answer"}, {k}) /\ Range(answer) = {Mark("answer", k, 0)}
      /\ Len(answer) = 1 /\ answer[1] = Mark("answer", k, 0)
  BY MarkPiece
<1>3. Piece(text, {"text"}, {k})
  BY QuestionPieces
<1>4. /\ Piece(boxes, BoxKinds, {k})
      /\ \A j \in Options(request, k) : Range(OptionText(request, k, j)) \subseteq Range(boxes)
  BY BoxesPiece
<1>5. ASSUME NEW j \in Options(request, k)
      PROVE  \E end \in 1..Len(boxes) :
               /\ boxes[end] = Mark("box_end", k, j)
               /\ \A before : BoxEnd(request, k, j, before) = before + end
  BY BoxesPiece
<1>. HIDE DEF middle, text, boxes, answer, r
<1>6. Apart(FimKinds, {"fim_middle"}) /\ "state" \notin {"fim_middle"}
  BY DEF Apart, FimKinds
<1>7. /\ Begun(request, s1, FimKinds \cup {"fim_middle"}, {0} \cup {k})
      /\ Range(s1) = Range(prefix) \cup Range(middle)
      /\ p \in Nat /\ Len(s1) = p + 1 /\ \A i \in 1..p : s1[i] = prefix[i]
  <2>1. After(request, prefix, middle, FimKinds \cup {"fim_middle"}, {0} \cup {k})
    BY <1>2, <1>6, Follows
  <2>. QED  BY <1>2, <2>1 DEF After
<1>. HIDE DEF s1
<1>8. Apart(FimKinds \cup {"fim_middle"}, {"text"}) /\ "state" \notin {"text"}
  BY DEF Apart, FimKinds
<1>9. /\ Begun(request, s2, FimKinds \cup {"fim_middle"} \cup {"text"}, {0} \cup {k} \cup {k})
      /\ Range(s2) = Range(s1) \cup Range(text)
      /\ Len(text) \in Nat /\ Len(s2) = Len(s1) + Len(text)
      /\ \A i \in 1..Len(s1) : s2[i] = s1[i]
  <2>1. After(request, s1, text, FimKinds \cup {"fim_middle"} \cup {"text"}, {0} \cup {k} \cup {k})
    BY <1>3, <1>7, <1>8, Follows
  <2>. QED  BY <2>1 DEF After
<1>. HIDE DEF s2
<1>10. Apart(FimKinds \cup {"fim_middle"} \cup {"text"}, BoxKinds) /\ "state" \notin BoxKinds
  BY DEF Apart, FimKinds, BoxKinds
<1>11. /\ Begun(request, s3, FimKinds \cup {"fim_middle"} \cup {"text"} \cup BoxKinds,
                {0} \cup {k} \cup {k} \cup {k})
       /\ Range(s3) = Range(s2) \cup Range(boxes)
       /\ Len(boxes) \in Nat /\ Len(s3) = Len(s2) + Len(boxes)
       /\ \A i \in 1..Len(s2) : s3[i] = s2[i]
       /\ \A i \in 1..Len(boxes) : s3[Len(s2) + i] = boxes[i]
  <2>1. After(request, s2, boxes, FimKinds \cup {"fim_middle"} \cup {"text"} \cup BoxKinds,
              {0} \cup {k} \cup {k} \cup {k})
    BY <1>4, <1>9, <1>10, Follows
  <2>. QED  BY <2>1 DEF After
<1>. HIDE DEF s3
<1>12. Apart(FimKinds \cup {"fim_middle"} \cup {"text"} \cup BoxKinds, {"answer"})
       /\ "state" \notin {"answer"}
  BY DEF Apart, FimKinds, BoxKinds
<1>13. /\ Begun(request, s4, FimKinds \cup {"fim_middle"} \cup {"text"} \cup BoxKinds \cup {"answer"},
                {0} \cup {k} \cup {k} \cup {k} \cup {k})
       /\ Range(s4) = Range(s3) \cup Range(answer)
       /\ Len(s4) = Len(s3) + Len(answer)
       /\ \A i \in 1..Len(s3) : s4[i] = s3[i]
       /\ \A i \in 1..Len(answer) : s4[Len(s3) + i] = answer[i]
  <2>1. After(request, s3, answer,
              FimKinds \cup {"fim_middle"} \cup {"text"} \cup BoxKinds \cup {"answer"},
              {0} \cup {k} \cup {k} \cup {k} \cup {k})
    BY <1>2, <1>11, <1>12, Follows
  <2>. QED  BY <2>1 DEF After
<1>. HIDE DEF s4, p
<1>14. /\ Len(s2) = p + 1 + Len(text) /\ Len(s3) = p + 1 + Len(text) + Len(boxes)
       /\ Len(s4) = p + 1 + Len(text) + Len(boxes) + 1
       /\ p \in Nat /\ Len(text) \in Nat /\ Len(boxes) \in Nat
  BY <1>2, <1>7, <1>9, <1>11, <1>13
<1>15. \A i \in 1..p : s4[i] = prefix[i]
  <2>. SUFFICES ASSUME NEW i \in 1..p PROVE s4[i] = prefix[i]
    OBVIOUS
  <2>1. i \in 1..Len(s1) /\ i \in 1..Len(s2) /\ i \in 1..Len(s3)
    BY <1>7, <1>14
  <2>. QED  BY <1>7, <1>9, <1>11, <1>13, <2>1
<1>16. s4[Len(s4)] = Mark("answer", k, 0)
  <2>1. Len(s4) = Len(s3) + 1 /\ 1 \in 1..Len(answer)
    BY <1>2, <1>13
  <2>. QED  BY <1>2, <1>13, <2>1
<1>17. ASSUME NEW j \in Options(request, k)
       PROVE  /\ r.options[j] \in p + 1..Len(s4)
              /\ s4[r.options[j]] = Mark("box_end", k, j)
  <2>1. PICK end \in 1..Len(boxes) :
          /\ boxes[end] = Mark("box_end", k, j)
          /\ \A before : BoxEnd(request, k, j, before) = before + end
    BY <1>5
  <2>2. r.options[j] = Len(s2) + end
    BY <1>1, <2>1
  <2>3. Len(s2) + end \in p + 1..Len(s4) /\ Len(s2) + end \in 1..Len(s3)
    BY <1>14
  <2>. QED  BY <1>11, <1>13, <2>1, <2>2, <2>3
<1>18. r.options = [j \in Options(request, k) |-> r.options[j]]
  BY <1>1
<1>19. k \in Nat \ {0}
  BY RequestFacts
<1>20. HasQuestion(request, k, Options(request, k), Range(s4))
  BY <1>2, <1>4, <1>9, <1>11, <1>13 DEF HasQuestion, text
<1>21. \A l \in {0} \cup {k} \cup {k} \cup {k} \cup {k} : l <= k
  BY <1>19
<1>22. Asks(request, r, s4)
  BY <1>1, <1>13, <1>20, <1>21, BegunAsks
<1>23. IsSeq(s4) /\ p < Len(s4)
  BY <1>13, <1>14 DEF Begun, Piece
<1>. QED  BY <1>1, <1>14, <1>15, <1>16, <1>17, <1>18, <1>22, <1>23 DEF FimWhole, r, p

-----------------------------------------------------------------------------
(* Beginnings and questions                                                *)

ContextKinds == {"context", "state"}

ChatKinds == {"system", "state"}

(* What the rows of each profile begin with.                               *)
LEMMA Beginnings ==
  ASSUME NEW request \in Requests
  PROVE  /\ Begun(request, FimState(request), FimKinds, {0})
         /\ Begun(request, Cut(FimState(request), MaxLength - 1), FimKinds, {0})
         /\ Begun(request, Cut(FimState(request), MaxState), FimKinds, {0})
         /\ Begun(request, Context(request), ContextKinds, {0})
         /\ Begun(request, ThisthatContext(request), ContextKinds, {0})
         /\ Begun(request, <<Mark("system", 0, 0)>> \o State(request), ChatKinds, {0})
<1>1. MaxLength - 1 \in Nat /\ MaxState \in Nat /\ MaxState + 3 \in Nat
  BY SideAssumption, RequestsAssumption
<1>2. /\ {"fim_prefix"} \cup {"state"} = FimKinds /\ {"context"} \cup {"state"} = ContextKinds
      /\ {"system"} \cup {"state"} = ChatKinds
  BY DEF FimKinds, ContextKinds, ChatKinds
<1>3. ASSUME NEW z
      PROVE  /\ Piece(<<Mark("fim_prefix", z, z)>>, {"fim_prefix"}, {z})
             /\ Piece(<<Mark("system", z, z)>>, {"system"}, {z})
             /\ Piece(Words("context", z, z, 3), {"context"}, {z})
  BY MarkPiece, WordsPiece
<1>4. /\ Piece(<<Mark("fim_prefix", 0, 0)>>, {"fim_prefix"}, {0})
      /\ Piece(<<Mark("system", 0, 0)>>, {"system"}, {0})
      /\ Piece(ContextHeader, {"context"}, {0})
  BY <1>3 DEF ContextHeader
<1>5. /\ Begun(request, FimState(request), FimKinds, {0})
      /\ \A limit \in Nat : Begun(request, Cut(FimState(request), limit), FimKinds, {0})
  <2>1. "state" \notin {"fim_prefix"}
    OBVIOUS
  <2>. QED  BY <1>2, <1>4, <2>1, StateBegins DEF FimState
<1>6. /\ Begun(request, Context(request), ContextKinds, {0})
      /\ \A limit \in Nat : Begun(request, Cut(Context(request), limit), ContextKinds, {0})
  <2>1. "state" \notin {"context"}
    OBVIOUS
  <2>. QED  BY <1>2, <1>4, <2>1, StateBegins DEF Context
<1>7. Begun(request, <<Mark("system", 0, 0)>> \o State(request), ChatKinds, {0})
  <2>1. "state" \notin {"system"}
    OBVIOUS
  <2>. QED  BY <1>2, <1>4, <2>1, StateBegins
<1>. QED  BY <1>1, <1>5, <1>6, <1>7 DEF ThisthatContext

AskKinds == {"text", "option", "answer"}

\* A sequence that goes on to ask question k, ending in its slot.
Asking(request, k, shown, s, t) ==
  /\ HasQuestion(request, k, shown, Range(t))
  /\ Len(s) \in Nat /\ Len(t) \in Nat /\ Len(s) < Len(t)
  /\ \A i \in 1..Len(s) : t[i] = s[i]
  /\ t[Len(t)] = Mark("answer", k, 0)
  /\ Range(s) \subseteq Range(t)
  /\ \A token \in Range(t) : token[1] = "state" => token \in Range(s)

(* Instructions, options and the slot behind some piece.                   *)
LEMMA AskPiece ==
  ASSUME NEW request \in Requests, NEW k \in DOMAIN request.questions,
         NEW s, NEW A, NEW K, Piece(s, A, K), Apart(A, AskKinds),
         NEW options, Piece(options, {"option"}, {k}),
         NEW shown, \A j \in shown : Range(OptionText(request, k, j)) \subseteq Range(options)
  PROVE  LET t == s \o Instructions(request, k) \o options \o <<Mark("answer", k, 0)>>
         IN  Piece(t, A \cup AskKinds, K \cup {k}) /\ Asking(request, k, shown, s, t)
<1>. DEFINE text == Instructions(request, k)
            answer == <<Mark("answer", k, 0)>>
            s1 == s \o text
            s2 == s1 \o options
            t == s2 \o answer
<1>1. /\ Piece(text, {"text"}, {k}) /\ Piece(answer, {"answer"}, {k})
      /\ Range(answer) = {Mark("answer", k, 0)} /\ Len(answer) = 1 /\ answer[1] = Mark("answer", k, 0)
      /\ Mark("answer", k, 0)[1] = "answer"
  <2>1. /\ Piece(answer, {"answer"}, {k})
        /\ Range(answer) = {Mark("answer", k, 0)} /\ Len(answer) = 1 /\ answer[1] = Mark("answer", k, 0)
    BY MarkPiece
  <2>. QED  BY <2>1, QuestionPieces DEF Mark
<1>. HIDE DEF text, answer
<1>2. /\ Apart(A, {"text"}) /\ Apart(A \cup {"text"}, {"option"})
      /\ Apart(A \cup {"text"} \cup {"option"}, {"answer"})
  BY DEF Apart, AskKinds
<1>3. /\ Piece(s1, A \cup {"text"}, K \cup {k}) /\ Range(s1) = Range(s) \cup Range(text)
  BY <1>1, <1>2, PiecesJoined
<1>4. /\ Piece(s2, A \cup {"text"} \cup {"option"}, K \cup {k} \cup {k})
      /\ Range(s2) = Range(s1) \cup Range(options)
  BY <1>2, <1>3, PiecesJoined, SMTT(60)
<1>5. /\ Piece(t, A \cup {"text"} \cup {"option"} \cup {"answer"}, K \cup {k} \cup {k} \cup {k})
      /\ Range(t) = Range(s2) \cup Range(answer)
  <2>. HIDE DEF s2
  <2>1. Piece(answer, {"answer"}, {k}) /\ Apart(A \cup {"text"} \cup {"option"}, {"answer"})
    BY <1>1, <1>2
  <2>. QED  BY <1>4, <2>1, PiecesJoined
<1>6. IsSeq(s) /\ IsSeq(text) /\ IsSeq(options) /\ IsSeq(answer) /\ IsSeq(s1) /\ IsSeq(s2)
  BY <1>1, <1>3, <1>4 DEF Piece
<1>7. /\ Len(s1) = Len(s) + Len(text) /\ \A i \in 1..Len(s) : s1[i] = s[i]
      /\ Len(s2) = Len(s1) + Len(options) /\ \A i \in 1..Len(s1) : s2[i] = s1[i]
      /\ Len(t) = Len(s2) + Len(answer) /\ \A i \in 1..Len(s2) : t[i] = s2[i]
      /\ \A i \in 1..Len(answer) : t[Len(s2) + i] = answer[i]
  BY <1>6, Joined
<1>8. Len(s) \in Nat /\ Len(text) \in Nat /\ Len(options) \in Nat
  BY <1>6, SeqFacts
<1>. HIDE DEF s1, s2, t
<1>9. /\ Len(t) = Len(s) + Len(text) + Len(options) + 1 /\ Len(t) = Len(s2) + 1
  BY <1>1, <1>7
<1>10. \A i \in 1..Len(s) : t[i] = s[i]
  <2>. SUFFICES ASSUME NEW i \in 1..Len(s) PROVE t[i] = s[i]
    OBVIOUS
  <2>1. i \in 1..Len(s1) /\ i \in 1..Len(s2)
    BY <1>7, <1>8
  <2>. QED  BY <1>7, <2>1
<1>11. t[Len(t)] = Mark("answer", k, 0)
  <2>1. 1 \in 1..Len(answer)
    BY <1>1
  <2>. QED  BY <1>1, <1>7, <1>9, <2>1
<1>12. \A token \in Range(text) \cup Range(options) \cup Range(answer) : token[1] # "state"
  BY <1>1 DEF Piece
<1>13. Range(t) = Range(s) \cup (Range(text) \cup Range(options) \cup Range(answer))
  BY <1>3, <1>4, <1>5
<1>14. HasQuestion(request, k, shown, Range(t))
  BY <1>1, <1>13 DEF HasQuestion, text
<1>15. Asking(request, k, shown, s, t)
  <2>1. Len(t) \in Nat /\ Len(s) < Len(t)
    BY <1>8, <1>9
  <2>. QED  BY <1>8, <1>10, <1>11, <1>12, <1>13, <1>14, <2>1 DEF Asking
<1>16. /\ A \cup {"text"} \cup {"option"} \cup {"answer"} = A \cup AskKinds
       /\ K \cup {k} \cup {k} \cup {k} = K \cup {k}
  BY DEF AskKinds
<1>. QED  BY <1>5, <1>15, <1>16 DEF text, answer, s1, s2, t

(* What begins a prompt begins one with the question, too.                 *)
LEMMA AskBegun ==
  ASSUME NEW request, NEW k, NEW shown, NEW s, NEW t, Asking(request, k, shown, s, t), Stated(request, s)
  PROVE  Stated(request, t)
<1>1. PICK n \in 0..request.state :
        {token \in Range(s) : token[1] = "state"} = Range(Words("state", 0, 0, n))
  BY DEF Stated
<1>2. {token \in Range(t) : token[1] = "state"} = {token \in Range(s) : token[1] = "state"}
  BY DEF Asking
<1>. QED  BY <1>1, <1>2 DEF Stated

BlockKinds == {"question", "text", "option", "answer"}

(* A question with its slot.                                               *)
LEMMA BlockPiece ==
  ASSUME NEW request \in Requests, NEW k \in DOMAIN request.questions
  PROVE  /\ Piece(QuestionBlock(request, k), BlockKinds, {k})
         /\ HasQuestion(request, k, Options(request, k), Range(QuestionBlock(request, k)))
         /\ Len(QuestionBlock(request, k)) # 0
         /\ QuestionBlock(request, k)[Len(QuestionBlock(request, k))] = Mark("answer", k, 0)
<1>. DEFINE s == <<Mark("question", k, 0)>>
            t == s \o Instructions(request, k) \o OptionBlock(request, k) \o <<Mark("answer", k, 0)>>
<1>1. Piece(s, {"question"}, {k})
  BY MarkPiece
<1>2. /\ Piece(OptionBlock(request, k), {"option"}, {k})
      /\ \A j \in Options(request, k) :
           Range(OptionText(request, k, j)) \subseteq Range(OptionBlock(request, k))
  BY QuestionPieces
<1>3. Apart({"question"}, AskKinds)
  BY DEF Apart, AskKinds
<1>. HIDE DEF s
<1>4. Piece(t, {"question"} \cup AskKinds, {k} \cup {k}) /\ Asking(request, k, Options(request, k), s, t)
  BY <1>1, <1>2, <1>3, AskPiece
<1>5. t = QuestionBlock(request, k)
  BY DEF QuestionBlock, s
<1>. HIDE DEF t
<1>6. {"question"} \cup AskKinds = BlockKinds /\ {k} \cup {k} = {k}
  BY DEF AskKinds, BlockKinds
<1>7. Len(t) # 0
  BY <1>4 DEF Asking
<1>. QED  BY <1>4, <1>5, <1>6, <1>7 DEF Asking

-----------------------------------------------------------------------------
(* The rows of each profile                                                *)

\* A row that is read where it ends, having asked its question.
WholeRow(request, r) ==
  IsSeq(r.ids) /\ Asks(request, r, r.ids) /\ r.slot = Len(r.ids)

\* A row that starts with its prefix, and is read behind it.
Begins(r, prefix) ==
  /\ Len(prefix) \in Nat /\ r.prefix = Len(prefix)
  /\ \A i \in 1..Len(prefix) : r.ids[i] = prefix[i]
  /\ Len(prefix) < r.slot /\ \A j \in DOMAIN r.options : Len(prefix) < r.options[j]

(* Questions behind a context, the last of them that of the row.           *)
LEMMA ContextRow ==
  ASSUME NEW request \in Requests, NEW k \in DOMAIN request.questions,
         NEW context, Begun(request, context, ContextKinds, {0}),
         NEW t, Piece(t, BlockKinds, 1..k), Len(t) # 0,
         HasQuestion(request, k, Options(request, k), Range(t))
  PROVE  /\ WholeRow(request, LabelRow(context \o t, Len(context), request, k))
         /\ Begins(LabelRow(context \o t, Len(context), request, k), context)
<1>. DEFINE r == LabelRow(context \o t, Len(context), request, k)
            s == context \o t
<1>1. /\ r.ids = s /\ r.prefix = Len(context) /\ r.slot = Len(s)
      /\ r.options = <<>> /\ r.question = k /\ r.shown = Options(request, k)
  BY DEF LabelRow, PlannedRow
<1>. HIDE DEF r
<1>2. After(request, context, t, ContextKinds \cup BlockKinds, {0} \cup 1..k)
  <2>1. Apart(ContextKinds, BlockKinds) /\ "state" \notin BlockKinds
    BY DEF Apart, ContextKinds, BlockKinds
  <2>. QED  BY <2>1, Follows
<1>. HIDE DEF s
<1>3. /\ Begun(request, s, ContextKinds \cup BlockKinds, {0} \cup 1..k)
      /\ Range(s) = Range(context) \cup Range(t)
      /\ Len(context) \in Nat /\ Len(t) \in Nat /\ Len(s) = Len(context) + Len(t)
      /\ \A i \in 1..Len(context) : s[i] = context[i]
  BY <1>2 DEF After, s
<1>4. k \in Nat
  BY RequestFacts
<1>5. \A l \in {0} \cup 1..k : l <= k
  BY <1>4
<1>6. HasQuestion(request, r.question, r.shown, Range(s))
  BY <1>1, <1>3 DEF HasQuestion
<1>7. Asks(request, r, s)
  BY <1>1, <1>3, <1>5, <1>6, BegunAsks
<1>8. WholeRow(request, r)
  BY <1>1, <1>3, <1>7 DEF WholeRow, Begun, Piece
<1>9. Begins(r, context)
  <2>1. Len(context) < Len(s)
    BY <1>3
  <2>. QED  BY <1>1, <1>3, <2>1 DEF Begins
<1>. QED  BY <1>8, <1>9 DEF r, s

(* decider: a question, or a level of one.                                 *)
LEMMA DeciderRow ==
  ASSUME NEW request \in Requests, NEW k \in DOMAIN request.questions
  PROVE  /\ IsSeq(DeciderRows(request, k))
         /\ \A i \in DOMAIN DeciderRows(request, k) :
              /\ WholeRow(request, DeciderRows(request, k)[i])
              /\ Begins(DeciderRows(request, k)[i], Context(request))
<1>. DEFINE rows == DeciderRows(request, k)
            context == Context(request)
            q == <<Mark("question", k, 0)>>
<1>1. Begun(request, context, ContextKinds, {0})
  BY Beginnings
<1>2. k \in Nat \ {0} /\ Len(request.questions[k].options) \in Nat
      /\ Options(request, k) = 1..Len(request.questions[k].options)
  BY RequestFacts
<1>. HIDE DEF context
<1>3. CASE ~request.questions[k].isolated
  <2>. DEFINE r == LabelRow(context \o QuestionBlock(request, k), Len(context), request, k)
  <2>1. rows = <<r>>
    BY <1>3 DEF DeciderRows, context
  <2>2. Piece(QuestionBlock(request, k), BlockKinds, 1..k)
    <3>1. k \in 1..k
      BY <1>2
    <3>2. Piece(QuestionBlock(request, k), BlockKinds, {k})
      BY BlockPiece
    <3>. QED  BY <3>1, <3>2 DEF Piece
  <2>3. WholeRow(request, r) /\ Begins(r, context)
    BY <1>1, <2>2, BlockPiece, ContextRow
  <2>. HIDE DEF r, rows
  <2>4. rows \in Seq({r}) /\ DOMAIN rows = 1..1 /\ rows[1] = r
    BY <2>1
  <2>5. IsSeq(rows)
    BY <2>4, KnownSeq
  <2>. QED  BY <2>3, <2>4, <2>5 DEF context, rows
<1>4. CASE request.questions[k].isolated
  <2>. DEFINE n == Len(request.questions[k].options)
  <2>1. rows = [j \in 1..n |-> LevelRow(request, k, j)]
    BY <1>2, <1>4 DEF DeciderRows
  <2>2. ASSUME NEW j \in 1..n
        PROVE  WholeRow(request, LevelRow(request, k, j)) /\ Begins(LevelRow(request, k, j), context)
    <3>. DEFINE r == LevelRow(request, k, j)
                s == context \o q
                t == s \o Instructions(request, k) \o OptionText(request, k, j) \o <<Mark("answer", k, 0)>>
    <3>1. /\ r.ids = t /\ r.prefix = Len(context) /\ r.slot = Len(t)
          /\ r.options = <<>> /\ r.question = k /\ r.shown = {j}
      BY DEF LevelRow, PlannedRow, context
    <3>. HIDE DEF r
    <3>2. After(request, context, q, ContextKinds \cup {"question"}, {0} \cup {k})
      <4>1. Piece(q, {"question"}, {k})
        BY MarkPiece
      <4>2. Apart(ContextKinds, {"question"}) /\ "state" \notin {"question"}
        BY DEF Apart, ContextKinds
      <4>. HIDE DEF q
      <4>. QED  BY <1>1, <4>1, <4>2, Follows
    <3>3. /\ Piece(s, ContextKinds \cup {"question"}, {0} \cup {k}) /\ Stated(request, s)
          /\ Len(context) \in Nat /\ Len(s) = Len(context) + 1
          /\ \A i \in 1..Len(context) : s[i] = context[i]
      BY <3>2 DEF After, Begun
    <3>4. /\ Piece(t, ContextKinds \cup {"question"} \cup AskKinds, {0} \cup {k} \cup {k})
          /\ Asking(request, k, {j}, s, t)
      <4>1. Apart(ContextKinds \cup {"question"}, AskKinds)
        BY DEF Apart, ContextKinds, AskKinds
      <4>2. /\ Piece(OptionText(request, k, j), {"option"}, {k})
            /\ \A l \in {j} : Range(OptionText(request, k, l)) \subseteq Range(OptionText(request, k, j))
        BY <1>2, QuestionPieces
      <4>. HIDE DEF s
      <4>. QED  BY <3>3, <4>1, <4>2, AskPiece
    <3>. HIDE DEF s, t
    <3>5. Begun(request, t, ContextKinds \cup {"question"} \cup AskKinds, {0} \cup {k} \cup {k})
      BY <3>3, <3>4, AskBegun DEF Begun
    <3>6. \A l \in {0} \cup {k} \cup {k} : l <= k
      BY <1>2
    <3>7. HasQuestion(request, r.question, r.shown, Range(t))
      BY <3>1, <3>4 DEF Asking
    <3>8. Asks(request, r, t)
      BY <3>1, <3>5, <3>6, <3>7, BegunAsks
    <3>9. WholeRow(request, r)
      BY <3>1, <3>4, <3>8 DEF WholeRow, Piece
    <3>10. Begins(r, context)
      <4>1. Len(s) < Len(t) /\ Len(t) \in Nat /\ \A i \in 1..Len(s) : t[i] = s[i]
        BY <3>4 DEF Asking
      <4>2. Len(context) < Len(t)
        BY <3>3, <4>1
      <4>3. \A i \in 1..Len(context) : i \in 1..Len(s)
        BY <3>3
      <4>4. \A i \in 1..Len(context) : t[i] = context[i]
        BY <3>3, <4>1, <4>3
      <4>. QED  BY <3>1, <3>3, <4>2, <4>4 DEF Begins
    <3>. QED  BY <3>9, <3>10 DEF r
  <2>. HIDE DEF rows, n
  <2>3. \A j \in 1..n : rows[j] = LevelRow(request, k, j)
    BY <2>1
  <2>4. rows = [j \in 1..n |-> rows[j]] /\ n \in Nat
    BY <1>2, <2>1 DEF n
  <2>5. IsSeq(rows) /\ Len(rows) = n
    BY <2>4, Listing
  <2>6. DOMAIN rows = 1..n
    BY <2>4
  <2>. QED  BY <2>2, <2>3, <2>5, <2>6 DEF context, rows
<1>. QED  BY <1>3, <1>4

\* The questions of thisthat up to one of them.
Blocks(request, k) == FlattenSeq([j \in 1..k |-> QuestionBlock(request, j)])

(* thisthat: the questions up to one, a beginning of the single pass.      *)
LEMMA ThisthatRows ==
  ASSUME NEW request \in Requests, NEW k \in DOMAIN request.questions
  PROVE  /\ WholeRow(request, ThisthatRow(request, k))
         /\ Begins(ThisthatRow(request, k), ThisthatContext(request))
         /\ ThisthatRow(request, k).slot \in DOMAIN SinglePass(request)
         /\ SinglePass(request)[ThisthatRow(request, k).slot] = Mark("answer", k, 0)
         /\ \A i \in 1..ThisthatRow(request, k).slot :
              ThisthatRow(request, k).ids[i] = SinglePass(request)[i]
<1>. DEFINE n == Len(request.questions)
            context == ThisthatContext(request)
            all == [j \in 1..n |-> QuestionBlock(request, j)]
            part == [j \in 1..k |-> all[j]]
            own == [j \in 1..k |-> QuestionBlock(request, j)]
            r == ThisthatRow(request, k)
<1>1. n \in Nat /\ DOMAIN request.questions = 1..n
  BY RequestFacts
<1>. HIDE DEF n
<1>2. /\ k \in Nat \ {0} /\ k \in 1..k /\ \A j \in 1..k : j \in 1..n /\ j \in DOMAIN request.questions
  BY <1>1
<1>3. part = own
  BY <1>2
<1>4. /\ SinglePass(request) = context \o FlattenSeq(all)
      /\ r = LabelRow(context \o FlattenSeq(own), Len(context), request, k)
  BY <1>1 DEF SinglePass, ThisthatRow
<1>5. Begun(request, context, ContextKinds, {0})
  BY Beginnings
<1>. HIDE DEF context
<1>6. ASSUME NEW j \in 1..n
      PROVE  /\ Piece(all[j], BlockKinds, {j}) /\ HasQuestion(request, j, Options(request, j), Range(all[j]))
             /\ Len(all[j]) # 0 /\ all[j][Len(all[j])] = Mark("answer", j, 0)
  <2>1. j \in DOMAIN request.questions /\ all[j] = QuestionBlock(request, j)
    BY <1>1
  <2>. HIDE DEF all
  <2>. QED  BY <2>1, BlockPiece
<1>7. all = [j \in 1..n |-> all[j]] /\ own = [j \in 1..k |-> own[j]] /\ \A j \in 1..k : own[j] = all[j]
  BY <1>2
<1>8. part = [j \in 1..k |-> all[j]]
  OBVIOUS
<1>. HIDE DEF all, part, own
<1>9. Listed(all, n)
  BY <1>6, <1>7 DEF Listed, Piece
<1>10. /\ Len(FlattenSeq(part)) \in 1..Len(FlattenSeq(all))
       /\ IsSeq(FlattenSeq(part)) /\ IsSeq(FlattenSeq(all))
       /\ FlattenSeq(all)[Len(FlattenSeq(part))] = all[k][Len(all[k])]
       /\ \A i \in 1..Len(FlattenSeq(part)) : FlattenSeq(part)[i] = FlattenSeq(all)[i]
  <2>1. k \in 1..n /\ Len(all[k]) # 0
    BY <1>2, <1>6
  <2>2. n \in Nat
    BY <1>1
  <2>. QED  BY <1>8, <1>9, <2>1, <2>2, FlattenBegins
<1>11. Listed(own, k) /\ Pieces(own, k, BlockKinds, 1..k) /\ Numbered(own, k, 2)
  <2>1. ASSUME NEW j \in 1..k PROVE Piece(own[j], BlockKinds, {j})
    BY <1>2, <1>6, <1>7
  <2>2. Listed(own, k)
    BY <1>7, <2>1 DEF Listed, Piece
  <2>3. Pieces(own, k, BlockKinds, 1..k)
    BY <2>1 DEF Pieces, Piece
  <2>4. Numbered(own, k, 2)
    BY <2>1 DEF Numbered, Piece
  <2>. QED  BY <2>2, <2>3, <2>4
<1>12. /\ Piece(FlattenSeq(own), BlockKinds, 1..k)
       /\ \A j \in 1..k : Range(own[j]) \subseteq Range(FlattenSeq(own))
  BY <1>2, <1>11, PiecesFlattened
<1>. DEFINE t == FlattenSeq(own)
            pass == FlattenSeq(all)
<1>13. /\ Len(t) \in 1..Len(pass) /\ IsSeq(t) /\ IsSeq(pass)
       /\ pass[Len(t)] = Mark("answer", k, 0)
       /\ \A i \in 1..Len(t) : t[i] = pass[i]
  BY <1>2, <1>3, <1>6, <1>10
<1>14. HasQuestion(request, k, Options(request, k), Range(t))
  BY <1>2, <1>6, <1>7, <1>12 DEF HasQuestion
<1>. HIDE DEF t, pass
<1>15. Len(t) # 0 /\ Len(t) \in Nat /\ Len(pass) \in Nat
  BY <1>13, SeqFacts
<1>16. WholeRow(request, r) /\ Begins(r, context)
  BY <1>4, <1>5, <1>12, <1>14, <1>15, ContextRow DEF t
<1>17. r.ids = context \o t /\ r.slot = Len(context \o t)
  BY <1>4 DEF LabelRow, PlannedRow, t
<1>. HIDE DEF r
<1>18. IsSeq(context) /\ Len(context) \in Nat
  BY <1>5, SeqFacts DEF Begun, Piece
<1>19. /\ Len(context \o t) = Len(context) + Len(t) /\ Len(context \o pass) = Len(context) + Len(pass)
       /\ IsSeq(context \o pass)
       /\ \A i \in 1..Len(context) : (context \o t)[i] = context[i] /\ (context \o pass)[i] = context[i]
       /\ \A i \in 1..Len(t) : (context \o t)[Len(context) + i] = t[i]
       /\ \A i \in 1..Len(pass) : (context \o pass)[Len(context) + i] = pass[i]
  BY <1>13, <1>18, Joined
<1>20. r.slot = Len(context) + Len(t) /\ Len(t) \in 1..Len(pass)
  BY <1>13, <1>17, <1>19
<1>21. r.slot \in DOMAIN (context \o pass)
  <2>1. Len(context) + Len(t) \in 1..Len(context) + Len(pass)
    BY <1>13, <1>15, <1>18
  <2>. QED  BY <1>19, <1>20, <2>1, SeqFacts
<1>22. (context \o pass)[r.slot] = Mark("answer", k, 0)
  BY <1>13, <1>19, <1>20
<1>23. ASSUME NEW i \in 1..r.slot PROVE r.ids[i] = (context \o pass)[i]
  <2>1. CASE i \in 1..Len(context)
    BY <1>17, <1>19, <2>1
  <2>2. CASE i \notin 1..Len(context)
    <3>1. PICK a \in Nat, b \in Nat : a = Len(context) /\ b = Len(t)
      BY <1>15, <1>18
    <3>2. i \in 1..a + b /\ i \notin 1..a
      BY <1>20, <2>2, <3>1
    <3>3. i - Len(context) \in 1..Len(t) /\ Len(context) + (i - Len(context)) = i
      BY <3>1, <3>2
    <3>4. i - Len(context) \in 1..Len(pass)
      BY <1>13, <1>15, <3>3
    <3>. QED  BY <1>13, <1>17, <1>19, <3>3, <3>4
  <2>. QED  BY <2>1, <2>2
<1>24. SinglePass(request) = context \o pass
  BY <1>4 DEF pass
<1>25. /\ r.slot \in DOMAIN SinglePass(request) /\ SinglePass(request)[r.slot] = Mark("answer", k, 0)
       /\ \A i \in 1..r.slot : r.ids[i] = SinglePass(request)[i]
  BY <1>21, <1>22, <1>23, <1>24
<1>26. WholeRow(request, r) /\ Begins(r, ThisthatContext(request))
  BY <1>16 DEF context
<1>. QED  BY <1>25, <1>26 DEF r

(* tev1 and jpt: a chat about a question; jad, which adds to it.           *)
LEMMA ChatRows ==
  ASSUME NEW request \in Requests, NEW k \in DOMAIN request.questions
  PROVE  /\ WholeRow(request, ChatRow(request, k)) /\ Begins(ChatRow(request, k), <<>>)
         /\ IsSeq(JadRow(request, k).ids) /\ Asks(request, JadRow(request, k), JadRow(request, k).ids)
         /\ Begins(JadRow(request, k), <<>>)
         /\ JadRow(request, k).slot \in 1..Len(JadRow(request, k).ids)
<1>. DEFINE s == <<Mark("system", 0, 0)>> \o State(request)
            t == s \o Instructions(request, k) \o OptionBlock(request, k) \o <<Mark("answer", k, 0)>>
            r == ChatRow(request, k)
            jad == JadRow(request, k)
            last == Mark("role_end", k, 0)
            u == Append(t, last)
<1>1. Begun(request, s, ChatKinds, {0})
  BY Beginnings
<1>2. t = Chat(request, k)
  BY DEF Chat
<1>. HIDE DEF s
<1>3. Piece(t, ChatKinds \cup AskKinds, {0} \cup {k}) /\ Asking(request, k, Options(request, k), s, t)
  <2>1. Apart(ChatKinds, AskKinds)
    BY DEF Apart, ChatKinds, AskKinds
  <2>. QED  BY <1>1, <2>1, QuestionPieces, AskPiece DEF Begun
<1>. HIDE DEF t
<1>4. Begun(request, t, ChatKinds \cup AskKinds, {0} \cup {k})
  BY <1>1, <1>3, AskBegun DEF Begun
<1>5. /\ r.ids = t /\ r.prefix = 0 /\ r.slot = Len(t)
      /\ r.options = <<>> /\ r.question = k /\ r.shown = Options(request, k)
      /\ jad.ids = u /\ jad.prefix = 0 /\ jad.slot = Len(t)
      /\ jad.options = <<>> /\ jad.question = k /\ jad.shown = Options(request, k)
  BY <1>2 DEF ChatRow, JadRow, LabelRow, PlannedRow
<1>. HIDE DEF r, jad
<1>6. k \in Nat
  BY RequestFacts
<1>7. \A l \in {0} \cup {k} : l <= k
  BY <1>6
<1>8. Asks(request, r, t)
  BY <1>3, <1>4, <1>5, <1>7, BegunAsks DEF Asking
<1>9. Len(t) \in Nat /\ 0 < Len(t) /\ IsSeq(t)
  BY <1>3 DEF Asking, Piece
<1>10. Len(<<>>) = 0 /\ \A x : Begins(x, <<>>) <=> /\ x.prefix = 0 /\ 0 < x.slot
                                                   /\ \A j \in DOMAIN x.options : 0 < x.options[j]
  BY NoSeq DEF Begins
<1>11. DOMAIN <<>> = {}
  OBVIOUS
<1>12. Begins(r, <<>>) /\ Begins(jad, <<>>)
  BY <1>5, <1>9, <1>10, <1>11
<1>13. WholeRow(request, r)
  BY <1>5, <1>8, <1>9 DEF WholeRow
<1>14. After(request, t, <<last>>, ChatKinds \cup AskKinds \cup {"role_end"}, {0} \cup {k} \cup {k})
  <2>1. Piece(<<last>>, {"role_end"}, {k})
    BY MarkPiece
  <2>2. Apart(ChatKinds \cup AskKinds, {"role_end"}) /\ "state" \notin {"role_end"}
    BY DEF Apart, ChatKinds, AskKinds
  <2>. HIDE DEF last
  <2>. QED  BY <1>4, <2>1, <2>2, Follows
<1>15. u = t \o <<last>>
  <2>. HIDE DEF last
  <2>1. t \in Seq(Range(t) \cup {last}) /\ last \in Range(t) \cup {last}
    <3>1. t \in Seq(Range(t))
      BY <1>9 DEF IsSeq
    <3>. QED  BY <3>1
  <2>. QED  BY <2>1
<1>16. /\ Begun(request, u, ChatKinds \cup AskKinds \cup {"role_end"}, {0} \cup {k} \cup {k})
       /\ Range(t) \subseteq Range(u)
  BY <1>14, <1>15 DEF After
<1>17. HasQuestion(request, jad.question, jad.shown, Range(u))
  BY <1>3, <1>5, <1>16 DEF Asking, HasQuestion
<1>18. \A l \in {0} \cup {k} \cup {k} : l <= jad.question
  BY <1>5, <1>7
<1>. HIDE DEF u
<1>19. Asks(request, jad, u)
  BY <1>16, <1>17, <1>18, BegunAsks
<1>20. IsSeq(u)
  BY <1>16 DEF Begun, Piece
<1>21. Len(t) \in 1..Len(u)
  <2>1. Len(<<last>>) = 1
    OBVIOUS
  <2>2. Len(u) = Len(t) + 1
    BY <1>14, <1>15, <2>1 DEF After
  <2>. QED  BY <1>9, <2>2
<1>. QED  BY <1>5, <1>12, <1>13, <1>19, <1>20, <1>21 DEF r, jad

(* kev and neohorsejev, whose rows ask and are read at the end of each box *)
(* unless they are cut.                                                    *)
LEMMA KevRows ==
  ASSUME NEW request \in Requests, NEW k \in DOMAIN request.questions
  PROVE  FimWhole(request, k, Cut(FimState(request), MaxLength - 1), KevRow(request, k))
BY Beginnings, FimFacts DEF KevRow

(* What is within its limit is not cut.                                    *)
LEMMA CutNothing ==
  ASSUME NEW s, IsSeq(s), NEW limit \in Nat, Len(s) <= limit
  PROVE  Cut(s, limit) = s
<1>1. Len(s) \in Nat
  BY SeqFacts
<1>2. {Len(s), limit} \in SUBSET Nat /\ {Len(s), limit} # {}
  BY <1>1
<1>3. /\ Min({Len(s), limit}) \in {Len(s), limit}
      /\ \A x \in {Len(s), limit} : Min({Len(s), limit}) <= x
  BY <1>2, MinIn
<1>4. Min({Len(s), limit}) = Len(s)
  BY <1>1, <1>3
<1>. QED  BY <1>4, WholeSeq DEF Cut

(* neohorsejev cuts the row: one that is still long enough for its slot    *)
(* is uncut, and a prefix within the limit is kept either way.             *)
LEMMA NeohorsejevRows ==
  ASSUME NEW request \in Requests, NEW k \in DOMAIN request.questions
  PROVE  /\ NeohorsejevRow(request, k).slot <= Len(NeohorsejevRow(request, k).ids)
              => FimWhole(request, k, Cut(FimState(request), MaxState), NeohorsejevRow(request, k))
         /\ NeohorsejevRow(request, k).slot <= MaxBranch
              => NeohorsejevRow(request, k).slot <= Len(NeohorsejevRow(request, k).ids)
         /\ MaxState <= MaxBranch
              => Begins(NeohorsejevRow(request, k), Cut(FimState(request), MaxState))
<1>. DEFINE r == NeohorsejevRow(request, k)
            prefix == Cut(FimState(request), MaxState)
            whole == FimRow(prefix, request, k)
            ids == whole.ids
            cut == Cut(ids, MaxBranch)
<1>1. FimWhole(request, k, prefix, whole)
  BY Beginnings, FimFacts
<1>2. r = [whole EXCEPT !.ids = cut]
  BY DEF NeohorsejevRow
<1>3. whole = [ids |-> ids, prefix |-> whole.prefix, slot |-> whole.slot,
               options |-> whole.options, question |-> whole.question, shown |-> whole.shown]
  BY DEF FimRow, PlannedRow
<1>4. MaxState \in Nat /\ MaxBranch \in Nat
  BY RequestsAssumption
<1>5. Len(prefix) \in Nat /\ Len(prefix) <= MaxState
  <2>1. Piece(FimState(request), FimKinds, {0})
    BY Beginnings DEF Begun
  <2>2. Len(FimState(request)) \in Nat
    BY <2>1, SeqFacts DEF Piece
  <2>3. Len(prefix) = IF Len(FimState(request)) <= MaxState THEN Len(FimState(request)) ELSE MaxState
    BY <1>4, <2>1, CutPiece
  <2>. HIDE DEF prefix
  <2>. QED  BY <1>4, <2>2, <2>3
<1>. HIDE DEF r, whole, prefix
<1>6. /\ IsSeq(ids) /\ IsInjective(ids) /\ whole.slot = Len(ids) /\ whole.prefix = Len(prefix)
      /\ Len(prefix) < Len(ids) /\ \A i \in 1..Len(prefix) : ids[i] = prefix[i]
  BY <1>1 DEF FimWhole, Asks
<1>7. /\ r.ids = cut /\ r.prefix = whole.prefix /\ r.slot = whole.slot
      /\ r.options = whole.options
  BY <1>2, <1>3
<1>8. \A j \in DOMAIN whole.options : Len(prefix) < whole.options[j]
  <2>1. DOMAIN whole.options = Options(request, k) /\ Len(ids) \in Nat
    BY <1>1, <1>6, SeqFacts DEF FimWhole
  <2>2. \A j \in Options(request, k) : whole.options[j] \in Len(prefix) + 1..Len(ids)
    BY <1>1 DEF FimWhole
  <2>. QED  BY <1>5, <2>1, <2>2
<1>. HIDE DEF ids
<1>9. /\ Len(cut) = IF Len(ids) <= MaxBranch THEN Len(ids) ELSE MaxBranch
      /\ \A i \in 1..Len(cut) : cut[i] = ids[i]
  <2>1. Piece(ids, {token[1] : token \in Range(ids)}, {token[2] : token \in Range(ids)})
    BY <1>6 DEF Piece
  <2>. QED  BY <1>4, <2>1, CutPiece
<1>10. Len(ids) \in Nat
  BY <1>6, SeqFacts
<1>11. ASSUME r.slot <= Len(r.ids) PROVE FimWhole(request, k, prefix, r)
  <2>1. Len(ids) <= MaxBranch
    BY <1>4, <1>6, <1>7, <1>9, <1>10, <1>11
  <2>2. cut = ids
    BY <1>4, <1>6, <2>1, CutNothing
  <2>3. r = whole
    <3>. HIDE DEF cut
    <3>. QED  BY <1>2, <1>3, <2>2 DEF ids
  <2>. QED  BY <1>1, <2>3
<1>12. ASSUME MaxState <= MaxBranch PROVE Begins(r, prefix)
  <2>1. Len(prefix) <= Len(cut)
    BY <1>4, <1>5, <1>6, <1>9, <1>10, <1>12
  <2>2. \A i \in 1..Len(prefix) : i \in 1..Len(cut)
    BY <1>4, <1>5, <1>9, <1>10, <2>1
  <2>3. \A i \in 1..Len(prefix) : cut[i] = prefix[i]
    BY <1>6, <1>9, <2>2
  <2>. QED  BY <1>5, <1>6, <1>7, <1>8, <2>3 DEF Begins
<1>13. ASSUME r.slot <= MaxBranch PROVE r.slot <= Len(r.ids)
  BY <1>4, <1>6, <1>7, <1>9, <1>10, <1>13
<1>. QED  BY <1>11, <1>12, <1>13 DEF r, prefix

-----------------------------------------------------------------------------
(* The plan of a request                                                   *)

\* The row of a profile that has one for each question.
OneRow(kind, request, k) ==
  CASE kind = "kev"         -> KevRow(request, k)
    [] kind = "neohorsejev" -> NeohorsejevRow(request, k)
    [] kind = "thisthat"    -> ThisthatRow(request, k)
    [] kind = "jet"         -> JetRow(request, k)
    [] kind = "jad"         -> JadRow(request, k)
    [] kind \in {"tev1", "jpt"} -> ChatRow(request, k)

\* A row a profile makes of question k.
RowAbout(kind, request, k, r) ==
  IF kind = "decider"
  THEN \E i \in DOMAIN DeciderRows(request, k) : r = DeciderRows(request, k)[i]
  ELSE r = OneRow(kind, request, k)

(* The rows of a question are a sequence of such rows.                     *)
LEMMA RowsOfQuestion ==
  ASSUME NEW kind \in SideKinds, NEW request \in Requests, NEW k \in DOMAIN request.questions
  PROVE  /\ IsSeq(QuestionRows(kind, request, k))
         /\ \A i \in DOMAIN QuestionRows(kind, request, k) :
              RowAbout(kind, request, k, QuestionRows(kind, request, k)[i])
<1>1. CASE kind = "decider"
  <2>1. QuestionRows(kind, request, k) = DeciderRows(request, k)
    BY <1>1 DEF QuestionRows
  <2>. QED  BY <1>1, <2>1, DeciderRow DEF RowAbout
<1>2. CASE kind # "decider"
  <2>. DEFINE r == OneRow(kind, request, k)
  <2>1. QuestionRows(kind, request, k) = <<r>>
    BY <1>2 DEF QuestionRows, OneRow, SideKinds
  <2>. HIDE DEF r
  <2>2. <<r>> \in Seq({r}) /\ DOMAIN <<r>> = 1..1 /\ <<r>>[1] = r
    OBVIOUS
  <2>3. IsSeq(<<r>>)
    BY <2>2, KnownSeq
  <2>4. RowAbout(kind, request, k, r)
    BY <1>2 DEF RowAbout, r
  <2>. QED  BY <2>1, <2>2, <2>3, <2>4
<1>. QED  BY <1>1, <1>2

(* Every row of a plan is about a question of the request.                 *)
LEMMA PlanRows ==
  ASSUME NEW kind \in SideKinds, NEW request \in Requests, NEW i \in DOMAIN Plan(kind, request)
  PROVE  \E k \in DOMAIN request.questions : RowAbout(kind, request, k, Plan(kind, request)[i])
<1>. DEFINE n == Len(request.questions)
            rows == [k \in 1..n |-> QuestionRows(kind, request, k)]
            S == Held(rows, n)
            plan == FlattenSeq(rows)
<1>1. n \in Nat /\ DOMAIN request.questions = 1..n
  BY RequestFacts
<1>2. Plan(kind, request) = plan
  BY <1>1 DEF Plan
<1>. HIDE DEF n
<1>3. ASSUME NEW k \in 1..n
      PROVE  /\ rows[k] = QuestionRows(kind, request, k)
             /\ IsSeq(rows[k]) /\ DOMAIN rows[k] = 1..Len(rows[k])
             /\ \A l \in DOMAIN rows[k] : RowAbout(kind, request, k, rows[k][l])
  BY <1>1, RowsOfQuestion, SeqFacts
<1>4. Listed(rows, n)
  BY <1>3 DEF Listed
<1>. HIDE DEF rows
<1>5. rows \in [1..n -> Seq(S)]
  BY <1>4, ListedTyped
<1>. HIDE DEF S
<1>6. InStep(plan, plan, rows, rows, n)
  <2>1. AsLong(rows, rows, n)
    BY DEF AsLong
  <2>. QED  BY <1>1, <1>5, <2>1, FlattenAligned
<1>7. PICK k \in 1..n : \E l \in 1..Len(rows[k]) : plan[i] = rows[k][l]
  BY <1>2, <1>6 DEF InStep
<1>. QED  BY <1>1, <1>2, <1>3, <1>7

\* What the rows of a profile begin with.
PrefixOf(kind, request) ==
  CASE kind = "kev"         -> Cut(FimState(request), MaxLength - 1)
    [] kind = "neohorsejev" -> Cut(FimState(request), MaxState)
    [] kind = "decider"     -> Context(request)
    [] kind = "thisthat"    -> ThisthatContext(request)
    [] kind \in {"jet", "jad", "tev1", "jpt"} -> <<>>

(* A row of boxes that is whole is read behind its prefix, its last token  *)
(* included.                                                               *)
LEMMA FimReach ==
  ASSUME NEW request, NEW k, NEW prefix, NEW r, FimWhole(request, k, prefix, r)
  PROVE  /\ Begins(r, prefix) /\ r.slot \in 1..Len(r.ids) /\ Len(r.ids) \in Nat
         /\ \A j \in DOMAIN r.options : r.options[j] \in 1..Len(r.ids)
<1>1. /\ r.prefix = Len(prefix) /\ r.slot = Len(r.ids) /\ Len(prefix) \in Nat
      /\ Len(prefix) < Len(r.ids) /\ Len(r.ids) \in Nat
      /\ \A i \in 1..Len(prefix) : r.ids[i] = prefix[i]
      /\ DOMAIN r.options = Options(request, k)
      /\ \A j \in Options(request, k) : r.options[j] \in Len(prefix) + 1..Len(r.ids)
  BY SeqFacts DEF FimWhole
<1>2. \A j \in DOMAIN r.options : Len(prefix) < r.options[j] /\ r.options[j] \in 1..Len(r.ids)
  BY <1>1
<1>. QED  BY <1>1, <1>2 DEF Begins

(* It is the same in all rows, and they are read behind it.                *)
LEMMA RowBegins ==
  ASSUME NEW kind \in SideKinds, NEW request \in Requests, NEW k \in DOMAIN request.questions,
         NEW r, RowAbout(kind, request, k, r), r.slot \in Nat \ {0},
         kind = "neohorsejev" => MaxState <= MaxBranch \/ r.slot <= MaxBranch
  PROVE  Begins(r, PrefixOf(kind, request))
<1>1. CASE kind = "decider"
  BY <1>1, DeciderRow DEF RowAbout, PrefixOf
<1>2. CASE kind = "kev"
  <2>. DEFINE prefix == Cut(FimState(request), MaxLength - 1)
  <2>1. r = KevRow(request, k) /\ PrefixOf(kind, request) = prefix
    BY <1>2 DEF RowAbout, OneRow, PrefixOf
  <2>2. FimWhole(request, k, prefix, r)
    BY <2>1, KevRows
  <2>. QED  BY <2>1, <2>2, FimReach
<1>3. CASE kind = "neohorsejev"
  <2>1. r = NeohorsejevRow(request, k) /\ PrefixOf(kind, request) = Cut(FimState(request), MaxState)
    BY <1>3 DEF RowAbout, OneRow, PrefixOf
  <2>2. CASE r.slot <= MaxBranch
    BY <2>1, <2>2, NeohorsejevRows, FimReach
  <2>. QED  BY <1>3, <2>1, <2>2, NeohorsejevRows
<1>4. CASE kind = "thisthat"
  <2>1. r = ThisthatRow(request, k) /\ PrefixOf(kind, request) = ThisthatContext(request)
    BY <1>4 DEF RowAbout, OneRow, PrefixOf
  <2>. QED  BY <2>1, ThisthatRows
<1>5. CASE kind = "jet"
  <2>1. /\ r.prefix = 0 /\ r.options = <<>> /\ PrefixOf(kind, request) = <<>>
    BY <1>5 DEF RowAbout, OneRow, PrefixOf, JetRow, LabelRow, PlannedRow
  <2>. HIDE DEF PrefixOf
  <2>2. Len(<<>>) = 0 /\ DOMAIN <<>> = {}
    OBVIOUS
  <2>. QED  BY <2>1, <2>2 DEF Begins
<1>6. CASE kind = "jad" \/ kind \in {"tev1", "jpt"}
  <2>1. (r = JadRow(request, k) \/ r = ChatRow(request, k)) /\ PrefixOf(kind, request) = <<>>
    BY <1>6 DEF RowAbout, OneRow, PrefixOf
  <2>. QED  BY <2>1, ChatRows
<1>. QED  BY <1>1, <1>2, <1>3, <1>4, <1>5, <1>6 DEF SideKinds

\* The tokens of a canvas are seen from its slot, otherwise those up to it.
Seen(kind, r) == IF kind = "jad" THEN r.ids ELSE SubSeq(r.ids, 1, r.slot)

(* jet asks as the chat does if all of it is within the limit.             *)
LEMMA JetUncut ==
  ASSUME NEW request \in Requests, NEW k \in DOMAIN request.questions,
         ChatRow(request, k).slot <= MaxState
  PROVE  JetRow(request, k) = ChatRow(request, k)
<1>1. WholeRow(request, ChatRow(request, k))
  BY ChatRows
<1>2. ChatRow(request, k).ids = Chat(request, k) /\ ChatRow(request, k).slot = Len(Chat(request, k))
  BY DEF ChatRow, LabelRow, PlannedRow
<1>3. IsSeq(Chat(request, k))
  BY <1>1, <1>2 DEF WholeRow
<1>4. Cut(Chat(request, k), MaxState) = Chat(request, k)
  BY <1>2, <1>3, CutNothing, RequestsAssumption
<1>. QED  BY <1>4 DEF JetRow, ChatRow

(* A row asks its question, those cut by jet and neohorsejev aside.        *)
LEMMA RowAsks ==
  ASSUME NEW kind \in SideKinds, NEW request \in Requests,
         NEW k \in DOMAIN request.questions, NEW r, RowAbout(kind, request, k, r),
         r.slot <= Len(r.ids), kind = "jet" => ChatRow(request, k).slot <= MaxState
  PROVE  Asks(request, r, Seen(kind, r))
<1>1. CASE kind = "jad"
  <2>1. r = JadRow(request, k) /\ Seen(kind, r) = r.ids
    BY <1>1 DEF RowAbout, OneRow, Seen
  <2>. QED  BY <2>1, ChatRows
<1>2. ASSUME kind # "jad", WholeRow(request, r) PROVE Asks(request, r, Seen(kind, r))
  <2>1. Seen(kind, r) = r.ids
    BY <1>2, WholeSeq DEF WholeRow, Seen
  <2>. QED  BY <1>2, <2>1 DEF WholeRow
<1>3. CASE kind = "decider"
  BY <1>2, <1>3, DeciderRow DEF RowAbout
<1>4. CASE kind = "kev"
  <2>1. r = KevRow(request, k)
    BY <1>4 DEF RowAbout, OneRow
  <2>. QED  BY <1>2, <1>4, <2>1, KevRows DEF FimWhole, WholeRow
<1>5. CASE kind = "neohorsejev"
  <2>1. r = NeohorsejevRow(request, k)
    BY <1>5 DEF RowAbout, OneRow
  <2>2. FimWhole(request, k, Cut(FimState(request), MaxState), r)
    BY <2>1, NeohorsejevRows
  <2>. QED  BY <1>2, <1>5, <2>2 DEF FimWhole, WholeRow
<1>6. CASE kind = "thisthat"
  <2>1. r = ThisthatRow(request, k)
    BY <1>6 DEF RowAbout, OneRow
  <2>. QED  BY <1>2, <1>6, <2>1, ThisthatRows
<1>7. CASE kind \in {"tev1", "jpt"}
  <2>1. r = ChatRow(request, k)
    BY <1>7 DEF RowAbout, OneRow
  <2>. QED  BY <1>2, <1>7, <2>1, ChatRows
<1>8. CASE kind = "jet"
  <2>1. r = ChatRow(request, k)
    BY <1>8, JetUncut DEF RowAbout, OneRow
  <2>. QED  BY <1>2, <1>8, <2>1, ChatRows
<1>. QED  BY <1>1, <1>3, <1>4, <1>5, <1>6, <1>7, <1>8 DEF SideKinds

-----------------------------------------------------------------------------
(* Rows that were read                                                     *)

\* A row that has readings was long enough for them.
ReadInside == \A i \in DOMAIN readings : ReadSet(setup, Rows[i]) \subseteq 1..Len(Rows[i].ids)

(* As many readings as rows before the one to be scored.                   *)
LEMMA ReadingsCounted ==
  ASSUME IInv
  PROVE  /\ DOMAIN readings = 1..row - 1 /\ row \in Nat \ {0}
         /\ \A i \in DOMAIN readings :
              /\ i \in DOMAIN Rows /\ at \in DOMAIN call
              /\ readings[i] = OwnReading(setup, Rows[i])
<1>1. /\ readings = [i \in 1..row - 1 |-> OwnReading(setup, Rows[i])]
      /\ row \in 1..Len(Rows) + 1
  BY DEF IInv, ResultsInv, Typed
<1>. HIDE DEF OwnReading
<1>2. CASE at \in DOMAIN call
  <2>1. Len(Rows) \in Nat /\ DOMAIN Rows = 1..Len(Rows)
    BY <1>2, RowNow DEF IInv
  <2>. QED  BY <1>1, <1>2, <2>1
<1>3. CASE at \notin DOMAIN call
  <2>1. Len(Rows) = 0
    BY <1>3 DEF Rows
  <2>2. row = 1
    BY <1>1, <2>1
  <2>. QED  BY <1>1, <2>2
<1>. QED  BY <1>2, <1>3

(* The readings of a row are added when all of its reads were found.       *)
LEMMA InsideStep ==
  ASSUME IInv, ReadInside, [Next]_vars
  PROVE  ReadInside'
<1>1. CASE UNCHANGED <<setup, call, at, readings>>
  <2>1. Rows' = Rows
    BY <1>1 DEF Rows
  <2>. QED  BY <1>1, <2>1 DEF ReadInside
<1>2. CASE readings' = <<>>
  <2>1. DOMAIN readings' = {}
    BY <1>2
  <2>. QED  BY <2>1 DEF ReadInside
<1>3. CASE ScoreRow
  <2>1. CASE ~\A p \in ReadSet(setup, Row) : Readable(p)
    BY <1>1, <2>1, <1>3 DEF ScoreRow, Throw
  <2>2. CASE \A p \in ReadSet(setup, Row) : Readable(p)
    <3>. DEFINE own == [k \in DOMAIN ReadsOf(setup, Row) |-> OutputAt(ReadsOf(setup, Row)[k])]
    <3>1. /\ phase = "read" /\ readings' = Append(readings, own)
          /\ UNCHANGED <<setup, call, at>>
      BY <1>3, <2>2 DEF ScoreRow
    <3>. HIDE DEF own
    <3>2. Rows' = Rows
      BY <3>1 DEF Rows
    <3>3. ReadSet(setup, Rows[row]) \subseteq 1..Len(Rows[row].ids)
      BY <2>2, <3>1, ReadableInside DEF Row
    <3>4. DOMAIN readings = 1..row - 1 /\ row \in Nat \ {0}
      BY ReadingsCounted
    <3>5. DOMAIN readings' = 1..row
      <4>1. PICK n \in Nat : row = n + 1 /\ row - 1 = n
        BY <3>4
      <4>2. readings = [i \in 1..n |-> OwnReading(setup, Rows[i])]
        BY <4>1 DEF IInv, ResultsInv
      <4>. HIDE DEF OwnReading
      <4>3. IsSeq(readings) /\ Len(readings) = n
        BY <4>2, Listing
      <4>4. IsSeq(readings') /\ Len(readings') = n + 1
        BY <3>1, <4>3, Appended
      <4>. QED  BY <4>1, <4>4, SeqFacts
    <3>6. ASSUME NEW i \in 1..row PROVE ReadSet(setup, Rows[i]) \subseteq 1..Len(Rows[i].ids)
      <4>1. i \in 1..row - 1 \/ i = row
        BY <3>4
      <4>. QED  BY <3>3, <3>4, <4>1 DEF ReadInside
    <3>. QED  BY <3>1, <3>2, <3>5, <3>6 DEF ReadInside
  <2>. QED  BY <2>1, <2>2
<1>4. CASE \E c \in CallsOf(setup) : Predict(c)
  BY <1>2, <1>4 DEF Predict
<1>5. CASE PlanRequest \/ EndRequest
  BY <1>2, <1>5 DEF PlanRequest, EndRequest
<1>6. CASE TooManyRows \/ RejectRow \/ OutputUnavailable \/ DeviceFails
  BY <1>1, <1>6 DEF TooManyRows, RejectRow, OutputUnavailable, DeviceFails, Throw
<1>7. CASE Return \/ BeginBatch \/ SelectRow \/ BeginRow
  BY <1>1, <1>7 DEF Return, BeginBatch, SelectRow, BeginRow, servingVars
<1>8. CASE Restore \/ RestoreFails \/ RestoreMisses \/ DecodePrefix \/ DecodeRest \/ DecodeCanvas
  BY <1>1, <1>8 DEF Restore, RestoreFails, RestoreMisses, DecodePrefix, DecodeRest, DecodeCanvas,
     servingVars
<1>9. CASE UNCHANGED vars
  BY <1>1, <1>9 DEF vars
<1>. QED  BY <1>3, <1>4, <1>5, <1>6, <1>7, <1>8, <1>9 DEF Next, Serving

(* Whatever was read lay within its row.                                   *)
THEOREM ReadsInside == Spec => [](IInv /\ ReadInside)
<1>1. Init => ReadInside
  BY DEF Init, ReadInside
<1>2. IInv /\ ReadInside /\ [Next]_vars => ReadInside'
  BY InsideStep
<1>. QED  BY <1>1, <1>2, Invariance, PTL DEF Spec

-----------------------------------------------------------------------------
(***************************************************************************)
(* What the rows of the profiles were decided over.                        *)
(***************************************************************************)
(* The reads of a row: its slot, then the end of each of its boxes.        *)
LEMMA ReadsAre ==
  ASSUME NEW s, NEW r, s.embeddings => IsSeq(r.options)
  PROVE  /\ 1 \in DOMAIN ReadsOf(s, r) /\ ReadsOf(s, r)[1] = r.slot /\ r.slot \in ReadSet(s, r)
         /\ \A p \in ReadSet(s, r) :
              p = r.slot \/ (s.embeddings /\ \E j \in DOMAIN r.options : p = r.options[j])
         /\ s.embeddings => \A j \in DOMAIN r.options :
              j + 1 \in DOMAIN ReadsOf(s, r) /\ ReadsOf(s, r)[j + 1] = r.options[j]
<1>. DEFINE slot == <<r.slot>>
            options == IF s.embeddings THEN r.options ELSE <<>>
            reads == slot \o options
            n == Len(options)
<1>1. ReadsOf(s, r) = reads
  BY DEF ReadsOf
<1>2. slot \in Seq({r.slot}) /\ Len(slot) = 1 /\ slot[1] = r.slot
  OBVIOUS
<1>3. IsSeq(slot) /\ IsSeq(options)
  BY <1>2, KnownSeq, NoSeq
<1>. HIDE DEF slot
<1>4. n \in Nat /\ DOMAIN options = 1..n
  BY <1>3, SeqFacts
<1>5. (s.embeddings => options = r.options) /\ (~s.embeddings => n = 0)
  BY NoSeq
<1>. HIDE DEF options
<1>6. /\ IsSeq(reads) /\ Len(reads) = 1 + n
      /\ \A i \in 1..1 : reads[i] = slot[i]
      /\ \A i \in 1..n : reads[1 + i] = options[i]
  <2>1. /\ IsSeq(reads) /\ Len(reads) = Len(slot) + Len(options)
        /\ \A i \in 1..Len(slot) : reads[i] = slot[i]
        /\ \A i \in 1..Len(options) : reads[Len(slot) + i] = options[i]
    BY <1>3, Joined
  <2>. QED  BY <1>2, <2>1
<1>. HIDE DEF reads, n
<1>7. DOMAIN reads = 1..1 + n
  BY <1>6, SeqFacts
<1>8. 1 \in DOMAIN reads /\ reads[1] = r.slot
  BY <1>2, <1>4, <1>6, <1>7
<1>9. ASSUME NEW p \in Range(reads)
      PROVE  p = r.slot \/ (s.embeddings /\ \E j \in DOMAIN r.options : p = r.options[j])
  <2>1. PICK i \in 1..1 + n : p = reads[i]
    BY <1>7 DEF Range
  <2>2. CASE i = 1
    BY <1>8, <2>1, <2>2
  <2>3. CASE i # 1
    <3>1. PICK j \in 1..n : i = 1 + j
      <4>1. i - 1 \in 1..n /\ i = 1 + (i - 1)
        BY <1>4, <2>3
      <4>. QED  BY <4>1
    <3>2. n # 0
      BY <1>4
    <3>3. s.embeddings /\ options = r.options
      BY <1>5, <3>2
    <3>4. p = options[j] /\ j \in DOMAIN options
      BY <1>4, <1>6, <2>1, <3>1
    <3>. QED  BY <3>3, <3>4
  <2>. QED  BY <2>2, <2>3
<1>10. ASSUME s.embeddings, NEW j \in DOMAIN r.options
       PROVE  j + 1 \in DOMAIN reads /\ reads[j + 1] = r.options[j]
  <2>1. j \in 1..n
    BY <1>4, <1>5, <1>10
  <2>2. j + 1 \in 1..1 + n /\ j + 1 = 1 + j
    BY <1>4, <2>1
  <2>. QED  BY <1>5, <1>6, <1>7, <1>10, <2>1, <2>2
<1>11. r.slot \in Range(reads)
  BY <1>8 DEF Range
<1>. QED  BY <1>1, <1>8, <1>9, <1>10, <1>11 DEF ReadSet

(* The boxes of a row are in the order of the options.                     *)
LEMMA BoxedOptions ==
  ASSUME NEW kind \in Boxed, NEW request \in Requests, NEW k \in DOMAIN request.questions,
         NEW r, RowAbout(kind, request, k, r)
  PROVE  IsSeq(r.options) /\ DOMAIN r.options = Options(request, k)
<1>. DEFINE n == Len(request.questions[k].options)
<1>1. n \in Nat /\ Options(request, k) = 1..n
  BY RequestFacts
<1>2. r = KevRow(request, k) \/ r = NeohorsejevRow(request, k)
  BY DEF RowAbout, OneRow, Boxed
<1>3. ASSUME NEW prefix
      PROVE  FimRow(prefix, request, k).options = [j \in 1..n |-> FimRow(prefix, request, k).options[j]]
  <2>. DEFINE head == prefix \o <<Mark("fim_middle", k, 0)>> \o Instructions(request, k)
  <2>1. FimRow(prefix, request, k).options = [j \in 1..n |-> BoxEnd(request, k, j, Len(head))]
    BY <1>1 DEF FimRow, PlannedRow
  <2>. QED  BY <2>1
<1>4. \E prefix : r.options = FimRow(prefix, request, k).options
  <2>1. CASE r = KevRow(request, k)
    BY <2>1 DEF KevRow
  <2>2. CASE r = NeohorsejevRow(request, k)
    <3>. DEFINE whole == FimRow(Cut(FimState(request), MaxState), request, k)
    <3>1. r = [whole EXCEPT !.ids = Cut(whole.ids, MaxBranch)]
      BY <2>2 DEF NeohorsejevRow
    <3>2. whole = [ids |-> whole.ids, prefix |-> whole.prefix, slot |-> whole.slot,
                   options |-> whole.options, question |-> whole.question, shown |-> whole.shown]
      BY DEF FimRow, PlannedRow
    <3>. HIDE DEF whole
    <3>3. r.options = whole.options
      BY <3>1, <3>2
    <3>. QED  BY <3>3 DEF whole
  <2>. QED  BY <1>2, <2>1, <2>2
<1>5. r.options = [j \in 1..n |-> r.options[j]]
  BY <1>4, <1>3
<1>. HIDE DEF n
<1>6. IsSeq(r.options) /\ DOMAIN r.options = 1..n
  BY <1>1, <1>5, Listing
<1>. QED  BY <1>1, <1>6

\* What is known of a row that a profile planned and the engine has read.
ReadRow(kind, request, i) ==
  /\ Rows = Plan(kind, request) /\ kind \in setup.kinds \cap SideKinds
  /\ i \in DOMAIN Rows /\ readings[i] = OwnReading(setup, Rows[i])
  /\ ReadSet(setup, Rows[i]) \subseteq 1..Len(Rows[i].ids)
  /\ setup.embeddings <=> kind \in Boxed
  /\ setup.diffusion <=> kind = "jad"

(* What the invariants say of a row that was read.                         *)
LEMMA RowsRead ==
  ASSUME CallsPlanned, IInv, ReadInside, NEW kind \in setup.kinds, NEW request \in Requests,
         Rows = Plan(kind, request), NEW i \in DOMAIN readings
  PROVE  ReadRow(kind, request, i)
<1>1. setup \in Setups
  BY DEF IInv, Typed
<1>2. /\ kind \in SideKinds /\ (setup.embeddings <=> kind \in Boxed)
      /\ (setup.diffusion <=> kind = "jad")
  BY <1>1 DEF CallsPlanned
<1>. QED  BY <1>2, ReadingsCounted DEF ReadInside, ReadRow

(* What a row asked about was seen at its slot.                            *)
LEMMA SlotSeen ==
  ASSUME NEW kind, NEW request \in Requests, NEW i, ReadRow(kind, request, i)
  PROVE  \E k \in DOMAIN request.questions :
           /\ RowAbout(kind, request, k, Rows[i])
           /\ AtSlot(i) = Seen(kind, Rows[i])
           /\ Rows[i].slot \in 1..Len(Rows[i].ids)
<1>. DEFINE r == Rows[i]
<1>1. kind \in SideKinds /\ i \in DOMAIN Plan(kind, request) /\ r = Plan(kind, request)[i]
  BY DEF ReadRow
<1>2. PICK k \in DOMAIN request.questions : RowAbout(kind, request, k, r)
  BY <1>1, PlanRows
<1>3. setup.embeddings => IsSeq(r.options)
  BY <1>2, BoxedOptions DEF ReadRow
<1>. HIDE DEF r
<1>4. 1 \in DOMAIN ReadsOf(setup, r) /\ ReadsOf(setup, r)[1] = r.slot /\ r.slot \in ReadSet(setup, r)
  BY <1>3, ReadsAre
<1>7. r.slot \in DOMAIN r.ids
  BY <1>4 DEF ReadRow, r
<1>5. AtSlot(i) = IF setup.diffusion THEN r.ids ELSE SubSeq(r.ids, 1, r.slot)
  BY <1>4, <1>7 DEF AtSlot, ReadRow, OwnReading, ReadUpTo, r
<1>6. AtSlot(i) = Seen(kind, r) /\ r.slot \in 1..Len(r.ids)
  BY <1>4, <1>5 DEF Seen, ReadRow, r
<1>. QED  BY <1>2, <1>6 DEF r

\* Prompts of jet are within the limit it cuts them to, that of the state.
ChatsFit ==
  "jet" \in setup.kinds =>
    \A request \in Requests : \A k \in DOMAIN request.questions :
      ChatRow(request, k).slot <= MaxState

(* Every row is decided over the whole of its own question, and a          *)
(* beginning of the state: whatever the engine did with it, whatever the   *)
(* profile cut of it, unless jet cut the question.                         *)
LEMMA AskingFollows ==
  ASSUME CallsPlanned, IInv, ReadInside, ChatsFit
  PROVE  AsksItsQuestion
<1>. SUFFICES ASSUME NEW request \in PlannedFrom(setup.kinds), NEW i \in DOMAIN readings
              PROVE  Asks(request, Rows[i], AtSlot(i))
  BY DEF AsksItsQuestion
<1>1. request \in Requests
  BY DEF PlannedFrom
<1>2. PICK kind \in setup.kinds : Rows = Plan(kind, request)
  BY DEF PlannedFrom
<1>3. ReadRow(kind, request, i)
  BY <1>1, <1>2, RowsRead
<1>4. PICK k \in DOMAIN request.questions :
        /\ RowAbout(kind, request, k, Rows[i]) /\ AtSlot(i) = Seen(kind, Rows[i])
        /\ Rows[i].slot \in 1..Len(Rows[i].ids)
  BY <1>1, <1>3, SlotSeen
<1>5. kind \in SideKinds /\ (kind = "jet" => ChatRow(request, k).slot <= MaxState)
  BY <1>1, <1>3 DEF ReadRow, ChatsFit
<1>6. Rows[i].slot <= Len(Rows[i].ids)
  BY <1>4
<1>. QED  BY <1>1, <1>4, <1>5, <1>6, RowAsks

(* No row is decided over less than its question, but for prompts of jet   *)
(* that are over its limit: AsksItsQuestion, in every state.               *)
THEOREM QuestionsAsked ==
  ASSUME CallsPlanned
  PROVE  Spec => [](ChatsFit => AsksItsQuestion)
<1>1. IInv /\ ReadInside => (ChatsFit => AsksItsQuestion)
  BY AskingFollows
<1>. QED  BY <1>1, ReadsInside, PTL

(* thisthat: a row reads at its slot what the single pass of the reference *)
(* has read up to there.                                                   *)
LEMMA PassFollows ==
  ASSUME CallsPlanned, IInv, ReadInside
  PROVE  MatchesSinglePass
<1>. SUFFICES ASSUME NEW request \in PlannedFrom({"thisthat"}), NEW i \in DOMAIN readings
              PROVE  \E slot \in DOMAIN SinglePass(request) :
                       /\ SinglePass(request)[slot] = Mark("answer", Rows[i].question, 0)
                       /\ AtSlot(i) = SubSeq(SinglePass(request), 1, slot)
  BY DEF MatchesSinglePass
<1>1. request \in Requests /\ "thisthat" \in setup.kinds /\ Rows = Plan("thisthat", request)
  BY DEF PlannedFrom
<1>2. ReadRow("thisthat", request, i)
  BY <1>1, RowsRead
<1>3. PICK k \in DOMAIN request.questions :
        /\ RowAbout("thisthat", request, k, Rows[i]) /\ AtSlot(i) = Seen("thisthat", Rows[i])
        /\ Rows[i].slot \in 1..Len(Rows[i].ids)
  BY <1>1, <1>2, SlotSeen
<1>4. Rows[i] = ThisthatRow(request, k) /\ AtSlot(i) = SubSeq(Rows[i].ids, 1, Rows[i].slot)
  BY <1>3 DEF RowAbout, OneRow, Seen
<1>5. Rows[i].question = k
  BY <1>4 DEF ThisthatRow, LabelRow, PlannedRow
<1>6. PICK slot : slot = Rows[i].slot
  OBVIOUS
<1>7. /\ slot \in DOMAIN SinglePass(request) /\ SinglePass(request)[slot] = Mark("answer", k, 0)
      /\ \A l \in 1..slot : Rows[i].ids[l] = SinglePass(request)[l]
  BY <1>1, <1>4, <1>6, ThisthatRows
<1>8. slot \in Nat
  BY <1>3, <1>6
<1>9. AtSlot(i) = SubSeq(SinglePass(request), 1, slot)
  BY <1>4, <1>6, <1>7, <1>8, SameBeginning
<1>. QED  BY <1>5, <1>7, <1>9

(* MatchesSinglePass, in every state, for any questions and any limit of   *)
(* the state.                                                              *)
THEOREM SinglePassMatched ==
  ASSUME CallsPlanned
  PROVE  Spec => []MatchesSinglePass
<1>1. IInv /\ ReadInside => MatchesSinglePass
  BY PassFollows
<1>. QED  BY <1>1, ReadsInside, PTL

(* kev and neohorsejev: the decision is read at the decide marker, option  *)
(* j at the end of box j.                                                  *)
LEMMA BoxesFollow ==
  ASSUME CallsPlanned, IInv, ReadInside
  PROVE  BoxesRead
<1>. SUFFICES ASSUME NEW request \in PlannedFrom(Boxed), NEW i \in DOMAIN readings
              PROVE  /\ Last(AtSlot(i)) = Mark("answer", Rows[i].question, 0)
                     /\ \A j \in Rows[i].shown :
                          Last(readings[i][j + 1]) = Mark("box_end", Rows[i].question, j)
  BY DEF BoxesRead
<1>. DEFINE r == Rows[i]
            n == Len(r.ids)
<1>1. request \in Requests
  BY DEF PlannedFrom
<1>2. PICK kind \in Boxed \cap setup.kinds : Rows = Plan(kind, request)
  BY DEF PlannedFrom
<1>3. ReadRow(kind, request, i)
  BY <1>1, <1>2, RowsRead
<1>4. PICK k \in DOMAIN request.questions :
        RowAbout(kind, request, k, r) /\ AtSlot(i) = Seen(kind, r) /\ r.slot \in 1..n
  BY <1>1, <1>3, SlotSeen
<1>5. /\ IsSeq(r.options) /\ DOMAIN r.options = Options(request, k)
      /\ setup.embeddings /\ ~setup.diffusion /\ kind # "jad"
  <2>1. IsSeq(r.options) /\ DOMAIN r.options = Options(request, k)
    BY <1>1, <1>4, BoxedOptions
  <2>. QED  BY <1>2, <1>3, <2>1 DEF ReadRow, Boxed
<1>6. \E prefix : FimWhole(request, k, prefix, r)
  <2>1. CASE kind = "kev"
    <3>1. r = KevRow(request, k)
      BY <1>4, <2>1 DEF RowAbout, OneRow
    <3>. QED  BY <1>1, <3>1, KevRows
  <2>2. CASE kind = "neohorsejev"
    <3>1. r = NeohorsejevRow(request, k) /\ r.slot <= Len(r.ids)
      BY <1>4, <2>2 DEF RowAbout, OneRow
    <3>. QED  BY <1>1, <3>1, NeohorsejevRows
  <2>. QED  BY <1>2, <2>1, <2>2 DEF Boxed
<1>. HIDE DEF r
<1>7. PICK prefix : FimWhole(request, k, prefix, r)
  BY <1>6
<1>8. /\ IsSeq(r.ids) /\ r.slot = n /\ n \in Nat /\ r.ids[n] = Mark("answer", k, 0)
      /\ r.question = k /\ r.shown = Options(request, k)
      /\ \A j \in Options(request, k) : r.ids[r.options[j]] = Mark("box_end", k, j)
  BY <1>7, SeqFacts DEF FimWhole
<1>9. \A p \in 1..n : Last(SubSeq(r.ids, 1, p)) = r.ids[p]
  <2>. SUFFICES ASSUME NEW p \in 1..n PROVE Last(SubSeq(r.ids, 1, p)) = r.ids[p]
    OBVIOUS
  <2>. DEFINE seen == SubSeq(r.ids, 1, p)
  <2>1. seen = [l \in 1..p |-> r.ids[l]]
    BY DEF SubSeq
  <2>2. seen = [l \in 1..p |-> seen[l]] /\ seen[p] = r.ids[p]
    BY <2>1
  <2>. HIDE DEF seen
  <2>3. p \in Nat
    BY <1>8
  <2>4. Len(seen) = p
    BY <2>2, <2>3, Listing
  <2>. QED  BY <2>2, <2>4 DEF Last, seen
<1>10. Last(AtSlot(i)) = Mark("answer", k, 0)
  <2>1. AtSlot(i) = SubSeq(r.ids, 1, n) /\ n \in 1..n
    BY <1>4, <1>5, <1>8 DEF Seen
  <2>. QED  BY <1>8, <1>9, <2>1
<1>11. ASSUME NEW j \in Options(request, k)
       PROVE  Last(readings[i][j + 1]) = Mark("box_end", k, j)
  <2>1. j + 1 \in DOMAIN ReadsOf(setup, r) /\ ReadsOf(setup, r)[j + 1] = r.options[j]
    BY <1>5, ReadsAre
  <2>3. r.options[j] \in 1..n
    <3>1. r.options[j] \in ReadSet(setup, r)
      BY <2>1 DEF ReadSet, Range
    <3>. QED  BY <1>3, <3>1 DEF ReadRow, r
  <2>2. readings[i][j + 1] = SubSeq(r.ids, 1, r.options[j])
    <3>1. readings[i][j + 1] = ReadUpTo(r.ids, r.options[j])
      BY <1>3, <1>5, <2>1, ZenonT(60) DEF ReadRow, OwnReading, r
    <3>2. r.options[j] \in DOMAIN r.ids
      BY <1>8, <2>3, SeqFacts
    <3>. QED  BY <3>1, <3>2 DEF ReadUpTo
  <2>. QED  BY <1>8, <1>9, <2>2, <2>3
<1>. QED  BY <1>8, <1>10, <1>11 DEF r

(* BoxesRead, in every state: whatever the batches and checkpoints did to  *)
(* positions and offsets.                                                  *)
THEOREM BoxesAreRead ==
  ASSUME CallsPlanned
  PROVE  Spec => []BoxesRead
<1>1. IInv /\ ReadInside => BoxesRead
  BY BoxesFollow
<1>. QED  BY <1>1, ReadsInside, PTL

\* The state of neohorsejev is not cut with the row.
StateFits == "neohorsejev" \in setup.kinds => MaxState <= MaxBranch

(* The tokens that are checkpointed are of no question, the same in every  *)
(* row of a request, and read by none.                                     *)
LEMMA PrefixFollows ==
  ASSUME CallsPlanned, IInv, StateFits
  PROVE  PrefixIsState
<1>. SUFFICES ASSUME NEW request \in PlannedFrom(setup.kinds), NEW i \in DOMAIN Rows
              PROVE  LET prefix == SubSeq(Rows[i].ids, 1, Rows[i].prefix)
                     IN  /\ \A token \in Range(prefix) : token[2] = 0
                         /\ prefix = SubSeq(Rows[1].ids, 1, Rows[1].prefix)
                         /\ \A p \in ReadSet(setup, Rows[i]) : Len(prefix) < p
  BY DEF PrefixIsState
<1>1. at \in DOMAIN call
  BY DEF Rows
<1>2. /\ IsRequest(setup, Rows) /\ Rows = call[at] /\ 1 \in DOMAIN Rows
      /\ call \in CallsOf(setup) /\ setup \in Setups
  <2>1. IsRequest(setup, Rows) /\ Rows = call[at] /\ Len(Rows) \in Nat \ {0} /\ DOMAIN Rows = 1..Len(Rows)
    BY <1>1, RowNow DEF IInv
  <2>2. call # <<>>
    BY <1>1
  <2>3. 1 \in DOMAIN Rows
    BY <2>1
  <2>. QED  BY <2>1, <2>2, <2>3 DEF IInv, Typed
<1>3. PICK kind \in setup.kinds : request \in Requests /\ Rows = Plan(kind, request)
  BY DEF PlannedFrom
<1>4. kind \in SideKinds /\ (setup.embeddings <=> kind \in Boxed)
  BY <1>2 DEF CallsPlanned
<1>. DEFINE prefix == PrefixOf(kind, request)
<1>5. ASSUME NEW l \in DOMAIN Rows
      PROVE  /\ Begins(Rows[l], prefix)
             /\ \A p \in ReadSet(setup, Rows[l]) : Len(prefix) < p
  <2>. DEFINE r == Rows[l]
  <2>1. PICK k \in DOMAIN request.questions : RowAbout(kind, request, k, r)
    BY <1>3, <1>4, PlanRows
  <2>2. setup.embeddings => IsSeq(r.options)
    BY <1>3, <1>4, <2>1, BoxedOptions
  <2>3. ReadsOf(setup, r) \in Seq(Nat \ {0})
    BY <1>2 DEF IsRequest, IsRow
  <2>. HIDE DEF r
  <2>4. r.slot \in Nat \ {0}
    <3>1. 1 \in DOMAIN ReadsOf(setup, r) /\ ReadsOf(setup, r)[1] = r.slot
      BY <2>2, ReadsAre
    <3>. QED  BY <2>3, <3>1
  <2>5. kind = "neohorsejev" => MaxState <= MaxBranch
    BY DEF StateFits
  <2>6. Begins(r, prefix)
    BY <1>3, <1>4, <2>1, <2>4, <2>5, RowBegins
  <2>7. \A p \in ReadSet(setup, r) : p = r.slot \/ \E j \in DOMAIN r.options : p = r.options[j]
    BY <2>2, ReadsAre
  <2>8. \A p \in ReadSet(setup, r) : Len(prefix) < p
    BY <2>6, <2>7 DEF Begins
  <2>. QED  BY <2>6, <2>8 DEF r
<1>6. /\ IsSeq(prefix) /\ \A token \in Range(prefix) : token[2] = 0
  <2>1. CASE kind \in {"jet", "jad", "tev1", "jpt"}
    <3>1. prefix = <<>>
      BY <2>1 DEF PrefixOf
    <3>. HIDE DEF prefix
    <3>2. Range(<<>>) = {}
      BY DEF Range
    <3>. QED  BY <3>1, <3>2, NoSeq
  <2>2. CASE kind \notin {"jet", "jad", "tev1", "jpt"}
    <3>1. Begun(request, prefix, FimKinds, {0}) \/ Begun(request, prefix, ContextKinds, {0})
      BY <1>3, <1>4, <2>2, Beginnings DEF PrefixOf, SideKinds
    <3>. HIDE DEF prefix
    <3>. QED  BY <3>1 DEF Begun, Piece
  <2>. QED  BY <2>1, <2>2
<1>. HIDE DEF prefix
<1>7. ASSUME NEW l \in DOMAIN Rows PROVE SubSeq(Rows[l].ids, 1, Rows[l].prefix) = prefix
  <2>1. /\ Len(prefix) \in Nat /\ Rows[l].prefix = Len(prefix)
        /\ \A j \in 1..Len(prefix) : Rows[l].ids[j] = prefix[j]
    BY <1>5 DEF Begins
  <2>2. SubSeq(Rows[l].ids, 1, Len(prefix)) = SubSeq(prefix, 1, Len(prefix))
    BY <2>1, SameBeginning
  <2>. QED  BY <1>6, <2>1, <2>2, WholeSeq
<1>. QED  BY <1>2, <1>5, <1>6, <1>7

(* PrefixIsState, in every state, unless neohorsejev is given a row limit  *)
(* below that of the state.                                                *)
THEOREM PrefixesAreState ==
  ASSUME CallsPlanned
  PROVE  Spec => [](StateFits => PrefixIsState)
<1>1. IInv => (StateFits => PrefixIsState)
  BY PrefixFollows
<1>. QED  BY <1>1, Invariance, PTL

-----------------------------------------------------------------------------
(***************************************************************************)
(* The contract of predict(), for the rows the profiles plan.              *)
(***************************************************************************)
\* The rows of neohorsejev are as long as they may be before they are cut.
BranchesFit(s) ==
  "neohorsejev" \in s.kinds =>
    \A request \in Requests : \A k \in DOMAIN request.questions :
      NeohorsejevRow(request, k).slot <= MaxBranch

(* A row is read before its end, unless neohorsejev cut it.                *)
LEMMA RowReach ==
  ASSUME NEW kind \in SideKinds, NEW request \in Requests,
         NEW k \in DOMAIN request.questions, NEW r, RowAbout(kind, request, k, r),
         r.slot \in Nat \ {0}, kind = "neohorsejev" => r.slot <= MaxBranch
  PROVE  /\ r.slot \in 1..Len(r.ids) /\ Len(r.ids) \in Nat
         /\ kind \in Boxed => \A j \in DOMAIN r.options : r.options[j] \in 1..Len(r.ids)
<1>1. ASSUME r.slot = Len(r.ids) PROVE r.slot \in 1..Len(r.ids) /\ Len(r.ids) \in Nat
  BY <1>1
<1>2. CASE kind = "decider"
  BY <1>1, <1>2, DeciderRow DEF RowAbout, WholeRow, Boxed
<1>3. CASE kind = "kev"
  <2>1. r = KevRow(request, k)
    BY <1>3 DEF RowAbout, OneRow
  <2>. QED  BY <2>1, KevRows, FimReach
<1>8. CASE kind = "neohorsejev"
  <2>1. r = NeohorsejevRow(request, k) /\ r.slot <= MaxBranch
    BY <1>8 DEF RowAbout, OneRow
  <2>2. FimWhole(request, k, Cut(FimState(request), MaxState), r)
    BY <2>1, NeohorsejevRows
  <2>. QED  BY <2>2, FimReach
<1>4. CASE kind = "thisthat"
  <2>1. r = ThisthatRow(request, k)
    BY <1>4 DEF RowAbout, OneRow
  <2>. QED  BY <1>1, <1>4, <2>1, ThisthatRows DEF WholeRow, Boxed
<1>5. CASE kind = "jet"
  <2>1. r.slot = Len(r.ids)
    BY <1>5 DEF RowAbout, OneRow, JetRow, LabelRow, PlannedRow
  <2>. QED  BY <1>1, <1>5, <2>1 DEF Boxed
<1>6. CASE kind = "jad"
  <2>1. r = JadRow(request, k)
    BY <1>6 DEF RowAbout, OneRow
  <2>. QED  BY <1>6, <2>1, ChatRows, SeqFacts DEF Boxed
<1>7. CASE kind \in {"tev1", "jpt"}
  <2>1. r = ChatRow(request, k)
    BY <1>7 DEF RowAbout, OneRow
  <2>. QED  BY <1>1, <1>7, <2>1, ChatRows DEF WholeRow, Boxed
<1>. QED  BY <1>2, <1>3, <1>4, <1>5, <1>6, <1>7, <1>8 DEF SideKinds

(* So the rows of every profile are read behind their prefix and before    *)
(* their end.                                                              *)
LEMMA PlannedReadable ==
  ASSUME CallsPlanned, NEW s \in Setups, s.kinds # {}, BranchesFit(s),
         NEW c \in CallsOf(s)
  PROVE  ~Misread(s, c)
<1>. SUFFICES ASSUME NEW l \in DOMAIN c, NEW r \in Range(c[l]), NEW p \in ReadSet(s, r)
              PROVE  p \in r.prefix + 1..Len(r.ids)
  BY DEF Misread, ReadWithin
<1>3. PICK kind \in s.kinds : Range(c) \subseteq {Plan(kind, request) : request \in Requests}
  BY DEF CallsPlanned
<1>4. PICK request \in Requests : c[l] = Plan(kind, request)
  BY <1>3 DEF Range
<1>5. kind \in SideKinds /\ (s.embeddings <=> kind \in Boxed)
  BY DEF CallsPlanned
<1>6. PICK i \in DOMAIN Plan(kind, request) : r = Plan(kind, request)[i]
  BY <1>4 DEF Range
<1>7. PICK k \in DOMAIN request.questions : RowAbout(kind, request, k, r)
  BY <1>5, <1>6, PlanRows
<1>8. s.embeddings => IsSeq(r.options)
  BY <1>5, <1>7, BoxedOptions
<1>9. r.slot \in Nat \ {0} /\ r.prefix \in Nat
  <2>1. r \in RowsOf(s)
    BY DEF RowsOf, Range
  <2>2. ReadsOf(s, r) \in Seq(Nat \ {0}) /\ r.prefix \in Nat
    BY <2>1, SideAssumption
  <2>3. 1 \in DOMAIN ReadsOf(s, r) /\ ReadsOf(s, r)[1] = r.slot
    BY <1>8, ReadsAre
  <2>. QED  BY <2>2, <2>3
<1>14. kind = "neohorsejev" => r.slot <= MaxBranch
  BY <1>7 DEF BranchesFit, RowAbout, OneRow
<1>10. Begins(r, PrefixOf(kind, request))
  BY <1>5, <1>7, <1>9, <1>14, RowBegins
<1>11. /\ r.prefix < r.slot /\ \A j \in DOMAIN r.options : r.prefix < r.options[j]
  BY <1>10 DEF Begins
<1>12. /\ r.slot \in 1..Len(r.ids) /\ Len(r.ids) \in Nat
       /\ s.embeddings => \A j \in DOMAIN r.options : r.options[j] \in 1..Len(r.ids)
  BY <1>5, <1>7, <1>9, <1>14, RowReach
<1>13. p = r.slot \/ (s.embeddings /\ \E j \in DOMAIN r.options : p = r.options[j])
  BY <1>8, ReadsAre
<1>. QED  BY <1>9, <1>11, <1>12, <1>13

\* A call that ended with an internal error has a row not read within itself.
InternalInv == error = "internal" => Misread(setup, call)

LEMMA InternalStep ==
  ASSUME IInv, InternalInv, [Next]_vars
  PROVE  InternalInv'
<1>1. CASE UNCHANGED <<setup, call, error>>
  BY <1>1 DEF InternalInv
<1>2. CASE error' # "internal"
  BY <1>2 DEF InternalInv
<1>3. CASE ScoreRow
  <2>1. CASE \A p \in ReadSet(setup, Row) : Readable(p)
    BY <1>1, <1>3, <2>1 DEF ScoreRow
  <2>2. CASE ~\A p \in ReadSet(setup, Row) : Readable(p)
    <3>1. phase = "read" /\ UNCHANGED <<setup, call>>
      BY <1>3, <2>2 DEF ScoreRow, Throw
    <3>2. Misread(setup, call)
      BY <2>2, <3>1, MisreadFound
    <3>. QED  BY <3>1, <3>2 DEF InternalInv
  <2>. QED  BY <2>1, <2>2
<1>4. CASE \E c \in CallsOf(setup) : Predict(c)
  BY <1>2, <1>4 DEF Predict
<1>5. CASE PlanRequest \/ EndRequest
  BY <1>1, <1>5 DEF PlanRequest, EndRequest
<1>6. CASE TooManyRows \/ RejectRow \/ OutputUnavailable \/ DeviceFails
  BY <1>2, <1>6 DEF TooManyRows, RejectRow, OutputUnavailable, DeviceFails, Throw
<1>7. CASE Return \/ BeginBatch \/ SelectRow \/ BeginRow
  BY <1>1, <1>7 DEF Return, BeginBatch, SelectRow, BeginRow, servingVars
<1>8. CASE Restore \/ RestoreFails \/ RestoreMisses \/ DecodePrefix \/ DecodeRest \/ DecodeCanvas
  BY <1>1, <1>8 DEF Restore, RestoreFails, RestoreMisses, DecodePrefix, DecodeRest, DecodeCanvas,
     servingVars
<1>9. CASE UNCHANGED vars
  BY <1>1, <1>9 DEF vars
<1>. QED  BY <1>3, <1>4, <1>5, <1>6, <1>7, <1>8, <1>9 DEF Next, Serving

(* A set-up for any of the profiles never ends a call with an internal     *)
(* error: no profile asks for an output its row does not have, neohorsejev *)
(* where max_branch_tokens holds every row.                                *)
THEOREM ProfilesHaveOutputs ==
  ASSUME CallsPlanned
  PROVE  Spec => [](setup.kinds # {} /\ BranchesFit(setup) => error # "internal")
<1>1. Init => InternalInv
  BY DEF Init, InternalInv
<1>2. IInv /\ InternalInv /\ [Next]_vars => InternalInv'
  BY InternalStep
<1>3. IInv /\ InternalInv => (setup.kinds # {} /\ BranchesFit(setup) => error # "internal")
  <2>. SUFFICES ASSUME IInv, InternalInv, setup.kinds # {}, BranchesFit(setup)
                PROVE  error # "internal"
    OBVIOUS
  <2>1. setup \in Setups /\ call \in CallsOf(setup) \cup {<<>>}
    BY DEF IInv, Typed
  <2>2. CASE call = <<>>
    BY <2>2 DEF InternalInv, Misread
  <2>3. CASE call \in CallsOf(setup)
    BY <2>1, <2>3, PlannedReadable DEF InternalInv
  <2>. QED  BY <2>1, <2>2, <2>3
<1>. QED  BY <1>1, <1>2, <1>3, Invariance, PTL DEF Spec
==============================================================================
