----------------------------- MODULE EngineProofs -----------------------------
(***************************************************************************)
(* Proofs about Engine, for any calls, images and limits.                  *)
(***************************************************************************)
EXTENDS Engine, Lemmas

AllRows == UNION {Range(call) : call \in Calls}

\* What a sequence of the context may hold: tokens of the rows, and images.
Words == (UNION {Range(r.tokens) : r \in AllRows}) \cup Range(ImageId)

\* What the assumptions say of a row.
IsRow(r) ==
  /\ r.tokens \in Seq(Words) /\ Len(r.tokens) \in Nat
  /\ r.labels \in Nat
  /\ r.image \in Images \cup {NoImage}
  /\ \A i \in DOMAIN r.tokens : r.tokens[i] \notin Range(ImageId)

LEMMA Parameters ==
  /\ MaxSeqs \in Nat \ {0} /\ MaxLength \in Nat \ {0} /\ ImageTokens \in Nat \ {0}
  /\ ImageLimit \in Nat \ {0} /\ Align \in Nat \ {0} /\ MinPrefix \in Nat \ {0}
  /\ Partial \subseteq Nat
  /\ 0 \in Sequences0 /\ Sequences0 \subseteq Nat
BY EngineAssumption DEF Sequences0

LEMMA CallTyped ==
  ASSUME NEW call \in Calls
  PROVE  /\ Len(call) \in Nat \ {0} /\ DOMAIN call = 1..Len(call)
         /\ call \in Seq(Range(call))
         /\ \A i \in DOMAIN call : IsRow(call[i])
<1>1. /\ call # <<>> /\ call \in Seq(Range(call))
  BY EngineAssumption
<1>2. Len(call) \in Nat \ {0} /\ DOMAIN call = 1..Len(call)
  BY <1>1
<1>3. ASSUME NEW i \in DOMAIN call PROVE IsRow(call[i])
  <2>1. PICK r : r = call[i]
    OBVIOUS
  <2>2. r \in AllRows
    <3>1. r \in Range(call)
      BY <2>1 DEF Range
    <3>. QED  BY <3>1 DEF AllRows
  <2>3. /\ r.tokens \in Seq(Range(r.tokens)) /\ r.labels \in Nat
        /\ r.image \in Images \cup {NoImage}
        /\ Range(r.tokens) \cap Range(ImageId) = {}
    BY <2>2, EngineAssumption DEF AllRows
  <2>4. Range(r.tokens) \subseteq Words
    BY <2>2 DEF Words
  <2>5. r.tokens \in Seq(Words)
    BY <2>3, <2>4, SeqMonotonic
  <2>6. \A k \in DOMAIN r.tokens : r.tokens[k] \notin Range(ImageId)
    BY <2>3 DEF Range
  <2>7. Len(r.tokens) \in Nat
    BY <2>3
  <2>. QED  BY <2>1, <2>3, <2>5, <2>6, <2>7 DEF IsRow
<1>. QED  BY <1>1, <1>2, <1>3

-----------------------------------------------------------------------------
(***************************************************************************)
(* The markers of a row.                                                   *)
(***************************************************************************)
LEMMA MarkersFinite ==
  ASSUME NEW S, NEW tokens \in Seq(S)
  PROVE  /\ MarkersOf(tokens) \in SUBSET Nat /\ IsFiniteSet(MarkersOf(tokens))
         /\ MarkersOf(tokens) \subseteq 1..Len(tokens)
         /\ Cardinality(MarkersOf(tokens)) \in Nat
<1>1. MarkersOf(tokens) \in SUBSET (1..Len(tokens)) /\ Len(tokens) \in Nat
  BY DEF MarkersOf
<1>2. IsFiniteSet(1..Len(tokens))
  BY <1>1, FS_Interval
<1>3. IsFiniteSet(MarkersOf(tokens))
  BY <1>1, <1>2, FS_Subset
<1>. QED  BY <1>1, <1>3, FS_CardinalityType

(* The k-th marker is a marker, and it is the k-th.                        *)
LEMMA MarkerFound ==
  ASSUME NEW S, NEW tokens \in Seq(S), NEW k \in 1..Cardinality(MarkersOf(tokens))
  PROVE  /\ MarkerAt(tokens, k) \in MarkersOf(tokens)
         /\ Rank(MarkersOf(tokens), MarkerAt(tokens, k)) = k
         /\ \A i \in MarkersOf(tokens) : Rank(MarkersOf(tokens), i) = k => i = MarkerAt(tokens, k)
<1>. DEFINE M == MarkersOf(tokens)
<1>1. \E i \in M : Rank(M, i) = k
  BY MarkersFinite, RankOnce
<1>2. MarkerAt(tokens, k) = CHOOSE i \in M : Rank(M, i) = k
  BY DEF MarkerAt, Rank
<1>3. MarkerAt(tokens, k) \in M /\ Rank(M, MarkerAt(tokens, k)) = k
  BY <1>1, <1>2
<1>. QED  BY <1>3, MarkersFinite, RankOnce

(* No marker comes before the first one.                                   *)
LEMMA FirstMarker ==
  ASSUME NEW S, NEW tokens \in Seq(S), NEW i \in MarkersOf(tokens)
  PROVE  /\ 1 \in 1..Cardinality(MarkersOf(tokens))
         /\ MarkerAt(tokens, 1) \in Nat \ {0} /\ MarkerAt(tokens, 1) <= i
<1>. DEFINE M == MarkersOf(tokens)
            f == MarkerAt(tokens, 1)
<1>1. M \in SUBSET Nat /\ IsFiniteSet(M) /\ M \subseteq 1..Len(tokens) /\ Cardinality(M) \in Nat
  BY MarkersFinite
<1>2. Rank(M, i) \in 1..Cardinality(M)
  BY <1>1, RankOnce
<1>3. 1 \in 1..Cardinality(M)
  BY <1>1, <1>2
<1>4. f \in M /\ Rank(M, f) = 1
  BY <1>3, MarkerFound
<1>5. ASSUME i < f PROVE FALSE
  <2>. DEFINE A == {m \in M : m <= f}
  <2>1. A \in SUBSET M /\ {i, f} \in SUBSET A /\ i # f
    <3>1. f <= f /\ i <= f
      BY <1>1, <1>4, <1>5
    <3>. QED  BY <3>1, <1>1, <1>4, <1>5
  <2>2. Cardinality(A) = 1 /\ IsFiniteSet(A)
    <3>1. Cardinality(A) = 1
      BY <1>4 DEF Rank
    <3>2. IsFiniteSet(A)
      <4>. HIDE DEF A, M
      <4>. QED  BY <1>1, <2>1, FS_Subset
    <3>. QED  BY <3>1, <3>2
  <2>. HIDE DEF A, f, M
  <2>3. Cardinality({f} \cup {i}) = 2
    <3>1. IsFiniteSet({f}) /\ Cardinality({f}) = 1 /\ i \notin {f}
      BY <2>1, FS_Singleton
    <3>2. Cardinality({f} \cup {i}) = Cardinality({f}) + 1
      BY <3>1, FS_AddElement
    <3>. QED  BY <3>1, <3>2
  <2>4. Cardinality({f} \cup {i}) <= Cardinality(A)
    <3>1. {f} \cup {i} \in SUBSET A
      BY <2>1
    <3>. QED  BY <3>1, <2>2, FS_Subset
  <2>. QED  BY <2>2, <2>3, <2>4
<1>6. f \in Nat \ {0} /\ i \in Nat
  BY <1>1, <1>4
<1>. HIDE DEF f
<1>7. f <= i
  BY <1>5, <1>6
<1>. QED  BY <1>3, <1>6, <1>7 DEF f

(* Behind a prefix without a marker the markers are the same ones.         *)
LEMMA MarkersShifted ==
  ASSUME NEW S, NEW tokens \in Seq(S), NEW n \in Nat, n <= Len(tokens),
         \A i \in MarkersOf(tokens) : n < i
  PROVE  LET tail == SubSeq(tokens, n + 1, Len(tokens))
         IN  /\ Cardinality(MarkersOf(tail)) = Cardinality(MarkersOf(tokens))
             /\ \A k \in 1..Cardinality(MarkersOf(tokens)) :
                  MarkerAt(tail, k) = MarkerAt(tokens, k) - n
<1>. DEFINE tail == SubSeq(tokens, n + 1, Len(tokens))
            M == MarkersOf(tokens)
            T == {m - n : m \in M}
<1>1. M \in SUBSET Nat /\ IsFiniteSet(M) /\ M \subseteq 1..Len(tokens) /\ Cardinality(M) \in Nat
      /\ Len(tokens) \in Nat
  BY MarkersFinite
<1>2. /\ tail \in Seq(S) /\ Len(tail) = Len(tokens) - n /\ DOMAIN tail = 1..Len(tokens) - n
      /\ \A i \in 1..Len(tokens) - n : tail[i] = tokens[n + i]
  BY <1>1
<1>3. MarkersOf(tail) = T
  <2>1. ASSUME NEW i \in MarkersOf(tail) PROVE i \in T
    <3>1. i \in 1..Len(tokens) - n /\ tail[i] = Marker
      BY <1>2 DEF MarkersOf
    <3>2. n + i \in M /\ n + i - n = i
      BY <1>1, <1>2, <3>1 DEF MarkersOf
    <3>. HIDE DEF M
    <3>3. PICK m \in M : m = n + i
      BY <3>2
    <3>4. i = m - n
      BY <3>1, <3>3
    <3>. QED  BY <3>4
  <2>2. ASSUME NEW m \in M PROVE m - n \in MarkersOf(tail)
    <3>1. m \in 1..Len(tokens) /\ n < m /\ tokens[m] = Marker
      BY DEF MarkersOf
    <3>2. m - n \in 1..Len(tokens) - n /\ n + (m - n) = m
      BY <1>1, <3>1
    <3>3. tail[m - n] = tokens[m]
      BY <1>2, <3>2
    <3>. HIDE DEF tail
    <3>. QED  BY <1>2, <3>1, <3>2, <3>3 DEF MarkersOf
  <2>. HIDE DEF tail, M
  <2>. QED  BY <2>1, <2>2
<1>4. Cardinality(MarkersOf(tail)) = Cardinality(M)
  <2>1. CASE M = {}
    BY <1>3, <2>1
  <2>2. CASE M # {}
    <3>1. PICK i : i \in M
      BY <2>2
    <3>. HIDE DEF M, tail
    <3>2. Cardinality(T) = Cardinality(M)
      BY <1>1, <3>1, RankShifted DEF M
    <3>. QED  BY <1>3, <3>2
  <2>. QED  BY <2>1, <2>2
<1>5. ASSUME NEW k \in 1..Cardinality(M)
      PROVE  MarkerAt(tail, k) = MarkerAt(tokens, k) - n
  <2>1. MarkerAt(tokens, k) \in M /\ Rank(M, MarkerAt(tokens, k)) = k
    BY MarkerFound
  <2>2. MarkerAt(tokens, k) - n \in T /\ Rank(T, MarkerAt(tokens, k) - n) = k
    BY <1>1, <2>1, RankShifted
  <2>3. k \in 1..Cardinality(MarkersOf(tail))
    BY <1>4
  <2>. HIDE DEF tail, T
  <2>. QED  BY <1>2, <1>3, <2>2, <2>3, MarkerFound
<1>. QED  BY <1>4, <1>5

-----------------------------------------------------------------------------
(***************************************************************************)
(* The group of rows that a pass scores.                                   *)
(***************************************************************************)
\* A group begins at `start`.
Begun == rows \in Calls /\ start \in 1..Len(rows)

LEMMA GroupFacts ==
  ASSUME Begun
  PROVE  /\ GroupSize \in 1..MaxSeqs /\ GroupSize \in Nat \ {0}
         /\ start \in Nat \ {0} /\ start + GroupSize \in 1..Len(rows) + 1
         /\ Len(Group) = GroupSize /\ DOMAIN Group = 1..GroupSize
         /\ \A i \in 1..GroupSize :
              /\ start + i - 1 \in DOMAIN rows /\ Group[i] = rows[start + i - 1]
              /\ IsRow(Group[i]) /\ Group[i].image = rows[start].image
<1>. DEFINE S == {n \in 1..MaxSeqs :
                    /\ start + n - 1 <= Len(rows)
                    /\ \A i \in start..start + n - 1 : rows[i].image = rows[start].image}
<1>1. /\ Len(rows) \in Nat \ {0} /\ DOMAIN rows = 1..Len(rows) /\ rows \in Seq(Range(rows))
      /\ \A i \in DOMAIN rows : IsRow(rows[i])
      /\ start \in 1..Len(rows) /\ MaxSeqs \in Nat \ {0}
  BY CallTyped, Parameters DEF Begun
<1>2. GroupSize = Max(S)
  BY DEF GroupSize
<1>3. S \in SUBSET Nat /\ S # {} /\ \A m \in S : m <= MaxSeqs
  <2>1. 1 \in S
    <3>1. \A i \in start..start + 1 - 1 : i = start
      BY <1>1
    <3>. QED  BY <1>1, <3>1
  <2>. QED  BY <1>1, <2>1
<1>. HIDE DEF S
<1>4. GroupSize \in S
  BY <1>1, <1>2, <1>3, MaxIn
<1>5. /\ GroupSize \in 1..MaxSeqs
      /\ start + GroupSize - 1 <= Len(rows)
      /\ \A i \in start..start + GroupSize - 1 : rows[i].image = rows[start].image
  BY <1>4 DEF S
<1>6. Len(Group) = GroupSize /\ DOMAIN Group = 1..GroupSize
  <2>1. start + GroupSize - 1 - start + 1 = GroupSize
    BY <1>1, <1>5
  <2>. QED  BY <1>1, <1>5, <2>1, SubSeqProperties DEF Group
<1>7. ASSUME NEW i \in 1..GroupSize
      PROVE  /\ start + i - 1 \in DOMAIN rows /\ Group[i] = rows[start + i - 1]
             /\ IsRow(Group[i]) /\ Group[i].image = rows[start].image
  <2>1. start + i - 1 \in DOMAIN rows /\ start + i - 1 \in start..start + GroupSize - 1
    BY <1>1, <1>5
  <2>2. Group[i] = rows[start + i - 1]
    BY <1>1, <1>5, <2>1 DEF Group
  <2>. QED  BY <1>1, <1>5, <2>1, <2>2
<1>. QED  BY <1>1, <1>5, <1>6, <1>7

\* A row the engine has no objection to.
Sound(r) ==
  /\ IsRow(r) /\ r.labels \in 2..128
  /\ Cardinality(MarkersOf(r.tokens)) = r.labels
  /\ Budgeted(r) <= MaxLength /\ r.image \notin Corrupt

\* A call that is not refused, with a group in it that has no flaw.
Accepted == Begun /\ ~Refused(rows) /\ GroupFlaw = "none"

LEMMA FlawTyped ==
  ASSUME NEW r, IsRow(r)
  PROVE  /\ FlawOf(r) \in {"none", "input", "internal"}
         /\ FlawOf(r) = "none" =>
              Budgeted(r) <= MaxLength /\ r.image \notin Corrupt
              /\ Cardinality(MarkersOf(r.tokens)) = r.labels
<1>1. Budgeted(r) \in Nat /\ MaxLength \in Nat /\ NoImage \notin Corrupt
  <2>1. Len(r.tokens) \in Nat /\ ImageTokens \in Nat /\ MaxLength \in Nat
    BY Parameters DEF IsRow
  <2>. QED  BY <2>1, EngineAssumption DEF Budgeted
<1>2. r.image = NoImage /\ r.tokens = <<>> => r.image \notin Corrupt /\ ~(Budgeted(r) > MaxLength)
  <2>1. Len(<<>>) = 0
    OBVIOUS
  <2>. QED  BY <1>1, <2>1 DEF Budgeted
<1>3. CASE r.image = NoImage /\ r.tokens = <<>>
  BY <1>2, <1>3 DEF FlawOf
<1>4. CASE ~(r.image = NoImage /\ r.tokens = <<>>) /\ r.image \in Corrupt
  BY <1>4 DEF FlawOf
<1>5. CASE /\ ~(r.image = NoImage /\ r.tokens = <<>>) /\ r.image \notin Corrupt
           /\ Budgeted(r) > MaxLength
  BY <1>5 DEF FlawOf
<1>6. CASE /\ ~(r.image = NoImage /\ r.tokens = <<>>) /\ r.image \notin Corrupt
           /\ ~(Budgeted(r) > MaxLength)
  <2>1. FlawOf(r) = MarkerFlaw(r)
    BY <1>6 DEF FlawOf
  <2>. QED  BY <1>1, <1>6, <2>1 DEF MarkerFlaw
<1>. QED  BY <1>3, <1>4, <1>5, <1>6

(* What is within the budget: the tokens, or the tokens and the image.     *)
LEMMA SoundFits ==
  ASSUME NEW r, IsRow(r)
  PROVE  /\ Budgeted(r) \in Nat /\ Len(r.tokens) <= Budgeted(r)
         /\ r.image = NoImage => Budgeted(r) = Len(r.tokens)
         /\ r.image # NoImage => Budgeted(r) = Len(r.tokens) + ImageTokens
<1>1. Len(r.tokens) \in Nat /\ ImageTokens \in Nat
  BY Parameters DEF IsRow
<1>2. CASE r.image = NoImage
  <2>1. Budgeted(r) = Len(r.tokens) + 0
    BY <1>2 DEF Budgeted
  <2>. QED  BY <1>1, <1>2, <2>1
<1>3. CASE r.image # NoImage
  <2>1. Budgeted(r) = Len(r.tokens) + ImageTokens
    BY <1>3 DEF Budgeted
  <2>. QED  BY <1>1, <1>3, <2>1
<1>. QED  BY <1>2, <1>3

(* The flaw of a group is one of its rows', and there is none without one. *)
LEMMA GroupJudged ==
  ASSUME Begun
  PROVE  /\ GroupFlaw \in {"none", "input", "internal"}
         /\ GroupFlaw = "none" => \A i \in 1..GroupSize : FlawOf(Group[i]) = "none"
         /\ GroupFlaw # "none" => \E i \in DOMAIN rows : FlawOf(rows[i]) # "none"
<1>. DEFINE F == {i \in DOMAIN Group : FlawOf(Group[i]) # "none"}
<1>1. /\ DOMAIN Group = 1..GroupSize /\ GroupSize \in Nat
      /\ \A i \in 1..GroupSize : IsRow(Group[i]) /\ start + i - 1 \in DOMAIN rows
                                 /\ Group[i] = rows[start + i - 1]
  BY GroupFacts
<1>2. CASE F = {}
  <2>1. \A i \in DOMAIN Group : FlawOf(Group[i]) = "none"
    BY <1>2
  <2>2. GroupFlaw = "none"
    BY <2>1 DEF GroupFlaw
  <2>. QED  BY <1>1, <2>1, <2>2
<1>3. CASE F # {}
  <2>1. F \in SUBSET Nat
    BY <1>1
  <2>2. GroupFlaw = FlawOf(Group[Min(F)])
    BY <1>3 DEF GroupFlaw
  <2>3. Min(F) \in F
    <3>. HIDE DEF F
    <3>. QED  BY <1>3, <2>1, MinIn
  <2>4. Min(F) \in 1..GroupSize /\ GroupFlaw # "none"
    BY <1>1, <2>2, <2>3
  <2>5. GroupFlaw \in {"none", "input", "internal"}
    BY <1>1, <2>2, <2>4, FlawTyped
  <2>6. \E i \in DOMAIN rows : FlawOf(rows[i]) # "none"
    BY <1>1, <2>2, <2>4
  <2>. QED  BY <2>4, <2>5, <2>6
<1>. QED  BY <1>2, <1>3

LEMMA GroupSound ==
  ASSUME Accepted
  PROVE  \A i \in 1..GroupSize : Sound(Group[i])
<1>. SUFFICES ASSUME NEW i \in 1..GroupSize PROVE Sound(Group[i])
  OBVIOUS
<1>1. IsRow(Group[i]) /\ Group[i] = rows[start + i - 1] /\ start + i - 1 \in DOMAIN rows
  BY GroupFacts DEF Accepted
<1>2. FlawOf(Group[i]) = "none"
  BY GroupJudged DEF Accepted
<1>3. Group[i].labels \in 2..128
  BY <1>1 DEF Accepted, Refused
<1>. QED  BY <1>1, <1>2, <1>3, FlawTyped DEF Sound

-----------------------------------------------------------------------------
(***************************************************************************)
(* The prefix that the rows of a group share.                              *)
(***************************************************************************)
(* Two sequences with a common prefix have every shorter one in common.    *)
LEMMA PrefixOfPrefix ==
  ASSUME NEW S, NEW s \in Seq(S), NEW t \in Seq(S), NEW l \in Nat, NEW n \in Nat,
         l <= Len(s), l <= Len(t), n <= l, SubSeq(s, 1, l) = SubSeq(t, 1, l)
  PROVE  SubSeq(s, 1, n) = SubSeq(t, 1, n)
<1>1. \A i \in 1..l : s[i] = t[i]
  <2>1. \A i \in 1..l : SubSeq(s, 1, l)[i] = s[i] /\ SubSeq(t, 1, l)[i] = t[i]
    OBVIOUS
  <2>. QED  BY <2>1
<1>2. \A i \in 1..n : s[i] = t[i]
  BY <1>1
<1>3. /\ SubSeq(s, 1, n) = [i \in 1..n |-> s[i]]
      /\ SubSeq(t, 1, n) = [i \in 1..n |-> t[i]]
  OBVIOUS
<1>. QED  BY <1>2, <1>3

LEMMA AlignedDown ==
  ASSUME NEW n \in Nat
  PROVE  Aligned(n) \in Nat /\ Aligned(n) <= n /\ Aligned(n) % Align = 0
<1>. Align \in Nat \ {0}
  BY Parameters
<1>. PICK a \in Nat \ {0} : a = Align
  OBVIOUS
<1>. PICK q \in Nat : q = n \div a
  OBVIOUS
<1>1. q * a \in Nat /\ q * a <= n
  OBVIOUS
<1>2. (q * a) % a = 0
  OBVIOUS
<1>. QED  BY <1>1, <1>2 DEF Aligned

(* It is a prefix of every row, and every marker of a row comes after it.  *)
LEMMA PrefixShared ==
  ASSUME Accepted
  PROVE  LET n == SharedLength(Group)
         IN  /\ n \in 0..MaxLength /\ n % Align = 0
             /\ \A i \in 1..GroupSize :
                  /\ n <= Len(Group[i].tokens)
                  /\ SubSeq(Group[i].tokens, 1, n) = SubSeq(Group[1].tokens, 1, n)
                  /\ \A m \in MarkersOf(Group[i].tokens) : n < m
<1>. DEFINE G == Group
            n == SharedLength(G)
            common == {l \in 0..Len(G[1].tokens) :
                         \A i \in DOMAIN G :
                           /\ l <= Len(G[i].tokens)
                           /\ SubSeq(G[i].tokens, 1, l) = SubSeq(G[1].tokens, 1, l)}
            before == {MarkerAt(G[i].tokens, 1) - 1 : i \in DOMAIN G}
            spare == Max({Longest(G) - 2, 0})
            bounds == before \cup {CommonLength(G), spare}
<1>1. /\ GroupSize \in Nat \ {0} /\ 1 \in 1..GroupSize
      /\ Len(G) = GroupSize /\ DOMAIN G = 1..GroupSize /\ MaxLength \in Nat
  BY GroupFacts, Parameters DEF Accepted
<1>2. ASSUME NEW i \in 1..GroupSize
      PROVE  /\ IsRow(G[i]) /\ G[i].tokens \in Seq(Words) /\ Len(G[i].tokens) \in Nat
             /\ Len(G[i].tokens) <= MaxLength
             /\ Cardinality(MarkersOf(G[i].tokens)) \in 2..128
             /\ MarkersOf(G[i].tokens) \in SUBSET (Nat \ {0})
  <2>1. Sound(G[i])
    BY GroupSound
  <2>2. /\ IsRow(G[i]) /\ Budgeted(G[i]) <= MaxLength
        /\ Cardinality(MarkersOf(G[i].tokens)) \in 2..128
    BY <2>1 DEF Sound
  <2>3. G[i].tokens \in Seq(Words) /\ Len(G[i].tokens) \in Nat
    BY <2>2 DEF IsRow
  <2>4. Len(G[i].tokens) <= Budgeted(G[i]) /\ Budgeted(G[i]) \in Nat
    BY <2>2, SoundFits
  <2>5. Len(G[i].tokens) <= MaxLength
    BY <1>1, <2>2, <2>3, <2>4
  <2>6. MarkersOf(G[i].tokens) \in SUBSET (Nat \ {0})
    <3>1. MarkersOf(G[i].tokens) \subseteq 1..Len(G[i].tokens)
      BY <2>3, MarkersFinite
    <3>. QED  BY <2>3, <3>1
  <2>. QED  BY <2>2, <2>3, <2>5, <2>6
<1>3. CASE Len(G) = 1
  <2>1. n = 0
    BY <1>3 DEF SharedLength
  <2>2. \A i \in 1..GroupSize : SubSeq(G[i].tokens, 1, 0) = SubSeq(G[1].tokens, 1, 0)
    <3>1. \A i \in 1..GroupSize : SubSeq(G[i].tokens, 1, 0) = <<>>
      BY SubSeqEmpty
    <3>. QED  BY <1>1, <3>1
  <2>3. 0 % Align = 0
    BY Parameters
  <2>4. \A i \in 1..GroupSize : \A m \in MarkersOf(G[i].tokens) : 0 < m
    <3>. HIDE DEF G
    <3>1. \A i \in 1..GroupSize : MarkersOf(G[i].tokens) \in SUBSET (Nat \ {0})
      BY <1>2
    <3>2. \A m \in Nat \ {0} : 0 < m
      OBVIOUS
    <3>. QED  BY <3>1, <3>2
  <2>. HIDE DEF G, n
  <2>. QED  BY <1>1, <1>2, <2>1, <2>2, <2>3, <2>4 DEF G, n
<1>4. CASE Len(G) # 1
  <2>1. n = Aligned(Min(bounds))
    BY <1>4 DEF SharedLength
  <2>2. CommonLength(G) = Max(common)
    BY DEF CommonLength
  <2>3. Max(common) \in common
    <3>1. 0 \in common
      <4>1. \A i \in DOMAIN G : SubSeq(G[i].tokens, 1, 0) = <<>> /\ 0 <= Len(G[i].tokens)
        BY <1>1, <1>2, SubSeqEmpty
      <4>2. SubSeq(G[1].tokens, 1, 0) = <<>> /\ 0 \in 0..Len(G[1].tokens)
        BY <1>1, <1>2, SubSeqEmpty
      <4>. HIDE DEF G
      <4>. QED  BY <4>1, <4>2
    <3>2. common \in SUBSET Nat /\ \A l \in common : l <= Len(G[1].tokens)
      BY <1>1, <1>2
    <3>3. Len(G[1].tokens) \in Nat
      BY <1>1, <1>2
    <3>. HIDE DEF common, G
    <3>. QED  BY <3>1, <3>2, <3>3, MaxIn
  <2>4. ASSUME NEW i \in 1..GroupSize, NEW m \in MarkersOf(G[i].tokens)
        PROVE  MarkerAt(G[i].tokens, 1) - 1 \in Nat /\ MarkerAt(G[i].tokens, 1) - 1 < m
    <3>1. MarkerAt(G[i].tokens, 1) \in Nat \ {0} /\ MarkerAt(G[i].tokens, 1) <= m /\ m \in Nat
      BY <1>2, FirstMarker
    <3>. QED  BY <3>1
  <2>5. before \in SUBSET Nat
    <3>1. ASSUME NEW i \in 1..GroupSize PROVE MarkerAt(G[i].tokens, 1) - 1 \in Nat
      <4>1. MarkersOf(G[i].tokens) # {}
        <5>1. Cardinality(MarkersOf(G[i].tokens)) \in 2..128
          BY <1>2
        <5>. HIDE DEF G
        <5>. QED  BY <5>1, FS_EmptySet
      <4>. QED  BY <2>4, <4>1
    <3>. QED  BY <1>1, <3>1
  <2>6. spare \in Nat
    <3>. DEFINE lengths == {Len(G[i].tokens) : i \in DOMAIN G}
    <3>1. lengths \in SUBSET Nat /\ lengths # {} /\ \A l \in lengths : l <= MaxLength
      <4>1. \A i \in 1..GroupSize : Len(G[i].tokens) \in Nat /\ Len(G[i].tokens) <= MaxLength
        BY <1>2
      <4>. HIDE DEF G
      <4>. QED  BY <1>1, <4>1
    <3>. HIDE DEF lengths
    <3>2. Max(lengths) \in Nat
      BY <1>1, <3>1, MaxIn
    <3>3. Longest(G) \in Nat
      BY <3>2 DEF Longest, lengths
    <3>4. PICK x \in Nat : x = Longest(G)
      BY <3>3
    <3>. DEFINE T == {x - 2, 0}
    <3>5. CASE x >= 2
      <4>1. T \in SUBSET Nat /\ T # {} /\ \A y \in T : y <= x
        BY <3>5
      <4>. HIDE DEF T
      <4>2. Max(T) \in Nat
        BY <4>1, MaxIn
      <4>. QED  BY <3>4, <4>2 DEF T
    <3>6. CASE ~(x >= 2)
      <4>1. 0 \in T /\ \A y \in T : 0 >= y
        BY <3>6
      <4>2. \A z \in T : (\A y \in T : z >= y) => z = 0
        BY <3>6
      <4>. HIDE DEF T
      <4>3. Max(T) = 0
        BY <4>1, <4>2 DEF Max
      <4>. QED  BY <3>4, <4>3 DEF T
    <3>. QED  BY <3>5, <3>6
  <2>7. Min(bounds) \in Nat /\ bounds \in SUBSET Nat /\ \A b \in bounds : Min(bounds) <= b
    <3>1. CommonLength(G) \in Nat
      BY <2>2, <2>3, <1>1, <1>2
    <3>2. bounds \in SUBSET Nat /\ bounds # {}
      BY <2>5, <2>6, <3>1
    <3>. HIDE DEF bounds
    <3>. QED  BY <3>2, MinIn
  <2>8. n \in Nat /\ n <= Min(bounds) /\ n % Align = 0
    BY <2>1, <2>7, AlignedDown
  <2>9. /\ n <= Max(common) /\ Max(common) \in Nat
        /\ \A i \in 1..GroupSize :
             n <= MarkerAt(G[i].tokens, 1) - 1
    <3>1. Max(common) \in bounds /\ \A i \in 1..GroupSize : MarkerAt(G[i].tokens, 1) - 1 \in bounds
      BY <1>1, <2>2
    <3>. HIDE DEF bounds, common, n, G
    <3>2. \A b \in bounds : b \in Nat /\ n <= b
      BY <2>7, <2>8
    <3>. QED  BY <3>1, <3>2
  <2>10. ASSUME NEW i \in 1..GroupSize
         PROVE  /\ n <= Len(G[i].tokens)
                /\ SubSeq(G[i].tokens, 1, n) = SubSeq(G[1].tokens, 1, n)
                /\ \A m \in MarkersOf(G[i].tokens) : n < m
    <3>1. PICK l \in Nat : l = Max(common)
      BY <2>9
    <3>2. /\ l <= Len(G[i].tokens) /\ l <= Len(G[1].tokens) /\ n <= l /\ n \in Nat
          /\ SubSeq(G[i].tokens, 1, l) = SubSeq(G[1].tokens, 1, l)
      BY <1>1, <2>3, <2>8, <2>9, <3>1
    <3>3. G[i].tokens \in Seq(Words) /\ G[1].tokens \in Seq(Words)
      BY <1>1, <1>2
    <3>4. SubSeq(G[i].tokens, 1, n) = SubSeq(G[1].tokens, 1, n)
      <4>. HIDE DEF n, G, common
      <4>. QED  BY <3>2, <3>3, PrefixOfPrefix
    <3>5. \A m \in MarkersOf(G[i].tokens) : n < m
      <4>. SUFFICES ASSUME NEW m \in MarkersOf(G[i].tokens) PROVE n < m
        OBVIOUS
      <4>1. MarkerAt(G[i].tokens, 1) - 1 \in Nat /\ MarkerAt(G[i].tokens, 1) - 1 < m /\ m \in Nat
        BY <1>2, <2>4
      <4>2. n <= MarkerAt(G[i].tokens, 1) - 1 /\ n \in Nat
        BY <2>8, <2>9
      <4>. HIDE DEF n, G
      <4>. QED  BY <4>1, <4>2
    <3>6. n <= Len(G[i].tokens)
      <4>. HIDE DEF n, G, common
      <4>. QED  BY <1>2, <3>2
    <3>. QED  BY <3>4, <3>5, <3>6
  <2>11. n <= MaxLength
    <3>. HIDE DEF n, G
    <3>. QED  BY <1>1, <1>2, <2>8, <2>10
  <2>. HIDE DEF n
  <2>12. n \in 0..MaxLength
    BY <1>1, <2>8, <2>11
  <2>. QED  BY <2>8, <2>10, <2>12 DEF n
<1>. QED  BY <1>3, <1>4

\* The prefix of the pass is the one planned for its group.
Planned == Accepted /\ shared = SharedLength(Group)

(* What is left of a row behind the prefix.                                *)
LEMMA SuffixFacts ==
  ASSUME Planned, NEW i \in 1..GroupSize
  PROVE  LET r == Group[i]
         IN  /\ Sound(r) /\ r.tokens \in Seq(Words) /\ Len(r.tokens) \in Nat
             /\ shared \in Nat /\ shared <= Len(r.tokens)
             /\ PrefixTokens \in Seq(Words) /\ Len(PrefixTokens) = shared
             /\ SuffixOf(r) \in Seq(Words) /\ Len(SuffixOf(r)) = Len(r.tokens) - shared
             /\ DOMAIN SuffixOf(r) = 1..Len(r.tokens) - shared
             /\ \A k \in 1..Len(r.tokens) - shared : SuffixOf(r)[k] = r.tokens[shared + k]
             /\ PrefixTokens \o SuffixOf(r) = r.tokens
             /\ PrefixTokens = SubSeq(r.tokens, 1, shared)
<1>. DEFINE s == Group[i].tokens
<1>1. /\ Sound(Group[i]) /\ s \in Seq(Words) /\ Len(s) \in Nat
  BY GroupSound DEF Planned, Sound, IsRow
<1>2. /\ shared \in Nat /\ shared <= Len(s)
      /\ SubSeq(s, 1, shared) = SubSeq(Group[1].tokens, 1, shared)
  BY PrefixShared DEF Planned
<1>3. PrefixTokens = SubSeq(s, 1, shared)
  BY <1>2 DEF PrefixTokens
<1>4. SuffixOf(Group[i]) = SubSeq(s, shared + 1, Len(s))
  BY DEF SuffixOf
<1>. HIDE DEF s
<1>5. /\ SubSeq(s, 1, shared) \in Seq(Words) /\ Len(SubSeq(s, 1, shared)) = shared
      /\ SubSeq(s, shared + 1, Len(s)) \in Seq(Words)
      /\ Len(SubSeq(s, shared + 1, Len(s))) = Len(s) - shared
      /\ DOMAIN SubSeq(s, shared + 1, Len(s)) = 1..Len(s) - shared
      /\ \A k \in 1..Len(s) - shared : SubSeq(s, shared + 1, Len(s))[k] = s[shared + k]
  BY <1>1, <1>2, SMTT(60)
<1>6. SubSeq(s, 1, shared) \o SubSeq(s, shared + 1, Len(s)) = s
  <2>1. 1 \in 1..Len(s) + 1 /\ shared \in 1 - 1..Len(s) /\ Len(s) \in shared..Len(s)
    BY <1>1, <1>2
  <2>2. SubSeq(s, 1, shared) \o SubSeq(s, shared + 1, Len(s)) = SubSeq(s, 1, Len(s))
    BY <1>1, <2>1, ConcatAdjacentSubSeq
  <2>. QED  BY <1>1, <2>2, SubSeqFull
<1>. QED  BY <1>1, <1>2, <1>3, <1>4, <1>5, <1>6 DEF s

(* All the markers of a row are in its suffix, in their order.             *)
LEMMA SuffixMarkers ==
  ASSUME Planned, NEW i \in 1..GroupSize, NEW k \in 1..Group[i].labels
  PROVE  LET r == Group[i]
         IN  /\ MarkerAt(r.tokens, k) \in shared + 1..Len(r.tokens)
             /\ r.tokens[MarkerAt(r.tokens, k)] = Marker
             /\ MarkerAt(SuffixOf(r), k) = MarkerAt(r.tokens, k) - shared
<1>. DEFINE s == Group[i].tokens
<1>1. /\ Sound(Group[i]) /\ s \in Seq(Words) /\ Len(s) \in Nat
      /\ shared \in Nat /\ shared <= Len(s)
  BY SuffixFacts
<1>2. k \in 1..Cardinality(MarkersOf(s))
  BY <1>1 DEF Sound
<1>3. \A m \in MarkersOf(s) : shared < m
  BY PrefixShared DEF Planned
<1>4. SuffixOf(Group[i]) = SubSeq(s, shared + 1, Len(s))
  BY DEF SuffixOf
<1>. HIDE DEF s
<1>5. MarkerAt(SubSeq(s, shared + 1, Len(s)), k) = MarkerAt(s, k) - shared
  BY <1>1, <1>2, <1>3, MarkersShifted
<1>6. MarkerAt(s, k) \in MarkersOf(s)
  BY <1>1, <1>2, MarkerFound
<1>7. MarkerAt(s, k) \in 1..Len(s) /\ s[MarkerAt(s, k)] = Marker /\ shared < MarkerAt(s, k)
  BY <1>1, <1>3, <1>6 DEF MarkersOf
<1>8. MarkerAt(s, k) \in shared + 1..Len(s)
  BY <1>1, <1>7
<1>. QED  BY <1>4, <1>5, <1>7, <1>8 DEF s

(* Where the batch has the tokens of each row, and that it is no larger    *)
(* than all the rows together.                                             *)
LEMMA BatchLaid ==
  ASSUME Planned
  PROVE  /\ Len(Batch) \in 0..MaxSeqs * MaxLength /\ DOMAIN Batch = 1..Len(Batch)
         /\ \A i \in 1..GroupSize :
              /\ Base(i) \in Nat /\ Base(i) + Len(SuffixOf(Group[i])) <= Len(Batch)
              /\ \A k \in 1..Len(SuffixOf(Group[i])) :
                   Batch[Base(i) + k] = [seq |-> i - 1, pos |-> shared + k,
                                         out |-> SuffixOf(Group[i])[k] = Marker]
<1>. DEFINE Slot == [seq : Nat, pos : Nat, out : BOOLEAN]
            slots(i) == [k \in DOMAIN SuffixOf(Group[i]) |->
                           [seq |-> i - 1, pos |-> shared + k,
                            out |-> SuffixOf(Group[i])[k] = Marker]]
            first(n) == [i \in 1..n |-> slots(i)]
            w == Lengths(first(GroupSize))
<1>1. GroupSize \in 1..MaxSeqs /\ MaxSeqs \in Nat /\ MaxLength \in Nat /\ GroupSize \in Nat
  BY GroupFacts, Parameters DEF Planned, Accepted
<1>2. ASSUME NEW i \in 1..GroupSize
      PROVE  /\ slots(i) \in Seq(Slot) /\ Len(slots(i)) = Len(SuffixOf(Group[i]))
             /\ Len(slots(i)) \in Nat /\ Len(slots(i)) <= MaxLength
             /\ DOMAIN slots(i) = 1..Len(SuffixOf(Group[i]))
  <2>1. PICK l \in Nat : l = Len(SuffixOf(Group[i])) /\ DOMAIN SuffixOf(Group[i]) = 1..l
                         /\ l <= MaxLength /\ shared \in Nat
    <3>1. /\ Sound(Group[i]) /\ shared \in Nat /\ shared <= Len(Group[i].tokens)
          /\ Len(SuffixOf(Group[i])) = Len(Group[i].tokens) - shared
          /\ DOMAIN SuffixOf(Group[i]) = 1..Len(Group[i].tokens) - shared
          /\ Len(Group[i].tokens) \in Nat
      BY SuffixFacts
    <3>2. Len(Group[i].tokens) <= Budgeted(Group[i]) /\ Budgeted(Group[i]) \in Nat
          /\ Budgeted(Group[i]) <= MaxLength
      BY <3>1, SoundFits DEF Sound
    <3>. DEFINE t == Len(Group[i].tokens)
    <3>3. t \in Nat /\ t <= MaxLength
      BY <1>1, <3>1, <3>2
    <3>4. Len(SuffixOf(Group[i])) = t - shared /\ DOMAIN SuffixOf(Group[i]) = 1..t - shared
          /\ shared \in Nat /\ shared <= t
      BY <3>1
    <3>. HIDE DEF t
    <3>5. t - shared \in Nat /\ t - shared <= MaxLength
      BY <1>1, <3>3, <3>4
    <3>. QED  BY <3>4, <3>5
  <2>2. \A k \in 1..l : [seq |-> i - 1, pos |-> shared + k,
                         out |-> SuffixOf(Group[i])[k] = Marker] \in Slot
    BY <1>1, <2>1
  <2>. QED  BY <2>1, <2>2
<1>3. ASSUME NEW n \in 0..GroupSize
      PROVE  /\ SuffixBatch(n) \in Seq(Slot) /\ Laid(SuffixBatch(n), first(n), n)
             /\ \A j \in 0..n : Total(Lengths(first(n)), 1..j) = Total(w, 1..j)
  <2>1. first(n) \in [1..n -> Seq(Slot)] /\ n \in Nat
    BY <1>1, <1>2
  <2>2. SuffixBatch(n) = FlattenSeq(first(n))
    BY DEF SuffixBatch
  <2>3. \A i \in 1..n : Lengths(first(n))[i] = w[i]
    BY <1>1 DEF Lengths
  <2>. HIDE DEF w, first, Slot
  <2>4. \A j \in 0..n : Total(Lengths(first(n)), 1..j) = Total(w, 1..j)
    <3>. SUFFICES ASSUME NEW j \in 0..n
                  PROVE  Total(Lengths(first(n)), 1..j) = Total(w, 1..j)
      OBVIOUS
    <3>1. \A i \in 1..j : Lengths(first(n))[i] = w[i]
      BY <2>3
    <3>. QED  BY <3>1, TotalSame
  <2>. QED  BY <2>1, <2>2, <2>4, FlattenLays
<1>4. \A i \in 1..GroupSize : w[i] = Len(SuffixOf(Group[i])) /\ w[i] \in Nat /\ w[i] <= MaxLength
  BY <1>2 DEF Lengths
<1>5. ASSUME NEW i \in 1..GroupSize PROVE Base(i) = Total(w, 1..i - 1)
  <2>1. i - 1 \in 0..GroupSize /\ i - 1 \in 0..i - 1
    BY <1>1
  <2>2. Len(SuffixBatch(i - 1)) = Total(Lengths(first(i - 1)), 1..i - 1)
    BY <1>3, <2>1 DEF Laid
  <2>. HIDE DEF w, first
  <2>. QED  BY <1>3, <2>1, <2>2 DEF Base
<1>6. /\ Batch \in Seq(Slot) /\ Laid(Batch, first(GroupSize), GroupSize)
  <2>1. GroupSize \in 0..GroupSize
    BY <1>1
  <2>. HIDE DEF Slot, first, w
  <2>. QED  BY <1>3, <2>1 DEF Batch
<1>7. Len(Batch) = Total(w, 1..GroupSize)
  BY <1>6 DEF Laid
<1>8. Len(Batch) \in 0..MaxSeqs * MaxLength
  <2>. HIDE DEF w
  <2>1. Len(Batch) \in Nat /\ Len(Batch) <= GroupSize * MaxLength
    BY <1>1, <1>4, <1>7, TotalBounded
  <2>2. PICK n \in Nat : n = GroupSize /\ n <= MaxSeqs
    BY <1>1
  <2>3. n * MaxLength <= MaxSeqs * MaxLength /\ n * MaxLength \in Nat /\ MaxSeqs * MaxLength \in Nat
    BY <1>1, <2>2
  <2>. QED  BY <2>1, <2>2, <2>3
<1>9. ASSUME NEW i \in 1..GroupSize
      PROVE  /\ Base(i) \in Nat /\ Base(i) + Len(SuffixOf(Group[i])) <= Len(Batch)
             /\ \A k \in 1..Len(SuffixOf(Group[i])) : Batch[Base(i) + k] = slots(i)[k]
  <2>1. /\ Total(w, 1..i - 1) \in Nat
        /\ Total(w, 1..i - 1) + Len(first(GroupSize)[i]) <= Len(Batch)
        /\ \A k \in 1..Len(first(GroupSize)[i]) :
             Batch[Total(w, 1..i - 1) + k] = first(GroupSize)[i][k]
    BY <1>6 DEF Laid
  <2>2. first(GroupSize)[i] = slots(i)
    OBVIOUS
  <2>. HIDE DEF w, first, slots
  <2>. QED  BY <1>2, <1>5, <2>1, <2>2
<1>10. DOMAIN Batch = 1..Len(Batch)
  <2>. HIDE DEF Slot
  <2>. QED  BY <1>6
<1>. QED  BY <1>2, <1>8, <1>9, <1>10

(* Every marker state can be read, at its own row and position.            *)
LEMMA BatchReadable ==
  ASSUME Planned
  PROVE  /\ AllReadable
         /\ \A i \in 1..GroupSize : \A k \in 1..Group[i].labels :
              /\ Batch[ReadIndex(i, k) + 1].seq = i - 1
              /\ Batch[ReadIndex(i, k) + 1].pos = MarkerAt(Group[i].tokens, k)
<1>1. ASSUME NEW i \in 1..GroupSize, NEW k \in 1..Group[i].labels
      PROVE  /\ ReadIndex(i, k) + 1 \in DOMAIN Batch
             /\ Batch[ReadIndex(i, k) + 1].seq = i - 1
             /\ Batch[ReadIndex(i, k) + 1].pos = MarkerAt(Group[i].tokens, k)
             /\ Batch[ReadIndex(i, k) + 1].out = TRUE
  <2>. DEFINE m == MarkerAt(Group[i].tokens, k)
              p == m - shared
  <2>1. /\ shared \in Nat /\ Len(Group[i].tokens) \in Nat /\ shared <= Len(Group[i].tokens)
        /\ Len(SuffixOf(Group[i])) = Len(Group[i].tokens) - shared
        /\ \A q \in 1..Len(Group[i].tokens) - shared :
             SuffixOf(Group[i])[q] = Group[i].tokens[shared + q]
    BY SuffixFacts
  <2>2. m \in shared + 1..Len(Group[i].tokens) /\ Group[i].tokens[m] = Marker
    BY SuffixMarkers
  <2>3. /\ Len(Batch) \in Nat /\ DOMAIN Batch = 1..Len(Batch)
        /\ Base(i) \in Nat /\ Base(i) + Len(SuffixOf(Group[i])) <= Len(Batch)
        /\ \A q \in 1..Len(SuffixOf(Group[i])) :
             Batch[Base(i) + q] = [seq |-> i - 1, pos |-> shared + q,
                                   out |-> SuffixOf(Group[i])[q] = Marker]
    BY BatchLaid
  <2>4. ReadIndex(i, k) = Base(i) + m - 1 - shared
    BY DEF ReadIndex
  <2>. HIDE DEF m
  <2>5. /\ p \in 1..Len(SuffixOf(Group[i])) /\ shared + p = m
        /\ ReadIndex(i, k) + 1 = Base(i) + p
    BY <2>1, <2>2, <2>3, <2>4
  <2>6. Base(i) + p \in 1..Len(Batch)
    BY <2>1, <2>3, <2>5, SMTT(60)
  <2>7. SuffixOf(Group[i])[p] = Marker
    BY <2>1, <2>2, <2>5
  <2>. HIDE DEF p
  <2>8. Batch[Base(i) + p] = [seq |-> i - 1, pos |-> shared + p, out |-> TRUE]
    BY <2>3, <2>5, <2>7
  <2>. QED  BY <2>3, <2>5, <2>6, <2>8 DEF m
<1>2. DOMAIN Group = 1..GroupSize
  BY GroupFacts DEF Planned, Accepted
<1>. QED  BY <1>1, <1>2 DEF AllReadable, Readable

-----------------------------------------------------------------------------
(***************************************************************************)
(* The inductive invariant.                                                *)
(***************************************************************************)
\* An encoded image is held under the id of its bytes.
ImageEntry == {[id |-> x, embeddings |-> x] : x \in Range(ImageId)}

Typed ==
  /\ rows \in Calls \cup {<<>>} /\ start \in 1..Len(rows) + 1
  /\ phase \in Phases
  /\ memory \in [Sequences0 -> Seq(Words)]
  /\ shared \in 0..MaxLength /\ shared % Align = 0
  /\ row \in Sequences0
  /\ DOMAIN results = DOMAIN rows
  /\ error \in {"none", "input", "internal", "device"}
  /\ width \in 0..MaxSeqs * MaxLength
  /\ prefixes \in CacheOf(Words)
  /\ images \in Seq(ImageEntry)

TextPhases  == {"restore", "prefix", "share", "suffix", "read"}
ImagePhases == {"image", "encoded", "tail", "rows"}

\* A pass is at work on a group without a flaw, with the prefix planned for it.
PassInv ==
  /\ phase \in TextPhases \cup ImagePhases => Planned /\ error = "none"
  /\ phase \in TextPhases => ~IsImageGroup
  /\ phase \in ImagePhases => IsImageGroup
  /\ phase \in {"restore", "prefix", "share"} => shared > 0
  /\ phase \in {"image", "encoded", "tail"} => row = 0
  /\ phase = "rows" => row < GroupSize
  /\ phase = "group" => rows \in Calls /\ ~Refused(rows) /\ error = "none"
  /\ phase = "idle" /\ error = "none" => start = Len(rows) + 1

\* What the sequences have read when a phase begins.
MemoryInv ==
  \A s \in Sequences0 :
    /\ phase \in {"restore", "prefix", "image", "encoded"} => memory[s] = <<>>
    /\ phase = "share" => memory[s] = IF s = 0 THEN PrefixTokens ELSE <<>>
    /\ phase = "suffix" => memory[s] = IF s < GroupSize THEN PrefixTokens ELSE <<>>
    /\ phase = "read" => memory[s] = IF s < GroupSize THEN Group[s + 1].tokens ELSE <<>>
    /\ phase = "tail" => memory[s] = IF s = 0 THEN <<GroupImage>> ELSE <<>>
    /\ phase = "rows" =>
         memory[s] = IF s < row THEN <<GroupImage>> \o Group[s + 1].tokens
                     ELSE IF s < GroupSize THEN <<GroupImage>> \o PrefixTokens ELSE <<>>

\* A prefix is decoded only if no checkpoint of it is left.
CacheInv == phase = "prefix" /\ Cacheable => ~Holds(prefixes, PrefixTokens)

\* The rows scored so far have their own contexts.
ResultsInv ==
  error = "none" =>
    \A i \in DOMAIN rows :
      i < start + (IF phase = "rows" THEN row ELSE 0) => results[i] = OwnContexts(rows[i])

IInv ==
  /\ Typed /\ PassInv /\ MemoryInv /\ CacheInv /\ ResultsInv
  /\ OnlyFlawsReject /\ CheckpointsExact /\ ImagesHeld /\ ContextFits

-----------------------------------------------------------------------------
(***************************************************************************)
(* What stays within the budget of a sequence.                             *)
(***************************************************************************)
Fits(read) == Len(read) + (IF IsImage(read) THEN ImageTokens - 1 ELSE 0) <= MaxLength

LEMMA FitsEither ==
  ASSUME NEW read, Len(read) \in Nat
  PROVE  /\ IsImage(read) => (Fits(read) <=> Len(read) + (ImageTokens - 1) <= MaxLength)
         /\ ~IsImage(read) => (Fits(read) <=> Len(read) <= MaxLength)
<1>. MaxLength \in Nat /\ ImageTokens \in Nat
  BY Parameters
<1>1. CASE IsImage(read)
  BY <1>1 DEF Fits
<1>2. CASE ~IsImage(read)
  BY <1>2 DEF Fits
<1>. QED  BY <1>1, <1>2

(* What fits still fits when its end is missing.                           *)
LEMMA FitsPart ==
  ASSUME NEW m \in Seq(Words), NEW d \in Seq(Words), NEW n \in 0..Len(d), Fits(m \o d)
  PROVE  m \o SubSeq(d, 1, n) \in Seq(Words) /\ Fits(m \o SubSeq(d, 1, n))
<1>. DEFINE e == SubSeq(d, 1, n)
            all == m \o d
            part == m \o e
<1>1. /\ e \in Seq(Words) /\ Len(e) = n /\ n \in Nat /\ \A i \in 1..n : e[i] = d[i]
      /\ Len(m) \in Nat /\ Len(d) \in Nat /\ n <= Len(d)
  OBVIOUS
<1>. HIDE DEF e
<1>2. /\ all \in Seq(Words) /\ Len(all) = Len(m) + Len(d)
      /\ \A i \in 1..Len(m) + Len(d) : all[i] = IF i <= Len(m) THEN m[i] ELSE d[i - Len(m)]
  BY ConcatProperties
<1>3. /\ part \in Seq(Words) /\ Len(part) = Len(m) + Len(e)
      /\ \A i \in 1..Len(m) + Len(e) : part[i] = IF i <= Len(m) THEN m[i] ELSE e[i - Len(m)]
  BY <1>1, ConcatProperties
<1>. HIDE DEF all, part
<1>4. IsImage(part) <=> Len(part) > 0 /\ part[1] \in Range(ImageId)
  BY <1>3 DEF IsImage
<1>5. IsImage(all) <=> Len(all) > 0 /\ all[1] \in Range(ImageId)
  BY <1>2 DEF IsImage
<1>6. Len(part) > 0 => part[1] = all[1] /\ Len(all) > 0
  <2>. SUFFICES ASSUME Len(part) > 0 PROVE part[1] = all[1] /\ Len(all) > 0
    OBVIOUS
  <2>1. CASE Len(m) > 0
    BY <1>1, <1>2, <1>3, <2>1
  <2>2. CASE Len(m) = 0
    <3>1. n > 0 /\ 1 \in 1..n /\ ~(1 <= Len(m)) /\ 1 - Len(m) = 1
      BY <1>1, <1>3, <2>2
    <3>2. part[1] = e[1] /\ all[1] = d[1]
      BY <1>1, <1>2, <1>3, <3>1
    <3>. QED  BY <1>1, <1>2, <3>1, <3>2
  <2>. QED  BY <1>1, <2>1, <2>2
<1>7. Len(part) \in Nat /\ Len(all) \in Nat /\ Len(part) <= Len(all)
      /\ MaxLength \in Nat /\ ImageTokens \in Nat \ {0}
  BY <1>1, <1>2, <1>3, Parameters
<1>8. Len(all) <= MaxLength /\ (IsImage(all) => Len(all) + (ImageTokens - 1) <= MaxLength)
  <2>1. Fits(all)
    BY DEF all
  <2>. QED  BY <1>7, <2>1, FitsEither
<1>9. Fits(part)
  <2>1. CASE IsImage(part)
    BY <1>4, <1>5, <1>6, <1>7, <1>8, <2>1, FitsEither
  <2>2. CASE ~IsImage(part)
    BY <1>7, <1>8, <2>2, FitsEither
  <2>. QED  BY <2>1, <2>2
<1>. QED  BY <1>3, <1>9 DEF part, e

LEMMA NothingFits == <<>> \in Seq(Words) /\ Fits(<<>>)
<1>1. Len(<<>>) = 0 /\ ~IsImage(<<>>) /\ MaxLength \in Nat
  BY Parameters DEF IsImage
<1>. QED  BY <1>1, FitsEither

(* A text row and the prefix it shares fit.                                *)
LEMMA TextFits ==
  ASSUME Planned, ~IsImageGroup, NEW i \in 1..GroupSize
  PROVE  /\ Group[i].tokens \in Seq(Words) /\ Fits(Group[i].tokens)
         /\ PrefixTokens \in Seq(Words) /\ Fits(PrefixTokens)
<1>1. /\ Sound(Group[i]) /\ Group[i].tokens \in Seq(Words) /\ Len(Group[i].tokens) \in Nat
      /\ shared \in Nat /\ shared <= Len(Group[i].tokens)
      /\ PrefixTokens = SubSeq(Group[i].tokens, 1, shared) /\ PrefixTokens \in Seq(Words)
  BY SuffixFacts
<1>2. Group[i].image = NoImage
  BY GroupFacts DEF Planned, Accepted, IsImageGroup
<1>. DEFINE s == Group[i].tokens
<1>3. ~IsImage(s)
  BY <1>1 DEF Sound, IsRow, IsImage
<1>4. Len(s) <= MaxLength
  BY <1>1, <1>2, SoundFits DEF Sound
<1>. HIDE DEF s
<1>5. Fits(s)
  BY <1>1, <1>3, <1>4, FitsEither DEF s
<1>6. Fits(SubSeq(s, 1, shared))
  <2>1. <<>> \o s = s /\ <<>> \in Seq(Words)
    BY <1>1, ConcatEmptySeq DEF s
  <2>2. Fits(<<>> \o SubSeq(s, 1, shared))
    <3>1. shared \in 0..Len(s) /\ Fits(<<>> \o s) /\ s \in Seq(Words)
      BY <1>1, <1>5, <2>1 DEF s
    <3>. QED  BY <2>1, <3>1, FitsPart
  <2>3. <<>> \o SubSeq(s, 1, shared) = SubSeq(s, 1, shared)
    BY <1>1, ConcatEmptySeq DEF s
  <2>. QED  BY <2>2, <2>3
<1>. QED  BY <1>1, <1>5, <1>6 DEF s

(* So do the image with a row behind it, or with the prefix, or alone.     *)
LEMMA ImageFits ==
  ASSUME Planned, IsImageGroup, NEW i \in 1..GroupSize
  PROVE  /\ GroupImage \in Range(ImageId) /\ <<GroupImage>> \in Seq(Words)
         /\ Fits(<<GroupImage>>)
         /\ <<GroupImage>> \o PrefixTokens \in Seq(Words)
         /\ Fits(<<GroupImage>> \o PrefixTokens)
         /\ <<GroupImage>> \o Group[i].tokens \in Seq(Words)
         /\ Fits(<<GroupImage>> \o Group[i].tokens)
<1>1. /\ Sound(Group[i]) /\ Group[i].tokens \in Seq(Words) /\ Len(Group[i].tokens) \in Nat
      /\ shared \in Nat /\ shared <= Len(Group[i].tokens)
      /\ PrefixTokens = SubSeq(Group[i].tokens, 1, shared) /\ PrefixTokens \in Seq(Words)
  BY SuffixFacts
<1>2. Group[i].image = rows[start].image /\ Group[i].image # NoImage
  BY GroupFacts DEF Planned, Accepted, IsImageGroup
<1>3. rows[start].image \in Images
  BY <1>1, <1>2 DEF Sound, IsRow
<1>4. GroupImage \in Range(ImageId)
  BY <1>3, EngineAssumption DEF GroupImage, Range
<1>. DEFINE s == Group[i].tokens
            g == <<GroupImage>>
<1>5. g \in Seq(Words) /\ Len(g) = 1 /\ g[1] = GroupImage
  <2>1. Range(ImageId) \subseteq Words
    BY DEF Words
  <2>2. GroupImage \in Words
    BY <1>4, <2>1
  <2>. QED  BY <2>2
<1>6. Len(s) + ImageTokens <= MaxLength /\ ImageTokens \in Nat /\ MaxLength \in Nat
  BY <1>1, <1>2, SoundFits, Parameters DEF Sound
<1>. HIDE DEF s, g
<1>7. /\ g \o s \in Seq(Words) /\ Len(g \o s) = 1 + Len(s) /\ (g \o s)[1] = GroupImage
  <2>1. /\ g \o s \in Seq(Words) /\ Len(g \o s) = Len(g) + Len(s)
        /\ \A k \in 1..Len(g) + Len(s) : (g \o s)[k] = IF k <= Len(g) THEN g[k] ELSE s[k - Len(g)]
    BY <1>1, <1>5, ConcatProperties DEF s
  <2>2. 1 \in 1..Len(g) + Len(s) /\ 1 <= Len(g)
    BY <1>1, <1>5 DEF s
  <2>. QED  BY <1>5, <2>1, <2>2
<1>8. Fits(g \o s)
  <2>1. IsImage(g \o s)
    <3>1. g \o s # <<>>
      BY <1>1, <1>7 DEF s
    <3>. QED  BY <1>4, <1>7, <3>1 DEF IsImage
  <2>2. Len(g \o s) \in Nat /\ Len(g \o s) + (ImageTokens - 1) <= MaxLength
    BY <1>1, <1>6, <1>7, SMTT(60) DEF s
  <2>. QED  BY <2>1, <2>2, FitsEither
<1>9. /\ g \o SubSeq(s, 1, shared) \in Seq(Words) /\ Fits(g \o SubSeq(s, 1, shared))
      /\ g \o SubSeq(s, 1, 0) \in Seq(Words) /\ Fits(g \o SubSeq(s, 1, 0))
  <2>1. shared \in 0..Len(s) /\ 0 \in 0..Len(s) /\ s \in Seq(Words)
    BY <1>1 DEF s
  <2>. QED  BY <1>5, <1>8, <2>1, FitsPart
<1>10. g \o SubSeq(s, 1, 0) = g
  <2>1. SubSeq(s, 1, 0) = <<>>
    BY SubSeqEmpty
  <2>. QED  BY <1>5, <2>1, ConcatEmptySeq
<1>. QED  BY <1>1, <1>4, <1>5, <1>7, <1>8, <1>9, <1>10 DEF s, g

-----------------------------------------------------------------------------
(* What a pass does leaves its group alone.                                *)
LEMMA SameGroup ==
  ASSUME UNCHANGED <<rows, start>>
  PROVE  /\ GroupSize' = GroupSize /\ Group' = Group /\ (IsImageGroup' <=> IsImageGroup)
         /\ GroupImage' = GroupImage
         /\ (Accepted' <=> Accepted)
         /\ shared' = shared =>
              /\ (Planned' <=> Planned) /\ PrefixTokens' = PrefixTokens
              /\ (Cacheable' <=> Cacheable)
<1>1. GroupSize' = GroupSize
  BY DEF GroupSize
<1>2. Group' = Group
  BY <1>1 DEF Group
<1>3. GroupFlaw' = GroupFlaw
  BY <1>2 DEF GroupFlaw
<1>4. (Accepted' <=> Accepted)
  BY <1>3 DEF Accepted, Begun
<1>5. (Planned' <=> Planned) \/ shared' # shared
  BY <1>2, <1>4 DEF Planned
<1>6. IsImageGroup' <=> IsImageGroup
  BY DEF IsImageGroup
<1>7. GroupImage' = GroupImage
  BY DEF GroupImage
<1>8. shared' = shared => PrefixTokens' = PrefixTokens /\ (Cacheable' <=> Cacheable)
  BY <1>2 DEF PrefixTokens, Cacheable
<1>. QED  BY <1>1, <1>2, <1>4, <1>5, <1>6, <1>7, <1>8

(* The numbers a pass counts with.                                         *)
LEMMA PassTyped ==
  ASSUME Typed, PassInv, phase \in TextPhases \cup ImagePhases
  PROVE  /\ Planned /\ Accepted /\ Begun /\ error = "none"
         /\ GroupSize \in 1..MaxSeqs /\ GroupSize \in Nat \ {0} /\ 1 \in 1..GroupSize
         /\ start \in Nat \ {0} /\ start + GroupSize \in 1..Len(rows) + 1
         /\ Len(rows) \in Nat /\ DOMAIN rows = 1..Len(rows)
         /\ DOMAIN Group = 1..GroupSize
         /\ \A s \in Sequences0 : s \in Nat /\ (s < GroupSize => s + 1 \in 1..GroupSize)
<1>1. Planned /\ Accepted /\ Begun /\ error = "none"
  BY DEF PassInv, Planned, Accepted
<1>2. /\ GroupSize \in 1..MaxSeqs /\ GroupSize \in Nat \ {0}
      /\ start \in Nat \ {0} /\ start + GroupSize \in 1..Len(rows) + 1 /\ DOMAIN Group = 1..GroupSize
  BY <1>1, GroupFacts
<1>3. Len(rows) \in Nat /\ DOMAIN rows = 1..Len(rows)
  BY <1>1, CallTyped DEF Begun
<1>4. \A s \in Sequences0 : s \in Nat /\ (s < GroupSize => s + 1 \in 1..GroupSize)
  <2>1. Sequences0 \subseteq Nat
    BY Parameters
  <2>. QED  BY <1>2, <2>1
<1>. QED  BY <1>1, <1>2, <1>3, <1>4

(* An exception keeps the invariant, if it is not thrown for nothing and   *)
(* what it leaves in the memory fits.                                      *)
LEMMA ThrowStep ==
  ASSUME IInv, phase # "idle", NEW kind \in {"input", "internal", "device"}, Throw(kind),
         kind # "device" => Refused(rows) \/ \E i \in DOMAIN rows : FlawOf(rows[i]) # "none",
         memory' \in [Sequences0 -> Seq(Words)], \A s \in Sequences0 : Fits(memory'[s]),
         UNCHANGED <<cacheVars, width>>
  PROVE  IInv'
<1>. USE DEF IInv
<1>1. /\ phase' = "idle" /\ error' = kind /\ kind # "none"
      /\ UNCHANGED <<rows, start, results, shared, row, prefixes, images, imageBytes, width>>
  BY DEF Throw, cacheVars
<1>2. Typed'
  BY <1>1 DEF Typed, Phases
<1>3. PassInv' /\ MemoryInv' /\ CacheInv' /\ ResultsInv'
  BY <1>1 DEF PassInv, MemoryInv, CacheInv, ResultsInv, TextPhases, ImagePhases
<1>4. OnlyFlawsReject'
  <2>1. \A i \in DOMAIN rows : rows'[i] = rows[i]
    BY <1>1
  <2>. QED  BY <1>1 DEF OnlyFlawsReject
<1>5. CheckpointsExact'
  BY <1>1 DEF CheckpointsExact
<1>6. ImagesHeld'
  BY <1>1 DEF ImagesHeld
<1>7. ContextFits'
  BY DEF ContextFits, Fits
<1>. QED  BY <1>2, <1>3, <1>4, <1>5, <1>6, <1>7

(* What is left to show of a step within a pass.                           *)
LEMMA PassStep ==
  ASSUME IInv, phase \in TextPhases \cup ImagePhases,
         phase' \in Phases, phase' \in IF phase \in TextPhases THEN TextPhases ELSE ImagePhases,
         UNCHANGED <<callVars, shared, row>>,
         phase' \in {"restore", "prefix", "share"} => shared > 0,
         row = 0 \/ phase \in TextPhases,
         width' \in 0..MaxSeqs * MaxLength,
         memory' \in [Sequences0 -> Seq(Words)], \A s \in Sequences0 : Fits(memory'[s]),
         MemoryInv', CacheInv',
         prefixes' \in CacheOf(Words), CheckpointsExact',
         images' \in Seq(ImageEntry), ImagesHeld'
  PROVE  IInv'
<1>. USE DEF IInv
<1>1. UNCHANGED <<rows, start, results, error, shared, row>>
  BY DEF callVars
<1>2. /\ Planned /\ error = "none" /\ phase \notin {"idle", "group"} /\ GroupSize \in Nat \ {0}
      /\ start \in Nat
  BY PassTyped DEF TextPhases, ImagePhases
<1>3. /\ GroupSize' = GroupSize /\ (IsImageGroup' <=> IsImageGroup) /\ (Planned' <=> Planned)
  BY <1>1, SameGroup
<1>4. Typed'
  BY <1>1 DEF Typed
<1>5. PassInv'
  BY <1>1, <1>2, <1>3 DEF PassInv, TextPhases, ImagePhases
<1>6. ResultsInv'
  <2>1. IF phase = "rows" THEN row = 0 ELSE TRUE
    BY DEF TextPhases
  <2>2. IF phase' = "rows" THEN row' = 0 ELSE TRUE
    BY <1>1 DEF TextPhases
  <2>3. \A i \in DOMAIN rows :
          i < start => results[i] = OwnContexts(rows[i])
    BY <1>2, <2>1 DEF ResultsInv
  <2>. QED  BY <1>1, <1>2, <2>2, <2>3 DEF ResultsInv
<1>7. OnlyFlawsReject'
  BY <1>1, <1>2 DEF OnlyFlawsReject
<1>8. ContextFits'
  BY DEF ContextFits, Fits
<1>. QED  BY <1>4, <1>5, <1>6, <1>7, <1>8

-----------------------------------------------------------------------------
LEMMA InitInv == Init => IInv
<1>. SUFFICES ASSUME Init PROVE IInv
  OBVIOUS
<1>1. /\ rows = <<>> /\ start = 1 /\ results = <<>> /\ error = "none" /\ phase = "idle"
      /\ memory = Cleared /\ shared = 0 /\ row = 0 /\ width = 0
      /\ prefixes = EmptyCache /\ images = <<>> /\ imageBytes = 0
  BY DEF Init
<1>2. Len(<<>>) = 0 /\ DOMAIN rows = {} /\ images \in Seq(ImageEntry) /\ DOMAIN images = {}
  BY <1>1
<1>3. /\ memory \in [Sequences0 -> Seq(Words)] /\ \A s \in Sequences0 : memory[s] = <<>>
  BY <1>1, NothingFits DEF Cleared
<1>4. Typed
  <2>1. 0 \in 0..MaxLength /\ 0 % Align = 0 /\ 0 \in Sequences0
    BY Parameters
  <2>2. 0 \in 0..MaxSeqs * MaxLength
    <3>1. MaxSeqs \in Nat /\ MaxLength \in Nat
      BY Parameters
    <3>2. MaxSeqs * MaxLength \in Nat
      BY <3>1
    <3>. QED  BY <3>2
  <2>. QED  BY <1>1, <1>2, <1>3, <2>1, <2>2, EngineAssumption, EmptyExact DEF Typed, Phases
<1>5. PassInv /\ MemoryInv /\ CacheInv /\ ResultsInv
  BY <1>1, <1>2 DEF PassInv, MemoryInv, CacheInv, ResultsInv, TextPhases, ImagePhases
<1>6. OnlyFlawsReject /\ CheckpointsExact
  BY <1>1, EngineAssumption, EmptyExact DEF OnlyFlawsReject, CheckpointsExact
<1>7. ImagesHeld
  BY <1>1, <1>2, Parameters DEF ImagesHeld
<1>8. ContextFits
  BY <1>3, NothingFits DEF ContextFits, Fits
<1>. QED  BY <1>4, <1>5, <1>6, <1>7, <1>8 DEF IInv

LEMMA ScoreStep ==
  ASSUME IInv, NEW call \in Calls, Score(call)
  PROVE  IInv'
<1>. USE DEF IInv
<1>1. /\ phase = "idle" /\ rows' = call /\ start' = 1
      /\ results' = [i \in DOMAIN call |-> <<>>]
      /\ IF Refused(call) THEN phase' = "idle" /\ error' = "input"
                          ELSE phase' = "group" /\ error' = "none"
      /\ UNCHANGED <<prefixes, images, imageBytes, memory, shared, row, width>>
  BY DEF Score, cacheVars
<1>2. Len(call) \in Nat \ {0} /\ DOMAIN call = 1..Len(call)
  BY CallTyped
<1>3. Typed'
  BY <1>1, <1>2 DEF Typed, Phases
<1>4. PassInv' /\ MemoryInv' /\ CacheInv'
  BY <1>1 DEF PassInv, MemoryInv, CacheInv, TextPhases, ImagePhases
<1>5. ResultsInv'
  BY <1>1, <1>2 DEF ResultsInv
<1>6. OnlyFlawsReject'
  BY <1>1 DEF OnlyFlawsReject
<1>7. CheckpointsExact'
  BY <1>1 DEF CheckpointsExact
<1>8. ImagesHeld'
  BY <1>1 DEF ImagesHeld
<1>9. ContextFits'
  BY <1>1 DEF ContextFits
<1>. QED  BY <1>3, <1>4, <1>5, <1>6, <1>7, <1>8, <1>9

LEMMA ReturnStep ==
  ASSUME IInv, Return
  PROVE  IInv'
<1>. USE DEF IInv
<1>1. /\ phase = "group" /\ start > Len(rows) /\ phase' = "idle"
      /\ UNCHANGED <<rows, start, results, error>>
      /\ UNCHANGED <<prefixes, images, imageBytes, memory, shared, row, width>>
  BY DEF Return, callVars, cacheVars
<1>2. Typed'
  BY <1>1 DEF Typed, Phases
<1>3. PassInv'
  <2>1. Len(rows) \in Nat
    BY <1>1, CallTyped DEF PassInv
  <2>2. start = Len(rows) + 1
    BY <1>1, <2>1 DEF Typed
  <2>. QED  BY <1>1, <2>2 DEF PassInv, TextPhases, ImagePhases
<1>4. MemoryInv' /\ CacheInv' /\ ResultsInv'
  BY <1>1 DEF MemoryInv, CacheInv, ResultsInv
<1>5. OnlyFlawsReject'
  BY <1>1 DEF OnlyFlawsReject, PassInv
<1>6. CheckpointsExact'
  BY <1>1 DEF CheckpointsExact
<1>7. ImagesHeld'
  BY <1>1 DEF ImagesHeld
<1>8. ContextFits'
  BY <1>1 DEF ContextFits
<1>. QED  BY <1>2, <1>3, <1>4, <1>5, <1>6, <1>7, <1>8

LEMMA RejectGroupStep ==
  ASSUME IInv, RejectGroup
  PROVE  IInv'
<1>. USE DEF IInv
<1>1. /\ phase = "group" /\ start <= Len(rows) /\ GroupFlaw # "none" /\ Throw(GroupFlaw)
      /\ UNCHANGED <<cacheVars, memory, width>>
  BY DEF RejectGroup
<1>2. Begun
  <2>1. rows \in Calls
    BY <1>1 DEF PassInv
  <2>2. Len(rows) \in Nat
    BY <2>1, CallTyped
  <2>. QED  BY <1>1, <2>1, <2>2 DEF Begun, Typed
<1>3. /\ GroupFlaw \in {"input", "internal"}
      /\ \E i \in DOMAIN rows : FlawOf(rows[i]) # "none"
  BY <1>1, <1>2, GroupJudged
<1>4. memory' \in [Sequences0 -> Seq(Words)] /\ \A s \in Sequences0 : Fits(memory'[s])
  BY <1>1 DEF Typed, ContextFits, Fits
<1>. QED  BY <1>1, <1>3, <1>4, ThrowStep

LEMMA BeginGroupStep ==
  ASSUME IInv, BeginGroup
  PROVE  IInv'
<1>. USE DEF IInv
<1>1. /\ phase = "group" /\ start <= Len(rows) /\ GroupFlaw = "none"
      /\ memory' = Cleared /\ shared' = SharedLength(Group) /\ row' = 0
      /\ phase' = IF IsImageGroup THEN "image" ELSE IF shared' > 0 THEN "restore" ELSE "suffix"
      /\ UNCHANGED <<rows, start, results, error, prefixes, images, imageBytes, width>>
  BY DEF BeginGroup, callVars, cacheVars
<1>2. Accepted /\ error = "none"
  <2>1. rows \in Calls /\ ~Refused(rows) /\ error = "none"
    BY <1>1 DEF PassInv
  <2>2. Len(rows) \in Nat
    BY <2>1, CallTyped
  <2>. QED  BY <1>1, <2>1, <2>2 DEF Accepted, Begun, Typed
<1>3. shared' \in 0..MaxLength /\ shared' % Align = 0
  BY <1>1, <1>2, PrefixShared
<1>4. /\ GroupSize' = GroupSize /\ Group' = Group /\ (IsImageGroup' <=> IsImageGroup) /\ Accepted'
  BY <1>1, <1>2, SameGroup
<1>5. Planned'
  BY <1>1, <1>4 DEF Planned
<1>6. memory' \in [Sequences0 -> Seq(Words)] /\ \A s \in Sequences0 : memory'[s] = <<>>
  BY <1>1, NothingFits DEF Cleared
<1>7. Typed'
  BY <1>1, <1>3, <1>6, Parameters DEF Typed, Phases
<1>8. PassInv'
  <2>1. GroupSize \in Nat \ {0}
    BY <1>2, GroupFacts DEF Accepted
  <2>. QED  BY <1>1, <1>2, <1>4, <1>5, <2>1 DEF PassInv, TextPhases, ImagePhases
<1>9. MemoryInv'
  <2>1. phase' = "suffix" => shared' = 0
    BY <1>1, <1>3
  <2>2. shared' = 0 => PrefixTokens' = <<>>
    BY SubSeqEmpty DEF PrefixTokens
  <2>3. phase' \in {"image", "restore", "suffix"}
    BY <1>1
  <2>. QED  BY <1>6, <2>1, <2>2, <2>3 DEF MemoryInv
<1>10. CacheInv'
  BY <1>1 DEF CacheInv
<1>11. ResultsInv'
  BY <1>1 DEF ResultsInv
<1>12. OnlyFlawsReject'
  BY <1>1, <1>2 DEF OnlyFlawsReject
<1>13. CheckpointsExact'
  BY <1>1 DEF CheckpointsExact
<1>14. ImagesHeld'
  BY <1>1 DEF ImagesHeld
<1>15. ContextFits'
  BY <1>6, NothingFits DEF ContextFits, Fits
<1>. QED  BY <1>7, <1>8, <1>9, <1>10, <1>11, <1>12, <1>13, <1>14, <1>15

-----------------------------------------------------------------------------
(***************************************************************************)
(* A text pass.                                                            *)
(***************************************************************************)
(* The prefix a text pass shares is what one sequence may hold.            *)
LEMMA TextPass ==
  ASSUME IInv, phase \in TextPhases
  PROVE  /\ Planned /\ ~IsImageGroup /\ Fits(PrefixTokens) /\ PrefixTokens \in Seq(Words)
         /\ Len(PrefixTokens) = shared /\ shared \in Nat
         /\ shared \in 0..MaxSeqs * MaxLength
<1>1. Planned /\ 1 \in 1..GroupSize
  BY PassTyped DEF IInv
<1>2. ~IsImageGroup
  BY DEF IInv, PassInv
<1>3. PrefixTokens \in Seq(Words) /\ Fits(PrefixTokens) /\ Len(PrefixTokens) = shared
  BY <1>1, <1>2, TextFits, SuffixFacts
<1>4. shared \in 0..MaxSeqs * MaxLength
  <2>1. shared \in 0..MaxLength /\ MaxLength \in Nat /\ MaxSeqs \in Nat \ {0}
    BY Parameters DEF IInv, Typed
  <2>2. MaxLength <= MaxSeqs * MaxLength /\ MaxSeqs * MaxLength \in Nat
    BY <2>1
  <2>. QED  BY <2>1, <2>2
<1>. QED  BY <1>1, <1>2, <1>3, <1>4 DEF IInv, Typed

LEMMA RestoreStep ==
  ASSUME IInv, Restore
  PROVE  IInv'
<1>. USE DEF IInv
<1>1. /\ phase = "restore" /\ Cacheable /\ Holds(prefixes, PrefixTokens)
      /\ prefixes' = Touch(prefixes, PrefixTokens)
      /\ memory' = [memory EXCEPT ![0] = FrontState(prefixes')]
      /\ phase' = "share"
      /\ UNCHANGED <<callVars, images, imageBytes, shared, row, width>>
  BY DEF Restore
<1>2. Planned /\ Fits(PrefixTokens) /\ PrefixTokens \in Seq(Words)
  BY <1>1, TextPass DEF TextPhases
<1>3. /\ prefixes' \in CacheOf(Words) /\ Exact(prefixes', CacheLimit) /\ FrontState(prefixes') = PrefixTokens
  BY <1>1, EngineAssumption, TouchExact DEF CheckpointsExact, Typed
<1>4. \A s \in Sequences0 : memory'[s] = IF s = 0 THEN PrefixTokens ELSE <<>>
  BY <1>1, <1>3 DEF Typed, MemoryInv
<1>5. memory' \in [Sequences0 -> Seq(Words)] /\ \A s \in Sequences0 : Fits(memory'[s])
  BY <1>1, <1>2, <1>3, <1>4, NothingFits DEF Typed
<1>6. UNCHANGED <<rows, start, shared>>
  BY <1>1 DEF callVars
<1>7. PrefixTokens' = PrefixTokens
  BY <1>6, SameGroup
<1>8. MemoryInv' /\ CacheInv'
  BY <1>1, <1>4, <1>7 DEF MemoryInv, CacheInv
<1>9. CheckpointsExact' /\ ImagesHeld'
  BY <1>1, <1>3 DEF CheckpointsExact, ImagesHeld
<1>10. width' \in 0..MaxSeqs * MaxLength /\ images' \in Seq(ImageEntry)
       /\ phase' \in Phases /\ shared > 0
  BY <1>1 DEF Typed, Phases, PassInv
<1>. QED  BY <1>1, <1>3, <1>5, <1>8, <1>9, <1>10, PassStep DEF TextPhases

LEMMA RestoreFailsStep ==
  ASSUME IInv, RestoreFails
  PROVE  IInv'
<1>. USE DEF IInv
<1>. DEFINE touched == Touch(prefixes, PrefixTokens)
<1>1. /\ phase = "restore" /\ Cacheable /\ Holds(prefixes, PrefixTokens)
      /\ prefixes' = DropFront(touched) /\ memory' = Cleared
      /\ phase' = "prefix"
      /\ UNCHANGED <<callVars, images, imageBytes, shared, row, width>>
  BY DEF RestoreFails, CacheAfterFailedRestore, MemoryAfterFailedRestore
<1>2. Planned /\ PrefixTokens \in Seq(Words)
  BY <1>1, TextPass DEF TextPhases
<1>3. /\ touched \in CacheOf(Words) /\ Exact(touched, CacheLimit) /\ FrontState(touched) = PrefixTokens
      /\ touched.entries # <<>>
  BY <1>1, EngineAssumption, TouchExact DEF CheckpointsExact, Typed
<1>. HIDE DEF touched
<1>4. /\ prefixes' \in CacheOf(Words) /\ Exact(prefixes', CacheLimit) /\ ~Holds(prefixes', PrefixTokens)
  BY <1>1, <1>3, EngineAssumption, DropFrontExact, DropFrontForgets
<1>5. memory' \in [Sequences0 -> Seq(Words)] /\ \A s \in Sequences0 : memory'[s] = <<>>
  BY <1>1, NothingFits DEF Cleared
<1>6. UNCHANGED <<rows, start, shared>>
  BY <1>1 DEF callVars
<1>7. PrefixTokens' = PrefixTokens
  BY <1>6, SameGroup
<1>8. MemoryInv' /\ CacheInv'
  BY <1>1, <1>4, <1>5, <1>7 DEF MemoryInv, CacheInv
<1>9. CheckpointsExact' /\ ImagesHeld'
  BY <1>1, <1>4 DEF CheckpointsExact, ImagesHeld
<1>10. width' \in 0..MaxSeqs * MaxLength /\ images' \in Seq(ImageEntry)
       /\ phase' \in Phases /\ shared > 0
  BY <1>1 DEF Typed, Phases, PassInv
<1>. QED  BY <1>1, <1>4, <1>5, <1>8, <1>9, <1>10, NothingFits, PassStep DEF TextPhases

LEMMA RestoreMissesStep ==
  ASSUME IInv, RestoreMisses
  PROVE  IInv'
<1>. USE DEF IInv
<1>1. /\ phase = "restore" /\ (~Cacheable \/ ~Holds(prefixes, PrefixTokens))
      /\ phase' = "prefix"
      /\ UNCHANGED <<callVars, prefixes, images, imageBytes, memory, shared, row, width>>
  BY DEF RestoreMisses, cacheVars
<1>2. UNCHANGED <<rows, start, shared>>
  BY <1>1 DEF callVars
<1>3. PrefixTokens' = PrefixTokens /\ (Cacheable' <=> Cacheable)
  BY <1>2, SameGroup
<1>4. MemoryInv' /\ CacheInv'
  BY <1>1, <1>3 DEF MemoryInv, CacheInv
<1>5. CheckpointsExact' /\ ImagesHeld'
  BY <1>1 DEF CheckpointsExact, ImagesHeld
<1>6. /\ width' \in 0..MaxSeqs * MaxLength /\ images' \in Seq(ImageEntry)
      /\ prefixes' \in CacheOf(Words) /\ phase' \in Phases /\ shared > 0
  BY <1>1 DEF Typed, Phases, PassInv
<1>7. memory' \in [Sequences0 -> Seq(Words)] /\ \A s \in Sequences0 : Fits(memory'[s])
  BY <1>1 DEF Typed, ContextFits, Fits
<1>. QED  BY <1>1, <1>4, <1>5, <1>6, <1>7, PassStep DEF TextPhases

LEMMA DecodePrefixStep ==
  ASSUME IInv, DecodePrefix
  PROVE  IInv'
<1>. USE DEF IInv
<1>1. /\ phase = "prefix"
      /\ memory' = [memory EXCEPT ![0] = memory[0] \o PrefixTokens]
      /\ \E state \in {memory'[0], <<>>} :
           prefixes' = IF Cacheable THEN Put(prefixes, PrefixTokens, state, CacheLimit) ELSE prefixes
      /\ width' = shared /\ phase' = "share"
      /\ UNCHANGED <<callVars, images, imageBytes, shared, row>>
  BY DEF DecodePrefix
<1>2. /\ Planned /\ Fits(PrefixTokens) /\ PrefixTokens \in Seq(Words)
      /\ width' \in 0..MaxSeqs * MaxLength
  BY <1>1, TextPass DEF TextPhases
<1>3. \A s \in Sequences0 : memory'[s] = IF s = 0 THEN PrefixTokens ELSE <<>>
  <2>1. \A s \in Sequences0 : memory[s] = <<>>
    BY <1>1 DEF MemoryInv
  <2>2. memory[0] \o PrefixTokens = PrefixTokens
    BY <1>2, <2>1, Parameters, ConcatEmptySeq
  <2>. QED  BY <1>1, <2>1, <2>2 DEF Typed
<1>4. memory' \in [Sequences0 -> Seq(Words)] /\ \A s \in Sequences0 : Fits(memory'[s])
  <2>1. memory' = [s \in Sequences0 |-> memory'[s]]
    BY <1>1 DEF Typed
  <2>2. \A s \in Sequences0 : memory'[s] \in Seq(Words) /\ Fits(memory'[s])
    BY <1>2, <1>3, NothingFits
  <2>. QED  BY <2>1, <2>2
<1>5. prefixes' \in CacheOf(Words) /\ Exact(prefixes', CacheLimit)
  <2>1. PICK state \in {PrefixTokens, <<>>} :
          prefixes' = IF Cacheable THEN Put(prefixes, PrefixTokens, state, CacheLimit) ELSE prefixes
    BY <1>1, <1>3, Parameters
  <2>2. prefixes \in CacheOf(Words) /\ Exact(prefixes, CacheLimit)
    BY DEF Typed, CheckpointsExact
  <2>3. Cacheable => ~Holds(prefixes, PrefixTokens)
    BY <1>1 DEF CacheInv
  <2>. QED  BY <1>2, <2>1, <2>2, <2>3, EngineAssumption, PutExact
<1>6. UNCHANGED <<rows, start, shared>>
  BY <1>1 DEF callVars
<1>7. PrefixTokens' = PrefixTokens
  BY <1>6, SameGroup
<1>8. MemoryInv' /\ CacheInv'
  BY <1>1, <1>3, <1>7 DEF MemoryInv, CacheInv
<1>9. CheckpointsExact' /\ ImagesHeld'
  BY <1>1, <1>5 DEF CheckpointsExact, ImagesHeld
<1>10. images' \in Seq(ImageEntry) /\ phase' \in Phases /\ shared > 0
  BY <1>1 DEF Typed, Phases, PassInv
<1>. QED  BY <1>1, <1>2, <1>4, <1>5, <1>8, <1>9, <1>10, PassStep DEF TextPhases

(* What seq_cp() leaves: the first sequence's positions, in each row's.    *)
LEMMA CopiedTo ==
  ASSUME NEW mem \in [Sequences0 -> Seq(Words)], NEW n \in 0..Len(mem[0]),
         GroupSize \in 1..MaxSeqs
  PROVE  /\ Copied(mem, n) \in [Sequences0 -> Seq(Words)]
         /\ \A s \in Sequences0 :
              Copied(mem, n)[s] = IF s \in 1..GroupSize - 1 THEN SubSeq(mem[0], 1, n) ELSE mem[s]
<1>1. mem[0] \in Seq(Words)
  BY Parameters
<1>2. SubSeq(mem[0], 1, n) \in Seq(Words)
  BY <1>1
<1>. QED  BY <1>2 DEF Copied

LEMMA ShareStep ==
  ASSUME IInv, Share
  PROVE  IInv'
<1>. USE DEF IInv
<1>1. /\ phase = "share" /\ memory' = Copied(memory, shared) /\ phase' = "suffix"
      /\ UNCHANGED <<callVars, prefixes, images, imageBytes, shared, row, width>>
  BY DEF Share, cacheVars
<1>2. /\ Planned /\ Fits(PrefixTokens) /\ PrefixTokens \in Seq(Words)
      /\ Len(PrefixTokens) = shared /\ shared \in Nat
  BY <1>1, TextPass DEF TextPhases
<1>3. GroupSize \in 1..MaxSeqs /\ GroupSize \in Nat /\ \A s \in Sequences0 : s \in Nat
  BY <1>1, PassTyped DEF TextPhases
<1>4. \A s \in Sequences0 : memory[s] = IF s = 0 THEN PrefixTokens ELSE <<>>
  BY <1>1 DEF MemoryInv
<1>5. memory[0] = PrefixTokens
  BY <1>4, Parameters
<1>6. /\ memory' \in [Sequences0 -> Seq(Words)]
      /\ \A s \in Sequences0 :
           memory'[s] = IF s \in 1..GroupSize - 1 THEN SubSeq(memory[0], 1, shared) ELSE memory[s]
  <2>1. shared \in 0..Len(memory[0]) /\ memory \in [Sequences0 -> Seq(Words)]
    BY <1>2, <1>5 DEF Typed
  <2>. QED  BY <1>1, <1>3, <2>1, CopiedTo
<1>7. SubSeq(memory[0], 1, shared) = PrefixTokens
  BY <1>2, <1>5, SubSeqFull
<1>8. \A s \in Sequences0 : memory'[s] = IF s < GroupSize THEN PrefixTokens ELSE <<>>
  <2>. SUFFICES ASSUME NEW s \in Sequences0
                PROVE  memory'[s] = IF s < GroupSize THEN PrefixTokens ELSE <<>>
    OBVIOUS
  <2>1. CASE s = 0
    <3>1. s \notin 1..GroupSize - 1 /\ s < GroupSize
      BY <1>3, <2>1
    <3>. QED  BY <1>4, <1>6, <2>1, <3>1
  <2>2. CASE s # 0
    <3>1. s \in 1..GroupSize - 1 <=> s < GroupSize
      BY <1>3, <2>2
    <3>. QED  BY <1>4, <1>6, <1>7, <2>2, <3>1
  <2>. QED  BY <2>1, <2>2
<1>9. \A s \in Sequences0 : Fits(memory'[s])
  BY <1>2, <1>8, NothingFits
<1>10. UNCHANGED <<rows, start, shared>>
  BY <1>1 DEF callVars
<1>11. PrefixTokens' = PrefixTokens /\ GroupSize' = GroupSize
  BY <1>10, SameGroup
<1>12. MemoryInv' /\ CacheInv'
  BY <1>1, <1>8, <1>11 DEF MemoryInv, CacheInv
<1>13. CheckpointsExact' /\ ImagesHeld'
  BY <1>1 DEF CheckpointsExact, ImagesHeld
<1>14. /\ width' \in 0..MaxSeqs * MaxLength /\ images' \in Seq(ImageEntry)
       /\ prefixes' \in CacheOf(Words) /\ phase' \in Phases
  BY <1>1 DEF Typed, Phases
<1>. QED  BY <1>1, <1>6, <1>9, <1>12, <1>13, <1>14, PassStep DEF TextPhases

LEMMA DecodeSuffixesStep ==
  ASSUME IInv, DecodeSuffixes
  PROVE  IInv'
<1>. USE DEF IInv
<1>1. /\ phase = "suffix" /\ phase' = "read" /\ width' = Len(Batch)
      /\ memory' = [s \in Sequences0 |->
                      IF s < GroupSize THEN memory[s] \o SuffixOf(Group[s + 1]) ELSE memory[s]]
      /\ UNCHANGED <<callVars, prefixes, images, imageBytes, shared, row>>
  BY DEF DecodeSuffixes, cacheVars
<1>2. Planned /\ ~IsImageGroup /\ \A s \in Sequences0 : s < GroupSize => s + 1 \in 1..GroupSize
  BY <1>1, PassTyped, TextPass DEF TextPhases
<1>3. \A s \in Sequences0 :
        memory'[s] = IF s < GroupSize THEN Group[s + 1].tokens ELSE <<>>
  <2>. SUFFICES ASSUME NEW s \in Sequences0
                PROVE  memory'[s] = IF s < GroupSize THEN Group[s + 1].tokens ELSE <<>>
    OBVIOUS
  <2>1. memory[s] = IF s < GroupSize THEN PrefixTokens ELSE <<>>
    BY <1>1 DEF MemoryInv
  <2>2. CASE s < GroupSize
    <3>1. PrefixTokens \o SuffixOf(Group[s + 1]) = Group[s + 1].tokens
      BY <1>2, <2>2, SuffixFacts
    <3>. QED  BY <1>1, <2>1, <2>2, <3>1
  <2>3. CASE ~(s < GroupSize)
    BY <1>1, <2>1, <2>3
  <2>. QED  BY <2>2, <2>3
<1>4. memory' \in [Sequences0 -> Seq(Words)] /\ \A s \in Sequences0 : Fits(memory'[s])
  <2>1. memory' = [s \in Sequences0 |-> memory'[s]]
    BY <1>1
  <2>2. ASSUME NEW s \in Sequences0 PROVE memory'[s] \in Seq(Words) /\ Fits(memory'[s])
    <3>1. CASE s < GroupSize
      <4>1. Group[s + 1].tokens \in Seq(Words) /\ Fits(Group[s + 1].tokens)
        BY <1>2, <3>1, TextFits
      <4>. QED  BY <1>3, <3>1, <4>1
    <3>2. CASE ~(s < GroupSize)
      BY <1>3, <3>2, NothingFits
    <3>. QED  BY <3>1, <3>2
  <2>. QED  BY <2>1, <2>2
<1>5. width' \in 0..MaxSeqs * MaxLength
  BY <1>1, <1>2, BatchLaid
<1>6. UNCHANGED <<rows, start, shared>>
  BY <1>1 DEF callVars
<1>7. Group' = Group /\ GroupSize' = GroupSize
  BY <1>6, SameGroup
<1>8. MemoryInv' /\ CacheInv'
  BY <1>1, <1>3, <1>7 DEF MemoryInv, CacheInv
<1>9. CheckpointsExact' /\ ImagesHeld'
  BY <1>1 DEF CheckpointsExact, ImagesHeld
<1>10. images' \in Seq(ImageEntry) /\ prefixes' \in CacheOf(Words) /\ phase' \in Phases
  BY <1>1 DEF Typed, Phases
<1>. QED  BY <1>1, <1>4, <1>5, <1>8, <1>9, <1>10, PassStep DEF TextPhases

(* The logits of a text group are read over the rows' own prompts.         *)
LEMMA ReadStatesStep ==
  ASSUME IInv, ReadStates
  PROVE  IInv'
<1>. USE DEF IInv
<1>. DEFINE contexts == [i \in DOMAIN Group |-> [k \in 1..Group[i].labels |->
                           LET token == Batch[ReadIndex(i, k) + 1]
                           IN  SubSeq(memory[token.seq], 1, token.pos)]]
<1>1. phase = "read" /\ UNCHANGED <<prefixes, images, imageBytes, memory, width>>
  BY DEF ReadStates, cacheVars
<1>2. /\ Planned /\ ~IsImageGroup /\ error = "none"
      /\ GroupSize \in 1..MaxSeqs /\ GroupSize \in Nat \ {0}
      /\ start \in Nat \ {0} /\ start + GroupSize \in 1..Len(rows) + 1
      /\ Len(rows) \in Nat /\ DOMAIN rows = 1..Len(rows) /\ DOMAIN Group = 1..GroupSize
      /\ rows \in Calls /\ ~Refused(rows)
  BY <1>1, PassTyped, TextPass DEF TextPhases, Planned, Accepted, Begun
<1>3. AllReadable
  BY <1>2, BatchReadable
<1>4. /\ results' = WithResults(contexts) /\ start' = start + GroupSize /\ phase' = "group"
      /\ UNCHANGED <<rows, error, shared, row>>
  BY <1>3 DEF ReadStates
<1>5. ASSUME NEW i \in 1..GroupSize
      PROVE  contexts[i] = OwnContexts(Group[i])
  <2>1. /\ IsRow(Group[i]) /\ Group[i].image = NoImage /\ Group[i].tokens \in Seq(Words)
        /\ Group[i].labels \in Nat
    BY <1>2, GroupFacts DEF Planned, Accepted, IsImageGroup, IsRow
  <2>2. i - 1 \in Sequences0 /\ i - 1 < GroupSize /\ i - 1 + 1 = i
    BY <1>2, Parameters DEF Sequences0
  <2>3. memory[i - 1] = Group[i].tokens
    BY <1>1, <2>2 DEF MemoryInv
  <2>4. ASSUME NEW k \in 1..Group[i].labels
        PROVE  /\ contexts[i][k] = SubSeq(Group[i].tokens, 1, MarkerAt(Group[i].tokens, k))
               /\ OwnContexts(Group[i])[k]
                    = SubSeq(Group[i].tokens, 1, MarkerAt(Group[i].tokens, k))
    <3>1. /\ Batch[ReadIndex(i, k) + 1].seq = i - 1
          /\ Batch[ReadIndex(i, k) + 1].pos = MarkerAt(Group[i].tokens, k)
      BY <1>2, BatchReadable
    <3>2. contexts[i][k] = SubSeq(memory[Batch[ReadIndex(i, k) + 1].seq], 1,
                                  Batch[ReadIndex(i, k) + 1].pos)
      BY <1>2
    <3>3. OwnContexts(Group[i])[k]
            = <<>> \o SubSeq(Group[i].tokens, 1, MarkerAt(Group[i].tokens, k))
      BY <2>1 DEF OwnContexts
    <3>4. SubSeq(Group[i].tokens, 1, MarkerAt(Group[i].tokens, k)) \in Seq(Words)
      <4>1. MarkerAt(Group[i].tokens, k) \in shared + 1..Len(Group[i].tokens)
            /\ shared \in Nat /\ Len(Group[i].tokens) \in Nat
        BY <1>2, SuffixMarkers, SuffixFacts
      <4>. DEFINE m == MarkerAt(Group[i].tokens, k)
      <4>2. m \in 1..Len(Group[i].tokens)
        BY <4>1
      <4>. HIDE DEF m
      <4>3. SubSeq(Group[i].tokens, 1, m) \in Seq(Words)
        BY <2>1, <4>2
      <4>. QED  BY <4>3 DEF m
    <3>5. <<>> \o SubSeq(Group[i].tokens, 1, MarkerAt(Group[i].tokens, k))
            = SubSeq(Group[i].tokens, 1, MarkerAt(Group[i].tokens, k))
      BY <3>4, ConcatEmptySeq
    <3>. HIDE DEF contexts
    <3>. QED  BY <2>3, <3>1, <3>2, <3>3, <3>5
  <2>5. contexts[i] = [k \in 1..Group[i].labels |-> contexts[i][k]]
    BY <1>2
  <2>6. OwnContexts(Group[i]) = [k \in 1..Group[i].labels |-> OwnContexts(Group[i])[k]]
    BY DEF OwnContexts
  <2>. HIDE DEF contexts
  <2>. QED  BY <2>4, <2>5, <2>6
<1>6. DOMAIN contexts = 1..GroupSize
  BY <1>2
<1>. HIDE DEF contexts
<1>7. /\ DOMAIN results' = DOMAIN rows
      /\ \A i \in DOMAIN rows :
           results'[i] = IF i - start + 1 \in 1..GroupSize THEN contexts[i - start + 1]
                         ELSE results[i]
  BY <1>4, <1>6 DEF WithResults
<1>8. ASSUME NEW i \in DOMAIN rows, i < start + GroupSize
      PROVE  results'[i] = OwnContexts(rows[i])
  <2>1. CASE i < start
    <3>1. i - start + 1 \notin 1..GroupSize
      BY <1>2, <2>1
    <3>2. results[i] = OwnContexts(rows[i])
      BY <1>1, <1>2, <2>1 DEF ResultsInv
    <3>. QED  BY <1>7, <3>1, <3>2
  <2>2. CASE ~(i < start)
    <3>1. PICK j \in 1..GroupSize : j = i - start + 1 /\ start + j - 1 = i
      <4>1. i - start + 1 \in 1..GroupSize /\ start + (i - start + 1) - 1 = i
        BY <1>2, <1>8, <2>2
      <4>. QED  BY <4>1
    <3>2. Group[j] = rows[i]
      BY <1>2, <3>1, GroupFacts DEF Planned, Accepted
    <3>. QED  BY <1>5, <1>7, <3>1, <3>2
  <2>. QED  BY <2>1, <2>2
<1>9. Typed'
  BY <1>1, <1>2, <1>4, <1>7 DEF Typed, Phases
<1>10. PassInv' /\ MemoryInv' /\ CacheInv'
  BY <1>2, <1>4 DEF PassInv, MemoryInv, CacheInv, TextPhases, ImagePhases
<1>11. ResultsInv'
  BY <1>4, <1>8, <1>2 DEF ResultsInv
<1>12. OnlyFlawsReject' /\ CheckpointsExact'
  BY <1>1, <1>2, <1>4 DEF OnlyFlawsReject, CheckpointsExact
<1>13. ImagesHeld' /\ ContextFits'
  BY <1>1, <1>4 DEF ImagesHeld, ContextFits
<1>. QED  BY <1>9, <1>10, <1>11, <1>12, <1>13

-----------------------------------------------------------------------------
(***************************************************************************)
(* An image pass.                                                          *)
(***************************************************************************)
LEMMA ImagePass ==
  ASSUME IInv, phase \in ImagePhases
  PROVE  /\ Planned /\ IsImageGroup /\ GroupImage \in Range(ImageId)
         /\ <<GroupImage>> \in Seq(Words) /\ Fits(<<GroupImage>>)
         /\ <<GroupImage>> \o PrefixTokens \in Seq(Words)
         /\ Fits(<<GroupImage>> \o PrefixTokens)
         /\ PrefixTokens \in Seq(Words) /\ Len(PrefixTokens) = shared /\ shared \in Nat
         /\ shared \in 0..MaxSeqs * MaxLength
<1>1. Planned /\ 1 \in 1..GroupSize
  BY PassTyped DEF IInv
<1>2. IsImageGroup
  BY DEF IInv, PassInv
<1>3. /\ GroupImage \in Range(ImageId) /\ <<GroupImage>> \in Seq(Words) /\ Fits(<<GroupImage>>)
      /\ <<GroupImage>> \o PrefixTokens \in Seq(Words) /\ Fits(<<GroupImage>> \o PrefixTokens)
  BY <1>1, <1>2, ImageFits
<1>4. PrefixTokens \in Seq(Words) /\ Len(PrefixTokens) = shared /\ shared \in Nat
  BY <1>1, SuffixFacts
<1>5. shared \in 0..MaxSeqs * MaxLength
  <2>1. shared \in 0..MaxLength /\ MaxLength \in Nat /\ MaxSeqs \in Nat \ {0}
    BY Parameters DEF IInv, Typed
  <2>2. MaxLength <= MaxSeqs * MaxLength /\ MaxSeqs * MaxLength \in Nat
    BY <2>1
  <2>. QED  BY <2>1, <2>2
<1>. QED  BY <1>1, <1>2, <1>3, <1>4, <1>5

\* The images are accounted for, apart from which is in front.
Kept(cached) ==
  /\ cached \in Seq(ImageEntry)
  /\ \A i, k \in DOMAIN cached : cached[i].id = cached[k].id => i = k
  /\ Len(cached) > ImageLimit => Len(cached) = 1

(* image_cache_get() moves the entry to the front and keeps the others.    *)
LEMMA TouchImageKeeps ==
  ASSUME Kept(images), NEW id, ImageEntries(id) # {}
  PROVE  /\ Kept(TouchImage(id)) /\ Len(TouchImage(id)) = Len(images)
         /\ TouchImage(id) # <<>> /\ Head(TouchImage(id)).id = id
<1>. DEFINE i == Min(ImageEntries(id))
            t == <<images[i]>> \o RemoveAt(images, i)
            was(k) == IF k = 1 THEN i ELSE IF k <= i THEN k - 1 ELSE k
            n == Len(images)
<1>1. n \in Nat /\ DOMAIN images = 1..n /\ images \in Seq(ImageEntry)
  BY DEF Kept
<1>2. i \in 1..n /\ images[i].id = id
  <2>1. ImageEntries(id) \in SUBSET Nat
    BY <1>1 DEF ImageEntries
  <2>2. i \in ImageEntries(id)
    BY <2>1, MinIn
  <2>. HIDE DEF i
  <2>. QED  BY <1>1, <2>2 DEF ImageEntries
<1>3. TouchImage(id) = t
  BY DEF TouchImage
<1>. HIDE DEF i
<1>4. /\ t \in Seq(ImageEntry) /\ Len(t) = n /\ DOMAIN t = 1..n
      /\ \A k \in 1..n : was(k) \in 1..n /\ t[k] = images[was(k)]
      /\ \A k, l \in 1..n : was(k) = was(l) => k = l
  BY <1>1, <1>2, MovedToFront
<1>5. was(1) = i
  OBVIOUS
<1>. HIDE DEF t, was
<1>6. \A k, l \in DOMAIN t : t[k].id = t[l].id => k = l
  BY <1>1, <1>4 DEF Kept
<1>7. t # <<>> /\ Head(t) = t[1] /\ 1 \in 1..n
  BY <1>1, <1>2, <1>4
<1>. QED  BY <1>2, <1>3, <1>4, <1>5, <1>6, <1>7 DEF Kept

(* image_cache_put() of an image that is not held: it comes in front, and  *)
(* as many of the others as the limit allows stay.                         *)
LEMMA PutImageKeeps ==
  ASSUME Kept(images), imageBytes = Len(images), NEW id \in Range(ImageId),
         ImageEntries(id) = {}, PutImage(<<[id |-> id, embeddings |-> id]>> \o images)
  PROVE  /\ Kept(images') /\ imageBytes' = Len(images')
         /\ images' # <<>> /\ Head(images').id = id
<1>. DEFINE e == [id |-> id, embeddings |-> id]
            all == <<e>> \o images
            n == Len(images)
            kept == Max(KeptImages(all))
<1>1. n \in Nat /\ DOMAIN images = 1..n /\ images \in Seq(ImageEntry)
      /\ ImageLimit \in Nat \ {0}
  BY Parameters DEF Kept
<1>2. e \in ImageEntry /\ e.id = id
  BY DEF ImageEntry
<1>3. images' = SubSeq(all, 1, kept) /\ imageBytes' = imageBytes + 1 - (Len(all) - kept)
  BY DEF PutImage
<1>. HIDE DEF e
<1>4. /\ all \in Seq(ImageEntry) /\ Len(all) = 1 + n
      /\ all[1] = e /\ \A k \in 2..1 + n : all[k] = images[k - 1]
  <2>1. <<e>> \in Seq(ImageEntry) /\ Len(<<e>>) = 1 /\ <<e>>[1] = e
    BY <1>2
  <2>2. /\ all \in Seq(ImageEntry) /\ Len(all) = Len(<<e>>) + Len(images)
        /\ \A k \in 1..Len(<<e>>) + Len(images) :
             all[k] = IF k <= Len(<<e>>) THEN <<e>>[k] ELSE images[k - Len(<<e>>)]
    BY <1>1, <2>1, ConcatProperties
  <2>3. \A k \in 1..1 + n : all[k] = IF k <= 1 THEN e ELSE images[k - 1]
    <3>. HIDE DEF all
    <3>1. \A k \in 1..1 + n : k <= 1 => k = 1
      OBVIOUS
    <3>. QED  BY <2>1, <2>2, <3>1
  <2>. HIDE DEF all
  <2>4. 1 \in 1..1 + n /\ 1 <= 1 /\ \A k \in 2..1 + n : k \in 1..1 + n /\ ~(k <= 1)
    BY <1>1
  <2>. QED  BY <2>1, <2>2, <2>3, <2>4
<1>. HIDE DEF all
<1>5. kept \in 1..1 + n /\ (kept <= ImageLimit \/ kept = 1)
  <2>1. KeptImages(all) \in SUBSET Nat /\ \A k \in KeptImages(all) : k <= 1 + n
    BY <1>1, <1>4 DEF KeptImages
  <2>2. 1 \in KeptImages(all)
    BY <1>1, <1>4 DEF KeptImages
  <2>3. kept \in KeptImages(all)
    <3>1. 1 + n \in Nat /\ KeptImages(all) # {}
      BY <1>1, <2>2
    <3>. QED  BY <2>1, <3>1, MaxIn
  <2>. HIDE DEF kept
  <2>. QED  BY <1>1, <1>4, <2>3 DEF KeptImages
<1>. HIDE DEF kept
<1>6. /\ images' \in Seq(ImageEntry) /\ Len(images') = kept /\ DOMAIN images' = 1..kept
      /\ \A k \in 1..kept : images'[k] = all[k]
  BY <1>1, <1>3, <1>4, <1>5
<1>7. \A k \in 1..n : images[k].id # id
  BY <1>1 DEF ImageEntries
<1>8. \A k, l \in 1..kept : images'[k].id = images'[l].id => k = l
  <2>. SUFFICES ASSUME NEW k \in 1..kept, NEW l \in 1..kept, images'[k].id = images'[l].id
                PROVE  k = l
    OBVIOUS
  <2>1. k \in 1..1 + n /\ l \in 1..1 + n
    BY <1>1, <1>5
  <2>2. ASSUME NEW m \in 1..kept, m # 1
        PROVE  m - 1 \in 1..n /\ images'[m] = images[m - 1]
    <3>1. m \in 2..1 + n /\ m - 1 \in 1..n
      BY <1>1, <1>5, <2>2
    <3>. QED  BY <1>4, <1>6, <3>1
  <2>3. images'[1].id = id
    BY <1>1, <1>2, <1>4, <1>5, <1>6
  <2>4. CASE k = 1
    BY <1>7, <2>2, <2>3, <2>4
  <2>5. CASE l = 1
    BY <1>7, <2>2, <2>3, <2>5
  <2>6. CASE k # 1 /\ l # 1
    <3>1. images[k - 1].id = images[l - 1].id /\ k - 1 \in 1..n /\ l - 1 \in 1..n
      BY <2>2, <2>6
    <3>2. k - 1 = l - 1
      BY <1>1, <3>1 DEF Kept
    <3>. QED  BY <2>1, <3>2
  <2>. QED  BY <2>4, <2>5, <2>6
<1>9. imageBytes' = kept
  BY <1>1, <1>3, <1>4, <1>5
<1>10. images' # <<>> /\ Head(images') = e
  BY <1>1, <1>4, <1>5, <1>6
<1>11. kept > ImageLimit => kept = 1
  BY <1>1, <1>5
<1>. QED  BY <1>2, <1>6, <1>8, <1>9, <1>10, <1>11 DEF Kept

LEMMA FindImageStep ==
  ASSUME IInv, FindImage
  PROVE  IInv'
<1>. USE DEF IInv
<1>1. /\ phase = "image" /\ phase' = "encoded"
      /\ IF ImageEntries(GroupImage) # {}
         THEN images' = TouchImage(GroupImage) /\ UNCHANGED imageBytes
         ELSE PutImage(<<[id |-> GroupImage, embeddings |-> GroupImage]>> \o images)
      /\ UNCHANGED <<callVars, prefixes, memory, shared, row, width>>
  BY DEF FindImage
<1>2. GroupImage \in Range(ImageId)
  BY <1>1, ImagePass DEF ImagePhases
<1>3. Kept(images) /\ imageBytes = Len(images)
  BY DEF Typed, ImagesHeld, Kept
<1>4. Kept(images') /\ imageBytes' = Len(images') /\ images' # <<>> /\ Head(images').id = GroupImage
  <2>1. CASE ImageEntries(GroupImage) # {}
    BY <1>1, <1>3, <2>1, TouchImageKeeps
  <2>2. CASE ImageEntries(GroupImage) = {}
    BY <1>1, <1>2, <1>3, <2>2, PutImageKeeps
  <2>. QED  BY <2>1, <2>2
<1>5. UNCHANGED <<rows, start, shared>>
  BY <1>1 DEF callVars
<1>6. GroupImage' = GroupImage
  BY <1>5, SameGroup
<1>7. ImagesHeld' /\ images' \in Seq(ImageEntry)
  BY <1>4, <1>6 DEF ImagesHeld, Kept
<1>8. MemoryInv' /\ CacheInv'
  BY <1>1 DEF MemoryInv, CacheInv
<1>9. CheckpointsExact'
  BY <1>1 DEF CheckpointsExact
<1>10. /\ width' \in 0..MaxSeqs * MaxLength /\ prefixes' \in CacheOf(Words)
       /\ phase' \in Phases /\ row = 0
  BY <1>1 DEF Typed, Phases, PassInv
<1>11. memory' \in [Sequences0 -> Seq(Words)] /\ \A s \in Sequences0 : Fits(memory'[s])
  BY <1>1 DEF Typed, ContextFits, Fits
<1>. QED  BY <1>1, <1>7, <1>8, <1>9, <1>10, <1>11, PassStep DEF ImagePhases, TextPhases

LEMMA DecodeImageStep ==
  ASSUME IInv, DecodeImage
  PROVE  IInv'
<1>. USE DEF IInv
<1>1. /\ phase = "encoded" /\ images # <<>> /\ phase' = "tail"
      /\ memory' = [memory EXCEPT ![0] = <<Head(images).embeddings>>]
      /\ UNCHANGED <<callVars, prefixes, images, imageBytes, shared, row, width>>
  BY DEF DecodeImage, cacheVars
<1>2. <<GroupImage>> \in Seq(Words) /\ Fits(<<GroupImage>>)
  BY <1>1, ImagePass DEF ImagePhases
<1>3. Head(images).embeddings = GroupImage
  <2>1. Head(images) \in ImageEntry /\ Head(images).id = GroupImage
    BY <1>1 DEF Typed, ImagesHeld
  <2>2. PICK e \in ImageEntry : e = Head(images)
    BY <2>1
  <2>3. e.embeddings = e.id
    BY DEF ImageEntry
  <2>. QED  BY <2>1, <2>2, <2>3
<1>4. \A s \in Sequences0 : memory'[s] = IF s = 0 THEN <<GroupImage>> ELSE <<>>
  BY <1>1, <1>3 DEF Typed, MemoryInv
<1>5. memory' \in [Sequences0 -> Seq(Words)] /\ \A s \in Sequences0 : Fits(memory'[s])
  BY <1>1, <1>2, <1>3, <1>4, NothingFits DEF Typed
<1>6. UNCHANGED <<rows, start, shared>>
  BY <1>1 DEF callVars
<1>7. GroupImage' = GroupImage
  BY <1>6, SameGroup
<1>8. MemoryInv' /\ CacheInv'
  BY <1>1, <1>4, <1>7 DEF MemoryInv, CacheInv
<1>9. CheckpointsExact' /\ ImagesHeld'
  BY <1>1, <1>7 DEF CheckpointsExact, ImagesHeld
<1>10. /\ width' \in 0..MaxSeqs * MaxLength /\ images' \in Seq(ImageEntry)
       /\ prefixes' \in CacheOf(Words) /\ phase' \in Phases /\ row = 0
  BY <1>1 DEF Typed, Phases, PassInv
<1>. QED  BY <1>1, <1>5, <1>8, <1>9, <1>10, PassStep DEF ImagePhases, TextPhases

LEMMA DecodeSharedTailStep ==
  ASSUME IInv, DecodeSharedTail
  PROVE  IInv'
<1>. USE DEF IInv
<1>. DEFINE lead == [memory EXCEPT ![0] = memory[0] \o PrefixTokens]
<1>1. /\ phase = "tail" /\ phase' = "rows"
      /\ memory' = Copied(lead, Len(lead[0]))
      /\ width' = IF shared > 0 THEN shared ELSE width
      /\ UNCHANGED <<callVars, prefixes, images, imageBytes, shared, row>>
  BY DEF DecodeSharedTail, cacheVars
<1>2. /\ <<GroupImage>> \o PrefixTokens \in Seq(Words) /\ Fits(<<GroupImage>> \o PrefixTokens)
      /\ shared \in 0..MaxSeqs * MaxLength
  BY <1>1, ImagePass DEF ImagePhases
<1>3. /\ GroupSize \in 1..MaxSeqs /\ GroupSize \in Nat \ {0} /\ \A s \in Sequences0 : s \in Nat
  BY <1>1, PassTyped DEF ImagePhases
<1>4. \A s \in Sequences0 : memory[s] = IF s = 0 THEN <<GroupImage>> ELSE <<>>
  BY <1>1 DEF MemoryInv
<1>5. memory[0] = <<GroupImage>> /\ 0 \in Sequences0
  BY <1>4, Parameters
<1>6. /\ lead \in [Sequences0 -> Seq(Words)] /\ lead[0] = <<GroupImage>> \o PrefixTokens
      /\ \A s \in Sequences0 : s # 0 => lead[s] = <<>>
  BY <1>2, <1>4, <1>5 DEF Typed
<1>. HIDE DEF lead
<1>7. /\ memory' \in [Sequences0 -> Seq(Words)]
      /\ \A s \in Sequences0 :
           memory'[s] = IF s \in 1..GroupSize - 1 THEN SubSeq(lead[0], 1, Len(lead[0]))
                        ELSE lead[s]
  <2>1. Len(lead[0]) \in 0..Len(lead[0])
    BY <1>2, <1>6
  <2>. QED  BY <1>1, <1>3, <1>6, <2>1, CopiedTo
<1>8. SubSeq(lead[0], 1, Len(lead[0])) = <<GroupImage>> \o PrefixTokens
  BY <1>2, <1>6, SubSeqFull
<1>9. \A s \in Sequences0 :
        memory'[s] = IF s < GroupSize THEN <<GroupImage>> \o PrefixTokens ELSE <<>>
  <2>. SUFFICES ASSUME NEW s \in Sequences0
                PROVE  memory'[s] = IF s < GroupSize THEN <<GroupImage>> \o PrefixTokens ELSE <<>>
    OBVIOUS
  <2>1. CASE s = 0
    <3>1. s \notin 1..GroupSize - 1 /\ s < GroupSize
      BY <1>3, <2>1
    <3>. QED  BY <1>6, <1>7, <2>1, <3>1
  <2>2. CASE s # 0
    <3>1. s \in 1..GroupSize - 1 <=> s < GroupSize
      BY <1>3, <2>2
    <3>. QED  BY <1>6, <1>7, <1>8, <2>2, <3>1
  <2>. QED  BY <2>1, <2>2
<1>10. \A s \in Sequences0 : Fits(memory'[s])
  BY <1>2, <1>9, NothingFits
<1>11. UNCHANGED <<rows, start, shared>>
  BY <1>1 DEF callVars
<1>12. PrefixTokens' = PrefixTokens /\ GroupImage' = GroupImage /\ GroupSize' = GroupSize
  BY <1>11, SameGroup
<1>13. row = 0 /\ row' = 0
  BY <1>1 DEF PassInv
<1>14. MemoryInv' /\ CacheInv'
  <2>1. \A s \in Sequences0 : ~(s < row')
    BY <1>3, <1>13
  <2>. QED  BY <1>1, <1>9, <1>12, <2>1 DEF MemoryInv, CacheInv
<1>15. CheckpointsExact' /\ ImagesHeld'
  BY <1>1, <1>12 DEF CheckpointsExact, ImagesHeld
<1>16. /\ width' \in 0..MaxSeqs * MaxLength /\ images' \in Seq(ImageEntry)
       /\ prefixes' \in CacheOf(Words) /\ phase' \in Phases
  BY <1>1, <1>2 DEF Typed, Phases
<1>. QED  BY <1>1, <1>7, <1>10, <1>13, <1>14, <1>15, <1>16, PassStep DEF ImagePhases, TextPhases

(* A prompt up to a position, behind an image.                             *)
LEMMA BehindImage ==
  ASSUME NEW g \in Seq(Words), Len(g) = 1, NEW s \in Seq(Words), NEW m \in 1..Len(s)
  PROVE  SubSeq(g \o s, 1, 1 + m) = g \o SubSeq(s, 1, m)
<1>. DEFINE all == g \o s
            e == SubSeq(s, 1, m)
            part == g \o e
<1>1. e \in Seq(Words) /\ Len(e) = m /\ m \in Nat /\ \A k \in 1..m : e[k] = s[k]
      /\ Len(s) \in Nat
  OBVIOUS
<1>. HIDE DEF e
<1>2. /\ all \in Seq(Words) /\ Len(all) = Len(g) + Len(s)
      /\ \A k \in 1..Len(g) + Len(s) : all[k] = IF k <= Len(g) THEN g[k] ELSE s[k - Len(g)]
  BY ConcatProperties
<1>3. /\ part \in Seq(Words) /\ Len(part) = Len(g) + Len(e)
      /\ \A k \in 1..Len(g) + Len(e) : part[k] = IF k <= Len(g) THEN g[k] ELSE e[k - Len(g)]
  BY <1>1, ConcatProperties
<1>. HIDE DEF all, part
<1>4. /\ SubSeq(all, 1, 1 + m) \in Seq(Words) /\ Len(SubSeq(all, 1, 1 + m)) = 1 + m
      /\ \A k \in 1..1 + m : SubSeq(all, 1, 1 + m)[k] = all[k]
  BY <1>1, <1>2
<1>5. \A k \in 1..1 + m : all[k] = part[k]
  <2>. SUFFICES ASSUME NEW k \in 1..1 + m PROVE all[k] = part[k]
    OBVIOUS
  <2>1. k \in 1..1 + Len(s) /\ k \in 1..1 + Len(e) /\ (~(k <= 1) => k - 1 \in 1..m)
    BY <1>1
  <2>. QED  BY <1>1, <1>2, <1>3, <2>1
<1>6. SubSeq(all, 1, 1 + m) = part
  BY <1>1, <1>3, <1>4, <1>5
<1>. QED  BY <1>6 DEF all, part, e

(* The row of an image group whose tail is next.                           *)
LEMMA TailFacts ==
  ASSUME IInv, phase = "rows"
  PROVE  LET r == Group[row + 1]
         IN  /\ row \in Nat /\ row + 1 \in 1..GroupSize /\ r.labels \in Nat
             /\ memory[row] = <<GroupImage>> \o PrefixTokens /\ Len(memory[row]) = 1 + shared
             /\ SuffixOf(r) \in Seq(Words) /\ Len(SuffixOf(r)) \in 0..MaxSeqs * MaxLength
             /\ memory[row] \o SuffixOf(r) = <<GroupImage>> \o r.tokens
             /\ <<GroupImage>> \o r.tokens \in Seq(Words) /\ Fits(<<GroupImage>> \o r.tokens)
             /\ start + row \in DOMAIN rows /\ rows[start + row] = r
             /\ \A k \in 1..r.labels :
                  SubSeq(<<GroupImage>> \o r.tokens, 1, 1 + shared + MarkerAt(SuffixOf(r), k))
                    = OwnContexts(r)[k]
<1>. USE DEF IInv
<1>. DEFINE i == row + 1
            r == Group[i]
            s == r.tokens
            g == <<GroupImage>>
<1>1. /\ Planned /\ Accepted /\ GroupSize \in Nat \ {0} /\ start \in Nat \ {0}
      /\ row \in Nat /\ row < GroupSize
  BY PassTyped DEF ImagePhases, Typed, PassInv
<1>2. i \in 1..GroupSize
  BY <1>1
<1>3. IsImageGroup /\ g \in Seq(Words) /\ Len(g) = 1 /\ PrefixTokens \in Seq(Words)
      /\ Len(PrefixTokens) = shared /\ shared \in Nat
  BY ImagePass DEF ImagePhases
<1>4. memory[row] = g \o PrefixTokens
  BY <1>1 DEF MemoryInv, Typed
<1>5. Len(memory[row]) = 1 + shared
  BY <1>3, <1>4, ConcatProperties
<1>6. /\ Sound(r) /\ s \in Seq(Words) /\ Len(s) \in Nat /\ shared <= Len(s)
      /\ SuffixOf(r) \in Seq(Words) /\ Len(SuffixOf(r)) = Len(s) - shared
      /\ PrefixTokens \o SuffixOf(r) = s
  BY <1>1, <1>2, SuffixFacts
<1>7. memory[row] \o SuffixOf(r) = g \o s
  <2>. HIDE DEF g, r
  <2>1. (g \o PrefixTokens) \o SuffixOf(r) = g \o (PrefixTokens \o SuffixOf(r))
    <3>1. \A a, b, c \in Seq(Words) : (a \o b) \o c = a \o (b \o c)
      BY ConcatAssociative, SMTT(60)
    <3>. QED  BY <1>3, <1>6, <3>1
  <2>. QED  BY <1>4, <1>6, <2>1
<1>8. g \o s \in Seq(Words) /\ Fits(g \o s)
  BY <1>1, <1>2, <1>3, ImageFits
<1>9. Len(SuffixOf(r)) \in 0..MaxSeqs * MaxLength
  <2>1. Len(s) <= Budgeted(r) /\ Budgeted(r) \in Nat /\ Budgeted(r) <= MaxLength
    BY <1>6, SoundFits DEF Sound
  <2>2. MaxLength \in Nat /\ MaxSeqs \in Nat \ {0}
    BY Parameters
  <2>3. MaxLength <= MaxSeqs * MaxLength /\ MaxSeqs * MaxLength \in Nat
    BY <2>2
  <2>4. PICK l \in Nat : l = Len(s)
    BY <1>6
  <2>. HIDE DEF r, s
  <2>5. Len(SuffixOf(r)) = l - shared /\ shared <= l /\ l <= MaxLength
    BY <1>6, <2>1, <2>2, <2>4
  <2>. QED  BY <1>3, <2>2, <2>3, <2>5
<1>10. start + row \in DOMAIN rows /\ rows[start + row] = r /\ r.image = rows[start].image
  <2>1. start + i - 1 = start + row
    BY <1>1
  <2>2. start + i - 1 \in DOMAIN rows /\ Group[i] = rows[start + i - 1]
        /\ Group[i].image = rows[start].image
    BY <1>1, <1>2, GroupFacts DEF Accepted
  <2>. HIDE DEF i
  <2>. QED  BY <2>1, <2>2
<1>11. ASSUME NEW k \in 1..r.labels
       PROVE  SubSeq(g \o s, 1, 1 + shared + MarkerAt(SuffixOf(r), k)) = OwnContexts(r)[k]
  <2>. DEFINE m == MarkerAt(s, k)
  <2>1. m \in shared + 1..Len(s) /\ MarkerAt(SuffixOf(r), k) = m - shared
    BY <1>1, <1>2, SuffixMarkers
  <2>2. OwnContexts(r)[k] = g \o SubSeq(s, 1, m)
    <3>1. r.image # NoImage /\ ImageId[r.image] = GroupImage
      BY <1>3, <1>10 DEF IsImageGroup, GroupImage
    <3>. HIDE DEF r
    <3>. QED  BY <3>1 DEF OwnContexts
  <2>. HIDE DEF m, r, s, g
  <2>3. m \in 1..Len(s) /\ 1 + shared + MarkerAt(SuffixOf(r), k) = 1 + m
    BY <1>3, <1>6, <2>1
  <2>4. SubSeq(g \o s, 1, 1 + m) = g \o SubSeq(s, 1, m)
    BY <1>3, <1>6, <2>3, BehindImage
  <2>. QED  BY <2>2, <2>3, <2>4
<1>12. r.labels \in Nat
  BY <1>6 DEF Sound, IsRow
<1>. QED  BY <1>1, <1>2, <1>4, <1>5, <1>6, <1>7, <1>8, <1>9, <1>10, <1>11, <1>12

(* So are the logits of an image group, over the image and the prompt.     *)
LEMMA DecodeTailStep ==
  ASSUME IInv, DecodeTail
  PROVE  IInv'
<1>. USE DEF IInv
<1>. DEFINE r == Group[row + 1]
            own == [k \in 1..r.labels |->
                      SubSeq(memory'[row], 1, Len(memory[row]) + MarkerAt(SuffixOf(r), k))]
<1>1. /\ phase = "rows"
      /\ memory' = [memory EXCEPT ![row] = memory[row] \o SuffixOf(r)]
      /\ results' = [results EXCEPT ![start + row] = own]
      /\ width' = Len(SuffixOf(r))
      /\ IF row + 1 = GroupSize
         THEN row' = 0 /\ start' = start + GroupSize /\ phase' = "group"
         ELSE row' = row + 1 /\ UNCHANGED <<start, phase>>
      /\ UNCHANGED <<rows, error, prefixes, images, imageBytes, shared>>
  BY DEF DecodeTail, cacheVars
<1>2. /\ row \in Nat /\ row + 1 \in 1..GroupSize /\ r.labels \in Nat
      /\ Len(memory[row]) = 1 + shared /\ Len(SuffixOf(r)) \in 0..MaxSeqs * MaxLength
      /\ memory[row] \o SuffixOf(r) = <<GroupImage>> \o r.tokens
      /\ <<GroupImage>> \o r.tokens \in Seq(Words) /\ Fits(<<GroupImage>> \o r.tokens)
      /\ start + row \in DOMAIN rows /\ rows[start + row] = r
      /\ \A k \in 1..r.labels :
           SubSeq(<<GroupImage>> \o r.tokens, 1, 1 + shared + MarkerAt(SuffixOf(r), k))
             = OwnContexts(r)[k]
  BY <1>1, TailFacts
<1>3. /\ Planned /\ error = "none" /\ GroupSize \in 1..MaxSeqs /\ GroupSize \in Nat \ {0}
      /\ start \in Nat \ {0} /\ start + GroupSize \in 1..Len(rows) + 1
      /\ Len(rows) \in Nat /\ DOMAIN rows = 1..Len(rows) /\ rows \in Calls /\ ~Refused(rows)
      /\ \A s \in Sequences0 : s \in Nat
  BY <1>1, PassTyped DEF ImagePhases, Planned, Accepted, Begun
<1>4. \A s \in Sequences0 :
        memory'[s] = IF s = row THEN <<GroupImage>> \o r.tokens ELSE memory[s]
  BY <1>1, <1>2 DEF Typed
<1>5. memory' \in [Sequences0 -> Seq(Words)] /\ \A s \in Sequences0 : Fits(memory'[s])
  <2>1. memory' \in [Sequences0 -> Seq(Words)]
    BY <1>1, <1>2 DEF Typed
  <2>2. \A s \in Sequences0 : Fits(memory[s])
    BY DEF ContextFits, Fits
  <2>. QED  BY <1>2, <1>4, <2>1, <2>2
<1>6. own = OwnContexts(r)
  <2>1. memory'[row] = <<GroupImage>> \o r.tokens
    BY <1>4 DEF Typed
  <2>2. \A k \in 1..r.labels : own[k] = OwnContexts(r)[k]
    BY <1>2, <2>1
  <2>3. own = [k \in 1..r.labels |-> own[k]]
    OBVIOUS
  <2>4. OwnContexts(r) = [k \in 1..r.labels |-> OwnContexts(r)[k]]
    <3>. HIDE DEF r
    <3>. QED  BY DEF OwnContexts
  <2>. HIDE DEF own, r
  <2>. QED  BY <2>2, <2>3, <2>4
<1>. HIDE DEF own
<1>7. /\ DOMAIN results' = DOMAIN rows
      /\ \A j \in DOMAIN rows : j < start + row + 1 => results'[j] = OwnContexts(rows[j])
  <2>1. \A j \in DOMAIN rows : results'[j] = IF j = start + row THEN own ELSE results[j]
    BY <1>1 DEF Typed
  <2>2. \A j \in DOMAIN rows : j < start + row => results[j] = OwnContexts(rows[j])
    BY <1>1, <1>3 DEF ResultsInv
  <2>3. DOMAIN results' = DOMAIN rows
    BY <1>1 DEF Typed
  <2>4. \A j \in DOMAIN rows : j < start + row + 1 => j = start + row \/ j < start + row
    <3>1. DOMAIN rows \subseteq Nat /\ start + row \in Nat
      BY <1>2, <1>3
    <3>2. PICK l \in Nat : l = start + row
      BY <3>1
    <3>. QED  BY <3>1, <3>2
  <2>. HIDE DEF r
  <2>. QED  BY <1>2, <1>6, <2>1, <2>2, <2>3, <2>4
<1>8. CASE row + 1 = GroupSize
  <2>1. row' = 0 /\ start' = start + GroupSize /\ phase' = "group"
        /\ start + GroupSize = start + row + 1
    BY <1>1, <1>2, <1>3, <1>8
  <2>2. Typed'
    BY <1>1, <1>2, <1>3, <1>5, <1>7, <2>1, Parameters DEF Typed, Phases
  <2>3. PassInv' /\ MemoryInv' /\ CacheInv'
    BY <1>1, <1>3, <2>1 DEF PassInv, MemoryInv, CacheInv, TextPhases, ImagePhases
  <2>4. ResultsInv'
    BY <1>1, <1>2, <1>3, <1>7, <2>1 DEF ResultsInv
  <2>5. OnlyFlawsReject' /\ CheckpointsExact'
    BY <1>1, <1>3 DEF OnlyFlawsReject, CheckpointsExact
  <2>6. ImagesHeld'
    BY <1>1, <2>1 DEF ImagesHeld
  <2>7. ContextFits'
    BY <1>5 DEF ContextFits, Fits
  <2>. QED  BY <2>2, <2>3, <2>4, <2>5, <2>6, <2>7
<1>9. CASE row + 1 # GroupSize
  <2>1. row' = row + 1 /\ start' = start /\ phase' = "rows"
    BY <1>1, <1>9
  <2>2. row + 1 < GroupSize /\ row + 1 \in Sequences0
    BY <1>2, <1>3, <1>9, Parameters DEF Sequences0
  <2>3. /\ GroupSize' = GroupSize /\ Group' = Group /\ (IsImageGroup' <=> IsImageGroup)
        /\ GroupImage' = GroupImage /\ PrefixTokens' = PrefixTokens /\ (Planned' <=> Planned)
    BY <1>1, <2>1, SameGroup
  <2>4. Typed'
    BY <1>1, <1>2, <1>3, <1>5, <1>7, <2>1, <2>2 DEF Typed, Phases
  <2>5. PassInv' /\ CacheInv'
    BY <1>1, <1>3, <2>1, <2>2, <2>3 DEF PassInv, CacheInv, TextPhases, ImagePhases
  <2>6. MemoryInv'
    <3>1. ASSUME NEW s \in Sequences0
          PROVE  memory'[s] = IF s < row + 1 THEN <<GroupImage>> \o Group[s + 1].tokens
                              ELSE IF s < GroupSize THEN <<GroupImage>> \o PrefixTokens ELSE <<>>
      <4>1. memory[s] = IF s < row THEN <<GroupImage>> \o Group[s + 1].tokens
                        ELSE IF s < GroupSize THEN <<GroupImage>> \o PrefixTokens ELSE <<>>
        BY <1>1 DEF MemoryInv
      <4>2. s \in Nat /\ (s # row => (s < row + 1 <=> s < row)) /\ (s = row => s < row + 1)
        BY <1>2, <1>3
      <4>. QED  BY <1>4, <4>1, <4>2
    <3>. QED  BY <2>1, <2>3, <3>1 DEF MemoryInv
  <2>7. ResultsInv'
    <3>1. start' + (IF phase' = "rows" THEN row' ELSE 0) = start + row + 1
      BY <1>2, <1>3, <2>1
    <3>. QED  BY <1>1, <1>7, <3>1 DEF ResultsInv
  <2>8. OnlyFlawsReject' /\ CheckpointsExact'
    BY <1>1, <1>3 DEF OnlyFlawsReject, CheckpointsExact
  <2>9. ImagesHeld'
    BY <1>1, <2>1, <2>3 DEF ImagesHeld
  <2>10. ContextFits'
    BY <1>5 DEF ContextFits, Fits
  <2>. QED  BY <2>4, <2>5, <2>6, <2>7, <2>8, <2>9, <2>10
<1>. QED  BY <1>8, <1>9

(* What a failing call was to add would have fitted.                       *)
LEMMA DueFits ==
  ASSUME IInv, phase \in {"prefix", "suffix", "image", "encoded", "tail", "rows"},
         NEW s \in Sequences0
  PROVE  Due(s) \in Seq(Words) /\ memory[s] \in Seq(Words) /\ Fits(memory[s] \o Due(s))
<1>. USE DEF IInv
<1>1. memory[s] \in Seq(Words) /\ Fits(memory[s])
  BY DEF Typed, ContextFits, Fits
<1>2. CASE Due(s) = <<>>
  <2>1. memory[s] \o <<>> = memory[s] /\ <<>> \in Seq(Words)
    BY <1>1, ConcatEmptySeq
  <2>. QED  BY <1>1, <1>2, <2>1
<1>3. CASE phase = "prefix" /\ s = 0
  <2>1. Due(s) = PrefixTokens
    BY <1>3 DEF Due
  <2>2. PrefixTokens \in Seq(Words) /\ Fits(PrefixTokens)
    BY <1>3, TextPass DEF TextPhases
  <2>3. memory[s] = <<>> /\ <<>> \o PrefixTokens = PrefixTokens
    BY <1>3, <2>2, ConcatEmptySeq DEF MemoryInv
  <2>. QED  BY <1>1, <2>1, <2>2, <2>3
<1>4. CASE phase = "tail" /\ s = 0
  <2>1. Due(s) = PrefixTokens
    BY <1>4 DEF Due
  <2>2. PrefixTokens \in Seq(Words) /\ Fits(<<GroupImage>> \o PrefixTokens)
    BY <1>4, ImagePass DEF ImagePhases
  <2>3. memory[s] = <<GroupImage>>
    BY <1>4 DEF MemoryInv
  <2>. QED  BY <1>1, <2>1, <2>2, <2>3
<1>5. CASE phase = "suffix" /\ s < GroupSize
  <2>1. Due(s) = SuffixOf(Group[s + 1])
    BY <1>5 DEF Due
  <2>2. Planned /\ ~IsImageGroup /\ s + 1 \in 1..GroupSize
    BY <1>5, TextPass, PassTyped DEF TextPhases
  <2>3. /\ SuffixOf(Group[s + 1]) \in Seq(Words)
        /\ PrefixTokens \o SuffixOf(Group[s + 1]) = Group[s + 1].tokens
        /\ Fits(Group[s + 1].tokens)
    BY <2>2, SuffixFacts, TextFits
  <2>4. memory[s] = PrefixTokens
    BY <1>5 DEF MemoryInv
  <2>. QED  BY <1>1, <2>1, <2>3, <2>4
<1>6. CASE phase = "encoded" /\ s = 0
  <2>1. Due(s) = <<Head(images).embeddings>>
    BY <1>6 DEF Due
  <2>2. <<GroupImage>> \in Seq(Words) /\ Fits(<<GroupImage>>)
    BY <1>6, ImagePass DEF ImagePhases
  <2>3. Head(images).embeddings = GroupImage
    <3>1. images # <<>> /\ Head(images).id = GroupImage /\ images \in Seq(ImageEntry)
      BY <1>6 DEF Typed, ImagesHeld
    <3>2. PICK e \in ImageEntry : e = Head(images)
      BY <3>1
    <3>3. e.embeddings = e.id
      BY DEF ImageEntry
    <3>. QED  BY <3>1, <3>2, <3>3
  <2>4. memory[s] = <<>> /\ <<>> \o <<GroupImage>> = <<GroupImage>>
    BY <1>6, <2>2, ConcatEmptySeq DEF MemoryInv
  <2>. QED  BY <1>1, <2>1, <2>2, <2>3, <2>4
<1>7. CASE phase = "rows" /\ s = row
  <2>1. Due(s) = SuffixOf(Group[row + 1])
    BY <1>7 DEF Due
  <2>2. /\ SuffixOf(Group[row + 1]) \in Seq(Words)
        /\ memory[row] \o SuffixOf(Group[row + 1]) = <<GroupImage>> \o Group[row + 1].tokens
        /\ Fits(<<GroupImage>> \o Group[row + 1].tokens)
    BY <1>7, TailFacts
  <2>. QED  BY <1>1, <1>7, <2>1, <2>2
<1>8. \/ Due(s) = <<>> \/ (phase = "prefix" /\ s = 0) \/ (phase = "tail" /\ s = 0)
      \/ (phase = "suffix" /\ s < GroupSize) \/ (phase = "encoded" /\ s = 0)
      \/ (phase = "rows" /\ s = row)
  <2>. SUFFICES ASSUME ~(phase = "prefix" /\ s = 0), ~(phase = "tail" /\ s = 0),
                       ~(phase = "suffix" /\ s < GroupSize), ~(phase = "encoded" /\ s = 0),
                       ~(phase = "rows" /\ s = row)
                PROVE  Due(s) = <<>>
    OBVIOUS
  <2>. QED  BY DEF Due
<1>. QED  BY <1>2, <1>3, <1>4, <1>5, <1>6, <1>7, <1>8

LEMMA DeviceFailsStep ==
  ASSUME IInv, DeviceFails
  PROVE  IInv'
<1>1. /\ phase \in {"prefix", "suffix", "image", "encoded", "tail", "rows"} /\ Throw("device")
      /\ \E s \in Sequences0 : \E n \in Partial \cap 0..Len(Due(s)) :
           memory' = [memory EXCEPT ![s] = memory[s] \o SubSeq(Due(s), 1, n)]
      /\ UNCHANGED <<cacheVars, width>>
  BY DEF DeviceFails
<1>2. PICK s \in Sequences0 : \E n \in 0..Len(Due(s)) :
        memory' = [memory EXCEPT ![s] = memory[s] \o SubSeq(Due(s), 1, n)]
  BY <1>1
<1>. PICK n \in 0..Len(Due(s)) :
       memory' = [memory EXCEPT ![s] = memory[s] \o SubSeq(Due(s), 1, n)]
  BY <1>2
<1>3. /\ memory[s] \o SubSeq(Due(s), 1, n) \in Seq(Words)
      /\ Fits(memory[s] \o SubSeq(Due(s), 1, n))
  BY <1>1, DueFits, FitsPart
<1>4. memory \in [Sequences0 -> Seq(Words)] /\ \A q \in Sequences0 : Fits(memory[q])
  BY DEF IInv, Typed, ContextFits, Fits
<1>5. memory' \in [Sequences0 -> Seq(Words)] /\ \A q \in Sequences0 : Fits(memory'[q])
  BY <1>3, <1>4
<1>. QED  BY <1>1, <1>5, ThrowStep

-----------------------------------------------------------------------------
(* Every step keeps the invariant, one action after another.               *)
LEMMA NextInv == IInv /\ [Next]_vars => IInv'
<1>. SUFFICES ASSUME IInv, [Next]_vars PROVE IInv'
  OBVIOUS
<1>1. CASE Scoring
  BY <1>1, ReturnStep, RejectGroupStep, BeginGroupStep, RestoreStep, RestoreFailsStep,
     RestoreMissesStep, DecodePrefixStep, ShareStep, DecodeSuffixesStep, ReadStatesStep,
     FindImageStep, DecodeImageStep, DecodeSharedTailStep, DecodeTailStep, DeviceFailsStep
     DEF Scoring
<1>2. CASE \E call \in Calls : Score(call)
  BY <1>2, ScoreStep
<1>3. CASE UNCHANGED vars
  <2>1. /\ UNCHANGED <<rows, start, results, error>>
        /\ UNCHANGED <<prefixes, images, imageBytes, phase, memory, shared, row, width>>
    BY <1>3 DEF vars, callVars, cacheVars
  <2>2. /\ GroupSize' = GroupSize /\ Group' = Group /\ (IsImageGroup' <=> IsImageGroup)
        /\ GroupImage' = GroupImage /\ PrefixTokens' = PrefixTokens /\ (Planned' <=> Planned)
        /\ (Cacheable' <=> Cacheable)
    BY <2>1, SameGroup
  <2>3. Typed'
    BY <2>1 DEF IInv, Typed
  <2>4. PassInv'
    BY <2>1, <2>2 DEF IInv, PassInv
  <2>5. MemoryInv'
    BY <2>1, <2>2 DEF IInv, MemoryInv
  <2>6. CacheInv' /\ ResultsInv'
    BY <2>1, <2>2 DEF IInv, CacheInv, ResultsInv
  <2>7. OnlyFlawsReject' /\ CheckpointsExact'
    BY <2>1 DEF IInv, OnlyFlawsReject, CheckpointsExact
  <2>8. ImagesHeld' /\ ContextFits'
    BY <2>1, <2>2 DEF IInv, ImagesHeld, ContextFits
  <2>. QED  BY <2>3, <2>4, <2>5, <2>6, <2>7, <2>8 DEF IInv
<1>. QED  BY <1>1, <1>2, <1>3 DEF Next

(* IInv holds in every state that can be reached.                          *)
THEOREM Invariance == Spec => []IInv
<1>. QED  BY InitInv, NextInv, PTL DEF Spec

(* Rows, sequences, widths and results stay within their bounds, and the   *)
(* planned prefix is aligned.                                              *)
LEMMA TypeFollows == IInv => TypeOK
BY DEF IInv, Typed, TypeOK

(* The types of the engine hold throughout.                                *)
THEOREM TypeCorrect == Spec => []TypeOK
<1>. QED  BY Invariance, TypeFollows, PTL

(* Every candidate of every row is scored over the row's own image and     *)
(* prompt up to its own marker, for any rows, groups and limits, whatever  *)
(* earlier calls of score() and failures have left behind.                 *)
LEMMA ResultsFollow == IInv => ResultsOwn
<1>. SUFFICES ASSUME IInv, phase = "idle", error = "none", NEW i \in DOMAIN rows
              PROVE  results[i] = OwnContexts(rows[i])
  BY DEF ResultsOwn, Answered
<1>1. rows \in Calls
  <2>1. rows # <<>>
    OBVIOUS
  <2>. QED  BY <2>1 DEF IInv, Typed
<1>2. DOMAIN rows = 1..Len(rows) /\ Len(rows) \in Nat /\ start = Len(rows) + 1
  BY <1>1, CallTyped DEF IInv, PassInv
<1>. QED  BY <1>2 DEF IInv, ResultsInv

(* Every result of a call is a function of its own input.                  *)
THEOREM ResultsAreOwn == Spec => []ResultsOwn
<1>. QED  BY Invariance, ResultsFollow, PTL

(* A call is refused for a flaw of one of its rows, or the device fails:   *)
(* no marker becomes unreadable because a prefix is shared.                *)
THEOREM RefusedForFlaws == Spec => []OnlyFlawsReject
<1>1. IInv => OnlyFlawsReject
  BY DEF IInv
<1>. QED  BY <1>1, Invariance, PTL

(* The checkpoints of the engine stay exact, through restores that fail    *)
(* and passes that throw.                                                  *)
THEOREM CheckpointsStayExact == Spec => []CheckpointsExact
<1>1. IInv => CheckpointsExact
  BY DEF IInv
<1>. QED  BY <1>1, Invariance, PTL

(* The image cache accounts for what it holds, and holds the image a pass  *)
(* is decoding.                                                            *)
THEOREM ImagesStayHeld == Spec => []ImagesHeld
<1>1. IInv => ImagesHeld
  BY DEF IInv
<1>. QED  BY <1>1, Invariance, PTL

(* No sequence outgrows its budget, a failed decode included.              *)
THEOREM SequencesFit == Spec => []ContextFits
<1>1. IInv => ContextFits
  BY DEF IInv
<1>. QED  BY <1>1, Invariance, PTL
==============================================================================
