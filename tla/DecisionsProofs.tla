--------------------------- MODULE DecisionsProofs ---------------------------
(***************************************************************************)
(* What Decisions promises of an answer, for every call, every profile and *)
(* every vocabulary: each response answers its own questions, says of each *)
(* what the model decided, is charged for the rows of its own questions    *)
(* and lists the winner's probability under the winner's label.            *)
(*                                                                         *)
(* The invariant says what every planned entry stands for: the question it *)
(* is for, and its rows, wherever they landed among those of others.       *)
(***************************************************************************)
EXTENDS Decisions, Lemmas

\* The rows each question of a request is asked with, and all of them.
Counts(p, request) == [k \in DOMAIN request |-> RowCount(p, request[k])]

Charge(p, request) == Total(Counts(p, request), 1..Len(request))

\* The rows of an entry among the rows planned: those of its question in an order it may have.
InRows(p, q, rs, e) ==
  \E order \in Orders(p, q) :
    /\ e.legend = Legend(p, q, order)
    /\ \A k \in 1..e.count : rs[e.first + k - 1] = RowsFor(p, q, order)[k]

\* An entry stands for a question of the call.
Made(p, c, rs, e) ==
  LET q == c[e.request][e.id] IN
  /\ e.request \in DOMAIN c /\ e.id \in DOMAIN c[e.request]
  /\ Acceptable(p, q)
  /\ e.kind = Kind(p, q) /\ e.keys = Keys(p, q)
  /\ e.count = RowCount(p, q) /\ e.isolated = Isolated(p, q)
  /\ e.first \in Nat \ {0} /\ e.first + e.count - 1 <= Len(rs)
  /\ InRows(p, q, rs, e)

IsFor(e, i, id) == e.request = i /\ e.id = id

\* The labels of n options are read as they are shown.  jet and jpt show other pairs of letters
\* than they read, and jet reads letters where it shows digits or words.
Told(p, kind, n) ==
  p \notin {"jet", "jpt"} \/ (n <= Letters /\ (p = "jet" => kind = "choice"))

\* They are, and yes comes after no.
Straight(p, q) ==
  Told(p, Kind(p, q), Size(p, q)) /\ ~(p = "jpt" /\ Kind(p, q) = "noul")

\* All questions of the call are asked so.
AllStraight == \A i \in DOMAIN call : \A n \in DOMAIN call[i] : Straight(profile, call[i][n])

\* An answer says what the verdict on its question says.
Right(p, q, a) ==
  /\ a.kind = Kind(p, q)
  /\ p = "dohnuts" \/ IsInjective(q.options) => a.own
  /\ Straight(p, q) => a.value \in Meanings(p, q) /\ (a.kind = "score" => a.level = q.verdict)

Complete(p, request, r) ==
  /\ DOMAIN r.answers = DOMAIN request
  /\ \A n \in DOMAIN request : Right(p, request[n], r.answers[n])
  /\ r.used = Charge(p, request)

-----------------------------------------------------------------------------
(* The invariant *)

Running == phase \in {"plan", "score", "answer"}

\* The questions that have an entry.
Due(i, id) ==
  IF phase = "plan" THEN (i = at /\ id < question) \/ (profile = "dohnuts" /\ i < at)
  ELSE profile = "dohnuts" \/ i = at

\* How many questions of the request at hand have one.
Asked == IF phase = "plan" THEN question - 1 ELSE Len(call[at])

Typed ==
  /\ profile \in Profiles /\ call \in Calls
  /\ at \in DOMAIN call /\ question \in DOMAIN call[at]
  /\ phase \in {"plan", "score", "answer", "done", "refused"}

EntriesMade ==
  \A n \in DOMAIN plan : Made(profile, call, rows, plan[n]) /\ Due(plan[n].request, plan[n].id)

EveryDueHasEntry ==
  \A i \in DOMAIN call : \A id \in DOMAIN call[i] :
    Due(i, id) => \E n \in DOMAIN plan : IsFor(plan[n], i, id)

OneEntryEach ==
  \A m, n \in DOMAIN plan : IsFor(plan[m], plan[n].request, plan[n].id) => m = n

PlanInv ==
  /\ IsSeq(rows) /\ IsSeq(plan)
  /\ EntriesMade
  /\ EveryDueHasEntry
  /\ OneEntryEach
  /\ profile # "dohnuts" => Len(rows) = Total(Counts(profile, call[at]), 1..Asked)
  /\ phase # "plan" => question = 1

WinnersInv ==
  /\ IsSeq(winners)
  /\ \A k \in DOMAIN winners : k \in DOMAIN rows /\ winners[k] \in Preferred(rows[k])
  /\ phase = "plan" => winners = <<>>
  /\ phase = "score" => Len(winners) < Len(rows)
  /\ phase = "answer" => Len(winners) = Len(rows)

\* The responses given: all of the call, or those of the requests before the one at hand.
AnsweredInv ==
  /\ phase = "done" => Len(output) = Len(call)
  /\ Running => Len(output) = at - 1
  /\ \A i \in DOMAIN output : Complete(profile, call[i], output[i])

\* The dohnuts profile keeps an empty response for every request planned until the end.
ReservedInv ==
  /\ Len(output) = IF phase = "plan" THEN at - 1 ELSE Len(call)
  /\ \A i \in DOMAIN output : output[i] = Empty

OutputInv ==
  /\ IsSeq(output)
  /\ phase = "refused" => output = <<>>
  /\ IF Running /\ profile = "dohnuts" THEN ReservedInv ELSE phase # "refused" => AnsweredInv

IInv == Typed /\ OutputInv /\ (Running => PlanInv /\ WinnersInv)

-----------------------------------------------------------------------------
(* Labels                                                                  *)

\* What the pair of letters a and b puts on the list of labels, and all pairs with a.
PairLabel(a, b) == IF <<a, b>> \in SinglePairs THEN <<<<"pair", a, b>>>> ELSE <<>>

PairsWith(a) == [b \in 1..Letters |-> PairLabel(a, b)]

PairLabels == {<<"pair", a, b>> : a \in 1..Letters, b \in 1..Letters}

(* The pairs that begin with one letter are distinct.                      *)
LEMMA PairsDistinct ==
  ASSUME NEW a \in 1..Letters
  PROVE  /\ FlattenSeq(PairsWith(a)) \in Seq(PairLabels)
         /\ IsInjective(FlattenSeq(PairsWith(a)))
         /\ \A j \in 1..Len(FlattenSeq(PairsWith(a))) : FlattenSeq(PairsWith(a))[j][2] = a
<1>. DEFINE s == PairsWith(a)
<1>1. Letters \in Nat
  BY DecisionsAssumption
<1>2. ASSUME NEW b \in 1..Letters
      PROVE  /\ s[b] \in Seq(PairLabels)
             /\ \A k \in 1..Len(s[b]) : k = 1 /\ s[b][k] = <<"pair", a, b>>
             /\ DOMAIN s[b] = 1..Len(s[b])
  <2>1. s[b] = PairLabel(a, b) /\ <<"pair", a, b>> \in PairLabels
    BY DEF PairsWith, PairLabels
  <2>2. CASE <<a, b>> \in SinglePairs
    BY <2>1, <2>2 DEF PairLabel
  <2>3. CASE <<a, b>> \notin SinglePairs
    BY <2>1, <2>3 DEF PairLabel
  <2>. QED  BY <2>2, <2>3
<1>3. s \in [1..Letters -> Seq(PairLabels)]
  BY <1>2 DEF PairsWith
<1>. HIDE DEF s
<1>4. AllDistinct(s, Letters)
  <2>1. \A b \in 1..Letters : IsInjective(s[b])
    BY <1>2 DEF IsInjective
  <2>2. ASSUME NEW b \in 1..Letters, NEW c \in 1..Letters,
               NEW j \in 1..Len(s[b]), NEW k \in 1..Len(s[c]), s[b][j] = s[c][k]
        PROVE  b = c
    <3>1. s[b][j] = <<"pair", a, b>> /\ s[c][k] = <<"pair", a, c>>
      BY <1>2
    <3>2. <<"pair", a, b>>[3] = <<"pair", a, c>>[3]
      BY <2>2, <3>1
    <3>. QED  BY <3>2
  <2>. QED  BY <2>1, <2>2 DEF AllDistinct
<1>5. IsInjective(FlattenSeq(s))
  BY <1>1, <1>3, <1>4, FlattenDistinct
<1>6. FlattenSeq(s) \in Seq(PairLabels)
  BY <1>1, <1>3, FlattenLays
<1>7. ASSUME NEW j \in 1..Len(FlattenSeq(s)) PROVE FlattenSeq(s)[j][2] = a
  <2>1. AsLong(s, s, Letters)
    BY DEF AsLong
  <2>2. InStep(FlattenSeq(s), FlattenSeq(s), s, s, Letters)
    BY <1>1, <1>3, <2>1, FlattenAligned
  <2>3. j \in DOMAIN FlattenSeq(s)
    BY <1>6
  <2>4. PICK b \in 1..Letters : \E k \in 1..Len(s[b]) : FlattenSeq(s)[j] = s[b][k]
    BY <2>2, <2>3 DEF InStep
  <2>. QED  BY <1>2, <2>4
<1>. QED  BY <1>5, <1>6, <1>7 DEF s

(* The labels are distinct, and the first of them are the letters.         *)
LEMMA LabelsDistinct ==
  /\ IsSeq(SingleTokenLabels) /\ Letters <= Len(SingleTokenLabels)
  /\ IsInjective(SingleTokenLabels)
  /\ \A j \in 1..Letters : SingleTokenLabels[j] = <<"letter", j>>
<1>. DEFINE letters == [j \in 1..Letters |-> <<"letter", j>>]
            byFirst == [a \in 1..Letters |-> FlattenSeq(PairsWith(a))]
            pairs == FlattenSeq(byFirst)
<1>1. Letters \in Nat
  BY DecisionsAssumption
<1>2. SingleTokenLabels = letters \o pairs
  BY DEF SingleTokenLabels, PairsWith, PairLabel
<1>3. byFirst \in [1..Letters -> Seq(PairLabels)]
  BY PairsDistinct
<1>4. AllDistinct(byFirst, Letters)
  <2>1. ASSUME NEW a \in 1..Letters
        PROVE  IsInjective(byFirst[a]) /\ \A j \in 1..Len(byFirst[a]) : byFirst[a][j][2] = a
    <3>1. byFirst[a] = FlattenSeq(PairsWith(a))
      OBVIOUS
    <3>. QED  BY <3>1, PairsDistinct
  <2>. HIDE DEF byFirst
  <2>2. ASSUME NEW a \in 1..Letters, NEW c \in 1..Letters,
               NEW j \in 1..Len(byFirst[a]), NEW k \in 1..Len(byFirst[c]), byFirst[a][j] = byFirst[c][k]
        PROVE  a = c
    BY <2>1, <2>2, SMTT(60)
  <2>. QED  BY <2>1, <2>2 DEF AllDistinct
<1>. HIDE DEF byFirst
<1>5. pairs \in Seq(PairLabels) /\ IsInjective(pairs)
  BY <1>1, <1>3, <1>4, FlattenLays, FlattenDistinct
<1>. HIDE DEF pairs
<1>6. /\ IsSeq(letters) /\ Len(letters) = Letters
      /\ \A j \in 1..Letters : letters[j] = <<"letter", j>>
  BY <1>1, Listing
<1>7. IsSeq(pairs) /\ Len(pairs) \in Nat /\ DOMAIN pairs = 1..Len(pairs)
  BY <1>5, KnownSeq
<1>. DEFINE all == letters \o pairs
            n == Len(pairs)
<1>. HIDE DEF letters
<1>8. /\ IsSeq(all) /\ Len(all) = Letters + n
      /\ \A j \in 1..Letters : all[j] = <<"letter", j>>
      /\ \A j \in 1..n : all[Letters + j] = pairs[j]
  <2>1. /\ IsSeq(all) /\ Len(all) = Len(letters) + n
        /\ \A j \in 1..Len(letters) : all[j] = letters[j]
        /\ \A j \in 1..n : all[Len(letters) + j] = pairs[j]
    <3>1. IsSeq(letters) /\ IsSeq(pairs)
      BY <1>6, <1>7
    <3>. QED  BY <3>1, Joined
  <2>. HIDE DEF all
  <2>. QED  BY <1>6, <2>1
<1>. HIDE DEF all
<1>9. DOMAIN all = 1..Letters + n
  BY <1>8, SeqFacts
<1>10. ASSUME NEW j \in 1..Letters + n, ~(j <= Letters)
       PROVE  j - Letters \in 1..n /\ all[j] = pairs[j - Letters] /\ all[j][1] = "pair"
  <2>1. j - Letters \in 1..n /\ Letters + (j - Letters) = j
    BY <1>1, <1>7, <1>10
  <2>2. all[j] = pairs[j - Letters]
    BY <1>8, <2>1
  <2>3. pairs[j - Letters] \in PairLabels
    BY <1>5, <1>7, <2>1
  <2>. QED  BY <2>1, <2>2, <2>3 DEF PairLabels
<1>11. ASSUME NEW j \in 1..Letters + n, j <= Letters
       PROVE  all[j] = <<"letter", j>> /\ all[j][1] = "letter" /\ all[j][2] = j
  <2>1. j \in 1..Letters
    BY <1>1, <1>7, <1>11
  <2>. QED  BY <1>8, <2>1
<1>12. ASSUME NEW j \in 1..Letters + n, NEW k \in 1..Letters + n, all[j] = all[k]
       PROVE  j = k
  <2>1. CASE j <= Letters /\ k <= Letters
    BY <1>11, <1>12, <2>1
  <2>2. CASE ~(j <= Letters) /\ ~(k <= Letters)
    <3>1. /\ j - Letters \in 1..n /\ all[j] = pairs[j - Letters]
          /\ k - Letters \in 1..n /\ all[k] = pairs[k - Letters]
      BY <1>10, <2>2
    <3>2. j - Letters = k - Letters
      BY <1>5, <1>7, <1>12, <3>1 DEF IsInjective
    <3>. QED  BY <1>1, <1>7, <3>2
  <2>3. CASE j <= Letters /\ ~(k <= Letters)
    <3>1. all[j][1] = "letter" /\ all[k][1] = "pair"
      BY <1>10, <1>11, <2>3
    <3>. QED  BY <1>12, <3>1
  <2>4. CASE ~(j <= Letters) /\ k <= Letters
    <3>1. all[k][1] = "letter" /\ all[j][1] = "pair"
      BY <1>10, <1>11, <2>4
    <3>. QED  BY <1>12, <3>1
  <2>. QED  BY <2>1, <2>2, <2>3, <2>4
<1>13. IsInjective(all)
  BY <1>9, <1>12 DEF IsInjective
<1>14. Letters <= Len(all)
  BY <1>1, <1>7, <1>8
<1>. QED  BY <1>2, <1>8, <1>13, <1>14 DEF all

-----------------------------------------------------------------------------
(* Questions and the orders of their options                               *)

\* What DecisionsAssumption says of a question.
IsQuestion(q) ==
  /\ q.options \in Seq(Int) /\ q.verdict \in DOMAIN q.options
  /\ q.type \in {"noul", "bool"} => Len(q.options) = 2

(* What the assumptions say of a call and its questions.                   *)
LEMMA CallFacts ==
  ASSUME NEW c \in Calls
  PROVE  /\ DOMAIN c = 1..Len(c) /\ Len(c) \in Nat \ {0}
         /\ \A i \in DOMAIN c :
              /\ DOMAIN c[i] = 1..Len(c[i]) /\ Len(c[i]) \in Nat \ {0}
              /\ \A n \in DOMAIN c[i] : IsQuestion(c[i][n])
<1>1. /\ c # <<>> /\ c \in Seq(Range(c))
      /\ \A i \in DOMAIN c :
           /\ c[i] # <<>> /\ c[i] \in Seq(Range(c[i]))
           /\ \A q \in Range(c[i]) : IsQuestion(q)
  BY DecisionsAssumption DEF IsQuestion
<1>2. DOMAIN c = 1..Len(c) /\ Len(c) \in Nat \ {0}
  BY <1>1
<1>3. ASSUME NEW i \in DOMAIN c
      PROVE  /\ DOMAIN c[i] = 1..Len(c[i]) /\ Len(c[i]) \in Nat \ {0}
             /\ \A n \in DOMAIN c[i] : IsQuestion(c[i][n])
  <2>1. c[i] # <<>> /\ c[i] \in Seq(Range(c[i]))
    BY <1>1
  <2>2. \A n \in DOMAIN c[i] : c[i][n] \in Range(c[i])
    BY DEF Range
  <2>. QED  BY <1>1, <2>1, <2>2
<1>. QED  BY <1>2, <1>3

(* What an acceptable question has, by the profile that planned it.        *)
LEMMA SizeFacts ==
  ASSUME NEW p \in Profiles, NEW q, IsQuestion(q), Acceptable(p, q)
  PROVE  /\ p \in AllProfiles /\ Limit[p] \in Nat
         /\ Size(p, q) \in Nat /\ 2 <= Size(p, q) /\ Size(p, q) <= Limit[p]
         /\ Size(p, q) = Len(q.options) /\ DOMAIN q.options = 1..Size(p, q)
         /\ q.verdict \in 1..Size(p, q)
         /\ \A j \in 1..Size(p, q) : q.options[j] \in Int
         /\ Kind(p, q) \in {"noul", "choice", "score"}
         /\ Kind(p, q) = "noul" => Size(p, q) = 2
<1>1. p \in AllProfiles /\ Limit[p] \in Nat
  BY DecisionsAssumption
<1>2. Size(p, q) \in 2..Limit[p] /\ Kind(p, q) \in {"noul", "choice", "score"}
  BY DEF Acceptable
<1>3. Kind(p, q) = "noul" => q.type \in {"noul", "bool"}
  BY DEF Kind
<1>4. Size(p, q) = Len(q.options)
  BY <1>3 DEF Size, IsQuestion
<1>5. /\ DOMAIN q.options = 1..Len(q.options) /\ q.verdict \in DOMAIN q.options
      /\ \A j \in DOMAIN q.options : q.options[j] \in Int
  BY DEF IsQuestion
<1>6. Kind(p, q) = "noul" => Size(p, q) = 2
  BY DEF Size
<1>. QED  BY <1>1, <1>2, <1>4, <1>5, <1>6

(* Every order lists every option once.                                    *)
LEMMA OrderFacts ==
  ASSUME NEW p \in Profiles, NEW q, IsQuestion(q), Acceptable(p, q), NEW order \in Orders(p, q)
  PROVE  /\ DOMAIN order = 1..Size(p, q)
         /\ \A j \in 1..Size(p, q) : order[j] \in 1..Size(p, q)
         /\ \A i, j \in 1..Size(p, q) : order[i] = order[j] => i = j
         /\ \A k \in 1..Size(p, q) : \E j \in 1..Size(p, q) : order[j] = k
<1>. DEFINE n == Size(p, q)
<1>1. /\ n \in Nat /\ DOMAIN q.options = 1..n
      /\ Kind(p, q) = "noul" => n = 2
  BY SizeFacts
<1>2. CASE Kind(p, q) = "noul"
  <2>1. order \in {<<1, 2>>, <<2, 1>>}
    BY <1>2 DEF Orders
  <2>2. n = 2 /\ 1..2 = {1, 2}
    BY <1>1, <1>2
  <2>3. DOMAIN order = 1..2
        /\ ((order[1] = 1 /\ order[2] = 2) \/ (order[1] = 2 /\ order[2] = 1))
    BY <2>1
  <2>. HIDE DEF n
  <2>. QED  BY <2>2, <2>3 DEF n
<1>3. CASE Kind(p, q) = "score" /\ q.form = "object"
  <2>1. /\ order \in [1..n -> 1..n] /\ IsInjective(order)
    BY <1>1, <1>3 DEF Orders, ByLevel
  <2>. HIDE DEF n
  <2>2. order \in Injection(1..n, 1..n)
    BY <2>1 DEF Injection, IsInjective
  <2>3. order \in Surjection(1..n, 1..n)
    <3>1. IsFiniteSet(1..n)
      BY <1>1, FS_Interval
    <3>. QED  BY <2>2, <3>1, FS_Injection
  <2>. QED  BY <2>1, <2>3 DEF Surjection, IsInjective, n
<1>4. CASE Kind(p, q) # "noul" /\ ~(Kind(p, q) = "score" /\ q.form = "object")
  <2>1. order = [k \in 1..n |-> k]
    BY <1>1, <1>4 DEF Orders, Places
  <2>. HIDE DEF n
  <2>. QED  BY <2>1 DEF n
<1>. QED  BY <1>2, <1>3, <1>4

-----------------------------------------------------------------------------
(* Rows                                                                    *)

(* What the model may prefer of a row is one of its options; the one it    *)
(* wants, for a profile that reads the labels it shows.                    *)
LEMMA Heard ==
  ASSUME NEW p \in AllProfiles, Limit[p] \in Nat, NEW kind, NEW n \in Nat, 1 <= n, n <= Limit[p],
         NEW wanted \in 1..n
  PROVE  /\ Preferred(RowOf(p, kind, n, wanted)) \subseteq 1..n
         /\ Told(p, kind, n) => Preferred(RowOf(p, kind, n, wanted)) = {wanted}
<1>. DEFINE row == RowOf(p, kind, n, wanted)
            Clear == /\ \A j \in 1..n : row.read[j] = row.shown[j]
                     /\ \A i, j \in 1..n : row.read[i] = row.read[j] => i = j
<1>1. DOMAIN row.read = 1..n /\ row.wanted = wanted
  BY DEF RowOf, MarkerRow, LabelRow
<1>2. Told(p, kind, n) => Clear
  <2>1. CASE p \in Positional
    <3>1. \A j \in 1..n : row.read[j] = <<"marker", j>> /\ row.shown[j] = <<"marker", j>>
      BY <2>1 DEF RowOf, MarkerRow
    <3>. HIDE DEF row
    <3>. QED  BY <3>1
  <2>2. CASE p \notin Positional /\ Told(p, kind, n)
    <3>1. ASSUME NEW j \in 1..n
          PROVE  /\ row.read[j] = SingleTokenLabels[j]
                 /\ row.shown[j] = ShownLabel(p, kind, n, j)
      BY <2>2 DEF RowOf, LabelRow
    <3>. HIDE DEF row
    <3>2. n <= Len(SingleTokenLabels) /\ {Letters, Narrow} \subseteq Nat
          /\ Narrow <= Letters
          /\ (p \in {"tev1", "jad", "jet", "jpt"} => n <= Letters)
      <4>1. /\ Limit[p] <= Len(SingleTokenLabels) /\ {Letters, Narrow} \subseteq Nat
            /\ Narrow <= Letters /\ Limit["tev1"] <= Letters /\ Limit["jad"] <= Letters
        BY <2>2, DecisionsAssumption
      <4>2. Len(SingleTokenLabels) \in Nat
        BY LabelsDistinct, SeqFacts
      <4>3. p \in {"jet", "jpt"} => n <= Letters
        BY <2>2 DEF Told
      <4>. QED  BY <4>1, <4>2, <4>3
    <3>3. ASSUME NEW j \in 1..n PROVE row.read[j] = row.shown[j]
      <4>1. CASE p \in {"tev1", "jad", "jet", "jpt"} \/ n <= Narrow
        <5>2. j \in 1..Letters
          BY <3>2, <4>1
        <5>1. ShownLabel(p, kind, n, j) = <<"letter", j>>
          BY <2>2, <4>1, <5>2 DEF ShownLabel, LetterLabel, Told
        <5>. QED  BY <3>1, <5>1, <5>2, LabelsDistinct
      <4>2. CASE ~(p \in {"tev1", "jad", "jet", "jpt"} \/ n <= Narrow)
        <5>1. ShownLabel(p, kind, n, j) = SingleTokenLabels[j]
          BY <2>2, <4>2 DEF ShownLabel
        <5>. QED  BY <3>1, <5>1
      <4>. QED  BY <4>1, <4>2
    <3>4. ASSUME NEW i \in 1..n, NEW j \in 1..n, row.read[i] = row.read[j] PROVE i = j
      <4>1. DOMAIN SingleTokenLabels = 1..Len(SingleTokenLabels) /\ Len(SingleTokenLabels) \in Nat
        BY LabelsDistinct, SeqFacts
      <4>2. i \in DOMAIN SingleTokenLabels /\ j \in DOMAIN SingleTokenLabels
        BY <3>2, <4>1
      <4>. QED  BY <3>1, <3>4, <4>2, LabelsDistinct DEF IsInjective
    <3>. QED  BY <3>3, <3>4
  <2>. QED  BY <2>1, <2>2
<1>. HIDE DEF row
<1>3. Preferred(row) \subseteq 1..n
  BY <1>1 DEF Preferred
<1>4. Told(p, kind, n) => Preferred(row) = {wanted}
  BY <1>1, <1>2 DEF Preferred
<1>. QED  BY <1>3, <1>4 DEF row

-----------------------------------------------------------------------------
(* Answers                                                                 *)

\* An order of n options lists each of them once, by level.
Sorts(order, level, n) ==
  /\ \A i, j \in 1..n : order[i] = order[j] => i = j
  /\ \A i, j \in 1..n : i < j => level[order[i]] <= level[order[j]]
  /\ \A k \in 1..n : \E j \in 1..n : order[j] = k

\* The options below one, and those of its level.
Below(level, n, v) == {k \in 1..n : level[k] < level[v]}
Tied(level, n, v)  == {k \in 1..n : level[k] = level[v]}

(* Listed by level, the option wanted comes after all that are below it    *)
(* and among those it ties with.                                           *)
LEMMA LevelCounted ==
  ASSUME NEW n \in Nat, NEW level, \A j \in 1..n : level[j] \in Int,
         NEW order \in [1..n -> 1..n], Sorts(order, level, n),
         NEW best \in 1..n, NEW verdict, verdict = order[best]
  PROVE  best - 1 \in Cardinality(Below(level, n, verdict))
                      ..(Cardinality(Below(level, n, verdict))
                           + Cardinality(Tied(level, n, verdict)) - 1)
<1>. DEFINE A == {k \in 1..n : level[k] < level[verdict]}
            B == {k \in 1..n : level[k] = level[verdict]}
            place == [k \in A |-> CHOOSE j \in 1..n : order[j] = k]
            first == [j \in 1..best |-> order[j]]
<1>. PICK m \in Nat : m = best - 1
  OBVIOUS
<1>8. PICK x \in Int : verdict \in 1..n /\ x = level[verdict]
  OBVIOUS
<1>9. ASSUME NEW j \in 1..n
      PROVE  /\ order[j] \in 1..n /\ level[order[j]] \in Int
             /\ best < j => x <= level[order[j]]
             /\ j < best => level[order[j]] <= x
  <2>1. order[j] \in 1..n
    OBVIOUS
  <2>2. level[order[j]] \in Int
    BY <2>1
  <2>3. best < j => level[order[best]] <= level[order[j]]
    BY DEF Sorts
  <2>4. j < best => level[order[j]] <= level[order[best]]
    BY DEF Sorts
  <2>. QED  BY <1>8, <2>1, <2>2, <2>3, <2>4
<1>1. IsFiniteSet(1..n) /\ IsFiniteSet(1..m) /\ Cardinality(1..m) = m
      /\ Cardinality(1..best) = best
  <2>1. best \in Nat \ {0} /\ m \in Int /\ n \in Int
    OBVIOUS
  <2>2. IsFiniteSet(1..n)
    BY <2>1, FS_Interval
  <2>3. IsFiniteSet(1..m) /\ Cardinality(1..m) = m
    <3>1. IsFiniteSet(1..m)
      BY <2>1, FS_Interval
    <3>2. Cardinality(1..m) = IF 1 > m THEN 0 ELSE m - 1 + 1
      BY <2>1, FS_Interval
    <3>. QED  BY <3>1, <3>2
  <2>4. Cardinality(1..best) = IF 1 > best THEN 0 ELSE best - 1 + 1
    BY <2>1, FS_Interval
  <2>. QED  BY <2>1, <2>2, <2>3, <2>4
<1>2. IsFiniteSet(A) /\ IsFiniteSet(B) /\ A \cap B = {}
  <2>1. A \subseteq 1..n /\ B \subseteq 1..n
    OBVIOUS
  <2>2. ASSUME NEW k \in 1..n PROVE ~(level[k] < x /\ level[k] = x)
    <3>. PICK y \in Int : y = level[k]
      OBVIOUS
    <3>. QED  OBVIOUS
  <2>3. A \cap B = {}
    BY <1>8, <2>2
  <2>. HIDE DEF A, B
  <2>. QED  BY <1>1, <2>1, <2>3, FS_Subset
<1>3. Cardinality(A) \in Nat /\ Cardinality(B) \in Nat
      /\ IsFiniteSet(A \cup B) /\ Cardinality(A \cup B) = Cardinality(A) + Cardinality(B)
  <2>. HIDE DEF A, B
  <2>1. Cardinality(A) \in Nat /\ Cardinality(B) \in Nat
    BY <1>2, FS_CardinalityType
  <2>2. IsFiniteSet(A \cup B)
        /\ Cardinality(A \cup B) = Cardinality(A) + Cardinality(B) - Cardinality(A \cap B)
    BY <1>2, FS_Union
  <2>3. Cardinality(A \cap B) = 0
    BY <1>2, FS_EmptySet
  <2>. QED  BY <2>1, <2>2, <2>3
<1>4. Cardinality(A) <= m
  <2>1. ASSUME NEW k \in A PROVE place[k] \in 1..m /\ order[place[k]] = k
    <3>1. PICK j \in 1..n : j = place[k] /\ order[j] = k
      <4>1. \E j \in 1..n : order[j] = k
        BY DEF Sorts
      <4>. QED  BY <4>1
    <3>2. level[k] < x /\ level[k] \in Int
      BY <1>8
    <3>3. ~(best < j) /\ best # j
      <4>. HIDE DEF place, A
      <4>1. PICK y \in Int : y = level[k]
        BY <3>2
      <4>2. ~(best < j)
        BY <1>9, <3>1, <3>2, <4>1
      <4>3. best # j
        BY <1>8, <3>1, <3>2, <4>1
      <4>. QED  BY <4>2, <4>3
    <3>. HIDE DEF place
    <3>4. j \in 1..m
      BY <3>3
    <3>. QED  BY <3>1, <3>4
  <2>2. place \in [A -> 1..m]
    BY <2>1
  <2>. HIDE DEF place, A
  <2>3. \A k, l \in A : place[k] = place[l] => k = l
    BY <2>1
  <2>4. place \in Injection(A, 1..m)
    BY <2>2, <2>3 DEF Injection, IsInjective
  <2>5. Cardinality(A) <= Cardinality(1..m)
    BY <1>1, <2>4, FS_Injection
  <2>. QED  BY <1>1, <2>5
<1>5. best <= Cardinality(A) + Cardinality(B)
  <2>1. ASSUME NEW j \in 1..best PROVE order[j] \in A \cup B /\ j \in 1..n
    <3>1. j \in 1..n /\ (j = best \/ j < best)
      OBVIOUS
    <3>2. PICK k \in 1..n : k = order[j]
      BY <3>1
    <3>3. k = verdict \/ level[k] <= x
      BY <1>9, <3>1, <3>2
    <3>4. PICK y \in Int : y = level[k]
      BY <3>2
    <3>5. level[k] = level[verdict] \/ level[k] < level[verdict]
      BY <1>8, <3>3, <3>4, SMTT(60)
    <3>. QED  BY <3>1, <3>2, <3>5
  <2>2. first \in Injection(1..best, A \cup B)
    <3>1. first \in [1..best -> A \cup B]
      BY <2>1
    <3>2. \A i, j \in 1..best : first[i] = first[j] => i = j
      BY <2>1 DEF Sorts
    <3>. HIDE DEF first, A, B
    <3>. QED  BY <3>1, <3>2 DEF Injection, IsInjective
  <2>. HIDE DEF A, B, first
  <2>3. Cardinality(1..best) <= Cardinality(A \cup B)
    BY <1>3, <2>2, FS_Injection
  <2>. QED  BY <1>1, <1>3, <2>3
<1>. HIDE DEF A, B
<1>6. best - 1 \in Cardinality(A)..(Cardinality(A) + Cardinality(B) - 1)
  BY <1>3, <1>4, <1>5
<1>. QED  BY <1>6 DEF A, B, Below, Tied

(* The best option of an entry, of one row or of a row per level, is the   *)
(* one the verdict on its question is, in the order the legend tells.      *)
LEMMA BestIsVerdict ==
  ASSUME profile \in Profiles, call \in Calls, WinnersInv, phase = "answer",
         NEW e, Made(profile, call, rows, e), NEW q, q = call[e.request][e.id]
  PROVE  /\ Best(e) \in 1..Size(profile, q)
         /\ \E order \in Orders(profile, q) :
              /\ e.legend = Legend(profile, q, order)
              /\ Told(profile, Kind(profile, q), Size(profile, q)) => order[Best(e)] = q.verdict
<1>. DEFINE n == Size(profile, q)
<1>1. /\ Acceptable(profile, q) /\ IsQuestion(q)
      /\ e.count = RowCount(profile, q) /\ e.isolated = Isolated(profile, q)
      /\ e.first \in Nat \ {0} /\ e.first + e.count - 1 <= Len(rows)
      /\ InRows(profile, q, rows, e)
  BY CallFacts DEF Made
<1>2. /\ profile \in AllProfiles /\ Limit[profile] \in Nat
      /\ n \in Nat /\ 2 <= n /\ n <= Limit[profile] /\ q.verdict \in 1..n
  BY <1>1, SizeFacts
<1>3. PICK order \in Orders(profile, q) :
        /\ e.legend = Legend(profile, q, order)
        /\ \A k \in 1..e.count : rows[e.first + k - 1] = RowsFor(profile, q, order)[k]
  BY <1>1 DEF InRows
<1>4. /\ \A j \in 1..n : order[j] \in 1..n
      /\ \E j \in 1..n : order[j] = q.verdict
  <2>1. /\ \A j \in 1..Size(profile, q) : order[j] \in 1..Size(profile, q)
        /\ \A k \in 1..Size(profile, q) : \E j \in 1..Size(profile, q) : order[j] = k
    <3>1. PICK p \in Profiles : p = profile
      OBVIOUS
    <3>2. IsQuestion(q) /\ Acceptable(p, q) /\ order \in Orders(p, q)
      BY <1>1, <1>3, <3>1
    <3>3. \A j \in 1..Size(p, q) : order[j] \in 1..Size(p, q)
      BY <3>2, OrderFacts
    <3>4. \A k \in 1..Size(p, q) : \E j \in 1..Size(p, q) : order[j] = k
      BY <3>2, OrderFacts
    <3>. QED  BY <3>1, <3>3, <3>4
  <2>. QED  BY <1>2, <2>1 DEF n
<1>5. IsSeq(winners) /\ Len(winners) = Len(rows)
      /\ \A k \in DOMAIN winners : winners[k] \in Preferred(rows[k])
  BY DEF WinnersInv
<1>6. DOMAIN winners = 1..Len(rows) /\ Len(rows) \in Nat
  BY <1>5, SeqFacts
<1>. HIDE DEF n
<1>7. CASE Isolated(profile, q)
  <2>. DEFINE wanted(k) == IF order[k] = q.verdict THEN 2 ELSE 1
              fits == {k \in 1..e.count : winners[e.first + k - 1] = 2}
  <2>1. e.count = n /\ profile = "decider" /\ Told(profile, "score", 2)
    BY <1>1, <1>7 DEF RowCount, Isolated, Told, n
  <2>2. ASSUME NEW k \in 1..n PROVE winners[e.first + k - 1] = wanted(k)
    <3>1. RowsFor(profile, q, order)[k] = RowOf(profile, "score", 2, wanted(k))
      BY <1>7 DEF RowsFor, n
    <3>2. rows[e.first + k - 1] = RowOf(profile, "score", 2, wanted(k))
      BY <1>3, <2>1, <3>1
    <3>3. e.first + k - 1 \in DOMAIN winners
      BY <1>1, <1>2, <1>6, <2>1
    <3>4. winners[e.first + k - 1] \in Preferred(rows[e.first + k - 1])
      BY <1>5, <3>3
    <3>5. wanted(k) \in 1..2
      OBVIOUS
    <3>. HIDE DEF wanted
    <3>6. Preferred(RowOf(profile, "score", 2, wanted(k))) = {wanted(k)}
      <4>1. 2 <= Limit[profile] /\ 1 <= 2 /\ 2 \in Nat
        BY <1>2
      <4>. QED  BY <1>2, <2>1, <3>5, <4>1, Heard
    <3>. QED  BY <3>2, <3>4, <3>6
  <2>3. fits = {k \in 1..n : order[k] = q.verdict}
    BY <2>1, <2>2
  <2>4. fits \in SUBSET Nat /\ fits # {}
    BY <1>4, <2>3
  <2>5. Best(e) = CHOOSE k \in fits : \A i \in fits : k <= i
    BY <1>1, <1>7, <2>4 DEF Best, FittingLevel
  <2>6. \E k \in fits : \A i \in fits : k <= i
    <3>. HIDE DEF fits
    <3>. QED  BY <2>4, LeastNatural
  <2>7. Best(e) \in fits
    BY <2>5, <2>6
  <2>8. Best(e) \in 1..n /\ order[Best(e)] = q.verdict
    BY <2>3, <2>7
  <2>. QED  BY <1>3, <2>8 DEF n
<1>8. CASE ~Isolated(profile, q)
  <2>. DEFINE wanted == CHOOSE j \in 1..n : order[j] = q.verdict
  <2>1. wanted \in 1..n /\ order[wanted] = q.verdict
    BY <1>4
  <2>2. e.count = 1 /\ Best(e) = winners[e.first]
    BY <1>1, <1>8 DEF RowCount, Best
  <2>3. RowsFor(profile, q, order)[1] = RowOf(profile, Kind(profile, q), n, wanted)
    BY <1>8 DEF RowsFor, n
  <2>. HIDE DEF wanted
  <2>4. rows[e.first] = RowOf(profile, Kind(profile, q), n, wanted)
    <3>1. e.first + 1 - 1 = e.first /\ 1 \in 1..e.count
      BY <1>1, <2>2
    <3>. QED  BY <1>3, <2>3, <3>1
  <2>5. e.first \in DOMAIN winners
    BY <1>1, <1>6, <2>2
  <2>6. Best(e) \in Preferred(RowOf(profile, Kind(profile, q), n, wanted))
    BY <1>5, <2>2, <2>4, <2>5
  <2>7. /\ Preferred(RowOf(profile, Kind(profile, q), n, wanted)) \subseteq 1..n
        /\ Told(profile, Kind(profile, q), n) =>
             Preferred(RowOf(profile, Kind(profile, q), n, wanted)) = {wanted}
    <3>1. /\ profile \in AllProfiles /\ Limit[profile] \in Nat
          /\ n \in Nat /\ 1 <= n /\ n <= Limit[profile] /\ wanted \in 1..n
      BY <1>2, <2>1
    <3>2. PICK kind : kind = Kind(profile, q)
      OBVIOUS
    <3>3. /\ Preferred(RowOf(profile, kind, n, wanted)) \subseteq 1..n
          /\ Told(profile, kind, n) => Preferred(RowOf(profile, kind, n, wanted)) = {wanted}
      <4>1. Preferred(RowOf(profile, kind, n, wanted)) \subseteq 1..n
        BY <3>1, Heard
      <4>2. ASSUME Told(profile, kind, n)
            PROVE  Preferred(RowOf(profile, kind, n, wanted)) = {wanted}
        BY <3>1, <4>2, Heard
      <4>. QED  BY <4>1, <4>2
    <3>. QED  BY <3>2, <3>3
  <2>8. Best(e) \in 1..n /\ (Told(profile, Kind(profile, q), n) => order[Best(e)] = q.verdict)
    BY <2>1, <2>6, <2>7
  <2>. QED  BY <1>3, <2>8 DEF n
<1>. QED  BY <1>7, <1>8

(* Of labels that do not repeat, each lists the option it is the label of. *)
LEMMA ListedOwn ==
  ASSUME NEW n \in Nat, NEW keys, DOMAIN keys = 1..n, Len(keys) = n, IsInjective(keys),
         NEW best \in 1..n
  PROVE  Listed(keys)[keys[best]] = best
<1>. DEFINE IsLast(k) == /\ keys[k] = keys[best]
                        /\ \A i \in k + 1..Len(keys) : keys[i] # keys[best]
<1>1. keys[best] \in Range(keys)
  BY DEF Range
<1>2. Listed(keys)[keys[best]] = CHOOSE k \in DOMAIN keys : IsLast(k)
  BY <1>1 DEF Listed
<1>3. ASSUME NEW i \in 1..n, keys[i] = keys[best] PROVE i = best
  BY <1>3 DEF IsInjective
<1>4. IsLast(best)
  <2>1. ASSUME NEW i \in best + 1..n PROVE keys[i] # keys[best]
    <3>1. i \in 1..n /\ i # best
      OBVIOUS
    <3>. QED  BY <1>3, <3>1
  <2>. QED  BY <2>1
<1>5. ASSUME NEW k \in DOMAIN keys, IsLast(k) PROVE k = best
  BY <1>3, <1>5
<1>. HIDE DEF IsLast
<1>. QED  BY <1>2, <1>4, <1>5

(* What the answer to an entry says is what the verdict on its question    *)
(* does.                                                                   *)
LEMMA AnswerRight ==
  ASSUME profile \in Profiles, call \in Calls, WinnersInv, phase = "answer",
         NEW e, Made(profile, call, rows, e), NEW q, q = call[e.request][e.id]
  PROVE  Right(profile, q, Answer(e))
<1>. DEFINE p == profile
            n == Size(p, q)
            best == Best(e)
            a == Answer(e)
            keys == Keys(p, q)
<1>1. /\ Acceptable(p, q) /\ IsQuestion(q) /\ e.kind = Kind(p, q) /\ e.keys = keys
  BY CallFacts DEF Made
<1>2. /\ n \in Nat /\ 2 <= n /\ q.verdict \in 1..n /\ DOMAIN q.options = 1..n
      /\ \A j \in 1..n : q.options[j] \in Int
      /\ Kind(p, q) \in {"noul", "choice", "score"}
      /\ Kind(p, q) = "noul" => n = 2
  BY <1>1, SizeFacts
<1>3. /\ best \in 1..n
      /\ \E order \in Orders(p, q) :
           /\ e.legend = Legend(p, q, order)
           /\ Told(p, Kind(p, q), n) => order[best] = q.verdict
  BY BestIsVerdict
<1>4. PICK order \in Orders(p, q) :
        e.legend = Legend(p, q, order) /\ (Told(p, Kind(p, q), n) => order[best] = q.verdict)
  BY <1>3
<1>5. /\ DOMAIN order = 1..n /\ \A j \in 1..n : order[j] \in 1..n
      /\ \A i, j \in 1..n : order[i] = order[j] => i = j
      /\ \A k \in 1..n : \E j \in 1..n : order[j] = k
  BY <1>1, OrderFacts
<1>6. /\ a.kind = Kind(p, q)
      /\ a.value = CASE Kind(p, q) = "noul" -> best = 2
                     [] Kind(p, q) = "choice" -> keys[best]
                     [] OTHER -> best - 1
      /\ a.level = (IF Kind(p, q) = "score" THEN e.legend[best] ELSE 0)
      /\ a.own = (Kind(p, q) = "noul" \/ Listed(keys)[keys[best]] = best)
  BY <1>1 DEF Answer
<1>7. /\ DOMAIN keys = 1..n /\ Len(keys) = n
      /\ \A j \in 1..n :
           keys[j] = IF Kind(p, q) = "choice" /\ ~(p = "jad" /\ q.form = "array")
                     THEN q.options[j] ELSE j - 1
  <2>1. \A j \in 1..n :
           keys[j] = IF Kind(p, q) = "choice" /\ ~(p = "jad" /\ q.form = "array")
                     THEN q.options[j] ELSE j - 1
    BY DEF Keys
  <2>2. keys = [j \in 1..n |-> keys[j]]
    BY DEF Keys
  <2>. HIDE DEF keys, n
  <2>. QED  BY <1>2, <2>1, <2>2, Listing
<1>. HIDE DEF n, best, a, keys
<1>8. ASSUME p = "dohnuts" \/ IsInjective(q.options) PROVE a.own
  <2>1. CASE Kind(p, q) = "noul"
    BY <1>6, <2>1
  <2>2. CASE Kind(p, q) # "noul"
    <3>1. IsInjective(keys)
      <4>1. CASE Kind(p, q) = "choice" /\ ~(p = "jad" /\ q.form = "array")
        <5>1. CASE p = "dohnuts"
          BY <1>1, <4>1, <5>1 DEF Acceptable, UniqueIfRequired, keys
        <5>2. CASE p # "dohnuts"
          BY <1>2, <1>7, <1>8, <4>1, <5>2 DEF IsInjective
        <5>. QED  BY <5>1, <5>2
      <4>2. CASE ~(Kind(p, q) = "choice" /\ ~(p = "jad" /\ q.form = "array"))
        <5>1. \A j \in 1..n : keys[j] = j - 1
          BY <1>7, <4>2
        <5>2. \A i, j \in 1..n : i - 1 = j - 1 => i = j
          BY <1>2
        <5>. QED  BY <1>7, <5>1, <5>2 DEF IsInjective
      <4>. QED  BY <4>1, <4>2
    <3>2. Listed(keys)[keys[best]] = best
      BY <1>2, <1>3, <1>7, <3>1, ListedOwn
    <3>. QED  BY <1>6, <3>2
  <2>. QED  BY <2>1, <2>2
<1>9. ASSUME Straight(p, q)
      PROVE  a.value \in Meanings(p, q) /\ (a.kind = "score" => a.level = q.verdict)
  <2>1. order[best] = q.verdict
    BY <1>4, <1>9 DEF Straight, n
  <2>2. a.kind = "score" => a.level = q.verdict
    BY <1>4, <1>6, <2>1 DEF Legend
  <2>3. CASE Kind(p, q) = "noul"
    <3>1. order = <<1, 2>> /\ n = 2
      BY <1>2, <1>9, <2>3 DEF Orders, Straight
    <3>2. best = q.verdict
      <4>1. best = 1 \/ best = 2
        BY <1>3, <3>1
      <4>. QED  BY <2>1, <3>1, <4>1
    <3>3. a.value = (best = 2) /\ Meanings(p, q) = {q.verdict = 2}
      BY <1>6, <2>3 DEF Meanings
    <3>. QED  BY <2>2, <3>2, <3>3
  <2>4. CASE Kind(p, q) = "score" /\ q.form = "object"
    <3>. DEFINE A == {k \in 1..n : q.options[k] < q.options[q.verdict]}
                B == {k \in 1..n : q.options[k] = q.options[q.verdict]}
    <3>1. order \in ByLevel(q)
      BY <2>4 DEF Orders
    <3>2. order \in [1..n -> 1..n] /\ Sorts(order, q.options, n)
      <4>1. order \in [1..n -> 1..n]
        BY <1>2, <3>1 DEF ByLevel
      <4>2. \A i, j \in 1..n : i < j => q.options[order[i]] <= q.options[order[j]]
        BY <1>2, <3>1, <4>1 DEF ByLevel
      <4>. QED  BY <1>5, <4>1, <4>2 DEF Sorts
    <3>3. best - 1 \in Cardinality(A)..(Cardinality(A) + Cardinality(B) - 1)
      <4>. DEFINE level == q.options
                  verdict == q.verdict
      <4>1. /\ n \in Nat /\ best \in 1..n /\ verdict = order[best]
            /\ \A j \in 1..n : level[j] \in Int
            /\ order \in [1..n -> 1..n] /\ Sorts(order, level, n)
        BY <1>2, <1>3, <2>1, <3>2
      <4>2. A = Below(level, n, verdict) /\ B = Tied(level, n, verdict)
        BY DEF Below, Tied
      <4>. HIDE DEF level, verdict, A, B
      <4>3. best - 1 \in Cardinality(Below(level, n, verdict))
                         ..(Cardinality(Below(level, n, verdict))
                              + Cardinality(Tied(level, n, verdict)) - 1)
        BY <4>1, LevelCounted
      <4>. QED  BY <4>2, <4>3
    <3>4. Meanings(p, q) = Cardinality(A)..(Cardinality(A) + Cardinality(B) - 1)
      BY <1>2, <2>4 DEF Meanings
    <3>. HIDE DEF A, B
    <3>5. a.value = best - 1
      BY <1>6, <2>4
    <3>. QED  BY <2>2, <3>3, <3>4, <3>5
  <2>5. CASE Kind(p, q) # "noul" /\ ~(Kind(p, q) = "score" /\ q.form = "object")
    <3>1. order = [k \in 1..n |-> k]
      BY <1>2, <2>5 DEF Orders, Places
    <3>2. best = q.verdict
      BY <1>3, <2>1, <3>1
    <3>3. CASE Kind(p, q) = "choice" /\ ~(p = "jad" /\ q.form = "array")
      <4>1. Meanings(p, q) = {q.options[q.verdict]}
        BY <3>3 DEF Meanings
      <4>2. a.value = q.options[best]
        BY <1>3, <1>6, <1>7, <3>3
      <4>. QED  BY <2>2, <3>2, <4>1, <4>2
    <3>4. CASE ~(Kind(p, q) = "choice" /\ ~(p = "jad" /\ q.form = "array"))
      <4>1. Meanings(p, q) = {q.verdict - 1}
        BY <2>5, <3>4 DEF Meanings
      <4>2. a.value = best - 1
        <5>1. CASE Kind(p, q) = "choice"
          BY <1>3, <1>6, <1>7, <3>4, <5>1
        <5>2. CASE Kind(p, q) # "choice"
          BY <1>6, <2>5, <5>2
        <5>. QED  BY <5>1, <5>2
      <4>. QED  BY <2>2, <3>2, <4>1, <4>2
    <3>. QED  BY <3>3, <3>4
  <2>. QED  BY <2>3, <2>4, <2>5
<1>. QED  BY <1>6, <1>8, <1>9 DEF Right, a

-----------------------------------------------------------------------------
(* Charges                                                                 *)

LEMMA CountFacts ==
  ASSUME NEW p, NEW c \in Calls, NEW i \in DOMAIN c
  PROVE  \A k \in 1..Len(c[i]) :
           Counts(p, c[i])[k] = RowCount(p, c[i][k]) /\ Counts(p, c[i])[k] \in Nat
<1>1. DOMAIN c[i] = 1..Len(c[i]) /\ \A k \in DOMAIN c[i] : IsQuestion(c[i][k])
  BY CallFacts
<1>2. ASSUME NEW k \in 1..Len(c[i]) PROVE RowCount(p, c[i][k]) \in Nat
  <2>1. Len(c[i][k].options) \in Nat
    BY <1>1 DEF IsQuestion
  <2>. QED  BY <2>1 DEF RowCount, Size
<1>. QED  BY <1>1, <1>2 DEF Counts

(* The fold of ChargedForOwnRows is the total of the counts.               *)
LEMMA ChargeIsFold ==
  ASSUME NEW p, NEW c \in Calls, NEW i \in DOMAIN c
  PROVE  FoldSeq(LAMBDA q, n : n + RowCount(p, q), 0, c[i]) = Charge(p, c[i])
<1>. DEFINE request == c[i]
            w == Counts(p, request)
            D == DOMAIN request
            n == Len(request)
            first(S) == CHOOSE x \in S : TRUE
            Step(f, S) == IF S = {} THEN 0
                          ELSE LET x == CHOOSE x \in S : TRUE
                               IN  f[S \ {x}] + RowCount(p, request[x])
            g == CHOOSE f : f = [S \in SUBSET D |-> Step(f, S)]
            pick == [S \in SUBSET (1..n) |-> first(S)]
<1>1. FoldSeq(LAMBDA q, m : m + RowCount(p, q), 0, request) = g[D]
  BY DEF FoldSeq, FoldFunction, FoldFunctionOnSet, MapThenFoldSet
<1>2. /\ D = 1..n /\ n \in Nat
      /\ \A k \in D : w[k] = RowCount(p, request[k]) /\ w[k] \in Nat
  BY CallFacts, CountFacts
<1>3. ASSUME NEW S \in SUBSET D, S # {}
      PROVE  /\ first(S) \in S
             /\ w[first(S)] = RowCount(p, request[first(S)])
             /\ Total(w, S) = Total(w, S \ {first(S)}) + w[first(S)]
  <2>1. first(S) \in S
    BY <1>3
  <2>2. S \in SUBSET (1..n) /\ \A k \in 1..n : w[k] \in Nat
    BY <1>2
  <2>. HIDE DEF D, w, first
  <2>3. Total(w, S) = Total(w, S \ {first(S)}) + w[first(S)]
    BY <1>2, <2>1, <2>2, TotalRemove
  <2>. QED  BY <1>2, <2>1, <2>3
<1>4. \E f : f = [S \in SUBSET D |-> Step(f, S)]
  <2>. DEFINE f == [S \in SUBSET D |-> Total(w, S)]
  <2>1. ASSUME NEW S \in SUBSET D PROVE f[S] = Step(f, S)
    <3>. HIDE DEF w
    <3>1. CASE S = {}
      BY <3>1, TotalEmpty
    <3>2. CASE S # {}
      BY <3>2, <1>3
    <3>. QED  BY <3>1, <3>2
  <2>. QED  BY <2>1
<1>5. g = [S \in SUBSET D |-> Step(g, S)]
  BY <1>4
<1>6. ASSUME NEW S \in SUBSET D
      PROVE  g[S] = IF S = {} THEN 0 ELSE g[S \ {first(S)}] + w[first(S)]
  <2>. HIDE DEF g
  <2>1. g[S] = Step(g, S)
    BY <1>5
  <2>. QED  BY <2>1, <1>3
<1>. HIDE DEF g, w, first
<1>7. Picks(pick, n)
  BY <1>2, <1>3 DEF Picks
<1>8. Sums(g, w, pick, n)
  BY <1>2, <1>6 DEF Sums
<1>. HIDE DEF pick
<1>9. g[1..n] = Total(w, 1..n)
  BY <1>2, <1>7, <1>8, TotalUnique
<1>. QED  BY <1>1, <1>2, <1>9 DEF w, Charge

(* The first n numbers are n.                                              *)
LEMMA FirstNumbers ==
  ASSUME NEW n \in Nat
  PROVE  IsFiniteSet(1..n) /\ Cardinality(1..n) = n
<1>1. IsFiniteSet(1..n) /\ Cardinality(1..n) = IF 1 > n THEN 0 ELSE n - 1 + 1
  BY FS_Interval
<1>. QED  BY <1>1

(* Of a request whose questions take a row each, the rows are as many.     *)
LEMMA OneRowEach ==
  ASSUME NEW n \in Nat, NEW w, \A k \in 1..n : w[k] = 1
  PROVE  Total(w, 1..n) = n
<1>. DEFINE unit == [k \in 1..n |-> <<k, 1>>]
<1>1. unit \in [1..n -> Units(w, 1..n)]
  BY DEF Units
<1>2. \A u \in Units(w, 1..n) : \E k \in 1..n : unit[k] = u
  <2>. SUFFICES ASSUME NEW u \in Units(w, 1..n) PROVE \E k \in 1..n : unit[k] = u
    OBVIOUS
  <2>1. u \in (1..n) \X Nat /\ u[2] \in 1..w[u[1]]
    BY DEF Units
  <2>2. u[1] \in 1..n /\ u[2] \in 1..1 /\ u = <<u[1], u[2]>>
    BY <2>1
  <2>3. u[2] = 1
    BY <2>2
  <2>4. unit[u[1]] = u
    BY <2>2, <2>3
  <2>. QED  BY <2>2, <2>4
<1>3. \A k, l \in 1..n : unit[k] = unit[l] => k = l
  OBVIOUS
<1>. HIDE DEF unit
<1>4. unit \in Bijection(1..n, Units(w, 1..n))
  BY <1>1, <1>2, <1>3 DEF Bijection, Injection, Surjection, IsInjective
<1>5. IsFiniteSet(1..n) /\ Cardinality(1..n) = n
  BY FirstNumbers
<1>6. ExistsBijection(1..n, Units(w, 1..n))
  BY <1>4 DEF ExistsBijection
<1>7. Cardinality(Units(w, 1..n)) = Cardinality(1..n)
  BY <1>5, <1>6, FS_Bijection
<1>. QED  BY <1>5, <1>7 DEF Total

(* When every row has its winner, the response to a request whose entries  *)
(* are planned answers each of its questions.                              *)
LEMMA RespondComplete ==
  ASSUME Typed, PlanInv, WinnersInv, phase = "answer",
         NEW i \in DOMAIN call, profile = "dohnuts" \/ i = at
  PROVE  Complete(profile, call[i], Respond(i))
<1>. DEFINE request == call[i]
            E == Entries(i)
            r == Respond(i)
            Latest(id, n) == /\ plan[n].id = id
                             /\ \A o \in E : plan[o].id = id => o <= n
<1>1. /\ profile \in Profiles /\ call \in Calls
      /\ EntriesMade /\ EveryDueHasEntry /\ OneEntryEach
      /\ IsSeq(plan)
  BY DEF Typed, PlanInv
<1>2. /\ DOMAIN request = 1..Len(request) /\ Len(request) \in Nat
      /\ DOMAIN plan = 1..Len(plan) /\ Len(plan) \in Nat
  BY <1>1, CallFacts, SeqFacts
<1>3. ASSUME NEW n \in E
      PROVE  /\ n \in DOMAIN plan /\ plan[n].request = i /\ plan[n].id \in DOMAIN request
             /\ Made(profile, call, rows, plan[n])
  BY <1>1 DEF Entries, EntriesMade, Made
<1>4. ASSUME NEW m \in E, NEW n \in E, plan[m].id = plan[n].id PROVE m = n
  BY <1>1, <1>3, <1>4 DEF OneEntryEach, IsFor
<1>5. ASSUME NEW id \in DOMAIN request PROVE \E n \in E : plan[n].id = id
  <2>1. Due(i, id)
    BY DEF Due
  <2>2. PICK n \in DOMAIN plan : IsFor(plan[n], i, id)
    BY <1>1, <2>1 DEF EveryDueHasEntry
  <2>. QED  BY <2>2 DEF IsFor, Entries
<1>6. DOMAIN r.answers = DOMAIN request
  <2>1. DOMAIN r.answers = {plan[n].id : n \in E}
    BY DEF Respond
  <2>. HIDE DEF E
  <2>. QED  BY <1>3, <1>5, <2>1
<1>7. ASSUME NEW id \in DOMAIN request PROVE Right(profile, request[id], r.answers[id])
  <2>. DEFINE latest == CHOOSE n \in E : Latest(id, n)
  <2>1. r.answers[id] = Answer(plan[latest])
    <3>1. id \in {plan[n].id : n \in E}
      BY <1>5
    <3>. QED  BY <3>1 DEF Respond
  <2>2. PICK n \in E : plan[n].id = id
    BY <1>5
  <2>3. Latest(id, n)
    <3>. HIDE DEF E
    <3>1. ASSUME NEW o \in E, plan[o].id = id PROVE o <= n
      <4>1. o = n /\ n \in Nat
        BY <1>2, <1>3, <1>4, <2>2, <3>1
      <4>. QED  BY <4>1
    <3>. QED  BY <2>2, <3>1
  <2>4. latest \in E /\ plan[latest].id = id
    BY <2>3
  <2>. HIDE DEF E, latest
  <2>5. Made(profile, call, rows, plan[latest])
        /\ request[id] = call[plan[latest].request][plan[latest].id]
    BY <1>3, <2>4
  <2>. HIDE DEF request
  <2>6. Right(profile, request[id], Answer(plan[latest]))
    BY <1>1, <2>5, AnswerRight
  <2>. QED  BY <2>1, <2>6
<1>8. r.used = Charge(profile, request)
  <2>. DEFINE w == Counts(profile, request)
  <2>1. CASE profile = "dohnuts"
    <3>. DEFINE ids == [n \in E |-> plan[n].id]
    <3>1. ids \in Bijection(E, 1..Len(request))
      <4>1. /\ ids \in [E -> 1..Len(request)]
            /\ \A m, n \in E : ids[m] = ids[n] => m = n
            /\ \A id \in 1..Len(request) : \E n \in E : ids[n] = id
        <5>1. ids \in [E -> 1..Len(request)]
          BY <1>2, <1>3
        <5>2. \A m, n \in E : ids[m] = ids[n] => m = n
          BY <1>4
        <5>3. ASSUME NEW id \in 1..Len(request) PROVE \E n \in E : ids[n] = id
          BY <1>2, <1>5
        <5>. QED  BY <5>1, <5>2, <5>3
      <4>. HIDE DEF ids, E
      <4>. QED  BY <4>1 DEF Bijection, Injection, Surjection, IsInjective
    <3>2. IsFiniteSet(E)
      <4>1. E \subseteq 1..Len(plan) /\ IsFiniteSet(1..Len(plan))
        BY <1>2, FS_Interval DEF Entries
      <4>. QED  BY <4>1, FS_Subset
    <3>3. Cardinality(1..Len(request)) = Len(request)
      <4>. PICK n \in Nat : n = Len(request)
        BY <1>2
      <4>1. Cardinality(1..n) = n
        BY FirstNumbers
      <4>. QED  BY <4>1
    <3>4. Cardinality(E) = Len(request)
      <4>. HIDE DEF E, ids, request
      <4>1. ExistsBijection(E, 1..Len(request))
        BY <3>1 DEF ExistsBijection
      <4>. QED  BY <3>2, <3>3, <4>1, FS_Bijection
    <3>5. r.used = Len(request)
      BY <2>1, <3>4 DEF Respond
    <3>6. \A k \in 1..Len(request) : w[k] = 1
      BY <1>1, <2>1, CountFacts DEF RowCount, Isolated
    <3>. HIDE DEF w
    <3>7. Total(w, 1..Len(request)) = Len(request)
      BY <1>2, <3>6, OneRowEach
    <3>. QED  BY <3>5, <3>7 DEF Charge, w
  <2>2. CASE profile # "dohnuts"
    <3>1. i = at /\ r.used = Len(rows)
      BY <2>2 DEF Respond
    <3>2. Len(rows) = Total(Counts(profile, call[at]), 1..Len(call[at]))
      BY <2>2 DEF PlanInv, Asked
    <3>. QED  BY <3>1, <3>2 DEF Charge
  <2>. QED  BY <2>1, <2>2
<1>. HIDE DEF request, r
<1>. QED  BY <1>6, <1>7, <1>8 DEF Complete, request, r

-----------------------------------------------------------------------------
(* The invariant is one                                                    *)

LEMMA InitIInv == Init => IInv
<1>. SUFFICES ASSUME Init PROVE IInv
  OBVIOUS
<1>1. /\ profile \in Profiles /\ call \in Calls /\ at = 1 /\ question = 1
      /\ rows = <<>> /\ plan = <<>> /\ winners = <<>> /\ output = <<>> /\ phase = "plan"
  BY DEF Init
<1>2. /\ DOMAIN call = 1..Len(call) /\ Len(call) \in Nat \ {0}
      /\ DOMAIN call[1] = 1..Len(call[1]) /\ Len(call[1]) \in Nat \ {0}
  <2>1. DOMAIN call = 1..Len(call) /\ Len(call) \in Nat \ {0}
    BY <1>1, CallFacts
  <2>. QED  BY <1>1, <2>1, CallFacts
<1>3. Typed
  BY <1>1, <1>2 DEF Typed
<1>4. IsSeq(<<>>) /\ Len(<<>>) = 0 /\ DOMAIN <<>> = {}
  BY NoSeq
<1>5. OutputInv
  BY <1>1, <1>4 DEF OutputInv, ReservedInv, AnsweredInv, Running
<1>6. WinnersInv
  BY <1>1, <1>4 DEF WinnersInv
<1>7. PlanInv
  <2>1. EntriesMade /\ OneEntryEach
    BY <1>1, <1>4 DEF EntriesMade, OneEntryEach
  <2>2. EveryDueHasEntry
    BY <1>1, <1>2 DEF EveryDueHasEntry, Due
  <2>3. Len(rows) = Total(Counts(profile, call[at]), 1..Asked)
    <3>1. 1..Asked = {} /\ Len(rows) = 0
      BY <1>1, <1>4 DEF Asked
    <3>. QED  BY <3>1, TotalEmpty
  <2>. QED  BY <1>1, <1>4, <2>1, <2>2, <2>3 DEF PlanInv
<1>. QED  BY <1>3, <1>5, <1>6, <1>7 DEF IInv

(* plan() or render_question() throws.                                     *)
LEMMA RefuseKeepsIInv ==
  ASSUME IInv, RefuseQuestion
  PROVE  IInv'
<1>1. /\ phase' = "refused" /\ output' = <<>>
      /\ UNCHANGED <<profile, call, at, question, rows, plan, winners>>
  BY DEF RefuseQuestion
<1>2. Typed'
  BY <1>1 DEF IInv, Typed
<1>3. ~Running'
  BY <1>1 DEF Running
<1>4. OutputInv'
  BY <1>1, <1>3, NoSeq DEF OutputInv
<1>. QED  BY <1>2, <1>3, <1>4 DEF IInv

(* The next row gets its winner.                                           *)
LEMMA ScoreKeepsIInv ==
  ASSUME IInv, ScoreRow
  PROVE  IInv'
<1>1. /\ phase = "score"
      /\ \E j \in Preferred(rows[Len(winners) + 1]) : winners' = Append(winners, j)
      /\ phase' = IF Len(winners) + 1 = Len(rows) THEN "answer" ELSE "score"
      /\ UNCHANGED <<profile, call, at, question, rows, plan, output>>
  BY DEF ScoreRow
<1>2. /\ Typed /\ OutputInv /\ PlanInv /\ WinnersInv /\ Running
  BY <1>1 DEF IInv, Running
<1>3. phase' \in {"score", "answer"} /\ Running'
  BY <1>1 DEF Running
<1>4. Typed'
  BY <1>1, <1>2, <1>3 DEF Typed
<1>5. OutputInv'
  BY <1>1, <1>2, <1>3 DEF OutputInv, ReservedInv, AnsweredInv
<1>6. PlanInv'
  <2>1. \A i, id : Due(i, id)' <=> Due(i, id)
    BY <1>1, <1>3 DEF Due
  <2>2. Asked' = Asked
    BY <1>1, <1>3 DEF Asked
  <2>3. EntriesMade'
    BY <1>1, <1>2, <2>1 DEF PlanInv, EntriesMade
  <2>4. EveryDueHasEntry'
    BY <1>1, <1>2, <2>1 DEF PlanInv, EveryDueHasEntry
  <2>5. OneEntryEach'
    BY <1>1, <1>2 DEF PlanInv, OneEntryEach
  <2>. QED  BY <1>1, <1>2, <2>2, <2>3, <2>4, <2>5 DEF PlanInv
<1>7. WinnersInv'
  <2>1. /\ IsSeq(winners) /\ Len(winners) \in Nat /\ Len(rows) \in Nat
        /\ DOMAIN rows = 1..Len(rows) /\ DOMAIN winners = 1..Len(winners)
        /\ Len(winners) < Len(rows)
    BY <1>1, <1>2, SeqFacts DEF WinnersInv, PlanInv
  <2>2. PICK j \in Preferred(rows[Len(winners) + 1]) : winners' = Append(winners, j)
    BY <1>1
  <2>3. /\ IsSeq(winners') /\ Len(winners') = Len(winners) + 1
        /\ \A k \in 1..Len(winners) : winners'[k] = winners[k]
        /\ winners'[Len(winners) + 1] = j
    BY <2>1, <2>2, Appended
  <2>4. DOMAIN winners' = 1..Len(winners) + 1
    BY <2>3, SeqFacts
  <2>5. ASSUME NEW k \in DOMAIN winners'
        PROVE  k \in DOMAIN rows' /\ winners'[k] \in Preferred(rows'[k])
    <3>1. CASE k = Len(winners) + 1
      <4>1. k \in DOMAIN rows
        BY <2>1, <3>1
      <4>2. winners'[k] \in Preferred(rows[k])
        BY <2>2, <2>3, <3>1
      <4>. QED  BY <1>1, <4>1, <4>2
    <3>2. CASE k # Len(winners) + 1
      <4>1. k \in DOMAIN winners
        BY <2>1, <2>4, <3>2
      <4>. QED  BY <1>1, <1>2, <2>1, <2>3, <4>1 DEF WinnersInv
    <3>. QED  BY <3>1, <3>2
  <2>6. phase' = "score" => Len(winners') < Len(rows')
    <3>1. PICK m \in Nat, t \in Nat : m = Len(winners) /\ t = Len(rows)
      BY <2>1
    <3>2. Len(winners') = m + 1 /\ Len(rows') = t /\ m < t
      BY <1>1, <2>1, <2>3, <3>1
    <3>3. phase' = "score" => m + 1 # t
      BY <1>1, <3>1
    <3>. QED  BY <3>2, <3>3
  <2>7. phase' = "answer" => Len(winners') = Len(rows')
    BY <1>1, <2>3
  <2>. QED  BY <1>3, <2>3, <2>5, <2>6, <2>7 DEF WinnersInv
<1>. QED  BY <1>4, <1>5, <1>6, <1>7 DEF IInv

(* Every result of the dohnuts profile goes to the slot of its row.        *)
LEMMA AnswerCallKeepsIInv ==
  ASSUME IInv, AnswerCall
  PROVE  IInv'
<1>1. /\ phase = "answer" /\ profile = "dohnuts" /\ phase' = "done"
      /\ output' = [i \in DOMAIN output |-> Respond(i)]
      /\ UNCHANGED <<profile, call, at, question, rows, plan, winners>>
  BY DEF AnswerCall
<1>2. /\ Typed /\ OutputInv /\ PlanInv /\ WinnersInv /\ Running
  BY <1>1 DEF IInv, Running
<1>3. Typed' /\ ~Running'
  BY <1>1, <1>2 DEF Typed, Running
<1>4. /\ IsSeq(output) /\ Len(output) = Len(call)
      /\ DOMAIN call = 1..Len(call) /\ Len(call) \in Nat
  BY <1>1, <1>2, CallFacts DEF OutputInv, ReservedInv, Typed
<1>5. DOMAIN output = 1..Len(call)
  BY <1>4, SeqFacts
<1>6. /\ \A i \in 1..Len(call) : output'[i] = Respond(i)
      /\ output' = [i \in 1..Len(call) |-> output'[i]]
  BY <1>1, <1>5
<1>7. IsSeq(output') /\ Len(output') = Len(call)
  BY <1>4, <1>6, Listing
<1>8. ASSUME NEW i \in DOMAIN output' PROVE Complete(profile', call'[i], output'[i])
  <2>1. i \in DOMAIN call /\ output'[i] = Respond(i)
    BY <1>4, <1>6
  <2>2. Complete(profile, call[i], Respond(i))
    BY <1>1, <1>2, <2>1, RespondComplete
  <2>. QED  BY <1>1, <2>1, <2>2
<1>9. OutputInv'
  BY <1>1, <1>3, <1>7, <1>8 DEF OutputInv, AnsweredInv
<1>. QED  BY <1>3, <1>9 DEF IInv

(* A side profile answers request by request.                              *)
LEMMA AnswerRequestKeepsIInv ==
  ASSUME IInv, AnswerRequest
  PROVE  IInv'
<1>1. /\ phase = "answer" /\ profile # "dohnuts"
      /\ output' = Append(output, Respond(at))
      /\ rows' = <<>> /\ plan' = <<>> /\ winners' = <<>>
      /\ IF at < Len(call) THEN at' = at + 1 /\ phase' = "plan" ELSE at' = at /\ phase' = "done"
      /\ UNCHANGED <<profile, call, question>>
  BY DEF AnswerRequest
<1>2. /\ Typed /\ OutputInv /\ PlanInv /\ WinnersInv /\ Running
  BY <1>1 DEF IInv, Running
<1>3. question = 1
  BY <1>1, <1>2 DEF PlanInv
<1>4. /\ DOMAIN call = 1..Len(call) /\ Len(call) \in Nat \ {0}
      /\ \A i \in DOMAIN call : DOMAIN call[i] = 1..Len(call[i]) /\ Len(call[i]) \in Nat \ {0}
  BY <1>2, CallFacts DEF Typed
<1>5. at \in 1..Len(call)
  BY <1>2, <1>4 DEF Typed
<1>6. Typed'
  <2>1. at' \in DOMAIN call'
    BY <1>1, <1>4, <1>5
  <2>2. 1 \in DOMAIN call'[at']
    BY <1>1, <1>4, <2>1
  <2>. QED  BY <1>1, <1>2, <1>3, <2>1, <2>2 DEF Typed
<1>7. OutputInv'
  <2>1. IsSeq(output) /\ Len(output) = at - 1
        /\ \A i \in DOMAIN output : Complete(profile, call[i], output[i])
    BY <1>1, <1>2 DEF OutputInv, AnsweredInv
  <2>2. /\ IsSeq(output') /\ Len(output') = at
        /\ \A i \in 1..at - 1 : output'[i] = output[i]
        /\ output'[at] = Respond(at)
    <3>1. /\ IsSeq(output') /\ Len(output') = Len(output) + 1
          /\ \A i \in 1..Len(output) : output'[i] = output[i]
          /\ output'[Len(output) + 1] = Respond(at)
      BY <1>1, <2>1, Appended
    <3>. QED  BY <1>5, <2>1, <3>1
  <2>3. DOMAIN output' = 1..at /\ DOMAIN output = 1..at - 1
    BY <2>1, <2>2, SeqFacts
  <2>4. Complete(profile, call[at], Respond(at))
    BY <1>1, <1>2, <1>4, <1>5, RespondComplete
  <2>5. ASSUME NEW i \in DOMAIN output' PROVE Complete(profile', call'[i], output'[i])
    <3>1. CASE i = at
      BY <1>1, <2>2, <2>4, <3>1
    <3>2. CASE i # at
      <4>1. i \in 1..at - 1
        BY <1>5, <2>3, <3>2
      <4>. QED  BY <1>1, <2>1, <2>2, <2>3, <4>1
    <3>. QED  BY <3>1, <3>2
  <2>6. phase' \in {"plan", "done"}
    BY <1>1
  <2>7. /\ phase' = "done" => Len(output') = Len(call')
        /\ Running' => Len(output') = at' - 1
    BY <1>1, <1>4, <1>5, <2>2 DEF Running
  <2>. QED  BY <1>1, <2>2, <2>5, <2>6, <2>7 DEF OutputInv, AnsweredInv
<1>8. IsSeq(<<>>) /\ Len(<<>>) = 0 /\ DOMAIN <<>> = {}
  BY NoSeq
<1>9. Running' => phase' = "plan"
  BY <1>1 DEF Running
<1>10. Running' => WinnersInv'
  BY <1>1, <1>8, <1>9 DEF WinnersInv
<1>11. ASSUME Running' PROVE PlanInv'
  <2>1. phase' = "plan" /\ question' = 1
    BY <1>1, <1>3, <1>9, <1>11
  <2>2. EntriesMade' /\ OneEntryEach'
    BY <1>1, <1>8 DEF EntriesMade, OneEntryEach
  <2>3. EveryDueHasEntry'
    <3>1. ASSUME NEW i \in DOMAIN call, NEW id \in DOMAIN call[i] PROVE ~Due(i, id)'
      BY <1>1, <1>4, <2>1 DEF Due
    <3>. QED  BY <1>1, <3>1 DEF EveryDueHasEntry
  <2>4. Len(rows') = Total(Counts(profile', call'[at']), 1..Asked')
    <3>1. 1..Asked' = {} /\ Len(rows') = 0
      BY <1>1, <1>8, <2>1 DEF Asked
    <3>. QED  BY <3>1, TotalEmpty
  <2>. QED  BY <1>1, <1>8, <2>1, <2>2, <2>3, <2>4 DEF PlanInv
<1>. QED  BY <1>6, <1>7, <1>10, <1>11 DEF IInv

\* The next question is of the same request; there is none, and a side profile scores its
\* rows; it is of the next request; or every request has its slot.
SameRequest ==
  /\ question < Len(call[at]) /\ phase' = "plan"
  /\ question' = question + 1 /\ at' = at /\ output' = output

RequestPlanned ==
  /\ question = Len(call[at]) /\ question' = 1 /\ profile # "dohnuts"
  /\ phase' = "score" /\ at' = at /\ output' = output

NextRequest ==
  /\ question = Len(call[at]) /\ question' = 1 /\ profile = "dohnuts"
  /\ at < Len(call) /\ phase' = "plan" /\ at' = at + 1 /\ output' = Append(output, Empty)

CallPlanned ==
  /\ question = Len(call[at]) /\ question' = 1 /\ profile = "dohnuts"
  /\ at = Len(call) /\ phase' = "score" /\ at' = 1 /\ output' = Append(output, Empty)

(* The place of the next question.                                         *)
LEMMA NextPlace ==
  ASSUME Typed, PlanQuestion
  PROVE  /\ at' \in DOMAIN call /\ question' \in DOMAIN call[at']
         /\ SameRequest \/ RequestPlanned \/ NextRequest \/ CallPlanned
<1>1. /\ DOMAIN call = 1..Len(call) /\ Len(call) \in Nat \ {0}
      /\ \A i \in DOMAIN call : DOMAIN call[i] = 1..Len(call[i]) /\ Len(call[i]) \in Nat \ {0}
  BY CallFacts DEF Typed
<1>2. at \in 1..Len(call) /\ question \in 1..Len(call[at]) /\ Len(call[at]) \in Nat \ {0}
  BY <1>1 DEF Typed
<1>3. /\ IF question < Len(call[at])
         THEN question' = question + 1 /\ UNCHANGED <<at, output>>
         ELSE /\ question' = 1
              /\ IF profile = "dohnuts"
                 THEN output' = Append(output, Empty) /\ at' = (at % Len(call)) + 1
                 ELSE UNCHANGED <<at, output>>
      /\ phase' = IF LastToPlan THEN "score" ELSE "plan"
  BY DEF PlanQuestion
<1>4. CASE question < Len(call[at])
  <2>1. phase' = "plan"
    BY <1>2, <1>3, <1>4 DEF LastToPlan
  <2>2. question' \in 1..Len(call[at])
    BY <1>2, <1>3, <1>4
  <2>. QED  BY <1>1, <1>2, <1>3, <1>4, <2>1, <2>2 DEF SameRequest
<1>5. CASE ~(question < Len(call[at]))
  <2>1. question = Len(call[at]) /\ question' = 1
    BY <1>2, <1>3, <1>5
  <2>2. CASE profile # "dohnuts"
    <3>1. phase' = "score" /\ at' = at /\ output' = output
      BY <1>3, <1>5, <2>1, <2>2 DEF LastToPlan
    <3>2. RequestPlanned
      BY <2>1, <2>2, <3>1 DEF RequestPlanned
    <3>3. at' \in DOMAIN call /\ question' \in DOMAIN call[at']
      BY <1>1, <1>2, <2>1, <3>1
    <3>. QED  BY <3>2, <3>3
  <2>3. CASE profile = "dohnuts" /\ at < Len(call)
    <3>1. at % Len(call) = at
      BY <1>1, <1>2, <2>3
    <3>2. at' = at + 1 /\ output' = Append(output, Empty)
      BY <1>3, <1>5, <2>3, <3>1
    <3>5. phase' = "plan"
      <4>1. at # Len(call)
        <5>1. PICK n \in Nat : n = Len(call)
          BY <1>1
        <5>2. at \in 1..n /\ at < n
          BY <1>2, <2>3, <5>1
        <5>. QED  BY <5>1, <5>2
      <4>. QED  BY <1>3, <2>3, <4>1 DEF LastToPlan
    <3>3. at' \in 1..Len(call)
      BY <1>1, <1>2, <2>3, <3>2
    <3>4. 1 \in 1..Len(call[at'])
      BY <1>1, <3>3
    <3>6. NextRequest
      BY <2>1, <2>3, <3>2, <3>5 DEF NextRequest
    <3>7. at' \in DOMAIN call /\ question' \in DOMAIN call[at']
      BY <1>1, <2>1, <3>3, <3>4
    <3>. QED  BY <3>6, <3>7
  <2>4. CASE profile = "dohnuts" /\ at = Len(call)
    <3>1. at % Len(call) = 0
      BY <1>1, <1>2, <2>4
    <3>2. phase' = "score" /\ at' = 1 /\ output' = Append(output, Empty)
      BY <1>1, <1>2, <1>3, <1>5, <2>1, <2>4, <3>1 DEF LastToPlan
    <3>3. 1 \in 1..Len(call) /\ 1 \in 1..Len(call[1])
      BY <1>1
    <3>4. CallPlanned
      BY <2>1, <2>4, <3>2 DEF CallPlanned
    <3>5. at' \in DOMAIN call /\ question' \in DOMAIN call[at']
      BY <1>1, <2>1, <3>2, <3>3
    <3>. QED  BY <3>4, <3>5
  <2>5. at < Len(call) \/ at = Len(call)
    <3>1. PICK n \in Nat : n = Len(call)
      BY <1>1
    <3>2. at \in 1..n
      BY <1>2, <3>1
    <3>3. at < n \/ at = n
      BY <3>2
    <3>. QED  BY <3>1, <3>3
  <2>. QED  BY <2>2, <2>3, <2>4, <2>5
<1>. QED  BY <1>4, <1>5

(* The questions that have an entry now: those that had, and the one just  *)
(* planned, which had none.                                                *)
LEMMA DueNext ==
  ASSUME Typed, PlanQuestion
  PROVE  /\ \A i \in DOMAIN call : \A id \in DOMAIN call[i] :
              Due(i, id)' <=> Due(i, id) \/ (i = at /\ id = question)
         /\ ~Due(at, question)
<1>1. /\ DOMAIN call = 1..Len(call) /\ Len(call) \in Nat \ {0}
      /\ \A i \in DOMAIN call : DOMAIN call[i] = 1..Len(call[i]) /\ Len(call[i]) \in Nat \ {0}
  BY CallFacts DEF Typed
<1>2. phase = "plan" /\ profile' = profile
  BY DEF PlanQuestion
<1>3. PICK m \in Nat, n \in Nat : m = Len(call) /\ n = Len(call[at])
  BY <1>1 DEF Typed
<1>4. at \in 1..m /\ question \in 1..n
  BY <1>1, <1>3 DEF Typed
<1>5. ~Due(at, question)
  BY <1>2, <1>4 DEF Due
<1>6. ASSUME NEW i \in DOMAIN call, NEW id \in DOMAIN call[i]
      PROVE  Due(i, id)' <=> Due(i, id) \/ (i = at /\ id = question)
  <2>1. i \in 1..m /\ id \in Nat \ {0} /\ (i = at => id \in 1..n)
    BY <1>1, <1>3
  <2>2. Due(i, id) <=> (i = at /\ id < question) \/ (profile = "dohnuts" /\ i < at)
    BY <1>2 DEF Due
  <2>3. CASE SameRequest
    <3>1. Due(i, id)' <=> (i = at /\ id < question + 1) \/ (profile = "dohnuts" /\ i < at)
      BY <1>2, <2>3 DEF Due, SameRequest
    <3>2. id < question + 1 <=> id < question \/ id = question
      BY <1>4, <2>1
    <3>. QED  BY <2>2, <3>1, <3>2
  <2>4. CASE RequestPlanned
    <3>1. Due(i, id)' <=> i = at
      BY <1>2, <2>4 DEF Due, RequestPlanned
    <3>2. question = n /\ profile # "dohnuts"
      BY <1>3, <2>4 DEF RequestPlanned
    <3>3. i = at => id < question \/ id = question
      BY <2>1, <3>2
    <3>. QED  BY <2>2, <3>1, <3>2, <3>3
  <2>5. CASE NextRequest
    <3>1. Due(i, id)' <=> (i = at + 1 /\ id < 1) \/ i < at + 1
      BY <1>2, <2>5 DEF Due, NextRequest
    <3>2. question = n /\ profile = "dohnuts"
      BY <1>3, <2>5 DEF NextRequest
    <3>3. i = at => id < question \/ id = question
      BY <2>1, <3>2
    <3>4. ~(id < 1) /\ (i < at + 1 <=> i < at \/ i = at)
      BY <1>4, <2>1
    <3>. QED  BY <2>2, <3>1, <3>2, <3>3, <3>4
  <2>6. CASE CallPlanned
    <3>1. Due(i, id)'
      BY <1>2, <2>6 DEF Due, CallPlanned
    <3>2. question = n /\ profile = "dohnuts" /\ at = m
      BY <1>3, <2>6 DEF CallPlanned
    <3>3. i = at => id < question \/ id = question
      BY <2>1, <3>2
    <3>4. i < at \/ i = at
      BY <2>1, <3>2
    <3>. QED  BY <2>2, <3>1, <3>2, <3>3, <3>4
  <2>. QED  BY <2>3, <2>4, <2>5, <2>6, NextPlace
<1>. QED  BY <1>5, <1>6

(* The rows of a question that is accepted are as many as it counts for.   *)
LEMMA RowsForFacts ==
  ASSUME NEW p \in Profiles, NEW q, IsQuestion(q), Acceptable(p, q), NEW order
  PROVE  /\ IsSeq(RowsFor(p, q, order)) /\ Len(RowsFor(p, q, order)) = RowCount(p, q)
         /\ RowCount(p, q) \in Nat /\ 1 <= RowCount(p, q)
<1>. DEFINE s == RowsFor(p, q, order)
<1>1. Size(p, q) \in Nat /\ 2 <= Size(p, q)
  BY SizeFacts
<1>2. CASE Isolated(p, q)
  <2>1. s = [k \in 1..Size(p, q) |-> s[k]] /\ RowCount(p, q) = Size(p, q)
    BY <1>2 DEF RowsFor, RowCount
  <2>. HIDE DEF s
  <2>2. IsSeq(s) /\ Len(s) = Size(p, q)
    BY <1>1, <2>1, Listing
  <2>. QED  BY <1>1, <2>1, <2>2 DEF s
<1>3. CASE ~Isolated(p, q)
  <2>. DEFINE r == RowOf(p, Kind(p, q), Size(p, q), CHOOSE j \in 1..Size(p, q) : order[j] = q.verdict)
  <2>1. s = <<r>> /\ RowCount(p, q) = 1
    BY <1>3 DEF RowsFor, RowCount
  <2>. HIDE DEF r, s
  <2>2. <<r>> \in Seq({r}) /\ Len(<<r>>) = 1
    OBVIOUS
  <2>3. IsSeq(<<r>>)
    BY <2>2, KnownSeq
  <2>4. IsSeq(s) /\ Len(s) = RowCount(p, q) /\ RowCount(p, q) = 1
    BY <2>1, <2>2, <2>3
  <2>. QED  BY <2>4 DEF s
<1>. QED  BY <1>2, <1>3

(* Rows planned later leave an entry what it is.                           *)
LEMMA MadeKept ==
  ASSUME NEW p \in Profiles, NEW c \in Calls, NEW rs, IsSeq(rs), NEW more, IsSeq(more),
         NEW e, Made(p, c, rs, e)
  PROVE  Made(p, c, rs \o more, e)
<1>. DEFINE q == c[e.request][e.id]
            all == rs \o more
<1>1. /\ e.request \in DOMAIN c /\ e.id \in DOMAIN c[e.request]
      /\ Acceptable(p, q)
      /\ e.kind = Kind(p, q) /\ e.keys = Keys(p, q)
      /\ e.count = RowCount(p, q) /\ e.isolated = Isolated(p, q)
      /\ e.first \in Nat \ {0} /\ e.first + e.count - 1 <= Len(rs)
      /\ InRows(p, q, rs, e)
  BY DEF Made
<1>2. /\ Len(all) = Len(rs) + Len(more) /\ \A k \in 1..Len(rs) : all[k] = rs[k]
  BY Joined
<1>. HIDE DEF all
<1>3. e.count \in Nat
  BY <1>1, CallFacts, RowsForFacts
<1>4. Len(rs) \in Nat /\ Len(more) \in Nat
  BY SeqFacts
<1>5. e.first + e.count - 1 <= Len(all)
  BY <1>1, <1>2, <1>3, <1>4
<1>6. \A k \in 1..e.count : all[e.first + k - 1] = rs[e.first + k - 1]
  <2>. SUFFICES ASSUME NEW k \in 1..e.count PROVE e.first + k - 1 \in 1..Len(rs)
    BY <1>2
  <2>. QED  BY <1>1, <1>3, <1>4
<1>7. InRows(p, q, all, e)
  BY <1>1, <1>6 DEF InRows
<1>. HIDE DEF q
<1>. QED  BY <1>1, <1>5, <1>7 DEF Made, all, q

(* The entry of the question just planned is what it should be.            *)
LEMMA MadeNew ==
  ASSUME Typed, IsSeq(rows), Slot = at,
         NEW q, q = call[at][question], Acceptable(profile, q), NEW order \in Orders(profile, q)
  PROVE  /\ Made(profile, call, rows \o RowsFor(profile, q, order), Planned(q, order))
         /\ Planned(q, order).request = at /\ Planned(q, order).id = question
<1>. DEFINE e == Planned(q, order)
            more == RowsFor(profile, q, order)
            all == rows \o more
            n == Len(rows)
<1>1. /\ e.request = at /\ e.id = question /\ e.kind = Kind(profile, q)
      /\ e.keys = Keys(profile, q) /\ e.legend = Legend(profile, q, order)
      /\ e.first = n + 1 /\ e.count = RowCount(profile, q) /\ e.isolated = Isolated(profile, q)
  BY DEF Planned, FirstRow
<1>2. /\ at \in DOMAIN call /\ question \in DOMAIN call[at] /\ IsQuestion(q)
      /\ profile \in Profiles
  BY CallFacts DEF Typed
<1>3. /\ IsSeq(more) /\ Len(more) = e.count /\ e.count \in Nat /\ 1 <= e.count
  BY <1>1, <1>2, RowsForFacts
<1>. HIDE DEF e, more
<1>4. /\ Len(all) = n + Len(more) /\ \A k \in 1..Len(more) : all[n + k] = more[k]
      /\ n \in Nat
  <2>1. /\ Len(rows \o more) = Len(rows) + Len(more)
        /\ \A k \in 1..Len(more) : (rows \o more)[Len(rows) + k] = more[k]
    <3>1. IsSeq(rows) /\ IsSeq(more)
      BY <1>3
    <3>. QED  BY <3>1, Joined
  <2>. HIDE DEF more
  <2>. QED  BY <2>1, SeqFacts
<1>. HIDE DEF all, n
<1>5. e.first \in Nat \ {0} /\ e.first + e.count - 1 <= Len(all)
  BY <1>1, <1>3, <1>4
<1>6. ASSUME NEW k \in 1..e.count PROVE all[e.first + k - 1] = more[k]
  <2>1. e.first + k - 1 = n + k
    BY <1>1, <1>3, <1>4
  <2>. QED  BY <1>3, <1>4, <2>1
<1>7. InRows(profile, q, all, e)
  BY <1>1, <1>6 DEF InRows, more
<1>8. Made(profile, call, all, e)
  BY <1>1, <1>2, <1>5, <1>7 DEF Made
<1>. QED  BY <1>1, <1>8 DEF e, all, more

(* One more question is planned: its rows join those planned before, and   *)
(* its entry takes the slot of its request.                                *)
LEMMA PlanKeepsIInv ==
  ASSUME IInv, PlanQuestion
  PROVE  IInv'
<1>. DEFINE q == call[at][question]
            n == Len(plan)
<1>1. /\ phase = "plan" /\ Acceptable(profile, q)
      /\ profile' = profile /\ call' = call /\ winners' = winners
      /\ \E order \in Orders(profile, q) :
           /\ rows' = rows \o RowsFor(profile, q, order)
           /\ plan' = Append(plan, Planned(q, order))
  BY DEF PlanQuestion
<1>2. /\ Typed /\ OutputInv /\ PlanInv /\ WinnersInv /\ Running
  BY <1>1 DEF IInv, Running
<1>3. PICK order \in Orders(profile, q) :
        /\ rows' = rows \o RowsFor(profile, q, order)
        /\ plan' = Append(plan, Planned(q, order))
  BY <1>1
<1>4. /\ at' \in DOMAIN call /\ question' \in DOMAIN call[at']
      /\ SameRequest \/ RequestPlanned \/ NextRequest \/ CallPlanned
  BY <1>2, NextPlace
<1>5. phase' \in {"plan", "score"} /\ Running'
  BY <1>4 DEF SameRequest, RequestPlanned, NextRequest, CallPlanned, Running
<1>6. Typed'
  BY <1>1, <1>2, <1>4, <1>5 DEF Typed
<1>7. /\ IsSeq(rows) /\ IsSeq(plan) /\ IsSeq(output) /\ IsSeq(winners)
      /\ EntriesMade /\ EveryDueHasEntry /\ OneEntryEach /\ winners = <<>>
  BY <1>1, <1>2 DEF PlanInv, OutputInv, WinnersInv
<1>8. /\ DOMAIN call = 1..Len(call) /\ Len(call) \in Nat \ {0} /\ at \in DOMAIN call
      /\ question \in DOMAIN call[at]
      /\ DOMAIN call[at] = 1..Len(call[at]) /\ Len(call[at]) \in Nat \ {0}
      /\ IsQuestion(q) /\ profile \in Profiles /\ call \in Calls
  BY <1>2, CallFacts DEF Typed
<1>9. Len(output) = at - 1
  BY <1>1, <1>2 DEF OutputInv, ReservedInv, AnsweredInv
<1>10. Slot = at
  BY <1>8, <1>9 DEF Slot
<1>11. /\ IsSeq(rows') /\ Len(rows') = Len(rows) + RowCount(profile, q)
       /\ RowCount(profile, q) \in Nat /\ 1 <= RowCount(profile, q) /\ Len(rows) \in Nat
  <2>1. /\ IsSeq(RowsFor(profile, q, order)) /\ Len(RowsFor(profile, q, order)) = RowCount(profile, q)
        /\ RowCount(profile, q) \in Nat /\ 1 <= RowCount(profile, q)
    BY <1>1, <1>8, RowsForFacts
  <2>2. /\ IsSeq(rows \o RowsFor(profile, q, order))
        /\ Len(rows \o RowsFor(profile, q, order)) = Len(rows) + Len(RowsFor(profile, q, order))
    BY <1>7, <2>1, Joined
  <2>. HIDE DEF q
  <2>. QED  BY <1>3, <1>7, <2>1, <2>2, SeqFacts
<1>12. /\ Made(profile, call, rows', Planned(q, order))
       /\ Planned(q, order).request = at /\ Planned(q, order).id = question
  BY <1>1, <1>2, <1>3, <1>7, <1>10, MadeNew
<1>13. ASSUME NEW e, Made(profile, call, rows, e) PROVE Made(profile, call, rows', e)
  <2>1. IsSeq(RowsFor(profile, q, order))
    BY <1>1, <1>8, RowsForFacts
  <2>2. Made(profile, call, rows \o RowsFor(profile, q, order), e)
    BY <1>7, <1>8, <1>13, <2>1, MadeKept
  <2>. QED  BY <1>3, <2>2
<1>14. /\ IsSeq(plan') /\ n \in Nat /\ DOMAIN plan = 1..n /\ DOMAIN plan' = 1..n + 1
       /\ \A k \in 1..n : plan'[k] = plan[k]
       /\ plan'[n + 1] = Planned(q, order)
  <2>1. /\ IsSeq(Append(plan, Planned(q, order)))
        /\ Len(Append(plan, Planned(q, order))) = Len(plan) + 1
        /\ \A k \in 1..Len(plan) : Append(plan, Planned(q, order))[k] = plan[k]
        /\ Append(plan, Planned(q, order))[Len(plan) + 1] = Planned(q, order)
    BY <1>7, Appended
  <2>2. IsSeq(plan') /\ Len(plan') = Len(plan) + 1
    BY <1>3, <2>1
  <2>. QED  BY <1>3, <1>7, <2>1, <2>2, SeqFacts
<1>15. /\ \A i \in DOMAIN call : \A id \in DOMAIN call[i] :
            Due(i, id)' <=> Due(i, id) \/ (i = at /\ id = question)
       /\ ~Due(at, question)
  BY <1>2, DueNext
<1>. DEFINE e == Planned(q, order)
<1>. HIDE DEF q, n, e
<1>16. ASSUME NEW k \in DOMAIN plan
       PROVE  /\ Made(profile, call, rows, plan[k]) /\ Due(plan[k].request, plan[k].id)
              /\ plan[k].request \in DOMAIN call /\ plan[k].id \in DOMAIN call[plan[k].request]
  BY <1>7 DEF EntriesMade, Made
<1>17. ASSUME NEW k \in DOMAIN plan'
       PROVE  (k \in DOMAIN plan /\ plan'[k] = plan[k]) \/ (k = n + 1 /\ plan'[k] = e)
  BY <1>14 DEF e
<1>18. EntriesMade'
  <2>1. e.request = at /\ e.id = question /\ Made(profile, call, rows', e)
    BY <1>12 DEF e
  <2>2. ASSUME NEW k \in DOMAIN plan',
               NEW i, i = plan'[k].request, NEW id, id = plan'[k].id
        PROVE  Made(profile, call, rows', plan'[k]) /\ Due(i, id)'
    <3>1. CASE k \in DOMAIN plan /\ plan'[k] = plan[k]
      <4>1. Made(profile, call, rows', plan[k])
        BY <1>13, <1>16, <3>1
      <4>2. Due(i, id) /\ i \in DOMAIN call /\ id \in DOMAIN call[i]
        BY <1>16, <2>2, <3>1
      <4>3. Due(i, id)'
        BY <1>15, <4>2
      <4>. QED  BY <3>1, <4>1, <4>3
    <3>2. CASE plan'[k] = e
      <4>1. i = at /\ id = question
        BY <2>1, <2>2, <3>2
      <4>2. i \in DOMAIN call /\ id \in DOMAIN call[i]
        BY <1>8, <4>1
      <4>3. Due(i, id)'
        BY <1>15, <4>1, <4>2
      <4>. QED  BY <2>1, <3>2, <4>3
    <3>. QED  BY <1>17, <3>1, <3>2
  <2>3. \A k \in DOMAIN plan' :
          Made(profile', call', rows', plan'[k]) /\ Due(plan[k].request, plan[k].id)'
    BY <1>1, <2>2 DEF Due
  <2>. QED  BY <2>3 DEF EntriesMade
<1>19. EveryDueHasEntry'
  <2>1. ASSUME NEW i \in DOMAIN call, NEW id \in DOMAIN call[i], Due(i, id)'
        PROVE  \E k \in DOMAIN plan' : IsFor(plan'[k], i, id)
    <3>1. CASE Due(i, id)
      <4>1. PICK k \in DOMAIN plan : IsFor(plan[k], i, id)
        BY <1>7, <3>1 DEF EveryDueHasEntry
      <4>2. k \in DOMAIN plan' /\ plan'[k] = plan[k]
        BY <1>14
      <4>. QED  BY <4>1, <4>2
    <3>2. CASE i = at /\ id = question
      <4>1. n + 1 \in DOMAIN plan' /\ IsFor(plan'[n + 1], at, question)
        BY <1>12, <1>14 DEF IsFor
      <4>. QED  BY <3>2, <4>1
    <3>. QED  BY <1>15, <2>1, <3>1, <3>2
  <2>. QED  BY <1>1, <2>1 DEF EveryDueHasEntry
<1>20. OneEntryEach'
  <2>1. ASSUME NEW k \in DOMAIN plan PROVE ~IsFor(plan[k], at, question)
    BY <1>15, <1>16 DEF IsFor
  <2>2. e.request = at /\ e.id = question
    BY <1>12 DEF e
  <2>3. ASSUME NEW k \in DOMAIN plan', NEW l \in DOMAIN plan',
               IsFor(plan'[k], plan'[l].request, plan'[l].id)
        PROVE  k = l
    <3>1. CASE k \in DOMAIN plan /\ plan'[k] = plan[k] /\ l \in DOMAIN plan /\ plan'[l] = plan[l]
      BY <1>7, <2>3, <3>1 DEF OneEntryEach
    <3>2. CASE k \in DOMAIN plan /\ plan'[k] = plan[k] /\ plan'[l] = e
      BY <2>1, <2>2, <2>3, <3>2
    <3>3. CASE plan'[k] = e /\ l \in DOMAIN plan /\ plan'[l] = plan[l]
      <4>1. IsFor(plan[l], at, question)
        BY <2>2, <2>3, <3>3 DEF IsFor
      <4>. QED  BY <2>1, <3>3, <4>1
    <3>4. CASE k = n + 1 /\ l = n + 1
      BY <3>4
    <3>. QED  BY <1>17, <3>1, <3>2, <3>3, <3>4
  <2>. QED  BY <2>3 DEF OneEntryEach
<1>21. profile' # "dohnuts" => Len(rows') = Total(Counts(profile', call'[at']), 1..Asked')
  <2>1. SUFFICES ASSUME profile # "dohnuts"
                 PROVE  Len(rows') = Total(Counts(profile, call[at]), 1..Asked') /\ at' = at
    BY <1>1
  <2>. DEFINE w == Counts(profile, call[at])
  <2>2. (SameRequest \/ RequestPlanned) /\ at' = at
    BY <1>4, <2>1 DEF NextRequest, CallPlanned, SameRequest, RequestPlanned
  <2>3. PICK m \in Nat : m = question - 1
    BY <1>8
  <2>4. question = m + 1 /\ m + 1 \in 1..Len(call[at])
    BY <1>8, <2>3
  <2>5. Asked = m
    BY <1>1, <2>3 DEF Asked
  <2>6. Asked' = m + 1
    <3>1. CASE SameRequest
      <4>1. Asked' = question' - 1 /\ question' = question + 1
        BY <3>1 DEF SameRequest, Asked
      <4>. QED  BY <1>8, <2>4, <4>1
    <3>2. CASE RequestPlanned
      <4>1. Asked' = Len(call[at]) /\ question = Len(call[at])
        BY <1>1, <3>2 DEF RequestPlanned, Asked
      <4>. QED  BY <2>4, <4>1
    <3>. QED  BY <2>2, <3>1, <3>2
  <2>7. \A k \in 1..Len(call[at]) : w[k] = RowCount(profile, call[at][k]) /\ w[k] \in Nat
    BY <1>8, CountFacts
  <2>8. Len(rows) = Total(w, 1..m)
    BY <1>2, <2>1, <2>5 DEF PlanInv
  <2>. HIDE DEF w
  <2>9. w[m + 1] = RowCount(profile, q)
    BY <2>4, <2>7 DEF q
  <2>10. \A k \in 1..m + 1 : w[k] \in Nat
    <3>1. PICK len \in Nat : len = Len(call[at])
      BY <1>8
    <3>2. 1..m + 1 \subseteq 1..len
      BY <2>4, <3>1
    <3>. QED  BY <2>7, <3>1, <3>2
  <2>11. Total(w, 1..m + 1) = Total(w, 1..m) + w[m + 1]
    BY <2>10, TotalNext
  <2>. QED  BY <1>11, <2>2, <2>6, <2>8, <2>9, <2>11 DEF w
<1>22. PlanInv'
  <2>1. phase' # "plan" => question' = 1
    BY <1>4 DEF SameRequest, RequestPlanned, NextRequest, CallPlanned
  <2>. QED  BY <1>11, <1>14, <1>18, <1>19, <1>20, <1>21, <2>1 DEF PlanInv
<1>23. WinnersInv'
  <2>1. /\ winners' = <<>> /\ IsSeq(winners') /\ Len(winners') = 0 /\ DOMAIN winners' = {}
    BY <1>1, <1>7, NoSeq
  <2>2. Len(winners') < Len(rows')
    BY <1>11, <2>1
  <2>. QED  BY <1>5, <2>1, <2>2 DEF WinnersInv
<1>24. OutputInv'
  <2>1. CASE profile # "dohnuts"
    <3>1. at' = at /\ output' = output
      BY <1>4, <2>1 DEF SameRequest, RequestPlanned, NextRequest, CallPlanned
    <3>. QED  BY <1>1, <1>2, <1>5, <2>1, <3>1 DEF OutputInv, AnsweredInv
  <2>2. CASE profile = "dohnuts"
    <3>1. ReservedInv
      BY <1>2, <2>2 DEF OutputInv
    <3>2. CASE SameRequest
      BY <1>1, <1>5, <1>7, <2>2, <3>1, <3>2 DEF OutputInv, ReservedInv, SameRequest
    <3>3. CASE NextRequest \/ CallPlanned
      <4>1. output' = Append(output, Empty)
        BY <3>3 DEF NextRequest, CallPlanned
      <4>2. /\ IsSeq(output') /\ Len(output') = Len(output) + 1
            /\ \A i \in 1..Len(output) : output'[i] = output[i]
            /\ output'[Len(output) + 1] = Empty
        BY <1>7, <4>1, Appended
      <4>3. Len(output') = IF phase' = "plan" THEN at' - 1 ELSE Len(call)
        BY <1>8, <1>9, <3>3, <4>2 DEF NextRequest, CallPlanned
      <4>4. ASSUME NEW i \in DOMAIN output' PROVE output'[i] = Empty
        <5>1. DOMAIN output' = 1..Len(output) + 1 /\ DOMAIN output = 1..Len(output)
              /\ Len(output) \in Nat
          BY <1>7, <4>2, SeqFacts
        <5>2. i \in DOMAIN output \/ i = Len(output) + 1
          BY <5>1
        <5>. QED  BY <3>1, <4>2, <5>1, <5>2 DEF ReservedInv
      <4>. QED  BY <1>1, <1>5, <2>2, <4>2, <4>3, <4>4 DEF OutputInv, ReservedInv
    <3>. QED  BY <1>4, <2>2, <3>2, <3>3 DEF RequestPlanned
  <2>. QED  BY <2>1, <2>2
<1>. QED  BY <1>5, <1>6, <1>22, <1>23, <1>24 DEF IInv

(* A step that changes nothing keeps the invariant.                        *)
LEMMA StutterKeepsIInv ==
  ASSUME IInv, UNCHANGED vars
  PROVE  IInv'
BY DEF IInv, vars, Typed, OutputInv, ReservedInv, AnsweredInv, Running, PlanInv, EntriesMade,
       EveryDueHasEntry, OneEntryEach, Due, Asked, WinnersInv

(* Every step of predict() keeps the invariant.                            *)
LEMMA NextKeepsIInv == IInv /\ [Next]_vars => IInv'
<1>. SUFFICES ASSUME IInv, [Next]_vars PROVE IInv'
  OBVIOUS
<1>1. CASE PlanQuestion
  BY <1>1, PlanKeepsIInv
<1>2. CASE RefuseQuestion
  BY <1>2, RefuseKeepsIInv
<1>3. CASE ScoreRow
  BY <1>3, ScoreKeepsIInv
<1>4. CASE AnswerCall
  BY <1>4, AnswerCallKeepsIInv
<1>5. CASE AnswerRequest
  BY <1>5, AnswerRequestKeepsIInv
<1>6. CASE Ended \/ UNCHANGED vars
  BY <1>6, StutterKeepsIInv DEF Ended
<1>. QED  BY <1>1, <1>2, <1>3, <1>4, <1>5, <1>6 DEF Next

-----------------------------------------------------------------------------
(* What predict() promises                                                 *)

(* Every entry of the plan stands for the question it is for and for its   *)
(* rows, every scored row has a winner the model may prefer, and every     *)
(* response given is complete: the slots, the first rows and the order of  *)
(* predictor::predict() and side_engine::predict() fit together.           *)
THEOREM DecisionsIInv == Spec => []IInv
<1>1. Init => IInv
  BY InitIInv
<1>2. IInv /\ [Next]_vars => IInv'
  BY NextKeepsIInv
<1>. QED  BY <1>1, <1>2, PTL DEF Spec

(* A response that is not empty is complete.                               *)
LEMMA GivenComplete ==
  ASSUME IInv, NEW i \in DOMAIN output, output[i] # Empty
  PROVE  /\ phase # "refused" /\ i \in DOMAIN call /\ call \in Calls
         /\ profile \in Profiles
         /\ Complete(profile, call[i], output[i])
<1>1. Typed /\ OutputInv /\ call \in Calls /\ profile \in Profiles
  BY DEF IInv, Typed
<1>2. phase # "refused"
  BY <1>1, NoSeq DEF OutputInv
<1>3. AnsweredInv
  BY <1>1, <1>2 DEF OutputInv, ReservedInv
<1>4. Complete(profile, call[i], output[i])
  BY <1>3 DEF AnsweredInv
<1>5. i \in DOMAIN call
  <2>1. /\ DOMAIN call = 1..Len(call) /\ Len(call) \in Nat
        /\ IsSeq(output) /\ at \in DOMAIN call
    BY <1>1, CallFacts DEF OutputInv, Typed
  <2>2. DOMAIN output = 1..Len(output) /\ Len(output) \in Nat
    BY <2>1, SeqFacts
  <2>3. Len(output) = Len(call) \/ Len(output) = at - 1
    BY <1>1, <1>2, <1>3 DEF AnsweredInv, Typed, Running
  <2>4. PICK m \in Nat, n \in Nat : m = Len(call) /\ n = Len(output)
    BY <2>1, <2>2
  <2>5. i \in 1..n /\ at \in 1..m
    BY <2>1, <2>2, <2>4
  <2>6. n = m \/ n = at - 1
    BY <2>3, <2>4
  <2>7. i \in 1..m
    BY <2>5, <2>6
  <2>. QED  BY <2>1, <2>4, <2>7
<1>. QED  BY <1>1, <1>2, <1>4, <1>5

(* A request is charged the rows of its own questions.                     *)
THEOREM DecisionsCharged == Spec => []ChargedForOwnRows
<1>1. IInv => ChargedForOwnRows
  <2>. SUFFICES ASSUME IInv PROVE ChargedForOwnRows
    OBVIOUS
  <2>1. ASSUME NEW i \in DOMAIN output, output[i] # Empty
        PROVE  output[i].used = FoldSeq(LAMBDA q, n : n + RowCount(profile, q), 0, call[i])
    <3>1. i \in DOMAIN call /\ call \in Calls /\ output[i].used = Charge(profile, call[i])
      BY <2>1, GivenComplete DEF Complete
    <3>2. FoldSeq(LAMBDA q, n : n + RowCount(profile, q), 0, call[i]) = Charge(profile, call[i])
      BY <3>1, ChargeIsFold
    <3>. QED  BY <3>1, <3>2
  <2>. QED  BY <2>1 DEF ChargedForOwnRows
<1>. QED  BY <1>1, DecisionsIInv, PTL

(* An answer given is right, and to a question of its own request.         *)
LEMMA GivenPlace ==
  ASSUME IInv, NEW i \in DOMAIN output, NEW n \in DOMAIN output[i].answers
  PROVE  i \in DOMAIN call /\ n \in DOMAIN call[i]
<1>1. output[i] # Empty
  BY DEF Empty
<1>. QED  BY <1>1, GivenComplete DEF Complete

LEMMA GivenRight ==
  ASSUME IInv, NEW i \in DOMAIN output, NEW n \in DOMAIN output[i].answers
  PROVE  Right(profile, call[i][n], output[i].answers[n])
<1>1. output[i] # Empty
  BY DEF Empty
<1>. QED  BY <1>1, GivenComplete DEF Complete

(* The probability listed under the winning label is the winner's: no      *)
(* other option overwrote it in the map common_answer() fills.             *)
THEOREM DecisionsListed == Spec => []ListedProbabilityIsOwn
<1>1. IInv => ListedProbabilityIsOwn
  BY GivenRight DEF ListedProbabilityIsOwn, Right
<1>. QED  BY <1>1, DecisionsIInv, PTL

(* The legend of a score names the level decided on, unless jet or jpt     *)
(* read other labels for it than they show.                                *)
THEOREM DecisionsLegend == Spec => [](AllStraight => LegendNamesVerdict)
<1>1. IInv => (AllStraight => LegendNamesVerdict)
  <2>. SUFFICES ASSUME IInv, AllStraight,
                       NEW i \in DOMAIN output, NEW n \in DOMAIN output[i].answers,
                       output[i].answers[n].kind = "score"
                PROVE  output[i].answers[n].level = call[i][n].verdict
    BY DEF LegendNamesVerdict
  <2>1. i \in DOMAIN call /\ n \in DOMAIN call[i]
    BY GivenPlace
  <2>2. Straight(profile, call[i][n])
    BY <2>1 DEF AllStraight
  <2>. QED  BY <2>2, GivenRight DEF Right
<1>. QED  BY <1>1, DecisionsIInv, PTL

(* A call that is answered has a response for each request, and in it an   *)
(* answer for each question that says what the model's verdict on that     *)
(* very question is, where the labels shown are read in their order.       *)
THEOREM DecisionsAnswersFollow == Spec => [](AllStraight => AnswersFollow)
<1>1. IInv => (AllStraight => AnswersFollow)
  <2>. SUFFICES ASSUME IInv, AllStraight, phase = "done" PROVE AnswersFollow
    BY DEF AnswersFollow
  <2>1. Typed /\ AnsweredInv /\ IsSeq(output) /\ call \in Calls
    BY DEF IInv, OutputInv, Running, Typed
  <2>2. Len(output) = Len(call)
    BY <2>1 DEF AnsweredInv
  <2>3. DOMAIN call = 1..Len(call) /\ DOMAIN output = 1..Len(output)
    BY <2>1, CallFacts, SeqFacts
  <2>4. ASSUME NEW i \in DOMAIN call PROVE Complete(profile, call[i], output[i])
    BY <2>1, <2>2, <2>3 DEF AnsweredInv
  <2>5. ASSUME NEW i \in DOMAIN call
        PROVE  /\ DOMAIN output[i].answers = DOMAIN call[i]
               /\ \A n \in DOMAIN call[i] :
                    /\ output[i].answers[n].kind = Kind(profile, call[i][n])
                    /\ output[i].answers[n].value \in Meanings(profile, call[i][n])
    BY <2>4 DEF Complete, Right, AllStraight
  <2>. QED  BY <2>2, <2>5 DEF AnswersFollow
<1>. QED  BY <1>1, DecisionsIInv, PTL
==============================================================================
