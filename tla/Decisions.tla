------------------------------ MODULE Decisions ------------------------------
(***************************************************************************)
(* What a decision means: how the questions of a call become rows of       *)
(* labelled options, and how the winners of the rows become answers again. *)
(* predictor::predict() of src/src/protocol.cpp for the dohnuts profile,   *)
(* and side_engine::predict() of src/src/side.cpp with the plan()/score()  *)
(* of the eight profiles under src/src/side/.                              *)
(*                                                                         *)
(* The model behind the rows is one that is sure: every question has a     *)
(* verdict, the option it puts all its probability on, and the model puts  *)
(* it on the label this option is shown under.  Whether the verdict then   *)
(* comes back as the answer is up to the code: the order of the options,   *)
(* the labels shown and the labels read, the rows of a question, the slots *)
(* of the results.  Decoding is in Engine and SideEngine; the texts of a   *)
(* prompt, temperatures and rounding are left out.                         *)
(***************************************************************************)
EXTENDS Integers, Sequences, SequencesExt, FiniteSets

CONSTANTS
  Profiles,     \* the profiles an instance runs
  Calls,        \* the calls of predict(): sequences of requests, each a sequence of questions
  Limit,        \* per profile, the most options of a question
  Letters,      \* letters of the alphabet, 26 in the code
  SinglePairs,  \* the pairs of letters the tokenizer encodes as one token
  Narrow,       \* most options of a question rendered with plain letters
  IsolatedLevels \* isolated_levels of the decider's config

AllProfiles ==
  {"dohnuts", "decider", "thisthat", "tev1", "jad", "jet", "jpt", "kev", "neohorsejev"}

\* Those that read a hidden state at a marker of each option, not a label.
Positional == {"dohnuts", "kev", "neohorsejev"}

\* letter_label(): the letters, then every pair of them.
LetterLabel(j) ==
  IF j <= Letters THEN <<"letter", j>>
  ELSE <<"pair", ((j - Letters - 1) \div Letters) + 1, ((j - Letters - 1) % Letters) + 1>>

\* build_single_token_labels(): the letters, then the pairs the tokenizer encodes as one token.
SingleTokenLabels ==
  [j \in 1..Letters |-> <<"letter", j>>]
    \o FlattenSeq([a \in 1..Letters |-> FlattenSeq([b \in 1..Letters |->
         IF <<a, b>> \in SinglePairs THEN <<<<"pair", a, b>>>> ELSE <<>>])])

ASSUME DecisionsAssumption ==
  /\ Profiles \subseteq AllProfiles
  /\ Limit \in [AllProfiles -> Nat \ {0}]
  /\ {Letters, Narrow} \subseteq Nat \ {0}
  /\ Limit["tev1"] <= Letters /\ Limit["jad"] <= Letters /\ Narrow <= Letters
  /\ \A p \in AllProfiles \ Positional : Limit[p] <= Len(SingleTokenLabels)
  /\ IsolatedLevels \in BOOLEAN
  /\ \A call \in Calls :
       /\ call # <<>> /\ call \in Seq(Range(call))
       /\ \A i \in DOMAIN call :
            /\ call[i] # <<>> /\ call[i] \in Seq(Range(call[i]))
            /\ \A q \in Range(call[i]) :
                 /\ q.options \in Seq(Int) /\ q.verdict \in DOMAIN q.options
                 /\ q.type \in {"noul", "bool"} => Len(q.options) = 2

VARIABLES
  profile,  \* the profile the process was started with
  call,     \* the call of predict() in progress
  at,       \* the request being planned, or answered
  question, \* the question of it to plan next
  rows,     \* the rows planned: the labels shown and read per option, the option wanted
  plan,     \* planned_question (slots and labels of predictor): what the rows are for
  winners,  \* per scored row, the option with the largest probability
  output,   \* the responses: per question an answer, and the rows credited to the request
  phase     \* "plan", "score", "answer", then "done" or "refused"

vars == <<profile, call, at, question, rows, plan, winners, output, phase>>

-----------------------------------------------------------------------------
(* Questions *)

Kind(p, q) ==
  CASE p # "dohnuts" /\ q.type = "bool" -> "noul"
    [] p # "dohnuts" /\ q.type = "none" -> "choice"
    [] OTHER -> q.type

\* The forms of "criteria" each profile takes.
ChoiceForms(p) ==
  IF p \in {"dohnuts", "decider", "tev1", "thisthat", "jad"} THEN {"array", "object"} ELSE {"object"}

ScoreForms(p) ==
  CASE p = "tev1" -> {"object"}
    [] p \in {"decider", "kev", "neohorsejev"} -> {"array", "object"}
    [] OTHER -> {"array"}

NoulForms(p) == IF p = "dohnuts" THEN {"null", "object"} ELSE {"null", "object", "array"}

Forms(p, kind) ==
  CASE kind = "noul" -> NoulForms(p)
    [] kind = "choice" -> ChoiceForms(p)
    [] kind = "score" -> ScoreForms(p)
    [] OTHER -> {}

Places(q) == [k \in DOMAIN q.options |-> k]

\* A mutant: the levels of a score given as an object are left in the order they were sent.
Orders_AsSent(p, q) == IF Kind(p, q) = "noul" THEN {<<1, 2>>} ELSE {Places(q)}

\* The levels of a score given as an object, by the number their keys spell.  std::sort leaves
\* keys that spell the same number, "1" and "1.0", in any order.
ByLevel(q) ==
  {order \in [DOMAIN q.options -> DOMAIN q.options] :
     IsInjective(order) /\ \A j, k \in DOMAIN order : j < k => q.options[order[j]] <= q.options[order[k]]}

\* The orders the profile may list the options in, by their place in the question.
\* A noul question has two: 1 for no, 2 for yes.
Orders(p, q) ==
  CASE Kind(p, q) = "noul" -> {IF p = "jpt" THEN <<2, 1>> ELSE <<1, 2>>}
    [] Kind(p, q) = "score" /\ q.form = "object" -> ByLevel(q)
    [] OTHER -> {Places(q)}

Size(p, q) == IF Kind(p, q) = "noul" THEN 2 ELSE Len(q.options)

\* A mutant: the legend is made from the levels as they were sent, not as they are listed.
Legend_AsSent(p, q, order) == IF Kind(p, q) = "score" THEN Places(q) ELSE <<>>

\* The level each score stands for, told with the answer.
Legend(p, q, order) == IF Kind(p, q) = "score" THEN order ELSE <<>>

\* What names each option in the answer.
Keys(p, q) ==
  [j \in 1..Size(p, q) |->
    IF Kind(p, q) = "choice" /\ ~(p = "jad" /\ q.form = "array") THEN q.options[j] ELSE j - 1]

\* A mutant: render_question() without the check that labels are unique.
UniqueIfRequired_Never(p, q) == TRUE

\* Only predictor::predict() refuses labels that repeat.
UniqueIfRequired(p, q) ==
  p = "dohnuts" /\ Kind(p, q) = "choice" => IsInjective(Keys(p, q))

\* A flawed question holds the text of the reserved marker, or comes with an image that
\* decode_image_field() or an engine without --mmproj refuses; a side profile reads on.
Plain(p, q) == p = "dohnuts" => ~q.flawed

Acceptable(p, q) ==
  /\ Plain(p, q)
  /\ Kind(p, q) \in {"noul", "choice", "score"}
  /\ q.form \in Forms(p, Kind(p, q))
  /\ UniqueIfRequired(p, q)
  /\ Size(p, q) \in 2..Limit[p]

-----------------------------------------------------------------------------
(* Rows *)

\* The text of the label of option j, of n.
ShownLabel(p, kind, n, j) ==
  CASE p = "jet" /\ kind = "score" -> <<"digit", j - 1>>
    [] p = "jet" /\ kind = "noul" -> <<"word", j>>
    [] p \in {"jet", "jpt"} -> LetterLabel(j)
    [] p \in {"tev1", "jad"} -> <<"letter", j>>
    [] n <= Narrow -> <<"letter", j>>
    [] OTHER -> SingleTokenLabels[j]

\* The options follow each other, each closed by a marker; score() reads the hidden state there.
MarkerRow(n, wanted) ==
  LET markers == [j \in 1..n |-> <<"marker", j>>]
  IN  [shown |-> markers, read |-> markers, wanted |-> wanted]

\* The options are shown under labels; score() reads the logits of label tokens at one slot.
LabelRow(p, kind, n, wanted) ==
  [shown  |-> [j \in 1..n |-> ShownLabel(p, kind, n, j)],
   read   |-> [j \in 1..n |-> SingleTokenLabels[j]],
   wanted |-> wanted]

RowOf(p, kind, n, wanted) ==
  IF p \in Positional THEN MarkerRow(n, wanted) ELSE LabelRow(p, kind, n, wanted)

Isolated(p, q) == p = "decider" /\ Kind(p, q) = "score" /\ IsolatedLevels /\ q.isolated

\* One row, or for an isolated score one per level, asking whether the level fits.
RowsFor(p, q, order) ==
  IF Isolated(p, q)
  THEN [k \in 1..Size(p, q) |-> RowOf(p, "score", 2, IF order[k] = q.verdict THEN 2 ELSE 1)]
  ELSE <<RowOf(p, Kind(p, q), Size(p, q), CHOOSE j \in 1..Size(p, q) : order[j] = q.verdict)>>

RowCount(p, q) == IF Isolated(p, q) THEN Size(p, q) ELSE 1

\* The options the model may prefer as far as the labels read tell: the one wanted where its
\* label is read, any where it is not.
Preferred(row) ==
  LET heard == {j \in DOMAIN row.read : row.read[j] = row.shown[row.wanted]}
  IN  IF heard = {} THEN DOMAIN row.read ELSE heard

-----------------------------------------------------------------------------
Init ==
  /\ profile \in Profiles
  /\ call \in Calls
  /\ at = 1 /\ question = 1
  /\ rows = <<>> /\ plan = <<>> /\ winners = <<>> /\ output = <<>>
  /\ phase = "plan"

Empty == [answers |-> <<>>, used |-> 0]

\* A mutant: output.size() - 1, as if the request's own output had been pushed by then.
Slot_Previous == IF profile = "dohnuts" THEN IF output = <<>> THEN 1 ELSE Len(output) ELSE at

\* Where the result of the question being planned goes: slots.emplace_back(output.size(), id)
\* before the request's own output is pushed; the side profiles answer request by request.
Slot == IF profile = "dohnuts" THEN Len(output) + 1 ELSE at

FirstRow == Len(rows) + 1

Planned(q, order) ==
  [request |-> Slot, id |-> question, kind |-> Kind(profile, q), keys |-> Keys(profile, q),
   legend |-> Legend(profile, q, order), first |-> FirstRow, count |-> RowCount(profile, q),
   isolated |-> Isolated(profile, q)]

\* The dohnuts profile plans every request of a call before it scores one, a side profile
\* one request at a time.
LastToPlan == question = Len(call[at]) /\ (profile = "dohnuts" => at = Len(call))

PlanQuestion ==
  LET q == call[at][question] IN
  /\ phase = "plan"
  /\ Acceptable(profile, q)
  /\ \E order \in Orders(profile, q) :
       /\ rows' = rows \o RowsFor(profile, q, order)
       /\ plan' = Append(plan, Planned(q, order))
  /\ IF question < Len(call[at])
     THEN question' = question + 1 /\ UNCHANGED <<at, output>>
     ELSE /\ question' = 1
          /\ IF profile = "dohnuts"
             THEN output' = Append(output, Empty) /\ at' = (at % Len(call)) + 1
             ELSE UNCHANGED <<at, output>>
  /\ phase' = IF LastToPlan THEN "score" ELSE "plan"
  /\ UNCHANGED <<profile, call, winners>>

\* plan() or render_question() throws: the call ends with an error, its answers are dropped.
RefuseQuestion ==
  /\ phase = "plan"
  /\ ~Acceptable(profile, call[at][question])
  /\ phase' = "refused"
  /\ output' = <<>>
  /\ UNCHANGED <<profile, call, at, question, rows, plan, winners>>

\* The profile's score() of the next row; engine::score() returns the rows in the order given.
ScoreRow ==
  /\ phase = "score"
  /\ \E j \in Preferred(rows[Len(winners) + 1]) : winners' = Append(winners, j)
  /\ phase' = IF Len(winners) + 1 = Len(rows) THEN "answer" ELSE "score"
  /\ UNCHANGED <<profile, call, at, question, rows, plan, output>>

-----------------------------------------------------------------------------
(* Answers *)

\* The level of an isolated score the rows say fits; none weighs anything if no row does.
FittingLevel(entry) ==
  LET fits == {k \in 1..entry.count : winners[entry.first + k - 1] = 2}
  IN  IF fits = {} THEN 1 ELSE CHOOSE k \in fits : \A i \in fits : k <= i

Best(entry) == IF entry.isolated THEN FittingLevel(entry) ELSE winners[entry.first]

\* probabilities[keys[k]] = p[k] for every k in turn: of keys that repeat the last one stands.
Listed(keys) == [key \in Range(keys) |-> CHOOSE k \in DOMAIN keys :
                                           keys[k] = key /\ \A i \in k + 1..Len(keys) : keys[i] # key]

\* common_answer() and calibrate_answer(): noul is the probability of the second option,
\* choice the key of the best, score the place of the best, which the legend explains.
Answer(entry) ==
  LET best == Best(entry) IN
  [kind   |-> entry.kind,
   value  |-> CASE entry.kind = "noul" -> best = 2
                [] entry.kind = "choice" -> entry.keys[best]
                [] OTHER -> best - 1,
   level  |-> IF entry.kind = "score" THEN entry.legend[best] ELSE 0,
   own    |-> entry.kind = "noul" \/ Listed(entry.keys)[entry.keys[best]] = best]

Entries(i) == {n \in DOMAIN plan : plan[n].request = i}

\* A response answers under each id by the last result kept for it.
Respond(i) ==
  [answers |-> [id \in {plan[n].id : n \in Entries(i)} |->
                 Answer(plan[CHOOSE n \in Entries(i) : /\ plan[n].id = id
                                                       /\ \A o \in Entries(i) : plan[o].id = id => o <= n])],
   used    |-> IF profile = "dohnuts" THEN Cardinality(Entries(i)) ELSE Len(rows)]

\* Every result of the one engine::score() call goes to the slot of its row.
AnswerCall ==
  /\ phase = "answer" /\ profile = "dohnuts"
  /\ output' = [i \in DOMAIN output |-> Respond(i)]
  /\ phase' = "done"
  /\ UNCHANGED <<profile, call, at, question, rows, plan, winners>>

AnswerRequest ==
  /\ phase = "answer" /\ profile # "dohnuts"
  /\ output' = Append(output, Respond(at))
  /\ rows' = <<>> /\ plan' = <<>> /\ winners' = <<>>
  /\ IF at < Len(call) THEN at' = at + 1 /\ phase' = "plan" ELSE UNCHANGED at /\ phase' = "done"
  /\ UNCHANGED <<profile, call, question>>

Ended == phase \in {"done", "refused"} /\ UNCHANGED vars

Next == PlanQuestion \/ RefuseQuestion \/ ScoreRow \/ AnswerCall \/ AnswerRequest \/ Ended

Spec == Init /\ [][Next]_vars

-----------------------------------------------------------------------------
(* Properties *)

\* What the verdict on a question says, whatever the profile did with it: of a score given as
\* an object, how many levels are below the one decided on, those it ties with either way.
Meanings(p, q) ==
  CASE Kind(p, q) = "noul" -> {q.verdict = 2}
    [] Kind(p, q) = "choice" /\ ~(p = "jad" /\ q.form = "array") -> {q.options[q.verdict]}
    [] Kind(p, q) = "score" /\ q.form = "object" ->
         LET below == Cardinality({k \in DOMAIN q.options : q.options[k] < q.options[q.verdict]})
             equal == Cardinality({k \in DOMAIN q.options : q.options[k] = q.options[q.verdict]})
         IN  below..(below + equal - 1)
    [] OTHER -> {q.verdict - 1}

\* A call that is answered has one response per request, each with an answer for each of its
\* questions and no other, and every answer says what the model's verdict on that very
\* question is: through the reordering of levels, the labels, the rows of an isolated score
\* and the slots of the results.
AnswersFollow ==
  phase = "done" =>
    /\ Len(output) = Len(call)
    /\ \A i \in DOMAIN call :
         /\ DOMAIN output[i].answers = DOMAIN call[i]
         /\ \A n \in DOMAIN call[i] :
              /\ output[i].answers[n].kind = Kind(profile, call[i][n])
              /\ output[i].answers[n].value \in Meanings(profile, call[i][n])

\* The legend that comes with a score says of the number answered the very level decided on,
\* also where two levels have keys that spell one number and either may be listed first.
LegendNamesVerdict ==
  \A i \in DOMAIN output : \A n \in DOMAIN output[i].answers :
    output[i].answers[n].kind = "score" => output[i].answers[n].level = call[i][n].verdict

\* A request is charged the tokens of the rows of its own questions, however its call was
\* planned and scored.
ChargedForOwnRows ==
  \A i \in DOMAIN output :
    output[i] # Empty =>
      output[i].used = FoldSeq(LAMBDA q, n : n + RowCount(profile, q), 0, call[i])

\* The probability listed under the winning label is the winner's: no other option of the
\* question overwrote it.  Only the dohnuts profile checks this of a list that repeats a label.
ListedProbabilityIsOwn ==
  \A i \in DOMAIN output : \A n \in DOMAIN output[i].answers :
    profile = "dohnuts" \/ IsInjective(call[i][n].options) => output[i].answers[n].own

\* README.md: "The response keeps the same core fields (type, choice, probabilities, noul,
\* score, confidence), so clients work unchanged": noul is the probability of yes.
NoulIsYes ==
  \A i \in DOMAIN output : \A n \in DOMAIN output[i].answers :
    output[i].answers[n].kind = "noul" => output[i].answers[n].value = (call[i][n].verdict = 2)
=============================================================================
