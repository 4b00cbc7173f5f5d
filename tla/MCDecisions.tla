----------------------------- MODULE MCDecisions -----------------------------
(***************************************************************************)
(* Instances of Decisions for TLC.  The alphabet has three letters, and    *)
(* the tokenizer knows the second and the fourth of its pairs only, so     *)
(* that a question with more than three options meets the gap a real       *)
(* vocabulary has after Z.  Options are numbers: the names of a choice,    *)
(* the keys of a score given as an object, in the order they are sent.     *)
(***************************************************************************)
EXTENDS Decisions

MCSinglePairs == {<<1, 2>>, <<2, 1>>}

MCLimit == [p \in AllProfiles |-> IF p \in {"tev1", "jad"} THEN 3 ELSE IF p = "dohnuts" THEN 4 ELSE 5]

Question(type, form, options) ==
  {[type |-> type, form |-> form, options |-> options, isolated |-> TRUE, flawed |-> FALSE, verdict |-> v] :
     v \in DOMAIN options}

NoulQuestions == UNION {Question(type, form, <<1, 2>>) : type \in {"noul", "bool"}, form \in {"null", "array"}}

ChoiceQuestions ==
  UNION {Question("choice", form, options) :
           form \in {"array", "object"}, options \in {<<7, 6>>, <<6, 7, 8>>, <<9, 6, 8, 7>>}}
    \cup Question("none", "object", <<6, 7>>)
    \cup Question("choice", "array", <<7, 6, 7>>)

ScoreQuestions ==
  UNION {Question("score", "object", options) : options \in {<<1, 2>>, <<10, 2>>, <<10, 2, 5>>, <<3, 1, 4, 2>>, <<2, 2, 1>>}}
    \cup UNION {Question("score", "array", options) : options \in {<<1, 2>>, <<1, 2, 3>>}}
    \cup {[q EXCEPT !.isolated = FALSE] : q \in Question("score", "object", <<4, 2>>)}

FlawedQuestions == Question("choice", "object", <<6>>) \cup Question("choice", "object", <<1, 2, 3, 4, 5, 6>>)
            \cup Question("rank", "object", <<1, 2>>)
            \cup {[q EXCEPT !.flawed = TRUE] : q \in Question("choice", "object", <<6, 7>>)}

MCQuestions == NoulQuestions \cup ChoiceQuestions \cup ScoreQuestions \cup FlawedQuestions

Pair == UNION {Question("choice", "object", <<6, 7>>), Question("score", "object", <<10, 2, 5>>),
               Question("noul", "null", <<1, 2>>), Question("choice", "array", <<9, 6, 8, 7>>)}

MCCalls ==
  {<<<<q>>>> : q \in MCQuestions}
    \cup {<<<<q, r>>>> : q, r \in Pair}
    \cup {<<<<q>>, <<r, q>>>> : q, r \in Pair}
    \cup {<<<<q, r>>, <<q>>>> : q \in Pair, r \in Question("choice", "array", <<6, 7>>)}
=============================================================================
