----------------------------- MODULE MCSideEngine -----------------------------
(***************************************************************************)
(* Instances of SideEngine and of Profiles for TLC.  Some set-ups serve    *)
(* the prompts of profiles: one to three questions, some with levels of    *)
(* their own rows, over states within and above the limits.  The others    *)
(* serve rows no profile need have planned: alike to the last token, of    *)
(* different states in one request, without a state, over the budget.      *)
(***************************************************************************)
EXTENDS Profiles

-----------------------------------------------------------------------------
(* Prompts *)

Question(text, options) == [text |-> text, options |-> options, isolated |-> FALSE]

Plain == Question(1, <<1, 1>>)
Wide  == Question(0, <<1, 0, 2>>)
Score == [Question(1, <<1, 2>>) EXCEPT !.isolated = TRUE]

MCRequests ==
  [state : {6, 30}, questions : {<<Plain>>, <<Plain, Wide>>, <<Score, Plain>>, <<Wide, Plain, Plain>>}]

Planning(kinds, shared, sequences) ==
  [kinds |-> kinds, shared |-> shared, sequences |-> sequences,
   embeddings |-> kinds \subseteq Boxed, diffusion |-> kinds = {"jad"}]

PlannedCalls(one) == {<<Plan(kind, request)>> : kind \in one.kinds, request \in Requests}

-----------------------------------------------------------------------------
(* Rows of other shapes: a state, then a question, its last one to three  *)
(* words not the same in every row; the options are read where those       *)
(* before the last one end.                                                *)

RowOf(state, words) ==
  LET head == state \o Words("text", 1, 0, 14)
      ids  == head \o [i \in DOMAIN words |-> Mark(words[i], 1, 0)]
  IN  PlannedRow(ids, Len(state), Len(ids), [k \in 1..Len(words) - 1 |-> Len(head) + k], 1, {})

s == Words("s", 0, 0, 4)
t == Words("t", 0, 0, 6)

Short == {RowOf(s, <<"p">>), RowOf(s, <<"p", "q">>), RowOf(s, <<"q", "p", "q">>)}
Other == {RowOf(t, <<"p">>), RowOf(t, <<"q", "q">>)}

\* A row without a cacheable prefix, and one over the budget.
Bare     == [RowOf(s, <<"q">>) EXCEPT !.prefix = 0]
Overlong == RowOf(t, <<"p", "p", "p", "p", "p">>)

RowRequests ==
  {<<r>> : r \in Short \cup Other \cup {Bare, Overlong}}
    \cup {<<q, r>> : q \in Short \ {RowOf(s, <<"p">>)}, r \in Short} \cup {<<q, q>> : q \in Other}
    \cup {<<RowOf(s, <<"p">>), r>> : r \in Other \cup {Bare, Overlong}}
    \cup {<<RowOf(s, <<"p">>), RowOf(s, <<"q">>), RowOf(s, <<"p">>)>>}

RowCalls ==
  {<<r>> : r \in RowRequests}
    \cup {<<<<RowOf(s, <<"p">>), RowOf(s, <<"p", "q">>)>>, <<r>>>> : r \in {Bare, Overlong}}

AnyRows(shared, embeddings, diffusion, sequences) ==
  [kinds |-> {}, shared |-> shared, sequences |-> sequences,
   embeddings |-> embeddings, diffusion |-> diffusion]

-----------------------------------------------------------------------------
MCSetups ==
  {Planning({"decider", "thisthat", "tev1"}, TRUE, 3),
   Planning({"kev", "neohorsejev"}, FALSE, 1),
   Planning({"jad"}, TRUE, 1),
   AnyRows(FALSE, FALSE, FALSE, 2), AnyRows(TRUE, TRUE, FALSE, 2), AnyRows(TRUE, FALSE, TRUE, 1)}

CallsOn == [one \in MCSetups |-> IF one.kinds = {} THEN RowCalls ELSE PlannedCalls(one)]

MCCallsOf(one) == CallsOn[one]

ASSUME CallsPlanned
=============================================================================
