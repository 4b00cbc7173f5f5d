------------------------------- MODULE Prompts -------------------------------
(***************************************************************************)
(* How the side profiles (src/src/side) lay out the rows of a request: the *)
(* order of the parts of a prompt, what of it is cut to a limit, how many  *)
(* leading tokens are the state, and which positions the readout will ask  *)
(* for.                                                                    *)
(*                                                                         *)
(* A request is [state, questions]: the tokens of its state, and questions *)
(* [text, options, isolated] with the tokens of the instructions and of    *)
(* each option; the words of a template that do not matter are left out.   *)
(* A token is <<kind, question, option, index>>.                           *)
(***************************************************************************)
EXTENDS Integers, SequencesExt, FiniteSetsExt

CONSTANTS
  MaxLength,  \* max_length, of the runner
  MaxState,   \* max_state_tokens
  MaxBranch   \* max_branch_tokens

Words(kind, k, j, n) == [i \in 1..n |-> <<kind, k, j, i>>]
Mark(kind, k, j) == <<kind, k, j, 0>>

Cut(ids, limit) == SubSeq(ids, 1, Min({Len(ids), limit}))

State(request) == Words("state", 0, 0, request.state)
Instructions(request, k) == Words("text", k, 0, request.questions[k].text)
OptionText(request, k, j) == Words("option", k, j, request.questions[k].options[j])
Options(request, k) == DOMAIN request.questions[k].options

\* The options of a question one after another.
OptionBlock(request, k) ==
  FlattenSeq([j \in Options(request, k) |-> OptionText(request, k, j)])

\* A row, with the question it is about and the options it shows.
PlannedRow(ids, prefix, slot, options, k, shown) ==
  [ids |-> ids, prefix |-> prefix, slot |-> slot, options |-> options,
   question |-> k, shown |-> shown]

LabelRow(ids, prefix, request, k) ==
  PlannedRow(ids, prefix, Len(ids), <<>>, k, Options(request, k))

-----------------------------------------------------------------------------
(***************************************************************************)
(* kev and neohorsejev: boxed options behind the state, read at the end of *)
(* every box and at the decide marker, which is last.                      *)
(***************************************************************************)
Box(request, k, j) ==
  <<Mark("box_start", k, j)>> \o OptionText(request, k, j) \o <<Mark("box_end", k, j)>>

\* Mutant: the position of the token before, the last word of the option.
BoxEnd_Word(request, k, j, before) ==
  before + Len(FlattenSeq([i \in 1..j |-> Box(request, k, i)])) - 1

\* Position of the end of box j, after so many tokens.
BoxEnd(request, k, j, before) ==
  before + Len(FlattenSeq([i \in 1..j |-> Box(request, k, i)]))

FimRow(prefix, request, k) ==
  LET head == prefix \o <<Mark("fim_middle", k, 0)>> \o Instructions(request, k)
      ids  == head \o FlattenSeq([j \in Options(request, k) |-> Box(request, k, j)])
                \o <<Mark("answer", k, 0)>>
  IN  PlannedRow(ids, Len(prefix), Len(ids),
                 [j \in Options(request, k) |-> BoxEnd(request, k, j, Len(head))],
                 k, Options(request, k))

FimState(request) == <<Mark("fim_prefix", 0, 0)>> \o State(request)

\* The state of kev leaves one token of the budget.
KevRow(request, k) == FimRow(Cut(FimState(request), MaxLength - 1), request, k)

\* neohorsejev cuts the row when its readout is already placed.
NeohorsejevRow(request, k) ==
  LET whole == FimRow(Cut(FimState(request), MaxState), request, k)
  IN  [whole EXCEPT !.ids = Cut(@, MaxBranch)]

-----------------------------------------------------------------------------
(***************************************************************************)
(* decider and thisthat: a context, then questions that end in a slot.     *)
(***************************************************************************)
ContextHeader == Words("context", 0, 0, 3)
Context(request) == ContextHeader \o State(request)

QuestionBlock(request, k) ==
  <<Mark("question", k, 0)>> \o Instructions(request, k) \o OptionBlock(request, k)
    \o <<Mark("answer", k, 0)>>

\* Mutant: the question belongs to the prefix, the level follows.
LevelRow_LongPrefix(request, k, j) ==
  LET head == Context(request) \o <<Mark("question", k, 0)>> \o Instructions(request, k)
      ids  == head \o OptionText(request, k, j) \o <<Mark("answer", k, 0)>>
  IN  PlannedRow(ids, Len(head), Len(ids), <<>>, k, {j})

\* A level of an isolated score has a row of its own, a yes or no question.
LevelRow(request, k, j) ==
  LET ids == Context(request) \o <<Mark("question", k, 0)>> \o Instructions(request, k)
               \o OptionText(request, k, j) \o <<Mark("answer", k, 0)>>
  IN  PlannedRow(ids, Len(Context(request)), Len(ids), <<>>, k, {j})

DeciderRows(request, k) ==
  IF request.questions[k].isolated
  THEN [j \in Options(request, k) |-> LevelRow(request, k, j)]
  ELSE <<LabelRow(Context(request) \o QuestionBlock(request, k), Len(Context(request)), request, k)>>

ThisthatContext(request) == Cut(Context(request), MaxState + 3)

\* Mutant: the row is cut, not the context.
ThisthatRow_CutRow(request, k) ==
  LET ids == Cut(Context(request) \o FlattenSeq([j \in 1..k |-> QuestionBlock(request, j)]), MaxState + 3)
  IN  LabelRow(ids, Min({Len(Context(request)), MaxState}), request, k)

\* Mutant: a row holds its own question only.
ThisthatRow_Alone(request, k) ==
  LET context == ThisthatContext(request)
  IN  LabelRow(context \o QuestionBlock(request, k), Len(context), request, k)

\* Row k holds the questions up to k, each with its slot.
ThisthatRow(request, k) ==
  LET context == ThisthatContext(request)
  IN  LabelRow(context \o FlattenSeq([j \in 1..k |-> QuestionBlock(request, j)]),
               Len(context), request, k)

-----------------------------------------------------------------------------
(***************************************************************************)
(* tev1, jpt, jet and jad: a chat of its own for every question, no prefix *)
(* to keep.                                                                *)
(***************************************************************************)
Chat(request, k) ==
  <<Mark("system", 0, 0)>> \o State(request) \o Instructions(request, k)
    \o OptionBlock(request, k) \o <<Mark("answer", k, 0)>>

ChatRow(request, k) == LabelRow(Chat(request, k), 0, request, k)

\* jet cuts the whole prompt to the limit of the state; the slot is its last token.
JetRow(request, k) == LabelRow(Cut(Chat(request, k), MaxState), 0, request, k)

\* The mask of jad is followed by the end of the assistant's turn.
JadRow(request, k) ==
  [LabelRow(Chat(request, k), 0, request, k) EXCEPT !.ids = Append(@, Mark("role_end", k, 0))]

-----------------------------------------------------------------------------
\* profile::plan(), of each profile: the rows of a question.
QuestionRows(profile, request, k) ==
  CASE profile = "kev"         -> <<KevRow(request, k)>>
    [] profile = "neohorsejev" -> <<NeohorsejevRow(request, k)>>
    [] profile = "decider"     -> DeciderRows(request, k)
    [] profile = "thisthat"    -> <<ThisthatRow(request, k)>>
    [] profile = "jet"         -> <<JetRow(request, k)>>
    [] profile = "jad"         -> <<JadRow(request, k)>>
    [] profile \in {"tev1", "jpt"} -> <<ChatRow(request, k)>>

\* profile::plan_request(): in the order of the request.
Plan(profile, request) ==
  FlattenSeq([k \in DOMAIN request.questions |-> QuestionRows(profile, request, k)])
=============================================================================
