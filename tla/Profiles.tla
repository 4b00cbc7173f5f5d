------------------------------- MODULE Profiles -------------------------------
(***************************************************************************)
(* The side engine with the prompts of its profiles: SideEngine serving    *)
(* calls whose rows are planned by Prompts.  What SideEngine promises of a *)
(* row becomes a statement about the question a client asked.              *)
(***************************************************************************)
EXTENDS SideEngine

CONSTANTS
  Requests,  \* of Prompts
  MaxState,
  MaxBranch

INSTANCE Prompts

SideKinds == {"decider", "thisthat", "tev1", "jad", "jet", "jpt", "kev", "neohorsejev"}

\* Those that read a hidden state at the end of each box of theirs.
Boxed == {"kev", "neohorsejev"}

ASSUME RequestsAssumption ==
  /\ {MaxState, MaxBranch} \subseteq Nat
  /\ \A request \in Requests :
       /\ request.state \in Nat /\ request.questions \in Seq(Range(request.questions))
       /\ \A q \in Range(request.questions) :
            q.text \in Nat /\ q.options \in Seq(Nat) /\ q.isolated \in BOOLEAN

(***************************************************************************)
(* The calls are planned by the profiles a set-up may be for, which it has *)
(* in a further field, kinds; what the context hands out depends on the    *)
(* profile.  A set-up for none of them serves any rows.                    *)
(***************************************************************************)
CallsPlanned ==
  \A s \in Setups :
    /\ s.kinds \subseteq SideKinds
    /\ \A kind \in s.kinds : (s.embeddings <=> kind \in Boxed) /\ (s.diffusion <=> kind = "jad")
    /\ s.kinds # {} => \A c \in CallsOf(s) : \E kind \in s.kinds :
         Range(c) \subseteq {Plan(kind, request) : request \in Requests}

\* The requests the rows being served may be planned from by one of some profiles.
PlannedFrom(kinds) ==
  {request \in Requests : \E kind \in kinds \cap setup.kinds : Rows = Plan(kind, request)}

\* The reading at the slot of a scored row, where the options are decided.
AtSlot(i) == readings[i][1]

-----------------------------------------------------------------------------
\* A reading that has seen the question of its row, all of it and no later one, once.
Asks(request, planned, reading) ==
  LET k    == planned.question
      seen == Range(reading)
  IN  /\ IsInjective(reading)
      /\ Mark("answer", k, 0) \in seen
      /\ Range(Instructions(request, k)) \subseteq seen
      /\ \A j \in planned.shown : Range(OptionText(request, k, j)) \subseteq seen
      /\ \A token \in seen : token[2] <= k
      /\ \E n \in 0..request.state :
           {token \in seen : token[1] = "state"} = Range(Words("state", 0, 0, n))

(***************************************************************************)
(* Every row is decided over the state, or a beginning of it, and the      *)
(* whole of its own question: instructions, every option it offers and the *)
(* slot the answer goes to.  The cuts the profiles make to stay within     *)
(* their limits, the checkpoints and the batches take nothing of it away.  *)
(* Not so for jet, which cuts the whole prompt (JetRow).                   *)
(***************************************************************************)
AsksItsQuestion ==
  \A request \in PlannedFrom(setup.kinds) : \A i \in DOMAIN readings :
    Asks(request, Rows[i], AtSlot(i))

(***************************************************************************)
(* kev and neohorsejev: option j is scored over the state that has just    *)
(* read the end of box j, and the decision over all of the boxes.          *)
(***************************************************************************)
BoxesRead ==
  \A request \in PlannedFrom(Boxed) : \A i \in DOMAIN readings :
    /\ Last(AtSlot(i)) = Mark("answer", Rows[i].question, 0)
    /\ \A j \in Rows[i].shown :
         Last(readings[i][j + 1]) = Mark("box_end", Rows[i].question, j)

(***************************************************************************)
(* thisthat.cpp: "the logits at the last slot are the ones the reference   *)
(* reads there".  The reference packs the context and all questions, each  *)
(* with its slot, into one pass; row k reads at its slot what the pass has *)
(* read up to slot k.                                                      *)
(***************************************************************************)
SinglePass(request) ==
  ThisthatContext(request)
    \o FlattenSeq([k \in DOMAIN request.questions |-> QuestionBlock(request, k)])

MatchesSinglePass ==
  \A request \in PlannedFrom({"thisthat"}) : \A i \in DOMAIN readings :
    \E slot \in DOMAIN SinglePass(request) :
      /\ SinglePass(request)[slot] = Mark("answer", Rows[i].question, 0)
      /\ AtSlot(i) = SubSeq(SinglePass(request), 1, slot)

(***************************************************************************)
(* profile.hpp says of prefix: "leading state tokens, shared by rows of    *)
(* one request".  The tokens a checkpoint is filed under are of no         *)
(* question, the same in every row, and end before anything is read.       *)
(***************************************************************************)
PrefixIsState ==
  \A request \in PlannedFrom(setup.kinds) : \A i \in DOMAIN Rows :
    LET prefix == SubSeq(Rows[i].ids, 1, Rows[i].prefix)
    IN  /\ \A token \in Range(prefix) : token[2] = 0
        /\ prefix = SubSeq(Rows[1].ids, 1, Rows[1].prefix)
        /\ \A p \in ReadSet(setup, Rows[i]) : Len(prefix) < p
=============================================================================
