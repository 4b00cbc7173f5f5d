--------------------------- MODULE DecisionService ---------------------------
(***************************************************************************)
(* What the HTTP server promises its callers, with no threads, locks or    *)
(* batches: a line of accepted jobs, answered one after another in the     *)
(* order they were accepted, until the service closes.  Closing keeps a    *)
(* front part of the line (the jobs already selected for inference), whose *)
(* jobs still get a verdict, and turns the rest away.                      *)
(***************************************************************************)
EXTENDS Naturals, Sequences

CONSTANTS
  Jobs,
  Capacity,  \* accepted jobs the service holds at most
  Verdicts   \* [Jobs -> SUBSET STRING]: the answers a selected job may get

VARIABLES
  line,      \* jobs accepted and not answered, oldest first
  outcome,   \* [Jobs -> "none", "unavailable" or a verdict]
  closed

serviceVars == <<line, outcome, closed>>

Waiting == {line[i] : i \in DOMAIN line}
Fresh(j) == j \notin Waiting /\ outcome[j] = "none"

Init ==
  /\ line = <<>>
  /\ outcome = [j \in Jobs |-> "none"]
  /\ closed = FALSE

Accept(j) ==
  /\ ~closed
  /\ Fresh(j)
  /\ Len(line) < Capacity
  /\ line' = Append(line, j)
  /\ UNCHANGED <<outcome, closed>>

\* A job may be turned away at any time: it is closed, or places are taken.
Refuse(j) ==
  /\ Fresh(j)
  /\ outcome' = [outcome EXCEPT ![j] = "unavailable"]
  /\ UNCHANGED <<line, closed>>

\* The oldest job gets its verdict.
AnswerNext ==
  /\ line # <<>>
  /\ outcome[Head(line)] = "none"
  /\ \E verdict \in Verdicts[Head(line)] :
       outcome' = [outcome EXCEPT ![Head(line)] = verdict]
  /\ line' = Tail(line)
  /\ UNCHANGED closed

\* The first `kept` jobs stay in line, the others are turned away.
Close ==
  /\ \E kept \in 0..Len(line) :
       /\ line' = SubSeq(line, 1, kept)
       /\ outcome' = [j \in Jobs |-> IF \E i \in kept + 1 .. Len(line) : line[i] = j
                                     THEN "unavailable" ELSE outcome[j]]
  /\ closed' = TRUE

Next ==
  \/ \E j \in Jobs : Accept(j) \/ Refuse(j)
  \/ AnswerNext
  \/ Close

Spec == Init /\ [][Next]_serviceVars
=============================================================================
