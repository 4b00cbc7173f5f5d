------------------------------ MODULE Predictor ------------------------------
(***************************************************************************)
(* What the HTTP server and the command line rely on of the predict() they *)
(* are given, whatever profile is behind it: a call of some requests ends  *)
(* with the results of all of them, in their order, or with an exception   *)
(* and no result at all; an exception that blames the input only if one of *)
(* the requests can be blamed; and what was called before, and how it      *)
(* ended, makes no difference.  One call at a time.                        *)
(***************************************************************************)
EXTENDS Naturals, Sequences

CONSTANTS
  Calls,          \* sequences of requests
  Results(_),     \* the results of a request
  Refusable(_)    \* the request may be refused as an input error

VARIABLES
  call,     \* the call in progress, or the last one
  outcome   \* [status, results]: how it stands

predictorVars == <<call, outcome>>

Outcome(status, results) == [status |-> status, results |-> results]
Ended(status) == outcome' = Outcome(status, <<>>) /\ UNCHANGED call

Init == call = <<>> /\ outcome = Outcome("none", <<>>)

Begin(c) ==
  /\ outcome.status # "pending"
  /\ call' = c
  /\ outcome' = Outcome("pending", <<>>)

Pending == outcome.status = "pending"

Return ==
  /\ Pending
  /\ outcome' = Outcome("results", [i \in DOMAIN call |-> Results(call[i])])
  /\ UNCHANGED call

Refuse == Pending /\ (\E i \in DOMAIN call : Refusable(call[i])) /\ Ended("input")

\* The device or the library under it fails.
Fail == Pending /\ Ended("device")

Next == Return \/ Refuse \/ Fail \/ (~Pending /\ \E c \in Calls : Begin(c))

\* What a predict() may do, and that it comes back: callers wait without a timeout.
SafePredictor == Init /\ [][Next]_predictorVars

PredictorSpec == SafePredictor /\ (Pending ~> ~Pending)
=============================================================================
