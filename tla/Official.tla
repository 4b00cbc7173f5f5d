------------------------------- MODULE Official -------------------------------
(***************************************************************************)
(* The official profile: official_engine::predict() of src/src/side/       *)
(* official.cpp over decode() and decode_shared() of src/src/side/         *)
(* runner.cpp.  Every variant of every question of a request is a task: a  *)
(* prompt and what is read of it.  With --shared-prefix the tasks of a     *)
(* request are decoded in one batch; otherwise each is decoded whole.  The *)
(* answers are cut from the scores of the tasks by counting variants.      *)
(*                                                                         *)
(* What an output depends on stands for the output; positions count from   *)
(* 1.  Prompts and formats are made by the llama.cpp server's code, which  *)
(* is not in the repository: a task comes as it is.                        *)
(***************************************************************************)
EXTENDS Integers, SequencesExt, FiniteSetsExt

CONSTANTS
  Calls,         \* sequences of requests; a request is a sequence of questions,
                 \* a question a nonempty sequence of tasks [kind, ids, markers]
  SeqMax,        \* shared_prefix_max, which is also n_seq_max
  MaxLength      \* max_length, of the runner

Malformed == <<>>  \* a request the server's code cannot parse

\* plan_read(): the last token for labels; else the pointer, if any, and the markers.
Positions(task) == IF task.kind = "labels" THEN <<Len(task.ids)>> ELSE task.markers

Reads(task) == Range(Positions(task))

\* A task has tokens and reads different ones of them.
IsTask(task) ==
  /\ task.ids # <<>> /\ task.ids \in Seq(Range(task.ids))
  /\ Positions(task) \in Seq(1..Len(task.ids)) /\ IsInjective(Positions(task))

ASSUME OfficialAssumption ==
  /\ SeqMax \in Nat \ {0} /\ MaxLength \in Nat \ {0}
  /\ \A c \in Calls :
       /\ c # <<>> /\ c \in Seq(Range(c))
       /\ \A request \in Range(c) :
            /\ request \in Seq(Range(request))
            /\ \A question \in Range(request) :
                 /\ question # <<>> /\ question \in Seq(Range(question))
                 /\ \A task \in Range(question) : IsTask(task)

VARIABLES
  sharing, \* --shared-prefix, for a model whose prompts can be shared
  call,    \* the requests of the call in progress, or of the last one
  at,      \* the request being served
  phase,
  scores,  \* task_scores: what the score of each task read so far depends on
  output,  \* the answers of the requests served, per question and variant
  error,   \* how the last call ended
  memory,  \* [0..SeqMax - 1 -> what the sequence has read]
  width    \* tokens in the last llama_process()

vars == <<sharing, call, at, phase, scores, output, error, memory, width>>

Request == IF at \in DOMAIN call THEN call[at] ELSE Malformed
Tasks == FlattenSeq(Request)
Task == Tasks[Len(scores) + 1]
Cleared == [s \in 0..SeqMax - 1 |-> <<>>]

Init ==
  /\ sharing \in BOOLEAN
  /\ call = <<>> /\ at = 1 /\ phase = "idle"
  /\ scores = <<>> /\ output = <<>> /\ error = "none"
  /\ memory = Cleared /\ width = 0

-----------------------------------------------------------------------------
(***************************************************************************)
(* The prefix a request's tasks may share.                                 *)
(***************************************************************************)
\* shared_prefix(), of two tasks or more: short of every task and of every read.
SharedLength(tasks) ==
  Max({n \in 0..Len(tasks[1].ids) - 1 :
         \A t \in Range(tasks) :
           /\ n < Len(t.ids)
           /\ \A p \in Reads(t) : n < p
           /\ SubSeq(t.ids, 1, n) = SubSeq(tasks[1].ids, 1, n)})

Sharable ==
  /\ sharing
  /\ Len(Tasks) > 1 /\ Len(Tasks) <= SeqMax
  /\ SharedLength(Tasks) > 0

Unsupported(task) == task.kind \in {"joint", "media"}

-----------------------------------------------------------------------------
(***************************************************************************)
(* official_engine::predict()                                              *)
(***************************************************************************)
Predict(c) ==
  /\ phase = "idle"
  /\ call' = c /\ at' = 1 /\ phase' = "request"
  /\ scores' = <<>> /\ output' = <<>> /\ error' = "none"
  /\ UNCHANGED <<sharing, memory, width>>

Return ==
  /\ phase = "request"
  /\ at > Len(call)
  /\ phase' = "idle"
  /\ UNCHANGED <<sharing, call, at, scores, output, error, memory, width>>

Throw(kind) ==
  /\ phase' = "idle"
  /\ error' = kind
  /\ UNCHANGED <<sharing, call, at, scores, output>>

\* parse_state() or parse_questions() does not take the request.
RejectRequest ==
  /\ phase = "request"
  /\ at <= Len(call) /\ Request = Malformed
  /\ Throw("input")
  /\ UNCHANGED <<memory, width>>

\* A task with media, while the tasks are filled.
RejectMedia ==
  /\ phase = "request"
  /\ at <= Len(call)
  /\ \E t \in Range(Tasks) : t.kind = "media"
  /\ Throw("unsupported")
  /\ UNCHANGED <<memory, width>>

FillTasks ==
  /\ phase = "request"
  /\ at <= Len(call) /\ Request # Malformed
  /\ \A t \in Range(Tasks) : t.kind # "media"
  /\ phase' = IF Sharable THEN "shared" ELSE "task"
  /\ UNCHANGED <<sharing, call, at, scores, output, error, memory, width>>

\* A joint decision head: no batch is planned, no task decoded.
RejectJoint ==
  /\ phase = "shared" \/ (phase = "task" /\ Len(scores) < Len(Tasks))
  /\ \E t \in IF phase = "shared" THEN Range(Tasks) ELSE {Task} : t.kind = "joint"
  /\ Throw("unsupported")
  /\ UNCHANGED <<memory, width>>

-----------------------------------------------------------------------------
(***************************************************************************)
(* readout_sequential()                                                    *)
(***************************************************************************)
WithinBudget(task) == Len(task.ids) <= MaxLength

RejectTask ==
  /\ phase = "task" /\ Len(scores) < Len(Tasks)
  /\ ~Unsupported(Task)
  /\ ~WithinBudget(Task)
  /\ Throw("input")
  /\ UNCHANGED <<memory, width>>

StartMemory == Cleared

DecodeTask ==
  /\ phase = "task" /\ Len(scores) < Len(Tasks)
  /\ ~Unsupported(Task)
  /\ WithinBudget(Task)
  /\ memory' = [StartMemory EXCEPT ![0] = @ \o Task.ids]
  /\ width' = Len(Task.ids)
  /\ phase' = "read"
  /\ UNCHANGED <<sharing, call, at, scores, output, error>>

\* What the outputs at some positions of a sequence depend on.
OutputsOf(sequence, positions) == [k \in DOMAIN positions |-> SubSeq(sequence, 1, positions[k])]

ReadTask ==
  /\ phase = "read"
  /\ scores' = Append(scores, OutputsOf(memory[0], Positions(Task)))
  /\ phase' = "task"
  /\ UNCHANGED <<sharing, call, at, output, error, memory, width>>

-----------------------------------------------------------------------------
(***************************************************************************)
(* decode_shared(): the prefix once, for every sequence, then the tails.   *)
(* Outputs are flagged as the tokens are added, task by task and token by  *)
(* token, and copied back in that order to (task, read) slots.             *)
(***************************************************************************)
SharedMemory(tasks, shared) ==
  [s \in DOMAIN memory |->
     IF s + 1 \in DOMAIN tasks
     THEN SubSeq(tasks[1].ids, 1, shared)
            \o SubSeq(tasks[s + 1].ids, shared + 1, Len(tasks[s + 1].ids))
     ELSE <<>>]

\* Mutant: slots in the order of the reads, the pointer first, not of the tokens.
Order_ByRead(tasks, shared) ==
  FlattenSeq([t \in DOMAIN tasks |->
    [k \in DOMAIN Positions(tasks[t]) |-> [task |-> t, read |-> k]]])

\* The slots (task, read) of the flagged tokens, in the order they are added.
Order(tasks, shared) ==
  FlattenSeq([t \in DOMAIN tasks |->
    FlattenSeq([i \in 1..Len(tasks[t].ids) - shared |->
      FlattenSeq([k \in DOMAIN Positions(tasks[t]) |->
        IF Positions(tasks[t])[k] = shared + i THEN <<[task |-> t, read |-> k]>> ELSE <<>>])])])

\* The tokens flagged, in the order llama keeps their outputs.
Flagged(tasks, shared) ==
  FlattenSeq([t \in DOMAIN tasks |->
    FlattenSeq([i \in 1..Len(tasks[t].ids) - shared |->
      IF shared + i \in Reads(tasks[t]) THEN <<[task |-> t, pos |-> shared + i]>> ELSE <<>>])])

\* The outputs, kept as the tokens flagged them, in the slots they are copied to; a slot
\* nothing was copied to is empty.
Copied(tasks, order, tokens, held) ==
  LET Slot(t, k) == {j \in DOMAIN order : order[j] = [task |-> t, read |-> k]}
  IN  [t \in DOMAIN tasks |->
         [k \in DOMAIN Positions(tasks[t]) |->
            IF Slot(t, k) = {} THEN <<>>
            ELSE LET token == tokens[Max(Slot(t, k))]
                 IN  SubSeq(held[token.task - 1], 1, token.pos)]]

DecodeShared ==
  /\ phase = "shared"
  /\ \A t \in Range(Tasks) : ~Unsupported(t)
  /\ \E tasks \in {Tasks}, shared \in {SharedLength(Tasks)} :
     \E order \in {Order(tasks, shared)}, tokens \in {Flagged(tasks, shared)} :
       /\ memory' = SharedMemory(tasks, shared)
       /\ scores' = Copied(tasks, order, tokens, SharedMemory(tasks, shared))
       /\ width' = FoldLeft(LAMBDA sum, t : sum + Len(t.ids) - shared, shared, tasks)
  /\ phase' = "task"
  /\ UNCHANGED <<sharing, call, at, output, error>>

\* llama_process() fails, or has no outputs to hand out.
DeviceFails ==
  /\ phase \in {"shared", "task", "read"}
  /\ \/ phase = "shared" /\ \A t \in Range(Tasks) : ~Unsupported(t)
     \/ phase = "task" /\ Len(scores) < Len(Tasks) /\ ~Unsupported(Task)
          /\ WithinBudget(Task)
     \/ phase = "read"
  /\ Throw("device")
  /\ \E s \in DOMAIN memory, n \in 0..1 :
       memory' = [Cleared EXCEPT ![s] = SubSeq(Tasks[1].ids, 1, n)]
  /\ UNCHANGED width

-----------------------------------------------------------------------------
\* Mutant: every question takes the scores from where the first one does.
FirstTask_First(request, q) == 1

\* The first task of a question: the variants of the questions before it are counted.
FirstTask(request, q) == 1 + Len(FlattenSeq(SubSeq(request, 1, q - 1)))

NoScores == <<>>

AnswerRequest ==
  /\ phase = "task"
  /\ Len(scores) >= Len(Tasks)
  /\ output' = Append(output,
                 [q \in DOMAIN Request |->
                    SubSeq(scores, FirstTask(Request, q),
                           FirstTask(Request, q) + Len(Request[q]) - 1)])
  /\ at' = at + 1
  /\ scores' = NoScores
  /\ phase' = "request"
  /\ UNCHANGED <<sharing, call, error, memory, width>>

Serving ==
  \/ Return \/ RejectRequest \/ RejectMedia \/ FillTasks \/ RejectJoint
  \/ RejectTask \/ DecodeTask \/ ReadTask
  \/ DecodeShared \/ DeviceFails \/ AnswerRequest

Next == Serving \/ \E c \in Calls : Predict(c)

\* The thread in predict() runs on.
Spec == Init /\ [][Next]_vars /\ WF_vars(Serving)

-----------------------------------------------------------------------------
\* The answers a request is to get: every variant scored over its own prompt.
Results(request) ==
  [q \in DOMAIN request |->
     [v \in DOMAIN request[q] |-> OutputsOf(request[q][v].ids, Positions(request[q][v]))]]

(***************************************************************************)
(* Every question gets the scores of its own variants, in their order, and *)
(* each score is read from the task's own prompt at its own positions,     *)
(* batched or not, whatever an earlier request, a refusal or a device      *)
(* failure has left in the memory.                                         *)
(***************************************************************************)
AnswersOwn == \A i \in DOMAIN output : output[i] = Results(call[i])

(***************************************************************************)
(* main.cpp calls --ctx the "per-sequence token budget": no prompt over it *)
(* is answered.  readout_sequential() keeps it; decode_shared() compares   *)
(* no prompt with it, so that with --shared-prefix one is.                 *)
(***************************************************************************)
BudgetPerSequence ==
  \A i \in DOMAIN output : \A q \in DOMAIN call[i] : \A t \in Range(call[i][q]) :
    Len(t.ids) <= MaxLength

(***************************************************************************)
(* The official profile keeps the contract of every predict(): all the     *)
(* answers or an exception, an input error only for a request that cannot  *)
(* be parsed or is over the budget, and every call comes back.             *)
(***************************************************************************)
Refusable(request) ==
  request = Malformed \/ \E t \in Range(FlattenSeq(request)) : Len(t.ids) > MaxLength

Promise == INSTANCE Predictor WITH
  outcome <- IF phase # "idle" THEN [status |-> "pending", results |-> <<>>]
             ELSE IF error = "input" THEN [status |-> "input", results |-> <<>>]
             ELSE IF error # "none" THEN [status |-> "device", results |-> <<>>]
             ELSE IF call = <<>> THEN [status |-> "none", results |-> <<>>]
             ELSE [status |-> "results", results |-> output]

Contract == Promise!PredictorSpec

\* Its part without liveness.
SafeContract == Promise!SafePredictor
=============================================================================
