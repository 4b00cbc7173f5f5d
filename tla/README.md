# A verification project for dohnuts.cpp

dohnuts.cpp answers typed decisions (`choice`, `score`, `noul`) with one forward
pass of a language model through llama.cpp. This directory holds TLA+ models of
the parts where a mistake would be quiet (a caller served another caller's
decisions, a logit read over the wrong prompt, an answer naming the wrong
option), the TLC configurations that check them on small instances, and proofs
checked by TLAPS.

## 1. Inventory of the system

| part | source | state it keeps | operations |
|---|---|---|---|
| HTTP server | `src/src/http.cpp` | `queue`, `pending`, `stopping`, `batch_id`, one promise per job, the dispatch thread | `submit`, `dispatch`, `execute`, `stop`, destructor, `serve_http` and its monitor |
| HTTP routing | `src/src/http.cpp` | `questions` of one request | pre-routing, routes, `evaluate`, `validate`, error handler |
| engine | `src/src/engine.cpp` | llama memory of 8 sequences, checkpoint cache, image cache | `score`, `decode_pass`, `decode_image_group` |
| checkpoint cache | `src/include/dohnuts/prefix_cache.hpp` | an LRU list with a byte count | `get`, `put`, `drop_front` |
| side engine, runner | `src/src/side.cpp`, `src/src/side/runner.cpp` | llama memory, `offset`, checkpoint cache, the open batch | `predict`, `decode`, `begin_batch`, `select_row`, `end_batch`, `logits_at`, `embeddings_at`, `decode_canvas`, `decode_shared` |
| predictor | `src/src/protocol.cpp` | slots and labels of one call | `render_question`, `predict`, `calibrate_answer` |
| side profiles | `src/src/side/*.cpp` | label tokens, heads, temperatures (constant) | `plan`, `plan_request`, `score`, `answer`, `native` |
| official interop | `src/src/side/official.cpp` | llama memory, `task_scores` | `predict`, `readout_sequential`, `decode_shared` |
| command line, profile names | `main.cpp`, `profile.cpp` | options, profile, the input line | `main`, `profile_from_string`, set-up of a backend |
| platform, scripts | `sys.cpp`, `scripts/` | none | |

How they interact: a handler thread of cpp-httplib parses and validates a body
and calls `submit()`, which queues a job under the mutex, notifies the dispatcher
and blocks on the job's future. The one dispatch thread gathers jobs into a batch
and calls the predictor callback, `predictor::predict` or `side_engine::predict`;
everything below the callback runs on that thread alone. The predictor plans
rows, the engine or runner decodes them over one llama context whose memory and
caches outlive the call, the profile turns what was read into an answer, and
`execute()` cuts the results into one reply per job.

What is hard, and where:

* **Threads** (http): handlers, the dispatcher and the two callers of `stop()`, the
  monitor and the destructor, share a queue, a counter and one condition variable. Correct means:
  each accepted call answered exactly once with its own results, a counter that
  agrees with the queue, no lost wakeup, a clean end.
* **What one call leaves for the next** (engine, side): the memory, the `offset`,
  the open batch and the caches survive failures. Correct means: whatever came
  before, a logit depends on the row's own prompt.
* **Index arithmetic** (engine, side, official): shared prefixes, markers,
  ordinals of outputs, offsets into a restored row, slices of scores.
* **Limits** (prompts, routes): what is cut to a token limit, and when; what is
  counted against `max_questions`. Correct means: a row is decided over its whole
  question, and a job always fits a batch.
* **Failure seen from outside** (routes, command line): which status or line a
  failure becomes, and whose fault it says it is.
* **Meaning** (predictor, profiles): options are reordered, labelled, scored in
  one or several rows, and named again. Correct means: the option the model
  decided on is the one the answer names.

`PROJECT.json` lists every hazard at its line with the properties that cover it.

## 2. Modules

| module | models | kind |
|---|---|---|
| `DecisionService` | what the server promises: a line of accepted jobs answered in order until it closes | abstract specification |
| `HttpServer` | `http.cpp`, one action per critical section or step of a thread | detailed specification; implements `DecisionService` |
| `HttpServerProofs` | theorems about `HttpServer`, the refinement of `DecisionService` included | TLAPS |
| `Routes` | handlers of `http.cpp`: pre-routing, routes, `evaluate`, `validate`, catch clauses | composes the abstract `DecisionService` |
| `RoutesProofs` | theorems about `Routes` | TLAPS |
| `Predictor` | what the server and the command line rely on of a `predict()` | abstract specification |
| `PrefixCache` | `prefix_cache.hpp` as operators on a record | used by the two below |
| `Engine` | `engine.cpp` | sequential, with failures |
| `SideEngine` | `side.cpp` and `runner.cpp` | sequential, with failures; implements `Predictor` |
| `Official` | `official.cpp` and `decode_shared()` of `runner.cpp` | sequential, with failures; implements `Predictor` |
| `Prompts` | `plan()` of the eight side profiles | operators |
| `Profiles` | `SideEngine` serving the rows of `Prompts` | composition |
| `Decisions` | `protocol.cpp` and options, labels and answers of the profiles | sequential |
| `CommandLine` | `main.cpp`, `profile.cpp`, set-up in `side.cpp` | composes the abstract `Predictor` |
| `EngineProofs`, `OfficialProofs`, `CommandLineProofs`, `DecisionsProofs` | theorems about these | TLAPS |
| `SideEngineProofs` | theorems about `SideEngine` with any rows, then about `Profiles` with those of `Prompts` | TLAPS |
| `Lemmas` | lemmas about sums, sequences, concatenation, minima and the cache | TLAPS |
| `MC...` | values of the constants | TLC |

How they fit together, from the outside in:

    CommandLine --calls--> Predictor <==implements== SideEngine, Official
        |                                                |
        | --server                             Profiles extends SideEngine
        v                                      with the rows of Prompts
    HttpServer ==implements==> DecisionService <--submits to-- Routes

`HttpServer` assumes that every job has at least one question and fits a batch;
`JobsFit` of `RoutesProofs` proves it of the jobs `Routes` submits. `HttpServer`
and `CommandLine` call any `predict()` that keeps the contract of `Predictor`: all
results in order or one exception, an input error only with a reason in the input,
and an end to every call.

### HttpServer

A job is an HTTP request past `validate()`; it weighs `Questions[j]`, brings
`Requests[j]` request objects, and has a `Flaw` the predictor will object to.
Each critical section is one action; the gathering loop, which holds the mutex
over several steps and gives it up in `wait_until`, is modelled step by step
(`StartGathering`, `Take`, `CloseBatch`, `WaitForMore`, then a notify, `TimeOut`
or `SpuriousWake`, and `Rejoin`). `changed` is modelled by the state of the
sleeper: a notify moves a sleeping dispatcher on and is lost otherwise, as
with a real condition variable. `execute()` is `BeginExecute`, `Concat`,
`PredictReturns`, `PredictThrows`, `Fulfil` and `Fail`; `solo` and `next` stand for the recursion
that retries the jobs alone. Time is abstract: the deadline of a batch may pass at any moment
once it is gathering. The clock, the JSON and the sockets are left out; a place
in the thread pool is taken from the moment a request is read to its response.

### Engine, PrefixCache, SideEngine

A hidden state or logit depends on exactly the tokens its sequence has read, so
the memory holds, per sequence, what it has read, and a logit *is* the context it
was read over. `ResultsOwn` and `ReadsOwn` then say that this context is the row's
own prompt up to the position meant. Any call into llama.cpp or mtmd may fail; a
restore may fail after writing anything into sequence 0. A checkpoint is the
content of sequence 0 filed under its tokens, and a token stands for one unit of
its size.

The steps of `Engine` are those of one pass: `BeginGroup` (split off up to
`MaxSeqs` rows and compute the shared prefix), `Restore`/`RestoreFails`/
`RestoreMisses`, `DecodePrefix`, `Share`, `DecodeSuffixes`, `ReadStates`, and for
images `FindImage`, `DecodeImage`, `DecodeSharedTail`, `DecodeTail`. In
`SideEngine` a request is planned (`PlanRequest`), perhaps batched (`BeginBatch`,
`SelectRow`), its rows decoded (`BeginRow`, `Restore`..., `DecodePrefix`,
`DecodeRest`) and read (`ScoreRow`), and every exception goes through `Unwind`.

A row of jad is a canvas: `DecodeCanvas` decodes it whole, with attention in both
directions, so a reading of it depends on all of the row.

### Official

A task is a variant of a question: its tokens, and what is read of them (a label at
the last token, or a pointer and markers). `FillTasks` decides between the batch
(`DecodeShared`) and one decode per task (`DecodeTask`, `ReadTask`). Outputs are
flagged token by token and copied back by the order of flagging, so the model keeps
two sequences apart: the slots in the order `decode_shared()` remembers them, and the
outputs in the order llama holds them. `AnswerRequest` cuts the scores by
counting variants. Prompts and answer formats come from code of the llama.cpp server
that is not in the repository.

### Prompts and Profiles

A token is `<<kind, question, option, index>>`: a word says whose it is and which one,
and a mark (`box_end`, `answer`, ...) stands for a piece of a template. The profiles
differ in the order of the parts and in what they cut: kev and neohorsejev the state
and, neohorsejev, the finished row; decider and thisthat the state; jet the whole
prompt. `Profiles` serves these rows with `SideEngine`, so a reading is a
sequence of such tokens and says which words of which question it has seen.

### Routes

One process per client runs its handler: `Arrive`, the pre-routing handler
(`AnswerPreflight`, `TurnAway`), the library's refusal of a large body, `Inform`,
`MissRoute` or `Infer`, then `evaluate()`: `RefuseValue` or `Parse`, per request of the
body `RefuseItem` or `CountItem` with the unsigned difference of `validate()`, `Submit`,
and `Answer`. An exception is a class; the catch clauses are a sequence searched
in order. Below is `DecisionService`, whose steps interleave with the handlers'.

### CommandLine

A *world* is what a process finds: the build, the metadata file, the model, the
input lines. `TakeSwitch`, `TakeValue`, `RefuseValue` and `ShowUsage` read arguments;
`StopEarly` and `Choose` are the checks of `main()` in order; `Load` sets the
context up for the profile; `SkipLine`, `RefuseLine`, `RefuseCutLine`, `AskPredictor`, `Predict` and
`WriteResults` are the loop over the lines, around a `Predictor` that may
return, refuse or fail.

### Decisions

Every question has a *verdict*, the option a model that is sure decides on; the
model puts its probability on the label this option is shown under. A row records
the labels shown, the labels (or markers) read and the option wanted; where the
wanted label is not among those read, any option may win. `PlanQuestion` plans one
question, `ScoreRow` scores one row, `AnswerCall` (dohnuts) and `AnswerRequest`
(side profiles) assemble answers. Levels whose keys spell the same number may come
in any order, since `std::sort` keeps no promise about them: `Orders` is the set
of results it may have. The tokenizer enters through the set of letter
pairs it encodes as one token.

## 3. Runs

| run | question | bounds |
|---|---|---|
| `http_core` | all safety properties and refinement of `DecisionService` | 4 jobs, 3 handlers, limits 4 and 3 |
| `http_live` | every call answered, a signal ends the process | 3 jobs, 2 handlers, limits 2 and 2 |
| `http_late_errors` | violated: the comment at `http.cpp:196` | 2 jobs |
| `routes` | what is admitted, what may be retried, what a status says | 2 clients, limit 3, bodies of up to 2 requests, a service with one place |
| `engine_core` | all safety properties of the engine | 2 sequences, budget 7, checkpoints of 5 tokens, 2 images, calls in any order |
| `engine_pass_width` | violated: the comment at `engine.hpp:22` | as above |
| `side_engine` | a row reads what it should in every set-up, and is decided over its own question; implements `Predictor`, every call ends | six set-ups, 1 to 3 sequences, budget 24, checkpoints of 8 tokens; prompts of up to 3 questions, states below and over the limits; calls of 1 and 2 requests |
| `official` | answers are made of their own variants' scores, with and without batches; implements `Predictor` | up to 4 tasks, 3 sequences, budget 5 |
| `official_budget` | violated: the comment at `main.cpp:39` | as above |
| `decisions` | answers and legend follow the verdict, seven profiles | alphabet of 3, up to 5 options, up to 3 questions in 2 requests |
| `decisions_jpt_noul` | violated: `noul` of the jpt profile | as above |
| `command_line` | what runs has the context its readout needs; lines out follow lines in; success is complete | every profile by flag, file and model, with and without head, file, modes; inputs of up to 3 lines of 8 kinds |

`side_engine` and `official` start in one of several *set-ups* and keep it. Three of the
side engine serve prompts: decider, thisthat and tev1 with batches, kev and neohorsejev, and
jad. Three serve rows no profile need have planned (alike to the last token, of different
states in one request, without a state, over the budget): one by one with logits at a slot,
with `--shared-prefix` and hidden states at several positions, and as canvases. `official` runs
with `--shared-prefix` given and not. `--no-batching` of the server has no
run: the theorems hold for either value of `Batching`.

Why the bounds are enough to be interesting. *http*: three of the four jobs
overfill a batch, so closing by size, by a job that does not fit, by deadline and
by `stop()` all happen; the wide job has two requests, so slices have different
lengths; the flawed ones fail inside shared batches and alone; three pending
places refuse the fourth call. *engine and side*: prompts share none, one or two
units of the alignment; the caches are smaller than the working set, so they
evict; there are more rows in the largest call than sequences; calls follow each
other without bound, so a failed call is followed by every other. Two sequences
stand for eight, 2 for the alignment of 64; a decode that fails may have written
nothing or one token of what it had to (`Partial`; the proofs hold for any number). *decisions*: the pairs known to
the tokenizer leave a gap, as in a real vocabulary, and options run past it.
*prompts*: two states, one past `max_state_tokens` and past the budget of the runner; one question
past `max_branch_tokens`;
rows with and without a prefix long enough to keep; the cache holds fewer prefixes
than there are. *official*: prompts that share two tokens, none, or all but the last;
more tasks than sequences; one prompt over the budget; joint, media and unparsable
requests among good ones. *routes*: bodies below, at and over the limit, in one
request and summed over two; each method on each path with and without the key;
one place in the service, so the second client is refused. *command line*: the
worlds differ in every field `main()` asks about, and the inputs that are read to the end hold
every kind of line before and after every other.

`violation` runs check a sentence of the repository that the code does not keep;
`PROJECT.json` ("findings") quotes it:

1. A late error that is not an input exception, such as an image that cannot be
   decoded, fails every job of the batch (`http.cpp:197`).
2. One `llama_process()` may get far more tokens than `n_batch` (`engine.cpp:594`).
3. With `--shared-prefix` the official profile answers prompts over the token budget
   (`official.cpp:185`), which it refuses without.
4. The jpt profile lists yes before no, and `noul` becomes the probability of no
   (`jpt.cpp:138`, `side.cpp:31`).

The models also show where the code goes another way than a comment or a sibling of
it, without a run of its own. The definition named has the code's behaviour, and the
properties are stated so that they do not claim the opposite:

* More rows than sequences are refused under `--shared-prefix` (`runner.cpp:228`), while
  `side.cpp:190` speaks of falling back to one decode per row: `Refusable` counts them.
* jet and jpt show every pair of letters in turn after Z and read those the tokenizer has as
  one token; the comment at `jpt.cpp:95` and `jet.cpp:26` says that the two orders mirror each
  other, which they do up to the first pair it lacks: `ShownLabel`, and `Told` of `DecisionsProofs`.
* jet shows digits or yes and no and reads letters (`jet.cpp:146`), and cuts the whole
  prompt where the others cut the state, so that over a long state it answers without the
  question (`jet.cpp:144`): `ShownLabel` and `JetRow`. The runs `decisions` and
  `side_engine` serve the other profiles.
* neohorsejev cuts a row after its readout is placed, so a question longer than
  `max_branch_tokens` would be read behind the end of its row (`neohorsejev.cpp:250`):
  `NeohorsejevRow`. `logits_at()` and `embeddings_at()` refuse, and the request fails. One of the
  questions of `side_engine` is that long: `AsksItsQuestion` and `BoxesRead` say that
  no row is answered from less than its question.
* The error line for an input line that is not JSON may quote half a character and not be
  writable; the process then ends with status 1 and the lines after it are not answered
  (`main.cpp:212`): `RefuseCutLine`. `OutputFollowsInput` admits it, since the status is not that
  of a success.
* A caller is answered before its place is given back (`http.cpp:230`), so that a call can be
  refused when nobody waits: `Fulfil`, then `Release`. `PendingAccounts` counts such calls as pending.
* decider, thisthat and tev1 take a list that repeats a label, and give the probability of its
  last occurrence (`side.cpp:25`): `ListedProbabilityIsOwn` claims nothing of them there.
* Whether a new official type read at markers gets a context with hidden states depends
  on its name (`side.cpp:107`): `Embeds`. The worlds have the types the code names.
* A metadata file with an unknown profile ends the process (`profile.cpp:18`), where
  `main.cpp:140` lets an unknown one mean dohnuts: `Checks`.

The type invariants of `HttpServer` and `Routes` are proved for every instance and not
checked again by a run; those of `Engine` and `SideEngine` are checked and proved.

Every property of a passing run has a mutant in `PROJECT.json`: a definition changed
the way a slip in the code would change it, under which the property fails. They
are the `_`-suffixed operators of the modules, and no specification uses them.

### Fairness

Three specifications assume fairness, always weak. `SideEngine!FairSpec` and
`Official!Spec` say that the one thread inside `predict()` runs on (`Serving`):
it waits for nothing but the device, whose calls return. Under it `Contract` includes that
every call ends, the leads-to of `Predictor`. Nobody has to make a call.

`http_live` assumes weak fairness per thread: the code's threads run
when they can. Handlers proceed once they have read a request; the dispatcher,
the predictor (assumed to return or throw), the deadline, threads inside `stop()` and
the main thread go on. Nothing is assumed of clients, signals, the listener
or spurious wakeups. Weak fairness suffices although threads compete for the mutex:
the dispatcher keeps it over several steps only while it gathers, and gathers
finitely many jobs.

## 4. Proofs

Each module below proves its properties for every value of the constants that the
named assumption of the component admits. The argument is the same everywhere: an
inductive invariant (`IInv`, `RoutesInv`), one lemma per action or per part that an
action can disturb, one lemma that puts the cases together, and the property from the
invariant. TLC finds each of them true on the run of its component (the
sum in `BlameInv`, which it cannot enumerate, written as a fold). The
theorems and their lemmas use no fact that is not proved here or in the library.

### HttpServer

For every set of jobs, every weight and flaw, every limit and number of handlers
(positive limits, no job heavier than a batch, which is what the constructor and
`validate()` ensure):

| theorem | states |
|---|---|
| `Typing` | `[]TypeOK` |
| `Accounting` | `[]PendingAccounts` |
| `NoJobLost` | `[]HeldOnce` |
| `RepliesAreOwn` | `[]OwnResults` |
| `InputErrorsIsolated` | `[]InputErrorsAreOwn` |
| `WakeupsArrive` | `[]NoLostWakeup` |
| `ShutsDownClean` | `[]CleanShutdown` |
| `BatchesKeepLimits` | `[]BatchWithinLimits` |
| `RepliesApart` | `[]RangesDisjoint` |
| `ImplementsService` | `Spec => ServiceSpec` |

None of these properties is inductive by itself. `IInv` adds what they lean on:

* `WorkerInv`: what the dispatcher's place in the code says about its variables
  (the batch is empty while it sleeps, not exhausted while `execute()` works on it,
  exhausted when it is released);
* `LayoutInv`: the requests concatenated so far are those of the jobs copied, one job
  after the other, and the offset is where those of the next job to answer begin;
* `FailureInv`: an input error is handed out only to a job that is alone in its call and
  has that flaw; a call that returned results held no job with a flaw;
* `HeldInv`: the jobs selected and queued are distinct, have no answer, and their
  handlers wait; and conversely each waiting handler's job is there. `HeldOnce`
  states it over the concatenation, `HeldInv` in three parts that steps disturb
  separately;
* `GatherInv`: `questions` is the sum of the weights of the batch, which is where the
  limit is compared;
* `RangeInv`: every range handed out so far belongs to an earlier batch or ends before the
  offset of this one, so the next range cannot meet it;
* `HostInv`: after `stop()` nothing is queued, and before `main` joins the threads the
  listener is closed and no handler is busy.

The refinement maps the line of the service to the jobs selected and queued, and shows
that a step either answers the head of the line, appends to it, cuts it (`stop()`),
refuses a call, or leaves it alone.

### Routes

For every set of clients and requests, every limit, width of `size_t` and capacity:

| theorem | states |
|---|---|
| `RoutesTyping` | `[]TypeOK` |
| `Gatekeeping` | `[]OnlyUnlockedJoin` |
| `JobsFit` | `[]AdmittedFit` |
| `RetriesAreSafe` | `[]RetryIsSafe` |
| `BlameIsRight` | `[]StatusBlamesRightly` |

What the service holds says nothing about the request by itself, so `RoutesInv` adds
what a handler knows at its place in the code: past routing the request is one that
may infer and bore the key (`ClearedInv`), past the first request of its body
something was counted, never more than the limit (`CountInv`, where the
unsigned difference is shown not to wrap), and only handlers past `validate()` have a job in
the service (`AdmittedInv`). `BlameInv` adds what `validate()` has found so far: of the
requests it is past, none has a flaw, and `questions` is their sum (`SoundInv`).
`CaughtStatus` works out which catch clause takes which exception.

### Engine and SideEngine

The assumptions are about types and positive limits, that a call has a row, that no
row position is listed twice, and that an image is not a token. `begin_batch()` does not check
the third and a position listed twice would shift every later reading; it is what the profiles
keep, and TLC evaluates it on the rows they plan for the requests of the run `side_engine`.

| theorem of `EngineProofs` | states |
|---|---|
| `TypeCorrect` | `[]TypeOK` |
| `ResultsAreOwn` | `[]ResultsOwn` |
| `RefusedForFlaws` | `[]OnlyFlawsReject` |
| `CheckpointsStayExact` | `[]CheckpointsExact` |
| `ImagesStayHeld` | `[]ImagesHeld` |
| `SequencesFit` | `[]ContextFits` |

| theorem of `SideEngineProofs` | states |
|---|---|
| `TypeCorrect` | `[]TypeOK` |
| `ReadsAreOwn` | `[]ReadsOwn` |
| `CheckpointsStayExact` | `[]CheckpointsExact` |
| `BatchesFit` | `[]BatchFits` |
| `BatchesClosed` | `[]BatchClosed` |
| `ImplementsPromise` | `Spec => SafeContract` |

Both lean on `Lemmas`: `Touch`, `DropFront` and `Put` keep a cache exact
(a state is what its tokens decode to, no key twice, the byte count is the sum of the
sizes and within the limit), whatever the sizes.

In `Engine`, `MemoryInv` says phase by phase what each of the sequences holds: nothing, the shared
prefix, the whole row, or the image with or without the tail. It is the heart of `ResultsOwn`: a state
is read only in phases where the memory is the row itself. `PassInv` says which
branches of the pass a phase belongs to, and `CacheInv` that a prefix is put into the cache only when it is not
there. A device that fails ends the pass in the phase "idle", of which `MemoryInv` asks nothing: the next pass
clears the memory first. `ContextFits` is stated of every state, the ones after a failed
decode included, so `DeviceFails` writes a part of what the decode was to write
(`Due`) and nothing else.

In `SideEngine`, a batch that is open is the one `begin_batch()` builds for the rows of this very request
(`BatchInv`), so that its ordinals are known in every later phase; without a batch,
sequence 0 holds the row up to what was decoded and `offset` is what the restore left out
(`DecodeInv`), and all other sequences are empty once a row was decoded (`MemoryInv`). The lemmas
on ranks (`RankOnce`, `RankShifted`) count the outputs flagged before a position, in the row and
before the row. A call may end with an internal error only if one of its rows is not read within
itself (`Misread`), as long questions of neohorsejev are; `ImplementsPromise` takes that for a
failure of the device and any other internal error for a breach of the contract.

### Prompts and Profiles

For any requests, limits and number of questions, where `CallsPlanned` holds: every call is
planned by one of the profiles its set-up may be for, if it is for any, and the set-up hands out hidden states exactly
for kev and neohorsejev and canvases for jad, as `side.cpp` sets the context up. TLC evaluates it for the calls
of the run. `RequestsAssumption` types the requests.

| theorem of `SideEngineProofs` | states |
|---|---|
| `ReadsInside` | `[](IInv /\ ReadInside)` |
| `QuestionsAsked` | `[](ChatsFit => AsksItsQuestion)` |
| `SinglePassMatched` | `[]MatchesSinglePass` |
| `BoxesAreRead` | `[]BoxesRead` |
| `PrefixesAreState` | `[](StateFits => PrefixIsState)` |
| `ProfilesHaveOutputs` | `[](setup.kinds # {} /\ BranchesFit(setup) => error # "internal")` |

`ReadsAreOwn` gives what a reading is: the tokens of its row up to the position asked for. It does not say
that the row is that long, and for neohorsejev it need not be, so the invariant gains
`ReadInside`: what was read lies within its row, because a readout behind the end throws before it is
recorded. The rest is about the rows. A row is a concatenation of pieces, and a piece (`Piece`)
is injective and holds tokens of some kinds about one question; pieces whose kinds or questions differ
can be put one after the other (`Follows`), which is how `AskPiece`, `BlockPiece` and one lemma per profile
(`DeciderRow`, `ThisthatRows`, `ChatRows`, `KevRows`, `NeohorsejevRows`) come to "the whole question, once,
after a beginning of the state".

Three conditions name what the limits have to be for a profile that cuts more than the state. `ChatsFit`: the
prompts of jet are within its `max_state_tokens`, or its cut takes the question away. `BranchesFit`: the rows
of neohorsejev are within `max_branch_tokens`, or a request ends with an internal error. `StateFits`:
that limit is not below `max_state_tokens`, as by default, or the row is cut within its
prefix. Each is true of every set-up for the other profiles. Under `BranchesFit` no row is misread, so
`ProfilesHaveOutputs` rules internal errors out.

### Official

| theorem | states |
|---|---|
| `AnswersAreOwn` | `[]AnswersOwn` |
| `ImplementsPromise` | `Spec => SafeContract` |

`ScoresInv` says that the scores gathered are those of the first tasks, each from its
own prompt, and `OutputInv` the same of the requests answered. The step that matters is
`DecodeShared`: the outputs llama holds, in the order of flagging, and the slots
`decode_shared()` remembers are two concatenations of pieces, one per token,
and `OrderMeetsFlagged` shows that they correspond one to one. They do because a task reads
no position twice (`IsTask`): `decode_shared()` flags a position once and remembers it once per listing, so a
position listed twice would shift every later score. The prompts come from outside the repository
and the code does not check this.

### CommandLine

| theorem | states |
|---|---|
| `LinesAnswered` | `[]OutputFollowsInput` |
| `ReadoutGiven` | `TypesNamed` implies `[]ReadoutAvailable` |

`LinesInv` relates what was written to the number of lines, but the empty ones, among
those read (`LinesNumbered`), `PredictInv` keeps the call in progress the requests of the line
just read, and `SuccessInv` says what ends well. `BackendInv` keeps the context as `Load` made it.
`WorldsAssumption` says that a line that is no array is one request. `TypesNamed` says that models read at
markers have a type the code names, which a new official type would not keep; it is
evaluated for the worlds of the run.

### Decisions

For any calls, number of letters, vocabulary and limits on options; `DecisionsAssumption` says that the
loader found as many labels as a profile has options, as `build_single_token_labels()` makes sure.

| theorem | states |
|---|---|
| `DecisionsIInv` | `[]IInv` |
| `DecisionsAnswersFollow` | `[](AllStraight => AnswersFollow)` |
| `DecisionsLegend` | `[](AllStraight => LegendNamesVerdict)` |
| `DecisionsCharged` | `[]ChargedForOwnRows` |
| `DecisionsListed` | `[]ListedProbabilityIsOwn` |

None of them says anything before an answer is given, so `IInv` says what a planned entry stands for (`Made`):
a question of the call, an order its options may have, and its rows, which lie together from `first` on.
`EveryDueHasEntry` and `OneEntryEach` say that the questions planned so far have one entry each, which is why
an answer is found under its id and is no other question's; for a side profile the number
of rows is the sum of the counts of the questions planned (`PlanInv`), for dohnuts every request has an empty
response until all are planned (`ReservedInv`). `WinnersInv` keeps each winner
within what its row lets the model prefer, and `Heard` makes that the option wanted: no label is on the list
twice (`LabelsDistinct`), and the label shown is the one read. `LevelCounted` is the arithmetic of a score given
as an object: the place of a level in any sorted order is at least the number of levels below it, and less than
that number plus the levels it ties with. `AllStraight` is true of every call of seven profiles.
Of jet and jpt it leaves out the questions with labels read other than shown (`Told`), and the noul of jpt,
which `decisions_jpt_noul` refutes.

### Lemmas

`Lemmas` proves, from the definitions of the community modules' folds, what
sums over intervals and concatenations of sequences come to: the sum over a longer interval,
where in a concatenation the pieces lie, and which piece a position belongs to. Library
theorems that take an operator as a parameter cannot be used, so the inductions are
by a least counterexample (`LeastNatural`).

### Only model-checked

Liveness and every use of ENABLED are beyond the prover: `EveryCallAnswered`, the end of
every call in `Contract` (its safety part is `SafeContract`, proved), the exit after a signal (`SignalStops`).
Every invariant of a passing run is stated by a theorem. The four `violation` runs are
counterexamples, which need no proof.

## 5. What is not modelled, and why

* Headers, CORS values, texts of messages, the JSON of `/health` and `/v1/models`:
  stateless, tested by example.
* Loading models, device selection, thread counts, `sys.cpp`: calls into llama.cpp and
  the platform. Whether a load succeeds is a fact of the world in `CommandLine`.
* Numbers: softmax, temperatures, rounding, entropy, the heads and native statistics.
  A row has a winner instead.
* Wording of prompts and the tokenizer: a text is its length and whose it is.
* The llama.cpp server code behind the official profile, which is not in the repository.
* The refusal by the thread pool of cpp-httplib, which answers when all its threads are taken.
* The offline scripts.

## 6. Plan

Done, in this order: `HttpServer` with its abstract service, its proofs and the
refinement; `PrefixCache` and `Engine`; `SideEngine`; `Decisions`; `Predictor` with the
refinements of `SideEngine` and `Official`; `Prompts` and `Profiles`; `CommandLine`;
`Routes` and its proofs; the proofs of the cache, `SideEngine`, `Engine`, `Official` and
`CommandLine`; those of `Profiles` and `Decisions`.

What could be added:

1. The heads and native statistics of the profiles, which turn numbers into numbers and are left out.
2. The joins of the models as theorems: `HttpServer` and `CommandLine` around the calls of `Predictor`
   are checked and proved against its contract, not composed with `SideEngine` step by step.
