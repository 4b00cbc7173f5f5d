----------------------------- MODULE HttpServer -----------------------------
(***************************************************************************)
(* The serving core of src/src/http.cpp: handler threads that submit jobs, *)
(* the one dispatch thread that gathers them into batches and executes     *)
(* them, the signal monitor and the main thread that stop the server.      *)
(*                                                                         *)
(* A job is one HTTP request to an inference route whose body has passed   *)
(* validate().  The mutex is modelled by letting every critical section be *)
(* one action; the only critical section made of several steps is the      *)
(* gathering loop, during which no other action that locks is enabled.     *)
(***************************************************************************)
EXTENDS Integers, FiniteSets, SequencesExt

CONSTANTS
  Jobs,        \* the HTTP requests of a run
  Questions,   \* [Jobs -> Nat]: questions of the job, as counted by validate()
  Requests,    \* [Jobs -> Nat]: request objects of the job's body
  Flaw,        \* [Jobs -> Flaws]: what the predictor objects to in the job
  MaxBatch,    \* options.max_batch_questions
  MaxPending,  \* options.max_pending_requests
  Batching,    \* options.batching
  Handlers,    \* threads of the cpp-httplib pool, one connection each
  Faulty       \* may the predictor fail on a job that has no flaw?

Flaws == {"none", "input", "internal"}

(***************************************************************************)
(* What the constructor (http.cpp:55-62) and validate() (235-256) leave    *)
(* possible: a job never exceeds the limit of a batch.                     *)
(***************************************************************************)
ASSUME JobsAssumption ==
  /\ Questions \in [Jobs -> Nat \ {0}]
  /\ Requests \in [Jobs -> Nat \ {0}]
  /\ Flaw \in [Jobs -> Flaws]
ASSUME LimitsAssumption ==
  /\ MaxBatch \in Nat \ {0}
  /\ MaxPending \in Nat \ {0}
  /\ Handlers \in Nat \ {0}
  /\ Batching \in BOOLEAN
  /\ Faulty \in BOOLEAN
ASSUME FitAssumption == \A j \in Jobs : Questions[j] <= MaxBatch

VARIABLES
  queue,      \* the deque of jobs not yet selected
  pending,    \* jobs queued or being executed
  stopping,
  batchId,
  pc,         \* [Jobs -> ...]: where the handler thread of the job is
  answer,     \* [Jobs -> ...]: the state of the job's promise
  slice,      \* [Jobs -> ...]: the reply a fulfilled promise carries
  worker,     \* where the dispatch thread is
  batch,      \* dispatch's `jobs`
  questions,  \* dispatch's `questions`
  late,       \* the deadline of the batch being gathered has passed
  solo,       \* execute() is running the batch's jobs one at a time
  next,       \* position in `batch` of the first job execute() has not answered
  requests,   \* execute's concatenated `requests`
  copied,     \* jobs whose requests have been appended to `requests`
  offset,     \* execute's `offset`
  failure,    \* the exception execute() is handing out
  interrupted,\* the flag the signal handler sets
  open,       \* httplib::Server::is_running()
  stopper,    \* ["monitor" | "main" -> ...]: where the thread is in stop()
  main        \* where serve_http() is

jobVars    == <<pc, answer, slice>>
sharedVars == <<queue, pending, stopping>>
gatherVars == <<batch, questions, late>>
execVars   == <<solo, next, requests, copied, offset, failure, batchId>>
hostVars   == <<interrupted, open, stopper, main>>
vars == <<jobVars, sharedVars, gatherVars, execVars, hostVars, worker>>

Stoppers == {"monitor", "main"}
Items == Jobs \X Nat  \* the requests of a job, by job and position
Replies == [batch : Nat, offset : Nat, results : Seq(Items)]
NoSlice == [batch |-> 0, offset |-> 0, results |-> <<>>]

JobTypes ==
  /\ pc \in [Jobs -> {"idle", "submit", "notify", "await", "done"}]
  /\ answer \in [Jobs -> {"none", "ok", "input", "internal", "unavailable"}]
  /\ slice \in [Jobs -> Replies]

SharedTypes ==
  /\ queue \in Seq(Jobs)
  /\ pending \in Nat
  /\ stopping \in BOOLEAN

DispatchTypes ==
  /\ worker \in {"off", "check", "asleep", "gather", "waiting", "rejoin", "begin",
                 "concat", "predict", "fulfil", "fail", "release", "exit"}
  /\ batch \in Seq(Jobs)
  /\ questions \in Nat
  /\ late \in BOOLEAN
  /\ batchId \in Nat
  /\ solo \in BOOLEAN
  /\ next \in Nat \ {0}
  /\ requests \in Seq(Items)
  /\ copied \in Nat
  /\ offset \in Nat
  /\ failure \in Flaws

HostTypes ==
  /\ interrupted \in BOOLEAN
  /\ open \in BOOLEAN
  /\ stopper \in [Stoppers -> {"watch", "stop", "notify", "close", "done"}]
  /\ main \in {"start", "listen", "join monitor", "destroy", "gone"}

TypeOK == JobTypes /\ SharedTypes /\ DispatchTypes /\ HostTypes

Init ==
  /\ queue = <<>> /\ pending = 0 /\ stopping = FALSE /\ batchId = 0
  /\ pc = [j \in Jobs |-> "idle"]
  /\ answer = [j \in Jobs |-> "none"]
  /\ slice = [j \in Jobs |-> NoSlice]
  /\ worker = "off"
  /\ batch = <<>> /\ questions = 0 /\ late = FALSE
  /\ solo = FALSE /\ next = 1 /\ requests = <<>> /\ copied = 0 /\ offset = 0
  /\ failure = "none"
  /\ interrupted = FALSE /\ open = FALSE
  /\ stopper = [t \in Stoppers |-> "watch"]
  /\ main = "start"

-----------------------------------------------------------------------------
(***************************************************************************)
(* Handler threads: evaluate() and submit().                               *)
(***************************************************************************)
Busy == {j \in Jobs : pc[j] \in {"submit", "notify", "await"}}

\* No thread but the dispatcher holds the mutex between two of its steps.
MutexFree == worker # "gather"

\* A pool thread takes the connection and evaluate() reaches submit().
Accept(j) ==
  /\ pc[j] = "idle"
  /\ open
  /\ Cardinality(Busy) < Handlers
  /\ pc' = [pc EXCEPT ![j] = "submit"]
  /\ UNCHANGED <<answer, slice, sharedVars, gatherVars, execVars, hostVars, worker>>

Full == pending >= MaxPending

\* Mutant: submit() looks at the limit only.
Admits_WhileStopping == ~Full

\* submit() takes the job.
Admits == ~stopping /\ ~Full

\* submit() throws `unavailable` under the lock; evaluate() answers 503.
Refuse(j) ==
  /\ pc[j] = "submit"
  /\ MutexFree
  /\ ~Admits
  /\ pc' = [pc EXCEPT ![j] = "done"]
  /\ answer' = [answer EXCEPT ![j] = "unavailable"]
  /\ UNCHANGED <<slice, sharedVars, gatherVars, execVars, hostVars, worker>>

\* submit() queues the job under the lock, starting the dispatcher if need be.
Enqueue(j) ==
  /\ pc[j] = "submit"
  /\ MutexFree
  /\ Admits
  /\ queue' = Append(queue, j)
  /\ pending' = pending + 1
  /\ worker' = IF worker = "off" THEN "check" ELSE worker
  /\ pc' = [pc EXCEPT ![j] = "notify"]
  /\ UNCHANGED <<answer, slice, stopping, gatherVars, execVars, hostVars>>

\* What a notification does to the one thread that waits on `changed`.
Woken == CASE worker = "asleep"  -> "check"
           [] worker = "waiting" -> "rejoin"
           [] OTHER              -> worker

\* changed.notify_one(), after the lock is released.
NotifyOne(j) ==
  /\ pc[j] = "notify"
  /\ worker' = Woken
  /\ pc' = [pc EXCEPT ![j] = "await"]
  /\ UNCHANGED <<answer, slice, sharedVars, gatherVars, execVars, hostVars>>

\* future.get() returns or throws, and evaluate() sends the response.
Respond(j) ==
  /\ pc[j] = "await"
  /\ answer[j] # "none"
  /\ pc' = [pc EXCEPT ![j] = "done"]
  /\ UNCHANGED <<answer, slice, sharedVars, gatherVars, execVars, hostVars, worker>>

-----------------------------------------------------------------------------
(***************************************************************************)
(* The dispatch thread: waiting for work and gathering a batch.            *)
(***************************************************************************)
HasCause == stopping \/ queue # <<>>

\* changed.wait(lock, pred) with the predicate false.
FallAsleep ==
  /\ worker = "check"
  /\ ~HasCause
  /\ worker' = "asleep"
  /\ UNCHANGED <<jobVars, sharedVars, gatherVars, execVars, hostVars>>

ExitWorker ==
  /\ worker = "check"
  /\ stopping
  /\ worker' = "exit"
  /\ UNCHANGED <<jobVars, sharedVars, gatherVars, execVars, hostVars>>

\* The deadline counts from the front job's arrival: it may be past already.
StartGathering ==
  /\ worker = "check"
  /\ ~stopping
  /\ queue # <<>>
  /\ worker' = "gather"
  /\ late' \in BOOLEAN
  /\ UNCHANGED <<jobVars, sharedVars, batch, questions, execVars, hostVars>>

\* Mutant: compares before it adds.
CanTake_BeforeAdding == queue # <<>> /\ questions < MaxBatch /\ (Batching \/ batch = <<>>)

\* The condition of the inner loop, with its `if (!options.batching) break`.
CanTake ==
  /\ queue # <<>>
  /\ questions + Questions[Head(queue)] <= MaxBatch
  /\ Batching \/ batch = <<>>

\* Mutant: the youngest job of the queue goes first.
Take_FromBack ==
  /\ worker = "gather"
  /\ CanTake
  /\ questions' = questions + Questions[Last(queue)]
  /\ batch' = Append(batch, Last(queue))
  /\ queue' = Front(queue)
  /\ UNCHANGED <<jobVars, pending, stopping, late, execVars, hostVars, worker>>

Take ==
  /\ worker = "gather"
  /\ CanTake
  /\ questions' = questions + Questions[Head(queue)]
  /\ batch' = Append(batch, Head(queue))
  /\ queue' = Tail(queue)
  /\ UNCHANGED <<jobVars, pending, stopping, late, execVars, hostVars, worker>>

\* Mutant: does not look at the clock.
Complete_NoDeadline == stopping \/ ~Batching \/ questions = MaxBatch \/ queue # <<>>

\* The break of the outer loop.
Complete ==
  \/ stopping
  \/ ~Batching
  \/ questions = MaxBatch
  \/ queue # <<>>
  \/ late

CloseBatch ==
  /\ worker = "gather"
  /\ ~CanTake
  /\ Complete
  /\ worker' = "begin"
  /\ UNCHANGED <<jobVars, sharedVars, gatherVars, execVars, hostVars>>

\* changed.wait_until(lock, deadline) releases the mutex.
WaitForMore ==
  /\ worker = "gather"
  /\ ~CanTake
  /\ ~Complete
  /\ worker' = "waiting"
  /\ UNCHANGED <<jobVars, sharedVars, gatherVars, execVars, hostVars>>

\* steady_clock passes the deadline.
DeadlinePasses ==
  /\ worker \in {"gather", "waiting", "rejoin"}
  /\ ~late
  /\ late' = TRUE
  /\ UNCHANGED <<jobVars, sharedVars, batch, questions, execVars, hostVars, worker>>

TimeOut ==
  /\ worker = "waiting"
  /\ late
  /\ worker' = "rejoin"
  /\ UNCHANGED <<jobVars, sharedVars, gatherVars, execVars, hostVars>>

\* A condition variable may wake with no notification.
SpuriousWake ==
  /\ worker \in {"asleep", "waiting"}
  /\ worker' = Woken
  /\ UNCHANGED <<jobVars, sharedVars, gatherVars, execVars, hostVars>>

\* wait_until has the mutex again and the outer loop goes round.
Rejoin ==
  /\ worker = "rejoin"
  /\ worker' = "gather"
  /\ UNCHANGED <<jobVars, sharedVars, gatherVars, execVars, hostVars>>

-----------------------------------------------------------------------------
(***************************************************************************)
(* The dispatch thread: execute(), outside the mutex.                      *)
(***************************************************************************)
\* The `jobs` of the call of execute() in progress.
Current == IF solo THEN <<batch[next]>> ELSE batch

\* Mutant: a job executed alone keeps the number of its batch.
NextBatchId_SharedByRetries == IF solo THEN batchId ELSE batchId + 1

NextBatchId == batchId + 1

BeginExecute ==
  /\ worker = "begin"
  /\ batchId' = NextBatchId
  /\ requests' = <<>>
  /\ copied' = 0
  /\ offset' = 0
  /\ worker' = "concat"
  /\ UNCHANGED <<jobVars, sharedVars, gatherVars, solo, next, failure, hostVars>>

RequestsOf(j) == [k \in 1..Requests[j] |-> <<j, k>>]

\* One turn of the loop that concatenates the jobs' request arrays.
Concat ==
  /\ worker = "concat"
  /\ requests' = requests \o RequestsOf(Current[copied + 1])
  /\ copied' = copied + 1
  /\ worker' = IF copied + 1 = Len(Current) THEN "predict" ELSE "concat"
  /\ UNCHANGED <<jobVars, sharedVars, gatherVars, solo, next, offset, failure, batchId,
                 hostVars>>

FlawsOf(jobs) == {Flaw[j] : j \in ToSet(jobs)} \ {"none"}

\* predict(requests) returns one result per request, in their order.
PredictReturns ==
  /\ worker = "predict"
  /\ FlawsOf(Current) = {}
  /\ worker' = "fulfil"
  /\ UNCHANGED <<jobVars, sharedVars, gatherVars, execVars, hostVars>>

\* predict() throws, or returns a wrong number of results (a runtime_error).
Thrown == FlawsOf(Current) \cup (IF Faulty THEN {"internal"} ELSE {})

\* Mutant: an input error rejects the whole batch.
RetryAlone_Never(kind) == FALSE

\* An input error among several jobs is traced by executing each alone.
RetryAlone(kind) == kind = "input" /\ Len(Current) > 1

PredictThrows(kind) ==
  /\ worker = "predict"
  /\ kind \in Thrown
  /\ IF RetryAlone(kind)
     THEN /\ solo' = TRUE
          /\ worker' = "begin"
          /\ UNCHANGED failure
     ELSE /\ failure' = kind
          /\ worker' = "fail"
          /\ UNCHANGED solo
  /\ UNCHANGED <<jobVars, sharedVars, gatherVars, next, requests, copied, offset, batchId,
                 hostVars>>

\* Where the dispatcher goes once it has answered batch[next].
AfterAnswer ==
  IF next = Len(batch) THEN "release" ELSE IF solo THEN "begin" ELSE worker

\* The results of the job at `next`: those from `offset` on.
SliceOf(j) == [i \in 1..Requests[j] |-> requests[offset + i]]

\* Mutant: `offset` counts jobs.
NextOffset_ByJob(j) == offset + 1

NextOffset(j) == offset + Requests[j]

\* One turn of the set_value loop; the slices were prepared from `offset`.
Fulfil ==
  /\ worker = "fulfil"
  /\ LET j == batch[next] IN
       /\ answer' = [answer EXCEPT ![j] = "ok"]
       /\ slice' = [slice EXCEPT ![j] = [batch |-> batchId, offset |-> offset,
                                         results |-> SliceOf(j)]]
       /\ offset' = NextOffset(j)
  /\ next' = next + 1
  /\ worker' = AfterAnswer
  /\ UNCHANGED <<pc, sharedVars, gatherVars, solo, requests, copied, failure, batchId,
                 hostVars>>

\* One turn of the set_exception loop.
Fail ==
  /\ worker = "fail"
  /\ answer' = [answer EXCEPT ![batch[next]] = failure]
  /\ next' = next + 1
  /\ worker' = AfterAnswer
  /\ UNCHANGED <<pc, slice, sharedVars, gatherVars, solo, requests, copied, offset, failure,
                 batchId, hostVars>>

\* Mutant: gives one place back.
Returned_One == 1

\* Places the dispatcher gives back.
Returned == Len(batch)

\* dispatch() gives the batch's places back and goes round: its locals end.
Release ==
  /\ worker = "release"
  /\ pending' = pending - Returned
  /\ batch' = <<>> /\ questions' = 0 /\ late' = FALSE
  /\ solo' = FALSE /\ next' = 1 /\ requests' = <<>> /\ copied' = 0 /\ offset' = 0
  /\ failure' = "none"
  /\ worker' = "check"
  /\ UNCHANGED <<jobVars, queue, stopping, batchId, hostVars>>

-----------------------------------------------------------------------------
(***************************************************************************)
(* The host threads: the main thread, in serve_http() and then in the      *)
(* destructor, and the monitor.  stop() is called by the monitor and by    *)
(* the destructor.                                                         *)
(***************************************************************************)
Signal ==
  /\ ~interrupted
  /\ main \in {"start", "listen"}
  /\ interrupted' = TRUE
  /\ UNCHANGED <<jobVars, sharedVars, gatherVars, execVars, open, stopper, main, worker>>

Listen ==
  /\ main = "start"
  /\ main' = "listen"
  /\ open' = TRUE
  /\ UNCHANGED <<jobVars, sharedVars, gatherVars, execVars, interrupted, stopper, worker>>

\* Mutant: does not ask whether the listener runs.
MonitorSees_FlagOnly == interrupted

MonitorSees == interrupted /\ open

\* The monitor's poll finds the flag set and the listener running.
MonitorReacts ==
  /\ stopper["monitor"] = "watch"
  /\ MonitorSees
  /\ stopper' = [stopper EXCEPT !["monitor"] = "stop"]
  /\ UNCHANGED <<jobVars, sharedVars, gatherVars, execVars, interrupted, open, main, worker>>

\* Mutant: no queue.clear().
QueueAfterStop_Kept == queue

QueueAfterStop == <<>>

\* The critical section of stop(): every queued job gets `unavailable`.
StopQueue(t) ==
  /\ stopper[t] = "stop"
  /\ MutexFree
  /\ stopping' = TRUE
  /\ answer' = [j \in Jobs |-> IF j \in ToSet(queue) THEN "unavailable" ELSE answer[j]]
  /\ pending' = pending - Len(queue)
  /\ queue' = QueueAfterStop
  /\ stopper' = [stopper EXCEPT ![t] = "notify"]
  /\ UNCHANGED <<pc, slice, gatherVars, execVars, interrupted, open, main, worker>>

\* Mutant: notifies a dispatcher that waits for more jobs only.
NotifyAll_Partial(t) ==
  /\ stopper[t] = "notify"
  /\ worker' = IF worker = "waiting" THEN "rejoin" ELSE worker
  /\ stopper' = [stopper EXCEPT ![t] = "close"]
  /\ UNCHANGED <<jobVars, sharedVars, gatherVars, execVars, interrupted, open, main>>

NotifyAll(t) ==
  /\ stopper[t] = "notify"
  /\ worker' = Woken
  /\ stopper' = [stopper EXCEPT ![t] = "close"]
  /\ UNCHANGED <<jobVars, sharedVars, gatherVars, execVars, interrupted, open, main>>

\* server.stop() closes the listening socket, if the server is running.
CloseServer(t) ==
  /\ stopper[t] = "close"
  /\ open' = FALSE
  /\ stopper' = [stopper EXCEPT ![t] = "done"]
  /\ UNCHANGED <<jobVars, sharedVars, gatherVars, execVars, interrupted, main, worker>>

\* accept() fails for good: the listener gives up by itself.
ListenerFails ==
  /\ main = "listen"
  /\ open
  /\ open' = FALSE
  /\ UNCHANGED <<jobVars, sharedVars, gatherVars, execVars, interrupted, stopper, main,
                 worker>>

\* listen_after_bind() returns once the pool has joined its threads.
ListenReturns ==
  /\ main = "listen"
  /\ ~open
  /\ Busy = {}
  /\ main' = "join monitor"
  /\ UNCHANGED <<jobVars, sharedVars, gatherVars, execVars, interrupted, open, stopper,
                 worker>>

\* request_stop() and join(): a monitor inside stop() finishes it first.
JoinMonitor ==
  /\ main = "join monitor"
  /\ stopper["monitor"] \in {"watch", "done"}
  /\ main' = "destroy"
  /\ stopper' = [stopper EXCEPT !["monitor"] = "done", !["main"] = "stop"]
  /\ UNCHANGED <<jobVars, sharedVars, gatherVars, execVars, interrupted, open, worker>>

\* ~impl() has called stop() and waits for the dispatch thread, if any.
JoinWorker ==
  /\ main = "destroy"
  /\ stopper["main"] = "done"
  /\ worker \in {"off", "exit"}
  /\ main' = "gone"
  /\ UNCHANGED <<jobVars, sharedVars, gatherVars, execVars, interrupted, open, stopper,
                 worker>>

-----------------------------------------------------------------------------
Handler(j) == Accept(j) \/ Refuse(j) \/ Enqueue(j) \/ NotifyOne(j) \/ Respond(j)

Gathering ==
  FallAsleep \/ ExitWorker \/ StartGathering \/ Take \/ CloseBatch \/ WaitForMore
    \/ TimeOut \/ Rejoin

Executing ==
  \/ BeginExecute \/ Concat \/ PredictReturns \/ Fulfil \/ Fail \/ Release
  \/ \E kind \in Flaws : PredictThrows(kind)

Stop(t) == StopQueue(t) \/ NotifyAll(t) \/ CloseServer(t)

Host == Listen \/ MonitorReacts \/ ListenReturns \/ JoinMonitor \/ JoinWorker

Gone == main = "gone" /\ UNCHANGED vars

Next ==
  \/ \E j \in Jobs : Handler(j)
  \/ Gathering
  \/ Executing
  \/ DeadlinePasses
  \/ SpuriousWake
  \/ \E t \in Stoppers : Stop(t)
  \/ Host
  \/ Signal
  \/ ListenerFails
  \/ Gone

(***************************************************************************)
(* Every thread keeps running.  Clients need not send, signals need not    *)
(* come, the listener need not fail, nor a condition variable wake by      *)
(* itself.  Weak fairness is enough although threads compete for the       *)
(* mutex: the dispatcher holds it across steps only while it gathers, and  *)
(* finitely many jobs are gathered.                                        *)
(***************************************************************************)
HandlerProceeds(j) == Refuse(j) \/ Enqueue(j) \/ NotifyOne(j) \/ Respond(j)

Fairness ==
  /\ \A j \in Jobs : WF_vars(HandlerProceeds(j))
  /\ WF_vars(Gathering)
  /\ WF_vars(Executing)
  /\ WF_vars(DeadlinePasses)
  /\ \A t \in Stoppers : WF_vars(Stop(t))
  /\ WF_vars(Host)

Spec == Init /\ [][Next]_vars
FairSpec == Spec /\ Fairness

-----------------------------------------------------------------------------
\* The jobs the dispatcher has selected and not answered yet.
Selected == SubSeq(batch, next, Len(batch))

(***************************************************************************)
(* `pending` (reported by /health, and the admission limit of submit()) is *)
(* the number of jobs queued or selected, and stays within the limit       *)
(* although stop() and the dispatcher take different parts of it back.     *)
(***************************************************************************)
PendingAccounts ==
  /\ pending = Len(queue) + Len(batch)
  /\ pending <= MaxPending

(***************************************************************************)
(* No accepted job is lost or held twice: a handler that waits for an      *)
(* answer waits for a job that is queued or selected, those jobs are all   *)
(* distinct, and none has an answer.  A job held twice would have its      *)
(* promise satisfied twice, which throws out of execute().                 *)
(***************************************************************************)
HeldOnce ==
  LET line == Selected \o queue IN
    /\ \A i, k \in DOMAIN line : line[i] = line[k] => i = k
    /\ ToSet(line) = {j \in Jobs : pc[j] \in {"notify", "await"} /\ answer[j] = "none"}

(***************************************************************************)
(* Each caller gets the results of its own requests, all of them and in    *)
(* order, whatever the batch they were concatenated into.                  *)
(***************************************************************************)
OwnResults == \A j \in Jobs : answer[j] = "ok" => slice[j].results = RequestsOf(j)

(***************************************************************************)
(* X-Dohnuts-Batch-Id and -Offset locate a reply: two callers never hold   *)
(* overlapping ranges of one batch.                                        *)
(***************************************************************************)
RangesDisjoint ==
  \A i, j \in Jobs :
    i # j /\ answer[i] = "ok" /\ answer[j] = "ok" /\ slice[i].batch = slice[j].batch =>
      \/ slice[i].offset + Requests[i] <= slice[j].offset
      \/ slice[j].offset + Requests[j] <= slice[i].offset

(***************************************************************************)
(* A caller whose request has no flaw is never told it sent a bad one: an  *)
(* input error of a batch goes to the job that caused it.                  *)
(***************************************************************************)
InputErrorsAreOwn == \A j \in Jobs : answer[j] = "input" => Flaw[j] = "input"

(***************************************************************************)
(* The comment of execute(), http.cpp:196: "Late preprocessing errors must *)
(* not reject unrelated callers."  A predictor that fails only on the      *)
(* request that has a flaw rejects no caller without one.                  *)
(***************************************************************************)
UnrelatedCallersNotRejected ==
  \A j \in Jobs : answer[j] \in {"input", "internal"} => Flaw[j] # "none"

QuestionsOf(jobs) == FoldLeft(LAMBDA sum, j : sum + Questions[j], 0, jobs)

(***************************************************************************)
(* What reaches the predictor is not empty, holds every request of every   *)
(* job of the call, and respects max_batch_questions and --no-batching.    *)
(***************************************************************************)
BatchWithinLimits ==
  worker = "predict" =>
    /\ Current # <<>>
    /\ QuestionsOf(Current) <= MaxBatch
    /\ ~Batching => Len(Current) = 1
    /\ ToSet(requests) = UNION {ToSet(RequestsOf(j)) : j \in ToSet(Current)}

(***************************************************************************)
(* No wakeup is lost: if the dispatcher sleeps although there is cause to  *)
(* run, some thread is about to notify it.                                 *)
(***************************************************************************)
NoLostWakeup ==
  worker = "asleep" /\ HasCause =>
    \/ \E j \in Jobs : pc[j] = "notify"
    \/ \E t \in Stoppers : stopper[t] = "notify"

(***************************************************************************)
(* Once stop() has run nothing is queued again, and when serve_http()      *)
(* returns every connection it took has its answer and no place is held.   *)
(***************************************************************************)
CleanShutdown ==
  /\ stopping => queue = <<>>
  /\ main = "gone" =>
       /\ pending = 0
       /\ \A j \in Jobs : pc[j] = "done" => answer[j] # "none"
       /\ Busy = {}

(***************************************************************************)
(* The server implements the decision service: jobs are answered in the    *)
(* order they were accepted, the selected ones with a verdict of the       *)
(* predictor even after stop(), the queued ones with 503 when it stops     *)
(* (the comment of dispatch(), http.cpp:226).                              *)
(***************************************************************************)
VerdictsOf(j) ==
  (IF Flaw[j] = "none" THEN {"ok"} ELSE {Flaw[j]}) \cup {"internal"}

Service == INSTANCE DecisionService WITH
  Capacity <- MaxPending,
  Verdicts <- [j \in Jobs |-> VerdictsOf(j)],
  line     <- Selected \o queue,
  outcome  <- answer,
  closed   <- stopping

ServiceSpec == Service!Spec

\* Every handler that has read its request sends a response.
EveryCallAnswered == \A j \in Jobs : pc[j] = "submit" ~> pc[j] = "done"

\* A signal that finds the server starting or listening ends the process.
SignalStops == interrupted ~> main = "gone"
=============================================================================
