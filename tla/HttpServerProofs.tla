-------------------------- MODULE HttpServerProofs --------------------------
(***************************************************************************)
(* What TLAPS proves of HttpServer, for any jobs, any limits and any       *)
(* number of handler threads.                                              *)
(*                                                                         *)
(* The properties of HttpServer are not inductive as they stand.  IInv     *)
(* strengthens them with what the program counters imply: where `next` may *)
(* be, that gathering never ends with an empty batch, how `requests` is    *)
(* laid out, whose fault `failure` is.                                     *)
(***************************************************************************)
EXTENDS HttpServer, Lemmas

\* Between batches and while one is gathered nothing of it is answered.
Collecting == {"off", "check", "asleep", "exit", "gather", "waiting", "rejoin"}

WorkerInv ==
  /\ worker \in {"off", "check", "asleep", "exit"} => batch = <<>> /\ questions = 0
  /\ worker = "off" => queue = <<>>
  /\ worker = "exit" => stopping
  /\ worker \in Collecting => next = 1 /\ ~solo
  /\ worker = "gather" /\ batch = <<>> => queue # <<>> /\ questions = 0
  /\ worker \in {"waiting", "rejoin"} => batch # <<>>
  /\ worker \in {"begin", "concat", "predict", "fulfil", "fail"} => next <= Len(batch)
  /\ worker \in {"begin", "concat", "predict"} /\ ~solo => next = 1
  /\ worker = "release" => next = Len(batch) + 1
  /\ worker = "concat" => copied < Len(Current)
  /\ worker \in {"predict", "fulfil"} => copied = Len(Current)
  /\ worker \in {"concat", "predict"} => offset = 0

\* `start[k]` is where the requests of the k-th job begin in `requests`.
LaidOut(start) ==
  /\ start[1] = 0
  /\ start[copied + 1] = Len(requests)
  /\ \A k \in 1..copied :
       /\ start[k + 1] = start[k] + Requests[Current[k]]
       /\ \A i \in 1..Requests[Current[k]] : requests[start[k] + i] = <<Current[k], i>>
  /\ worker = "fulfil" => offset = start[IF solo THEN 1 ELSE next]

LayoutInv ==
  worker \in {"concat", "predict", "fulfil"} =>
    \E start \in [1..copied + 1 -> 0..Len(requests)] : LaidOut(start)

FailureInv ==
  /\ worker = "fulfil" => \A k \in 1..Len(Current) : Flaw[Current[k]] = "none"
  /\ worker = "fail" =>
       /\ failure \in {"input", "internal"}
       /\ failure = "input" => Len(Current) = 1 /\ Flaw[Current[1]] = "input"

Attended(j) == pc[j] \in {"notify", "await"}

\* No job is held twice.
DistinctInv ==
  /\ \A i, k \in 1..Len(queue) : queue[i] = queue[k] => i = k
  /\ \A i, k \in 1..Len(batch) : batch[i] = batch[k] => i = k
  /\ \A i \in 1..Len(queue), k \in 1..Len(batch) : queue[i] # batch[k]

\* A held job has no answer and a handler; an answered one of the batch keeps its answer.
LineInv ==
  /\ \A i \in 1..Len(queue) : Attended(queue[i]) /\ answer[queue[i]] = "none"
  /\ \A k \in next..Len(batch) : Attended(batch[k]) /\ answer[batch[k]] = "none"
  /\ \A k \in 1..next - 1 : pc[batch[k]] \notin {"idle", "submit"} /\ answer[batch[k]] # "none"

\* A job that waits is held, one that does not wait has got its answer or has not been submitted.
WaiterInv ==
  \A j \in Jobs :
    /\ Attended(j) /\ answer[j] = "none" =>
         \/ \E i \in 1..Len(queue) : queue[i] = j
         \/ \E k \in next..Len(batch) : batch[k] = j
    /\ pc[j] \in {"idle", "submit"} => answer[j] = "none"
    /\ pc[j] = "done" => answer[j] # "none"

HeldInv == DistinctInv /\ LineInv /\ WaiterInv

HostInv ==
  /\ stopping => queue = <<>>
  /\ main \in {"join monitor", "destroy", "gone"} => ~open /\ Busy = {}
  /\ main \in {"start", "listen", "join monitor"} => stopper["main"] = "watch"
  /\ main = "gone" => worker \in {"off", "exit"}

\* `questions` is what the jobs of the batch weigh together.
GatherInv ==
  /\ questions = QuestionsOf(batch)
  /\ questions <= MaxBatch
  /\ ~Batching => Len(batch) <= 1

\* The replies sent from the execution under way lie below `offset`.
RangeInv ==
  /\ \A j \in Jobs : answer[j] = "ok" => slice[j].batch <= batchId
  /\ worker \in {"concat", "predict"} =>
       \A j \in Jobs : answer[j] = "ok" => slice[j].batch < batchId
  /\ worker = "fulfil" =>
       \A j \in Jobs : answer[j] = "ok" /\ slice[j].batch = batchId =>
         slice[j].offset + Requests[j] <= offset
  /\ RangesDisjoint

IInv ==
  /\ TypeOK
  /\ WorkerInv
  /\ LayoutInv
  /\ FailureInv
  /\ PendingAccounts
  /\ HeldInv
  /\ HostInv
  /\ NoLostWakeup
  /\ OwnResults
  /\ InputErrorsAreOwn
  /\ GatherInv
  /\ RangeInv
-----------------------------------------------------------------------------
\* The weights of a sequence of jobs, by index.
Weights(jobs) == [i \in DOMAIN jobs |-> Questions[jobs[i]]]

(* The fold of QuestionsOf() is the total of the weights.                  *)
LEMMA QuestionsIsTotal ==
  ASSUME NEW jobs \in Seq(Jobs)
  PROVE  /\ Len(jobs) \in Nat
         /\ \A i \in 1..Len(jobs) :
              Weights(jobs)[i] = Questions[jobs[i]] /\ Weights(jobs)[i] \in Nat
         /\ QuestionsOf(jobs) = Total(Weights(jobs), 1..Len(jobs))
<1> DEFINE w == Weights(jobs)
           D == DOMAIN jobs
           Step(f, S) == IF S = {} THEN 0
                         ELSE LET x == CHOOSE x \in S : \A y \in S : x >= y
                              IN  f[S \ {x}] + Questions[jobs[x]]
           g == CHOOSE f : f = [S \in SUBSET D |-> Step(f, S)]
<1>1. QuestionsOf(jobs) = g[D]
  BY DEF QuestionsOf, FoldLeft, MapThenFoldSet, Max
<1>2. /\ D = 1..Len(jobs) /\ Len(jobs) \in Nat
      /\ \A i \in D : w[i] = Questions[jobs[i]] /\ w[i] \in Nat
  BY JobsAssumption DEF Weights
<1>3. ASSUME NEW S \in SUBSET D, S # {}
      PROVE  /\ Greatest(S) \in S
             /\ w[Greatest(S)] = Questions[jobs[Greatest(S)]]
             /\ Total(w, S) = Total(w, S \ {Greatest(S)}) + w[Greatest(S)]
  <2> HIDE DEF w
  <2>1. S \in SUBSET (1..Len(jobs)) /\ \A i \in 1..Len(jobs) : w[i] \in Nat
    BY <1>2
  <2> HIDE DEF D
  <2>2. Greatest(S) \in S /\ Total(w, S) = Total(w, S \ {Greatest(S)}) + w[Greatest(S)]
    BY <1>2, <1>3, <2>1, TotalGreatest, ZenonT(60)
  <2> QED
    BY <2>2, <1>2
<1>4. \E f : f = [S \in SUBSET D |-> Step(f, S)]
  <2> DEFINE f == [S \in SUBSET D |-> Total(w, S)]
  <2>1. ASSUME NEW S \in SUBSET D
        PROVE  f[S] = Step(f, S)
    <3> HIDE DEF w
    <3>1. CASE S = {}
      BY <3>1, TotalEmpty
    <3>2. CASE S # {}
      BY <3>2, <1>3 DEF Greatest
    <3> QED
      BY <3>1, <3>2
  <2> QED
    BY <2>1, ZenonT(60)
<1>5. g = [S \in SUBSET D |-> Step(g, S)]
  BY <1>4
<1>6. ASSUME NEW S \in SUBSET D
      PROVE  g[S] = IF S = {} THEN 0 ELSE g[S \ {Greatest(S)}] + w[Greatest(S)]
  <2> HIDE DEF g
  <2>1. g[S] = Step(g, S)
    BY <1>5
  <2> QED
    BY <2>1, <1>3 DEF Greatest
<1> HIDE DEF g, w
<1>7. g[1..Len(jobs)] = Total(w, 1..Len(jobs))
  BY <1>2, <1>6, TotalByGreatest
<1> QED
  BY <1>1, <1>2, <1>7 DEF w

(* No job, no question.                                                    *)
LEMMA QuestionsOfNone ==
  ASSUME NEW jobs \in Seq(Jobs), jobs = <<>>
  PROVE  QuestionsOf(jobs) = 0
<1>1. Len(jobs) = 0 /\ 1..0 = {}
  OBVIOUS
<1>2. QuestionsOf(jobs) = Total(Weights(jobs), 1..0)
  BY <1>1, QuestionsIsTotal
<1> QED
  BY <1>1, <1>2, TotalEmpty

(* One more job brings its questions.                                      *)
LEMMA QuestionsOfMore ==
  ASSUME NEW jobs \in Seq(Jobs), NEW j \in Jobs
  PROVE  /\ QuestionsOf(jobs) \in Nat
         /\ QuestionsOf(Append(jobs, j)) = QuestionsOf(jobs) + Questions[j]
<1> DEFINE more == Append(jobs, j)
           n == Len(jobs)
           v == Weights(jobs)
           w == Weights(more)
<1>1. /\ n \in Nat /\ more \in Seq(Jobs) /\ Len(more) = n + 1
      /\ \A i \in 1..n : more[i] = jobs[i]
      /\ more[n + 1] = j
  OBVIOUS
<1> HIDE DEF more
<1>2. /\ \A i \in 1..n : v[i] = Questions[jobs[i]] /\ v[i] \in Nat
      /\ QuestionsOf(jobs) = Total(v, 1..n)
  BY QuestionsIsTotal
<1>3. /\ \A i \in 1..n + 1 : w[i] = Questions[more[i]] /\ w[i] \in Nat
      /\ QuestionsOf(more) = Total(w, 1..n + 1)
  BY <1>1, QuestionsIsTotal
<1>4. \A i \in 1..n : v[i] = w[i]
  BY <1>1, <1>2, <1>3, SMTT(60)
<1>5. w[n + 1] = Questions[j]
  BY <1>1, <1>3
<1> HIDE DEF n, v, w
<1>6. Total(v, 1..n) = Total(w, 1..n)
  BY <1>4, TotalSame
<1>7. Total(w, 1..n) \in Nat /\ Total(w, 1..n + 1) = Total(w, 1..n) + w[n + 1]
  BY <1>1, <1>3, TotalNext
<1> QED
  BY <1>2, <1>3, <1>5, <1>6, <1>7 DEF more

LEMMA InitInv == Init => IInv
<1> SUFFICES ASSUME Init PROVE IInv
  OBVIOUS
<1>1. TypeOK
  <2>1. NoSlice \in Replies
    BY DEF NoSlice, Replies
  <2>2. slice \in [Jobs -> Replies]
    BY <2>1 DEF Init
  <2>3. JobTypes
    BY <2>2 DEF Init, JobTypes
  <2>4. queue \in Seq(Jobs) /\ batch \in Seq(Jobs) /\ requests \in Seq(Items)
    BY DEF Init
  <2>5. SharedTypes
    BY <2>4 DEF Init, SharedTypes
  <2>6. /\ batchId \in Nat /\ questions \in Nat /\ copied \in Nat /\ offset \in Nat
        /\ next \in Nat \ {0}
    BY DEF Init
  <2>7. DispatchTypes
    <3>1. worker = "off" /\ failure \in Flaws /\ late \in BOOLEAN /\ solo \in BOOLEAN
      BY DEF Init, Flaws
    <3> QED
      BY <2>4, <2>6, <3>1 DEF DispatchTypes
  <2>8. HostTypes
    BY DEF Init, HostTypes
  <2> QED
    BY <2>3, <2>5, <2>7, <2>8 DEF TypeOK
<1>2. WorkerInv /\ LayoutInv /\ FailureInv /\ PendingAccounts
  BY LimitsAssumption DEF Init, WorkerInv, LayoutInv, FailureInv, PendingAccounts
<1>3. HeldInv
  BY DEF Init, HeldInv, DistinctInv, LineInv, WaiterInv, Attended
<1>4. HostInv
  <2>1. stopper["main"] = "watch"
    BY DEF Init, Stoppers
  <2>2. ~stopping /\ main = "start"
    BY DEF Init
  <2> QED
    BY <2>1, <2>2 DEF HostInv
<1>5. NoLostWakeup /\ OwnResults /\ InputErrorsAreOwn
  BY DEF Init, NoLostWakeup, OwnResults, InputErrorsAreOwn
<1>6. GatherInv
  <2>1. batch = <<>> /\ batch \in Seq(Jobs) /\ questions = 0
    BY DEF Init
  <2>2. QuestionsOf(batch) = 0
    BY <2>1, QuestionsOfNone
  <2>3. 0 <= MaxBatch /\ Len(batch) <= 1
    BY <2>1, LimitsAssumption
  <2> QED
    BY <2>1, <2>2, <2>3 DEF GatherInv
<1>7. RangeInv
  BY DEF Init, RangeInv, RangesDisjoint
<1> QED
  BY <1>1, <1>2, <1>3, <1>4, <1>5, <1>6, <1>7 DEF IInv

LEMMA CurrentType ==
  ASSUME TypeOK, WorkerInv, worker \in {"begin", "concat", "predict", "fulfil", "fail"}
  PROVE  /\ Current \in Seq(Jobs)
         /\ Len(Current) \in Nat \ {0}
         /\ batch[next] \in Jobs
         /\ batch # <<>>
<1>1. next \in 1..Len(batch) /\ batch \in Seq(Jobs)
  <2>1. batch \in Seq(Jobs) /\ next \in Nat \ {0}
    BY DEF TypeOK, DispatchTypes
  <2>2. next <= Len(batch)
    BY DEF WorkerInv
  <2> QED
    BY <2>1, <2>2
<1>2. batch[next] \in Jobs /\ Len(batch) \in Nat \ {0} /\ batch # <<>>
  BY <1>1
<1>3. CASE solo
  BY <1>2, <1>3 DEF Current
<1>4. CASE ~solo
  BY <1>1, <1>2, <1>4 DEF Current
<1> QED
  BY <1>2, <1>3, <1>4

LEMMA RequestsOfType ==
  ASSUME NEW j \in Jobs
  PROVE  RequestsOf(j) \in Seq(Items) /\ Len(RequestsOf(j)) = Requests[j]
<1>1. Requests[j] \in Nat
  BY JobsAssumption
<1>2. RequestsOf(j) \in [1..Requests[j] -> Items]
  BY DEF RequestsOf, Items
<1> QED
  BY <1>1, <1>2

LEMMA SliceIsOwn ==
  ASSUME IInv, worker = "fulfil"
  PROVE  SliceOf(batch[next]) = RequestsOf(batch[next])
<1> DEFINE p == IF solo THEN 1 ELSE next
           j == batch[next]
<1>1. PICK start \in [1..copied + 1 -> 0..Len(requests)] : LaidOut(start)
  BY DEF IInv, LayoutInv
<1>2. /\ requests \in Seq(Items) /\ copied \in Nat /\ next \in Nat \ {0}
      /\ batch \in Seq(Jobs) /\ solo \in BOOLEAN
  BY DEF IInv, TypeOK, DispatchTypes
<1>3. copied = Len(Current) /\ next <= Len(batch)
  BY DEF IInv, WorkerInv
<1>4. p \in 1..copied /\ Current[p] = j /\ j \in Jobs
  BY <1>2, <1>3 DEF Current
<1> HIDE DEF p, j
<1>5. /\ offset = start[p]
      /\ \A i \in 1..Requests[j] : requests[start[p] + i] = <<j, i>>
  BY <1>1, <1>4 DEF LaidOut, p
<1> QED
  BY <1>5 DEF SliceOf, RequestsOf, j
-----------------------------------------------------------------------------
(***************************************************************************)
(* IInv is preserved: one lemma for each part of it, with one step for     *)
(* each action that the part depends on.                                   *)
(***************************************************************************)
LEMMA JobTypesStep ==
  ASSUME IInv, [Next]_vars
  PROVE  JobTypes'
<1> USE DEF JobTypes
<1>0. JobTypes
  BY DEF IInv, TypeOK
<1>1. ASSUME NEW j \in Jobs, Accept(j)
      PROVE  JobTypes'
  BY <1>0, <1>1 DEF Accept
<1>2. ASSUME NEW j \in Jobs, Refuse(j)
      PROVE  JobTypes'
  BY <1>0, <1>2 DEF Refuse
<1>3. ASSUME NEW j \in Jobs, Enqueue(j)
      PROVE  JobTypes'
  BY <1>0, <1>3 DEF Enqueue
<1>4. ASSUME NEW j \in Jobs, NotifyOne(j)
      PROVE  JobTypes'
  BY <1>0, <1>4 DEF NotifyOne
<1>5. ASSUME NEW j \in Jobs, Respond(j)
      PROVE  JobTypes'
  BY <1>0, <1>5 DEF Respond
<1>6. CASE Fulfil
  <2> DEFINE j == batch[next]
             reply == [batch |-> batchId, offset |-> offset, results |-> SliceOf(j)]
  <2>1. j \in Jobs /\ SliceOf(j) = RequestsOf(j)
    BY <1>6, CurrentType, SliceIsOwn DEF IInv, Fulfil
  <2>2. reply \in Replies
    BY <2>1, RequestsOfType DEF Replies, IInv, TypeOK, DispatchTypes
  <2> QED
    BY <1>0, <1>6, <2>1, <2>2 DEF Fulfil
<1>7. CASE Fail
  <2>1. batch[next] \in Jobs /\ failure \in {"input", "internal"}
    BY <1>7, CurrentType DEF IInv, FailureInv, Fail
  <2> QED
    BY <1>0, <1>7, <2>1 DEF Fail
<1>8. ASSUME NEW t \in Stoppers, StopQueue(t)
      PROVE  JobTypes'
  BY <1>0, <1>8 DEF StopQueue
<1>9. CASE UNCHANGED jobVars
  BY <1>0, <1>9 DEF jobVars
<1> QED
  BY <1>1, <1>2, <1>3, <1>4, <1>5, <1>6, <1>7, <1>8, <1>9
  DEF Next, vars, Handler, Gathering, FallAsleep, ExitWorker, StartGathering, Take, CloseBatch,
      WaitForMore, TimeOut, Rejoin, Executing, BeginExecute, Concat, PredictReturns, Release,
      PredictThrows, DeadlinePasses, SpuriousWake, Stop, NotifyAll, CloseServer, Host, Listen,
      MonitorReacts, ListenReturns, JoinMonitor, JoinWorker, Signal, ListenerFails, Gone

LEMMA DispatchTypesStep ==
  ASSUME IInv, [Next]_vars
  PROVE  DispatchTypes'
<1> USE DEF DispatchTypes
<1>0. DispatchTypes /\ queue \in Seq(Jobs)
  BY DEF IInv, TypeOK, SharedTypes
<1>1. ASSUME NEW j \in Jobs, Enqueue(j)
      PROVE  DispatchTypes'
  BY <1>0, <1>1 DEF Enqueue, gatherVars, execVars
<1>2. ASSUME worker' = Woken, UNCHANGED <<gatherVars, execVars>>
      PROVE  DispatchTypes'
  BY <1>0, <1>2 DEF Woken, gatherVars, execVars
<1>3. CASE FallAsleep \/ ExitWorker \/ WaitForMore \/ TimeOut \/ Rejoin \/ CloseBatch
  BY <1>0, <1>3
  DEF FallAsleep, ExitWorker, WaitForMore, TimeOut, Rejoin, CloseBatch, gatherVars, execVars
<1>4. CASE StartGathering
  BY <1>0, <1>4 DEF StartGathering, execVars
<1>5. CASE Take
  <2>1. Head(queue) \in Jobs
    BY <1>0, <1>5 DEF Take, CanTake
  <2>2. batch' \in Seq(Jobs) /\ questions' \in Nat
    BY <1>0, <1>5, <2>1, JobsAssumption DEF Take
  <2> QED
    BY <1>0, <1>5, <2>2 DEF Take, execVars
<1>6. CASE DeadlinePasses
  BY <1>0, <1>6 DEF DeadlinePasses, execVars
<1>7. CASE BeginExecute
  BY <1>0, <1>7 DEF BeginExecute, gatherVars, NextBatchId
<1>8. CASE Concat
  <2>1. Current[copied + 1] \in Jobs
    BY <1>0, <1>8, CurrentType DEF Concat, IInv, TypeOK, WorkerInv
  <2>2. requests' \in Seq(Items)
    BY <1>0, <1>8, <2>1, RequestsOfType DEF Concat
  <2> QED
    BY <1>0, <1>8, <2>2 DEF Concat, gatherVars
<1>9. CASE PredictReturns
  BY <1>0, <1>9 DEF PredictReturns, gatherVars, execVars
<1>10. ASSUME NEW kind \in Flaws, PredictThrows(kind)
       PROVE  DispatchTypes'
  BY <1>0, <1>10 DEF PredictThrows, gatherVars
<1>11. CASE Fulfil
  <2>1. Requests[batch[next]] \in Nat
    BY <1>11, CurrentType, JobsAssumption DEF IInv, Fulfil
  <2> QED
    BY <1>0, <1>11, <2>1 DEF Fulfil, NextOffset, AfterAnswer, gatherVars
<1>12. CASE Fail
  BY <1>0, <1>12 DEF Fail, AfterAnswer, gatherVars
<1>13. CASE Release
  <2>1. batch' \in Seq(Jobs) /\ requests' \in Seq(Items)
    BY <1>13 DEF Release
  <2>2. failure' \in Flaws /\ next' \in Nat \ {0} /\ batchId' \in Nat
    BY <1>0, <1>13 DEF Release, Flaws
  <2> QED
    BY <1>13, <2>1, <2>2 DEF Release
<1>14. CASE UNCHANGED <<gatherVars, execVars, worker>>
  BY <1>0, <1>14 DEF gatherVars, execVars
<1> QED
  BY <1>1, <1>2, <1>3, <1>4, <1>5, <1>6, <1>7, <1>8, <1>9, <1>10, <1>11, <1>12, <1>13, <1>14
  DEF Next, vars, Handler, Accept, Refuse, NotifyOne, Respond, Gathering, Executing, SpuriousWake,
      Stop, StopQueue, NotifyAll, CloseServer, Host, Listen, MonitorReacts, ListenReturns,
      JoinMonitor, JoinWorker, Signal, ListenerFails, Gone

LEMMA HostTypesStep ==
  ASSUME IInv, [Next]_vars
  PROVE  HostTypes'
<1> USE DEF HostTypes
<1>0. HostTypes
  BY DEF IInv, TypeOK
<1>1. ASSUME NEW t \in Stoppers, Stop(t)
      PROVE  HostTypes'
  BY <1>0, <1>1 DEF Stop, StopQueue, NotifyAll, CloseServer
<1>2. CASE Host
  BY <1>0, <1>2 DEF Host, Listen, MonitorReacts, ListenReturns, JoinMonitor, JoinWorker
<1>3. CASE Signal \/ ListenerFails
  BY <1>0, <1>3 DEF Signal, ListenerFails
<1>4. CASE UNCHANGED hostVars
  BY <1>0, <1>4 DEF hostVars
<1> QED
  BY <1>1, <1>2, <1>3, <1>4
  DEF Next, vars, Handler, Accept, Refuse, Enqueue, NotifyOne, Respond, Gathering, FallAsleep,
      ExitWorker, StartGathering, Take, CloseBatch, WaitForMore, TimeOut, Rejoin, Executing,
      BeginExecute, Concat, PredictReturns, PredictThrows, Fulfil, Fail, Release, DeadlinePasses,
      SpuriousWake, Gone

\* A gathering dispatcher that can take no job has taken one.
LEMMA GatheredSome ==
  ASSUME IInv, worker = "gather", ~CanTake
  PROVE  batch # <<>>
<1>1. queue \in Seq(Jobs)
  BY DEF IInv, TypeOK, SharedTypes
<1>2. ASSUME batch = <<>>
      PROVE  FALSE
  <2>1. queue # <<>> /\ questions = 0
    BY <1>2 DEF IInv, WorkerInv
  <2>2. Head(queue) \in Jobs
    BY <1>1, <2>1
  <2>3. questions + Questions[Head(queue)] <= MaxBatch
    BY <2>1, <2>2, FitAssumption, JobsAssumption
  <2> QED
    BY <1>2, <2>1, <2>3 DEF CanTake
<1> QED
  BY <1>2

LEMMA WorkerInvStep ==
  ASSUME IInv, [Next]_vars
  PROVE  WorkerInv'
<1> USE DEF WorkerInv, Collecting
<1>0. WorkerInv /\ DispatchTypes /\ queue \in Seq(Jobs)
  BY DEF IInv, TypeOK, SharedTypes
<1>1. ASSUME NEW j \in Jobs, Enqueue(j)
      PROVE  WorkerInv'
  BY <1>0, <1>1 DEF Enqueue, MutexFree, Current, gatherVars, execVars
<1>2. ASSUME worker' = Woken, UNCHANGED <<sharedVars, gatherVars, execVars>>
      PROVE  WorkerInv'
  BY <1>0, <1>2 DEF Woken, Current, sharedVars, gatherVars, execVars
<1>3. CASE FallAsleep \/ ExitWorker \/ TimeOut \/ Rejoin
  BY <1>0, <1>3
  DEF FallAsleep, ExitWorker, TimeOut, Rejoin, sharedVars, gatherVars, execVars
<1>4. CASE WaitForMore
  BY <1>0, <1>4, GatheredSome DEF WaitForMore, sharedVars, gatherVars, execVars
<1>5. CASE CloseBatch
  <2>1. batch # <<>> /\ batch \in Seq(Jobs)
    BY <1>0, <1>5, GatheredSome DEF CloseBatch, DispatchTypes
  <2> QED
    BY <1>0, <1>5, <2>1 DEF CloseBatch, sharedVars, gatherVars, execVars
<1>6. CASE StartGathering
  BY <1>0, <1>6 DEF StartGathering, sharedVars, execVars
<1>7. CASE Take
  <2>1. batch' # <<>>
    BY <1>0, <1>7 DEF Take, DispatchTypes
  <2> QED
    BY <1>0, <1>7, <2>1 DEF Take, execVars
<1>8. CASE BeginExecute
  <2>1. Len(Current) \in Nat \ {0} /\ Current' = Current
    BY <1>8, CurrentType DEF BeginExecute, IInv, TypeOK, gatherVars, Current
  <2> QED
    BY <1>0, <1>8, <2>1 DEF BeginExecute, sharedVars, gatherVars
<1>9. CASE Concat
  <2>1. Len(Current) \in Nat \ {0} /\ Current' = Current /\ copied \in Nat
    BY <1>9, CurrentType DEF Concat, IInv, TypeOK, DispatchTypes, gatherVars, Current
  <2> QED
    BY <1>0, <1>9, <2>1 DEF Concat, sharedVars, gatherVars
<1>10. CASE PredictReturns
  BY <1>0, <1>10 DEF PredictReturns, Current, sharedVars, gatherVars, execVars
<1>11. ASSUME NEW kind \in Flaws, PredictThrows(kind)
       PROVE  WorkerInv'
  BY <1>0, <1>11 DEF PredictThrows, sharedVars, gatherVars
<1>12. CASE Fulfil \/ Fail
  <2>1. batch \in Seq(Jobs) /\ next \in Nat \ {0} /\ next <= Len(batch) /\ Len(batch) \in Nat
    BY <1>0, <1>12 DEF Fulfil, Fail, DispatchTypes
  <2> QED
    BY <1>0, <1>12, <2>1 DEF Fulfil, Fail, AfterAnswer, Current, sharedVars, gatherVars
<1>13. CASE Release
  BY <1>0, <1>13 DEF Release
<1>14. ASSUME NEW t \in Stoppers, StopQueue(t)
       PROVE  WorkerInv'
  BY <1>0, <1>14 DEF StopQueue, QueueAfterStop, MutexFree, Current, gatherVars, execVars
<1>15. CASE UNCHANGED <<sharedVars, batch, questions, execVars, worker>>
  BY <1>0, <1>15 DEF sharedVars, execVars, Current
<1> QED
  BY <1>1, <1>2, <1>3, <1>4, <1>5, <1>6, <1>7, <1>8, <1>9, <1>10, <1>11, <1>12, <1>13, <1>14, <1>15
  DEF Next, vars, gatherVars, Handler, Accept, Refuse, NotifyOne, Respond, Gathering, Executing,
      DeadlinePasses, SpuriousWake, Stop, NotifyAll, CloseServer, Host, Listen, MonitorReacts,
      ListenReturns, JoinMonitor, JoinWorker, Signal, ListenerFails, Gone

LEMMA LayoutInvStep ==
  ASSUME IInv, [Next]_vars
  PROVE  LayoutInv'
<1>0. /\ copied \in Nat /\ requests \in Seq(Items) /\ next \in Nat \ {0} /\ batch \in Seq(Jobs)
      /\ WorkerInv
  BY DEF IInv, TypeOK, DispatchTypes
<1>1. CASE BeginExecute
  <2> DEFINE first == [k \in 1..1 |-> 0]
  <2>1. first \in [1..copied' + 1 -> 0..Len(requests')] /\ LaidOut(first)'
    BY <1>1 DEF BeginExecute, LaidOut
  <2> QED
    BY <1>1, <2>1 DEF LayoutInv
<1>2. CASE Concat
  <2> DEFINE job == Current[copied + 1]
             longer == requests \o RequestsOf(job)
  <2>1. PICK start \in [1..copied + 1 -> 0..Len(requests)] : LaidOut(start)
    BY <1>2 DEF Concat, IInv, LayoutInv
  <2> HIDE DEF job, longer
  <2>0. Current \in Seq(Jobs) /\ Len(Current) \in Nat /\ copied + 1 <= Len(Current)
    <3>1. worker = "concat" /\ TypeOK
      BY <1>2 DEF Concat, IInv
    <3>2. copied < Len(Current)
      BY <1>0, <3>1 DEF WorkerInv
    <3> QED
      BY <1>0, <3>1, <3>2, CurrentType
  <2>2. job \in Jobs /\ Requests[job] \in Nat \ {0}
    BY <1>0, <2>0, JobsAssumption DEF job
  <2>3. /\ requests' = longer /\ copied' = copied + 1 /\ Current' = Current
        /\ worker' # "fulfil"
    BY <1>2 DEF Concat, Current, gatherVars, longer, job
  <2>4. /\ Len(longer) = Len(requests) + Requests[job]
        /\ \A i \in 1..Len(requests) : longer[i] = requests[i]
        /\ \A i \in 1..Requests[job] : longer[Len(requests) + i] = <<job, i>>
    <3>1. /\ RequestsOf(job) \in Seq(Items) /\ Len(RequestsOf(job)) = Requests[job]
          /\ \A i \in 1..Requests[job] : RequestsOf(job)[i] = <<job, i>>
      BY <2>2, RequestsOfType DEF RequestsOf
    <3>2. /\ Len(longer) = Len(requests) + Len(RequestsOf(job))
          /\ \A i \in 1..Len(requests) + Len(RequestsOf(job)) :
               longer[i] = IF i <= Len(requests) THEN requests[i]
                           ELSE RequestsOf(job)[i - Len(requests)]
      BY <1>0, <3>1, ConcatProperties DEF longer
    <3>3. Len(requests) \in Nat
      BY <1>0
    <3>4. ASSUME NEW i \in 1..Requests[job]
          PROVE  longer[Len(requests) + i] = <<job, i>>
      <4>1. /\ Len(requests) + i \in 1..Len(requests) + Len(RequestsOf(job))
            /\ ~(Len(requests) + i <= Len(requests))
            /\ Len(requests) + i - Len(requests) = i
        BY <2>2, <3>1, <3>3
      <4>2. longer[Len(requests) + i] = RequestsOf(job)[i]
        BY <3>2, <4>1
      <4> QED
        BY <3>1, <4>2
    <3>5. ASSUME NEW i \in 1..Len(requests)
          PROVE  longer[i] = requests[i]
      <4>1. i \in 1..Len(requests) + Len(RequestsOf(job)) /\ i <= Len(requests)
        BY <2>2, <3>1, <3>3
      <4> QED
        BY <3>2, <4>1
    <3> QED
      BY <3>1, <3>2, <3>4, <3>5
  <2> DEFINE extended == [k \in 1..copied + 2 |-> IF k = copied + 2 THEN Len(longer) ELSE start[k]]
  <2>5. extended \in [1..copied + 2 -> 0..Len(longer)]
    BY <1>0, <2>1, <2>2, <2>4
  <2>6. /\ start[1] = 0 /\ start[copied + 1] = Len(requests)
        /\ \A k \in 1..copied :
             /\ start[k + 1] = start[k] + Requests[Current[k]]
             /\ \A i \in 1..Requests[Current[k]] : requests[start[k] + i] = <<Current[k], i>>
    BY <2>1 DEF LaidOut
  <2>7. /\ job = Current[copied + 1] /\ extended[1] = 0 /\ extended[copied + 2] = Len(longer)
        /\ extended[copied + 1] = Len(requests)
    BY <1>0, <2>6 DEF job
  <2>8. ASSUME NEW k \in 1..copied + 1
        PROVE  /\ extended[k + 1] = extended[k] + Requests[Current[k]]
               /\ \A i \in 1..Requests[Current[k]] : longer[extended[k] + i] = <<Current[k], i>>
    <3>1. CASE k = copied + 1
      <4>1. Current[k] = job /\ extended[k] = Len(requests) /\ extended[k + 1] = Len(longer)
        BY <1>0, <2>7, <3>1
      <4> QED
        BY <2>4, <4>1
    <3>2. CASE k \in 1..copied
      <4>1. /\ extended[k] = start[k] /\ extended[k + 1] = start[k + 1]
            /\ start[k] \in 0..Len(requests) /\ start[k + 1] \in 0..Len(requests)
        BY <1>0, <2>1, <3>2
      <4>2. Current[k] \in Jobs /\ Requests[Current[k]] \in Nat
        BY <1>0, <2>0, <3>2, JobsAssumption
      <4>3. ASSUME NEW i \in 1..Requests[Current[k]]
            PROVE  longer[extended[k] + i] = <<Current[k], i>>
        <5>1. start[k] + i \in 1..Len(requests)
          <6>1. start[k + 1] = start[k] + Requests[Current[k]]
            BY <2>6, <3>2
          <6> HIDE DEF longer, extended
          <6> QED
            BY <4>1, <4>2, <4>3, <6>1
        <5>2. requests[start[k] + i] = <<Current[k], i>>
          BY <2>6, <3>2, <4>3
        <5> HIDE DEF longer, extended
        <5>3. longer[start[k] + i] = requests[start[k] + i]
          BY <2>4, <5>1
        <5> QED
          BY <4>1, <5>2, <5>3
      <4> QED
        BY <2>6, <3>2, <4>1, <4>3
    <3>3. k = copied + 1 \/ k \in 1..copied
      BY <1>0
    <3> QED
      BY <3>1, <3>2, <3>3
  <2> HIDE DEF extended
  <2>9. PICK new \in [1..copied + 2 -> 0..Len(longer)] :
          /\ new[1] = 0 /\ new[copied + 2] = Len(longer)
          /\ \A k \in 1..copied + 1 :
               /\ new[k + 1] = new[k] + Requests[Current[k]]
               /\ \A i \in 1..Requests[Current[k]] : longer[new[k] + i] = <<Current[k], i>>
    BY <2>5, <2>7, <2>8
  <2>10. copied' + 1 = copied + 2
    BY <1>0, <2>3
  <2>11. LaidOut(new)'
    BY <2>3, <2>9, <2>10 DEF LaidOut
  <2> QED
    BY <2>3, <2>9, <2>10, <2>11 DEF LayoutInv
<1>3. CASE PredictReturns
  <2>1. PICK start \in [1..copied + 1 -> 0..Len(requests)] : LaidOut(start)
    BY <1>3 DEF PredictReturns, IInv, LayoutInv
  <2>2. LaidOut(start)'
    BY <1>0, <1>3, <2>1
    DEF PredictReturns, LaidOut, Current, WorkerInv, execVars, gatherVars
  <2> QED
    BY <1>3, <2>1, <2>2 DEF PredictReturns, LayoutInv, execVars
<1>4. CASE Fulfil
  <2>1. PICK start \in [1..copied + 1 -> 0..Len(requests)] : LaidOut(start)
    BY <1>4 DEF Fulfil, IInv, LayoutInv
  <2>2. SUFFICES ASSUME worker' = "fulfil"
                 PROVE  LaidOut(start)'
    BY <1>4, <2>1 DEF Fulfil, AfterAnswer, LayoutInv
  <2>3. ~solo /\ next # Len(batch) /\ next' = next + 1 /\ UNCHANGED <<solo, batch, requests, copied>>
    BY <1>4, <2>2 DEF Fulfil, AfterAnswer, gatherVars
  <2>4. Current = batch /\ Current' = batch /\ copied = Len(batch) /\ next \in 1..copied
    BY <1>0, <1>4, <2>3 DEF Fulfil, Current, WorkerInv
  <2>5. offset' = start[next] + Requests[batch[next]]
    BY <1>4, <2>1, <2>3 DEF Fulfil, NextOffset, LaidOut
  <2>6. offset' = start[next']
    BY <2>1, <2>3, <2>4, <2>5 DEF LaidOut
  <2> QED
    BY <2>1, <2>3, <2>4, <2>6 DEF LaidOut
<1>5. CASE worker' \notin {"concat", "predict", "fulfil"}
  BY <1>5 DEF LayoutInv
<1>6. CASE worker' = worker /\ UNCHANGED <<batch, execVars>>
  <2>1. \A start : LaidOut(start)' <=> LaidOut(start)
    BY <1>6 DEF LaidOut, Current, execVars
  <2> QED
    BY <1>6, <2>1 DEF IInv, LayoutInv, execVars
<1> QED
  BY <1>1, <1>2, <1>3, <1>4, <1>5, <1>6
  DEF Next, vars, gatherVars, execVars, Handler, Accept, Refuse, Enqueue, NotifyOne, Respond, Woken,
      Gathering, FallAsleep, ExitWorker, StartGathering, Take, CloseBatch, WaitForMore, TimeOut,
      Rejoin, Executing, PredictThrows, Fail, AfterAnswer, Release, DeadlinePasses, SpuriousWake,
      Stop, StopQueue, NotifyAll, CloseServer, Host, Listen, MonitorReacts, ListenReturns,
      JoinMonitor, JoinWorker, Signal, ListenerFails, Gone

LEMMA FailureInvStep ==
  ASSUME IInv, [Next]_vars
  PROVE  FailureInv'
<1> USE DEF FailureInv
<1>0. /\ FailureInv /\ WorkerInv /\ TypeOK
      /\ next \in Nat \ {0} /\ batch \in Seq(Jobs) /\ solo \in BOOLEAN
  BY DEF IInv, TypeOK, DispatchTypes
<1>1. CASE PredictReturns
  <2>1. Current \in Seq(Jobs) /\ Current' = Current
    BY <1>0, <1>1, CurrentType DEF PredictReturns, Current, gatherVars, execVars
  <2>2. ASSUME NEW k \in 1..Len(Current)
        PROVE  Flaw[Current[k]] = "none"
    <3>1. Current[k] \in ToSet(Current)
      BY <2>1 DEF ToSet
    <3> QED
      BY <1>1, <3>1 DEF PredictReturns, FlawsOf
  <2> QED
    BY <1>1, <2>1, <2>2 DEF PredictReturns
<1>2. ASSUME NEW kind \in Flaws, PredictThrows(kind)
      PROVE  FailureInv'
  <2>1. SUFFICES ASSUME worker' = "fail"
                 PROVE  FailureInv'
    BY <1>2 DEF PredictThrows
  <2>2. /\ kind \in Thrown /\ failure' = kind /\ ~RetryAlone(kind) /\ UNCHANGED <<solo, batch, next>>
        /\ worker = "predict"
    BY <1>2, <2>1 DEF PredictThrows, gatherVars
  <2>3. Current \in Seq(Jobs) /\ Len(Current) \in Nat \ {0} /\ Current' = Current
    BY <1>0, <2>2, CurrentType DEF Current
  <2>4. kind \in {"input", "internal"}
    BY <2>2 DEF Flaws, Thrown, FlawsOf
  <2>5. ASSUME kind = "input"
        PROVE  Len(Current) = 1 /\ Flaw[Current[1]] = "input"
    <3>0. ~(Len(Current) > 1)
      BY <2>2, <2>5 DEF RetryAlone
    <3> DEFINE n == Len(Current)
    <3>1. n = 1
      <4>1. n \in Nat \ {0} /\ ~(n > 1)
        BY <2>3, <3>0
      <4> HIDE DEF n
      <4> QED
        BY <4>1
    <3>2. "input" \in FlawsOf(Current)
      BY <2>2, <2>5 DEF Thrown
    <3>3. PICK j \in ToSet(Current) : Flaw[j] = "input"
      BY <3>2 DEF FlawsOf
    <3>4. PICK i \in 1..Len(Current) : Current[i] = j
      BY <2>3, <3>3 DEF ToSet
    <3> QED
      BY <3>1, <3>3, <3>4
  <2> QED
    BY <2>1, <2>2, <2>3, <2>4, <2>5
<1>3. CASE Fulfil
  <2>1. SUFFICES ASSUME worker' = "fulfil"
                 PROVE  FailureInv'
    BY <1>3 DEF Fulfil, AfterAnswer
  <2>2. Current' = Current
    BY <1>3, <2>1 DEF Fulfil, AfterAnswer, Current, gatherVars
  <2> QED
    BY <1>0, <1>3, <2>1, <2>2 DEF Fulfil
<1>4. CASE Fail
  <2>1. SUFFICES ASSUME worker' = "fail"
                 PROVE  FailureInv'
    BY <1>4 DEF Fail, AfterAnswer
  <2>2. Current' = Current /\ failure' = failure
    BY <1>4, <2>1 DEF Fail, AfterAnswer, Current, gatherVars
  <2> QED
    BY <1>0, <1>4, <2>1, <2>2 DEF Fail
<1>5. CASE worker' \notin {"fulfil", "fail"}
  BY <1>5
<1>6. CASE UNCHANGED <<worker, batch, solo, next, failure>>
  BY <1>0, <1>6 DEF Current
<1> QED
  BY <1>1, <1>2, <1>3, <1>4, <1>5, <1>6
  DEF Next, vars, gatherVars, execVars, Handler, Accept, Refuse, Enqueue, NotifyOne, Respond, Woken,
      Gathering, FallAsleep, ExitWorker, StartGathering, Take, CloseBatch, WaitForMore, TimeOut,
      Rejoin, Executing, BeginExecute, Concat, Release, DeadlinePasses, SpuriousWake,
      Stop, StopQueue, NotifyAll, CloseServer, Host, Listen, MonitorReacts, ListenReturns,
      JoinMonitor, JoinWorker, Signal, ListenerFails, Gone

LEMMA PendingStep ==
  ASSUME IInv, [Next]_vars
  PROVE  PendingAccounts' /\ SharedTypes'
<1> USE DEF PendingAccounts, SharedTypes
<1>0. /\ SharedTypes /\ PendingAccounts /\ batch \in Seq(Jobs)
      /\ MaxPending \in Nat /\ Len(queue) \in Nat /\ Len(batch) \in Nat
  BY LimitsAssumption DEF IInv, TypeOK, DispatchTypes
<1>1. ASSUME NEW j \in Jobs, Enqueue(j)
      PROVE  PendingAccounts' /\ SharedTypes'
  <2>1. queue' = Append(queue, j) /\ pending' = pending + 1 /\ UNCHANGED <<stopping, batch>>
        /\ pending < MaxPending
    BY <1>0, <1>1 DEF Enqueue, Admits, Full, gatherVars
  <2>2. queue' \in Seq(Jobs) /\ Len(queue') = Len(queue) + 1
    BY <1>0, <2>1
  <2> QED
    BY <1>0, <2>1, <2>2
<1>2. CASE Take
  <2>1. /\ queue # <<>> /\ queue' = Tail(queue) /\ batch' = Append(batch, Head(queue))
        /\ UNCHANGED <<pending, stopping>>
    BY <1>2 DEF Take, CanTake
  <2>2. queue' \in Seq(Jobs) /\ Len(queue') = Len(queue) - 1 /\ Len(batch') = Len(batch) + 1
    BY <1>0, <2>1
  <2> QED
    BY <1>0, <2>1, <2>2
<1>3. CASE Release
  <2>1. pending' = pending - Len(batch) /\ batch' = <<>> /\ UNCHANGED <<queue, stopping>>
    BY <1>3 DEF Release, Returned
  <2>2. Len(batch') = 0
    BY <2>1
  <2> QED
    BY <1>0, <2>1, <2>2
<1>4. ASSUME NEW t \in Stoppers, StopQueue(t)
      PROVE  PendingAccounts' /\ SharedTypes'
  <2>1. pending' = pending - Len(queue) /\ queue' = <<>> /\ stopping' = TRUE /\ batch' = batch
    BY <1>4 DEF StopQueue, QueueAfterStop, gatherVars
  <2>2. Len(queue') = 0 /\ queue' \in Seq(Jobs)
    BY <2>1
  <2>3. stopping' \in BOOLEAN
    BY <2>1
  <2> QED
    BY <1>0, <2>1, <2>2, <2>3
<1>5. CASE UNCHANGED <<sharedVars, batch>>
  BY <1>0, <1>5 DEF sharedVars
<1> QED
  BY <1>1, <1>2, <1>3, <1>4, <1>5
  DEF Next, vars, gatherVars, Handler, Accept, Refuse, NotifyOne, Respond, Gathering, FallAsleep,
      ExitWorker, StartGathering, CloseBatch, WaitForMore, TimeOut, Rejoin, Executing, BeginExecute,
      Concat, PredictReturns, PredictThrows, Fulfil, Fail, DeadlinePasses, SpuriousWake, Stop,
      NotifyAll, CloseServer, Host, Listen, MonitorReacts, ListenReturns, JoinMonitor, JoinWorker,
      Signal, ListenerFails, Gone

LEMMA WakeupStep ==
  ASSUME IInv, [Next]_vars
  PROVE  NoLostWakeup'
<1> USE DEF NoLostWakeup, HasCause
<1>0. NoLostWakeup /\ JobTypes /\ HostTypes /\ Stoppers = {"monitor", "main"}
  BY DEF IInv, TypeOK, Stoppers
<1>1. ASSUME NEW j \in Jobs, Enqueue(j)
      PROVE  NoLostWakeup'
  BY <1>0, <1>1 DEF Enqueue, JobTypes
<1>2. ASSUME NEW t \in Stoppers, StopQueue(t)
      PROVE  NoLostWakeup'
  BY <1>0, <1>2 DEF StopQueue, HostTypes
<1>3. CASE FallAsleep
  BY <1>3 DEF FallAsleep, sharedVars
<1>4. CASE worker' # "asleep"
  BY <1>4
<1>5. ASSUME NEW j \in Jobs, Accept(j) \/ Refuse(j) \/ Respond(j)
      PROVE  NoLostWakeup'
  BY <1>0, <1>5 DEF Accept, Refuse, Respond, JobTypes, sharedVars, hostVars
<1>6. ASSUME NEW t \in Stoppers, CloseServer(t)
      PROVE  NoLostWakeup'
  BY <1>0, <1>6 DEF CloseServer, HostTypes, jobVars, sharedVars
<1>7. CASE MonitorReacts
  BY <1>0, <1>7 DEF MonitorReacts, HostTypes, jobVars, sharedVars
<1>8. CASE JoinMonitor
  <2>1. stopper["main"] = "watch" /\ stopper["monitor"] \in {"watch", "done"}
    BY <1>8 DEF JoinMonitor, IInv, HostInv
  <2> QED
    BY <1>0, <1>8, <2>1 DEF JoinMonitor, jobVars, sharedVars
<1>9. CASE UNCHANGED <<jobVars, sharedVars, stopper, worker>>
  BY <1>0, <1>9 DEF jobVars, sharedVars
<1> QED
  BY <1>1, <1>2, <1>3, <1>4, <1>5, <1>6, <1>7, <1>8, <1>9
  DEF Next, vars, hostVars, Handler, NotifyOne, Woken, Gathering, ExitWorker, StartGathering, Take,
      CloseBatch, WaitForMore, TimeOut, Rejoin, Executing, BeginExecute, Concat, PredictReturns,
      PredictThrows, Fulfil, Fail, AfterAnswer, Release, DeadlinePasses, SpuriousWake, Stop,
      NotifyAll, Host, Listen, ListenReturns, JoinWorker, Signal, ListenerFails, Gone

LEMMA ResultsStep ==
  ASSUME IInv, [Next]_vars
  PROVE  OwnResults' /\ InputErrorsAreOwn'
<1> USE DEF OwnResults, InputErrorsAreOwn
<1>0. OwnResults /\ InputErrorsAreOwn /\ JobTypes
  BY DEF IInv, TypeOK
<1>1. CASE Fulfil
  <2>1. batch[next] \in Jobs /\ SliceOf(batch[next]) = RequestsOf(batch[next])
    BY <1>1, CurrentType, SliceIsOwn DEF IInv, Fulfil
  <2>2. \A j \in Jobs : RequestsOf(j)' = RequestsOf(j)
    BY DEF RequestsOf
  <2>3. /\ answer' = [answer EXCEPT ![batch[next]] = "ok"]
        /\ slice'[batch[next]].results = RequestsOf(batch[next])
        /\ \A j \in Jobs : j # batch[next] => slice'[j] = slice[j]
    BY <1>0, <1>1, <2>1 DEF Fulfil, JobTypes
  <2> QED
    BY <1>0, <2>1, <2>2, <2>3 DEF JobTypes
<1>2. CASE Fail
  <2>1. /\ batch[next] \in Jobs
        /\ failure \in {"input", "internal"}
        /\ failure = "input" => Flaw[batch[next]] = "input"
    <3>1. /\ batch[next] \in Jobs /\ batch \in Seq(Jobs) /\ next \in Nat \ {0}
          /\ next <= Len(batch)
      BY <1>2, CurrentType DEF Fail, IInv, TypeOK, DispatchTypes, WorkerInv
    <3>2. /\ failure \in {"input", "internal"}
          /\ failure = "input" => Len(Current) = 1 /\ Flaw[Current[1]] = "input"
      BY <1>2 DEF Fail, IInv, FailureInv
    <3>3. Len(Current) = 1 => Current[1] = batch[next]
      BY <3>1 DEF Current
    <3> QED
      BY <3>1, <3>2, <3>3
  <2>2. answer' = [answer EXCEPT ![batch[next]] = failure] /\ slice' = slice
    BY <1>2 DEF Fail
  <2>3. \A j \in Jobs : RequestsOf(j)' = RequestsOf(j)
    BY DEF RequestsOf
  <2> QED
    BY <1>0, <2>1, <2>2, <2>3 DEF JobTypes
<1>3. ASSUME slice' = slice,
             \A j \in Jobs : answer'[j] = answer[j] \/ answer'[j] = "unavailable"
      PROVE  OwnResults' /\ InputErrorsAreOwn'
  <2>1. \A j \in Jobs : RequestsOf(j)' = RequestsOf(j)
    BY DEF RequestsOf
  <2> QED
    BY <1>0, <1>3, <2>1
<1>4. ASSUME NEW j \in Jobs, Refuse(j)
      PROVE  OwnResults' /\ InputErrorsAreOwn'
  BY <1>0, <1>3, <1>4 DEF Refuse, JobTypes
<1>5. ASSUME NEW t \in Stoppers, StopQueue(t)
      PROVE  OwnResults' /\ InputErrorsAreOwn'
  BY <1>0, <1>3, <1>5 DEF StopQueue
<1>6. CASE UNCHANGED <<answer, slice>>
  BY <1>3, <1>6
<1> QED
  BY <1>1, <1>2, <1>4, <1>5, <1>6
  DEF Next, vars, jobVars, Handler, Accept, Enqueue, NotifyOne, Respond, Gathering, FallAsleep,
      ExitWorker, StartGathering, Take, CloseBatch, WaitForMore, TimeOut, Rejoin, Executing,
      BeginExecute, Concat, PredictReturns, PredictThrows, Release, DeadlinePasses, SpuriousWake,
      Stop, NotifyAll, CloseServer, Host, Listen, MonitorReacts, ListenReturns, JoinMonitor,
      JoinWorker, Signal, ListenerFails, Gone

LEMMA HostInvStep ==
  ASSUME IInv, [Next]_vars
  PROVE  HostInv'
<1> USE DEF HostInv
<1>0. HostInv /\ JobTypes /\ HostTypes /\ Stoppers = {"monitor", "main"}
  BY DEF IInv, TypeOK, Stoppers
<1>1. ASSUME NEW j \in Jobs, Accept(j)
      PROVE  HostInv'
  BY <1>0, <1>1 DEF Accept, sharedVars, hostVars
<1>2. ASSUME NEW j \in Jobs, Refuse(j) \/ NotifyOne(j) \/ Respond(j)
      PROVE  HostInv'
  <2>1. main \notin {"join monitor", "destroy", "gone"}
    BY <1>0, <1>2 DEF Refuse, NotifyOne, Respond, Busy
  <2>2. UNCHANGED <<queue, stopping, open, main, stopper>>
    BY <1>2 DEF Refuse, NotifyOne, Respond, sharedVars, hostVars
  <2> QED
    BY <1>0, <2>1, <2>2
<1>3. ASSUME NEW j \in Jobs, Enqueue(j)
      PROVE  HostInv'
  <2>1. main \notin {"join monitor", "destroy", "gone"}
    BY <1>0, <1>3 DEF Enqueue, Busy
  <2> QED
    BY <1>0, <1>3, <2>1 DEF Enqueue, Admits, hostVars
<1>4. CASE Take
  <2>1. ~stopping
    BY <1>0, <1>4 DEF Take, CanTake
  <2> QED
    BY <1>0, <1>4, <2>1 DEF Take, Busy, jobVars, hostVars
<1>5. ASSUME NEW t \in Stoppers, StopQueue(t)
      PROVE  HostInv'
  <2>1. main \in {"start", "listen", "join monitor"} => stopper["main"] # "stop"
    BY <1>0
  <2>2. main \in {"start", "listen", "join monitor"} => stopper'["main"] = "watch"
    BY <1>0, <1>5, <2>1 DEF StopQueue, HostTypes
  <2> QED
    BY <1>0, <1>5, <2>2 DEF StopQueue, QueueAfterStop, Busy
<1>6. ASSUME NEW t \in Stoppers, NotifyAll(t) \/ CloseServer(t)
      PROVE  HostInv'
  <2>1. main \in {"start", "listen", "join monitor"} => stopper'["main"] = "watch"
    BY <1>0, <1>6 DEF NotifyAll, CloseServer, HostTypes
  <2>2. UNCHANGED <<queue, stopping, main, pc>> /\ (~open => ~open')
    BY <1>6 DEF NotifyAll, CloseServer, jobVars, sharedVars
  <2>3. worker \in {"off", "exit"} => worker' = worker
    BY <1>6 DEF NotifyAll, CloseServer, Woken
  <2>4. Busy' = Busy
    BY <2>2 DEF Busy
  <2> QED
    BY <1>0, <2>1, <2>2, <2>3, <2>4
<1>7. CASE Listen
  BY <1>0, <1>7 DEF Listen, sharedVars
<1>8. CASE MonitorReacts
  BY <1>0, <1>8 DEF MonitorReacts, HostTypes, Busy, jobVars, sharedVars
<1>9. CASE ListenReturns
  BY <1>0, <1>9 DEF ListenReturns, Busy, jobVars, sharedVars
<1>10. CASE JoinMonitor
  BY <1>0, <1>10 DEF JoinMonitor, Busy, jobVars, sharedVars
<1>11. CASE JoinWorker
  <2>1. Busy' = Busy /\ UNCHANGED <<queue, stopping, open, worker>> /\ main' = "gone"
    BY <1>11 DEF JoinWorker, Busy, jobVars, sharedVars
  <2>2. main = "destroy" /\ worker \in {"off", "exit"}
    BY <1>11 DEF JoinWorker
  <2> QED
    BY <1>0, <2>1, <2>2
<1>12. CASE Signal \/ ListenerFails
  <2>1. /\ Busy' = Busy /\ UNCHANGED <<queue, stopping, worker, main, stopper>>
        /\ ~open => ~open'
    BY <1>12 DEF Signal, ListenerFails, Busy, jobVars, sharedVars
  <2> QED
    BY <1>0, <2>1
<1>13. CASE worker \notin {"off", "exit"} /\ UNCHANGED <<pc, queue, stopping, hostVars>>
  BY <1>0, <1>13 DEF Busy, hostVars
<1>14. CASE UNCHANGED <<pc, queue, stopping, hostVars, worker>>
  BY <1>0, <1>14 DEF Busy, hostVars
<1> QED
  BY <1>1, <1>2, <1>3, <1>4, <1>5, <1>6, <1>7, <1>8, <1>9, <1>10, <1>11, <1>12, <1>13, <1>14
  DEF Next, vars, jobVars, sharedVars, Handler, Gathering, FallAsleep, ExitWorker, StartGathering,
      CloseBatch, WaitForMore, TimeOut, Rejoin, Executing, BeginExecute, Concat, PredictReturns,
      PredictThrows, Fulfil, Fail, Release, DeadlinePasses, SpuriousWake, Stop, Host, Gone

LEMMA HeldInvStep ==
  ASSUME IInv, [Next]_vars
  PROVE  HeldInv'
<1>0. /\ queue \in Seq(Jobs) /\ batch \in Seq(Jobs) /\ next \in Nat \ {0}
      /\ Len(queue) \in Nat /\ Len(batch) \in Nat /\ next <= Len(batch) + 1
  <2>1. queue \in Seq(Jobs) /\ batch \in Seq(Jobs) /\ next \in Nat \ {0}
    BY DEF IInv, TypeOK, SharedTypes, DispatchTypes
  <2>2. next = 1 \/ next <= Len(batch) \/ next = Len(batch) + 1
    BY DEF IInv, TypeOK, DispatchTypes, WorkerInv, Collecting
  <2> QED
    BY <2>1, <2>2
<1>1. /\ \A i \in 1..Len(queue) : queue[i] \in Jobs
      /\ \A k \in 1..Len(batch) : batch[k] \in Jobs
      /\ \A k \in 1..next - 1 : k \in 1..Len(batch)
      /\ \A k \in next..Len(batch) : k \in 1..Len(batch)
      /\ \A k \in 1..Len(batch) : k \in 1..next - 1 \/ k \in next..Len(batch)
  BY <1>0
<1>2. JobTypes /\ DistinctInv /\ LineInv /\ WaiterInv
  BY DEF IInv, TypeOK, HeldInv
<1>3. ASSUME NEW j \in Jobs, pc[j] \in {"idle", "submit"}
      PROVE  /\ answer[j] = "none"
             /\ \A i \in 1..Len(queue) : queue[i] # j
             /\ \A k \in 1..Len(batch) : batch[k] # j
  BY <1>1, <1>2, <1>3 DEF LineInv, WaiterInv, Attended
<1>4. ASSUME NEW j \in Jobs, Accept(j) \/ Refuse(j) \/ NotifyOne(j) \/ Respond(j)
      PROVE  HeldInv'
  <2>1. /\ UNCHANGED <<queue, batch, next>>
        /\ \A i \in Jobs : i # j => pc'[i] = pc[i] /\ answer'[i] = answer[i]
    BY <1>2, <1>4 DEF Accept, Refuse, NotifyOne, Respond, JobTypes, sharedVars, gatherVars, execVars
  <2>2. \/ pc[j] = "idle" /\ pc'[j] = "submit" /\ answer'[j] = answer[j]
        \/ pc[j] = "submit" /\ pc'[j] = "done" /\ answer'[j] = "unavailable"
        \/ pc[j] = "notify" /\ pc'[j] = "await" /\ answer'[j] = answer[j]
        \/ pc[j] = "await" /\ pc'[j] = "done" /\ answer'[j] = answer[j] /\ answer[j] # "none"
    BY <1>2, <1>4 DEF Accept, Refuse, NotifyOne, Respond, JobTypes
  <2>3. DistinctInv'
    BY <1>2, <2>1 DEF DistinctInv
  <2>4. LineInv'
    <3>1. ASSUME NEW i \in Jobs, Attended(i), answer[i] = "none"
          PROVE  pc'[i] \in {"notify", "await"} /\ answer'[i] = "none"
      BY <2>1, <2>2, <3>1 DEF Attended
    <3>2. ASSUME NEW i \in Jobs, pc[i] \notin {"idle", "submit"}, answer[i] # "none"
          PROVE  pc'[i] \notin {"idle", "submit"} /\ answer'[i] # "none"
      BY <2>1, <2>2, <3>2
    <3>3. \A i \in 1..Len(queue) :
            pc'[queue[i]] \in {"notify", "await"} /\ answer'[queue[i]] = "none"
      BY <1>1, <1>2, <3>1 DEF LineInv
    <3>4. \A k \in next..Len(batch) :
            pc'[batch[k]] \in {"notify", "await"} /\ answer'[batch[k]] = "none"
      BY <1>1, <1>2, <3>1 DEF LineInv
    <3>5. \A k \in 1..next - 1 : pc'[batch[k]] \notin {"idle", "submit"} /\ answer'[batch[k]] # "none"
      BY <1>1, <1>2, <3>2 DEF LineInv
    <3> QED
      BY <2>1, <3>3, <3>4, <3>5 DEF LineInv, Attended
  <2>5. WaiterInv'
    BY <1>2, <2>1, <2>2 DEF WaiterInv, Attended
  <2> QED
    BY <2>3, <2>4, <2>5 DEF HeldInv
<1>5. ASSUME NEW j \in Jobs, Enqueue(j)
      PROVE  HeldInv'
  <2>1. /\ pc' = [pc EXCEPT ![j] = "notify"] /\ queue' = Append(queue, j)
        /\ UNCHANGED <<batch, next, answer>> /\ pc[j] = "submit"
    BY <1>5 DEF Enqueue, gatherVars, execVars
  <2>2. /\ Len(queue') = Len(queue) + 1 /\ queue'[Len(queue) + 1] = j
        /\ \A i \in 1..Len(queue) : queue'[i] = queue[i]
    BY <1>0, <2>1
  <2>3. /\ \A i \in 1..Len(queue') : i \in 1..Len(queue) \/ i = Len(queue) + 1
        /\ \A i \in 1..Len(queue) : i \in 1..Len(queue')
        /\ Len(queue) + 1 \in 1..Len(queue')
    BY <1>0, <2>2
  <2>4. /\ \A i \in Jobs : i # j => pc'[i] = pc[i]
        /\ pc'[j] = "notify"
    BY <1>2, <2>1 DEF JobTypes
  <2>5. DistinctInv'
    BY <1>2, <1>3, <2>1, <2>2, <2>3 DEF DistinctInv
  <2>6. LineInv'
    BY <1>1, <1>2, <1>3, <2>1, <2>2, <2>3, <2>4 DEF LineInv, Attended
  <2>7. WaiterInv'
    BY <1>2, <2>1, <2>2, <2>3, <2>4 DEF WaiterInv, Attended
  <2> QED
    BY <2>5, <2>6, <2>7 DEF HeldInv
<1>6. CASE Take
  <2>1. /\ queue # <<>> /\ queue' = Tail(queue) /\ batch' = Append(batch, Head(queue))
        /\ UNCHANGED <<next, pc, answer>>
    BY <1>6 DEF Take, CanTake, execVars, jobVars
  <2>2. next = 1
    BY <1>6 DEF Take, IInv, WorkerInv, Collecting
  <2>3. /\ Len(queue') = Len(queue) - 1 /\ Len(queue) >= 1
        /\ \A i \in 1..Len(queue') : queue'[i] = queue[i + 1]
    BY <1>0, <2>1
  <2>4. /\ Len(batch') = Len(batch) + 1 /\ batch'[Len(batch) + 1] = queue[1]
        /\ \A k \in 1..Len(batch) : batch'[k] = batch[k]
    BY <1>0, <2>1
  <2>5. /\ \A i \in 1..Len(queue') : i + 1 \in 1..Len(queue) /\ i + 1 # 1
        /\ \A i \in 1..Len(queue) : i = 1 \/ (i - 1 \in 1..Len(queue') /\ (i - 1) + 1 = i)
        /\ \A i, k \in 1..Len(queue') : i + 1 = k + 1 => i = k
        /\ 1 \in 1..Len(queue)
        /\ \A k \in 1..Len(batch') : k \in 1..Len(batch) \/ k = Len(batch) + 1
        /\ \A k \in 1..Len(batch) : k \in 1..Len(batch')
        /\ Len(batch) + 1 \in 1..Len(batch')
    BY <1>0, <2>3, <2>4
  <2>6. DistinctInv'
    <3>1. ASSUME NEW i \in 1..Len(queue'), NEW k \in 1..Len(queue'), queue'[i] = queue'[k]
          PROVE  i = k
      <4>1. queue[i + 1] = queue[k + 1] /\ i + 1 \in 1..Len(queue) /\ k + 1 \in 1..Len(queue)
        BY <2>3, <2>5, <3>1
      <4>2. i + 1 = k + 1
        BY <1>2, <4>1 DEF DistinctInv
      <4> QED
        BY <2>5, <4>2
    <3>2. \A i, k \in 1..Len(batch') : batch'[i] = batch'[k] => i = k
      BY <1>2, <2>4, <2>5 DEF DistinctInv
    <3>3. ASSUME NEW i \in 1..Len(queue'), NEW k \in 1..Len(batch')
          PROVE  queue'[i] # batch'[k]
      BY <1>2, <2>3, <2>4, <2>5 DEF DistinctInv
    <3> QED
      BY <3>1, <3>2, <3>3 DEF DistinctInv
  <2>7. LineInv'
    <3>1. ASSUME NEW i \in 1..Len(queue')
          PROVE  Attended(queue'[i]) /\ answer[queue'[i]] = "none"
      <4>1. queue'[i] = queue[i + 1] /\ i + 1 \in 1..Len(queue)
        BY <2>3, <2>5, <3>1
      <4>2. Attended(queue[i + 1]) /\ answer[queue[i + 1]] = "none"
        BY <1>2, <4>1 DEF LineInv
      <4> QED
        BY <4>1, <4>2
    <3>2. \A k \in 1..Len(batch') : Attended(batch'[k]) /\ answer[batch'[k]] = "none"
      BY <1>2, <2>2, <2>4, <2>5 DEF LineInv
    <3>3. \A k \in 1..next' - 1 : FALSE
      BY <2>1, <2>2
    <3> QED
      BY <2>1, <2>2, <3>1, <3>2, <3>3 DEF LineInv, Attended
  <2>8. WaiterInv'
    <3>1. ASSUME NEW j \in Jobs, Attended(j), answer[j] = "none"
          PROVE  \/ \E i \in 1..Len(queue') : queue'[i] = j
                 \/ \E k \in 1..Len(batch') : batch'[k] = j
      <4>1. CASE \E k \in 1..Len(batch) : batch[k] = j
        BY <2>4, <2>5, <4>1
      <4>2. CASE \E i \in 1..Len(queue) : queue[i] = j
        <5>1. PICK i \in 1..Len(queue) : queue[i] = j
          BY <4>2
        <5>2. CASE i = 1
          BY <2>4, <2>5, <5>1, <5>2
        <5>3. CASE i # 1
          <6> DEFINE k == i - 1
          <6>1. k \in 1..Len(queue') /\ k + 1 = i
            BY <2>5, <5>3
          <6>2. queue'[k] = j
            BY <2>3, <5>1, <6>1
          <6> QED
            BY <6>1, <6>2
        <5> QED
          BY <5>2, <5>3
      <4> QED
        BY <1>2, <2>2, <3>1, <4>1, <4>2 DEF WaiterInv
    <3> QED
      BY <1>2, <2>1, <2>2, <3>1 DEF WaiterInv, Attended
  <2> QED
    BY <2>6, <2>7, <2>8 DEF HeldInv
<1>7. ASSUME NEW r \in {"ok", "input", "internal"}, next <= Len(batch),
             answer' = [answer EXCEPT ![batch[next]] = r], next' = next + 1,
             UNCHANGED <<queue, batch, pc>>
      PROVE  HeldInv'
  <2> DEFINE job == batch[next]
  <2>1. job \in Jobs /\ next \in 1..Len(batch) /\ next \in next..Len(batch)
    BY <1>0, <1>7
  <2>2. pc[job] \notin {"idle", "submit", "done"} /\ answer'[job] # "none"
    BY <1>2, <1>7, <2>1 DEF JobTypes, LineInv, Attended
  <2>3. \A j \in Jobs : j # job => answer'[j] = answer[j]
    BY <1>2, <1>7, <2>1 DEF JobTypes
  <2>4. \A k \in 1..Len(batch) : batch[k] = job => k = next
    BY <1>2, <2>1 DEF DistinctInv
  <2>5. /\ \A k \in next'..Len(batch) : k \in next..Len(batch) /\ k # next
        /\ \A k \in next..Len(batch) : k = next \/ k \in next'..Len(batch)
        /\ \A k \in 1..next' - 1 : k = next \/ k \in 1..next - 1
    BY <1>0, <1>7
  <2>6. DistinctInv'
    BY <1>2, <1>7 DEF DistinctInv
  <2>7. LineInv'
    <3>1. \A i \in 1..Len(queue) : Attended(queue[i]) /\ answer'[queue[i]] = "none"
      BY <1>1, <1>2, <2>1, <2>3 DEF DistinctInv, LineInv
    <3>2. \A k \in next'..Len(batch) : Attended(batch[k]) /\ answer'[batch[k]] = "none"
      BY <1>1, <1>2, <2>3, <2>4, <2>5 DEF LineInv
    <3>3. \A k \in 1..next' - 1 :
            pc[batch[k]] \notin {"idle", "submit"} /\ answer'[batch[k]] # "none"
      BY <1>1, <1>2, <2>2, <2>3, <2>5 DEF LineInv
    <3> QED
      BY <1>7, <3>1, <3>2, <3>3 DEF LineInv, Attended
  <2>8. WaiterInv'
    BY <1>2, <1>7, <2>2, <2>3, <2>5 DEF WaiterInv, Attended
  <2> QED
    BY <2>6, <2>7, <2>8 DEF HeldInv
<1>8. CASE Fulfil
  BY <1>7, <1>8 DEF Fulfil, IInv, WorkerInv, sharedVars, gatherVars
<1>9. CASE Fail
  <2>1. failure \in {"input", "internal"} /\ next <= Len(batch)
    BY <1>9 DEF Fail, IInv, FailureInv, WorkerInv
  <2> QED
    BY <1>7, <1>9, <2>1 DEF Fail, sharedVars, gatherVars
<1>10. CASE Release
  <2>1. batch' = <<>> /\ next' = 1 /\ UNCHANGED <<queue, pc, answer>> /\ next = Len(batch) + 1
    BY <1>10 DEF Release, IInv, WorkerInv, jobVars
  <2>2. /\ \A k \in 1..Len(batch') : FALSE
        /\ \A k \in next'..Len(batch') : FALSE
        /\ \A k \in 1..next' - 1 : FALSE
        /\ \A k \in next..Len(batch) : FALSE
    BY <1>0, <2>1
  <2> QED
    BY <1>2, <2>1, <2>2 DEF HeldInv, DistinctInv, LineInv, WaiterInv, Attended
<1>11. ASSUME NEW t \in Stoppers, StopQueue(t)
       PROVE  HeldInv'
  <2>1. queue' = <<>> /\ UNCHANGED <<batch, next, pc>>
    BY <1>11 DEF StopQueue, QueueAfterStop, gatherVars, execVars
  <2>2. \A i \in 1..Len(queue') : FALSE
    BY <2>1
  <2>3. ToSet(queue) = {queue[i] : i \in 1..Len(queue)}
    BY <1>0 DEF ToSet
  <2>4. /\ \A i \in 1..Len(queue) : answer'[queue[i]] = "unavailable"
        /\ \A j \in Jobs : (\A i \in 1..Len(queue) : queue[i] # j) => answer'[j] = answer[j]
        /\ \A j \in Jobs : answer'[j] = answer[j] \/ answer'[j] = "unavailable"
    BY <1>1, <1>11, <2>3 DEF StopQueue
  <2>5. DistinctInv'
    BY <1>2, <2>1, <2>2 DEF DistinctInv
  <2>6. LineInv'
    <3>1. \A k \in 1..Len(batch) : answer'[batch[k]] = answer[batch[k]]
      BY <1>1, <1>2, <2>4 DEF DistinctInv
    <3> QED
      BY <1>1, <1>2, <2>1, <2>2, <3>1 DEF LineInv, Attended
  <2>7. WaiterInv'
    BY <1>2, <1>3, <2>1, <2>2, <2>4 DEF WaiterInv, Attended
  <2> QED
    BY <2>5, <2>6, <2>7 DEF HeldInv
<1>12. CASE UNCHANGED <<queue, batch, next, pc, answer>>
  BY <1>2, <1>12 DEF HeldInv, DistinctInv, LineInv, WaiterInv, Attended
<1> QED
  BY <1>4, <1>5, <1>6, <1>8, <1>9, <1>10, <1>11, <1>12
  DEF Next, vars, jobVars, sharedVars, gatherVars, execVars, Handler, Gathering, FallAsleep,
      ExitWorker, StartGathering, CloseBatch, WaitForMore, TimeOut, Rejoin, Executing, BeginExecute,
      Concat, PredictReturns, PredictThrows, DeadlinePasses, SpuriousWake, Stop, NotifyAll,
      CloseServer, Host, Listen, MonitorReacts, ListenReturns, JoinMonitor, JoinWorker, Signal,
      ListenerFails, Gone

LEMMA GatherInvStep ==
  ASSUME IInv, [Next]_vars
  PROVE  GatherInv'
<1>0. /\ GatherInv /\ batch \in Seq(Jobs) /\ queue \in Seq(Jobs)
  BY DEF IInv, TypeOK, SharedTypes, DispatchTypes
<1>1. CASE Take
  <2>1. /\ Head(queue) \in Jobs /\ batch' = Append(batch, Head(queue))
        /\ questions' = questions + Questions[Head(queue)]
        /\ questions' <= MaxBatch
        /\ ~Batching => batch = <<>>
    BY <1>0, <1>1 DEF Take, CanTake
  <2>2. questions' = QuestionsOf(batch')
    BY <1>0, <2>1, QuestionsOfMore DEF GatherInv
  <2>3. ~Batching => Len(batch') <= 1
    BY <1>0, <2>1
  <2> QED
    BY <2>1, <2>2, <2>3 DEF GatherInv
<1>2. CASE Release
  <2>1. batch' = <<>> /\ batch' \in Seq(Jobs) /\ questions' = 0
    BY <1>2 DEF Release
  <2>2. QuestionsOf(batch') = 0
    BY <2>1, QuestionsOfNone
  <2>3. 0 <= MaxBatch /\ Len(batch') <= 1
    BY <2>1, LimitsAssumption
  <2> QED
    BY <2>1, <2>2, <2>3 DEF GatherInv
<1>3. CASE UNCHANGED <<batch, questions>>
  BY <1>0, <1>3 DEF GatherInv
<1> QED
  BY <1>1, <1>2, <1>3
  DEF Next, vars, gatherVars, Handler, Accept, Refuse, Enqueue, NotifyOne, Respond, Gathering,
      FallAsleep, ExitWorker, StartGathering, CloseBatch, WaitForMore, TimeOut, Rejoin, Executing,
      BeginExecute, Concat, PredictReturns, PredictThrows, Fulfil, Fail, DeadlinePasses,
      SpuriousWake, Stop, StopQueue, NotifyAll, CloseServer, Host, Listen, MonitorReacts,
      ListenReturns, JoinMonitor, JoinWorker, Signal, ListenerFails, Gone

LEMMA RangeInvStep ==
  ASSUME IInv, [Next]_vars
  PROVE  RangeInv'
<1> USE DEF RangeInv, RangesDisjoint
<1>0. /\ RangeInv /\ JobTypes /\ batchId \in Nat /\ offset \in Nat
      /\ \A j \in Jobs : Requests[j] \in Nat /\ slice[j].batch \in Nat /\ slice[j].offset \in Nat
  <2>1. RangeInv /\ JobTypes /\ batchId \in Nat /\ offset \in Nat
    BY DEF IInv, TypeOK, DispatchTypes
  <2>2. \A j \in Jobs : slice[j] \in Replies
    BY <2>1 DEF JobTypes
  <2> QED
    BY <2>1, <2>2, JobsAssumption DEF Replies
<1>1. CASE BeginExecute
  BY <1>0, <1>1 DEF BeginExecute, NextBatchId, jobVars
<1>2. CASE Fulfil
  <2> DEFINE job == batch[next]
  <2>1. job \in Jobs
    BY <1>2, CurrentType DEF IInv, Fulfil
  <2>2. /\ answer' = [answer EXCEPT ![job] = "ok"]
        /\ slice'[job].batch = batchId /\ slice'[job].offset = offset
        /\ \A j \in Jobs : j # job => slice'[j] = slice[j] /\ answer'[j] = answer[j]
        /\ offset' = offset + Requests[job] /\ batchId' = batchId
        /\ worker = "fulfil" /\ worker' \in {"release", "begin", "fulfil"}
    BY <1>0, <1>2, <2>1 DEF Fulfil, JobTypes, NextOffset, AfterAnswer
  <2> HIDE DEF job
  <2>3. ASSUME NEW j \in Jobs, j # job, answer'[j] = "ok", slice'[j].batch = batchId
        PROVE  slice'[j].offset + Requests[j] <= offset
    BY <1>0, <2>2, <2>3
  <2>4. \A j \in Jobs : answer'[j] = "ok" => slice'[j].batch <= batchId'
    BY <1>0, <2>2
  <2>5. \A j \in Jobs : answer'[j] = "ok" /\ slice'[j].batch = batchId' =>
          slice'[j].offset + Requests[j] <= offset'
    <3>1. SUFFICES ASSUME NEW j \in Jobs, answer'[j] = "ok", slice'[j].batch = batchId'
                   PROVE  slice'[j].offset + Requests[j] <= offset'
      OBVIOUS
    <3>2. CASE j = job
      BY <1>0, <2>1, <2>2, <3>2
    <3>3. CASE j # job
      <4>1. slice'[j].offset + Requests[j] <= offset /\ slice'[j] = slice[j]
        BY <2>2, <2>3, <3>1, <3>3
      <4> QED
        BY <1>0, <2>1, <2>2, <4>1
    <3> QED
      BY <3>2, <3>3
  <2>6. RangesDisjoint'
    <3>1. SUFFICES ASSUME NEW i \in Jobs, NEW j \in Jobs, i # j,
                          answer'[i] = "ok", answer'[j] = "ok", slice'[i].batch = slice'[j].batch
                   PROVE  \/ slice'[i].offset + Requests[i] <= slice'[j].offset
                          \/ slice'[j].offset + Requests[j] <= slice'[i].offset
      OBVIOUS
    <3>2. CASE i = job
      BY <2>2, <2>3, <3>1, <3>2
    <3>3. CASE j = job
      BY <2>2, <2>3, <3>1, <3>3
    <3>4. CASE i # job /\ j # job
      BY <1>0, <2>2, <3>1, <3>4
    <3> QED
      BY <3>2, <3>3, <3>4
  <2> QED
    BY <2>2, <2>4, <2>5, <2>6
<1>3. CASE PredictReturns
  BY <1>0, <1>3 DEF PredictReturns, jobVars, execVars
\* No reply is added, and the execution under way goes on or ends.
<1>4. ASSUME UNCHANGED <<slice, batchId>>,
             \A j \in Jobs : answer'[j] = "ok" => answer[j] = "ok",
             \/ worker' = worker /\ offset' = offset
             \/ worker = "concat" /\ worker' = "predict"
             \/ worker' \notin {"concat", "predict", "fulfil"}
      PROVE  RangeInv'
  BY <1>0, <1>4
<1>5. ASSUME NEW j \in Jobs, Refuse(j)
      PROVE  RangeInv'
  BY <1>0, <1>4, <1>5 DEF Refuse, JobTypes, execVars
<1>6. CASE Fail
  <2>1. failure \in {"input", "internal"} /\ worker' \in {"release", "begin", "fail"}
    BY <1>6 DEF Fail, IInv, FailureInv, AfterAnswer
  <2> QED
    BY <1>0, <1>4, <1>6, <2>1 DEF Fail, JobTypes
<1>7. ASSUME NEW t \in Stoppers, StopQueue(t)
      PROVE  RangeInv'
  BY <1>0, <1>4, <1>7 DEF StopQueue, execVars
<1>8. CASE Concat
  BY <1>4, <1>8 DEF Concat, jobVars
<1>9. ASSUME NEW kind \in Flaws, PredictThrows(kind)
      PROVE  RangeInv'
  BY <1>4, <1>9 DEF PredictThrows, jobVars
<1>10. CASE Release
  BY <1>4, <1>10 DEF Release, jobVars
<1>11. ASSUME UNCHANGED <<answer, slice, execVars>>,
              worker' = worker \/ worker' \notin {"concat", "predict", "fulfil"}
       PROVE  RangeInv'
  BY <1>4, <1>11 DEF execVars
<1> QED
  BY <1>1, <1>2, <1>3, <1>5, <1>6, <1>7, <1>8, <1>9, <1>10, <1>11
  DEF Next, vars, jobVars, Handler, Accept, Enqueue, NotifyOne, Respond, Woken, Gathering,
      FallAsleep, ExitWorker, StartGathering, Take, CloseBatch, WaitForMore, TimeOut, Rejoin,
      Executing, DeadlinePasses, SpuriousWake, Stop, NotifyAll, CloseServer, Host, Listen,
      MonitorReacts, ListenReturns, JoinMonitor, JoinWorker, Signal, ListenerFails, Gone

LEMMA InductiveInvariant ==
  IInv /\ [Next]_vars => IInv'
<1> SUFFICES ASSUME IInv, [Next]_vars PROVE IInv'
  OBVIOUS
<1>1. TypeOK'
  BY JobTypesStep, DispatchTypesStep, HostTypesStep, PendingStep DEF TypeOK
<1> QED
  BY <1>1, WorkerInvStep, LayoutInvStep, FailureInvStep, PendingStep, HeldInvStep, HostInvStep,
     WakeupStep, ResultsStep, GatherInvStep, RangeInvStep DEF IInv

LEMMA Invariance == Spec => []IInv
<1>1. Init => IInv
  BY InitInv
<1>2. IInv /\ [Next]_vars => IInv'
  BY InductiveInvariant
<1> QED
  BY <1>1, <1>2, PTL DEF Spec
-----------------------------------------------------------------------------
\* The line of unanswered jobs: of the batch b from position n on, then of the deque q.
Line(b, n, q) == SubSeq(b, n, Len(b)) \o q

\* What the line is made of, in terms of its two parts.
LEMMA LineElements ==
  ASSUME NEW b \in Seq(Jobs), NEW q \in Seq(Jobs), NEW n \in Nat \ {0}, n <= Len(b) + 1
  PROVE  /\ Line(b, n, q) \in Seq(Jobs)
         /\ Len(Line(b, n, q)) = Len(b) - n + 1 + Len(q)
         /\ \A i \in 1..Len(b) - n + 1 : Line(b, n, q)[i] = b[n + i - 1]
         /\ \A i \in 1..Len(q) : Line(b, n, q)[Len(b) - n + 1 + i] = q[i]
<1> DEFINE rest == SubSeq(b, n, Len(b))
           m == Len(b) - n + 1
<1>1. /\ n \in Int /\ Len(b) \in Int /\ Len(q) \in Nat /\ m \in Nat
      /\ \A i \in n..Len(b) : b[i] \in Jobs
  OBVIOUS
<1>2. /\ rest \in Seq(Jobs)
      /\ Len(rest) = IF n <= Len(b) THEN m ELSE 0
      /\ \A i \in 1..m : rest[i] = b[n + i - 1]
  BY <1>1, SubSeqProperties
<1>3. Len(rest) = m
  BY <1>1, <1>2
<1>4. /\ Line(b, n, q) \in Seq(Jobs)
      /\ Len(Line(b, n, q)) = m + Len(q)
      /\ \A i \in 1..m + Len(q) :
           Line(b, n, q)[i] = IF i <= m THEN rest[i] ELSE q[i - m]
  BY <1>2, <1>3, ConcatProperties DEF Line
<1> HIDE DEF rest, m
<1>5. ASSUME NEW i \in 1..m
      PROVE  Line(b, n, q)[i] = b[n + i - 1]
  <2>1. i \in 1..m + Len(q) /\ i <= m
    BY <1>1
  <2> QED
    BY <1>2, <1>4, <2>1
<1>6. ASSUME NEW i \in 1..Len(q)
      PROVE  Line(b, n, q)[m + i] = q[i]
  <2>1. m + i \in 1..m + Len(q) /\ ~(m + i <= m) /\ m + i - m = i
    BY <1>1
  <2>2. Line(b, n, q)[m + i] = IF m + i <= m THEN rest[m + i] ELSE q[m + i - m]
    BY <1>1, <1>4, <2>1
  <2> QED
    BY <2>1, <2>2
<1> QED
  BY <1>4, <1>5, <1>6 DEF m

\* The facts about the line that the theorems and the refinement use.
LEMMA LineFacts ==
  ASSUME IInv
  PROVE  /\ queue \in Seq(Jobs) /\ batch \in Seq(Jobs) /\ next \in Nat \ {0}
         /\ Len(queue) \in Nat /\ Len(batch) \in Nat
         /\ next <= Len(batch) + 1
         /\ DistinctInv /\ LineInv /\ WaiterInv
<1>1. queue \in Seq(Jobs) /\ batch \in Seq(Jobs) /\ next \in Nat \ {0}
  BY DEF IInv, TypeOK, SharedTypes, DispatchTypes
<1>2. next = 1 \/ next <= Len(batch) \/ next = Len(batch) + 1
  BY DEF IInv, TypeOK, DispatchTypes, WorkerInv, Collecting
<1> QED
  BY <1>1, <1>2 DEF IInv, HeldInv

LEMMA HeldOnceFromInv == IInv => HeldOnce
<1> SUFFICES ASSUME IInv PROVE HeldOnce
  OBVIOUS
<1> DEFINE line == Selected \o queue
           n == Len(batch) - next + 1
<1>1. /\ line \in Seq(Jobs) /\ Len(line) = n + Len(queue) /\ n \in Nat /\ Len(queue) \in Nat
      /\ n = Len(batch) - next + 1 /\ next \in Nat \ {0} /\ Len(batch) \in Nat
      /\ \A i \in 1..n : line[i] = batch[next + i - 1]
      /\ \A i \in 1..Len(queue) : line[n + i] = queue[i]
  <2>1. line = Line(batch, next, queue)
    BY DEF Line, Selected
  <2> HIDE DEF line
  <2>2. /\ queue \in Seq(Jobs) /\ batch \in Seq(Jobs) /\ next \in Nat \ {0}
        /\ Len(queue) \in Nat /\ Len(batch) \in Nat /\ next <= Len(batch) + 1
    BY LineFacts
  <2>3. /\ line \in Seq(Jobs) /\ Len(line) = n + Len(queue)
        /\ \A i \in 1..n : line[i] = batch[next + i - 1]
        /\ \A i \in 1..Len(queue) : line[n + i] = queue[i]
    <3>1. /\ Line(batch, next, queue) \in Seq(Jobs)
          /\ Len(Line(batch, next, queue)) = Len(batch) - next + 1 + Len(queue)
          /\ \A i \in 1..Len(batch) - next + 1 :
               Line(batch, next, queue)[i] = batch[next + i - 1]
          /\ \A i \in 1..Len(queue) :
               Line(batch, next, queue)[Len(batch) - next + 1 + i] = queue[i]
      BY <2>2, LineElements
    <3> QED
      BY <2>1, <3>1
  <2> QED
    BY <2>2, <2>3
<1>2. DistinctInv /\ LineInv /\ WaiterInv
  BY LineFacts
<1> HIDE DEF line, n
<1>3. ASSUME NEW i \in 1..Len(line)
      PROVE  \/ /\ i \in 1..n /\ next + i - 1 \in 1..Len(batch)
                /\ next + i - 1 \in next..Len(batch) /\ line[i] = batch[next + i - 1]
             \/ i - n \in 1..Len(queue) /\ line[i] = queue[i - n]
  <2>1. CASE i <= n
    BY <1>1, <2>1
  <2>2. CASE i > n
    <3>1. i - n \in 1..Len(queue) /\ n + (i - n) = i
      BY <1>1, <2>2
    <3> QED
      BY <1>1, <3>1
  <2> QED
    BY <1>1, <2>1, <2>2
<1>4. ASSUME NEW i \in 1..Len(line), NEW k \in 1..Len(line), line[i] = line[k]
      PROVE  i = k
  <2>1. CASE i \in 1..n /\ k \in 1..n
    <3>1. next + i - 1 = next + k - 1
      BY <1>2, <1>3, <1>4, <1>1, <2>1 DEF DistinctInv
    <3> QED
      BY <1>1, <2>1, <3>1
  <2>2. CASE i \notin 1..n /\ k \notin 1..n
    <3>1. i - n = k - n
      BY <1>2, <1>3, <1>4, <2>2 DEF DistinctInv
    <3> QED
      BY <1>1, <3>1
  <2>3. \A a, b \in 1..Len(line) : a \in 1..n /\ b \notin 1..n => line[a] # line[b]
    <3>1. SUFFICES ASSUME NEW a \in 1..Len(line), NEW b \in 1..Len(line),
                          a \in 1..n, b \notin 1..n
                   PROVE  line[a] # line[b]
      OBVIOUS
    <3>2. line[a] = batch[next + a - 1] /\ next + a - 1 \in 1..Len(batch)
      BY <1>1, <3>1
    <3>3. line[b] = queue[b - n] /\ b - n \in 1..Len(queue)
      BY <1>3, <3>1
    <3> QED
      BY <1>2, <3>2, <3>3 DEF DistinctInv
  <2> QED
    BY <1>4, <2>1, <2>2, <2>3
<1>5. ToSet(line) = {line[i] : i \in 1..Len(line)} /\ DOMAIN line = 1..Len(line)
  <2>1. DOMAIN line = 1..Len(line)
    BY <1>1
  <2> HIDE DEF line
  <2> QED
    BY <2>1, Zenon DEF ToSet
<1>6. ASSUME NEW i \in 1..Len(line)
      PROVE  line[i] \in {j \in Jobs : pc[j] \in {"notify", "await"} /\ answer[j] = "none"}
  <2>1. line[i] \in Jobs
    BY <1>1
  <2>2. pc[line[i]] \in {"notify", "await"} /\ answer[line[i]] = "none"
    BY <1>2, <1>3 DEF LineInv, Attended
  <2> QED
    BY <2>1, <2>2
<1>7. ASSUME NEW j \in Jobs, pc[j] \in {"notify", "await"}, answer[j] = "none"
      PROVE  \E i \in 1..Len(line) : line[i] = j
  <2>1. CASE \E i \in 1..Len(queue) : queue[i] = j
    <3>1. PICK i \in 1..Len(queue) : queue[i] = j
      BY <2>1
    <3>2. n + i \in 1..Len(line) /\ line[n + i] = j
      BY <1>1, <3>1
    <3> QED
      BY <3>2
  <2>2. CASE \E k \in next..Len(batch) : batch[k] = j
    <3>1. PICK k \in next..Len(batch) : batch[k] = j
      BY <2>2
    <3> DEFINE i == k - next + 1
    <3>2. i \in 1..n /\ next + i - 1 = k /\ i \in 1..Len(line)
      BY <1>1
    <3>3. line[i] = j
      BY <1>1, <3>1, <3>2
    <3> QED
      BY <3>2, <3>3
  <2> QED
    BY <1>2, <1>7, <2>1, <2>2 DEF WaiterInv, Attended
<1> QED
  BY <1>4, <1>5, <1>6, <1>7 DEF HeldOnce, line

(* Every request of an execution lies in the stretch of one of its jobs.   *)
LEMMA RequestHasJob ==
  ASSUME IInv, worker \in {"predict", "fulfil"}, NEW i \in 1..Len(requests)
  PROVE  \E k \in 1..Len(Current) :
           \E r \in 1..Requests[Current[k]] : requests[i] = <<Current[k], r>>
<1>1. PICK start \in [1..copied + 1 -> 0..Len(requests)] : LaidOut(start)
  BY DEF IInv, LayoutInv
<1>2. /\ requests \in Seq(Items) /\ copied \in Nat /\ copied = Len(Current)
  BY DEF IInv, TypeOK, DispatchTypes, WorkerInv
<1>3. Current \in Seq(Jobs)
  BY CurrentType DEF IInv
<1> DEFINE ends == {k \in 1..copied + 1 : i <= start[k]}
<1>4. PICK k \in ends : \A m \in ends : k <= m
  <2>1. ends \in SUBSET Nat
    OBVIOUS
  <2>2. copied + 1 \in ends
    BY <1>1, <1>2 DEF LaidOut
  <2> HIDE DEF ends
  <2> QED
    BY <2>1, <2>2, LeastNatural
<1>5. k # 1
  BY <1>1, <1>2 DEF LaidOut
<1>6. PICK l \in Nat : k = l + 1 /\ l \in 1..copied /\ l \in 1..copied + 1
  <2>1. k \in 1..copied + 1
    OBVIOUS
  <2> HIDE DEF ends
  <2>2. k - 1 \in Nat /\ k = k - 1 + 1 /\ k - 1 \in 1..copied /\ k - 1 \in 1..copied + 1
    BY <1>2, <1>5, <2>1
  <2> QED
    BY <2>2
<1>7. i <= start[l + 1] /\ ~(i <= start[l])
  <2>1. l \notin ends
    <3> HIDE DEF ends
    <3> QED
      BY <1>2, <1>4, <1>6
  <2> QED
    BY <1>6, <2>1
<1>8. /\ start[l + 1] = start[l] + Requests[Current[l]]
      /\ \A r \in 1..Requests[Current[l]] : requests[start[l] + r] = <<Current[l], r>>
      /\ start[l] \in Nat /\ Requests[Current[l]] \in Nat
  <2>1. /\ start[l + 1] = start[l] + Requests[Current[l]]
        /\ \A r \in 1..Requests[Current[l]] : requests[start[l] + r] = <<Current[l], r>>
    BY <1>1, <1>6 DEF LaidOut
  <2>2. Current[l] \in Jobs
    BY <1>2, <1>3, <1>6
  <2>3. start[l] \in Nat
    BY <1>1, <1>6
  <2> QED
    BY <2>1, <2>2, <2>3, JobsAssumption
<1>9. PICK r \in Nat : r \in 1..Requests[Current[l]] /\ i = start[l] + r
  <2>1. PICK s \in Nat : s = start[l]
    BY <1>8
  <2>2. i - s \in Nat /\ i - s \in 1..Requests[Current[l]] /\ i = s + (i - s)
    BY <1>7, <1>8, <2>1, SMTT(60)
  <2> QED
    BY <2>1, <2>2
<1> QED
  BY <1>2, <1>6, <1>8, <1>9

(* Each request of each of its jobs is among the requests of an execution. *)
LEMMA JobHasRequests ==
  ASSUME IInv, worker \in {"predict", "fulfil"},
         NEW k \in 1..Len(Current), NEW r \in 1..Requests[Current[k]]
  PROVE  \E i \in 1..Len(requests) : requests[i] = <<Current[k], r>>
<1>1. PICK start \in [1..copied + 1 -> 0..Len(requests)] : LaidOut(start)
  BY DEF IInv, LayoutInv
<1>2. /\ requests \in Seq(Items) /\ copied \in Nat /\ copied = Len(Current)
  BY DEF IInv, TypeOK, DispatchTypes, WorkerInv
<1>3. Current[k] \in Jobs /\ Requests[Current[k]] \in Nat
  BY CurrentType, JobsAssumption DEF IInv
<1>4. k \in 1..copied /\ k \in 1..copied + 1 /\ k + 1 \in 1..copied + 1
  BY <1>2
<1>5. /\ start[k + 1] = start[k] + Requests[Current[k]]
      /\ requests[start[k] + r] = <<Current[k], r>>
      /\ start[k] \in 0..Len(requests) /\ start[k + 1] \in 0..Len(requests)
  BY <1>1, <1>4 DEF LaidOut
<1>6. start[k] + r \in 1..Len(requests)
  BY <1>2, <1>3, <1>5, SMTT(60)
<1> QED
  BY <1>5, <1>6

LEMMA BatchWithinLimitsFromInv == IInv => BatchWithinLimits
<1> SUFFICES ASSUME IInv, worker = "predict"
             PROVE  /\ Current # <<>>
                    /\ QuestionsOf(Current) <= MaxBatch
                    /\ ~Batching => Len(Current) = 1
                    /\ ToSet(requests) = UNION {ToSet(RequestsOf(j)) : j \in ToSet(Current)}
  BY DEF BatchWithinLimits
<1>1. /\ Current \in Seq(Jobs) /\ Len(Current) \in Nat \ {0} /\ batch[next] \in Jobs
  BY CurrentType DEF IInv
<1>2. batch \in Seq(Jobs) /\ requests \in Seq(Items) /\ solo \in BOOLEAN /\ GatherInv
  BY DEF IInv, TypeOK, DispatchTypes
<1>3. QuestionsOf(Current) <= MaxBatch
  <2>1. CASE solo
    <3> DEFINE none == <<>>
    <3>1. none \in Seq(Jobs) /\ Append(none, batch[next]) = Current
      BY <1>1, <2>1 DEF Current
    <3>2. QuestionsOf(none) = 0
      BY <3>1, QuestionsOfNone
    <3>3. QuestionsOf(Current) = QuestionsOf(none) + Questions[batch[next]]
      <4> HIDE DEF none
      <4> QED
        BY <1>1, <3>1, QuestionsOfMore
    <3>4. Questions[batch[next]] \in Nat /\ Questions[batch[next]] <= MaxBatch
      BY <1>1, JobsAssumption, FitAssumption
    <3> QED
      BY <3>2, <3>3, <3>4
  <2>2. CASE ~solo
    BY <1>2, <2>2 DEF Current, GatherInv
  <2> QED
    BY <1>2, <2>1, <2>2
<1>4. ~Batching => Len(Current) = 1
  <2>1. CASE solo
    BY <2>1 DEF Current
  <2>2. CASE ~solo
    <3>1. Current = batch /\ Len(batch) \in Nat \ {0}
      BY <1>1, <2>2 DEF Current
    <3>2. ASSUME ~Batching
          PROVE  Len(Current) = 1
      <4>1. Len(batch) <= 1
        BY <1>2, <3>2 DEF GatherInv
      <4>2. Len(batch) = 1
        <5>1. PICK n \in Nat \ {0} : n = Len(batch)
          BY <3>1
        <5> QED
          BY <4>1, <5>1
      <4> QED
        BY <3>1, <4>2
    <3> QED
      BY <3>2
  <2> QED
    BY <1>2, <2>1, <2>2
<1>5. /\ ToSet(requests) = {requests[i] : i \in 1..Len(requests)}
      /\ ToSet(Current) = {Current[k] : k \in 1..Len(Current)}
  BY <1>1, <1>2 DEF ToSet
<1>6. ASSUME NEW j \in Jobs
      PROVE  ToSet(RequestsOf(j)) = {<<j, r>> : r \in 1..Requests[j]}
  BY DEF ToSet, RequestsOf
<1>7. ASSUME NEW item \in ToSet(requests)
      PROVE  item \in UNION {ToSet(RequestsOf(j)) : j \in ToSet(Current)}
  <2>1. PICK i \in 1..Len(requests) : item = requests[i]
    BY <1>5
  <2>2. PICK k \in 1..Len(Current) :
          \E r \in 1..Requests[Current[k]] : requests[i] = <<Current[k], r>>
    BY RequestHasJob
  <2>3. Current[k] \in Jobs /\ Current[k] \in ToSet(Current)
    BY <1>1, <1>5
  <2>4. item \in ToSet(RequestsOf(Current[k]))
    BY <1>6, <2>1, <2>2, <2>3
  <2> QED
    BY <2>3, <2>4
<1>8. ASSUME NEW j \in ToSet(Current), NEW item \in ToSet(RequestsOf(j))
      PROVE  item \in ToSet(requests)
  <2>1. PICK k \in 1..Len(Current) : j = Current[k]
    BY <1>5
  <2>2. j \in Jobs
    BY <1>1, <2>1
  <2>3. PICK r \in 1..Requests[j] : item = <<j, r>>
    BY <1>6, <2>2
  <2>4. \E i \in 1..Len(requests) : requests[i] = <<j, r>>
    BY <2>1, JobHasRequests
  <2> QED
    BY <1>5, <2>3, <2>4
<1>9. ToSet(requests) = UNION {ToSet(RequestsOf(j)) : j \in ToSet(Current)}
  BY <1>7, <1>8
<1>10. Current # <<>>
  BY <1>1
<1> QED
  BY <1>3, <1>4, <1>9, <1>10

LEMMA CleanShutdownFromInv == IInv => CleanShutdown
<1> SUFFICES ASSUME IInv PROVE CleanShutdown
  OBVIOUS
<1>1. stopping => queue = <<>>
  BY DEF IInv, HostInv
<1>2. ASSUME main = "gone"
      PROVE  pending = 0 /\ (\A j \in Jobs : pc[j] = "done" => answer[j] # "none") /\ Busy = {}
  <2>1. Busy = {} /\ worker \in {"off", "exit"}
    BY <1>2 DEF IInv, HostInv
  <2>2. batch = <<>> /\ queue = <<>>
    BY <2>1, <1>1 DEF IInv, WorkerInv
  <2>3. Len(batch) = 0 /\ Len(queue) = 0
    BY <2>2
  <2>4. pending = 0
    BY <2>3 DEF IInv, PendingAccounts
  <2> QED
    BY <2>1, <2>4 DEF IInv, HeldInv, WaiterInv
<1> QED
  BY <1>1, <1>2 DEF CleanShutdown
-----------------------------------------------------------------------------
(***************************************************************************)
(* The variables of the server stay within the ranges the rest of the      *)
(* argument assumes: the deque and the batch are sequences of jobs, the    *)
(* threads are at one of their known places (http.cpp:39-53).              *)
(***************************************************************************)
THEOREM Typing == Spec => []TypeOK
<1>1. IInv => TypeOK
  BY DEF IInv
<1> QED
  BY <1>1, Invariance, PTL

(***************************************************************************)
(* `pending` always counts the jobs queued or selected and never exceeds   *)
(* max_pending_requests, for any limit and any number of callers: submit,  *)
(* the end of dispatch and stop together give every place back once        *)
(* (http.cpp:141, 158, 230).                                               *)
(***************************************************************************)
THEOREM Accounting == Spec => []PendingAccounts
<1>1. IInv => PendingAccounts
  BY DEF IInv
<1> QED
  BY <1>1, Invariance, PTL

(***************************************************************************)
(* No accepted job is lost between the deque and the batch or held twice,  *)
(* so no promise is satisfied twice and none is forgotten, whatever the    *)
(* order in which submit, dispatch, execute and stop interleave.           *)
(***************************************************************************)
THEOREM NoJobLost == Spec => []HeldOnce
<1> QED
  BY HeldOnceFromInv, Invariance, PTL

(***************************************************************************)
(* Every reply carries the results of the caller's own requests, however   *)
(* many jobs were concatenated and wherever the slice starts               *)
(* (http.cpp:165-187).                                                     *)
(***************************************************************************)
THEOREM RepliesAreOwn == Spec => []OwnResults
<1>1. IInv => OwnResults
  BY DEF IInv
<1> QED
  BY <1>1, Invariance, PTL

(***************************************************************************)
(* Only a caller whose request has an input flaw is told so: the retry one *)
(* by one (http.cpp:194-199) isolates it from the rest of its batch.       *)
(***************************************************************************)
THEOREM InputErrorsIsolated == Spec => []InputErrorsAreOwn
<1>1. IInv => InputErrorsAreOwn
  BY DEF IInv
<1> QED
  BY <1>1, Invariance, PTL

(***************************************************************************)
(* The dispatcher never sleeps on work or on a stop that nobody is about   *)
(* to announce, although submit and stop notify after they unlock          *)
(* (http.cpp:143-144, 161-162).                                            *)
(***************************************************************************)
THEOREM WakeupsArrive == Spec => []NoLostWakeup
<1>1. IInv => NoLostWakeup
  BY DEF IInv
<1> QED
  BY <1>1, Invariance, PTL

(***************************************************************************)
(* After stop() nothing is queued again, and serve_http returns with every *)
(* place given back and every connection answered (http.cpp:129-146,       *)
(* 301-321).                                                               *)
(***************************************************************************)
THEOREM ShutsDownClean == Spec => []CleanShutdown
<1> QED
  BY CleanShutdownFromInv, Invariance, PTL

(***************************************************************************)
(* What reaches the predictor is never empty, weighs no more than          *)
(* max_batch_questions, is one job without batching, and is made of every  *)
(* request of its jobs and nothing else (http.cpp:165-172, 219-224), for   *)
(* any jobs that passed validate().                                        *)
(***************************************************************************)
THEOREM BatchesKeepLimits == Spec => []BatchWithinLimits
<1> QED
  BY BatchWithinLimitsFromInv, Invariance, PTL

(***************************************************************************)
(* The batch number and offset a reply carries are its own: no two callers *)
(* are told overlapping ranges of one batch, even when a batch is executed *)
(* again job by job (http.cpp:164, 181-187, 196-198).                      *)
(***************************************************************************)
THEOREM RepliesApart == Spec => []RangesDisjoint
<1>1. IInv => RangesDisjoint
  BY DEF IInv, RangeInv
<1> QED
  BY <1>1, Invariance, PTL

-----------------------------------------------------------------------------
(***************************************************************************)
(* HttpServer implements DecisionService, for any jobs and any limits: the *)
(* line of the service is what the dispatcher has selected and not         *)
(* answered, followed by the deque.                                        *)
(***************************************************************************)
LEMMA SameLine ==
  ASSUME NEW s \in Seq(Jobs), NEW t \in Seq(Jobs), Len(s) = Len(t),
         \A i \in 1..Len(s) : s[i] = t[i]
  PROVE  s = t
OBVIOUS

LEMMA AppendElements ==
  ASSUME NEW s \in Seq(Jobs), NEW j \in Jobs
  PROVE  /\ Append(s, j) \in Seq(Jobs) /\ Len(Append(s, j)) = Len(s) + 1
         /\ \A i \in 1..Len(s) : Append(s, j)[i] = s[i]
         /\ Append(s, j)[Len(s) + 1] = j
OBVIOUS

LEMMA TailElements ==
  ASSUME NEW s \in Seq(Jobs), Len(s) >= 1
  PROVE  /\ s # <<>> /\ Head(s) = s[1] /\ Tail(s) \in Seq(Jobs)
         /\ Len(Tail(s)) = Len(s) - 1
         /\ \A i \in 1..Len(s) - 1 : Tail(s)[i] = s[i + 1]
OBVIOUS

\* A job pushed onto the deque is the last of the line.
LEMMA LineGrows ==
  ASSUME NEW b \in Seq(Jobs), NEW q \in Seq(Jobs), NEW n \in Nat \ {0}, n <= Len(b) + 1,
         NEW j \in Jobs
  PROVE  Line(b, n, Append(q, j)) = Append(Line(b, n, q), j)
<1> DEFINE old == Line(b, n, q)
           new == Line(b, n, Append(q, j))
           m == Len(b) - n + 1
<1>1. m \in Nat /\ Len(q) \in Nat
  OBVIOUS
<1>2. /\ old \in Seq(Jobs) /\ Len(old) = m + Len(q)
      /\ \A i \in 1..m : old[i] = b[n + i - 1]
      /\ \A i \in 1..Len(q) : old[m + i] = q[i]
  BY LineElements
<1>3. /\ Append(q, j) \in Seq(Jobs) /\ Len(Append(q, j)) = Len(q) + 1
      /\ \A i \in 1..Len(q) : Append(q, j)[i] = q[i]
      /\ Append(q, j)[Len(q) + 1] = j
  OBVIOUS
<1>4. /\ new \in Seq(Jobs) /\ Len(new) = m + Len(q) + 1
      /\ \A i \in 1..m : new[i] = b[n + i - 1]
      /\ \A i \in 1..Len(q) + 1 : new[m + i] = Append(q, j)[i]
  <2>1. /\ new \in Seq(Jobs) /\ Len(new) = m + Len(Append(q, j))
        /\ \A i \in 1..m : new[i] = b[n + i - 1]
        /\ \A i \in 1..Len(Append(q, j)) : new[m + i] = Append(q, j)[i]
    BY <1>3, LineElements
  <2> QED
    BY <1>1, <1>3, <2>1
<1> HIDE DEF old, new, m
<1>5. /\ Append(old, j) \in Seq(Jobs) /\ Len(Append(old, j)) = m + Len(q) + 1
      /\ \A i \in 1..m + Len(q) : Append(old, j)[i] = old[i]
      /\ Append(old, j)[m + Len(q) + 1] = j
  <2>1. /\ Append(old, j) \in Seq(Jobs) /\ Len(Append(old, j)) = Len(old) + 1
        /\ \A i \in 1..Len(old) : Append(old, j)[i] = old[i]
        /\ Append(old, j)[Len(old) + 1] = j
    BY <1>2, AppendElements
  <2> QED
    BY <1>2, <2>1
<1>6. ASSUME NEW i \in 1..m + Len(q) + 1
      PROVE  new[i] = Append(old, j)[i]
  <2>1. CASE i \in 1..m
    BY <1>1, <1>2, <1>4, <1>5, <2>1
  <2>2. CASE i - m \in 1..Len(q)
    <3>1. m + (i - m) = i /\ i \in 1..m + Len(q) /\ i - m \in 1..Len(q) + 1
      BY <1>1, <2>2
    <3>2. new[m + (i - m)] = q[i - m] /\ old[m + (i - m)] = q[i - m]
      BY <1>2, <1>3, <1>4, <2>2, <3>1
    <3> QED
      BY <1>5, <3>1, <3>2
  <2>3. CASE i = m + Len(q) + 1
    <3>1. i = m + (Len(q) + 1) /\ Len(q) + 1 \in 1..Len(q) + 1
      BY <1>1, <2>3
    <3> QED
      BY <1>3, <1>4, <1>5, <2>3, <3>1
  <2>4. i \in 1..m \/ i - m \in 1..Len(q) \/ i = m + Len(q) + 1
    BY <1>1
  <2> QED
    BY <2>1, <2>2, <2>3, <2>4
<1>7. new = Append(old, j)
  BY <1>4, <1>5, <1>6, SameLine
<1> QED
  BY <1>7 DEF new, old

\* Selecting the front job of the deque does not change the line.
LEMMA LineMoves ==
  ASSUME NEW b \in Seq(Jobs), NEW q \in Seq(Jobs), q # <<>>
  PROVE  Line(Append(b, Head(q)), 1, Tail(q)) = Line(b, 1, q)
<1> DEFINE old == Line(b, 1, q)
           taken == Append(b, Head(q))
           new == Line(taken, 1, Tail(q))
<1>1. /\ Len(b) \in Nat /\ Len(q) \in Nat \ {0} /\ Head(q) = q[1] /\ q[1] \in Jobs
      /\ Tail(q) \in Seq(Jobs) /\ Len(Tail(q)) = Len(q) - 1
      /\ \A i \in 1..Len(q) - 1 : Tail(q)[i] = q[i + 1]
  OBVIOUS
<1>2. /\ taken \in Seq(Jobs) /\ Len(taken) = Len(b) + 1 /\ taken[Len(b) + 1] = q[1]
      /\ \A i \in 1..Len(b) : taken[i] = b[i]
  BY <1>1
<1> HIDE DEF taken
<1>3. /\ old \in Seq(Jobs) /\ Len(old) = Len(b) + Len(q)
      /\ \A i \in 1..Len(b) : old[i] = b[i]
      /\ \A i \in 1..Len(q) : old[Len(b) + i] = q[i]
  <2>1. /\ old \in Seq(Jobs) /\ Len(old) = Len(b) - 1 + 1 + Len(q)
        /\ \A i \in 1..Len(b) - 1 + 1 : old[i] = b[1 + i - 1]
        /\ \A i \in 1..Len(q) : old[Len(b) - 1 + 1 + i] = q[i]
    <3>1. 1 \in Nat \ {0} /\ 1 <= Len(b) + 1
      BY <1>1
    <3> QED
      BY <3>1, LineElements
  <2> QED
    BY <1>1, <2>1
<1>4. /\ new \in Seq(Jobs) /\ Len(new) = Len(b) + Len(q)
      /\ \A i \in 1..Len(b) + 1 : new[i] = taken[i]
      /\ \A i \in 1..Len(q) - 1 : new[Len(b) + 1 + i] = q[i + 1]
  <2>1. /\ new \in Seq(Jobs) /\ Len(new) = Len(taken) - 1 + 1 + Len(Tail(q))
        /\ \A i \in 1..Len(taken) - 1 + 1 : new[i] = taken[1 + i - 1]
        /\ \A i \in 1..Len(Tail(q)) : new[Len(taken) - 1 + 1 + i] = Tail(q)[i]
    <3> DEFINE rest == Tail(q)
    <3>1. 1 \in Nat \ {0} /\ 1 <= Len(taken) + 1 /\ taken \in Seq(Jobs) /\ rest \in Seq(Jobs)
      BY <1>1, <1>2
    <3> HIDE DEF rest
    <3>2. /\ Line(taken, 1, rest) \in Seq(Jobs)
          /\ Len(Line(taken, 1, rest)) = Len(taken) - 1 + 1 + Len(rest)
          /\ \A i \in 1..Len(taken) - 1 + 1 : Line(taken, 1, rest)[i] = taken[1 + i - 1]
          /\ \A i \in 1..Len(rest) : Line(taken, 1, rest)[Len(taken) - 1 + 1 + i] = rest[i]
      BY <3>1, LineElements
    <3> QED
      BY <3>2 DEF rest
  <2> QED
    BY <1>1, <1>2, <2>1
<1> HIDE DEF old, new
<1>5. ASSUME NEW i \in 1..Len(b) + Len(q)
      PROVE  new[i] = old[i]
  <2>1. CASE i \in 1..Len(b)
    <3>1. i \in 1..Len(b) + 1
      BY <1>1, <2>1
    <3> QED
      BY <1>2, <1>3, <1>4, <2>1, <3>1
  <2>2. CASE i = Len(b) + 1
    <3>1. i \in 1..Len(b) + 1 /\ 1 \in 1..Len(q)
      BY <1>1, <2>2
    <3> QED
      BY <1>2, <1>3, <1>4, <2>2, <3>1
  <2>3. CASE i > Len(b) + 1
    <3> DEFINE k == i - Len(b) - 1
    <3>1. /\ k \in 1..Len(q) - 1 /\ k + 1 \in 1..Len(q)
          /\ Len(b) + 1 + k = i /\ Len(b) + (k + 1) = i
      BY <1>1, <2>3
    <3> HIDE DEF k
    <3> QED
      BY <1>3, <1>4, <3>1
  <2> QED
    BY <1>1, <2>1, <2>2, <2>3
<1>6. new = old
  BY <1>3, <1>4, <1>5, SameLine
<1> QED
  BY <1>6 DEF new, old, taken

\* Answering the job at n takes the first of the line.
LEMMA LineAdvances ==
  ASSUME NEW b \in Seq(Jobs), NEW q \in Seq(Jobs), NEW n \in Nat \ {0}, n <= Len(b)
  PROVE  /\ Line(b, n, q) # <<>>
         /\ Head(Line(b, n, q)) = b[n]
         /\ Line(b, n + 1, q) = Tail(Line(b, n, q))
<1> DEFINE old == Line(b, n, q)
           new == Line(b, n + 1, q)
           m == Len(b) - n
<1>1. m \in Nat /\ Len(q) \in Nat /\ Len(b) \in Nat /\ n + 1 \in Nat \ {0}
  OBVIOUS
<1>2. /\ old \in Seq(Jobs) /\ Len(old) = m + 1 + Len(q)
      /\ \A i \in 1..m + 1 : old[i] = b[n + i - 1]
      /\ \A i \in 1..Len(q) : old[m + 1 + i] = q[i]
  <2>1. n <= Len(b) + 1
    BY <1>1
  <2> QED
    BY <2>1, LineElements
<1>3. /\ new \in Seq(Jobs) /\ Len(new) = m + Len(q)
      /\ \A i \in 1..m : new[i] = b[n + i]
      /\ \A i \in 1..Len(q) : new[m + i] = q[i]
  <2>1. n + 1 <= Len(b) + 1
    BY <1>1
  <2>2. /\ new \in Seq(Jobs) /\ Len(new) = Len(b) - (n + 1) + 1 + Len(q)
        /\ \A i \in 1..Len(b) - (n + 1) + 1 : new[i] = b[(n + 1) + i - 1]
        /\ \A i \in 1..Len(q) : new[Len(b) - (n + 1) + 1 + i] = q[i]
    BY <1>1, <2>1, LineElements, ZenonT(60)
  <2>3. Len(b) - (n + 1) + 1 = m
    BY <1>1
  <2>4. \A i \in 1..m : (n + 1) + i - 1 = n + i
    BY <1>1
  <2> HIDE DEF m, new
  <2> QED
    BY <2>2, <2>3, <2>4
<1> HIDE DEF old, new
<1>4. /\ old # <<>> /\ Head(old) = old[1] /\ Tail(old) \in Seq(Jobs)
      /\ Len(Tail(old)) = m + Len(q)
      /\ \A i \in 1..m + Len(q) : Tail(old)[i] = old[i + 1]
  <2>1. Len(old) >= 1 /\ Len(old) - 1 = m + Len(q)
    BY <1>1, <1>2
  <2>2. /\ old # <<>> /\ Head(old) = old[1] /\ Tail(old) \in Seq(Jobs)
        /\ Len(Tail(old)) = Len(old) - 1
        /\ \A i \in 1..Len(old) - 1 : Tail(old)[i] = old[i + 1]
    BY <1>2, <2>1, TailElements
  <2> QED
    BY <2>1, <2>2
<1>5. old[1] = b[n]
  <2>1. 1 \in 1..m + 1 /\ n + 1 - 1 = n
    BY <1>1
  <2> QED
    BY <1>2, <2>1
<1>6. ASSUME NEW i \in 1..m + Len(q)
      PROVE  new[i] = Tail(old)[i]
  <2>1. CASE i \in 1..m
    <3>1. i + 1 \in 1..m + 1 /\ n + (i + 1) - 1 = n + i
      BY <1>1, <2>1
    <3>2. old[i + 1] = b[n + (i + 1) - 1]
      BY <1>2, <3>1
    <3> QED
      BY <1>3, <1>4, <2>1, <3>1, <3>2
  <2>2. CASE i > m
    <3> DEFINE k == i - m
    <3>1. k \in 1..Len(q) /\ m + k = i /\ m + 1 + k = i + 1
      BY <1>1, <2>2
    <3> HIDE DEF k
    <3>2. new[m + k] = q[k] /\ old[m + 1 + k] = q[k]
      BY <1>2, <1>3, <3>1
    <3> QED
      BY <1>4, <3>1, <3>2
  <2>3. i \in 1..m \/ i > m
    BY <1>1
  <2> QED
    BY <2>1, <2>2, <2>3
<1>7. new = Tail(old)
  BY <1>3, <1>4, <1>6, SameLine
<1> QED
  BY <1>4, <1>5, <1>7 DEF old, new

\* What is left when the deque is cleared is the part of the line that was selected.
LEMMA LineStops ==
  ASSUME NEW b \in Seq(Jobs), NEW q \in Seq(Jobs), NEW n \in Nat \ {0}, n <= Len(b) + 1
  PROVE  Line(b, n, <<>>) = SubSeq(Line(b, n, q), 1, Len(b) - n + 1)
<1> DEFINE old == Line(b, n, q)
           new == Line(b, n, <<>>)
           m == Len(b) - n + 1
           kept == SubSeq(old, 1, m)
<1>1. m \in Nat /\ Len(q) \in Nat
  OBVIOUS
<1>2. /\ old \in Seq(Jobs) /\ Len(old) = m + Len(q)
      /\ \A i \in 1..m : old[i] = b[n + i - 1]
  BY LineElements
<1>3. /\ new \in Seq(Jobs) /\ Len(new) = m
      /\ \A i \in 1..m : new[i] = b[n + i - 1]
  <2> DEFINE none == <<>>
  <2>1. none \in Seq(Jobs)
    OBVIOUS
  <2>2. Len(none) = 0
    OBVIOUS
  <2> HIDE DEF none
  <2>3. /\ Line(b, n, none) \in Seq(Jobs)
        /\ Len(Line(b, n, none)) = Len(b) - n + 1 + Len(none)
        /\ \A i \in 1..Len(b) - n + 1 : Line(b, n, none)[i] = b[n + i - 1]
    BY <2>1, LineElements
  <2> QED
    BY <1>1, <2>2, <2>3 DEF none
<1> HIDE DEF old, new, m
<1>4. /\ kept \in Seq(Jobs) /\ Len(kept) = m
      /\ \A i \in 1..m : kept[i] = old[i]
  <2>1. \A i \in 1..m : old[i] \in Jobs
    BY <1>1, <1>2
  <2>2. /\ kept \in Seq(Jobs)
        /\ Len(kept) = IF 1 <= m THEN m - 1 + 1 ELSE 0
        /\ \A i \in 1..m - 1 + 1 : kept[i] = old[1 + i - 1]
    <3>1. 1 \in Int /\ m \in Int
      BY <1>1
    <3> QED
      BY <2>1, <3>1, SubSeqProperties
  <2> HIDE DEF kept
  <2> QED
    BY <1>1, <2>2
<1> HIDE DEF kept
<1>5. new = kept
  BY <1>2, <1>3, <1>4, SameLine
<1> QED
  BY <1>5 DEF new, old, kept, m

\* A batch answered to its end leaves the deque.
LEMMA LineRests ==
  ASSUME NEW b \in Seq(Jobs), NEW q \in Seq(Jobs)
  PROVE  Line(b, Len(b) + 1, q) = q
<1> DEFINE n == Len(b) + 1
           new == Line(b, n, q)
<1>1. n \in Nat \ {0} /\ n <= Len(b) + 1 /\ Len(b) - n + 1 = 0 /\ Len(q) \in Nat
  OBVIOUS
<1> HIDE DEF n
<1> DEFINE z == Len(b) - n + 1
<1>2. /\ new \in Seq(Jobs) /\ Len(new) = z + Len(q)
      /\ \A i \in 1..Len(q) : new[z + i] = q[i]
  BY <1>1, LineElements
<1> HIDE DEF new
<1>3. Len(new) = Len(q) /\ \A i \in 1..Len(q) : new[i] = q[i]
  <2>1. z = 0 /\ Len(q) \in Nat
    BY <1>1
  <2> HIDE DEF z
  <2>2. \A i \in 1..Len(q) : z + i = i
    BY <2>1
  <2>3. Len(new) = Len(q)
    BY <1>2, <2>1
  <2> QED
    BY <1>2, <2>2, <2>3
<1>4. new = q
  BY <1>2, <1>3, SameLine
<1> QED
  BY <1>4 DEF new, n
-----------------------------------------------------------------------------
\* What a step that concerns neither callers nor the line leaves alone.
Quiet == UNCHANGED <<queue, batch, next, answer, stopping>>

LEMMA QuietSteps ==
  ASSUME [Next]_vars
  PROVE  \/ Quiet
         \/ \E j \in Jobs : Refuse(j) \/ Enqueue(j)
         \/ Take \/ Fulfil \/ Fail \/ Release
         \/ \E t \in Stoppers : StopQueue(t)
<1> USE DEF Quiet
<1>1. ASSUME NEW j \in Jobs, Accept(j) \/ NotifyOne(j) \/ Respond(j)
      PROVE  Quiet
  BY <1>1 DEF Accept, NotifyOne, Respond, sharedVars, gatherVars, execVars
<1>2. CASE FallAsleep \/ ExitWorker \/ StartGathering \/ CloseBatch \/ WaitForMore \/ TimeOut
             \/ Rejoin \/ DeadlinePasses \/ SpuriousWake
  BY <1>2
  DEF FallAsleep, ExitWorker, StartGathering, CloseBatch, WaitForMore, TimeOut, Rejoin,
      DeadlinePasses, SpuriousWake, jobVars, sharedVars, gatherVars, execVars
<1>3. CASE BeginExecute \/ Concat \/ PredictReturns
  BY <1>3 DEF BeginExecute, Concat, PredictReturns, jobVars, sharedVars, gatherVars, execVars
<1>4. ASSUME NEW kind \in Flaws, PredictThrows(kind)
      PROVE  Quiet
  BY <1>4 DEF PredictThrows, jobVars, sharedVars, gatherVars
<1>5. ASSUME NEW t \in Stoppers, NotifyAll(t) \/ CloseServer(t)
      PROVE  Quiet
  BY <1>5 DEF NotifyAll, CloseServer, jobVars, sharedVars, gatherVars, execVars
<1>6. CASE Host \/ Signal \/ ListenerFails
  BY <1>6
  DEF Host, Listen, MonitorReacts, ListenReturns, JoinMonitor, JoinWorker, Signal, ListenerFails,
      jobVars, sharedVars, gatherVars, execVars
<1>7. CASE UNCHANGED vars
  BY <1>7 DEF vars, jobVars, sharedVars, gatherVars, execVars
<1> QED
  BY <1>1, <1>2, <1>3, <1>4, <1>5, <1>6, <1>7
  DEF Next, Handler, Gathering, Executing, Stop, Gone

\* A job that is being submitted is fresh to the service.
LEMMA SubmittedIsFresh ==
  ASSUME IInv, NEW j \in Jobs, pc[j] = "submit"
  PROVE  Service!Fresh(j)
<1> DEFINE line == Selected \o queue
<1>1. ToSet(line) = {i \in Jobs : pc[i] \in {"notify", "await"} /\ answer[i] = "none"}
  BY HeldOnceFromInv DEF HeldOnce
<1>2. j \notin ToSet(line)
  BY <1>1
<1>3. answer[j] = "none"
  BY LineFacts DEF WaiterInv
<1> HIDE DEF line
<1>4. j \notin {line[i] : i \in DOMAIN line}
  BY <1>2 DEF ToSet
<1> QED
  BY <1>3, <1>4 DEF Service!Fresh, Service!Waiting, line

LEMMA StepRefines ==
  ASSUME IInv, [Next]_vars
  PROVE  [Service!Next]_Service!serviceVars
<1> DEFINE line == Selected \o queue
<1>0. /\ queue \in Seq(Jobs) /\ batch \in Seq(Jobs) /\ next \in Nat \ {0}
      /\ Len(queue) \in Nat /\ Len(batch) \in Nat
      /\ next <= Len(batch) + 1
  BY LineFacts
<1>1. line = Line(batch, next, queue) /\ line' = Line(batch', next', queue')
  BY DEF Line, Selected
<1> HIDE DEF line
<1>2. CASE Quiet
  <2>1. line' = line /\ answer' = answer /\ stopping' = stopping
    BY <1>1, <1>2 DEF Quiet
  <2> QED
    BY <2>1 DEF Service!serviceVars, line
<1>3. ASSUME NEW j \in Jobs, Refuse(j)
      PROVE  Service!Refuse(j)
  <2>1. Service!Fresh(j)
    BY <1>3, SubmittedIsFresh DEF Refuse
  <2>2. /\ answer' = [answer EXCEPT ![j] = "unavailable"]
        /\ UNCHANGED <<queue, batch, next, stopping>>
    BY <1>3 DEF Refuse, sharedVars, gatherVars, execVars
  <2>3. line' = line
    BY <1>1, <2>2
  <2> QED
    BY <2>1, <2>2, <2>3 DEF Service!Refuse, line
<1>4. ASSUME NEW j \in Jobs, Enqueue(j)
      PROVE  Service!Accept(j)
  <2>1. Service!Fresh(j)
    BY <1>4, SubmittedIsFresh DEF Enqueue
  <2>2. /\ queue' = Append(queue, j) /\ UNCHANGED <<batch, next, answer, stopping>>
        /\ ~stopping /\ ~(pending >= MaxPending)
    BY <1>4 DEF Enqueue, Admits, Full, gatherVars, execVars
  <2>3. line' = Append(line, j)
    BY <1>0, <1>1, <2>2, LineGrows
  <2>4. Len(line) < MaxPending
    <3>1. Len(line) = Len(batch) - next + 1 + Len(queue)
      BY <1>0, <1>1, LineElements
    <3>2. pending = Len(queue) + Len(batch) /\ MaxPending \in Nat
      BY LimitsAssumption DEF IInv, PendingAccounts
    <3> QED
      BY <1>0, <2>2, <3>1, <3>2
  <2> QED
    BY <2>1, <2>2, <2>3, <2>4 DEF Service!Accept, line
<1>5. CASE Take
  <2>1. /\ queue # <<>> /\ queue' = Tail(queue) /\ batch' = Append(batch, Head(queue))
        /\ UNCHANGED <<next, answer, stopping>>
    BY <1>5 DEF Take, CanTake, execVars, jobVars
  <2>2. next = 1
    BY <1>5 DEF Take, IInv, WorkerInv, Collecting
  <2>3. line' = line
    BY <1>0, <1>1, <2>1, <2>2, LineMoves
  <2> QED
    BY <2>1, <2>3 DEF Service!serviceVars, line
<1>6. ASSUME NEW verdict, verdict \in VerdictsOf(batch[next]), next <= Len(batch),
             answer' = [answer EXCEPT ![batch[next]] = verdict], next' = next + 1,
             UNCHANGED <<queue, batch, stopping>>
      PROVE  Service!AnswerNext
  <2> DEFINE job == batch[next]
  <2>1. job \in Jobs /\ next \in next..Len(batch)
    BY <1>0, <1>6
  <2>2. line # <<>> /\ Head(line) = job /\ line' = Tail(line)
    BY <1>0, <1>1, <1>6, LineAdvances
  <2>3. answer[job] = "none"
    BY <2>1, LineFacts DEF LineInv
  <2> DEFINE verdicts == [j \in Jobs |-> VerdictsOf(j)]
  <2>4. verdict \in verdicts[job]
    BY <1>6, <2>1
  <2> HIDE DEF job, verdicts
  <2>5. answer' = [answer EXCEPT ![Head(line)] = verdict] /\ answer[Head(line)] = "none"
    BY <1>6, <2>2, <2>3 DEF job
  <2>6. verdict \in verdicts[Head(line)]
    BY <2>2, <2>4
  <2> QED
    BY <1>6, <2>2, <2>5, <2>6 DEF Service!AnswerNext, line, verdicts
<1>7. CASE Fulfil
  <2>1. /\ next <= Len(batch) /\ next' = next + 1 /\ UNCHANGED <<queue, batch, stopping>>
        /\ answer' = [answer EXCEPT ![batch[next]] = "ok"] /\ worker = "fulfil"
    BY <1>7 DEF Fulfil, IInv, WorkerInv, sharedVars, gatherVars
  <2>2. Flaw[batch[next]] = "none"
    <3>1. CASE solo
      BY <2>1, <3>1 DEF IInv, FailureInv, Current
    <3>2. CASE ~solo
      <4>1. next \in 1..Len(batch)
        BY <1>0, <2>1
      <4> QED
        BY <2>1, <3>2, <4>1 DEF IInv, FailureInv, Current
    <3> QED
      BY <3>1, <3>2
  <2>3. "ok" \in VerdictsOf(batch[next])
    BY <2>2 DEF VerdictsOf
  <2> QED
    BY <1>6, <2>1, <2>3 DEF Service!Next
<1>8. CASE Fail
  <2>1. /\ next <= Len(batch) /\ next' = next + 1 /\ UNCHANGED <<queue, batch, stopping>>
        /\ answer' = [answer EXCEPT ![batch[next]] = failure] /\ worker = "fail"
    BY <1>8 DEF Fail, IInv, WorkerInv, sharedVars, gatherVars
  <2>2. failure \in {"input", "internal"}
    BY <2>1 DEF IInv, FailureInv
  <2>3. failure = "input" => Flaw[batch[next]] = "input"
    <3>1. failure = "input" => Len(Current) = 1 /\ Flaw[Current[1]] = "input"
      BY <2>1 DEF IInv, FailureInv
    <3>2. Len(Current) = 1 => Current[1] = batch[next]
      BY <1>0, <2>1 DEF Current
    <3> QED
      BY <3>1, <3>2
  <2>4. failure \in VerdictsOf(batch[next])
    BY <2>2, <2>3 DEF VerdictsOf
  <2> QED
    BY <1>6, <2>1, <2>4 DEF Service!Next
<1>9. CASE Release
  <2>1. /\ batch' = <<>> /\ next' = 1 /\ UNCHANGED <<queue, answer, stopping>>
        /\ next = Len(batch) + 1
    BY <1>9 DEF Release, IInv, WorkerInv, jobVars
  <2>2. line = queue
    BY <1>0, <1>1, <2>1, LineRests
  <2>3. line' = queue
    <3> DEFINE none == <<>>
    <3>1. none \in Seq(Jobs) /\ 1 = Len(none) + 1
      OBVIOUS
    <3>2. line' = Line(none, Len(none) + 1, queue)
      BY <1>1, <2>1, <3>1
    <3> HIDE DEF none
    <3> QED
      BY <1>0, <3>1, <3>2, LineRests
  <2> QED
    BY <2>1, <2>2, <2>3 DEF Service!serviceVars, line
<1>10. ASSUME NEW t \in Stoppers, StopQueue(t)
       PROVE  Service!Close
  <2> DEFINE kept == Len(batch) - next + 1
  <2>1. /\ queue' = <<>> /\ UNCHANGED <<batch, next>> /\ stopping' = TRUE
        /\ answer' = [j \in Jobs |-> IF j \in ToSet(queue) THEN "unavailable" ELSE answer[j]]
    BY <1>10 DEF StopQueue, QueueAfterStop, gatherVars, execVars
  <2>2. /\ kept \in Nat /\ Len(line) = kept + Len(queue)
        /\ \A i \in 1..Len(queue) : line[kept + i] = queue[i]
    <3>1. /\ Len(Line(batch, next, queue)) = Len(batch) - next + 1 + Len(queue)
          /\ \A i \in 1..Len(queue) :
               Line(batch, next, queue)[Len(batch) - next + 1 + i] = queue[i]
      BY <1>0, LineElements
    <3>2. kept \in Nat
      BY <1>0
    <3> QED
      BY <1>1, <3>1, <3>2
  <2>3. line' = SubSeq(line, 1, kept)
    BY <1>0, <1>1, <2>1, LineStops
  <2> HIDE DEF kept
  <2>4. ASSUME NEW j \in Jobs
        PROVE  j \in ToSet(queue) <=> \E i \in kept + 1..Len(line) : line[i] = j
    <3>1. ToSet(queue) = {queue[i] : i \in 1..Len(queue)}
      BY <1>0 DEF ToSet
    <3>2. ASSUME NEW i \in 1..Len(queue), queue[i] = j
          PROVE  \E k \in kept + 1..Len(line) : line[k] = j
      <4>1. kept + i \in kept + 1..Len(line)
        BY <1>0, <2>2
      <4> QED
        BY <2>2, <3>2, <4>1
    <3>3. ASSUME NEW i \in kept + 1..Len(line), line[i] = j
          PROVE  \E k \in 1..Len(queue) : queue[k] = j
      <4> DEFINE k == i - kept
      <4>1. k \in 1..Len(queue) /\ kept + k = i
        BY <1>0, <2>2
      <4> HIDE DEF k
      <4> QED
        BY <2>2, <3>3, <4>1
    <3> QED
      BY <3>1, <3>2, <3>3
  <2>5. kept \in 0..Len(line)
    BY <1>0, <2>2
  <2>6. answer' = [j \in Jobs |-> IF \E i \in kept + 1..Len(line) : line[i] = j
                                  THEN "unavailable" ELSE answer[j]]
    BY <2>1, <2>4
  <2> QED
    BY <2>1, <2>3, <2>5, <2>6 DEF Service!Close, line
<1> QED
  <2>1. Service!Next \/ UNCHANGED Service!serviceVars
    BY <1>2, <1>3, <1>4, <1>5, <1>7, <1>8, <1>9, <1>10, QuietSteps
    DEF Service!Next, Service!serviceVars, line
  <2> QED
    BY <2>1

(***************************************************************************)
(* The server implements the decision service: no interleaving of the      *)
(* handlers, the dispatcher and stop() answers the jobs in another order   *)
(* than they were accepted in, gives a selected job anything but a verdict *)
(* of the predictor, or lets a job join after the service closed.          *)
(***************************************************************************)
THEOREM ImplementsService == Spec => ServiceSpec
<1>1. Init => Service!Init
  <2>1. ASSUME Init
        PROVE  Selected \o queue = <<>>
    <3> DEFINE none == <<>>
    <3>1. none \in Seq(Jobs) /\ 1 = Len(none) + 1
      OBVIOUS
    <3>2. Selected \o queue = Line(none, Len(none) + 1, none)
      BY <2>1, <3>1 DEF Init, Selected, Line
    <3> HIDE DEF none
    <3>3. Selected \o queue = none
      BY <3>1, <3>2, LineRests
    <3> QED
      BY <3>3 DEF none
  <2> QED
    BY <2>1 DEF Init, Service!Init
<1>2. IInv /\ [Next]_vars => [Service!Next]_Service!serviceVars
  BY StepRefines
<1> QED
  BY <1>1, <1>2, Invariance, PTL DEF Spec, ServiceSpec, Service!Spec
=============================================================================
