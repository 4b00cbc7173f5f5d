---------------------------- MODULE RoutesProofs ----------------------------
(***************************************************************************)
(* Theorems of Routes, for any clients, requests, limits and capacity.     *)
(*                                                                         *)
(* RoutesInv strengthens the properties to an inductive invariant: a       *)
(* handler past routing holds a request that is cleared, and past          *)
(* validate() one that is counted; only such handlers have a job in the    *)
(* service.  BlameInv adds what a handler has found of its request so far  *)
(* and that the service decides a job once, on which its status rests.     *)
(***************************************************************************)
EXTENDS Routes, Lemmas

Cleared(c) == Infers(request[c]) /\ (Keyed => request[c].bearer)

Past == {"parse", "validate", "wait"}

\* Where the handlers are tells what they know of their requests.
ClearedInv == \A c \in Clients : stage[c] \in Past => Cleared(c)
CountInv ==
  \A c \in Clients :
    /\ questions[c] <= MaxQuestions
    /\ stage[c] \in {"idle", "route", "parse"} => item[c] = 1
    /\ stage[c] = "validate" => Len(request[c].items) >= 1 /\ (item[c] > 1 => questions[c] >= 1)

\* What the service knows of a client.
AdmittedInv ==
  \A c \in Clients :
    Admitted(c) => stage[c] \in {"wait", "done"} /\ Cleared(c) /\ questions[c] \in 1..MaxQuestions

RoutesInv == TypeOK /\ ClearedInv /\ CountInv /\ AdmittedInv /\ RetryIsSafe

SizesOf(items) == [i \in DOMAIN items |-> items[i].size]

\* The first n requests of a body passed validate(), which counted q questions.
Counted(items, n, q) ==
  /\ \A i \in 1..n : items[i].before = "none" /\ items[i].after = "none" /\ items[i].size > 0
  /\ q = Total(SizesOf(items), 1..n)

\* What a handler knows of its client's request.
SoundInv ==
  \A c \in Clients :
    /\ stage[c] \in {"idle", "route", "parse"} => questions[c] = 0
    /\ stage[c] \in Past => ~TooLarge(request[c])
    /\ stage[c] \in {"validate", "wait"} =>
         /\ BodyFlaw(request[c]) = "none"
         /\ item[c] - 1 <= Len(request[c].items)
         /\ Counted(request[c].items, item[c] - 1, questions[c])
    /\ stage[c] = "wait" => item[c] - 1 = Len(request[c].items)

\* A job is in line once, and undecided.
LineInv ==
  /\ \A n \in DOMAIN line : outcome[line[n]] = "none"
  /\ \A m, n \in DOMAIN line : line[m] = line[n] => m = n

\* Nobody is answered before its handler is done.
SilentInv == \A c \in Clients : stage[c] # "done" => response[c].form = "none"

\* The status and form of answer `a` fit request `r` and outcome `o`.
Blames(a, r, o) ==
  /\ a.status \in 400..499 => Faulty(r) \/ o \in {"length", "argument", "json"}
  /\ a.status = 500 => o = "runtime"
  /\ a.status = 200 => (a.form = "info" <=> Informs(r))
  /\ a.form \in {"object", "results"} => o = "results" /\ ~Faulty(r)

BlameInv ==
  /\ SoundInv /\ LineInv /\ SilentInv
  /\ \A c \in Clients : Blames(response[c], request[c], outcome[c])

-----------------------------------------------------------------------------
(* Exceptions and statuses *)

\* The catch clauses give each exception evaluate() can meet its status.
LEMMA CaughtStatus ==
  /\ Caught("unavailable") = Catch("unavailable", 503, TRUE)
  /\ Caught("parse") = Catch("parse_error", 400, FALSE)
  /\ Caught("length") = Catch("length_error", 413, FALSE)
  /\ Caught("json") = Catch("json_exception", 422, FALSE)
  /\ Caught("argument") = Catch("invalid_argument", 422, FALSE)
  /\ Caught("runtime") = Catch("exception", 500, FALSE)
<1> DEFINE Fits(n, e) == /\ Catches[n].class \in Classes(e)
                         /\ \A o \in 1..n - 1 : Catches[o].class \notin Classes(e)
<1>1. DOMAIN Catches = 1..6
  BY DEF Catches
<1>2. /\ Catches[1] = Catch("unavailable", 503, TRUE)
      /\ Catches[2] = Catch("parse_error", 400, FALSE)
      /\ Catches[3] = Catch("length_error", 413, FALSE)
      /\ Catches[4] = Catch("json_exception", 422, FALSE)
      /\ Catches[5] = Catch("invalid_argument", 422, FALSE)
      /\ Catches[6] = Catch("exception", 500, FALSE)
  BY DEF Catches
<1>3. /\ Catches[1].class = "unavailable" /\ Catches[2].class = "parse_error"
      /\ Catches[3].class = "length_error" /\ Catches[4].class = "json_exception"
      /\ Catches[5].class = "invalid_argument" /\ Catches[6].class = "exception"
  BY <1>2 DEF Catch
<1>4. \A n \in 1..6 : Fits(n, "unavailable") <=> n = 1
  BY <1>3 DEF Classes
<1>5. \A n \in 1..6 : Fits(n, "parse") <=> n = 2
  BY <1>3 DEF Classes
<1>6. \A n \in 1..6 : Fits(n, "length") <=> n = 3
  BY <1>3 DEF Classes
<1>7. \A n \in 1..6 : Fits(n, "json") <=> n = 4
  BY <1>3 DEF Classes
<1>8. \A n \in 1..6 : Fits(n, "argument") <=> n = 5
  BY <1>3 DEF Classes
<1>9. \A n \in 1..6 : Fits(n, "runtime") <=> n = 6
  BY <1>3 DEF Classes
<1>10. /\ (CHOOSE n \in DOMAIN Catches : Fits(n, "unavailable")) = 1
       /\ (CHOOSE n \in DOMAIN Catches : Fits(n, "parse")) = 2
       /\ (CHOOSE n \in DOMAIN Catches : Fits(n, "length")) = 3
       /\ (CHOOSE n \in DOMAIN Catches : Fits(n, "json")) = 4
       /\ (CHOOSE n \in DOMAIN Catches : Fits(n, "argument")) = 5
       /\ (CHOOSE n \in DOMAIN Catches : Fits(n, "runtime")) = 6
  <2> HIDE DEF Fits
  <2> QED BY <1>1, <1>4, <1>5, <1>6, <1>7, <1>8, <1>9
<1> DEFINE Pick(e) == CHOOSE n \in DOMAIN Catches : Fits(n, e)
<1>11. ASSUME NEW e PROVE Caught(e) = Catches[Pick(e)]
  BY Zenon DEF Caught
<1>12. /\ Caught("unavailable") = Catches[Pick("unavailable")] /\ Caught("parse") = Catches[Pick("parse")]
       /\ Caught("length") = Catches[Pick("length")] /\ Caught("json") = Catches[Pick("json")]
       /\ Caught("argument") = Catches[Pick("argument")] /\ Caught("runtime") = Catches[Pick("runtime")]
  <2> HIDE DEF Pick
  <2> QED BY <1>11
<1>13. /\ Pick("unavailable") = 1 /\ Pick("parse") = 2 /\ Pick("length") = 3
       /\ Pick("json") = 4 /\ Pick("argument") = 5 /\ Pick("runtime") = 6
  BY <1>10
<1> HIDE DEF Pick
<1> QED BY <1>2, <1>12, <1>13 DEF Catch
\* An exception of evaluate() or of the predictor is answered with an error, and with a
\* request to retry only if it is `unavailable`.
LEMMA ThrownAnswer ==
  ASSUME NEW e \in {"unavailable", "parse"} \cup Exceptions
  PROVE  LET a == [status |-> Caught(e).code, retry |-> Caught(e).retry, form |-> "error"]
         IN  /\ a \in Responses /\ a.status # 0
             /\ a.retry \/ a.status = 503 => e = "unavailable"
<1> DEFINE a == [status |-> Caught(e).code, retry |-> Caught(e).retry, form |-> "error"]
<1>1. /\ Caught("unavailable").code = 503 /\ Caught("unavailable").retry = TRUE
      /\ Caught("parse").code = 400 /\ Caught("parse").retry = FALSE
      /\ Caught("length").code = 413 /\ Caught("length").retry = FALSE
      /\ Caught("json").code = 422 /\ Caught("json").retry = FALSE
      /\ Caught("argument").code = 422 /\ Caught("argument").retry = FALSE
      /\ Caught("runtime").code = 500 /\ Caught("runtime").retry = FALSE
  BY CaughtStatus DEF Catch
<1>2. e \in {"unavailable", "parse", "length", "json", "argument", "runtime"}
  BY DEF Exceptions
<1>3. Caught(e).code \in Nat /\ Caught(e).retry \in BOOLEAN /\ Caught(e).code # 0
  <2>1. Caught(e).code \in Nat /\ Caught(e).code # 0
    BY <1>1, <1>2
  <2>2. Caught(e).retry \in BOOLEAN
    BY <1>1, <1>2, ZenonT(60)
  <2> QED
    BY <2>1, <2>2
<1>4. Caught(e).retry = TRUE \/ Caught(e).code = 503 => e = "unavailable"
  BY <1>1, <1>2
<1>5. a.status = Caught(e).code /\ a.retry = Caught(e).retry
  OBVIOUS
<1>6. a \in Responses
  BY <1>3 DEF Responses, Forms
<1> QED
  BY <1>3, <1>4, <1>5, <1>6

-----------------------------------------------------------------------------
(* Steps of a handler *)

LEMMA InitInv == Init => RoutesInv
<1> SUFFICES ASSUME Init PROVE RoutesInv
  OBVIOUS
<1>1. line = <<>> /\ line \in Seq(Clients) /\ service!Waiting = {}
  <2>1. line = <<>>
    BY DEF Init, service!Init
  <2>2. DOMAIN line = {} /\ line \in Seq(Clients)
    BY <2>1
  <2> QED
    BY <2>1, <2>2 DEF service!Waiting
<1>2. TypeOK
  <2>1. NoResponse \in Responses /\ NoResponse.status = 0
    BY DEF NoResponse, Responses, Forms
  <2>2. response \in [Clients -> Responses] /\ \A c \in Clients : response[c].status = 0 /\ stage[c] = "idle"
    BY <2>1 DEF Init
  <2>3. item \in [Clients -> Nat \ {0}] /\ questions \in [Clients -> Nat] /\ stage \in [Clients -> Stages]
    BY DEF Init, Stages
  <2>4. request \in [Clients -> Arrivals \cup {NoRequest}]
    BY DEF Init
  <2>5. closed \in BOOLEAN /\ outcome \in [Clients -> {"none", "unavailable", "results"} \cup Exceptions]
    BY DEF Init, service!Init
  <2> QED
    BY <1>1, <2>2, <2>3, <2>4, <2>5 DEF TypeOK
<1>3. ClearedInv /\ CountInv /\ RetryIsSafe
  BY LimitsAssumption DEF ClearedInv, CountInv, RetryIsSafe, Init, Past, NoResponse
<1>4. AdmittedInv
  BY <1>1 DEF AdmittedInv, Admitted, Init, service!Init
<1> QED
  BY <1>2, <1>3, <1>4 DEF RoutesInv

LEMMA SameService ==
  ASSUME UNCHANGED serviceVars, NEW c \in Clients
  PROVE  Admitted(c)' <=> Admitted(c)
BY DEF serviceVars, Admitted, service!Waiting

LEMMA ArriveInv ==
  ASSUME RoutesInv, NEW c \in Clients, Arrive(c)
  PROVE  RoutesInv'
<1>1. PICK r \in Arrivals : request' = [request EXCEPT ![c] = r]
  BY DEF Arrive
<1>2. /\ stage[c] = "idle" /\ stage' = [stage EXCEPT ![c] = "route"]
      /\ UNCHANGED <<item, questions, response, line, outcome, closed>>
  BY DEF Arrive, serviceVars
<1>3. TypeOK /\ TypeOK'
  BY <1>1, <1>2 DEF RoutesInv, TypeOK, Stages
<1>4. \A d \in Clients : (d # c => request'[d] = request[d] /\ stage'[d] = stage[d]) /\ stage'[c] = "route"
  BY <1>1, <1>2, <1>3 DEF TypeOK
<1>5. ClearedInv'
  BY <1>4 DEF RoutesInv, ClearedInv, Cleared, Past
<1>6. CountInv'
  BY <1>2, <1>4 DEF RoutesInv, CountInv
<1>7. AdmittedInv'
  BY <1>2, <1>4, SameService DEF RoutesInv, AdmittedInv, Cleared, serviceVars
<1>8. RetryIsSafe'
  BY <1>2 DEF RoutesInv, RetryIsSafe
<1> QED
  BY <1>3, <1>5, <1>6, <1>7, <1>8 DEF RoutesInv

\* Every action that answers a client is this one.
LEMMA RespondInv ==
  ASSUME RoutesInv, NEW c \in Clients, stage[c] # "idle", NEW a \in Responses, a.status # 0,
         a.retry \/ a.status = 503 => outcome[c] = "unavailable", Respond(c, a)
  PROVE  RoutesInv'
<1>1. /\ response' = [response EXCEPT ![c] = a] /\ stage' = [stage EXCEPT ![c] = "done"]
      /\ UNCHANGED <<request, item, questions, line, outcome, closed>>
  BY DEF Respond, serviceVars
<1>2. TypeOK /\ TypeOK'
  BY <1>1 DEF RoutesInv, TypeOK, Stages
<1>3. \A d \in Clients : (d # c => response'[d] = response[d] /\ stage'[d] = stage[d])
                         /\ stage'[c] = "done" /\ response'[c] = a
  BY <1>1, <1>2 DEF TypeOK
<1>4. ClearedInv'
  BY <1>1, <1>3 DEF RoutesInv, ClearedInv, Cleared, Past
<1>5. CountInv'
  BY <1>1, <1>3 DEF RoutesInv, CountInv
<1>6. AdmittedInv'
  BY <1>1, <1>3, SameService DEF RoutesInv, AdmittedInv, Cleared, serviceVars
<1>7. RetryIsSafe'
  BY <1>1, <1>3 DEF RoutesInv, RetryIsSafe
<1> QED
  BY <1>2, <1>4, <1>5, <1>6, <1>7 DEF RoutesInv

LEMMA ThrowInv ==
  ASSUME RoutesInv, NEW c \in Clients, stage[c] # "idle",
         NEW e \in {"unavailable", "parse"} \cup Exceptions,
         e = "unavailable" => outcome[c] = "unavailable", Throw(c, e)
  PROVE  RoutesInv'
<1> DEFINE a == [status |-> Caught(e).code, retry |-> Caught(e).retry, form |-> "error"]
<1>1. a \in Responses /\ a.status # 0 /\ (a.retry \/ a.status = 503 => e = "unavailable")
  BY ThrownAnswer
<1>2. Respond(c, a)
  BY DEF Throw
<1> HIDE DEF a
<1> QED
  BY <1>1, <1>2, RespondInv

\* The answers of the routing handlers ask nobody to retry.
LEMMA RoutingInv ==
  ASSUME RoutesInv, NEW c \in Clients, Routing(c),
         AnswerPreflight(c) \/ TurnAway(c) \/ RefuseBody(c) \/ Inform(c) \/ MissRoute(c)
  PROVE  RoutesInv'
<1>1. PICK code \in {200, 204, 401, 404, 405, 413}, form \in {"empty", "error", "info"} :
        Respond(c, Status(code, form))
  BY DEF AnswerPreflight, TurnAway, RefuseBody, Inform, MissRoute
<1>2. Status(code, form) \in Responses /\ Status(code, form).status = code
  BY DEF Status, Responses, Forms
<1>3. Status(code, form).retry = FALSE
  BY DEF Status
<1>4. stage[c] # "idle"
  BY DEF Routing
<1> QED
  BY <1>1, <1>2, <1>3, <1>4, RespondInv

LEMMA RefuseValueInv ==
  ASSUME RoutesInv, NEW c \in Clients, RefuseValue(c)
  PROVE  RoutesInv'
<1>1. stage[c] = "parse" /\ Throw(c, BodyFlaw(request[c])) /\ BodyFlaw(request[c]) # "none"
  BY DEF RefuseValue
<1>2. BodyFlaw(request[c]) \in {"parse", "argument"}
  BY <1>1 DEF BodyFlaw
<1> QED
  BY <1>1, <1>2, ThrowInv DEF Exceptions

\* What a handler that validates knows of the request it looks at.
LEMMA ItemTyped ==
  ASSUME RoutesInv, NEW c \in Clients, Validating(c)
  PROVE  request[c].items[item[c]] \in Items
<1>1. request[c] \in Arrivals /\ item[c] \in Nat \ {0} /\ item[c] <= Len(request[c].items)
  BY DEF RoutesInv, TypeOK, Validating
<1>2. request[c].items \in Seq(Items)
  BY <1>1, ArrivalsAssumption
<1> QED
  BY <1>1, <1>2

LEMMA RefuseItemInv ==
  ASSUME RoutesInv, NEW c \in Clients, RefuseItem(c)
  PROVE  RoutesInv'
<1>1. stage[c] = "validate" /\ Throw(c, ItemFlaw(c)) /\ ItemFlaw(c) # "none" /\ Validating(c)
  BY DEF RefuseItem, Validating
<1>2. ItemFlaw(c) \in {"argument", "json", "length"}
  BY <1>1, ItemTyped DEF ItemFlaw, Items, Objections
<1> QED
  BY <1>1, <1>2, ThrowInv DEF Exceptions

LEMMA AnswerInv ==
  ASSUME RoutesInv, NEW c \in Clients, Answer(c)
  PROVE  RoutesInv'
<1>1. stage[c] = "wait" /\ outcome[c] # "none"
  BY DEF Answer
<1>2. CASE outcome[c] = "results"
  <2>1. PICK form \in {"results", "object"} : Respond(c, Status(200, form))
    BY <1>2 DEF Answer
  <2>2. Status(200, form) \in Responses /\ Status(200, form).status = 200
    BY DEF Status, Responses, Forms
  <2>3. Status(200, form).retry = FALSE
    BY DEF Status
  <2> QED
    BY <1>1, <2>1, <2>2, <2>3, RespondInv
<1>3. CASE outcome[c] # "results"
  <2>1. outcome[c] \in {"unavailable"} \cup Exceptions
    BY <1>1, <1>3 DEF RoutesInv, TypeOK
  <2>2. Throw(c, outcome[c])
    BY <1>3 DEF Answer
  <2> QED
    BY <1>1, <2>1, <2>2, ThrowInv
<1> QED
  BY <1>2, <1>3

LEMMA InferInv ==
  ASSUME RoutesInv, NEW c \in Clients, Infer(c)
  PROVE  RoutesInv'
<1>1. /\ stage[c] = "route" /\ stage' = [stage EXCEPT ![c] = "parse"] /\ Cleared(c)
      /\ UNCHANGED <<request, item, questions, response, line, outcome, closed>>
  BY DEF Infer, Read, Passed, Routing, Unlocked, Infers, Inferring, Cleared, serviceVars
<1>2. TypeOK /\ TypeOK'
  BY <1>1 DEF RoutesInv, TypeOK, Stages
<1>3. \A d \in Clients : (d # c => stage'[d] = stage[d]) /\ stage'[c] = "parse"
  BY <1>1, <1>2 DEF TypeOK
<1>4. ClearedInv'
  BY <1>1, <1>3 DEF RoutesInv, ClearedInv, Cleared, Past
<1>5. CountInv'
  BY <1>1, <1>3 DEF RoutesInv, CountInv
<1>6. AdmittedInv'
  BY <1>1, <1>3, SameService DEF RoutesInv, AdmittedInv, Cleared, serviceVars
<1>7. RetryIsSafe'
  BY <1>1 DEF RoutesInv, RetryIsSafe
<1> QED
  BY <1>2, <1>4, <1>5, <1>6, <1>7 DEF RoutesInv

LEMMA ParseInv ==
  ASSUME RoutesInv, NEW c \in Clients, Parse(c)
  PROVE  RoutesInv'
<1>1. /\ stage[c] = "parse" /\ BodyFlaw(request[c]) = "none" /\ stage' = [stage EXCEPT ![c] = "validate"]
      /\ UNCHANGED <<request, item, questions, response, line, outcome, closed>>
  BY DEF Parse, serviceVars
<1>2. TypeOK /\ TypeOK'
  BY <1>1 DEF RoutesInv, TypeOK, Stages
<1>3. \A d \in Clients : (d # c => stage'[d] = stage[d]) /\ stage'[c] = "validate"
  BY <1>1, <1>2 DEF TypeOK
<1>4. Len(request[c].items) >= 1
  <2>1. request[c].items # <<>>
    BY <1>1 DEF BodyFlaw
  <2>2. request[c] \in Arrivals
    BY <1>1, <1>2 DEF TypeOK
  <2>3. request[c].items \in Seq(Items)
    BY <2>2, ArrivalsAssumption
  <2> QED
    BY <2>1, <2>3
<1>5. ClearedInv'
  BY <1>1, <1>3 DEF RoutesInv, ClearedInv, Cleared, Past
<1>6. CountInv'
  BY <1>1, <1>3, <1>4 DEF RoutesInv, CountInv
<1>7. AdmittedInv'
  BY <1>1, <1>3, SameService DEF RoutesInv, AdmittedInv, Cleared, serviceVars
<1>8. RetryIsSafe'
  BY <1>1 DEF RoutesInv, RetryIsSafe
<1> QED
  BY <1>2, <1>5, <1>6, <1>7, <1>8 DEF RoutesInv

\* The count stays within the limit because it was: the difference did not wrap.
LEMMA CountItemInv ==
  ASSUME RoutesInv, NEW c \in Clients, CountItem(c)
  PROVE  RoutesInv'
<1> DEFINE i == request[c].items[item[c]]
<1>1. /\ stage[c] = "validate" /\ Validating(c) /\ ItemFlaw(c) = "none"
      /\ questions' = [questions EXCEPT ![c] = @ + i.size] /\ item' = [item EXCEPT ![c] = @ + 1]
      /\ UNCHANGED <<request, stage, response, line, outcome, closed>>
  BY DEF CountItem, Validating, serviceVars
<1>2. i.size \in Nat \ {0} /\ i.size <= Left(c)
  <2>1. i \in Items
    BY <1>1, ItemTyped
  <2>2. i.size \in Nat /\ i.before = "none" /\ i.size # 0 /\ ~(i.size > Left(c))
    BY <1>1, <2>1 DEF ItemFlaw, Items
  <2>3. Left(c) \in Int
    BY LimitsAssumption DEF RoutesInv, TypeOK, Left, Minus
  <2> QED
    BY <2>2, <2>3
<1> HIDE DEF i
<1>3. Left(c) = MaxQuestions - questions[c] /\ questions[c] \in Nat /\ MaxQuestions \in Nat
  BY LimitsAssumption DEF RoutesInv, TypeOK, CountInv, Left, Minus
<1>4. TypeOK /\ TypeOK'
  BY <1>1, <1>2 DEF RoutesInv, TypeOK
<1>5. \A d \in Clients : (d # c => questions'[d] = questions[d] /\ item'[d] = item[d])
                         /\ questions'[c] = questions[c] + i.size
  BY <1>1, <1>4 DEF TypeOK
<1>6. ClearedInv'
  BY <1>1 DEF RoutesInv, ClearedInv, Cleared
<1>7. CountInv'
  BY <1>1, <1>2, <1>3, <1>5 DEF RoutesInv, CountInv
<1>8. AdmittedInv'
  BY <1>1, <1>5, SameService DEF RoutesInv, AdmittedInv, Cleared, serviceVars
<1>9. RetryIsSafe'
  BY <1>1 DEF RoutesInv, RetryIsSafe
<1> QED
  BY <1>4, <1>6, <1>7, <1>8, <1>9 DEF RoutesInv

-----------------------------------------------------------------------------
(* Steps of the service *)

LEMMA SubmitInv ==
  ASSUME RoutesInv, NEW c \in Clients, Submit(c)
  PROVE  RoutesInv'
<1>1. /\ stage[c] = "validate" /\ item[c] > Len(request[c].items) /\ stage' = [stage EXCEPT ![c] = "wait"]
      /\ UNCHANGED <<request, item, questions, response>>
  BY DEF Submit, Validated
<1>2. TypeOK
  BY DEF RoutesInv
<1>3. Cleared(c) /\ questions[c] \in 1..MaxQuestions
  <2>1. questions[c] \in Nat /\ item[c] \in Nat /\ request[c] \in Arrivals
    BY <1>1, <1>2 DEF TypeOK
  <2>2. request[c].items \in Seq(Items)
    BY <2>1, ArrivalsAssumption
  <2>3. questions[c] <= MaxQuestions /\ questions[c] >= 1
    BY <1>1, <2>1, <2>2 DEF RoutesInv, CountInv
  <2> QED
    BY <1>1, <2>1, <2>3, LimitsAssumption DEF RoutesInv, ClearedInv, Past
<1>4. /\ line' \in Seq(Clients) /\ service!Waiting' \subseteq service!Waiting \cup {c}
      /\ closed' = closed
      /\ outcome' = outcome \/ (outcome[c] = "none" /\ outcome' = [outcome EXCEPT ![c] = "unavailable"])
  <2>1. CASE service!Accept(c)
    <3>1. line' = Append(line, c) /\ UNCHANGED <<outcome, closed>> /\ line \in Seq(Clients)
      BY <1>2, <2>1 DEF service!Accept, TypeOK
    <3>2. /\ line' \in Seq(Clients) /\ DOMAIN line' = 1..Len(line) + 1 /\ DOMAIN line = 1..Len(line)
          /\ line'[Len(line) + 1] = c /\ \A n \in 1..Len(line) : line'[n] = line[n]
      BY <3>1
    <3> QED
      BY <3>1, <3>2 DEF service!Waiting
  <2>2. CASE service!Refuse(c)
    BY <1>2, <2>2 DEF service!Refuse, service!Fresh, service!Waiting, TypeOK
  <2> QED
    BY <2>1, <2>2 DEF Submit
<1>5. \A d \in Clients : (d # c => stage'[d] = stage[d] /\ outcome'[d] = outcome[d]) /\ stage'[c] = "wait"
  BY <1>1, <1>2, <1>4 DEF TypeOK
<1>6. TypeOK'
  <2>1. outcome' \in [Clients -> {"none", "unavailable", "results"} \cup Exceptions]
    BY <1>2, <1>4 DEF TypeOK
  <2> QED
    BY <1>1, <1>2, <1>4, <2>1 DEF TypeOK, Stages
<1>7. ClearedInv'
  BY <1>1, <1>3, <1>5 DEF RoutesInv, ClearedInv, Cleared, Past
<1>8. CountInv'
  BY <1>1, <1>5 DEF RoutesInv, CountInv
<1>9. AdmittedInv'
  <2>1. \A d \in Clients : d # c /\ Admitted(d)' => Admitted(d)
    BY <1>4, <1>5 DEF Admitted
  <2> QED
    BY <1>1, <1>3, <1>5, <2>1 DEF RoutesInv, AdmittedInv, Cleared
<1>10. RetryIsSafe'
  BY <1>1, <1>4, <1>5 DEF RoutesInv, RetryIsSafe
<1> QED
  BY <1>6, <1>7, <1>8, <1>9, <1>10 DEF RoutesInv

LEMMA ServeInv ==
  ASSUME RoutesInv, Serve
  PROVE  RoutesInv'
<1>1. UNCHANGED <<request, stage, item, questions, response>>
  BY DEF Serve
<1>2. TypeOK
  BY DEF RoutesInv
<1>3. /\ line' \in Seq(Clients) /\ service!Waiting' \subseteq service!Waiting /\ closed' \in BOOLEAN
      /\ outcome' \in [Clients -> {"none", "unavailable", "results"} \cup Exceptions]
      /\ \A c \in Clients : /\ outcome'[c] # outcome[c] => c \in service!Waiting
                            /\ outcome[c] = "unavailable" => outcome'[c] = "unavailable"
  <2>1. CASE service!AnswerNext
    <3>1. /\ line # <<>> /\ line' = Tail(line) /\ outcome[Head(line)] = "none" /\ closed' = closed
          /\ line \in Seq(Clients)
      BY <1>2, <2>1 DEF service!AnswerNext, TypeOK
    <3>2. Head(line) \in Clients /\ Head(line) = line[1] /\ 1 \in DOMAIN line
      BY <3>1
    <3>3. PICK verdict \in {"results"} \cup Exceptions : outcome' = [outcome EXCEPT ![Head(line)] = verdict]
      BY <2>1, <3>2 DEF service!AnswerNext, Verdicts
    <3>4. line' \in Seq(Clients) /\ \A n \in DOMAIN line' : n + 1 \in DOMAIN line /\ line'[n] = line[n + 1]
      BY <3>1
    <3>5. service!Waiting' \subseteq service!Waiting
      BY <3>4 DEF service!Waiting
    <3>6. Head(line) \in service!Waiting
      BY <3>2 DEF service!Waiting
    <3> QED
      BY <1>2, <3>1, <3>2, <3>3, <3>4, <3>5, <3>6 DEF TypeOK
  <2>2. CASE service!Close
    <3>1. PICK kept \in 0..Len(line) :
            /\ line' = SubSeq(line, 1, kept)
            /\ outcome' = [c \in Clients |-> IF \E n \in kept + 1..Len(line) : line[n] = c
                                             THEN "unavailable" ELSE outcome[c]]
      BY <2>2 DEF service!Close
    <3>2. line \in Seq(Clients) /\ Len(line) \in Nat /\ closed' = TRUE
      BY <1>2, <2>2 DEF TypeOK, service!Close
    <3>3. line' \in Seq(Clients) /\ \A n \in DOMAIN line' : n \in DOMAIN line /\ line'[n] = line[n]
      BY <3>1, <3>2
    <3>4. service!Waiting' \subseteq service!Waiting
      BY <3>3 DEF service!Waiting
    <3>5. \A c \in Clients : (\E n \in kept + 1..Len(line) : line[n] = c) => c \in service!Waiting
      BY <3>1, <3>2 DEF service!Waiting
    <3>6. outcome' \in [Clients -> {"none", "unavailable", "results"} \cup Exceptions]
      BY <1>2, <3>1 DEF TypeOK
    <3> QED
      BY <3>1, <3>2, <3>3, <3>4, <3>5, <3>6
  <2> QED
    BY <2>1, <2>2 DEF Serve
<1>4. TypeOK'
  BY <1>1, <1>2, <1>3 DEF TypeOK
<1>5. ClearedInv' /\ CountInv'
  BY <1>1 DEF RoutesInv, ClearedInv, CountInv, Cleared
<1>6. AdmittedInv'
  <2>1. \A c \in Clients : Admitted(c)' => Admitted(c)
    BY <1>3 DEF Admitted
  <2> QED
    BY <1>1, <2>1 DEF RoutesInv, AdmittedInv, Cleared
<1>7. RetryIsSafe'
  BY <1>1, <1>3 DEF RoutesInv, RetryIsSafe
<1> QED
  BY <1>4, <1>5, <1>6, <1>7 DEF RoutesInv

-----------------------------------------------------------------------------
(* Whose fault it is *)

\* The fold of Asked() is the total of the sizes.
LEMMA AskedIsTotal ==
  ASSUME NEW items \in Seq(Items)
  PROVE  /\ Len(items) \in Nat
         /\ \A i \in 1..Len(items) :
              /\ items[i] \in Items
              /\ SizesOf(items)[i] = items[i].size /\ SizesOf(items)[i] \in Nat
         /\ Asked(items) = Total(SizesOf(items), 1..Len(items))
<1> DEFINE w == SizesOf(items)
           D == DOMAIN items
           n == Len(items)
           first(S) == CHOOSE x \in S : TRUE
           Step(f, S) == IF S = {} THEN 0
                         ELSE LET x == CHOOSE x \in S : TRUE
                              IN  f[S \ {x}] + items[x].size
           g == CHOOSE f : f = [S \in SUBSET D |-> Step(f, S)]
           pick == [S \in SUBSET (1..n) |-> first(S)]
<1>1. Asked(items) = g[D]
  BY DEF Asked, FoldSeq, FoldFunction, FoldFunctionOnSet, MapThenFoldSet
<1>2. /\ D = 1..n /\ n \in Nat
      /\ \A i \in D : items[i] \in Items /\ w[i] = items[i].size /\ w[i] \in Nat
  <2>1. D = 1..n /\ n \in Nat /\ \A i \in D : items[i] \in Items
    OBVIOUS
  <2>2. \A i \in D : w[i] = items[i].size
    BY DEF SizesOf
  <2>3. \A i \in D : items[i].size \in Nat
    BY <2>1 DEF Items
  <2> QED
    BY <2>1, <2>2, <2>3
<1>3. ASSUME NEW S \in SUBSET D, S # {}
      PROVE  /\ first(S) \in S
             /\ w[first(S)] = items[first(S)].size
             /\ Total(w, S) = Total(w, S \ {first(S)}) + w[first(S)]
  <2>1. first(S) \in S
    BY <1>3
  <2>2. S \in SUBSET (1..n) /\ \A i \in 1..n : w[i] \in Nat
    BY <1>2
  <2> HIDE DEF D, w, first
  <2>3. Total(w, S) = Total(w, S \ {first(S)}) + w[first(S)]
    BY <1>2, <2>1, <2>2, TotalRemove
  <2> QED
    BY <1>2, <2>1, <2>3
<1>4. \E f : f = [S \in SUBSET D |-> Step(f, S)]
  <2> DEFINE f == [S \in SUBSET D |-> Total(w, S)]
  <2>1. ASSUME NEW S \in SUBSET D
        PROVE  f[S] = Step(f, S)
    <3> HIDE DEF w
    <3>1. CASE S = {}
      BY <3>1, TotalEmpty
    <3>2. CASE S # {}
      BY <3>2, <1>3
    <3> QED
      BY <3>1, <3>2
  <2> QED
    BY <2>1
<1>5. g = [S \in SUBSET D |-> Step(g, S)]
  BY <1>4
<1>6. ASSUME NEW S \in SUBSET D
      PROVE  g[S] = IF S = {} THEN 0 ELSE g[S \ {first(S)}] + w[first(S)]
  <2> HIDE DEF g
  <2>1. g[S] = Step(g, S)
    BY <1>5
  <2> QED
    BY <2>1, <1>3
<1> HIDE DEF g, w, first
<1>7. Picks(pick, n)
  BY <1>2, <1>3 DEF Picks
<1>8. Sums(g, w, pick, n)
  BY <1>2, <1>6 DEF Sums
<1> HIDE DEF pick
<1>9. g[1..n] = Total(w, 1..n)
  BY <1>2, <1>7, <1>8, TotalUnique
<1> QED
  BY <1>1, <1>2, <1>9 DEF w

\* One more request that validate() passed.
LEMMA CountedNext ==
  ASSUME NEW items \in Seq(Items), NEW n \in Nat, n + 1 <= Len(items), NEW q \in Nat,
         Counted(items, n, q),
         items[n + 1].before = "none", items[n + 1].after = "none", items[n + 1].size > 0
  PROVE  Counted(items, n + 1, q + items[n + 1].size)
<1> DEFINE w == SizesOf(items)
<1>1. /\ \A i \in 1..n + 1 : w[i] \in Nat
      /\ w[n + 1] = items[n + 1].size
  <2>1. \A i \in 1..n + 1 : i \in 1..Len(items)
    OBVIOUS
  <2> HIDE DEF w
  <2> QED
    BY <2>1, AskedIsTotal DEF w
<1> HIDE DEF w
<1>2. Total(w, 1..n + 1) = Total(w, 1..n) + w[n + 1]
  BY <1>1, TotalNext
<1>3. \A i \in 1..n + 1 : i \in 1..n \/ i = n + 1
  OBVIOUS
<1> QED
  BY <1>1, <1>2, <1>3 DEF Counted, w

\* A body that passed validate() as a whole is not Faulty.
LEMMA SoundRequest ==
  ASSUME NEW r \in Arrivals, NEW q \in Nat, q <= MaxQuestions, Infers(r), Unlocked(r), ~TooLarge(r),
         BodyFlaw(r) = "none", Counted(r.items, Len(r.items), q)
  PROVE  ~Faulty(r)
<1>1. r.items \in Seq(Items)
  BY ArrivalsAssumption
<1>2. Asked(r.items) = q /\ ~(q > MaxQuestions)
  BY <1>1, AskedIsTotal, LimitsAssumption DEF Counted
<1>3. \A i \in DOMAIN r.items :
        r.items[i].before = "none" /\ r.items[i].after = "none" /\ r.items[i].size # 0
  <2>1. DOMAIN r.items = 1..Len(r.items)
    BY <1>1
  <2> QED
    BY <2>1 DEF Counted
<1> QED
  BY <1>2, <1>3 DEF Faulty

\* A body whose first requests exceed the limit is Faulty.
LEMMA OverfullRequest ==
  ASSUME NEW r \in Arrivals, NEW n \in Nat, n + 1 <= Len(r.items), NEW q \in Nat,
         Counted(r.items, n, q), q + r.items[n + 1].size > MaxQuestions
  PROVE  Faulty(r)
<1> DEFINE items == r.items
           w == SizesOf(items)
<1>1. items \in Seq(Items)
  BY ArrivalsAssumption
<1>2. /\ Len(items) \in Nat /\ \A i \in 1..Len(items) : w[i] \in Nat /\ w[i] = items[i].size
      /\ Asked(items) = Total(w, 1..Len(items))
  BY <1>1, AskedIsTotal
<1>3. q = Total(w, 1..n)
  BY DEF Counted
<1>4. n + 1 <= Len(items) /\ q + items[n + 1].size > MaxQuestions
  OBVIOUS
<1> HIDE DEF w, items
<1>5. n + 1 \in 1..Len(items) /\ n + 1 \in 0..Len(items) /\ \A i \in 1..n + 1 : i \in 1..Len(items)
  BY <1>2, <1>4
<1>6. Total(w, 1..n + 1) = q + w[n + 1]
  <2>1. \A i \in 1..n + 1 : w[i] \in Nat
    BY <1>2, <1>5
  <2> QED
    BY <1>3, <2>1, TotalNext
<1>7. Total(w, 1..n + 1) \in Nat /\ Total(w, 1..Len(items)) \in Nat
      /\ Total(w, 1..n + 1) <= Total(w, 1..Len(items))
  BY <1>2, <1>5, TotalGrows
<1>8. Asked(items) > MaxQuestions
  <2>1. PICK s \in Nat, a \in Nat : s = Total(w, 1..n + 1) /\ a = Total(w, 1..Len(items))
    BY <1>7
  <2>2. s > MaxQuestions
    BY <1>2, <1>4, <1>5, <1>6, <2>1
  <2> QED
    BY <1>2, <1>7, <2>1, <2>2, LimitsAssumption
<1> QED
  BY <1>8 DEF Faulty, items

\* An error status blames the request for what is its fault, the server for the rest.
LEMMA ThrownBlames ==
  ASSUME NEW e \in {"unavailable", "parse"} \cup Exceptions, NEW r, NEW o,
         e \in {"parse", "length", "argument", "json"} =>
           Faulty(r) \/ o \in {"length", "argument", "json"},
         e = "runtime" => o = "runtime"
  PROVE  Blames([status |-> Caught(e).code, retry |-> Caught(e).retry, form |-> "error"], r, o)
<1> DEFINE a == [status |-> Caught(e).code, retry |-> Caught(e).retry, form |-> "error"]
<1>1. /\ Caught("unavailable").code = 503 /\ Caught("parse").code = 400
      /\ Caught("length").code = 413 /\ Caught("json").code = 422
      /\ Caught("argument").code = 422 /\ Caught("runtime").code = 500
  BY CaughtStatus DEF Catch
<1>2. e \in {"unavailable", "parse", "length", "json", "argument", "runtime"}
  BY DEF Exceptions
<1>3. a.status = Caught(e).code /\ a.form = "error"
  OBVIOUS
<1> HIDE DEF a
<1>4. a.status \in 400..499 => e \in {"parse", "length", "argument", "json"}
  BY <1>1, <1>2, <1>3
<1>5. a.status = 500 => e = "runtime"
  <2>1. e # "runtime" => a.status \in {503, 400, 413, 422}
    BY <1>1, <1>2, <1>3
  <2> QED
    BY <2>1
<1>6. a.status # 200
  BY <1>1, <1>2, <1>3
<1> QED
  BY <1>3, <1>4, <1>5, <1>6 DEF Blames, a

LEMMA InitBlame == Init => BlameInv
<1> SUFFICES ASSUME Init PROVE BlameInv
  OBVIOUS
<1>1. line = <<>> /\ DOMAIN line = {}
  BY DEF Init, service!Init
<1>2. \A c \in Clients : stage[c] = "idle" /\ questions[c] = 0 /\ response[c] = NoResponse
  BY DEF Init
<1>3. SoundInv /\ LineInv /\ SilentInv
  BY <1>1, <1>2 DEF SoundInv, LineInv, SilentInv, Past, NoResponse
<1>4. \A c \in Clients : Blames(response[c], request[c], outcome[c])
  BY <1>2 DEF Blames, NoResponse
<1> QED
  BY <1>3, <1>4 DEF BlameInv

\* Steps of one client that leave the service alone.
LEMMA ClientBlame ==
  ASSUME RoutesInv, BlameInv, NEW c \in Clients, UNCHANGED serviceVars,
         \A d \in Clients : d # c =>
           /\ stage'[d] = stage[d] /\ request'[d] = request[d] /\ response'[d] = response[d]
           /\ item'[d] = item[d] /\ questions'[d] = questions[d],
         stage'[c] \in {"idle", "route", "parse"} => questions'[c] = 0,
         stage'[c] \in Past => ~TooLarge(request'[c]),
         stage'[c] \in {"validate", "wait"} =>
           /\ BodyFlaw(request'[c]) = "none"
           /\ item'[c] - 1 <= Len(request'[c].items)
           /\ Counted(request'[c].items, item'[c] - 1, questions'[c]),
         stage'[c] = "wait" => item'[c] - 1 = Len(request'[c].items),
         stage'[c] # "done" => response'[c].form = "none",
         Blames(response'[c], request'[c], outcome[c])
  PROVE  BlameInv'
<1>1. UNCHANGED <<line, outcome>>
  BY DEF serviceVars
<1>2. SoundInv'
  <2>1. SUFFICES ASSUME NEW d \in Clients
                 PROVE  /\ stage'[d] \in {"idle", "route", "parse"} => questions'[d] = 0
                        /\ stage'[d] \in Past => ~TooLarge(request'[d])
                        /\ stage'[d] \in {"validate", "wait"} =>
                             /\ BodyFlaw(request'[d]) = "none"
                             /\ item'[d] - 1 <= Len(request'[d].items)
                             /\ Counted(request'[d].items, item'[d] - 1, questions'[d])
                        /\ stage'[d] = "wait" => item'[d] - 1 = Len(request'[d].items)
    BY DEF SoundInv, Past
  <2>2. CASE d = c
    BY <2>2
  <2>3. CASE d # c
    BY <2>3 DEF BlameInv, SoundInv
  <2> QED
    BY <2>2, <2>3
<1>3. LineInv'
  BY <1>1 DEF BlameInv, LineInv
<1>4. SilentInv'
  BY DEF BlameInv, SilentInv
<1>5. ASSUME NEW d \in Clients
      PROVE  Blames(response'[d], request'[d], outcome'[d])
  BY <1>1 DEF BlameInv
<1> QED
  BY <1>2, <1>3, <1>4, <1>5 DEF BlameInv

\* Every action that answers a client is this one.
LEMMA RespondBlame ==
  ASSUME RoutesInv, BlameInv, NEW c \in Clients, NEW a, Blames(a, request[c], outcome[c]),
         Respond(c, a)
  PROVE  BlameInv'
<1>1. TypeOK
  BY DEF RoutesInv
<1>2. /\ stage'[c] = "done" /\ response'[c] = a
      /\ UNCHANGED <<request, item, questions, serviceVars>>
      /\ \A d \in Clients : d # c => stage'[d] = stage[d] /\ response'[d] = response[d]
  BY <1>1 DEF Respond, TypeOK
<1> QED
  BY <1>2, ClientBlame DEF Past

LEMMA ThrowBlame ==
  ASSUME RoutesInv, BlameInv, NEW c \in Clients,
         NEW e \in {"unavailable", "parse"} \cup Exceptions,
         e \in {"parse", "length", "argument", "json"} =>
           Faulty(request[c]) \/ outcome[c] \in {"length", "argument", "json"},
         e = "runtime" => outcome[c] = "runtime",
         Throw(c, e)
  PROVE  BlameInv'
<1> DEFINE a == [status |-> Caught(e).code, retry |-> Caught(e).retry, form |-> "error"]
<1>1. Blames(a, request[c], outcome[c])
  BY ThrownBlames
<1>2. Respond(c, a)
  BY DEF Throw
<1> HIDE DEF a
<1> QED
  BY <1>1, <1>2, RespondBlame

\* A handler that routes refuses only what is Faulty, and informs only who asks for it.
LEMMA RoutingBlame ==
  ASSUME RoutesInv, BlameInv, NEW c \in Clients,
         AnswerPreflight(c) \/ TurnAway(c) \/ RefuseBody(c) \/ Inform(c) \/ MissRoute(c)
  PROVE  BlameInv'
<1> DEFINE r == request[c]
<1>1. ASSUME NEW code \in {204, 401, 404, 405, 413}, NEW form \in {"empty", "error"},
             code = 204 \/ Faulty(r), Respond(c, Status(code, form))
      PROVE  BlameInv'
  <2>1. Status(code, form).status = code /\ Status(code, form).form = form
    BY DEF Status
  <2>2. Blames(Status(code, form), r, outcome[c])
    BY <1>1, <2>1 DEF Blames
  <2> QED
    BY <1>1, <2>2, RespondBlame
<1>2. CASE AnswerPreflight(c)
  BY <1>1, <1>2 DEF AnswerPreflight
<1>3. CASE TurnAway(c)
  BY <1>1, <1>3 DEF TurnAway, Faulty
<1>4. CASE RefuseBody(c)
  BY <1>1, <1>4 DEF RefuseBody, Faulty
<1>5. CASE MissRoute(c)
  <2>1. Faulty(r) /\ ~Informs(r) /\ ~Infers(r)
    BY <1>5 DEF MissRoute, Faulty
  <2>2. PICK code \in {404, 405} : Respond(c, Status(code, "error"))
    BY <1>5 DEF MissRoute
  <2> QED
    BY <1>1, <2>1, <2>2
<1>6. CASE Inform(c)
  <2>1. Status(200, "info").status = 200 /\ Status(200, "info").form = "info"
    BY DEF Status
  <2>2. Informs(r)
    BY <1>6 DEF Inform
  <2>3. Blames(Status(200, "info"), r, outcome[c])
    BY <2>1, <2>2 DEF Blames
  <2> QED
    BY <1>6, <2>3, RespondBlame DEF Inform
<1> QED
  BY <1>2, <1>3, <1>4, <1>5, <1>6

LEMMA ArriveBlame ==
  ASSUME RoutesInv, BlameInv, NEW c \in Clients, Arrive(c)
  PROVE  BlameInv'
<1>1. TypeOK
  BY DEF RoutesInv
<1>2. /\ stage[c] = "idle" /\ stage'[c] = "route" /\ UNCHANGED <<item, questions, response, serviceVars>>
      /\ \A d \in Clients : d # c => stage'[d] = stage[d] /\ request'[d] = request[d]
  BY <1>1 DEF Arrive, TypeOK
<1>3. response[c].status = 0 /\ response[c].form = "none" /\ questions[c] = 0
  BY <1>1, <1>2 DEF TypeOK, BlameInv, SilentInv, SoundInv
<1>4. Blames(response'[c], request'[c], outcome[c])
  BY <1>2, <1>3 DEF Blames
<1> QED
  BY <1>2, <1>3, <1>4, ClientBlame DEF Past

\* A handler that goes on without an answer keeps what its client was told: nothing.
LEMMA SilentBlames ==
  ASSUME RoutesInv, BlameInv, NEW c \in Clients, stage[c] # "done", NEW r, NEW o
  PROVE  response[c].form = "none" /\ Blames(response[c], r, o)
<1>1. response[c].status = 0 /\ response[c].form = "none"
  BY DEF RoutesInv, TypeOK, BlameInv, SilentInv
<1> QED
  BY <1>1 DEF Blames

LEMMA InferBlame ==
  ASSUME RoutesInv, BlameInv, NEW c \in Clients, Infer(c)
  PROVE  BlameInv'
<1>1. TypeOK
  BY DEF RoutesInv
<1>2. /\ stage[c] = "route" /\ stage'[c] = "parse" /\ ~TooLarge(request[c])
      /\ UNCHANGED <<request, item, questions, response, serviceVars>>
      /\ \A d \in Clients : d # c => stage'[d] = stage[d]
  BY <1>1 DEF Infer, Read, Passed, Routing, TypeOK
<1>3. questions[c] = 0
  BY <1>2 DEF BlameInv, SoundInv
<1> QED
  BY <1>2, <1>3, ClientBlame, SilentBlames

LEMMA ParseBlame ==
  ASSUME RoutesInv, BlameInv, NEW c \in Clients, Parse(c)
  PROVE  BlameInv'
<1>1. TypeOK
  BY DEF RoutesInv
<1>2. /\ stage[c] = "parse" /\ stage'[c] = "validate" /\ BodyFlaw(request[c]) = "none"
      /\ UNCHANGED <<request, item, questions, response, serviceVars>>
      /\ \A d \in Clients : d # c => stage'[d] = stage[d]
  BY <1>1 DEF Parse, TypeOK
<1>3. questions[c] = 0 /\ item[c] = 1 /\ ~TooLarge(request[c])
  BY <1>2 DEF BlameInv, SoundInv, RoutesInv, CountInv, Past
<1>4. item[c] - 1 <= Len(request[c].items) /\ Counted(request[c].items, item[c] - 1, questions[c])
  <2>1. request[c].items \in Seq(Items)
    BY <1>1, <1>2, ArrivalsAssumption DEF TypeOK
  <2>2. item[c] - 1 = 0 /\ 1..0 = {} /\ Len(request[c].items) >= 0
    BY <1>3, <2>1
  <2> QED
    BY <1>3, <2>2, TotalEmpty DEF Counted
<1> QED
  BY <1>2, <1>3, <1>4, ClientBlame, SilentBlames DEF Past

LEMMA RefuseValueBlame ==
  ASSUME RoutesInv, BlameInv, NEW c \in Clients, RefuseValue(c)
  PROVE  BlameInv'
<1>1. Throw(c, BodyFlaw(request[c])) /\ BodyFlaw(request[c]) # "none"
  BY DEF RefuseValue
<1>2. BodyFlaw(request[c]) \in {"parse", "argument"}
  BY <1>1 DEF BodyFlaw
<1>3. Faulty(request[c])
  BY <1>1 DEF Faulty
<1> QED
  BY <1>1, <1>2, <1>3, ThrowBlame DEF Exceptions

\* What a handler that validates knows, with numbers from nought.
LEMMA ValidatingFacts ==
  ASSUME RoutesInv, BlameInv, NEW c \in Clients, Validating(c)
  PROVE  \E n \in Nat :
           /\ item[c] = n + 1 /\ n + 1 <= Len(request[c].items)
           /\ request[c] \in Arrivals /\ request[c].items \in Seq(Items)
           /\ questions[c] \in Nat /\ Counted(request[c].items, n, questions[c])
           /\ request[c].items[n + 1] \in Items
           /\ Left(c) = MaxQuestions - questions[c]
<1>1. /\ stage[c] = "validate" /\ item[c] <= Len(request[c].items) /\ request[c] \in Arrivals
      /\ item[c] \in Nat \ {0} /\ questions[c] \in Nat
  BY DEF Validating, RoutesInv, TypeOK
<1>2. PICK n \in Nat : item[c] = n + 1 /\ item[c] - 1 = n
  BY <1>1
<1>3. request[c].items \in Seq(Items) /\ Counted(request[c].items, n, questions[c])
  BY <1>1, <1>2, ArrivalsAssumption DEF BlameInv, SoundInv
<1>4. request[c].items[n + 1] \in Items
  BY <1>2, ItemTyped
<1>5. Left(c) = MaxQuestions - questions[c]
  BY LimitsAssumption DEF RoutesInv, TypeOK, CountInv, Left, Minus
<1> QED
  BY <1>1, <1>2, <1>3, <1>4, <1>5

LEMMA RefuseItemBlame ==
  ASSUME RoutesInv, BlameInv, NEW c \in Clients, RefuseItem(c)
  PROVE  BlameInv'
<1>1. Throw(c, ItemFlaw(c)) /\ ItemFlaw(c) # "none" /\ Validating(c)
  BY DEF RefuseItem
<1>2. PICK n \in Nat :
        /\ item[c] = n + 1 /\ n + 1 <= Len(request[c].items)
        /\ request[c] \in Arrivals /\ request[c].items \in Seq(Items)
        /\ questions[c] \in Nat /\ Counted(request[c].items, n, questions[c])
        /\ request[c].items[n + 1] \in Items
        /\ Left(c) = MaxQuestions - questions[c]
  BY <1>1, ValidatingFacts
<1> DEFINE i == request[c].items[n + 1]
<1>3. /\ i.before \in Objections /\ i.after \in Objections /\ i.size \in Nat
      /\ n + 1 \in DOMAIN request[c].items
  BY <1>2 DEF Items
<1>4. ItemFlaw(c) = CASE i.before # "none" -> i.before
                      [] i.before = "none" /\ i.size = 0 -> "argument"
                      [] i.before = "none" /\ i.size > Left(c) -> "length"
                      [] OTHER -> i.after
  BY <1>2 DEF ItemFlaw
<1> HIDE DEF i
<1>5. ItemFlaw(c) \in {"argument", "json", "length"}
  BY <1>1, <1>3, <1>4 DEF Objections
<1>6. \/ i.before # "none" \/ i.after # "none" \/ i.size = 0
      \/ i.size > Left(c)
  BY <1>1, <1>4
<1>7. Faulty(request[c])
  <2>1. CASE i.before # "none" \/ i.after # "none" \/ i.size = 0
    BY <1>3, <2>1 DEF Faulty, i
  <2>2. CASE i.size > Left(c)
    <3>1. questions[c] + i.size > MaxQuestions
      BY <1>2, <1>3, <2>2, LimitsAssumption
    <3> QED
      BY <1>2, <3>1, OverfullRequest DEF i
  <2> QED
    BY <1>6, <2>1, <2>2
<1> QED
  BY <1>1, <1>5, <1>7, ThrowBlame DEF Exceptions

LEMMA CountItemBlame ==
  ASSUME RoutesInv, BlameInv, NEW c \in Clients, CountItem(c)
  PROVE  BlameInv'
<1>1. TypeOK /\ Validating(c) /\ ItemFlaw(c) = "none"
  BY DEF RoutesInv, CountItem
<1>2. PICK n \in Nat :
        /\ item[c] = n + 1 /\ n + 1 <= Len(request[c].items)
        /\ request[c] \in Arrivals /\ request[c].items \in Seq(Items)
        /\ questions[c] \in Nat /\ Counted(request[c].items, n, questions[c])
        /\ request[c].items[n + 1] \in Items
        /\ Left(c) = MaxQuestions - questions[c]
  BY <1>1, ValidatingFacts
<1> DEFINE i == request[c].items[n + 1]
<1>3. i.before = "none" /\ i.after = "none" /\ i.size > 0 /\ i.size \in Nat
  <2>1. i.before \in Objections /\ i.after \in Objections /\ i.size \in Nat
    BY <1>2 DEF Items
  <2>2. ItemFlaw(c) = CASE i.before # "none" -> i.before
                        [] i.before = "none" /\ i.size = 0 -> "argument"
                        [] i.before = "none" /\ i.size > Left(c) -> "length"
                        [] OTHER -> i.after
    BY <1>2 DEF ItemFlaw
  <2> HIDE DEF i
  <2>3. i.before = "none" /\ i.size # 0 /\ i.after = "none"
    BY <1>1, <2>2
  <2> QED
    BY <2>1, <2>3
<1>4. /\ stage[c] = "validate" /\ UNCHANGED <<request, stage, response, serviceVars>>
      /\ questions'[c] = questions[c] + i.size /\ item'[c] = n + 2
      /\ \A d \in Clients : d # c => item'[d] = item[d] /\ questions'[d] = questions[d]
  BY <1>1, <1>2 DEF CountItem, Validating, TypeOK
<1>5. Counted(request[c].items, n + 1, questions[c] + i.size)
  BY <1>2, <1>3, CountedNext
<1> HIDE DEF i
<1>6. item'[c] - 1 = n + 1
  BY <1>4
<1>7. BodyFlaw(request[c]) = "none" /\ ~TooLarge(request[c])
  BY <1>4 DEF BlameInv, SoundInv, Past
<1> QED
  BY <1>2, <1>4, <1>5, <1>6, <1>7, ClientBlame, SilentBlames

LEMMA AnswerBlame ==
  ASSUME RoutesInv, BlameInv, NEW c \in Clients, Answer(c)
  PROVE  BlameInv'
<1>1. TypeOK /\ stage[c] = "wait" /\ outcome[c] # "none"
  BY DEF RoutesInv, Answer
<1>2. CASE outcome[c] = "results"
  <2>1. PICK form \in {"results", "object"} : Respond(c, Status(200, form))
    BY <1>2 DEF Answer
  <2>2. Status(200, form).status = 200 /\ Status(200, form).form = form /\ form # "info"
    BY DEF Status
  <2>3. Infers(request[c]) /\ Unlocked(request[c]) /\ ~Informs(request[c])
    BY <1>1 DEF RoutesInv, ClearedInv, Cleared, Past, Unlocked, Infers, Informs
  <2>4. ~Faulty(request[c])
    <3>1. /\ request[c] \in Arrivals /\ questions[c] \in Nat /\ questions[c] <= MaxQuestions
          /\ item[c] - 1 = Len(request[c].items) /\ ~TooLarge(request[c])
          /\ BodyFlaw(request[c]) = "none" /\ Counted(request[c].items, item[c] - 1, questions[c])
      BY <1>1 DEF TypeOK, RoutesInv, CountInv, BlameInv, SoundInv, Past
    <3> QED
      BY <2>3, <3>1, SoundRequest
  <2>5. Blames(Status(200, form), request[c], outcome[c])
    BY <1>2, <2>2, <2>3, <2>4 DEF Blames
  <2> QED
    BY <2>1, <2>5, RespondBlame
<1>3. CASE outcome[c] # "results"
  <2>1. outcome[c] \in {"unavailable", "length", "argument", "json", "runtime"}
    BY <1>1, <1>3 DEF TypeOK, Exceptions
  <2>2. Throw(c, outcome[c])
    BY <1>3 DEF Answer
  <2> QED
    BY <2>1, <2>2, ThrowBlame DEF Exceptions
<1> QED
  BY <1>2, <1>3

\* The service decides no job twice.
LEMMA DecidedBlame ==
  ASSUME RoutesInv, BlameInv, UNCHANGED <<request, response>>,
         \A c \in Clients : outcome'[c] # outcome[c] => outcome[c] = "none" /\ outcome'[c] # "none",
         NEW c \in Clients
  PROVE  Blames(response'[c], request'[c], outcome'[c])
<1>1. Blames(response[c], request[c], outcome[c])
  BY DEF BlameInv
<1>2. CASE outcome'[c] = outcome[c]
  BY <1>1, <1>2
<1>3. CASE outcome'[c] # outcome[c]
  <2>1. outcome[c] = "none"
    BY <1>3
  <2> QED
    BY <1>1, <2>1 DEF Blames
<1> QED
  BY <1>2, <1>3

LEMMA SubmitBlame ==
  ASSUME RoutesInv, BlameInv, NEW c \in Clients, Submit(c)
  PROVE  BlameInv'
<1>1. TypeOK /\ LineInv
  BY DEF RoutesInv, BlameInv
<1>2. /\ stage[c] = "validate" /\ item[c] > Len(request[c].items) /\ stage'[c] = "wait"
      /\ \A d \in Clients : d # c => stage'[d] = stage[d]
      /\ UNCHANGED <<request, item, questions, response>>
  BY <1>1 DEF Submit, Validated, TypeOK
<1>3. item[c] - 1 = Len(request[c].items)
  <2>1. item[c] \in Nat /\ request[c] \in Arrivals /\ item[c] - 1 <= Len(request[c].items)
    BY <1>1, <1>2 DEF TypeOK, BlameInv, SoundInv
  <2>2. Len(request[c].items) \in Nat
    BY <2>1, ArrivalsAssumption
  <2> QED
    BY <1>2, <2>1, <2>2
<1>4. SoundInv'
  <2>1. SUFFICES ASSUME NEW d \in Clients
                 PROVE  /\ stage'[d] \in {"idle", "route", "parse"} => questions[d] = 0
                        /\ stage'[d] \in Past => ~TooLarge(request[d])
                        /\ stage'[d] \in {"validate", "wait"} =>
                             /\ BodyFlaw(request[d]) = "none"
                             /\ item[d] - 1 <= Len(request[d].items)
                             /\ Counted(request[d].items, item[d] - 1, questions[d])
                        /\ stage'[d] = "wait" => item[d] - 1 = Len(request[d].items)
    BY <1>2 DEF SoundInv, Past
  <2>2. CASE d = c
    BY <1>2, <1>3, <2>2 DEF BlameInv, SoundInv, Past
  <2>3. CASE d # c
    BY <1>2, <2>3 DEF BlameInv, SoundInv, Past
  <2> QED
    BY <2>2, <2>3
<1>5. SilentInv'
  BY <1>2 DEF BlameInv, SilentInv
<1>6. /\ LineInv'
      /\ \A d \in Clients : outcome'[d] # outcome[d] => outcome[d] = "none" /\ outcome'[d] # "none"
  <2>1. CASE service!Accept(c)
    <3>1. /\ line' = Append(line, c) /\ outcome' = outcome /\ outcome[c] = "none"
          /\ \A n \in DOMAIN line : line[n] # c
      BY <2>1 DEF service!Accept, service!Fresh, service!Waiting
    <3>2. /\ DOMAIN line' = 1..Len(line) + 1 /\ DOMAIN line = 1..Len(line) /\ Len(line) \in Nat
          /\ line'[Len(line) + 1] = c /\ \A n \in 1..Len(line) : line'[n] = line[n]
      BY <1>1, <3>1 DEF TypeOK
    <3>3. \A n \in 1..Len(line) + 1 : n \in 1..Len(line) \/ n = Len(line) + 1
      BY <3>2
    <3>4. LineInv'
      <4>1. ASSUME NEW n \in DOMAIN line' PROVE outcome'[line'[n]] = "none"
        BY <1>1, <3>1, <3>2, <3>3 DEF LineInv
      <4>2. ASSUME NEW m \in DOMAIN line', NEW n \in DOMAIN line', line'[m] = line'[n]
            PROVE  m = n
        BY <1>1, <3>1, <3>2, <3>3, <4>2 DEF LineInv
      <4> QED
        BY <4>1, <4>2 DEF LineInv
    <3> QED
      BY <3>1, <3>4
  <2>2. CASE service!Refuse(c)
    <3>1. /\ line' = line /\ outcome' = [outcome EXCEPT ![c] = "unavailable"] /\ outcome[c] = "none"
          /\ \A n \in DOMAIN line : line[n] # c
      BY <2>2 DEF service!Refuse, service!Fresh, service!Waiting
    <3>2. \A n \in DOMAIN line : line[n] \in Clients
      BY <1>1 DEF TypeOK
    <3>3. \A d \in Clients : (d # c => outcome'[d] = outcome[d]) /\ outcome'[c] = "unavailable"
      BY <1>1, <3>1 DEF TypeOK
    <3> QED
      BY <1>1, <3>1, <3>2, <3>3 DEF LineInv
  <2> QED
    BY <2>1, <2>2 DEF Submit
<1>7. \A d \in Clients : Blames(response'[d], request'[d], outcome'[d])
  BY <1>2, <1>6, DecidedBlame
<1> QED
  BY <1>4, <1>5, <1>6, <1>7 DEF BlameInv

LEMMA ServeBlame ==
  ASSUME RoutesInv, BlameInv, Serve
  PROVE  BlameInv'
<1>1. TypeOK /\ LineInv /\ UNCHANGED <<request, stage, item, questions, response>>
  BY DEF RoutesInv, BlameInv, Serve
<1>2. SoundInv' /\ SilentInv'
  BY <1>1 DEF BlameInv, SoundInv, SilentInv
<1>3. /\ LineInv'
      /\ \A c \in Clients : outcome'[c] # outcome[c] => outcome[c] = "none" /\ outcome'[c] # "none"
  <2>1. CASE service!AnswerNext
    <3>1. /\ line # <<>> /\ line' = Tail(line) /\ outcome[Head(line)] = "none"
          /\ line \in Seq(Clients)
      BY <1>1, <2>1 DEF service!AnswerNext, TypeOK
    <3>2. Head(line) \in Clients /\ Head(line) = line[1] /\ 1 \in DOMAIN line
      BY <3>1
    <3>3. PICK verdict \in {"results"} \cup Exceptions : outcome' = [outcome EXCEPT ![Head(line)] = verdict]
      BY <2>1, <3>2 DEF service!AnswerNext, Verdicts
    <3>4. \A n \in DOMAIN line' : n + 1 \in DOMAIN line /\ line'[n] = line[n + 1] /\ n + 1 # 1 /\ n \in Nat
      BY <3>1
    <3>5. \A n \in DOMAIN line : line[n] \in Clients
      BY <3>1
    <3>6. /\ \A c \in Clients : c # Head(line) => outcome'[c] = outcome[c]
          /\ outcome'[Head(line)] # "none"
      BY <1>1, <3>2, <3>3 DEF TypeOK, Exceptions
    <3>7. ASSUME NEW n \in DOMAIN line' PROVE outcome'[line'[n]] = "none"
      <4>1. line[n + 1] # Head(line) /\ line[n + 1] \in Clients
        BY <1>1, <3>2, <3>4, <3>5 DEF LineInv
      <4> QED
        BY <1>1, <3>4, <3>6, <4>1 DEF LineInv
    <3>8. ASSUME NEW m \in DOMAIN line', NEW n \in DOMAIN line', line'[m] = line'[n]
          PROVE  m = n
      <4>1. m + 1 = n + 1
        BY <1>1, <3>4, <3>8 DEF LineInv
      <4> QED
        BY <3>4, <4>1
    <3> QED
      BY <3>1, <3>6, <3>7, <3>8 DEF LineInv
  <2>2. CASE service!Close
    <3>1. PICK kept \in 0..Len(line) :
            /\ line' = SubSeq(line, 1, kept)
            /\ outcome' = [c \in Clients |-> IF \E n \in kept + 1..Len(line) : line[n] = c
                                             THEN "unavailable" ELSE outcome[c]]
      BY <2>2 DEF service!Close
    <3>2. line \in Seq(Clients) /\ Len(line) \in Nat /\ DOMAIN line = 1..Len(line)
      BY <1>1 DEF TypeOK
    <3>3. \A n \in DOMAIN line' : n \in DOMAIN line /\ line'[n] = line[n] /\ n \notin kept + 1..Len(line)
      BY <3>1, <3>2
    <3>4. \A n \in kept + 1..Len(line) : n \in DOMAIN line
      BY <3>1, <3>2
    <3>5. \A n \in DOMAIN line : line[n] \in Clients
      BY <3>2
    <3>6. ASSUME NEW n \in DOMAIN line' PROVE outcome'[line'[n]] = "none"
      <4>1. line[n] \in Clients /\ ~\E m \in kept + 1..Len(line) : line[m] = line[n]
        BY <1>1, <3>3, <3>4, <3>5 DEF LineInv
      <4>2. outcome'[line[n]] = outcome[line[n]]
        BY <3>1, <4>1
      <4> QED
        BY <1>1, <3>3, <4>2 DEF LineInv
    <3>7. \A c \in Clients : outcome'[c] # outcome[c] => outcome[c] = "none" /\ outcome'[c] # "none"
      <4>1. SUFFICES ASSUME NEW c \in Clients, outcome'[c] # outcome[c]
                     PROVE  outcome[c] = "none" /\ outcome'[c] # "none"
        OBVIOUS
      <4>2. (\E n \in kept + 1..Len(line) : line[n] = c) /\ outcome'[c] = "unavailable"
        BY <3>1, <4>1
      <4> QED
        BY <1>1, <3>4, <4>2 DEF LineInv
    <3> QED
      BY <1>1, <3>3, <3>6, <3>7 DEF LineInv
  <2> QED
    BY <2>1, <2>2 DEF Serve
<1>4. \A c \in Clients : Blames(response'[c], request'[c], outcome'[c])
  BY <1>1, <1>3, DecidedBlame
<1> QED
  BY <1>2, <1>3, <1>4 DEF BlameInv

-----------------------------------------------------------------------------
(* Theorems *)

LEMMA StepInv == RoutesInv /\ [Next]_vars => RoutesInv'
<1> SUFFICES ASSUME RoutesInv, [Next]_vars PROVE RoutesInv'
  OBVIOUS
<1>1. CASE Serve
  BY <1>1, ServeInv
<1>2. ASSUME NEW c \in Clients, Handle(c) PROVE RoutesInv'
  <2>1. CASE Arrive(c)
    BY <2>1, ArriveInv
  <2>2. CASE AnswerPreflight(c) \/ TurnAway(c) \/ RefuseBody(c) \/ Inform(c) \/ MissRoute(c)
    <3>1. Routing(c)
      BY <2>2 DEF AnswerPreflight, TurnAway, RefuseBody, Inform, MissRoute, Read, Passed
    <3> QED
      BY <2>2, <3>1, RoutingInv
  <2>3. CASE Infer(c)
    BY <2>3, InferInv
  <2>4. CASE RefuseValue(c)
    BY <2>4, RefuseValueInv
  <2>5. CASE Parse(c)
    BY <2>5, ParseInv
  <2>6. CASE RefuseItem(c)
    BY <2>6, RefuseItemInv
  <2>7. CASE CountItem(c)
    BY <2>7, CountItemInv
  <2>8. CASE Submit(c)
    BY <2>8, SubmitInv
  <2>9. CASE Answer(c)
    BY <2>9, AnswerInv
  <2> QED
    BY <1>2, <2>1, <2>2, <2>3, <2>4, <2>5, <2>6, <2>7, <2>8, <2>9 DEF Handle
<1>3. CASE UNCHANGED vars
  <2>1. UNCHANGED <<request, stage, item, questions, response, line, outcome, closed>>
    BY <1>3 DEF vars, serviceVars
  <2>2. \A c \in Clients : Admitted(c)' <=> Admitted(c)
    BY <2>1 DEF Admitted, service!Waiting
  <2> QED
    BY <2>1, <2>2 DEF RoutesInv, TypeOK, ClearedInv, CountInv, AdmittedInv, RetryIsSafe, Cleared
<1> QED
  BY <1>1, <1>2, <1>3 DEF Next

LEMMA StepBlame == RoutesInv /\ BlameInv /\ [Next]_vars => BlameInv'
<1> SUFFICES ASSUME RoutesInv, BlameInv, [Next]_vars PROVE BlameInv'
  OBVIOUS
<1>1. CASE Serve
  BY <1>1, ServeBlame
<1>2. ASSUME NEW c \in Clients, Handle(c) PROVE BlameInv'
  <2>1. CASE Arrive(c)
    BY <2>1, ArriveBlame
  <2>2. CASE AnswerPreflight(c) \/ TurnAway(c) \/ RefuseBody(c) \/ Inform(c) \/ MissRoute(c)
    BY <2>2, RoutingBlame
  <2>3. CASE Infer(c)
    BY <2>3, InferBlame
  <2>4. CASE RefuseValue(c)
    BY <2>4, RefuseValueBlame
  <2>5. CASE Parse(c)
    BY <2>5, ParseBlame
  <2>6. CASE RefuseItem(c)
    BY <2>6, RefuseItemBlame
  <2>7. CASE CountItem(c)
    BY <2>7, CountItemBlame
  <2>8. CASE Submit(c)
    BY <2>8, SubmitBlame
  <2>9. CASE Answer(c)
    BY <2>9, AnswerBlame
  <2> QED
    BY <1>2, <2>1, <2>2, <2>3, <2>4, <2>5, <2>6, <2>7, <2>8, <2>9 DEF Handle
<1>3. CASE UNCHANGED vars
  <2>1. UNCHANGED <<request, stage, item, questions, response, line, outcome>>
    BY <1>3 DEF vars, serviceVars
  <2>2. SoundInv' /\ LineInv' /\ SilentInv'
    BY <2>1 DEF BlameInv, SoundInv, LineInv, SilentInv
  <2> QED
    BY <2>1, <2>2 DEF BlameInv
<1> QED
  BY <1>1, <1>2, <1>3 DEF Next

\* RoutesInv is inductive and holds from the start.
THEOREM Inductive == Spec => []RoutesInv
BY InitInv, StepInv, PTL DEF Spec

\* Handlers, counts, answers and the service keep their types, and a handler answers its
\* client once, when it is done.
THEOREM RoutesTyping == Spec => []TypeOK
<1>1. RoutesInv => TypeOK
  BY DEF RoutesInv
<1> QED
  BY <1>1, Inductive, PTL

\* No job reaches the service but from a POST to an inference route that bore the key, if one
\* is configured.
THEOREM Gatekeeping == Spec => []OnlyUnlockedJoin
<1>1. RoutesInv => OnlyUnlockedJoin
  BY DEF RoutesInv, AdmittedInv, OnlyUnlockedJoin, Cleared
<1> QED
  BY <1>1, Inductive, PTL

\* Every job has between one and MaxQuestions questions, over all the requests of its body,
\* for any limit and any width of size_t above it.
THEOREM JobsFit == Spec => []AdmittedFit
<1>1. RoutesInv => AdmittedFit
  BY DEF RoutesInv, AdmittedInv, CountInv, AdmittedFit
<1> QED
  BY <1>1, Inductive, PTL

\* 503 and Retry-After go to clients whose job no predictor ever had.
THEOREM RetriesAreSafe == Spec => []RetryIsSafe
<1>1. RoutesInv => RetryIsSafe
  BY DEF RoutesInv
<1> QED
  BY <1>1, Inductive, PTL

\* BlameInv is inductive relative to RoutesInv.
THEOREM InductiveBlame == Spec => []BlameInv
BY InitBlame, StepBlame, Inductive, PTL DEF Spec

\* The status says whose fault it is, for bodies of any number of requests: a client is
\* blamed only for what is wrong with its request, evaluate() fails only with the predictor,
\* and results go only to a request nothing is wrong with.
THEOREM BlameIsRight == Spec => []StatusBlamesRightly
<1>1. BlameInv => StatusBlamesRightly
  BY DEF BlameInv, Blames, StatusBlamesRightly
<1> QED
  BY <1>1, InductiveBlame, PTL
=============================================================================
