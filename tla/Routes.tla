------------------------------- MODULE Routes -------------------------------
(***************************************************************************)
(* The routes of the HTTP server (src/src/http.cpp): the pre-routing       *)
(* handler, the routes and the error handler, evaluate() with validate(),  *)
(* and the status every exception ends in.  The handler of each client is  *)
(* a process; the jobs they submit go to the line of DecisionService,      *)
(* which HttpServer implements.                                            *)
(*                                                                         *)
(* Headers, texts and the JSON of an answer are left out, except what a    *)
(* client acts on: status, Retry-After, and which form the answer has.     *)
(***************************************************************************)
EXTENDS Integers, Sequences, SequencesExt, FiniteSets

CONSTANTS
  Clients,
  Arrivals,      \* the requests that may arrive
  Keyed,         \* options.api_key is set
  MaxQuestions,  \* options.max_questions
  Width,         \* values of size_t
  Capacity       \* jobs the service holds at most

\* A request has a method, a path, whether it bears the key, and a body: huge, its text (JSON
\* or not), the kind of value and the requests in it; each of these has the exception that
\* validate() meets before it counts the questions, their number, and the one it meets after.
Methods == {"GET", "HEAD", "POST", "PUT", "OPTIONS"}
Objections == {"none", "argument", "json"}
Items == [before : Objections, size : Nat, after : Objections]

ASSUME LimitsAssumption ==
  /\ MaxQuestions \in Nat \ {0} /\ Width \in Nat /\ MaxQuestions < Width
  /\ Keyed \in BOOLEAN
ASSUME ArrivalsAssumption ==
  \A r \in Arrivals :
    /\ r.method \in Methods /\ r.bearer \in BOOLEAN /\ r.huge \in BOOLEAN /\ r.json \in BOOLEAN
    /\ r.kind \in {"object", "array", "other"} /\ r.items \in Seq(Items)
    /\ r.kind # "array" => Len(r.items) = 1
    /\ \A i \in DOMAIN r.items : r.items[i].size < Width

\* What predict() ends with for a job: results, or an exception.
Exceptions == {"length", "argument", "json", "runtime"}
Verdicts == [c \in Clients |-> {"results"} \cup Exceptions]

VARIABLES
  request,   \* [Clients -> what the client sent]
  stage,     \* [Clients -> where its handler is]
  item,      \* [Clients -> the request of the body to validate next]
  questions, \* [Clients -> evaluate()'s `questions`]
  response,  \* [Clients -> what it was answered]
  line, outcome, closed  \* of the service

serviceVars == <<line, outcome, closed>>
vars == <<request, stage, item, questions, response, serviceVars>>

service == INSTANCE DecisionService WITH Jobs <- Clients

NoRequest == [method |-> "none"]
NoResponse == [status |-> 0, retry |-> FALSE, form |-> "none"]

Init ==
  /\ request = [c \in Clients |-> NoRequest]
  /\ stage = [c \in Clients |-> "idle"]
  /\ item = [c \in Clients |-> 1]
  /\ questions = [c \in Clients |-> 0]
  /\ response = [c \in Clients |-> NoResponse]
  /\ service!Init

Arrive(c) ==
  /\ stage[c] = "idle"
  /\ \E r \in Arrivals : request' = [request EXCEPT ![c] = r]
  /\ stage' = [stage EXCEPT ![c] = "route"]
  /\ UNCHANGED <<item, questions, response, serviceVars>>

Respond(c, answer) ==
  /\ response' = [response EXCEPT ![c] = answer]
  /\ stage' = [stage EXCEPT ![c] = "done"]
  /\ UNCHANGED <<request, item, questions, serviceVars>>

Status(code, form) == [status |-> code, retry |-> FALSE, form |-> form]

-----------------------------------------------------------------------------
(* Routing *)

Informing == {"/health", "/v1/models"}
Inferring == {"/v1/systemone", "/predict"}

Preflight(r) == r.method = "OPTIONS"

\* A mutant: the key is asked for on one of the two inference routes.
Unlocked_NotPredict(r) == ~Keyed \/ r.bearer \/ r.path # "/predict"

Unlocked(r) == ~Keyed \/ r.bearer \/ r.path = "/health"

\* The library reads a body before it looks for a route, and refuses one over max_body_bytes.
TooLarge(r) == r.huge /\ r.method \in {"POST", "PUT"}

Informs(r) == r.method \in {"GET", "HEAD"} /\ r.path \in Informing
Infers(r) == r.method = "POST" /\ r.path \in Inferring

Routing(c) == stage[c] = "route"
Passed(c) == Routing(c) /\ ~Preflight(request[c]) /\ Unlocked(request[c])
Read(c) == Passed(c) /\ ~TooLarge(request[c])

AnswerPreflight(c) == Routing(c) /\ Preflight(request[c]) /\ Respond(c, Status(204, "empty"))

TurnAway(c) ==
  /\ Routing(c) /\ ~Preflight(request[c]) /\ ~Unlocked(request[c])
  /\ Respond(c, Status(401, "error"))

RefuseBody(c) == Passed(c) /\ TooLarge(request[c]) /\ Respond(c, Status(413, "error"))

Inform(c) == Read(c) /\ Informs(request[c]) /\ Respond(c, Status(200, "info"))

\* No route takes it: the error handler knows the paths there are.
MissRoute(c) ==
  /\ Read(c) /\ ~Informs(request[c]) /\ ~Infers(request[c])
  /\ Respond(c, Status(IF request[c].path \in Informing \cup Inferring THEN 405 ELSE 404, "error"))

Infer(c) ==
  /\ Read(c) /\ Infers(request[c])
  /\ stage' = [stage EXCEPT ![c] = "parse"]
  /\ UNCHANGED <<request, item, questions, response, serviceVars>>

-----------------------------------------------------------------------------
(* evaluate() *)

\* The classes an exception is an instance of.
Classes(exception) ==
  {"exception"} \cup
    CASE exception = "unavailable" -> {"unavailable", "runtime_error"}
      [] exception = "parse" -> {"parse_error", "json_exception"}
      [] exception = "json" -> {"json_exception"}
      [] exception = "length" -> {"length_error"}
      [] exception = "argument" -> {"invalid_argument"}
      [] OTHER -> {"runtime_error"}

Catch(class, code, retry) == [class |-> class, code |-> code, retry |-> retry]

\* A mutant: unavailable is caught as the runtime_error it derives from.
Catches_RuntimeErrors ==
  <<Catch("runtime_error", 503, TRUE), Catch("parse_error", 400, FALSE), Catch("length_error", 413, FALSE),
    Catch("json_exception", 422, FALSE), Catch("invalid_argument", 422, FALSE), Catch("exception", 500, FALSE)>>

\* A mutant: the most general clause comes before that of invalid_argument.
Catches_GeneralFirst ==
  <<Catch("unavailable", 503, TRUE), Catch("parse_error", 400, FALSE), Catch("length_error", 413, FALSE),
    Catch("json_exception", 422, FALSE), Catch("exception", 500, FALSE), Catch("invalid_argument", 422, FALSE)>>

\* The catch clauses, in their order.
Catches ==
  <<Catch("unavailable", 503, TRUE), Catch("parse_error", 400, FALSE), Catch("length_error", 413, FALSE),
    Catch("json_exception", 422, FALSE), Catch("invalid_argument", 422, FALSE), Catch("exception", 500, FALSE)>>

\* The first clause that fits takes the exception.
Caught(exception) ==
  Catches[CHOOSE n \in DOMAIN Catches :
            /\ Catches[n].class \in Classes(exception)
            /\ \A o \in 1..n - 1 : Catches[o].class \notin Classes(exception)]

Throw(c, exception) ==
  Respond(c, [status |-> Caught(exception).code, retry |-> Caught(exception).retry, form |-> "error"])

\* What is wrong with the body as a whole.
BodyFlaw(r) ==
  CASE ~r.json -> "parse"
    [] r.json /\ r.path = "/v1/systemone" /\ r.kind # "object" -> "argument"
    [] r.json /\ r.items = <<>> -> "argument"
    [] OTHER -> "none"

RefuseValue(c) == stage[c] = "parse" /\ BodyFlaw(request[c]) # "none" /\ Throw(c, BodyFlaw(request[c]))

Parse(c) ==
  /\ stage[c] = "parse" /\ BodyFlaw(request[c]) = "none"
  /\ stage' = [stage EXCEPT ![c] = "validate"]
  /\ UNCHANGED <<request, item, questions, response, serviceVars>>

Minus(a, b) == IF b <= a THEN a - b ELSE a - b + Width

\* A mutant: every request of the body may have as many questions as the limit allows.
Left_PerRequest(c) == MaxQuestions

\* The questions the body may still have; the difference is unsigned.
Left(c) == Minus(MaxQuestions, questions[c])

\* What validate() objects to in the next request of the body.
ItemFlaw(c) ==
  LET i == request[c].items[item[c]] IN
  CASE i.before # "none" -> i.before
    [] i.before = "none" /\ i.size = 0 -> "argument"
    [] i.before = "none" /\ i.size > Left(c) -> "length"
    [] OTHER -> i.after

Validating(c) == stage[c] = "validate" /\ item[c] <= Len(request[c].items)

RefuseItem(c) == Validating(c) /\ ItemFlaw(c) # "none" /\ Throw(c, ItemFlaw(c))

CountItem(c) ==
  /\ Validating(c) /\ ItemFlaw(c) = "none"
  /\ questions' = [questions EXCEPT ![c] = @ + request[c].items[item[c]].size]
  /\ item' = [item EXCEPT ![c] = @ + 1]
  /\ UNCHANGED <<request, stage, response, serviceVars>>

Validated(c) == stage[c] = "validate" /\ item[c] > Len(request[c].items)

\* submit(): the job joins the line, or the server is stopping or full.
Submit(c) ==
  /\ Validated(c)
  /\ service!Accept(c) \/ service!Refuse(c)
  /\ stage' = [stage EXCEPT ![c] = "wait"]
  /\ UNCHANGED <<request, item, questions, response>>

\* The future is ready: results in the form of the route, or the exception.
Answer(c) ==
  /\ stage[c] = "wait" /\ outcome[c] # "none"
  /\ IF outcome[c] = "results"
     THEN Respond(c, Status(200, IF request[c].path = "/predict" THEN "results" ELSE "object"))
     ELSE Throw(c, outcome[c])

\* The dispatcher, or stop(), at work behind the handlers.
Serve ==
  /\ service!AnswerNext \/ service!Close
  /\ UNCHANGED <<request, stage, item, questions, response>>

Handle(c) ==
  \/ Arrive(c) \/ AnswerPreflight(c) \/ TurnAway(c) \/ RefuseBody(c) \/ Inform(c) \/ MissRoute(c)
  \/ Infer(c) \/ RefuseValue(c) \/ Parse(c) \/ RefuseItem(c) \/ CountItem(c) \/ Submit(c) \/ Answer(c)

Next == Serve \/ \E c \in Clients : Handle(c)

Spec == Init /\ [][Next]_vars

-----------------------------------------------------------------------------
(* Properties *)

Stages == {"idle", "route", "parse", "validate", "wait", "done"}

Forms == {"none", "empty", "error", "info", "object", "results"}
Responses == [status : Nat, retry : BOOLEAN, form : Forms]

\* A handler answers its client once, when it is done.
TypeOK ==
  /\ request \in [Clients -> Arrivals \cup {NoRequest}]
  /\ stage \in [Clients -> Stages]
  /\ \A c \in Clients : stage[c] # "idle" => request[c] \in Arrivals
  /\ item \in [Clients -> Nat \ {0}]
  /\ questions \in [Clients -> Nat]
  /\ response \in [Clients -> Responses]
  /\ \A c \in Clients : stage[c] = "done" <=> response[c].status # 0
  /\ closed \in BOOLEAN
  /\ outcome \in [Clients -> {"none", "unavailable", "results"} \cup Exceptions]
  /\ line \in Seq(Clients)

\* The predictor has, or may come to have, the job.
Admitted(c) == c \in service!Waiting \/ outcome[c] # "none"

\* Every job that reaches the service is a POST to an inference route that bore the key if one
\* is configured: HttpServer's jobs come from nowhere else.
OnlyUnlockedJoin ==
  \A c \in Clients : Admitted(c) => Infers(request[c]) /\ (Keyed => request[c].bearer)

\* Every job that reaches the service has at least one question and at most MaxQuestions, over
\* all the requests of its body together: what HttpServer assumes of its jobs (JobsAssumption,
\* FitAssumption), so a batch can always hold one.  The unsigned difference never wraps.
AdmittedFit ==
  \A c \in Clients :
    /\ Admitted(c) => questions[c] \in 1..MaxQuestions
    /\ questions[c] <= MaxQuestions

\* A client told to retry has a job no predictor ever saw: trying again decides nothing twice.
RetryIsSafe ==
  \A c \in Clients :
    response[c].retry \/ response[c].status = 503 => outcome[c] = "unavailable"

\* The questions of all the requests of a body together.
Asked(items) == FoldSeq(LAMBDA i, n : n + i.size, 0, items)

\* Something is wrong with the request itself.
Faulty(r) ==
  \/ ~Unlocked(r) \/ TooLarge(r) \/ ~(Informs(r) \/ Infers(r))
  \/ BodyFlaw(r) # "none"
  \/ \E i \in DOMAIN r.items : r.items[i].before # "none" \/ r.items[i].after # "none" \/ r.items[i].size = 0
  \/ Asked(r.items) > MaxQuestions

\* The status says whose fault it is: 4xx only if something is wrong with the request or the
\* predictor blames its input, 500 only if the predictor failed, 200 only with results or
\* information, and results only for a request nothing is wrong with.
StatusBlamesRightly ==
  \A c \in Clients :
    LET code == response[c].status IN
    /\ code \in 400..499 => Faulty(request[c]) \/ outcome[c] \in {"length", "argument", "json"}
    /\ code = 500 => outcome[c] = "runtime"
    /\ code = 200 => (response[c].form = "info" <=> Informs(request[c]))
    /\ response[c].form \in {"object", "results"} => outcome[c] = "results" /\ ~Faulty(request[c])
=============================================================================
