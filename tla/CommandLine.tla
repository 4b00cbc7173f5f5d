----------------------------- MODULE CommandLine -----------------------------
(***************************************************************************)
(* The process: main() of src/src/main.cpp with profile_from_string() of   *)
(* src/src/profile.cpp and the constructor of side_engine in               *)
(* src/src/side.cpp.  Arguments are read one by one, the profile is chosen *)
(* from the flag, the metadata file or the model, a backend is set up for  *)
(* it, and requests are served over HTTP or read from a file, one JSON     *)
(* value per line.                                                         *)
(*                                                                         *)
(* What the process finds outside is its world: files, model, build.       *)
(* predict() is the Predictor of whatever profile was chosen; the server   *)
(* itself is HttpServer.                                                   *)
(***************************************************************************)
EXTENDS Integers, Sequences, SequencesExt

CONSTANTS
  Processes,  \* [argv, world]: argument lists, and what a process started with them may find
  Numerals    \* the numbers std::stoi() and std::stoul() read in the texts they accept

\* interop   the build has DOHNUTS_DECISION_INTEROP
\* metadata  the file named by --metadata: Unreadable, or what it says, as in NoMetadata
\* type      <arch>.decision.type of the model, "" if it has none
\* marked    a model with a type: its readout is at markers, not over labels
\* loads     device, model and head are there and fit
\* mask      the vocabulary has a mask token
\* opens     the file of --input, or with --server the port, can be opened
\* lines     the input: per line its text, "empty", "json", "not json" or "not json, cut",
\*           and of JSON whether it is an array and the requests in it
WorldFields == {"interop", "metadata", "type", "marked", "loads", "mask", "opens", "lines"}

NoMetadata == [profile |-> "", temperatures |-> FALSE, pointer |-> FALSE, decision |-> ""]
Unreadable == [NoMetadata EXCEPT !.profile = "unreadable"]

ASSUME WorldsAssumption ==
  \A p \in Processes :
    /\ p.argv \in Seq(Range(p.argv))
    /\ DOMAIN p.world = WorldFields /\ (p.world.marked => p.world.type # "")
    /\ p.world.lines \in Seq(Range(p.world.lines))
    /\ \A line \in Range(p.world.lines) :
         /\ line.requests \in Seq(Range(line.requests))
         /\ line.text = "json" /\ ~line.array => Len(line.requests) = 1

VARIABLES
  argv, world,
  at,        \* the argument, later the line, to read next
  opts,
  profile,
  backend,   \* how the model was set up
  call, outcome,  \* of predict()
  output,    \* the lines written
  phase,     \* "parse", "choose", "load", "start", "listen", "read", "predict", "exited"
  status     \* of the process, once it exited

predictorVars == <<call, outcome>>
choice == <<argv, world, opts, profile, backend>>
vars == <<choice, at, predictorVars, output, phase, status>>

Results(request) == <<"answer", request>>
Refusable(request) == request = "bad"
LineCalls == {line.requests : line \in UNION {Range(p.world.lines) : p \in Processes}} \ {<<>>}

predictor == INSTANCE Predictor WITH Calls <- LineCalls

Exit(code) == phase' = "exited" /\ status' = code /\ UNCHANGED <<choice, at, predictorVars, output>>

-----------------------------------------------------------------------------
(* Arguments *)

Switch ==
  ("--server" :> "server") @@ ("--no-batching" :> "unbatched") @@ ("--shared-prefix" :> "shared")
    @@ ("--batch-branches" :> "shared") @@ ("--raw" :> "raw") @@ ("--list-devices" :> "list")
    @@ ("--flash-attn" :> "flash") @@ ("--flash-attn=true" :> "flash")

Named ==
  ("--profile" :> "profile") @@ ("--model" :> "model") @@ ("--head" :> "head")
    @@ ("--metadata" :> "metadata") @@ ("--input" :> "input")

Numbered ==
  ("--port" :> "port") @@ ("--ctx" :> "ctx") @@ ("--max-questions" :> "questions")

Defaults ==
  [field \in Range(Switch) |-> FALSE] @@ [field \in Range(Named) |-> ""]
    @@ [port |-> 8080, ctx |-> 0, questions |-> 8]

Init ==
  /\ \E p \in Processes : argv = p.argv /\ world = p.world
  /\ at = 1
  /\ opts = Defaults
  /\ profile = "" /\ backend = <<>>
  /\ predictor!Init
  /\ output = <<>>
  /\ phase = "parse" /\ status = -1

Parsing == phase = "parse" /\ at <= Len(argv)

Set(field, value, taken) ==
  /\ opts' = [opts EXCEPT ![field] = value]
  /\ at' = at + taken
  /\ UNCHANGED <<argv, world, profile, backend, predictorVars, output, phase, status>>

TakeSwitch == Parsing /\ argv[at] \in DOMAIN Switch /\ Set(Switch[argv[at]], TRUE, 1)

\* The next argument is the value, whatever it looks like.
TakeValue ==
  /\ Parsing /\ at < Len(argv)
  /\ \/ argv[at] \in DOMAIN Named /\ Set(Named[argv[at]], argv[at + 1], 2)
     \/ /\ argv[at] \in DOMAIN Numbered /\ argv[at + 1] \in DOMAIN Numerals
        /\ Set(Numbered[argv[at]], Numerals[argv[at + 1]], 2)

\* A value that is missing or not a number, or a mode --flash-attn= does not know, is an error.
RefuseValue ==
  /\ Parsing
  /\ \/ argv[at] \in DOMAIN Named \cup DOMAIN Numbered /\ at = Len(argv)
     \/ argv[at] \in DOMAIN Numbered /\ at < Len(argv) /\ argv[at + 1] \notin DOMAIN Numerals
     \/ argv[at] = "--flash-attn=maybe"
  /\ Exit(1)

Unknown(arg) ==
  arg \notin DOMAIN Switch \cup DOMAIN Named \cup DOMAIN Numbered \cup {"--flash-attn=maybe"}

ShowUsage == Parsing /\ Unknown(argv[at]) /\ Exit(2)

Parsed ==
  /\ phase = "parse" /\ at > Len(argv)
  /\ phase' = "choose"
  /\ UNCHANGED <<choice, at, predictorVars, output, status>>

-----------------------------------------------------------------------------
(* Profile and backend *)

SideProfiles == {"decider", "kev", "tev1", "thisthat", "jet", "jpt", "neohorsejev", "jad", "official"}
Profiles == SideProfiles \cup {"dohnuts"}

Metadata == IF opts.metadata = "" THEN NoMetadata ELSE world.metadata

\* The flag, else the metadata file, else an official model, else the default.
ProfileName ==
  LET named == IF opts.profile # "" THEN opts.profile ELSE Metadata.profile
  IN  CASE named # "" -> named
        [] named = "" /\ world.interop /\ world.type # "" -> "official"
        [] OTHER -> "dohnuts"

Check(fails, code) == [fails |-> fails, status |-> code]

\* What main() checks before it loads anything, in this order, and how it exits.
Checks ==
  <<Check(opts.list, 0),
    Check(opts.model = "", 2),
    Check(Metadata = Unreadable, 1),
    Check(ProfileName \notin Profiles, 1),
    Check(ProfileName = "dohnuts" /\ opts.metadata = "", 2),
    Check(ProfileName \in {"dohnuts", "kev", "neohorsejev"} /\ opts.head = "", 2)>>

FailedChecks == {n \in DOMAIN Checks : Checks[n].fails}

StopEarly ==
  /\ phase = "choose"
  /\ \E n \in FailedChecks : (\A o \in FailedChecks : n <= o) /\ Exit(Checks[n].status)

Choose ==
  /\ phase = "choose" /\ FailedChecks = {}
  /\ profile' = ProfileName
  /\ phase' = "load"
  /\ UNCHANGED <<argv, world, opts, backend, at, predictorVars, output, status>>

\* Of an official model, the metadata file says its type, else the model does.
DecisionType == IF Metadata.decision # "" THEN Metadata.decision ELSE world.type

\* A mutant: the list of profiles that read hidden states was not extended for neohorsejev.
Embeds_FirstPointerOnly ==
  profile \in {"dohnuts", "kev"} \/ (profile = "official" /\ DecisionType \in {"kev", "laya"})

\* The context outputs hidden states.
Embeds ==
  \/ profile \in {"dohnuts", "kev", "neohorsejev"}
  \/ profile = "official" /\ DecisionType \in {"kev", "laya"}

\* Sequences the context has room for.
SequencesOf == IF profile = "dohnuts" \/ (opts.shared /\ profile # "jad") THEN 8 ELSE 1

Loadable ==
  /\ world.loads
  /\ profile = "dohnuts" => Metadata.temperatures
  /\ profile \in {"kev", "neohorsejev"} => Metadata.pointer
  /\ profile = "jad" => world.mask
  /\ profile = "official" => world.interop

Load ==
  /\ phase = "load" /\ Loadable
  /\ backend' = [embeddings |-> Embeds, diffusion |-> profile = "jad", sequences |-> SequencesOf]
  /\ phase' = "start"
  /\ UNCHANGED <<argv, world, opts, profile, at, predictorVars, output, status>>

LoadFails == phase = "load" /\ ~Loadable /\ Exit(1)

-----------------------------------------------------------------------------
(* Serving *)

\* http_server accepts its options and binds its port.
Bindable == opts.port \in 0..65535 /\ opts.questions # 0 /\ world.opens

StartServer ==
  /\ phase = "start" /\ opts.server /\ Bindable
  /\ phase' = "listen"
  /\ UNCHANGED <<choice, at, predictorVars, output, status>>

StartReading ==
  /\ phase = "start" /\ ~opts.server /\ (opts.input = "" \/ world.opens)
  /\ at' = 1
  /\ phase' = "read"
  /\ UNCHANGED <<choice, predictorVars, output, status>>

StartFails ==
  /\ phase = "start"
  /\ IF opts.server THEN ~Bindable ELSE opts.input # "" /\ ~world.opens
  /\ Exit(1)

\* After a signal, or because the listener failed.
ServerEnds == phase = "listen" /\ \E code \in {0, 1} : Exit(code)

Reading == phase = "read" /\ at <= Len(world.lines)
Line == world.lines[at]

Write(entry) ==
  /\ output' = Append(output, entry)
  /\ at' = at + 1
  /\ phase' = "read"
  /\ UNCHANGED <<choice, predictorVars, status>>

Error == [error |-> TRUE, array |-> FALSE, results |-> <<>>]

SkipLine ==
  /\ Reading /\ Line.text = "empty"
  /\ at' = at + 1
  /\ UNCHANGED <<choice, predictorVars, output, phase, status>>

\* A line that is not JSON, or an array of nothing, which no predict() takes.
RefuseLine ==
  /\ Reading
  /\ Line.text = "not json" \/ (Line.text = "json" /\ Line.requests = <<>>)
  /\ Write(Error)

\* The message quotes the line up to a byte that is not a character by itself; dump() throws
\* over it in the handler, out of the loop.
RefuseCutLine == Reading /\ Line.text = "not json, cut" /\ Exit(1)

AskPredictor ==
  /\ Reading /\ Line.text = "json" /\ Line.requests # <<>>
  /\ predictor!Begin(Line.requests)
  /\ phase' = "predict"
  /\ UNCHANGED <<choice, at, output, status>>

Predict ==
  /\ phase = "predict"
  /\ predictor!Return \/ predictor!Refuse \/ predictor!Fail
  /\ UNCHANGED <<choice, at, output, phase, status>>

\* A mutant: one result is written as an object, whatever it was asked as.
Shape_ByCount(results) ==
  [error |-> FALSE, array |-> Len(results) # 1,
   results |-> IF Len(results) # 1 THEN results ELSE <<results[1]>>]

\* An array is answered with an array, a request with its result alone.
Shape(results) ==
  [error |-> FALSE, array |-> Line.array, results |-> IF Line.array THEN results ELSE <<results[1]>>]

WriteResults ==
  /\ phase = "predict" /\ ~predictor!Pending
  /\ Write(IF outcome.status = "results" THEN Shape(outcome.results) ELSE Error)

EndOfInput == phase = "read" /\ at > Len(world.lines) /\ Exit(0)

Exited == phase = "exited" /\ UNCHANGED vars

Next ==
  \/ TakeSwitch \/ TakeValue \/ RefuseValue \/ ShowUsage \/ Parsed
  \/ StopEarly \/ Choose \/ Load \/ LoadFails
  \/ StartServer \/ StartReading \/ StartFails \/ ServerEnds
  \/ SkipLine \/ RefuseLine \/ RefuseCutLine \/ AskPredictor \/ Predict \/ WriteResults \/ EndOfInput
  \/ Exited

Spec == Init /\ [][Next]_vars

-----------------------------------------------------------------------------
(* Properties *)

Running == phase \in {"start", "listen", "read", "predict"}

\* The first n lines of the input but the empty ones.
AskedIn(n) ==
  FlattenSeq([i \in 1..n |-> IF world.lines[i].text = "empty" THEN <<>> ELSE <<world.lines[i]>>])

Asked == AskedIn(Len(world.lines))
Done == IF phase \in {"read", "predict"} THEN at - 1 ELSE 0

\* Each line written is for the next line of the input that is not empty: an error, or the
\* results of the requests of this very line in their order, as an array if it was one.  A
\* process that exits with success listed the devices, was a server told to stop, or has
\* written a line for every line of its input.
OutputFollowsInput ==
  /\ Len(output) <= Len(Asked)
  /\ phase \in {"read", "predict"} => Len(output) = Len(AskedIn(Done))
  /\ \A n \in DOMAIN output :
       ~output[n].error =>
         /\ output[n].array = Asked[n].array
         /\ output[n].results = [i \in DOMAIN Asked[n].requests |-> Results(Asked[n].requests[i])]
  /\ status = 0 => opts.list \/ opts.server \/ Len(output) = Len(Asked)

\* The profile's score() reads hidden states at markers, not logits of labels.
ReadsHidden ==
  \/ profile \in {"dohnuts", "kev", "neohorsejev"}
  \/ profile = "official" /\ world.marked

\* The models whose readout is at markers have one of the types Embeds names.
TypesNamed ==
  \A p \in Processes :
    p.world.marked =>
      p.world.type \in {"kev", "laya"} /\ p.world.metadata.decision \in {"", "kev", "laya"}

\* A backend that serves can give what the readout of its profile and model asks for: hidden
\* states where they are read, and one sequence only where attention is not causal.
\* It holds for the decision types there are, not for any that
\* src/include/dohnuts/side/official.hpp promises to run ("a new decision type lands by bumping
\* the submodule, not by adding a dohnuts profile"): Embeds names the types.
ReadoutAvailable ==
  Running => (ReadsHidden => backend.embeddings) /\ (backend.diffusion => backend.sequences = 1)
=============================================================================
