-------------------------- MODULE CommandLineProofs --------------------------
(***************************************************************************)
(* Proofs about CommandLine, for any arguments, worlds and inputs.         *)
(***************************************************************************)
EXTENDS CommandLine, Lemmas

AllLines == UNION {Range(p.world.lines) : p \in Processes}

\* What a line is answered with, if predict() returns.
AnswerTo(line) ==
  [error |-> FALSE, array |-> line.array,
   results |-> [i \in DOMAIN line.requests |-> Results(line.requests[i])]]

Written == {Error} \cup {AnswerTo(line) : line \in AllLines}

LEMMA LineTyped ==
  ASSUME NEW line \in AllLines
  PROVE  /\ line.requests \in Seq(Range(line.requests))
         /\ line.text = "json" /\ ~line.array => Len(line.requests) = 1
         /\ line.requests # <<>> => line.requests \in LineCalls
BY WorldsAssumption DEF AllLines, LineCalls

-----------------------------------------------------------------------------
(***************************************************************************)
(* How the lines of the input are numbered but for the empty ones.         *)
(***************************************************************************)
Number(n) == Len(AskedIn(n))

LEMMA LinesNumbered ==
  ASSUME world.lines \in Seq(AllLines)
  PROVE  LET n == Len(world.lines)
         IN  /\ Number(0) = 0
             /\ \A i \in 0..n : Number(i) \in Nat /\ Number(i) <= Number(n)
             /\ \A i \in 1..n :
                  IF world.lines[i].text = "empty" THEN Number(i) = Number(i - 1)
                  ELSE Number(i) = Number(i - 1) + 1 /\ Asked[Number(i)] = world.lines[i]
<1>. DEFINE n == Len(world.lines)
            said(i) == IF world.lines[i].text = "empty" THEN <<>> ELSE <<world.lines[i]>>
            all == [i \in 1..n |-> said(i)]
            w == Lengths(all)
<1>1. n \in Nat
  OBVIOUS
<1>2. \A i \in 1..n : said(i) \in Seq(AllLines)
  OBVIOUS
<1>3. \A i \in 1..n : w[i] = (IF world.lines[i].text = "empty" THEN 0 ELSE 1) /\ w[i] \in Nat
  BY DEF Lengths
<1>4. ASSUME NEW m \in 0..n PROVE Number(m) = Total(w, 1..m)
  <2>. DEFINE some == [i \in 1..m |-> said(i)]
  <2>1. m \in Nat /\ \A i \in 1..m : i \in 1..n
    OBVIOUS
  <2>2. some \in [1..m -> Seq(AllLines)]
    <3>. HIDE DEF said
    <3>. QED  BY <1>2, <2>1
  <2>3. \A i \in 1..m : Lengths(some)[i] = w[i]
    BY <2>1 DEF Lengths
  <2>4. AskedIn(m) = FlattenSeq(some)
    BY DEF AskedIn
  <2>. HIDE DEF some, w
  <2>5. Number(m) = Total(Lengths(some), 1..m)
    BY <2>1, <2>2, <2>4, FlattenLays DEF Number, Laid
  <2>6. Total(Lengths(some), 1..m) = Total(w, 1..m)
    BY <2>3, TotalSame
  <2>. QED  BY <2>5, <2>6
<1>5. Number(0) = 0
  <2>1. 0 \in 0..n /\ 1..0 = {}
    BY <1>1
  <2>. HIDE DEF w
  <2>. QED  BY <1>4, <2>1, TotalEmpty
<1>6. ASSUME NEW i \in 0..n PROVE Number(i) \in Nat /\ Number(i) <= Number(n)
  <2>1. n \in 0..n
    BY <1>1
  <2>. HIDE DEF w
  <2>. QED  BY <1>1, <1>3, <1>4, <2>1, TotalGrows
<1>7. ASSUME NEW i \in 1..n
      PROVE  /\ Number(i) = Number(i - 1) + w[i] /\ Number(i - 1) \in Nat
             /\ \A k \in 1..Len(said(i)) : Asked[Number(i - 1) + k] = said(i)[k]
  <2>. HIDE DEF w
  <2>1. i - 1 \in Nat /\ i - 1 \in 0..n /\ i \in 0..n /\ i - 1 + 1 = i
    BY <1>1
  <2>2. \A k \in 1..(i - 1) + 1 : w[k] \in Nat
    BY <1>3, <2>1
  <2>3. Total(w, 1..i) = Total(w, 1..i - 1) + w[i] /\ Total(w, 1..i - 1) \in Nat
    BY <2>1, <2>2, TotalNext
  <2>4. Number(i - 1) = Total(w, 1..i - 1) /\ Number(i) = Total(w, 1..i)
    BY <1>4, <2>1
  <2>5. \A k \in 1..Len(said(i)) : Asked[Number(i - 1) + k] = said(i)[k]
    <3>1. Asked = FlattenSeq(all)
      BY DEF Asked, AskedIn
    <3>2. all \in [1..n -> Seq(AllLines)] /\ all[i] = said(i)
      <4>. HIDE DEF said
      <4>. QED  BY <1>2
    <3>. HIDE DEF all, said
    <3>3. Laid(Asked, all, n)
      BY <1>1, <3>1, <3>2, FlattenLays
    <3>4. \A k \in 1..Len(all[i]) : Asked[Total(w, 1..i - 1) + k] = all[i][k]
      BY <3>3 DEF Laid, w
    <3>. QED  BY <2>4, <3>2, <3>4
  <2>. QED  BY <2>3, <2>4, <2>5
<1>8. ASSUME NEW i \in 1..n
      PROVE  IF world.lines[i].text = "empty" THEN Number(i) = Number(i - 1)
             ELSE Number(i) = Number(i - 1) + 1 /\ Asked[Number(i)] = world.lines[i]
  <2>1. CASE world.lines[i].text = "empty"
    <3>1. w[i] = 0
      BY <1>3, <2>1
    <3>. HIDE DEF w
    <3>2. Number(i) = Number(i - 1)
      <4>1. PICK a \in Nat : a = Number(i - 1)
        BY <1>7
      <4>2. Number(i) = a + 0
        BY <1>7, <3>1, <4>1
      <4>. QED  BY <4>1, <4>2
    <3>. QED  BY <2>1, <3>2
  <2>2. CASE world.lines[i].text # "empty"
    <3>1. w[i] = 1 /\ said(i) = <<world.lines[i]>>
      BY <1>3, <2>2
    <3>2. 1 \in 1..Len(said(i)) /\ said(i)[1] = world.lines[i]
      BY <3>1
    <3>. HIDE DEF w, said
    <3>3. Asked[Number(i - 1) + 1] = world.lines[i]
      BY <1>7, <3>2
    <3>4. Number(i) = Number(i - 1) + 1
      BY <1>7, <3>1
    <3>. QED  BY <2>2, <3>3, <3>4
  <2>. QED  BY <2>1, <2>2
<1>. QED  BY <1>5, <1>6, <1>8

-----------------------------------------------------------------------------
(***************************************************************************)
(* The inductive invariant.                                                *)
(***************************************************************************)
Typed ==
  /\ \E p \in Processes : argv = p.argv /\ world = p.world
  /\ at \in Nat \ {0}
  /\ phase \in {"parse", "choose", "load", "start", "listen", "read", "predict", "exited"}
  /\ status \in {-1, 0, 1, 2}
  /\ phase # "exited" => status = -1
  /\ output \in Seq(Written)

\* The context was set up for the profile that was chosen.
BackendInv ==
  Running => backend = [embeddings |-> Embeds, diffusion |-> profile = "jad", sequences |-> SequencesOf]

\* Whatever ends well was asked for, or has come to the end of its input.
SuccessInv ==
  /\ phase = "listen" => opts.server
  /\ status = 0 => opts.list \/ opts.server \/ Len(output) = Number(Len(world.lines))

\* The lines written so far are those of the lines read so far.
LinesInv ==
  /\ phase \in {"parse", "choose", "load", "start", "listen"} => output = <<>>
  /\ phase = "read" => at <= Len(world.lines) + 1
  /\ phase \in {"read", "predict"} => Len(output) = Number(at - 1)
  /\ Len(output) <= Number(Len(world.lines))
  /\ \A n \in 1..Len(output) : output[n] \in {Error, AnswerTo(Asked[n])}

\* predict() works on the requests of the line just read.
PredictInv ==
  phase = "predict" =>
    /\ at <= Len(world.lines)
    /\ Line.text = "json" /\ Line.requests # <<>> /\ call = Line.requests
    /\ outcome.status = "results" =>
         outcome.results = [i \in DOMAIN call |-> Results(call[i])]

IInv == Typed /\ BackendInv /\ SuccessInv /\ LinesInv /\ PredictInv

(* The input of a process, and the line it reads.                          *)
LEMMA WorldTyped ==
  ASSUME Typed
  PROVE  /\ world.lines \in Seq(AllLines) /\ Len(world.lines) \in Nat
         /\ DOMAIN world.lines = 1..Len(world.lines)
         /\ argv \in Seq(Range(argv)) /\ Len(argv) \in Nat
         /\ at <= Len(world.lines) =>
              Line \in AllLines /\ at \in 1..Len(world.lines) /\ Line = world.lines[at]
<1>1. PICK p \in Processes : argv = p.argv /\ world = p.world
  BY DEF Typed
<1>2. world.lines \in Seq(Range(world.lines)) /\ argv \in Seq(Range(argv))
  BY <1>1, WorldsAssumption
<1>3. Range(world.lines) \subseteq AllLines
  BY <1>1 DEF AllLines
<1>4. world.lines \in Seq(AllLines)
  BY <1>2, <1>3, SeqMonotonic
<1>5. Len(world.lines) \in Nat /\ DOMAIN world.lines = 1..Len(world.lines)
  BY <1>4
<1>6. ASSUME at <= Len(world.lines) PROVE at \in 1..Len(world.lines) /\ Line \in AllLines
  <2>1. at \in 1..Len(world.lines)
    BY <1>5, <1>6 DEF Typed
  <2>. QED  BY <1>4, <2>1 DEF Line
<1>. QED  BY <1>2, <1>4, <1>5, <1>6 DEF Line

LEMMA InitIInv == Init => IInv
<1>. SUFFICES ASSUME Init PROVE IInv
  OBVIOUS
<1>1. <<>> \in Seq(Written) /\ Len(<<>>) = 0 /\ 1..0 = {}
  OBVIOUS
<1>2. Typed
  <2>1. \E p \in Processes : argv = p.argv /\ world = p.world
    BY DEF Init
  <2>2. at = 1 /\ phase = "parse" /\ status = -1 /\ output = <<>>
    BY DEF Init
  <2>3. output \in Seq(Written)
    BY <1>1, <2>2
  <2>. QED  BY <2>1, <2>2, <2>3 DEF Typed
<1>3. Number(Len(world.lines)) \in Nat
  <2>1. world.lines \in Seq(AllLines) /\ Len(world.lines) \in 0..Len(world.lines)
    BY <1>2, WorldTyped
  <2>. QED  BY <2>1, LinesNumbered
<1>4. phase = "parse" /\ status = -1 /\ output = <<>>
  BY DEF Init
<1>5. LinesInv
  <2>1. Len(output) = 0 /\ 1..Len(output) = {} /\ 0 <= Number(Len(world.lines))
    BY <1>1, <1>3, <1>4
  <2>. QED  BY <1>4, <2>1 DEF LinesInv
<1>6. SuccessInv
  BY <1>4 DEF SuccessInv
<1>7. BackendInv /\ PredictInv
  BY <1>4 DEF BackendInv, PredictInv, Running
<1>. QED  BY <1>2, <1>5, <1>6, <1>7 DEF IInv

(* Before a profile is chosen only the arguments are read.                 *)
LEMMA SetInv ==
  ASSUME IInv, NEW field, NEW value, NEW taken \in {1, 2}, phase = "parse", Set(field, value, taken)
  PROVE  IInv'
<1>1. phase' = "parse" /\ at' = at + taken /\ UNCHANGED <<argv, world, output, status>>
  BY DEF Set
<1>2. Typed'
  BY <1>1 DEF IInv, Typed
<1>3. LinesInv'
  BY <1>1 DEF IInv, LinesInv, Asked, AskedIn, Number
<1>4. status' = -1
  BY <1>1, <1>2 DEF Typed
<1>. QED  BY <1>1, <1>2, <1>3, <1>4 DEF IInv, BackendInv, SuccessInv, PredictInv, Running

(* A process that exits leaves its output as it is.                        *)
LEMMA ExitInv ==
  ASSUME IInv, NEW code \in {0, 1, 2}, Exit(code),
         code = 0 => opts.list \/ opts.server \/ Len(output) = Number(Len(world.lines))
  PROVE  IInv'
<1>1. /\ phase' = "exited" /\ status' = code
      /\ UNCHANGED <<argv, world, opts, profile, backend, at, output>>
  BY DEF Exit, choice
<1>2. Typed'
  BY <1>1 DEF IInv, Typed
<1>3. LinesInv'
  BY <1>1 DEF IInv, LinesInv, Asked, AskedIn, Number
<1>4. SuccessInv'
  BY <1>1 DEF SuccessInv, Number, AskedIn
<1>. QED  BY <1>1, <1>2, <1>3, <1>4 DEF IInv, BackendInv, PredictInv, Running

LEMMA StopEarlyInv ==
  ASSUME IInv, StopEarly
  PROVE  IInv'
<1>1. PICK n \in FailedChecks : Exit(Checks[n].status)
  BY DEF StopEarly
<1>2. n \in DOMAIN Checks /\ Checks[n].fails
  BY DEF FailedChecks
<1>3. /\ Checks[1] = Check(opts.list, 0)
      /\ Checks[2].status = 2 /\ Checks[3].status = 1 /\ Checks[4].status = 1
      /\ Checks[5].status = 2 /\ Checks[6].status = 2
  BY Zenon DEF Checks, Check
<1>4. n \in 1..6
  <2>1. DOMAIN Checks = 1..6
    <3>. HIDE DEF Check
    <3>. QED  BY DEF Checks
  <2>. QED  BY <1>2, <2>1
<1>5. Checks[n].status \in {0, 1, 2} /\ (Checks[n].status = 0 => opts.list)
  <2>1. Checks[1].fails = opts.list /\ Checks[1].status = 0
    BY <1>3 DEF Check
  <2>. QED  BY <1>2, <1>3, <1>4, <2>1
<1>. QED  BY <1>1, <1>5, ExitInv

(* What changes neither the input nor the output, until lines are read.    *)
LEMMA QuietInv ==
  ASSUME IInv, phase \in {"parse", "choose", "load", "start"},
         phase' \in {"choose", "load", "start", "listen"},
         UNCHANGED <<argv, world, opts, at, output, status>>,
         phase' = "listen" => opts.server,
         BackendInv'
  PROVE  IInv'
<1>1. Typed'
  BY DEF IInv, Typed
<1>2. LinesInv'
  BY DEF IInv, LinesInv, Asked, AskedIn, Number
<1>3. SuccessInv'
  BY DEF IInv, Typed, SuccessInv
<1>. QED  BY <1>1, <1>2, <1>3 DEF IInv, PredictInv

LEMMA SetUpInv ==
  ASSUME IInv, Parsed \/ Choose \/ Load \/ StartServer
  PROVE  IInv'
<1>1. CASE Parsed
  <2>1. BackendInv'
    BY <1>1 DEF Parsed, BackendInv, Running
  <2>. QED  BY <1>1, <2>1, QuietInv DEF Parsed, choice
<1>2. CASE Choose
  <2>1. BackendInv'
    BY <1>2 DEF Choose, BackendInv, Running
  <2>. QED  BY <1>2, <2>1, QuietInv DEF Choose
<1>3. CASE Load
  <2>1. UNCHANGED <<world, opts, profile>>
    BY <1>3 DEF Load
  <2>2. Embeds' = Embeds /\ SequencesOf' = SequencesOf
    BY <2>1 DEF Embeds, SequencesOf, DecisionType, Metadata
  <2>3. BackendInv'
    BY <1>3, <2>1, <2>2 DEF Load, BackendInv
  <2>. QED  BY <1>3, <2>3, QuietInv DEF Load
<1>4. CASE StartServer
  <2>1. UNCHANGED <<world, opts, profile, backend>> /\ phase = "start" /\ phase' = "listen"
    BY <1>4 DEF StartServer, choice
  <2>2. Embeds' = Embeds /\ SequencesOf' = SequencesOf
    BY <2>1 DEF Embeds, SequencesOf, DecisionType, Metadata
  <2>3. BackendInv'
    BY <2>1, <2>2 DEF IInv, BackendInv, Running
  <2>. QED  BY <1>4, <2>3, QuietInv DEF StartServer, choice
<1>. QED  BY <1>1, <1>2, <1>3, <1>4

(* What the steps that read lines leave alone.                             *)
LEMMA ReadingKeeps ==
  ASSUME IInv, Running, UNCHANGED choice
  PROVE  /\ BackendInv' /\ world.lines' = world.lines
         /\ Number(Len(world.lines))' = Number(Len(world.lines)) /\ Asked' = Asked
         /\ \E p \in Processes : argv' = p.argv /\ world' = p.world
<1>1. UNCHANGED <<argv, world, opts, profile, backend>>
  BY DEF choice
<1>2. Embeds' = Embeds /\ SequencesOf' = SequencesOf
  BY <1>1 DEF Embeds, SequencesOf, DecisionType, Metadata
<1>3. BackendInv'
  BY <1>1, <1>2 DEF IInv, BackendInv
<1>. QED  BY <1>1, <1>3 DEF Asked, AskedIn, Number, IInv, Typed

LEMMA StartReadingInv ==
  ASSUME IInv, StartReading
  PROVE  IInv'
<1>1. /\ phase = "start" /\ phase' = "read" /\ at' = 1 /\ output = <<>>
      /\ UNCHANGED <<choice, output, status>> /\ UNCHANGED <<argv, world, opts>>
  BY DEF IInv, LinesInv, StartReading, choice
<1>2. world.lines \in Seq(AllLines) /\ Len(world.lines) \in Nat
  BY WorldTyped DEF IInv
<1>3. Number(0) = 0 /\ 1 - 1 = 0
  BY <1>2, LinesNumbered
<1>4. BackendInv' /\ Number(Len(world.lines))' = Number(Len(world.lines)) /\ Asked' = Asked
  BY <1>1, ReadingKeeps DEF Running
<1>5. Typed'
  BY <1>1 DEF IInv, Typed
<1>6. Number(at - 1)' = 0
  <2>1. Number(at - 1)' = Number(1 - 1)
    BY <1>1 DEF Number, AskedIn
  <2>. QED  BY <1>3, <2>1
<1>7. LinesInv'
  <2>1. Len(output') = 0 /\ 1..0 = {}
    BY <1>1
  <2>2. Len(output') <= Number(Len(world.lines))'
    BY <1>1, <1>4 DEF IInv, LinesInv
  <2>. QED  BY <1>1, <1>2, <1>6, <2>1, <2>2 DEF LinesInv
<1>8. SuccessInv'
  BY <1>1 DEF IInv, Typed, SuccessInv
<1>. QED  BY <1>1, <1>4, <1>5, <1>7, <1>8 DEF IInv, PredictInv

(* A step that reads line at and writes nothing, the line being empty.     *)
LEMMA SkipLineInv ==
  ASSUME IInv, SkipLine
  PROVE  IInv'
<1>1. /\ phase = "read" /\ phase' = "read" /\ at <= Len(world.lines) /\ at' = at + 1
      /\ Line.text = "empty" /\ UNCHANGED <<choice, output, status>>
      /\ UNCHANGED <<argv, world, opts>>
  BY DEF SkipLine, Reading, choice
<1>2. world.lines \in Seq(AllLines) /\ Len(world.lines) \in Nat /\ at \in 1..Len(world.lines)
      /\ Line = world.lines[at]
  BY <1>1, WorldTyped DEF IInv
<1>3. Number(at) = Number(at - 1)
  BY <1>1, <1>2, LinesNumbered
<1>4. BackendInv' /\ Number(Len(world.lines))' = Number(Len(world.lines)) /\ Asked' = Asked
      /\ world.lines' = world.lines
  BY <1>1, ReadingKeeps DEF Running
<1>5. Typed'
  BY <1>1 DEF IInv, Typed
<1>6. Number(at - 1)' = Number(at)
  <2>1. at' - 1 = at
    BY <1>1, <1>2
  <2>2. ASSUME NEW k, at' - 1 = k PROVE Number(at - 1)' = Number(k)
    BY <1>1, <2>2 DEF Number, AskedIn
  <2>. QED  BY <2>1, <2>2
<1>7. LinesInv'
  <2>1. Len(output) = Number(at - 1) /\ Len(output) <= Number(Len(world.lines))
        /\ \A n \in 1..Len(output) : output[n] \in {Error, AnswerTo(Asked[n])}
    BY <1>1 DEF IInv, LinesInv
  <2>2. at + 1 <= Len(world.lines) + 1
    BY <1>2
  <2>. QED  BY <1>1, <1>3, <1>4, <1>6, <2>1, <2>2 DEF LinesInv
<1>8. SuccessInv'
  BY <1>1 DEF IInv, Typed, SuccessInv
<1>. QED  BY <1>1, <1>4, <1>5, <1>7, <1>8 DEF IInv, PredictInv

(* A step that writes a line for the line at, which is not empty.          *)
LEMMA WriteInv ==
  ASSUME IInv, phase \in {"read", "predict"}, at <= Len(world.lines), Line.text # "empty",
         NEW entry \in {Error, AnswerTo(Line)}, Write(entry)
  PROVE  IInv'
<1>1. /\ phase' = "read" /\ at' = at + 1 /\ output' = Append(output, entry)
      /\ UNCHANGED <<choice, status>> /\ UNCHANGED <<argv, world, opts>>
  BY DEF Write, choice
<1>2. /\ world.lines \in Seq(AllLines) /\ Len(world.lines) \in Nat /\ at \in 1..Len(world.lines)
      /\ Line = world.lines[at] /\ Line \in AllLines
  BY WorldTyped DEF IInv
<1>3. Number(at) = Number(at - 1) + 1 /\ Asked[Number(at)] = Line
      /\ Number(at) <= Number(Len(world.lines))
  <2>1. at \in 0..Len(world.lines)
    BY <1>2
  <2>. QED  BY <1>2, <2>1, LinesNumbered
<1>4. BackendInv' /\ Number(Len(world.lines))' = Number(Len(world.lines)) /\ Asked' = Asked
      /\ world.lines' = world.lines
  BY <1>1, ReadingKeeps DEF Running
<1>5. entry \in Written /\ output \in Seq(Written)
  BY <1>2 DEF Written, IInv, Typed
<1>6. /\ output' \in Seq(Written) /\ Len(output') = Len(output) + 1 /\ Len(output) \in Nat
      /\ output'[Len(output) + 1] = entry
      /\ \A n \in 1..Len(output) : output'[n] = output[n]
  BY <1>1, <1>5
<1>7. Typed'
  <2>1. at' \in Nat \ {0}
    BY <1>1, <1>2
  <2>. QED  BY <1>1, <1>6, <2>1 DEF IInv, Typed
<1>8. Number(at - 1)' = Number(at)
  <2>1. at' - 1 = at
    BY <1>1, <1>2
  <2>2. ASSUME NEW k, at' - 1 = k PROVE Number(at - 1)' = Number(k)
    BY <1>1, <2>2 DEF Number, AskedIn
  <2>. QED  BY <2>1, <2>2
<1>9. Len(output) = Number(at - 1) /\ Len(output') = Number(at)
  BY <1>3, <1>6 DEF IInv, LinesInv
<1>10. LinesInv'
  <2>1. \A n \in 1..Len(output') : output'[n] \in {Error, AnswerTo(Asked[n])}
    <3>1. ASSUME NEW n \in 1..Len(output') PROVE output'[n] \in {Error, AnswerTo(Asked[n])}
      <4>1. CASE n = Len(output')
        <5>1. Asked[n] = Line /\ output'[n] = entry
          BY <1>3, <1>6, <1>9, <4>1
        <5>. QED  BY <5>1
      <4>2. CASE n # Len(output')
        <5>1. n \in 1..Len(output)
          BY <1>6, <4>2
        <5>. QED  BY <1>6, <5>1 DEF IInv, LinesInv
      <4>. QED  BY <4>1, <4>2
    <3>. QED  BY <3>1
  <2>2. at + 1 <= Len(world.lines) + 1
    BY <1>2
  <2>3. Len(output') <= Number(Len(world.lines))'
    BY <1>3, <1>4, <1>9
  <2>4. (\A n \in 1..Len(output) : output[n] \in {Error, AnswerTo(Asked[n])})'
    BY <1>4, <2>1 DEF Error, AnswerTo
  <2>. QED  BY <1>1, <1>4, <1>8, <1>9, <2>2, <2>3, <2>4 DEF LinesInv
<1>11. SuccessInv'
  BY <1>1 DEF IInv, Typed, SuccessInv
<1>. QED  BY <1>1, <1>4, <1>7, <1>10, <1>11 DEF IInv, PredictInv

(* The steps of a call, which write nothing.                               *)
LEMMA CallInv ==
  ASSUME IInv, phase \in {"read", "predict"}, phase' = "predict",
         UNCHANGED <<choice, at, output, status>>, PredictInv'
  PROVE  IInv'
<1>1. UNCHANGED <<argv, world, opts>>
  BY DEF choice
<1>2. BackendInv' /\ Number(Len(world.lines))' = Number(Len(world.lines)) /\ Asked' = Asked
      /\ world.lines' = world.lines
  BY ReadingKeeps DEF Running
<1>3. Typed'
  BY <1>1 DEF IInv, Typed
<1>4. Number(at - 1)' = Number(at - 1)
  BY <1>1 DEF Number, AskedIn
<1>5. LinesInv'
  BY <1>1, <1>2, <1>4 DEF IInv, LinesInv, AnswerTo
<1>6. SuccessInv'
  BY <1>1, <1>2 DEF IInv, Typed, SuccessInv
<1>. QED  BY <1>2, <1>3, <1>5, <1>6 DEF IInv

LEMMA AskPredictorInv ==
  ASSUME IInv, AskPredictor
  PROVE  IInv'
<1>1. /\ phase = "read" /\ phase' = "predict" /\ at <= Len(world.lines)
      /\ Line.text = "json" /\ Line.requests # <<>>
      /\ call' = Line.requests /\ outcome'.status = "pending"
      /\ UNCHANGED <<choice, at, output, status>> /\ UNCHANGED world
  BY DEF AskPredictor, Reading, choice, predictor!Begin, predictor!Outcome
<1>2. Line' = Line
  BY <1>1 DEF Line
<1>3. PredictInv'
  BY <1>1, <1>2 DEF PredictInv
<1>. QED  BY <1>1, <1>3, CallInv

LEMMA PredictKeeps ==
  ASSUME IInv, Predict
  PROVE  IInv'
<1>1. /\ phase = "predict" /\ phase' = "predict" /\ call' = call
      /\ UNCHANGED <<choice, at, output, status>> /\ UNCHANGED world
  BY DEF Predict, choice, predictor!Return, predictor!Refuse, predictor!Fail, predictor!Ended
<1>2. outcome'.status = "results" => outcome'.results = [i \in DOMAIN call |-> Results(call[i])]
  BY DEF Predict, predictor!Return, predictor!Refuse, predictor!Fail, predictor!Ended,
         predictor!Outcome
<1>3. PredictInv'
  <2>1. Line' = Line
    BY <1>1 DEF Line
  <2>. QED  BY <1>1, <1>2, <2>1 DEF IInv, PredictInv
<1>. QED  BY <1>1, <1>3, CallInv

LEMMA WriteResultsInv ==
  ASSUME IInv, WriteResults
  PROVE  IInv'
<1>1. /\ phase = "predict" /\ at <= Len(world.lines) /\ Line.text = "json" /\ Line.requests # <<>>
      /\ Write(IF outcome.status = "results" THEN Shape(outcome.results) ELSE Error)
  BY DEF IInv, PredictInv, WriteResults
<1>2. CASE outcome.status = "results"
  <2>1. outcome.results = [i \in DOMAIN Line.requests |-> Results(Line.requests[i])]
    BY <1>1, <1>2 DEF IInv, PredictInv
  <2>2. Line \in AllLines
    BY <1>1, WorldTyped DEF IInv
  <2>3. Line.requests \in Seq(Range(Line.requests)) /\ (~Line.array => Len(Line.requests) = 1)
    BY <1>1, <2>2, LineTyped
  <2>4. ~Line.array => <<outcome.results[1]>> = outcome.results
    <3>1. ASSUME ~Line.array PROVE <<outcome.results[1]>> = outcome.results
      <4>1. DOMAIN Line.requests = 1..1
        BY <2>3, <3>1
      <4>2. 1 \in 1..1 /\ outcome.results[1] = Results(Line.requests[1])
        BY <2>1, <4>1
      <4>. DEFINE result == Results(Line.requests[1])
      <4>3. outcome.results = [i \in 1..1 |-> result]
        BY <2>1, <4>1
      <4>. HIDE DEF result
      <4>. QED  BY <4>2, <4>3
    <3>. QED  BY <3>1
  <2>5. Shape(outcome.results) = AnswerTo(Line)
    BY <2>1, <2>4 DEF Shape, AnswerTo
  <2>. QED  BY <1>1, <1>2, <2>5, WriteInv
<1>3. CASE outcome.status # "results"
  BY <1>1, <1>3, WriteInv
<1>. QED  BY <1>2, <1>3

LEMMA EndOfInputInv ==
  ASSUME IInv, EndOfInput
  PROVE  IInv'
<1>1. phase = "read" /\ at > Len(world.lines) /\ Exit(0)
  BY DEF EndOfInput
<1>2. at <= Len(world.lines) + 1 /\ Len(output) = Number(at - 1) /\ at \in Nat
  BY <1>1 DEF IInv, LinesInv, Typed
<1>3. at - 1 = Len(world.lines)
  BY <1>1, <1>2, WorldTyped DEF IInv
<1>. QED  BY <1>1, <1>2, <1>3, ExitInv

LEMMA FailInv ==
  ASSUME IInv, RefuseValue \/ ShowUsage \/ LoadFails \/ StartFails \/ RefuseCutLine \/ ServerEnds
  PROVE  IInv'
<1>1. CASE RefuseValue \/ LoadFails \/ StartFails \/ RefuseCutLine
  <2>1. Exit(1)
    BY <1>1 DEF RefuseValue, LoadFails, StartFails, RefuseCutLine
  <2>. QED  BY <2>1, ExitInv
<1>2. CASE ShowUsage
  <2>1. Exit(2)
    BY <1>2 DEF ShowUsage
  <2>. QED  BY <2>1, ExitInv
<1>3. CASE ServerEnds
  <2>1. opts.server /\ \E code \in {0, 1} : Exit(code)
    BY <1>3 DEF ServerEnds, IInv, SuccessInv
  <2>. QED  BY <2>1, ExitInv
<1>. QED  BY <1>1, <1>2, <1>3

LEMMA ArgumentInv ==
  ASSUME IInv, TakeSwitch \/ TakeValue
  PROVE  IInv'
<1>1. phase = "parse"
  BY DEF TakeSwitch, TakeValue, Parsing
<1>2. CASE TakeSwitch
  BY <1>1, <1>2, SetInv DEF TakeSwitch
<1>3. CASE TakeValue
  BY <1>1, <1>3, SetInv DEF TakeValue
<1>. QED  BY <1>2, <1>3

LEMMA StutterInv == IInv /\ UNCHANGED vars => IInv'
<1>. SUFFICES ASSUME IInv, UNCHANGED vars PROVE IInv'
  OBVIOUS
<1>1. UNCHANGED <<argv, world, opts, profile, backend, at, call, outcome, output, phase, status>>
  BY DEF vars, choice, predictorVars
<1>2. Typed'
  BY <1>1 DEF IInv, Typed
<1>3. BackendInv'
  <2>1. Embeds' = Embeds /\ SequencesOf' = SequencesOf
    BY <1>1 DEF Embeds, SequencesOf, DecisionType, Metadata
  <2>. QED  BY <1>1, <2>1 DEF IInv, BackendInv, Running
<1>4. SuccessInv' /\ LinesInv' /\ PredictInv'
  <2>1. SuccessInv'
    BY <1>1, SMTT(60) DEF IInv, SuccessInv, LinesInv, Number, AskedIn, Asked, Line
  <2>2. LinesInv'
    <3>1. Asked' = Asked
      BY <1>1 DEF Asked, AskedIn
    <3>2. Number(at - 1)' = Number(at - 1) /\ Number(Len(world.lines))' = Number(Len(world.lines))
      BY <1>1 DEF Number, AskedIn
    <3>. QED  BY <1>1, <3>1, <3>2 DEF IInv, LinesInv
  <2>3. PredictInv'
    BY <1>1, SMTT(60) DEF IInv, PredictInv, Number, AskedIn, Asked, Line, AnswerTo, Error
  <2>. QED  BY <2>1, <2>2, <2>3
<1>. QED  BY <1>2, <1>3, <1>4 DEF IInv

LEMMA RefuseLineInv ==
  ASSUME IInv, RefuseLine
  PROVE  IInv'
<1>1. phase = "read" /\ at <= Len(world.lines) /\ Line.text # "empty" /\ Write(Error)
  BY DEF RefuseLine, Reading
<1>. QED  BY <1>1, WriteInv

LEMMA StepIInv == IInv /\ [Next]_vars => IInv'
<1>. SUFFICES ASSUME IInv, [Next]_vars PROVE IInv'
  OBVIOUS
<1>1. CASE TakeSwitch \/ TakeValue
  BY <1>1, ArgumentInv
<1>2. CASE RefuseValue \/ ShowUsage \/ LoadFails \/ StartFails \/ RefuseCutLine \/ ServerEnds
  BY <1>2, FailInv
<1>3. CASE Parsed \/ Choose \/ Load \/ StartServer
  BY <1>3, SetUpInv
<1>4. CASE StopEarly
  BY <1>4, StopEarlyInv
<1>5. CASE StartReading
  BY <1>5, StartReadingInv
<1>6. CASE SkipLine
  BY <1>6, SkipLineInv
<1>7. CASE RefuseLine
  BY <1>7, RefuseLineInv
<1>8. CASE AskPredictor
  BY <1>8, AskPredictorInv
<1>9. CASE Predict
  BY <1>9, PredictKeeps
<1>10. CASE WriteResults
  BY <1>10, WriteResultsInv
<1>11. CASE EndOfInput
  BY <1>11, EndOfInputInv
<1>12. CASE Exited \/ UNCHANGED vars
  BY <1>12, StutterInv DEF Exited
<1>. QED  BY <1>1, <1>2, <1>3, <1>4, <1>5, <1>6, <1>7, <1>8, <1>9, <1>10, <1>11, <1>12 DEF Next

-----------------------------------------------------------------------------
(***************************************************************************)
(* What holds of every run.                                                *)
(***************************************************************************)

\* The inductive invariant is one: it holds at the start of main(), and every step of it, from
\* the first argument to the exit, keeps it.
THEOREM Invariance == Spec => []IInv
BY InitIInv, StepIInv, PTL DEF Spec

\* The loop of main() over the input writes one line for each line that is not empty, in their
\* order: an error, or the results of the requests of this line, in its shape; and a process
\* that exits with success has written them all, unless it listed devices or was a server.
THEOREM LinesAnswered == Spec => []OutputFollowsInput
<1>1. IInv => OutputFollowsInput
  <2>. SUFFICES ASSUME IInv PROVE OutputFollowsInput
    OBVIOUS
  <2>1. Len(Asked) = Number(Len(world.lines))
    BY DEF Asked, Number
  <2>2. output \in Seq(Written) /\ DOMAIN output = 1..Len(output)
    BY DEF IInv, Typed
  <2>3. Len(output) <= Len(Asked)
    BY <2>1 DEF IInv, LinesInv
  <2>4. phase \in {"read", "predict"} => Len(output) = Len(AskedIn(Done))
    BY DEF IInv, LinesInv, Done, Number
  <2>5. ASSUME NEW n \in DOMAIN output, ~output[n].error
        PROVE  /\ output[n].array = Asked[n].array
               /\ output[n].results
                    = [i \in DOMAIN Asked[n].requests |-> Results(Asked[n].requests[i])]
    <3>1. output[n] \in {Error, AnswerTo(Asked[n])}
      BY <2>2 DEF IInv, LinesInv
    <3>2. output[n] = AnswerTo(Asked[n])
      BY <2>5, <3>1 DEF Error
    <3>. QED  BY <3>2 DEF AnswerTo
  <2>6. status = 0 => opts.list \/ opts.server \/ Len(output) = Len(Asked)
    BY <2>1 DEF IInv, SuccessInv
  <2>. QED  BY <2>3, <2>4, <2>5, <2>6 DEF OutputFollowsInput
<1>. QED  BY <1>1, Invariance, PTL

\* The constructor of side_engine sets up what the readout of the profile asks for, as long as
\* the models read at markers are of the types it names.
THEOREM ReadoutGiven ==
  ASSUME TypesNamed
  PROVE  Spec => []ReadoutAvailable
<1>1. IInv => ReadoutAvailable
  <2>. SUFFICES ASSUME IInv, Running
                PROVE  (ReadsHidden => backend.embeddings) /\ (backend.diffusion => backend.sequences = 1)
    BY DEF ReadoutAvailable
  <2>1. backend = [embeddings |-> Embeds, diffusion |-> profile = "jad", sequences |-> SequencesOf]
    BY DEF IInv, BackendInv
  <2>2. profile = "jad" => SequencesOf = 1
    BY DEF SequencesOf
  <2>3. ASSUME world.marked, profile = "official" PROVE Embeds
    <3>1. PICK p \in Processes : world = p.world
      BY DEF IInv, Typed
    <3>2. world.type \in {"kev", "laya"} /\ world.metadata.decision \in {"", "kev", "laya"}
      BY <2>3, <3>1 DEF TypesNamed
    <3>3. NoMetadata.decision = ""
      BY DEF NoMetadata
    <3>4. DecisionType \in {"kev", "laya"}
      BY <3>2, <3>3 DEF DecisionType, Metadata
    <3>. QED  BY <2>3, <3>4 DEF Embeds
  <2>. QED  BY <2>1, <2>2, <2>3 DEF ReadsHidden, Embeds
<1>. QED  BY <1>1, Invariance, PTL
==============================================================================
