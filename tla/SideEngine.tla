----------------------------- MODULE SideEngine -----------------------------
(***************************************************************************)
(* The side profiles: side_engine::predict() of src/src/side.cpp and the   *)
(* runner it drives, src/src/side/runner.cpp.  The rows a profile plans    *)
(* for a request are decoded one by one, the state they start with taken   *)
(* from a checkpoint, or, with --shared-prefix, all in one batch whose     *)
(* outputs are read by ordinal until end_batch().                          *)
(*                                                                         *)
(* As in Engine, the memory holds what each sequence has read, and what an *)
(* output depends on stands for the output.  Positions count from 1.       *)
(* decode_shared(), of the official interop, is in Official.               *)
(***************************************************************************)
EXTENDS PrefixCache, FiniteSetsExt

CONSTANTS
  Setups,     \* how the engine may be set up: records of the fields below
  CallsOf(_), \* the calls of predict() on it: sequences of requests, each a sequence of rows
  MaxLength,  \* max_length, of the runner
  MinPrefix,  \* PREFIX_MIN_TOKENS
  CacheLimit  \* PREFIX_CACHE_LIMIT

\* A row has its tokens (ids), how many of them are of the state (prefix), the
\* position of the slot and those of the options, each of a marker of its own.
RowsOf(s) == UNION {UNION {Range(request) : request \in Range(c)} : c \in CallsOf(s)}

\* The positions a profile reads of a row, the slot first.
ReadsOf(s, r) == <<r.slot>> \o (IF s.embeddings THEN r.options ELSE <<>>)

ReadSet(s, r) == Range(ReadsOf(s, r))

\* shared      --shared-prefix
\* embeddings  the profile reads hidden states, of the slot and of every option
\* diffusion   the profile reads a masked position of a canvas (jad)
\* sequences   n_seq_max
SetupFields == {"shared", "embeddings", "diffusion", "sequences"}

ASSUME SideAssumption ==
  /\ {MaxLength, MinPrefix} \subseteq Nat \ {0} /\ CacheLimit \in Nat
  /\ \A s \in Setups :
       /\ SetupFields \subseteq DOMAIN s
       /\ {s.shared, s.embeddings, s.diffusion} \subseteq BOOLEAN /\ s.sequences \in Nat \ {0}
       /\ \A c \in CallsOf(s) :
            /\ c # <<>> /\ c \in Seq(Range(c))
            /\ \A i \in DOMAIN c : c[i] # <<>> /\ c[i] \in Seq(Range(c[i]))
       /\ \A r \in RowsOf(s) :
            /\ r.ids # <<>> /\ r.ids \in Seq(Range(r.ids)) /\ r.prefix \in Nat
            /\ ReadsOf(s, r) \in Seq(Nat \ {0}) /\ IsInjective(ReadsOf(s, r))

VARIABLES
  setup,    \* of the engine, for its life
  call,     \* the requests of the call in progress, or of the last one
  at,       \* the request being served
  phase,
  row,      \* its row being scored
  readings, \* per row scored, what the outputs the profile read depend on
  output,   \* the readings of the requests of the call already answered
  error,    \* how the last call ended
  memory,   \* [0..sequences - 1 -> what the sequence has read]
  offset,   \* runner::impl::offset
  base,     \* tokens in the memory when the last batch of decode() began
  prefixes, \* the checkpoints
  batch,    \* [active, ord, outputs]: the state of begin_batch()
  width     \* tokens in the last llama_process()

vars ==
  <<setup, call, at, phase, row, readings, output, error, memory, offset, base, prefixes, batch, width>>
servingVars == <<setup, call, at, row, readings, output, error>>

Cleared == [s \in 0..setup.sequences - 1 |-> <<>>]
NoBatch == [active |-> FALSE, ord |-> <<>>, outputs |-> <<>>]

Rows == IF at \in DOMAIN call THEN call[at] ELSE <<>>
Row == Rows[row]

TypeOK ==
  /\ setup \in Setups
  /\ call \in CallsOf(setup) \cup {<<>>}
  /\ at \in 1..Len(call) + 1
  /\ phase \in {"idle", "request", "batch", "row", "restore", "prefix", "rest", "read"}
  /\ row \in 1..Len(Rows) + 1 \/ row = 1
  /\ Len(readings) < row \/ phase = "idle"
  /\ error \in {"none", "input", "internal", "device"}
  /\ DOMAIN memory = DOMAIN Cleared
  /\ phase \in {"rest", "read"} /\ ~batch.active => offset \in {0, Row.prefix}
  /\ base \in Nat /\ width \in Nat
  /\ batch.active => DOMAIN batch.ord = DOMAIN Rows

Init ==
  /\ setup \in Setups
  /\ call = <<>> /\ at = 1 /\ row = 1 /\ readings = <<>> /\ output = <<>> /\ error = "none"
  /\ phase = "idle"
  /\ memory = Cleared /\ offset = 0 /\ base = 0
  /\ prefixes = EmptyCache
  /\ batch = NoBatch
  /\ width = 0

-----------------------------------------------------------------------------
(***************************************************************************)
(* side_engine::predict()                                                  *)
(***************************************************************************)
\* common_prefix(), of two rows or more: leaves every row a token and every read.
CommonPrefix(s, rows) ==
  Max({n \in 0..Len(rows[1].ids) :
         \A i \in DOMAIN rows :
           /\ n < Len(rows[i].ids)
           /\ SubSeq(rows[i].ids, 1, n) = SubSeq(rows[1].ids, 1, n)
           /\ \A p \in ReadSet(s, rows[i]) : n < p})

\* What it finds for every request there may be: it depends on the request alone.
SharedOf == [s \in Setups |-> [rows \in UNION {Range(c) : c \in CallsOf(s)} |-> CommonPrefix(s, rows)]]

Shared == SharedOf[setup][Rows]

\* Mutant: the tokens of the rows after the prefix are not counted in.
BatchTotal_PrefixOnly(rows, shared) == shared

BatchTotal(rows, shared) ==
  shared + FoldLeft(LAMBDA sum, r : sum + (Len(r.ids) - shared), 0, rows)

\* Mutant: rows of a diffusion profile are batched too.
Batchable_AnyProfile ==
  /\ setup.shared /\ Len(Rows) > 1
  /\ Shared > 0 /\ BatchTotal(Rows, Shared) <= MaxLength

Batchable ==
  /\ setup.shared /\ ~setup.diffusion /\ Len(Rows) > 1
  /\ Shared > 0 /\ BatchTotal(Rows, Shared) <= MaxLength

Predict(c) ==
  /\ phase = "idle"
  /\ call' = c /\ at' = 1 /\ row' = 1 /\ readings' = <<>> /\ output' = <<>>
  /\ error' = "none"
  /\ phase' = "request"
  /\ UNCHANGED <<setup, memory, offset, base, prefixes, batch, width>>

Return ==
  /\ phase = "request"
  /\ at > Len(call)
  /\ phase' = "idle"
  /\ UNCHANGED <<servingVars, memory, offset, base, prefixes, batch, width>>

PlanRequest ==
  /\ phase = "request"
  /\ at <= Len(call)
  /\ row' = 1 /\ readings' = <<>>
  /\ phase' = IF Batchable THEN "batch" ELSE "row"
  /\ UNCHANGED <<setup, call, at, output, error, memory, offset, base, prefixes, batch, width>>

\* end_batch(): the sequences made for the batch are freed.
EndBatch ==
  /\ batch' = NoBatch
  /\ memory' = IF batch.active THEN [Cleared EXCEPT ![0] = memory[0]] ELSE memory

\* Mutant: the handler of an exception does not end the batch.
Unwind_Open == UNCHANGED <<batch, memory>>

\* predict() leaves with an exception thrown while a row is scored.
Unwind == EndBatch

Throw(kind) ==
  /\ phase' = "idle"
  /\ error' = kind
  /\ UNCHANGED <<setup, call, at, row, readings, output>>

EndRequest ==
  /\ phase = "row"
  /\ row > Len(Rows)
  /\ EndBatch
  /\ output' = Append(output, readings)
  /\ at' = at + 1
  /\ row' = 1
  /\ readings' = <<>>
  /\ phase' = "request"
  /\ UNCHANGED <<setup, call, error, offset, base, prefixes, width>>

-----------------------------------------------------------------------------
(***************************************************************************)
(* runner::begin_batch(), select_row() and the reads of a batch.           *)
(***************************************************************************)
TooManyRows ==
  /\ phase = "batch"
  /\ Len(Rows) > setup.sequences
  /\ Throw("input")
  /\ UNCHANGED <<memory, offset, base, prefixes, batch, width>>

\* Row and position of each token of the tails; they are added row by row.
Tails(rows, shared) ==
  UNION {[seq : {r}, pos : shared + 1..Len(rows[r].ids)] : r \in DOMAIN rows}

NotAfter(t, u) == t.seq < u.seq \/ (t.seq = u.seq /\ t.pos <= u.pos)

\* The tokens flagged as outputs.
Flagged(s, rows, shared) == {t \in Tails(rows, shared) : t.pos \in ReadSet(s, rows[t.seq])}

\* The place of an output: llama keeps them in the order the tokens were added.
Place(tokens, t) == Cardinality({u \in tokens : NotAfter(u, t)})

\* The ordinal, from 0, a row's read is given: reads asked for before it are counted.
Ordinal(s, rows, shared, t) ==
  LET reads(u) == {k \in DOMAIN ReadsOf(s, rows[u.seq]) : ReadsOf(s, rows[u.seq])[k] = u.pos}
  IN  Cardinality(UNION {{u} \X reads(u) : u \in {u \in Flagged(s, rows, shared) : NotAfter(u, t)}}) - 1

\* The prefix of the first row is every sequence's; each adds the tail of its row.
BatchMemory(s, rows, shared) ==
  [q \in 0..s.sequences - 1 |->
     IF q + 1 \in DOMAIN rows
     THEN SubSeq(rows[1].ids, 1, shared) \o SubSeq(rows[q + 1].ids, shared + 1, Len(rows[q + 1].ids))
     ELSE <<>>]

BatchOf(s, rows, shared) ==
  LET flagged == Flagged(s, rows, shared)
      held    == BatchMemory(s, rows, shared)
      nth(j)  == CHOOSE t \in flagged : Place(flagged, t) = j
  IN  [active  |-> TRUE,
       ord     |-> [r \in DOMAIN rows |->
                      [p \in {t.pos : t \in {u \in flagged : u.seq = r}} |->
                         Ordinal(s, rows, shared, [seq |-> r, pos |-> p])]],
       outputs |-> [j \in 1..Cardinality(flagged) |->
                      SubSeq(held[nth(j).seq - 1], 1, nth(j).pos)]]

BeginBatch ==
  /\ phase = "batch"
  /\ Len(Rows) <= setup.sequences
  /\ \E rows \in {Rows}, shared \in {Shared} :
       /\ memory' = BatchMemory(setup, rows, shared)
       /\ batch' = BatchOf(setup, rows, shared)
       /\ width' = shared + Cardinality(Tails(rows, shared))
  /\ phase' = "row"
  /\ UNCHANGED <<servingVars, offset, base, prefixes>>

\* decode() returns at once while a batch is active.
SelectRow ==
  /\ phase = "row"
  /\ row <= Len(Rows)
  /\ batch.active
  /\ phase' = "read"
  /\ UNCHANGED <<servingVars, memory, offset, base, prefixes, batch, width>>

-----------------------------------------------------------------------------
(***************************************************************************)
(* runner::decode()                                                        *)
(***************************************************************************)
RejectRow ==
  /\ phase = "row"
  /\ row <= Len(Rows)
  /\ ~batch.active
  /\ Len(Row.ids) > MaxLength
  /\ Throw("input")
  /\ UNCHANGED <<memory, offset, base, prefixes, batch, width>>

PrefixIds == SubSeq(Row.ids, 1, Row.prefix)

\* The checkpoint must leave a token to decode; single rows are not kept.
Kept == ~setup.diffusion /\ Len(Rows) > 1 /\ Row.prefix >= MinPrefix /\ Row.prefix < Len(Row.ids)

\* Mutant: the memory still holds the row before.
StartMemory_Kept == memory

StartMemory == Cleared

\* Mutant: the outputs are still shifted by the prefix of the row before.
StartOffset_Kept == offset

StartOffset == 0

BeginRow ==
  /\ phase = "row"
  /\ row <= Len(Rows)
  /\ ~batch.active
  /\ Len(Row.ids) <= MaxLength
  /\ memory' = StartMemory
  /\ offset' = StartOffset
  /\ phase' = IF Kept THEN "restore" ELSE "rest"
  /\ UNCHANGED <<servingVars, base, prefixes, batch, width>>

Restore ==
  /\ phase = "restore"
  /\ Holds(prefixes, PrefixIds)
  /\ LET touched == Touch(prefixes, PrefixIds)
     IN  /\ Len(FrontState(touched)) = Row.prefix
         /\ memory' = [memory EXCEPT ![0] = FrontState(touched)]
         /\ prefixes' = touched
  /\ offset' = Row.prefix
  /\ phase' = "rest"
  /\ UNCHANGED <<servingVars, base, batch, width>>

\* llama does not take the checkpoint, whatever it has written of it.
RestoreFails ==
  /\ phase = "restore"
  /\ Holds(prefixes, PrefixIds)
  /\ prefixes' = DropFront(Touch(prefixes, PrefixIds))
  /\ memory' = Cleared
  /\ phase' = "prefix"
  /\ UNCHANGED <<servingVars, offset, base, batch, width>>

RestoreMisses ==
  /\ phase = "restore"
  /\ ~Holds(prefixes, PrefixIds)
  /\ phase' = "prefix"
  /\ UNCHANGED <<servingVars, memory, offset, base, prefixes, batch, width>>

\* The prefix is a batch of its own, checkpointed if llama hands its state out.
DecodePrefix ==
  /\ phase = "prefix"
  /\ memory' = [memory EXCEPT ![0] = @ \o PrefixIds]
  /\ \E state \in {memory[0] \o PrefixIds, <<>>} : prefixes' = Put(prefixes, PrefixIds, state, CacheLimit)
  /\ offset' = Row.prefix
  /\ width' = Row.prefix
  /\ phase' = "rest"
  /\ UNCHANGED <<servingVars, base, batch>>

DecodeRest ==
  /\ phase = "rest" /\ ~setup.diffusion
  /\ base' = Len(memory[0])
  /\ memory' = [memory EXCEPT ![0] = @ \o SubSeq(Row.ids, offset + 1, Len(Row.ids))]
  /\ width' = Len(Row.ids) - offset
  /\ phase' = "read"
  /\ UNCHANGED <<servingVars, offset, prefixes, batch>>

\* decode_canvas(): the row in one piece, every token seeing every other.
DecodeCanvas ==
  /\ phase = "rest" /\ setup.diffusion
  /\ base' = 0
  /\ memory' = [memory EXCEPT ![0] = @ \o Row.ids]
  /\ width' = Len(Row.ids)
  /\ phase' = "read"
  /\ UNCHANGED <<servingVars, offset, prefixes, batch>>

-----------------------------------------------------------------------------
(***************************************************************************)
(* logits_at() and embeddings_at(), as the profile's score() calls them.   *)
(***************************************************************************)
Readable(p) ==
  IF batch.active THEN p \in DOMAIN batch.ord[row]
  ELSE p \in offset + 1..Len(Row.ids) /\ (setup.embeddings \/ p = Row.slot)

OutputAt(p) ==
  IF batch.active THEN batch.outputs[batch.ord[row][p] + 1]
  ELSE IF setup.diffusion THEN memory[0]
  ELSE SubSeq(memory[0], 1, base + p - offset)

\* An unread position, one inside the prefix or one behind the row has no output.
ScoreRow ==
  /\ phase = "read"
  /\ IF \A p \in ReadSet(setup, Row) : Readable(p)
     THEN /\ readings' = Append(readings, [k \in DOMAIN ReadsOf(setup, Row) |-> OutputAt(ReadsOf(setup, Row)[k])])
          /\ row' = row + 1
          /\ phase' = "row"
          /\ UNCHANGED <<setup, call, at, output, error, memory, batch>>
     ELSE Throw("internal") /\ Unwind
  /\ UNCHANGED <<offset, base, prefixes, width>>

\* llama has no output to hand out.
OutputUnavailable ==
  /\ phase = "read"
  /\ Throw("device")
  /\ Unwind
  /\ UNCHANGED <<offset, base, prefixes, width>>

\* llama_process() fails, having written some of its tokens or none.
DeviceFails ==
  /\ phase \in {"batch", "prefix", "rest"}
  /\ phase = "batch" => Len(Rows) <= setup.sequences
  /\ Throw("device")
  /\ LET before == IF phase = "batch" THEN Cleared ELSE memory
     IN  \E s \in DOMAIN memory, n \in 0..1 :
           memory' = [before EXCEPT ![s] = @ \o SubSeq(Row.ids, 1, n)]
  /\ UNCHANGED <<offset, base, prefixes, batch, width>>

-----------------------------------------------------------------------------
Serving ==
  \/ Return \/ PlanRequest \/ EndRequest
  \/ TooManyRows \/ BeginBatch \/ SelectRow
  \/ RejectRow \/ BeginRow \/ Restore \/ RestoreFails \/ RestoreMisses
  \/ DecodePrefix \/ DecodeRest \/ DecodeCanvas
  \/ ScoreRow \/ OutputUnavailable \/ DeviceFails

Next == Serving \/ \E c \in CallsOf(setup) : Predict(c)

Spec == Init /\ [][Next]_vars

\* The thread in predict() runs on.
FairSpec == Spec /\ WF_vars(Serving)

-----------------------------------------------------------------------------
(***************************************************************************)
(* runner.hpp: "Either way the row scores the same."  What a profile reads *)
(* of a row depends on that row's own tokens up to the read position,      *)
(* whether its prefix was decoded, restored or shared in a batch, and      *)
(* whatever earlier rows, requests and failures have left behind.          *)
(***************************************************************************)
\* Behind the end of a row nothing can be read.
ReadUpTo(ids, p) == IF p \in DOMAIN ids THEN SubSeq(ids, 1, p) ELSE <<>>

\* What the readout of a row is to depend on: a canvas is read as a whole.
OwnReading(s, r) ==
  [k \in DOMAIN ReadsOf(s, r) |-> IF s.diffusion THEN r.ids ELSE ReadUpTo(r.ids, ReadsOf(s, r)[k])]

ReadsOwn == \A i \in DOMAIN readings : readings[i] = OwnReading(setup, Rows[i])

(***************************************************************************)
(* No batch outlives its request, even one that ends with an exception:    *)
(* decode() would skip the next request's rows and read this one's         *)
(* outputs.  After a request that was answered, nothing is left in the     *)
(* sequences made for its batch.                                           *)
(***************************************************************************)
BatchClosed ==
  phase \in {"idle", "request"} =>
    /\ batch = NoBatch
    /\ at > 1 /\ error = "none" => \A s \in DOMAIN memory \ {0} : memory[s] = <<>>

\* A request as it is put to an engine, and those that may be refused.
Posed(s, request) == [setup |-> s, rows |-> request]

Refusable(posed) ==
  \/ \E i \in DOMAIN posed.rows : Len(posed.rows[i].ids) > MaxLength
  \/ posed.setup.shared /\ ~posed.setup.diffusion /\ Len(posed.rows) > posed.setup.sequences

\* The checkpoint cache stays exact through restores that fail and rows that throw.
CheckpointsExact == Exact(prefixes, CacheLimit)

(***************************************************************************)
(* No llama_process() is given more tokens than the context takes in one   *)
(* go, which is max_length at least (runner.cpp, n_batch): rows share a    *)
(* batch only if they fit together.                                        *)
(***************************************************************************)
BatchFits == width <= MaxLength

(***************************************************************************)
(* predict() keeps the contract its callers rely on (Predictor): all the   *)
(* results or an exception, whatever was called before and however it      *)
(* ended, and every call comes back, the handlers of the HTTP server wait  *)
(* for it without a timeout.  An output is missing only if a profile asks  *)
(* for one its row does not have, which counts as a failure.               *)
(***************************************************************************)
Results(posed) == [i \in DOMAIN posed.rows |-> OwnReading(posed.setup, posed.rows[i])]

PosedCall(s, c) == [i \in DOMAIN c |-> Posed(s, c[i])]

PosedCalls == UNION {{PosedCall(s, c) : c \in CallsOf(s)} : s \in Setups}

\* A row is read behind its prefix and before its end.
ReadWithin(s, r) == ReadSet(s, r) \subseteq r.prefix + 1..Len(r.ids)

\* Some row of the call is not, which the readout finds when it is there.
Misread(s, c) == \E i \in DOMAIN c : \E r \in Range(c[i]) : ~ReadWithin(s, r)

Promise == INSTANCE Predictor WITH
  Calls <- PosedCalls,
  call <- PosedCall(setup, call),
  outcome <- IF phase # "idle" THEN [status |-> "pending", results |-> <<>>]
             ELSE IF error = "internal" /\ Misread(setup, call) THEN [status |-> "device", results |-> <<>>]
             ELSE IF error # "none" THEN [status |-> error, results |-> <<>>]
             ELSE IF call = <<>> THEN [status |-> "none", results |-> <<>>]
             ELSE [status |-> "results", results |-> output]

Contract == Promise!PredictorSpec

\* Its part without liveness.
SafeContract == Promise!SafePredictor
=============================================================================
